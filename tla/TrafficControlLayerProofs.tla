--------------------- MODULE TrafficControlLayerProofs ---------------------
(***************************************************************************)
(* Theorems about TrafficControlLayer, for any number of transmission      *)
(* queues, any queue discs and any packets.                                *)
(***************************************************************************)
EXTENDS TrafficControlLayer, TLAPS

\* Nothing has been queued, and Send has nowhere to queue, before the initialization.
EmptyBefore ==
  ~ initialized => queueDiscsToWake = <<>> /\ \A d \in Discs : backlog[d] = <<>>

\* Every packet in a queue disc has arrived, and is one for whose queue the disc is woken.
BacklogServed ==
  \A d \in Discs : \A i \in DOMAIN backlog[d] :
    /\ wakeCallback[txq[backlog[d][i]]] = d
    /\ \E j \in DOMAIN arrived : arrived[j] = backlog[d][i]

\* BacklogWaits, of the queue discs that are not being run.
OthersWait ==
  \A d \in Discs \ {running} : backlog[d] # <<>> => txq[Head(backlog[d])] \in stopped

\* The inductive invariant.
Inv == TypeOK /\ EmptyBefore /\ WokenIsServed /\ BacklogServed /\ OthersWait

-----------------------------------------------------------------------------
\* The queue disc that serves a queue is a queue disc.
LEMMA ServedIsDisc ==
  ASSUME NEW d \in Roots, NEW q \in TxQueues
  PROVE  Served(d, q) \in Discs
BY LayerAssumption DEF Served

\* The list that DoInitialize makes has an entry for every transmission queue.
LEMMA ListOfServed ==
  ASSUME NEW d \in Roots
  PROVE  LET l == <<>> \o [i \in 1 .. NTxQueues |-> Served(d, i - 1)]
         IN  /\ l \in Seq(Discs) /\ Len(l) = NTxQueues
             /\ \A q \in TxQueues : l[q + 1] = Served(d, q)
<1> DEFINE m == [i \in 1 .. NTxQueues |-> Served(d, i - 1)]
<1>1. NTxQueues \in Nat
  BY LayerAssumption
<1>2. \A i \in 1 .. NTxQueues : Served(d, i - 1) \in Discs
  <2> SUFFICES ASSUME NEW i \in 1 .. NTxQueues PROVE Served(d, i - 1) \in Discs
    OBVIOUS
  <2>1. i - 1 \in TxQueues
    BY <1>1 DEF TxQueues
  <2> QED
    BY <2>1, ServedIsDisc
<1>3. m \in Seq(Discs) /\ Len(m) = NTxQueues
  BY <1>1, <1>2
<1>4. <<>> \o m = m
  BY <1>3
<1>5. \A q \in TxQueues : m[q + 1] = Served(d, q)
  BY <1>1 DEF TxQueues
<1> QED
  BY <1>3, <1>4, <1>5

LEMMA InitInv == Init => Inv
<1> SUFFICES ASSUME Init PROVE Inv
  OBVIOUS
<1> USE LayerAssumption
<1>1. \A d \in Discs : backlog[d] = <<>>
  BY DEF Init
<1>2. TypeOK
  <2>1. 0 \in TxQueues
    BY DEF TxQueues
  <2>2. txq \in [Packets -> TxQueues] /\ wakeCallback \in [TxQueues -> Discs \cup {NoDisc}]
    BY <2>1 DEF Init
  <2>3. queueDiscsToWake \in Seq(Discs) /\ arrived \in Seq(Packets) /\ sent \in Seq(Packets)
    BY DEF Init
  <2>4. backlog \in [Discs -> Seq(Packets)]
    BY DEF Init
  <2> QED
    BY <2>2, <2>3, <2>4 DEF Init, TypeOK
<1>3. EmptyBefore
  BY <1>1 DEF Init, EmptyBefore
<1>4. WokenIsServed
  BY DEF Init, WokenIsServed, TxQueues
<1>5. BacklogServed
  BY <1>1 DEF BacklogServed
<1>6. OthersWait
  BY <1>1 DEF OthersWait
<1> QED
  BY <1>2, <1>3, <1>4, <1>5, <1>6 DEF Inv

-----------------------------------------------------------------------------
\* Setting the device up and installing a root change neither the wake list nor traffic.
LEMMA InstallInv ==
  ASSUME Inv, SetupDevice \/ \E d \in Roots : SetRootQueueDiscOnDevice(d)
  PROVE  Inv'
<1> USE DEF Inv
<1>1. UNCHANGED <<initialized, queueDiscsToWake, wakeCallback, traffic>>
  BY DEF SetupDevice, SetRootQueueDiscOnDevice
<1>2. TypeOK'
  BY DEF TypeOK, SetupDevice, SetRootQueueDiscOnDevice, traffic
<1>3. (EmptyBefore /\ WokenIsServed /\ BacklogServed /\ OthersWait)'
  BY <1>1 DEF EmptyBefore, WokenIsServed, BacklogServed, OthersWait, traffic
<1> QED
  BY <1>2, <1>3

\* Deleting the root empties the wake list and keeps the callbacks.
LEMMA DeleteInv ==
  ASSUME Inv, DeleteRootQueueDiscOnDevice
  PROVE  Inv'
<1> USE DEF Inv
<1>1. UNCHANGED <<initialized, wakeCallback, traffic>> /\ queueDiscsToWake' = <<>>
  BY DEF DeleteRootQueueDiscOnDevice
<1>2. TypeOK'
  BY DEF TypeOK, DeleteRootQueueDiscOnDevice, traffic
<1>3. WokenIsServed'
  BY <1>1 DEF WokenIsServed, TxQueues
<1>4. (EmptyBefore /\ BacklogServed /\ OthersWait)'
  BY <1>1 DEF EmptyBefore, BacklogServed, OthersWait, traffic
<1> QED
  BY <1>2, <1>3, <1>4

\* The callbacks change while all queue discs are empty.
LEMMA InitializeInv ==
  ASSUME Inv, DoInitialize
  PROVE  Inv'
<1> USE DEF Inv
<1>1. UNCHANGED <<setUp, root, installedLate, traffic>> /\ initialized' = TRUE /\ ~ initialized
  BY DEF DoInitialize
<1>2. queueDiscsToWake = <<>> /\ \A d \in Discs : backlog[d] = <<>>
  BY <1>1 DEF EmptyBefore
<1>3. \A d \in Discs : backlog'[d] = <<>>
  BY <1>1, <1>2 DEF traffic
<1>4. (EmptyBefore /\ BacklogServed /\ OthersWait)'
  BY <1>1, <1>3 DEF EmptyBefore, BacklogServed, OthersWait
<1>5. TypeOK' /\ WokenIsServed'
  <2>1. CASE root = NoDisc
    <3>1. UNCHANGED <<queueDiscsToWake, wakeCallback>>
      BY <2>1 DEF DoInitialize
    <3> QED
      BY <1>1, <3>1 DEF TypeOK, WokenIsServed, traffic
  <2>2. CASE root # NoDisc
    <3>1. /\ wakeCallback' = [q \in TxQueues |-> Served(root, q)]
          /\ queueDiscsToWake' = <<>> \o [i \in 1 .. NTxQueues |-> Served(root, i - 1)]
      BY <1>2, <2>2 DEF DoInitialize
    <3>2. root \in Roots
      BY <2>2 DEF TypeOK
    <3>3. /\ queueDiscsToWake' \in Seq(Discs)
          /\ \A q \in TxQueues : queueDiscsToWake'[q + 1] = Served(root, q)
      BY <3>1, <3>2, ListOfServed
    <3>4. wakeCallback' \in [TxQueues -> Discs \cup {NoDisc}]
      BY <3>1, <3>2, ServedIsDisc
    <3>5. TypeOK'
      BY <1>1, <3>3, <3>4 DEF TypeOK, traffic
    <3>6. WokenIsServed'
      BY <3>1, <3>3 DEF WokenIsServed
    <3> QED
      BY <3>5, <3>6
  <2> QED
    BY <2>1, <2>2
<1> QED
  BY <1>4, <1>5

\* A packet that arrives joins the queue disc that its queue wakes, or none.
LEMMA SendInv ==
  ASSUME Inv, NEW p \in Packets, NEW q \in TxQueues, Send(p, q)
  PROVE  Inv'
<1> USE DEF Inv
<1>1. /\ UNCHANGED config /\ initialized /\ running = NoDisc
      /\ arrived' = Append(arrived, p) /\ txq' = [txq EXCEPT ![p] = q]
      /\ \A i \in DOMAIN arrived : arrived[i] # p
  BY DEF Send
<1>2. /\ arrived' \in Seq(Packets) /\ txq' \in [Packets -> TxQueues]
      /\ txq'[p] = q /\ \A r \in Packets \ {p} : txq'[r] = txq[r]
  BY <1>1 DEF TypeOK
<1>3. DOMAIN arrived' = DOMAIN arrived \cup {Len(arrived) + 1} /\ arrived'[Len(arrived) + 1] = p
      /\ \A i \in DOMAIN arrived : arrived'[i] = arrived[i]
  BY <1>1 DEF TypeOK
<1>4. ASSUME NEW d \in Discs, NEW i \in DOMAIN backlog[d]
      PROVE  /\ backlog[d][i] \in Packets \ {p} /\ txq'[backlog[d][i]] = txq[backlog[d][i]]
             /\ wakeCallback'[txq'[backlog[d][i]]] = d
             /\ \E j \in DOMAIN arrived' : arrived'[j] = backlog[d][i]
  <2>1. PICK j \in DOMAIN arrived : arrived[j] = backlog[d][i]
    BY <1>4 DEF BacklogServed
  <2>2. backlog[d][i] \in Packets \ {p}
    BY <1>1, <2>1 DEF TypeOK
  <2>3. wakeCallback'[txq[backlog[d][i]]] = d
    BY <1>1, <1>4 DEF BacklogServed, config
  <2> QED
    BY <1>2, <1>3, <2>1, <2>2, <2>3
<1>5. ASSUME NEW d \in Discs, backlog[d] # <<>>
      PROVE  Head(backlog[d]) = backlog[d][1] /\ 1 \in DOMAIN backlog[d]
             /\ txq'[Head(backlog[d])] = txq[Head(backlog[d])]
  <2>1. Head(backlog[d]) = backlog[d][1] /\ 1 \in DOMAIN backlog[d]
    BY <1>5 DEF TypeOK
  <2> QED
    BY <2>1, <1>4
<1>6. (EmptyBefore /\ WokenIsServed)'
  BY <1>1 DEF EmptyBefore, WokenIsServed, config
<1>7. CASE SendDirectly(p, q)
  <2>1. UNCHANGED <<running, backlog>> /\ stopped \subseteq stopped' /\ stopped' \subseteq TxQueues
        /\ sent' \in Seq(Packets)
    <3>1. CASE DeviceSend(p, q)
      <4>1. sent' \in Seq(Packets)
        BY <3>1 DEF DeviceSend, TypeOK
      <4>2. stopped \subseteq stopped' /\ stopped' \subseteq TxQueues
        BY <3>1 DEF DeviceSend, TypeOK
      <4> QED
        BY <1>7, <4>1, <4>2 DEF SendDirectly
    <3>2. CASE UNCHANGED <<sent, stopped>>
      BY <1>7, <3>2 DEF SendDirectly, TypeOK
    <3> QED
      BY <1>7, <3>1, <3>2 DEF SendDirectly
  <2>2. TypeOK'
    BY <1>1, <1>2, <2>1 DEF TypeOK, config
  <2>3. BacklogServed'
    BY <1>4, <2>1 DEF BacklogServed
  <2>4. OthersWait'
    BY <1>5, <2>1 DEF OthersWait
  <2> QED
    BY <1>6, <2>2, <2>3, <2>4
<1>8. CASE SendEnqueued(p, q)
  <2> DEFINE e == queueDiscsToWake[q + 1]
  <2>1. q < Len(queueDiscsToWake) /\ e \in Discs /\ wakeCallback[q] = e
    BY <1>8 DEF SendEnqueued, TypeOK, WokenIsServed, TxQueues
  <2>2. /\ backlog' = [backlog EXCEPT ![e] = Append(@, p)]
        /\ running' = e /\ UNCHANGED <<sent, stopped>>
    BY <1>8 DEF SendEnqueued
  <2> HIDE DEF e
  <2>3. TypeOK'
    BY <1>1, <1>2, <2>1, <2>2 DEF TypeOK, config
  <2>4. BacklogServed'
    <3> SUFFICES ASSUME NEW d \in Discs, NEW i \in DOMAIN backlog'[d]
                 PROVE  /\ wakeCallback'[txq'[backlog'[d][i]]] = d
                        /\ \E j \in DOMAIN arrived' : arrived'[j] = backlog'[d][i]
      BY DEF BacklogServed
    <3>1. CASE d = e /\ i = Len(backlog[e]) + 1
      <4>1. backlog'[d][i] = p
        BY <2>1, <2>2, <3>1 DEF TypeOK
      <4> QED
        BY <4>1, <3>1, <1>1, <1>2, <1>3, <2>1 DEF config
    <3>2. CASE ~ (d = e /\ i = Len(backlog[e]) + 1)
      <4>1. i \in DOMAIN backlog[d] /\ backlog'[d][i] = backlog[d][i]
        BY <2>1, <2>2, <3>2 DEF TypeOK
      <4> QED
        BY <4>1, <1>4
    <3> QED
      BY <3>1, <3>2
  <2>5. OthersWait'
    <3> SUFFICES ASSUME NEW d \in Discs \ {e}, backlog'[d] # <<>>
                 PROVE  txq'[Head(backlog'[d])] \in stopped'
      BY <2>2 DEF OthersWait
    <3>1. backlog'[d] = backlog[d] /\ d # running
      BY <2>1, <2>2, <1>1, LayerAssumption DEF TypeOK
    <3> QED
      BY <3>1, <1>5, <2>2 DEF OthersWait
  <2> QED
    BY <1>6, <2>3, <2>4, <2>5
<1> QED
  BY <1>7, <1>8 DEF Send

\* A run takes packets from the queue disc that is being run; queues may be stopped.
LEMMA RunPassInv ==
  ASSUME Inv, RunPass
  PROVE  Inv'
<1> USE DEF Inv
<1>1. /\ running \in Discs /\ backlog[running] # <<>>
      /\ UNCHANGED <<config, running, txq, arrived>>
      /\ backlog' = [backlog EXCEPT ![running] = Tail(@)]
  BY DEF RunPass, CanPass, TypeOK
<1>2. Head(backlog[running]) \in Packets
  BY <1>1 DEF TypeOK
<1>3. sent' \in Seq(Packets) /\ stopped \subseteq stopped' /\ stopped' \subseteq TxQueues
  BY <1>2 DEF RunPass, DeviceSend, TypeOK
<1>4. TypeOK'
  BY <1>1, <1>3 DEF TypeOK, config
<1>5. (EmptyBefore /\ WokenIsServed)'
  <2>1. initialized
    BY <1>1 DEF EmptyBefore
  <2> QED
    BY <1>1, <2>1 DEF EmptyBefore, WokenIsServed, config
<1>6. BacklogServed'
  <2> SUFFICES ASSUME NEW d \in Discs, NEW i \in DOMAIN backlog'[d]
               PROVE  /\ wakeCallback[txq[backlog'[d][i]]] = d
                      /\ \E j \in DOMAIN arrived : arrived[j] = backlog'[d][i]
    BY <1>1 DEF BacklogServed, config
  <2>1. \E k \in DOMAIN backlog[d] : backlog'[d][i] = backlog[d][k]
    <3>1. CASE d = running
      <4>1. i + 1 \in DOMAIN backlog[d] /\ backlog'[d][i] = backlog[d][i + 1]
        BY <1>1, <3>1 DEF TypeOK
      <4> QED
        BY <4>1
    <3>2. CASE d # running
      BY <1>1, <3>2 DEF TypeOK
    <3> QED
      BY <3>1, <3>2
  <2> QED
    BY <2>1 DEF BacklogServed
<1>7. OthersWait'
  BY <1>1, <1>3 DEF OthersWait, TypeOK
<1> QED
  BY <1>4, <1>5, <1>6, <1>7

\* The head of a backlog belongs to a queue that wakes its queue disc.
LEMMA HeadServed ==
  ASSUME Inv, NEW d \in Discs, backlog[d] # <<>>
  PROVE  Head(backlog[d]) \in Packets /\ wakeCallback[txq[Head(backlog[d])]] = d
<1>1. 1 \in DOMAIN backlog[d] /\ Head(backlog[d]) = backlog[d][1] /\ backlog[d][1] \in Packets
  BY DEF Inv, TypeOK
<1> QED
  BY <1>1 DEF Inv, BacklogServed

\* A run ends when its queue disc is empty or waits as well.
LEMMA RunEndInv ==
  ASSUME Inv, RunEnd
  PROVE  Inv'
<1> USE DEF Inv
<1>1. /\ UNCHANGED <<config, stopped, backlog, txq, arrived, sent>>
      /\ running' = NoDisc /\ ~ CanPass(running)
  BY DEF RunEnd
<1>2. TypeOK'
  BY <1>1 DEF TypeOK, config
<1>3. (EmptyBefore /\ WokenIsServed /\ BacklogServed)'
  BY <1>1 DEF EmptyBefore, WokenIsServed, BacklogServed, config
<1>4. OthersWait'
  BY <1>1 DEF OthersWait, CanPass
<1> QED
  BY <1>2, <1>3, <1>4

\* The queue disc that waited for the queue that is woken is the one that is run.
LEMMA WakeInv ==
  ASSUME Inv, NEW q \in TxQueues, Wake(q)
  PROVE  Inv'
<1> USE DEF Inv
<1>1. /\ UNCHANGED <<config, backlog, txq, arrived, sent>> /\ running = NoDisc
      /\ stopped' = stopped \ {q} /\ running' = wakeCallback[q]
  BY DEF Wake
<1>2. TypeOK'
  BY <1>1 DEF TypeOK, config
<1>3. (EmptyBefore /\ WokenIsServed /\ BacklogServed)'
  BY <1>1 DEF EmptyBefore, WokenIsServed, BacklogServed, config
<1>4. OthersWait'
  <2> SUFFICES ASSUME NEW d \in Discs \ {wakeCallback[q]}, backlog[d] # <<>>
               PROVE  txq[Head(backlog[d])] \in stopped \ {q}
    BY <1>1 DEF OthersWait
  <2>1. txq[Head(backlog[d])] \in stopped
    BY <1>1, LayerAssumption DEF OthersWait
  <2>2. txq[Head(backlog[d])] # q
    BY HeadServed
  <2> QED
    BY <2>1, <2>2
<1> QED
  BY <1>2, <1>3, <1>4

\* A stuttering step.
LEMMA StutterInv ==
  ASSUME Inv, UNCHANGED vars
  PROVE  Inv'
BY DEF Inv, TypeOK, EmptyBefore, WokenIsServed, BacklogServed, OthersWait, vars, config, traffic

\* The invariant holds in every reachable state.
THEOREM LayerInvariant == Spec => []Inv
<1>1. Inv /\ [Next]_vars => Inv'
  BY InstallInv, DeleteInv, InitializeInv, SendInv, RunPassInv, RunEndInv, WakeInv, StutterInv
  DEF Next
<1> QED
  BY InitInv, <1>1, PTL DEF Spec

-----------------------------------------------------------------------------
\* Every variable keeps its type, for any number of transmission queues.
THEOREM LayerTypeCorrect == Spec => []TypeOK
<1>1. Inv => TypeOK
  BY DEF Inv
<1> QED
  BY LayerInvariant, <1>1, PTL

\* Send and the wake callbacks agree on the queue disc of a transmission queue, also when
\* roots are deleted and installed after the initialization.
THEOREM WokenDiscIsServed == Spec => []WokenIsServed
<1>1. Inv => WokenIsServed
  BY DEF Inv
<1> QED
  BY LayerInvariant, <1>1, PTL

\* No backlog is left without a wake-up, that of a deleted root included.
THEOREM BacklogIsWoken == Spec => []BacklogWaits
<1>1. Inv => BacklogWaits
  <2> SUFFICES ASSUME Inv, running = NoDisc, NEW d \in Discs, backlog[d] # <<>>
               PROVE  /\ txq[Head(backlog[d])] \in stopped
                      /\ wakeCallback[txq[Head(backlog[d])]] = d
    BY DEF BacklogWaits
  <2>1. txq[Head(backlog[d])] \in stopped
    BY LayerAssumption DEF Inv, OthersWait
  <2> QED
    BY <2>1, HeadServed
<1> QED
  BY LayerInvariant, <1>1, PTL

-----------------------------------------------------------------------------
\* What SendHasDisc needs of the list and the order of its making.
ListComplete ==
  /\ root # NoDisc /\ ~ initialized => ~ installedLate
  /\ root = NoDisc \/ installedLate => queueDiscsToWake = <<>>
  /\ ~ initialized => queueDiscsToWake = <<>>
  /\ SendHasDisc

\* In whatever order roots are installed, initialized, deleted and replaced, Send finds a
\* queue disc for every transmission queue under a root that was installed before the
\* initialization, and none under one that was installed after it.
THEOREM SendFindsDisc == Spec => []SendHasDisc
<1>1. Init => ListComplete
  BY DEF Init, ListComplete, SendHasDisc
<1>2. Inv /\ ListComplete /\ [Next]_vars => ListComplete'
  <2> SUFFICES ASSUME Inv, ListComplete, [Next]_vars PROVE ListComplete'
    OBVIOUS
  <2> USE DEF ListComplete, SendHasDisc
  <2>1. CASE UNCHANGED config
    BY <2>1 DEF config
  <2>2. CASE SetupDevice
    BY <2>2 DEF SetupDevice
  <2>3. ASSUME NEW d \in Roots, SetRootQueueDiscOnDevice(d) PROVE ListComplete'
    BY <2>3 DEF SetRootQueueDiscOnDevice
  <2>4. CASE DeleteRootQueueDiscOnDevice
    BY <2>4 DEF DeleteRootQueueDiscOnDevice
  <2>5. CASE DoInitialize
    <3>1. CASE root = NoDisc
      BY <2>5, <3>1 DEF DoInitialize
    <3>2. CASE root # NoDisc
      <4>1. root \in Roots /\ queueDiscsToWake = <<>> /\ initialized'
        BY <2>5, <3>2 DEF DoInitialize, Inv, TypeOK
      <4>2. queueDiscsToWake' = <<>> \o [i \in 1 .. NTxQueues |-> Served(root, i - 1)]
        BY <2>5, <3>2, <4>1 DEF DoInitialize
      <4>3. Len(queueDiscsToWake') = NTxQueues
        BY <4>1, <4>2, ListOfServed
      <4>4. ~ installedLate' /\ root' = root
        BY <2>5, <3>2 DEF DoInitialize
      <4> QED
        BY <3>2, <4>1, <4>3, <4>4
    <3> QED
      BY <3>1, <3>2
  <2> QED
    BY <2>1, <2>2, <2>3, <2>4, <2>5
    DEF Next, vars, Send, RunPass, RunEnd, Wake
<1>3. ListComplete => SendHasDisc
  BY DEF ListComplete
<1> QED
  BY <1>1, <1>2, <1>3, LayerInvariant, PTL DEF Spec
-----------------------------------------------------------------------------
\* The callbacks that DoInitialize sets serve the queues under one root.
OneRootWoken ==
  \/ \A q \in TxQueues : wakeCallback[q] = NoDisc
  \/ \E d \in Roots : \A q \in TxQueues : wakeCallback[q] = Served(d, q)

\* Packets arrive once, before they are sent, and none before the initialization.
ArrivedFirst ==
  /\ \A a, b \in DOMAIN arrived : arrived[a] = arrived[b] => a = b
  /\ \A i \in DOMAIN sent : \E a \in DOMAIN arrived : arrived[a] = sent[i]
  /\ ~ initialized => sent = <<>>

\* No queue disc that is woken is a root.
ChildrenWoken == \A q \in TxQueues : wakeCallback[q] \notin Roots

\* In the sequence s, p comes before r and not after it.
Precedes(s, p, r) == \A a, b \in DOMAIN s : s[a] = p /\ s[b] = r => a < b

\* The packets of a transmission queue in the order of their arrival, those that were sent
\* before those that wait.
QueuedInOrder ==
  \A d \in Discs : \A i, j \in DOMAIN backlog[d] : i < j => Precedes(arrived, backlog[d][i], backlog[d][j])

SentInOrder ==
  \A i, j \in DOMAIN sent : i < j /\ txq[sent[i]] = txq[sent[j]] => Precedes(arrived, sent[i], sent[j])

SentBeforeQueued ==
  \A i \in DOMAIN sent, d \in Discs : \A j \in DOMAIN backlog[d] :
    txq[sent[i]] = txq[backlog[d][j]] => Precedes(arrived, sent[i], backlog[d][j])

\* The inductive invariant of the order.
OrderInv ==
  /\ OneRootWoken /\ ArrivedFirst
  /\ ChildrenWoken => QueuedInOrder /\ SentInOrder /\ SentBeforeQueued

\* A root that wakes its children has one for each transmission queue.
ChildPerQueue ==
  \A d \in WakeChild : \A q, r \in TxQueues : ChildOf[d][q] = ChildOf[d][r] => q = r

\* Then a queue disc that is woken, no root itself, is woken by one queue only.
LEMMA OneQueuePerChild ==
  ASSUME ChildPerQueue, OneRootWoken, ChildrenWoken, NEW d \in Discs,
         NEW q \in TxQueues, NEW r \in TxQueues, wakeCallback[q] = d, wakeCallback[r] = d
  PROVE  q = r
<1>1. PICK e \in Roots : \A t \in TxQueues : wakeCallback[t] = Served(e, t)
  BY LayerAssumption DEF OneRootWoken
<1>2. e \in WakeChild
  BY <1>1 DEF ChildrenWoken, Served
<1> QED
  BY <1>1, <1>2 DEF Served, ChildPerQueue

\* The packets of a backlog all wait for the same transmission queue.
LEMMA BacklogOfOneQueue ==
  ASSUME ChildPerQueue, OneRootWoken, ChildrenWoken, Inv,
         NEW d \in Discs, NEW e \in Discs, NEW i \in DOMAIN backlog[d], NEW j \in DOMAIN backlog[e],
         txq[backlog[d][i]] = txq[backlog[e][j]]
  PROVE  d = e /\ txq[Head(backlog[d])] = txq[backlog[d][i]]
<1>1. /\ backlog[d] # <<>> /\ backlog[d][i] \in Packets
      /\ 1 \in DOMAIN backlog[d] /\ Head(backlog[d]) = backlog[d][1] /\ backlog[d][1] \in Packets
  BY DEF Inv, TypeOK
<1>2. /\ wakeCallback[txq[backlog[d][i]]] = d /\ wakeCallback[txq[backlog[e][j]]] = e
      /\ wakeCallback[txq[backlog[d][1]]] = d
  BY <1>1 DEF Inv, BacklogServed
<1>3. txq[backlog[d][i]] \in TxQueues /\ txq[backlog[d][1]] \in TxQueues
  BY <1>1 DEF Inv, TypeOK
<1> QED
  BY <1>1, <1>2, <1>3, OneQueuePerChild

LEMMA InitOrder == Init => OrderInv
BY DEF Init, OrderInv, OneRootWoken, ArrivedFirst, QueuedInOrder, SentInOrder, SentBeforeQueued

\* Nothing but arrivals and the device touches the order, once the callbacks are set.
LEMMA ConfigOrder ==
  ASSUME Inv, OrderInv, UNCHANGED traffic,
         UNCHANGED wakeCallback \/ DoInitialize, initialized => initialized'
  PROVE  OrderInv'
<1> USE DEF OrderInv
<1>1. CASE UNCHANGED wakeCallback
  <2>1. (OneRootWoken /\ ArrivedFirst)'
    BY <1>1 DEF OneRootWoken, ArrivedFirst, traffic
  <2>2. (ChildrenWoken => QueuedInOrder /\ SentInOrder /\ SentBeforeQueued)'
    BY <1>1 DEF ChildrenWoken, QueuedInOrder, SentInOrder, SentBeforeQueued, Precedes, traffic
  <2> QED
    BY <2>1, <2>2
<1>2. CASE DoInitialize
  <2>1. sent' = <<>> /\ \A d \in Discs : backlog'[d] = <<>>
    BY <1>2 DEF DoInitialize, ArrivedFirst, traffic, Inv, EmptyBefore
  <2>2. (QueuedInOrder /\ SentInOrder /\ SentBeforeQueued)'
    BY <2>1 DEF QueuedInOrder, SentInOrder, SentBeforeQueued
  <2>3. ArrivedFirst'
    BY <2>1, <1>2 DEF ArrivedFirst, DoInitialize, traffic
  <2>4. OneRootWoken'
    BY <1>2 DEF OneRootWoken, DoInitialize, Inv, TypeOK
  <2> QED
    BY <2>2, <2>3, <2>4
<1> QED
  BY <1>1, <1>2

\* An arrival comes after everything that has arrived; it is sent at once only if no packet
\* of its queue waits.
LEMMA SendOrder ==
  ASSUME ChildPerQueue, Inv, OrderInv, NEW p \in Packets, NEW q \in TxQueues, Send(p, q)
  PROVE  OrderInv'
<1> USE DEF OrderInv
<1> DEFINE n == Len(arrived) + 1
<1>1. /\ UNCHANGED config /\ initialized /\ running = NoDisc
      /\ arrived' = Append(arrived, p) /\ txq' = [txq EXCEPT ![p] = q]
      /\ \A a \in DOMAIN arrived : arrived[a] # p
  BY DEF Send
<1>2. /\ n \in Nat \ {0} /\ DOMAIN arrived = 1 .. (n - 1) /\ DOMAIN arrived' = 1 .. n
      /\ arrived'[n] = p /\ \A a \in DOMAIN arrived : arrived'[a] = arrived[a]
  BY <1>1 DEF Inv, TypeOK
<1>3. \A r \in Packets : r # p => txq'[r] = txq[r]
  BY <1>1 DEF Inv, TypeOK
<1>4. txq'[p] = q
  BY <1>1 DEF Inv, TypeOK
<1> HIDE DEF n
<1>5. ASSUME NEW r, NEW s, r # p, Precedes(arrived, r, s) \/ s = p
      PROVE  Precedes(arrived', r, s)
  <2> SUFFICES ASSUME NEW a \in DOMAIN arrived', NEW b \in DOMAIN arrived',
                      arrived'[a] = r, arrived'[b] = s
               PROVE  a < b
    BY DEF Precedes
  <2>1. a \in DOMAIN arrived /\ arrived[a] = r
    BY <1>2, <1>5
  <2>2. CASE b = n
    BY <1>2, <2>1, <2>2
  <2>3. CASE b # n
    <3>1. b \in DOMAIN arrived /\ arrived[b] = s
      BY <1>2, <2>3
    <3> QED
      BY <1>1, <1>5, <2>1, <3>1 DEF Precedes
  <2> QED
    BY <2>2, <2>3
<1>6. \A d \in Discs : \A i \in DOMAIN backlog[d] : backlog[d][i] \in Packets /\ backlog[d][i] # p
  BY <1>1 DEF Inv, TypeOK, BacklogServed
<1>7. \A i \in DOMAIN sent : sent[i] \in Packets /\ sent[i] # p
  BY <1>1 DEF ArrivedFirst, Inv, TypeOK
<1>8. (\A a, b \in DOMAIN arrived : arrived[a] = arrived[b] => a = b)'
  BY <1>1, <1>2 DEF ArrivedFirst
<1>9. OneRootWoken' /\ (ChildrenWoken' => ChildrenWoken)
  BY <1>1 DEF OneRootWoken, ChildrenWoken, config
<1>10. \A i \in DOMAIN sent : \E a \in DOMAIN arrived' : arrived'[a] = sent[i]
  BY <1>2 DEF ArrivedFirst
<1>11. CASE sent' = sent /\ UNCHANGED backlog
  <2>1. ArrivedFirst'
    BY <1>1, <1>8, <1>10, <1>11 DEF ArrivedFirst, config
  <2>2. ASSUME ChildrenWoken
        PROVE  (QueuedInOrder /\ SentInOrder /\ SentBeforeQueued)'
    BY <1>3, <1>5, <1>6, <1>7, <1>11, <2>2 DEF QueuedInOrder, SentInOrder, SentBeforeQueued
  <2> QED
    BY <1>9, <2>1, <2>2
<1>12. CASE SendDirectly(p, q) /\ DeviceSend(p, q)
  <2>1. sent' = Append(sent, p) /\ UNCHANGED backlog /\ initialized'
    BY <1>1, <1>12 DEF SendDirectly, DeviceSend, config
  <2>2. q \notin stopped \/ sent' = sent
    BY <1>12 DEF SendDirectly
  <2>3. /\ DOMAIN sent' = DOMAIN sent \cup {Len(sent) + 1} /\ sent'[Len(sent) + 1] = p
        /\ \A i \in DOMAIN sent : sent'[i] = sent[i] /\ i < Len(sent) + 1
    BY <2>1 DEF Inv, TypeOK
  <2>4. q \notin stopped
    BY <2>1, <2>2, <2>3
  <2>5. ArrivedFirst'
    <3>1. n \in DOMAIN arrived' /\ arrived'[n] = p
      BY <1>2
    <3> QED
      BY <1>8, <1>10, <2>1, <2>3, <3>1 DEF ArrivedFirst
  <2>6. ASSUME ChildrenWoken
        PROVE  (QueuedInOrder /\ SentInOrder /\ SentBeforeQueued)'
    <3>1. QueuedInOrder'
      BY <1>5, <1>6, <2>1, <2>6 DEF QueuedInOrder
    <3>2. SentInOrder'
      <4> SUFFICES ASSUME NEW i \in DOMAIN sent', NEW j \in DOMAIN sent', i < j,
                          txq'[sent'[i]] = txq'[sent'[j]]
                   PROVE  Precedes(arrived', sent'[i], sent'[j])
        BY DEF SentInOrder
      <4>1. i \in DOMAIN sent /\ sent'[i] = sent[i]
        BY <2>1, <2>3 DEF Inv, TypeOK
      <4>2. CASE sent'[j] = p
        BY <1>5, <1>7, <4>1, <4>2
      <4>3. CASE sent'[j] # p
        BY <1>3, <1>5, <1>7, <2>3, <2>6, <4>1, <4>3 DEF SentInOrder
      <4> QED
        BY <4>2, <4>3
    <3>3. ASSUME NEW d \in Discs, NEW j \in DOMAIN backlog[d]
          PROVE  txq[backlog[d][j]] # q
      <4>1. backlog[d] # <<>> /\ d # running
        BY <1>1, LayerAssumption DEF Inv, TypeOK
      <4>2. txq[Head(backlog[d])] \in stopped
        BY <4>1 DEF Inv, OthersWait
      <4> QED
        BY <2>4, <2>6, <4>2, BacklogOfOneQueue
    <3>4. SentBeforeQueued'
      BY <1>3, <1>4, <1>5, <1>6, <1>7, <2>1, <2>3, <2>6, <3>3 DEF SentBeforeQueued
    <3> QED
      BY <3>1, <3>2, <3>4
  <2> QED
    BY <1>9, <2>5, <2>6
<1>13. CASE SendEnqueued(p, q)
  <2> DEFINE e == queueDiscsToWake[q + 1]
             k == Len(backlog[e]) + 1
  <2>1. e \in Discs /\ UNCHANGED sent /\ backlog' = [backlog EXCEPT ![e] = Append(@, p)]
    BY <1>13 DEF SendEnqueued, Inv, TypeOK, TxQueues
  <2> HIDE DEF e
  <2>2. /\ DOMAIN backlog'[e] = DOMAIN backlog[e] \cup {k} /\ backlog'[e][k] = p
        /\ \A j \in DOMAIN backlog[e] : backlog'[e][j] = backlog[e][j] /\ j < k
        /\ \A d \in Discs : d # e => backlog'[d] = backlog[d]
    BY <2>1 DEF Inv, TypeOK
  <2>3. ArrivedFirst'
    BY <1>1, <1>8, <1>10, <2>1 DEF ArrivedFirst, config
  <2>4. ASSUME ChildrenWoken
        PROVE  (QueuedInOrder /\ SentInOrder /\ SentBeforeQueued)'
    <3>1. QueuedInOrder'
      <4> SUFFICES ASSUME NEW d \in Discs, NEW i \in DOMAIN backlog'[d],
                          NEW j \in DOMAIN backlog'[d], i < j
                   PROVE  Precedes(arrived', backlog'[d][i], backlog'[d][j])
        BY DEF QueuedInOrder
      <4>1. CASE d = e
        <5>1. i \in DOMAIN backlog[e] /\ backlog'[e][i] = backlog[e][i]
          BY <2>1, <2>2, <4>1 DEF Inv, TypeOK
        <5> QED
          BY <1>5, <1>6, <2>1, <2>2, <2>4, <4>1, <5>1 DEF QueuedInOrder
      <4>2. CASE d # e
        BY <1>5, <1>6, <2>2, <2>4, <4>2 DEF QueuedInOrder
      <4> QED
        BY <4>1, <4>2
    <3>2. SentInOrder'
      BY <1>3, <1>5, <1>7, <2>1, <2>4 DEF SentInOrder
    <3>3. SentBeforeQueued'
      <4> SUFFICES ASSUME NEW i \in DOMAIN sent, NEW d \in Discs, NEW j \in DOMAIN backlog'[d],
                          txq'[sent[i]] = txq'[backlog'[d][j]]
                   PROVE  Precedes(arrived', sent[i], backlog'[d][j])
        BY <2>1 DEF SentBeforeQueued
      <4>1. CASE backlog'[d][j] = p
        BY <1>5, <1>7, <4>1
      <4>2. CASE backlog'[d][j] # p
        <5>1. j \in DOMAIN backlog[d] /\ backlog'[d][j] = backlog[d][j]
          BY <2>2, <4>2
        <5> QED
          BY <1>3, <1>5, <1>6, <1>7, <2>4, <5>1 DEF SentBeforeQueued
      <4> QED
        BY <4>1, <4>2
    <3> QED
      BY <3>1, <3>2, <3>3
  <2> QED
    BY <1>9, <2>3, <2>4
<1> QED
  BY <1>11, <1>12, <1>13 DEF Send, SendDirectly

\* A run sends the first packet of a backlog, after those of its queue that were sent and
\* before those that wait.
LEMMA RunPassOrder ==
  ASSUME ChildPerQueue, Inv, OrderInv, RunPass
  PROVE  OrderInv'
<1> USE DEF OrderInv
<1> DEFINE d == running
           p == Head(backlog[d])
           n == Len(sent) + 1
<1>1. /\ d \in Discs /\ backlog[d] # <<>>
      /\ UNCHANGED <<config, running, txq, arrived>>
      /\ backlog' = [backlog EXCEPT ![d] = Tail(@)]
      /\ sent' = Append(sent, p)
  BY DEF RunPass, CanPass, DeviceSend, Inv, TypeOK
<1> HIDE DEF d
<1>2. p = backlog[d][1] /\ 1 \in DOMAIN backlog[d] /\ p \in Packets
  BY <1>1 DEF Inv, TypeOK
<1>3. initialized
  BY <1>1 DEF Inv, EmptyBefore
<1>4. /\ DOMAIN sent' = DOMAIN sent \cup {n} /\ sent'[n] = p
      /\ \A i \in DOMAIN sent : sent'[i] = sent[i] /\ i < n
  BY <1>1, <1>2 DEF Inv, TypeOK
<1>5. /\ \A j \in DOMAIN backlog'[d] : j + 1 \in DOMAIN backlog[d] /\ backlog'[d][j] = backlog[d][j + 1]
                                        /\ j \in Nat \ {0}
      /\ \A e \in Discs : e # d => backlog'[e] = backlog[e]
  BY <1>1 DEF Inv, TypeOK
<1> HIDE DEF p, n
<1>6. \E a \in DOMAIN arrived : arrived[a] = p
  BY <1>1, <1>2 DEF Inv, BacklogServed
<1>7. ArrivedFirst'
  BY <1>1, <1>3, <1>4, <1>6 DEF ArrivedFirst, config
<1>8. OneRootWoken' /\ (ChildrenWoken' => ChildrenWoken)
  BY <1>1 DEF OneRootWoken, ChildrenWoken, config
<1>9. ASSUME ChildrenWoken
      PROVE  (QueuedInOrder /\ SentInOrder /\ SentBeforeQueued)'
  <2>1. QueuedInOrder'
    <3> SUFFICES ASSUME NEW e \in Discs, NEW i \in DOMAIN backlog'[e],
                        NEW j \in DOMAIN backlog'[e], i < j
                 PROVE  Precedes(arrived, backlog'[e][i], backlog'[e][j])
      BY <1>1 DEF QueuedInOrder, Precedes
    <3>1. CASE e = d
      <4>1. i + 1 < j + 1
        BY <1>5, <3>1
      <4> QED
        BY <1>1, <1>5, <1>9, <3>1, <4>1 DEF QueuedInOrder
    <3>2. CASE e # d
      BY <1>5, <1>9, <3>2 DEF QueuedInOrder
    <3> QED
      BY <3>1, <3>2
  <2>2. SentInOrder'
    <3> SUFFICES ASSUME NEW i \in DOMAIN sent', NEW j \in DOMAIN sent', i < j,
                        txq[sent'[i]] = txq[sent'[j]]
                 PROVE  Precedes(arrived, sent'[i], sent'[j])
      BY <1>1 DEF SentInOrder, Precedes
    <3>1. i \in DOMAIN sent
      BY <1>1, <1>4 DEF Inv, TypeOK, n
    <3>2. CASE j = n
      BY <1>1, <1>2, <1>4, <1>9, <3>1, <3>2 DEF SentBeforeQueued
    <3>3. CASE j # n
      BY <1>4, <1>9, <3>1, <3>3 DEF SentInOrder
    <3> QED
      BY <3>2, <3>3
  <2>3. SentBeforeQueued'
    <3> SUFFICES ASSUME NEW i \in DOMAIN sent', NEW e \in Discs, NEW j \in DOMAIN backlog'[e],
                        txq[sent'[i]] = txq[backlog'[e][j]]
                 PROVE  Precedes(arrived', sent'[i], backlog'[e][j])
      <4>1. txq' = txq
        BY <1>1
      <4> QED
        BY <4>1 DEF SentBeforeQueued
    <3>1. PICK k \in DOMAIN backlog[e] : backlog'[e][j] = backlog[e][k] /\ (e = d => 1 < k)
      <4>1. CASE e = d
        <5>1. 1 < j + 1
          BY <1>5, <4>1
        <5> QED
          BY <1>5, <4>1, <5>1
      <4>2. CASE e # d
        BY <1>5, <4>2
      <4> QED
        BY <4>1, <4>2
    <3>2. CASE i \in DOMAIN sent
      BY <1>1, <1>4, <1>9, <3>1, <3>2 DEF SentBeforeQueued
    <3>3. CASE i = n
      <4>1. e = d
        BY <1>1, <1>2, <1>4, <1>9, <3>1, <3>3, BacklogOfOneQueue
      <4> QED
        BY <1>1, <1>2, <1>4, <1>9, <3>1, <3>3, <4>1 DEF QueuedInOrder
    <3> QED
      BY <1>4, <3>2, <3>3
  <2> QED
    BY <2>1, <2>2, <2>3
<1> QED
  BY <1>7, <1>8, <1>9

\* Under a root with a child for each transmission queue, the packets of a queue are sent in
\* the order of their arrival.
THEOREM QueuesKeepOrder ==
  ASSUME ChildPerQueue
  PROVE  Spec => []OrderPerQueue
<1>1. Inv /\ OrderInv /\ [Next]_vars => OrderInv'
  <2> SUFFICES ASSUME Inv, OrderInv, [Next]_vars PROVE OrderInv'
    OBVIOUS
  <2>1. CASE SetupDevice \/ (\E d \in Roots : SetRootQueueDiscOnDevice(d))
             \/ DeleteRootQueueDiscOnDevice
    <3>1. UNCHANGED <<traffic, wakeCallback, initialized>>
      BY <2>1 DEF SetupDevice, SetRootQueueDiscOnDevice, DeleteRootQueueDiscOnDevice
    <3> QED
      BY <3>1, ConfigOrder
  <2>3. CASE DoInitialize
    <3>1. UNCHANGED traffic /\ initialized'
      BY <2>3 DEF DoInitialize
    <3> QED
      BY <2>3, <3>1, ConfigOrder
  <2>2. CASE RunEnd \/ (\E q \in TxQueues : Wake(q)) \/ UNCHANGED vars
    <3>1. UNCHANGED <<config, backlog, txq, arrived, sent>>
      BY <2>2 DEF RunEnd, Wake, vars, traffic
    <3> QED
      BY <3>1 DEF OrderInv, OneRootWoken, ArrivedFirst, ChildrenWoken, QueuedInOrder, SentInOrder,
                  SentBeforeQueued, Precedes, config
  <2> QED
    BY <2>1, <2>2, <2>3, SendOrder, RunPassOrder DEF Next
<1>2. Inv /\ OrderInv => OrderPerQueue
  <2> SUFFICES ASSUME Inv, OrderInv, ChildrenWoken, NEW i \in DOMAIN sent, NEW j \in DOMAIN sent,
                      i < j, txq[sent[i]] = txq[sent[j]]
               PROVE  Position(sent[i]) < Position(sent[j])
    BY DEF OrderPerQueue, ChildrenWoken
  <2>1. \A k \in DOMAIN sent : Position(sent[k]) \in DOMAIN arrived
                               /\ arrived[Position(sent[k])] = sent[k]
    BY DEF Position, OrderInv, ArrivedFirst
  <2> QED
    BY <2>1 DEF OrderInv, SentInOrder, Precedes
<1> QED
  BY InitOrder, <1>1, <1>2, LayerInvariant, PTL DEF Spec
=============================================================================
