------------------------ MODULE TrafficControlLayer ------------------------
(***************************************************************************)
(* What traffic-control/model/traffic-control-layer.cc keeps for a device: *)
(* its root queue disc, the queue disc that Send uses for each of its      *)
(* transmission queues, and the wake callbacks of these queues.  Root      *)
(* queue discs are installed and deleted, packets are sent, and the device *)
(* stops its queues and wakes them.                                        *)
(*                                                                         *)
(* A queue disc is reduced to its backlog: module QueueDisc has the rest.  *)
(***************************************************************************)
EXTENDS Integers, Sequences, FiniteSets

CONSTANTS
  Discs,         \* the queue discs, roots and children
  Roots,         \* those that may be installed as root
  WakeChild,     \* the roots of which GetWakeMode () is WAKE_CHILD
  ChildOf,       \* GetQueueDiscClass (i)->GetQueueDisc (), of these roots
  NTxQueues,
  SelectQueue,   \* whether the device has a select queue callback
  Packets,
  NoDisc

TxQueues == 0 .. (NTxQueues - 1)

ASSUME LayerAssumption ==
  /\ WakeChild \subseteq Roots /\ Roots \subseteq Discs
  /\ NTxQueues \in Nat \ {0}
  /\ ChildOf \in [WakeChild -> [TxQueues -> Discs]]
  /\ SelectQueue \in BOOLEAN
  /\ NoDisc \notin Discs

VARIABLES
  setUp,              \* the device has an entry in m_netDevices
  initialized,        \* DoInitialize has run
  root,               \* m_rootQueueDisc
  queueDiscsToWake,   \* m_queueDiscsToWake
  wakeCallback,       \* the queue disc that the wake callback of a queue runs
  stopped,            \* the transmission queues that are stopped
  running,            \* the queue disc that is being run
  backlog,            \* the packets in a queue disc, in order
  txq,                \* item->GetTxQueueIndex ()
  \* history: the packets given to Send and to the device, and whether the root (or the
  \* last one there was) was installed after the initialization
  arrived, sent, installedLate

config == <<setUp, initialized, root, queueDiscsToWake, wakeCallback, installedLate>>
traffic == <<stopped, running, backlog, txq, arrived, sent>>
vars == <<config, traffic>>

Init ==
  /\ setUp = FALSE
  /\ initialized = FALSE
  /\ root = NoDisc
  /\ queueDiscsToWake = <<>>
  /\ wakeCallback = [q \in TxQueues |-> NoDisc]
  /\ stopped = {}
  /\ running = NoDisc
  /\ backlog = [d \in Discs |-> <<>>]
  /\ txq = [p \in Packets |-> 0]
  /\ arrived = <<>> /\ sent = <<>>
  /\ installedLate = FALSE

-----------------------------------------------------------------------------
\* Ipv4L3Protocol and Ipv6L3Protocol each set the device up; only the first call counts.
SetupDevice ==
  /\ ~ setUp
  /\ setUp' = TRUE
  /\ UNCHANGED <<initialized, root, queueDiscsToWake, wakeCallback, installedLate, traffic>>

\* Mutant: SetRootQueueDiscOnDevice relies on an earlier SetupDevice.
SetRootWithoutSetup(d) ==
  /\ running = NoDisc
  /\ root = NoDisc
  /\ root' = d
  /\ installedLate' = initialized
  /\ UNCHANGED <<setUp, initialized, queueDiscsToWake, wakeCallback, traffic>>

\* A root may be installed at any time, but only DoInitialize fills the list for Send.
SetRootQueueDiscOnDevice(d) ==
  /\ running = NoDisc
  /\ root = NoDisc
  /\ setUp' = TRUE
  /\ root' = d
  /\ installedLate' = initialized
  /\ UNCHANGED <<initialized, queueDiscsToWake, wakeCallback, traffic>>

\* Mutant: the wake callbacks are removed with the root queue disc.
DeleteRemovesCallbacks ==
  /\ running = NoDisc
  /\ root # NoDisc
  /\ root' = NoDisc
  /\ queueDiscsToWake' = <<>>
  /\ wakeCallback' = [q \in TxQueues |-> NoDisc]
  /\ UNCHANGED <<setUp, initialized, installedLate, traffic>>

DeleteRootQueueDiscOnDevice ==
  /\ running = NoDisc
  /\ root # NoDisc
  /\ root' = NoDisc
  /\ queueDiscsToWake' = <<>>
  /\ UNCHANGED <<setUp, initialized, wakeCallback, installedLate, traffic>>

\* The queue disc that serves transmission queue q under root d.
Served(d, q) == IF d \in WakeChild THEN ChildOf[d][q] ELSE d

\* Mutant: the wake callback runs the root although Send uses its children.
WakesRoot ==
  /\ ~ initialized
  /\ initialized' = TRUE
  /\ \/ /\ root = NoDisc
        /\ UNCHANGED <<queueDiscsToWake, wakeCallback>>
     \/ /\ root # NoDisc
        /\ wakeCallback' = [q \in TxQueues |-> root]
        /\ queueDiscsToWake' = queueDiscsToWake \o [i \in 1 .. NTxQueues |-> Served(root, i - 1)]
  /\ UNCHANGED <<setUp, root, installedLate, traffic>>

\* Mutant: the loop leaves out the last transmission queue.
InitializesAllButLast ==
  /\ ~ initialized
  /\ initialized' = TRUE
  /\ \/ /\ root = NoDisc
        /\ UNCHANGED <<queueDiscsToWake, wakeCallback>>
     \/ /\ root # NoDisc
        /\ wakeCallback' = [q \in TxQueues |-> Served(root, q)]
        /\ queueDiscsToWake' =
             queueDiscsToWake \o [i \in 1 .. (NTxQueues - 1) |-> Served(root, i - 1)]
  /\ UNCHANGED <<setUp, root, installedLate, traffic>>

\* The wake callbacks are set here and nowhere else, and DoInitialize runs once.
DoInitialize ==
  /\ ~ initialized
  /\ initialized' = TRUE
  /\ \/ /\ root = NoDisc
        /\ UNCHANGED <<queueDiscsToWake, wakeCallback>>
     \/ /\ root # NoDisc
        /\ wakeCallback' = [q \in TxQueues |-> Served(root, q)]
        /\ queueDiscsToWake' = queueDiscsToWake \o [i \in 1 .. NTxQueues |-> Served(root, i - 1)]
  /\ UNCHANGED <<setUp, root, installedLate, traffic>>

-----------------------------------------------------------------------------
\* A single queue, or no callback to select one: queue 0.
Selectable == IF NTxQueues > 1 /\ SelectQueue THEN TxQueues ELSE {0}

\* The device takes p and may then have no room for another packet of this queue.
DeviceSend(p, q) ==
  /\ sent' = Append(sent, p)
  /\ stopped' \in {stopped, stopped \cup {q}}

\* Without a root queue disc: straight to the device, or nowhere.
SendDirectly(p, q) ==
  /\ root = NoDisc
  /\ \/ q \notin stopped /\ DeviceSend(p, q)
     \/ q \in stopped /\ UNCHANGED <<sent, stopped>>
  /\ UNCHANGED <<running, backlog>>

\* Enqueue in the queue disc of q, and run it.  An index past the end of
\* m_queueDiscsToWake ends the program in the assertion of Send: see SendHasDisc.
SendEnqueued(p, q) ==
  /\ root # NoDisc
  /\ q < Len(queueDiscsToWake)
  /\ LET d == queueDiscsToWake[q + 1]
     IN  /\ backlog' = [backlog EXCEPT ![d] = Append(@, p)]
         /\ running' = d
  /\ UNCHANGED <<sent, stopped>>

Send(p, q) ==
  /\ setUp /\ initialized
  /\ running = NoDisc
  /\ q \in Selectable
  /\ \A i \in DOMAIN arrived : arrived[i] # p
  /\ arrived' = Append(arrived, p)
  /\ txq' = [txq EXCEPT ![p] = q]
  /\ SendDirectly(p, q) \/ SendEnqueued(p, q)
  /\ UNCHANGED config

-----------------------------------------------------------------------------
CanPass(d) == backlog[d] # <<>> /\ txq[Head(backlog[d])] \notin stopped

\* Mutant: the run passes one packet only.
RunPassesOne ==
  /\ running # NoDisc
  /\ CanPass(running)
  /\ LET p == Head(backlog[running]) IN DeviceSend(p, txq[p])
  /\ backlog' = [backlog EXCEPT ![running] = Tail(@)]
  /\ running' = NoDisc
  /\ UNCHANGED <<config, txq, arrived>>

\* QueueDisc::Run passes packets on, the first of them in m_requeued if it was blocked ...
RunPass ==
  /\ running # NoDisc
  /\ CanPass(running)
  /\ LET p == Head(backlog[running]) IN DeviceSend(p, txq[p])
  /\ backlog' = [backlog EXCEPT ![running] = Tail(@)]
  /\ UNCHANGED <<config, running, txq, arrived>>

\* ... until there is none or the queue of the first is stopped.
RunEnd ==
  /\ running # NoDisc
  /\ ~ CanPass(running)
  /\ running' = NoDisc
  /\ UNCHANGED <<config, stopped, backlog, txq, arrived, sent>>

\* The device wakes queue q: NetDeviceQueue::Wake calls the wake callback.
Wake(q) ==
  /\ running = NoDisc
  /\ q \in stopped
  /\ stopped' = stopped \ {q}
  /\ running' = wakeCallback[q]
  /\ UNCHANGED <<config, backlog, txq, arrived, sent>>

Next ==
  \/ SetupDevice
  \/ \E d \in Roots : SetRootQueueDiscOnDevice(d)
  \/ DeleteRootQueueDiscOnDevice
  \/ DoInitialize
  \/ \E p \in Packets, q \in TxQueues : Send(p, q)
  \/ RunPass
  \/ RunEnd
  \/ \E q \in TxQueues : Wake(q)

Spec == Init /\ [][Next]_vars

\* Runs are not interrupted, and the device wakes what it has stopped.
Fairness == WF_vars(RunPass \/ RunEnd) /\ \A q \in TxQueues : WF_vars(Wake(q))

FairSpec == Spec /\ Fairness

-----------------------------------------------------------------------------
\* Every variable has its type; the configuration is one of an entry of m_netDevices.
TypeOK ==
  /\ {setUp, initialized, installedLate} \subseteq BOOLEAN
  /\ root \in Roots \cup {NoDisc} /\ (root # NoDisc => setUp)
  /\ queueDiscsToWake \in Seq(Discs)
  /\ wakeCallback \in [TxQueues -> Discs \cup {NoDisc}]
  /\ stopped \subseteq TxQueues
  /\ running \in Discs \cup {NoDisc}
  /\ backlog \in [Discs -> Seq(Packets)]
  /\ txq \in [Packets -> TxQueues]
  /\ arrived \in Seq(Packets) /\ sent \in Seq(Packets)

\* After the initialization Send finds a queue disc for every transmission queue (its
\* assertion on the index), unless the root is one that was installed, or replaced, since
\* DoInitialize: for such a root it finds none, and every packet ends the program.
SendHasDisc ==
  initialized /\ root # NoDisc =>
    Len(queueDiscsToWake) = (IF installedLate THEN 0 ELSE NTxQueues)

\* The queue disc in which Send puts the packets of a transmission queue is the one that
\* is run when this queue is woken.
WokenIsServed ==
  \A q \in TxQueues : q < Len(queueDiscsToWake) => wakeCallback[q] = queueDiscsToWake[q + 1]

\* Between runs every backlog, that of a deleted root and its children included, waits
\* for a stopped transmission queue whose wake-up runs the queue disc.
BacklogWaits ==
  running = NoDisc =>
    \A d \in Discs : backlog[d] # <<>> =>
      /\ txq[Head(backlog[d])] \in stopped
      /\ wakeCallback[txq[Head(backlog[d])]] = d

Position(p) == CHOOSE i \in DOMAIN arrived : arrived[i] = p

\* Under a root with a child for each transmission queue, the packets of a transmission
\* queue reach the device in the order of their arrival, even if the root is deleted in
\* between.  (A deleted root that serves several transmission queues holds the packets of
\* one of them back while another is stopped, and later packets overtake them.)
OrderPerQueue ==
  (\A q \in TxQueues : wakeCallback[q] \notin Roots) =>
    \A i, j \in DOMAIN sent :
      i < j /\ txq[sent[i]] = txq[sent[j]] => Position(sent[i]) < Position(sent[j])

\* What is in a queue disc, be it that of a deleted root, is sent in the end.
BacklogLeaves ==
  \A p \in Packets :
    (\E d \in Discs : \E i \in DOMAIN backlog[d] : backlog[d][i] = p)
      ~> (\E i \in DOMAIN sent : sent[i] = p)
=============================================================================
