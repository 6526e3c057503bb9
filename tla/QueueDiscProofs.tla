-------------------------- MODULE QueueDiscProofs --------------------------
(***************************************************************************)
(* Proofs about QueueDisc for any set of packets, any device and any       *)
(* quota.                                                                  *)
(***************************************************************************)
EXTENDS QueueDisc, FiniteSetTheorems, TLAPS

(***************************************************************************)
(* The accounting invariant: where the packets are, and what the counters  *)
(* say about them.  None of its parts is inductive alone: m_nPackets stays *)
(* a natural number because it counts the packets of internal, which stay  *)
(* countable because no packet arrives or is extracted twice.              *)
(***************************************************************************)
PacketTypes ==
  /\ internal \subseteq Packets
  /\ requeued \in Packets \cup {None}
  /\ peeked \in BOOLEAN
  /\ nPackets \in Nat
  /\ nReceived \in Nat /\ nEnqueued \in Nat /\ nDequeued \in Nat
  /\ nDroppedBefore \in Nat /\ nDroppedAfter \in Nat /\ nRequeued \in Nat
  /\ arrived \subseteq Packets
  /\ rejected \subseteq Packets
  /\ dropped \subseteq Packets
  /\ extracted \in Seq(Packets)
  /\ delivered \in Seq(Packets)
  /\ sent \subseteq Packets
  /\ headers \in [Packets -> Nat]

RunTypes ==
  /\ pc \in {"idle", "restart", "sending"}
  /\ item \in Packets \cup {None}
  /\ burst \in Nat
  /\ stopped \in [TxQueues -> BOOLEAN]

Accounting ==
  /\ PacketTypes
  /\ OnePlace
  /\ RelayOrder
  /\ PeekedIsHeld
  /\ CountersExact

-----------------------------------------------------------------------------
\* What appending to a sequence does to its length, elements and injectivity.
LEMMA AppendProperties ==
  ASSUME NEW S, NEW s \in Seq(S), NEW e \in S
  PROVE  /\ Append(s, e) \in Seq(S)
         /\ Len(Append(s, e)) = Len(s) + 1
         /\ InSequence(Append(s, e)) = InSequence(s) \cup {e}
         /\ /\ e \notin InSequence(s)
            /\ \A i, j \in DOMAIN s : s[i] = s[j] => i = j
            => \A i, j \in DOMAIN Append(s, e) : Append(s, e)[i] = Append(s, e)[j] => i = j
  <1> DEFINE t == Append(s, e)
  <1>1. /\ t \in Seq(S)
        /\ Len(t) = Len(s) + 1
        /\ DOMAIN t = 1 .. (Len(s) + 1)
        /\ DOMAIN s = 1 .. Len(s)
        /\ Len(s) \in Nat
    OBVIOUS
  <1>2. /\ \A i \in 1 .. Len(s) : t[i] = s[i]
        /\ t[Len(s) + 1] = e
    OBVIOUS
  <1>3. InSequence(t) = InSequence(s) \cup {e}
    <2>1. InSequence(t) \subseteq InSequence(s) \cup {e}
      <3> SUFFICES ASSUME NEW i \in DOMAIN t
                   PROVE  t[i] \in InSequence(s) \cup {e}
        BY DEF InSequence
      <3>1. CASE i = Len(s) + 1
        BY <1>2, <3>1
      <3>2. CASE i \in 1 .. Len(s)
        BY <1>1, <1>2, <3>2 DEF InSequence
      <3> QED
        BY <1>1, <3>1, <3>2
    <2>2. InSequence(s) \subseteq InSequence(t)
      <3> SUFFICES ASSUME NEW i \in DOMAIN s
                   PROVE  s[i] \in InSequence(t)
        BY DEF InSequence
      <3>1. i \in DOMAIN t /\ t[i] = s[i]
        BY <1>1, <1>2
      <3> QED
        BY <3>1 DEF InSequence
    <2>3. e \in InSequence(t)
      <3>1. Len(s) + 1 \in DOMAIN t
        BY <1>1
      <3> QED
        BY <1>2, <3>1 DEF InSequence
    <2> QED
      BY <2>1, <2>2, <2>3
  <1>4. ASSUME e \notin InSequence(s),
               \A i, j \in DOMAIN s : s[i] = s[j] => i = j,
               NEW i \in DOMAIN t, NEW j \in DOMAIN t, t[i] = t[j]
        PROVE  i = j
    <2>1. \A k \in 1 .. Len(s) : s[k] # e
      BY <1>1, <1>4 DEF InSequence
    <2> QED
      BY <1>1, <1>2, <1>4, <2>1
  <1> HIDE DEF t
  <1> QED
    BY <1>1, <1>3, <1>4 DEF t

\* Sets of packets are finite, and what adding or removing packets does to their size.
LEMMA PacketSets ==
  ASSUME NEW S \in SUBSET Packets
  PROVE  /\ IsFiniteSet(S)
         /\ Cardinality(S) \in Nat
         /\ S = {} <=> Cardinality(S) = 0
         /\ \A p \in Packets \ S : Cardinality(S \cup {p}) = Cardinality(S) + 1
  <1>1. IsFiniteSet(S)
    BY PacketsAssumption, FS_Subset
  <1> QED
    BY <1>1, FS_CardinalityType, FS_EmptySet, FS_AddElement

LEMMA SplitCardinality ==
  ASSUME NEW S \in SUBSET Packets, NEW D \in SUBSET S
  PROVE  Cardinality(S \ D) = Cardinality(S) - Cardinality(D)
  <1>1. IsFiniteSet(S) /\ S \cap D = D
    BY PacketSets
  <1> QED
    BY <1>1, FS_Difference

-----------------------------------------------------------------------------
\* Enqueue keeps the accounting.
LEMMA EnqueueAccounting ==
  ASSUME Accounting, NEW p \in Packets, Enqueue(p)
  PROVE  Accounting'
  <1> USE DEF Accounting, PacketTypes
  <1>1. p \notin rejected \cup dropped \cup internal \cup InSequence(extracted)
    BY DEF Enqueue, OnePlace
  <1>2. Cardinality(arrived') = Cardinality(arrived) + 1
    BY PacketSets DEF Enqueue
  <1>3. /\ Cardinality(arrived) \in Nat
        /\ Cardinality(rejected) \in Nat
        /\ Cardinality(internal) \in Nat
    BY PacketSets
  <1>4. RelayOrder' /\ PeekedIsHeld'
    BY DEF Enqueue, RelayOrder, PeekedIsHeld
  <1>5. CASE PacketEnqueued(p)
    <2>1. Cardinality(internal') = Cardinality(internal) + 1
      BY <1>1, <1>5, PacketSets DEF PacketEnqueued
    <2>2. PacketTypes'
      BY <1>5 DEF Enqueue, PacketEnqueued
    <2>3. OnePlace'
      BY <1>1, <1>5 DEF Enqueue, PacketEnqueued, OnePlace
    <2>4. ReceivedExact'
      BY <1>2, <1>3, <1>5, <2>1 DEF Enqueue, PacketEnqueued, CountersExact, ReceivedExact
    <2>5. DequeuedExact'
      BY <1>5 DEF Enqueue, PacketEnqueued, CountersExact, DequeuedExact, PeekedPackets
    <2>6. QueuedExact'
      <3> DEFINE in == Cardinality(internal)
                 in1 == Cardinality(internal')
      <3>1. in \in Nat /\ in1 = in + 1 /\ PeekedPackets \in Nat
        BY <1>3, <2>1 DEF PeekedPackets
      <3>2. /\ nEnqueued = nDequeued + nPackets
            /\ nPackets = in + PeekedPackets
        BY DEF CountersExact, QueuedExact
      <3>3. /\ nPackets' = nPackets + 1 /\ nEnqueued' = nEnqueued + 1
            /\ UNCHANGED <<nDequeued, PeekedPackets>>
        BY <1>5 DEF Enqueue, PacketEnqueued, PeekedPackets
      <3>4. nPackets \in Nat /\ nEnqueued \in Nat /\ nDequeued \in Nat
        OBVIOUS
      <3> HIDE DEF in, in1, Accounting, PacketTypes
      <3>5. nPackets' = in1 + PeekedPackets'
        BY <3>1, <3>2, <3>3
      <3>6. nEnqueued' = nDequeued' + nPackets'
        BY <3>2, <3>3, <3>4
      <3> QED
        BY <3>5, <3>6 DEF QueuedExact, in1
    <2> QED
      BY <1>4, <2>2, <2>3, <2>4, <2>5, <2>6 DEF CountersExact
  <1>6. CASE DropBeforeEnqueue(p)
    <2>1. Cardinality(rejected') = Cardinality(rejected) + 1
      BY <1>1, <1>6, PacketSets DEF DropBeforeEnqueue
    <2>2. PacketTypes'
      BY <1>6 DEF Enqueue, DropBeforeEnqueue
    <2>3. OnePlace'
      BY <1>1, <1>6 DEF Enqueue, DropBeforeEnqueue, OnePlace
    <2>4. ReceivedExact'
      BY <1>2, <1>3, <1>6, <2>1 DEF Enqueue, DropBeforeEnqueue, CountersExact, ReceivedExact
    <2>5. DequeuedExact'
      BY <1>6 DEF Enqueue, DropBeforeEnqueue, CountersExact, DequeuedExact, PeekedPackets
    <2>6. QueuedExact'
      BY <1>3, <1>6, <2>1 DEF Enqueue, DropBeforeEnqueue, CountersExact, QueuedExact, PeekedPackets
    <2> QED
      BY <1>4, <2>2, <2>3, <2>4, <2>5, <2>6 DEF CountersExact
  <1> QED
    BY <1>5, <1>6 DEF Enqueue

\* What DoDequeue does to the places of the packets and to their numbers; the counters of
\* what has been dequeued then only depend on whether a peek is going on.
LEMMA Extracting ==
  ASSUME Accounting, NEW D \in SUBSET internal, NEW p \in internal \cup {None},
         NEW peeking \in BOOLEAN, DoDequeue(D, p, peeking),
         UNCHANGED <<arrived, rejected>>
  PROVE  /\ internal' \subseteq Packets
         /\ dropped' \subseteq Packets
         /\ extracted' \in Seq(Packets)
         /\ Len(extracted) \in Nat
         /\ Len(extracted') = Len(extracted) + (IF p = None THEN 0 ELSE 1)
         /\ OnePlace'
         /\ Cardinality(D) \in Nat
         /\ Cardinality(internal') \in Nat
         /\ Cardinality(dropped') = Cardinality(dropped) + Cardinality(D)
         /\ Cardinality(internal')
            = Cardinality(internal) - Cardinality(D) - (IF p = None THEN 0 ELSE 1)
  <1> USE DEF Accounting, PacketTypes
  <1>1. /\ D \in SUBSET Packets
        /\ internal' = internal \ (D \cup {p})
        /\ dropped' = dropped \cup D
    BY DEF DoDequeue
  <1>2. Cardinality(dropped') = Cardinality(dropped) + Cardinality(D)
    <2>1. dropped \cap D = {}
      BY DEF OnePlace
    <2> QED
      <3>1. IsFiniteSet(D) /\ IsFiniteSet(dropped)
        BY <1>1, PacketSets
      <3>2. Cardinality(dropped \cap D) = 0
        BY <2>1, FS_EmptySet
      <3>3. Cardinality(dropped \cup D) = Cardinality(dropped) + Cardinality(D) - 0
        BY <3>1, <3>2, FS_Union
      <3>4. Cardinality(dropped) \in Nat /\ Cardinality(D) \in Nat
        BY <1>1, PacketSets
      <3> QED
        BY <1>1, <3>3, <3>4
  <1>3. CASE p = None
    <2>1. internal' = internal \ D /\ extracted' = extracted
      BY <1>1, <1>3, PacketsAssumption DEF DoDequeue
    <2>2. Cardinality(internal') = Cardinality(internal) - Cardinality(D)
      BY <2>1, SplitCardinality
    <2>3. OnePlace'
      BY <1>1, <2>1 DEF OnePlace
    <2> QED
      BY <1>1, <1>2, <1>3, <2>1, <2>2, <2>3, PacketSets
  <1>4. CASE p # None
    <2>1. p \in internal \ D /\ extracted' = Append(extracted, p)
      BY <1>4 DEF DoDequeue, Extraction
    <2>2. p \notin InSequence(extracted)
      BY <2>1 DEF OnePlace
    <2>3. /\ extracted' \in Seq(Packets)
          /\ Len(extracted') = Len(extracted) + 1
          /\ InSequence(extracted') = InSequence(extracted) \cup {p}
          /\ \A i, j \in DOMAIN extracted' : extracted'[i] = extracted'[j] => i = j
      <3>1. p \in Packets /\ extracted \in Seq(Packets)
        BY <2>1
      <3>2. \A i, j \in DOMAIN extracted : extracted[i] = extracted[j] => i = j
        BY DEF OnePlace
      <3> HIDE DEF Accounting, PacketTypes
      <3> QED
        BY <2>1, <2>2, <3>1, <3>2, AppendProperties
    <2>4. Cardinality(internal') = Cardinality(internal) - Cardinality(D) - 1
      <3>1. D \cup {p} \in SUBSET internal /\ Cardinality(D \cup {p}) = Cardinality(D) + 1
        BY <1>1, <2>1, PacketSets
      <3>2. /\ internal' \in SUBSET Packets /\ internal \in SUBSET Packets
            /\ internal' = internal \ (D \cup {p})
            /\ D \in SUBSET Packets
        BY <1>1, <2>1
      <3>3. Cardinality(internal') = Cardinality(internal) - Cardinality(D \cup {p})
        BY <3>1, <3>2, SplitCardinality
      <3>4. Cardinality(internal) \in Nat /\ Cardinality(D) \in Nat
        BY <3>2, PacketSets
      <3> QED
        BY <3>1, <3>3, <3>4
    <2>5. OnePlace'
      <3>1. InSequence(extracted)' = InSequence(extracted')
        BY DEF InSequence
      <3> QED
        BY <1>1, <2>1, <2>3, <3>1 DEF OnePlace
    <2> QED
      BY <1>1, <1>2, <1>4, <2>3, <2>4, <2>5, PacketSets
  <1> QED
    BY <1>3, <1>4

\* DoDequeue counts what it extracts exactly: the packet it returns is counted unless it
\* is going to be held as a peeked packet, the packets it drops always are.
LEMMA ExtractionCounted ==
  ASSUME Accounting, requeued = None,
         NEW D \in SUBSET internal, NEW p \in internal \cup {None}, NEW peeking \in BOOLEAN,
         DoDequeue(D, p, peeking), UNCHANGED <<arrived, rejected>>,
         peeked' = (peeking /\ p # None),
         nRequeued' \in Nat,
         nRequeued' <= nRequeued + (IF p = None THEN 0 ELSE 1)
  PROVE  /\ CountersExact'
         /\ nPackets' \in Nat /\ nDequeued' \in Nat /\ nDroppedAfter' \in Nat
  <1> DEFINE returned == IF p = None THEN 0 ELSE 1
             counted == IF p = None \/ peeking THEN 0 ELSE 1
             held == IF peeked' THEN 1 ELSE 0
             d == Cardinality(D)
             in == Cardinality(internal)
             in1 == Cardinality(internal')
             len == Len(extracted)
             len1 == Len(extracted')
  <1>1. /\ d \in Nat /\ in \in Nat /\ in1 \in Nat /\ len \in Nat /\ len1 \in Nat
        /\ len1 = len + returned
        /\ in1 = in - d - returned
    <2>1. /\ len \in Nat /\ d \in Nat /\ in1 \in Nat
          /\ len1 = len + returned
          /\ in1 = in - d - returned
          /\ extracted' \in Seq(Packets)
      BY Extracting
    <2>2. in \in Nat
      BY PacketSets DEF Accounting, PacketTypes
    <2> QED
      BY <2>1, <2>2
  <1>2. /\ returned \in Nat /\ counted \in Nat /\ held \in Nat
        /\ counted + held = returned
    <2>1. CASE p = None
      <3>1. ~ peeked' /\ returned = 0 /\ counted = 0
        BY <2>1
      <3> QED
        BY <3>1
    <2>2. CASE p # None /\ peeking
      <3>1. peeked' /\ returned = 1 /\ counted = 0
        BY <2>2
      <3> QED
        BY <3>1
    <2>3. CASE p # None /\ ~ peeking
      <3>1. ~ peeked' /\ returned = 1 /\ counted = 1
        BY <2>3
      <3> QED
        BY <3>1
    <2> QED
      BY <2>1, <2>2, <2>3
  <1>3. /\ nPackets' = nPackets - (d + counted)
        /\ nDequeued' = nDequeued + (d + counted)
        /\ nDroppedAfter' = nDroppedAfter + d
    BY DEF DoDequeue, CountDequeued
  <1>4. /\ nPackets = in
        /\ nEnqueued = nDequeued + nPackets
        /\ nDequeued = nDroppedAfter + len
        /\ nDroppedAfter = Cardinality(dropped)
        /\ nRequeued <= len
    <2>1. ~ peeked
      BY DEF Accounting, PacketTypes, PeekedIsHeld
    <2>2. nPackets = in + 0 /\ nDequeued + 0 = nDroppedAfter + len
      BY <2>1 DEF Accounting, CountersExact, QueuedExact, DequeuedExact, PeekedPackets
    <2>3. nPackets \in Nat /\ nDequeued \in Nat
      BY DEF Accounting, PacketTypes
    <2> HIDE DEF in, len
    <2>4. nPackets = in /\ nDequeued = nDroppedAfter + len
      BY <1>1, <2>2, <2>3
    <2> QED
      BY <2>4 DEF Accounting, CountersExact, QueuedExact, DequeuedExact, in, len
  <1>5. /\ nPackets \in Nat /\ nDequeued \in Nat /\ nDroppedAfter \in Nat
        /\ nRequeued \in Nat /\ nEnqueued \in Nat
    BY DEF Accounting, PacketTypes
  <1>6. nRequeued' <= nRequeued + returned
    OBVIOUS
  <1> HIDE DEF returned, counted, held, d, in, in1, len, len1
  <1>7. nPackets' = in1 + held
    BY <1>1, <1>2, <1>3, <1>4
  <1>8. nDequeued' \in Nat /\ nDroppedAfter' \in Nat /\ nPackets' \in Nat
    BY <1>1, <1>2, <1>3, <1>5, <1>7
  <1>9. nEnqueued = nDequeued' + nPackets'
    BY <1>1, <1>2, <1>3, <1>4, <1>5
  <1>10. nDequeued' + held = nDroppedAfter' + len1
    BY <1>1, <1>2, <1>3, <1>4, <1>5
  <1>11. nRequeued' <= len1
    BY <1>1, <1>2, <1>4, <1>5, <1>6
  <1>12. nDroppedAfter' = Cardinality(dropped')
    <2>1. Cardinality(dropped') = Cardinality(dropped) + d
      BY Extracting DEF d
    <2> QED
      BY <1>3, <1>4, <2>1
  <1>13. UNCHANGED <<nReceived, nEnqueued, nDroppedBefore>>
    BY DEF DoDequeue, CountDequeued
  <1>14. ReceivedExact'
    BY <1>13 DEF Accounting, CountersExact, ReceivedExact
  <1>15. DequeuedExact'
    BY <1>10, <1>11, <1>12 DEF DequeuedExact, PeekedPackets, held, len1
  <1>16. QueuedExact'
    BY <1>7, <1>9, <1>13 DEF QueuedExact, PeekedPackets, held, in1
  <1> QED
    BY <1>8, <1>14, <1>15, <1>16 DEF CountersExact

\* A packet that leaves m_requeued for the device or for a caller.
LEMMA TakeAccounting ==
  ASSUME Accounting, TakeRequeued, delivered' = Append(delivered, requeued),
         UNCHANGED <<arrived, rejected, nRequeued, headers>>,
         sent' \subseteq Packets
  PROVE  Accounting'
  <1> USE DEF Accounting, PacketTypes
  <1>1. requeued \in Packets /\ requeued' = None /\ ~ peeked'
    BY DEF TakeRequeued
  <1>2. extracted' = delivered'
    BY <1>1 DEF TakeRequeued, RelayOrder
  <1>3. RelayOrder' /\ PeekedIsHeld'
    BY <1>1, <1>2 DEF RelayOrder, PeekedIsHeld
  <1>4. OnePlace'
    BY DEF TakeRequeued, OnePlace, InSequence
  <1>5. /\ PeekedPackets \in Nat
        /\ PeekedPackets' = 0
        /\ nPackets' = nPackets - PeekedPackets
        /\ nDequeued' = nDequeued + PeekedPackets
        /\ nDroppedAfter' = nDroppedAfter
        /\ UNCHANGED <<internal, dropped, extracted, nReceived, nEnqueued, nDroppedBefore>>
    BY <1>1 DEF TakeRequeued, CountDequeued, PeekedPackets
  <1>6. Cardinality(internal) \in Nat
    BY PacketSets
  <1>7. nPackets' = Cardinality(internal)
    BY <1>5, <1>6 DEF CountersExact, QueuedExact
  <1>8. QueuedExact'
    <2>1. nEnqueued' = nDequeued' + nPackets'
      <3>1. nEnqueued = nDequeued + nPackets
        BY DEF CountersExact, QueuedExact
      <3> QED
        BY <1>5, <3>1
    <2> QED
      BY <1>5, <1>6, <1>7, <2>1 DEF QueuedExact
  <1>9. DequeuedExact'
    <2>1. nDequeued' + PeekedPackets' = nDequeued + PeekedPackets
      BY <1>5
    <2> QED
      BY <1>5, <2>1 DEF CountersExact, DequeuedExact
  <1>10. ReceivedExact'
    BY <1>5 DEF CountersExact, ReceivedExact
  <1>11. PacketTypes'
    <2>1. delivered' \in Seq(Packets)
      BY <1>1, AppendProperties
    <2>2. nPackets' \in Nat /\ nDequeued' \in Nat
      BY <1>5, <1>6, <1>7
    <2>3. peeked' = FALSE
      BY DEF TakeRequeued
    <2>4. UNCHANGED <<internal, nReceived, nEnqueued, nDroppedBefore, nDroppedAfter,
                      nRequeued, arrived, rejected, dropped, extracted, headers>>
      BY <1>5
    <2> QED
      BY <1>1, <2>1, <2>2, <2>3, <2>4
  <1> QED
    BY <1>3, <1>4, <1>8, <1>9, <1>10, <1>11 DEF CountersExact

\* A packet that DoDequeue returns and that is retained in m_requeued or passed on.
LEMMA ExtractAccounting ==
  ASSUME Accounting, requeued = None,
         NEW D \in SUBSET internal, NEW p \in internal \cup {None}, NEW peeking \in BOOLEAN,
         DoDequeue(D, p, peeking), UNCHANGED <<arrived, rejected>>,
         peeked' = (peeking /\ p # None),
         \/ requeued' = p /\ UNCHANGED delivered
         \/ /\ UNCHANGED <<requeued, peeked>>
            /\ delivered' = IF p = None THEN delivered ELSE Append(delivered, p),
         nRequeued' \in Nat,
         nRequeued' <= nRequeued + (IF p = None THEN 0 ELSE 1),
         sent' \subseteq Packets, headers' \in [Packets -> Nat]
  PROVE  Accounting'
  <1>1. CountersExact' /\ nPackets' \in Nat /\ nDequeued' \in Nat /\ nDroppedAfter' \in Nat
    BY ExtractionCounted
  <1>2. /\ internal' \subseteq Packets
        /\ dropped' \subseteq Packets
        /\ extracted' \in Seq(Packets)
        /\ OnePlace'
    BY Extracting
  <1>3. extracted' = IF p = None THEN delivered ELSE Append(delivered, p)
    BY DEF DoDequeue, Accounting, RelayOrder
  <1>4. p \in Packets \cup {None} /\ peeked' \in BOOLEAN
    BY DEF Accounting, PacketTypes
  <1>5. RelayOrder' /\ PeekedIsHeld'
    BY <1>3 DEF RelayOrder, PeekedIsHeld, Accounting
  <1>6. delivered' \in Seq(Packets) /\ requeued' \in Packets \cup {None}
    <2>1. /\ delivered \in Seq(Packets)
          /\ requeued \in Packets \cup {None}
          /\ p # None => p \in Packets
      BY <1>4 DEF Accounting, PacketTypes
    <2>2. p # None => Append(delivered, p) \in Seq(Packets)
      BY <2>1, AppendProperties
    <2> QED
      BY <1>4, <2>1, <2>2
  <1>7. PacketTypes'
    BY <1>1, <1>2, <1>4, <1>6 DEF Accounting, PacketTypes, DoDequeue, CountDequeued
  <1> QED
    BY <1>1, <1>2, <1>5, <1>7 DEF Accounting

-----------------------------------------------------------------------------
\* Initially nothing has happened.
LEMMA InitAccounting == Init => Accounting /\ RunTypes
  <1> SUFFICES ASSUME Init
               PROVE  Accounting /\ RunTypes
    OBVIOUS
  <1> USE DEF Init
  <1>1. PacketTypes
    <2>1. /\ headers \in [Packets -> Nat]
          /\ extracted \in Seq(Packets) /\ delivered \in Seq(Packets)
      OBVIOUS
    <2> QED
      BY <2>1 DEF PacketTypes
  <1>2a. RunTypes
    BY DEF RunTypes
  <1>2. InSequence(extracted) = {}
    BY DEF InSequence
  <1>3. OnePlace
    BY <1>2 DEF OnePlace
  <1>4. RelayOrder /\ PeekedIsHeld
    BY DEF RelayOrder, PeekedIsHeld
  <1>5. CountersExact
    BY FS_EmptySet
       DEF CountersExact, ReceivedExact, DequeuedExact, QueuedExact, PeekedPackets
  <1> QED
    BY <1>1, <1>2a, <1>3, <1>4, <1>5 DEF Accounting

\* A step that leaves the packets and the counters alone.
LEMMA UnchangedAccounting ==
  ASSUME Accounting, UNCHANGED <<internal, requeued, peeked, nPackets, stats, history>>
  PROVE  Accounting'
  <1> USE DEF Accounting, stats, history
  <1>1. PacketTypes'
    BY DEF PacketTypes
  <1>2. OnePlace'
    BY DEF OnePlace, InSequence
  <1>3. RelayOrder' /\ PeekedIsHeld'
    BY DEF RelayOrder, PeekedIsHeld
  <1>4. ReceivedExact' /\ DequeuedExact' /\ QueuedExact'
    BY DEF CountersExact, ReceivedExact, DequeuedExact, QueuedExact, PeekedPackets
  <1> QED
    BY <1>1, <1>2, <1>3, <1>4 DEF CountersExact

\* Every step keeps the accounting.
LEMMA NextAccounting ==
  ASSUME Accounting, [Next]_vars
  PROVE  Accounting'
  <1>1. ASSUME NEW p \in Packets, Send(p)
        PROVE  Accounting'
    BY <1>1, EnqueueAccounting DEF Send
  <1>2. ASSUME NEW q \in TxQueues, Wake(q) \/ Stop(q)
        PROVE  Accounting'
    BY <1>2, UnchangedAccounting DEF Wake, Stop
  <1>3. CASE Peek
    <2>1. PICK D \in SUBSET internal, p \in internal \cup {None} :
            /\ DoDequeue(D, p, TRUE)
            /\ requeued' = p
            /\ peeked' = (p # None)
      BY <1>3 DEF Peek
    <2>2. /\ requeued = None
          /\ UNCHANGED <<arrived, rejected, delivered, nRequeued, sent, headers>>
      BY <1>3 DEF Peek
    <2>3. /\ nRequeued \in Nat /\ sent \subseteq Packets /\ headers \in [Packets -> Nat]
      BY DEF Accounting, PacketTypes
    <2>4. peeked' = (TRUE /\ p # None)
      BY <2>1
    <2>5. /\ nRequeued' \in Nat /\ nRequeued' <= nRequeued + (IF p = None THEN 0 ELSE 1)
          /\ sent' \subseteq Packets /\ headers' \in [Packets -> Nat]
      BY <2>2, <2>3
    <2>6. requeued' = p /\ UNCHANGED delivered
      BY <2>1, <2>2
    <2>7. DoDequeue(D, p, TRUE) /\ UNCHANGED <<arrived, rejected>> /\ requeued = None
      BY <2>1, <2>2
    <2> QED
      BY <2>4, <2>5, <2>6, <2>7, ExtractAccounting
  <1>4. CASE Dequeue
    <2>1. UNCHANGED <<arrived, rejected, nRequeued, sent, headers>>
      BY <1>4 DEF Dequeue
    <2>2. nRequeued \in Nat /\ sent \subseteq Packets /\ headers \in [Packets -> Nat]
      BY DEF Accounting, PacketTypes
    <2>3. CASE TakeRequeued /\ delivered' = Append(delivered, requeued)
      BY <2>1, <2>2, <2>3, TakeAccounting
    <2>4. CASE /\ requeued = None
               /\ \E D \in SUBSET internal, p \in internal \cup {None} :
                    /\ DoDequeue(D, p, FALSE)
                    /\ delivered' = IF p = None THEN delivered ELSE Append(delivered, p)
               /\ UNCHANGED <<requeued, peeked>>
      <3>1. PICK D \in SUBSET internal, p \in internal \cup {None} :
              /\ DoDequeue(D, p, FALSE)
              /\ delivered' = IF p = None THEN delivered ELSE Append(delivered, p)
        BY <2>4
      <3>2. requeued = None /\ UNCHANGED <<requeued, peeked>>
        BY <2>4
      <3>3. peeked = FALSE
        BY <3>2 DEF Accounting, PacketTypes, PeekedIsHeld
      <3>4. peeked' = (FALSE /\ p # None)
        BY <3>2, <3>3
      <3>5. nRequeued' \in Nat /\ nRequeued' <= nRequeued + (IF p = None THEN 0 ELSE 1)
        BY <2>1, <2>2
      <3> QED
        BY <2>1, <2>2, <3>1, <3>2, <3>4, <3>5, ExtractAccounting
    <2> QED
      BY <1>4, <2>3, <2>4 DEF Dequeue
  <1>5. CASE RestartBlocked
    BY <1>5, UnchangedAccounting DEF RestartBlocked
  <1>6. CASE RestartRequeued
    <2>1. sent' \subseteq Packets
      BY <1>6 DEF RestartRequeued, TransmitSend, TakeRequeued, Accounting, PacketTypes
    <2> QED
      BY <1>6, <2>1, TakeAccounting DEF RestartRequeued, TransmitSend
  <1>7. CASE RestartDequeue
    <2>1. PICK D \in SUBSET internal, p \in internal \cup {None} :
            /\ DoDequeue(D, p, FALSE)
            /\ headers' = IF p = None THEN headers ELSE [headers EXCEPT ![p] = @ + 1]
            /\ \/ /\ p = None
                  /\ RunEnd
                  /\ UNCHANGED <<requeued, nRequeued, burst, sent, delivered>>
               \/ /\ p # None /\ IsStopped(p)
                  /\ Requeue(p)
                  /\ RunEnd
                  /\ UNCHANGED <<burst, sent, delivered>>
               \/ /\ p # None /\ ~ IsStopped(p)
                  /\ TransmitSend(p)
                  /\ UNCHANGED <<requeued, nRequeued>>
      BY <1>7 DEF RestartDequeue
    <2>2. requeued = None /\ UNCHANGED <<peeked, arrived, rejected>>
      BY <1>7 DEF RestartDequeue
    <2>3. peeked = FALSE
      BY <2>2 DEF Accounting, PacketTypes, PeekedIsHeld
    <2>4. p \in Packets \cup {None} /\ headers \in [Packets -> Nat] /\ nRequeued \in Nat
      BY DEF Accounting, PacketTypes
    <2>5. headers' \in [Packets -> Nat] /\ sent' \subseteq Packets
      BY <2>1, <2>4 DEF TransmitSend, Accounting, PacketTypes
    <2>6. nRequeued' \in Nat /\ nRequeued' <= nRequeued + (IF p = None THEN 0 ELSE 1)
      BY <2>1, <2>4 DEF Requeue
    <2>7. \/ requeued' = p /\ UNCHANGED delivered
          \/ /\ UNCHANGED <<requeued, peeked>>
             /\ delivered' = IF p = None THEN delivered ELSE Append(delivered, p)
      BY <2>1, <2>2 DEF Requeue, TransmitSend
    <2> QED
      BY <2>1, <2>2, <2>3, <2>5, <2>6, <2>7, ExtractAccounting
  <1>8. CASE SendReturns
    BY <1>8, UnchangedAccounting DEF SendReturns
  <1>9. CASE UNCHANGED vars
    BY <1>9, UnchangedAccounting DEF vars, codeVars
  <1> QED
    BY <1>1, <1>2, <1>3, <1>4, <1>5, <1>6, <1>7, <1>8, <1>9 DEF Next

\* Every step keeps the types of the variables of Run and of the device.
LEMMA NextRunTypes ==
  ASSUME Accounting, RunTypes, [Next]_vars
  PROVE  RunTypes'
  <1> USE DEF RunTypes
  <1>1. ASSUME NEW p \in Packets, Send(p)
        PROVE  RunTypes'
    BY <1>1 DEF Send, Enqueue, RunBegin
  <1>2. ASSUME NEW q \in TxQueues, Wake(q)
        PROVE  RunTypes'
    BY <1>2 DEF Wake, RunBegin
  <1>3. ASSUME NEW q \in TxQueues, Stop(q)
        PROVE  RunTypes'
    BY <1>3 DEF Stop
  <1>4. CASE Peek \/ Dequeue
    BY <1>4 DEF Peek, Dequeue
  <1>5. CASE RestartBlocked
    BY <1>5 DEF RestartBlocked, RunEnd
  <1>6. CASE RestartRequeued
    BY <1>6 DEF RestartRequeued, TakeRequeued, TransmitSend, Accounting, PacketTypes
  <1>7. CASE RestartDequeue
    <2>1. UNCHANGED stopped
      BY <1>7 DEF RestartDequeue
    <2>2. \/ RunEnd /\ UNCHANGED burst
          \/ \E p \in Packets : TransmitSend(p)
      BY <1>7 DEF RestartDequeue, Accounting, PacketTypes
    <2> QED
      BY <2>1, <2>2 DEF RunEnd, TransmitSend
  <1>8. CASE SendReturns
    BY <1>8 DEF SendReturns, RunEnd
  <1>9. CASE UNCHANGED vars
    BY <1>9 DEF vars, codeVars
  <1> QED
    BY <1>1, <1>2, <1>3, <1>4, <1>5, <1>6, <1>7, <1>8, <1>9 DEF Next

\* The accounting invariant holds for ever.
THEOREM AccountingInvariant == Spec => [](Accounting /\ RunTypes)
  <1>1. Init => Accounting /\ RunTypes
    BY InitAccounting
  <1>2. Accounting /\ RunTypes /\ [Next]_vars => (Accounting /\ RunTypes)'
    BY NextAccounting, NextRunTypes
  <1> QED
    BY <1>1, <1>2, PTL DEF Spec

\* Type correctness; in particular no unsigned counter of the queue disc wraps.
THEOREM TypeCorrect == Spec => []TypeOK
  <1>1. Accounting /\ RunTypes => TypeOK
    BY DEF Accounting, PacketTypes, RunTypes, TypeOK
  <1> QED
    BY <1>1, AccountingInvariant, PTL

\* No packet is lost or duplicated by Peek, Dequeue, Requeue and Run together.
THEOREM NoPacketLost == Spec => []OnePlace
  <1>1. Accounting => OnePlace
    BY DEF Accounting
  <1> QED
    BY <1>1, AccountingInvariant, PTL

\* Packets leave in the order in which the discipline extracted them.
THEOREM OrderKept == Spec => []RelayOrder
  <1>1. Accounting => RelayOrder
    BY DEF Accounting
  <1> QED
    BY <1>1, AccountingInvariant, PTL

\* The statistics agree with what happened to the packets.
THEOREM StatisticsExact == Spec => []CountersExact
  <1>1. Accounting => CountersExact
    BY DEF Accounting
  <1> QED
    BY <1>1, AccountingInvariant, PTL

-----------------------------------------------------------------------------
\* What Run leaves in m_requeued: nothing while the device sends, and otherwise only a
\* packet for a stopped transmission queue, unless Peek put it there.
HeldInvariant ==
  /\ pc = "sending" => item \in Packets /\ (requeued # None => peeked)
  /\ HeldIsBlocked

LEMMA NextHeld ==
  ASSUME Accounting, RunTypes, HeldInvariant, [Next]_vars
  PROVE  HeldInvariant'
  <1> USE DEF HeldInvariant, HeldIsBlocked, IsStopped
  <1>1. ASSUME NEW p \in Packets, Send(p)
        PROVE  HeldInvariant'
    BY <1>1 DEF Send, Enqueue, RunBegin
  <1>2. ASSUME NEW q \in TxQueues, Wake(q)
        PROVE  HeldInvariant'
    BY <1>2 DEF Wake, RunBegin
  <1>3. ASSUME NEW q \in TxQueues, Stop(q)
        PROVE  HeldInvariant'
    <2>1. \A r \in TxQueues : stopped[r] => stopped'[r]
      BY <1>3 DEF Stop, RunTypes
    <2>2. requeued # None => TxQueueOf[requeued] \in TxQueues
      BY TxAssumption DEF Accounting, PacketTypes
    <2> QED
      BY <1>3, <2>1, <2>2 DEF Stop
  <1>4. CASE Peek
    BY <1>4 DEF Peek
  <1>5. CASE Dequeue
    <2>1. requeued' = None /\ UNCHANGED <<pc, item>>
      BY <1>5 DEF Dequeue, TakeRequeued
    <2> QED
      BY <2>1
  <1>6. CASE RestartBlocked
    BY <1>6 DEF RestartBlocked, RunEnd
  <1>7. CASE RestartRequeued
    BY <1>7 DEF RestartRequeued, TakeRequeued, TransmitSend, Accounting, PacketTypes
  <1>8. CASE RestartDequeue
    <2>1. requeued = None /\ UNCHANGED stopped
      BY <1>8 DEF RestartDequeue
    <2>2. \/ pc' = "idle" /\ requeued' = None
          \/ \E p \in Packets : pc' = "idle" /\ requeued' = p /\ IsStopped(p)
          \/ \E p \in Packets : pc' = "sending" /\ requeued' = None /\ item' = p
      BY <1>8, <2>1
         DEF RestartDequeue, RunEnd, Requeue, TransmitSend, Accounting, PacketTypes
    <2> QED
      BY <2>1, <2>2
  <1>9. CASE SendReturns
    BY <1>9 DEF SendReturns, RunEnd
  <1>10. CASE UNCHANGED vars
    BY <1>10 DEF vars, codeVars
  <1> QED
    BY <1>1, <1>2, <1>3, <1>4, <1>5, <1>6, <1>7, <1>8, <1>9, <1>10 DEF Next

\* A packet put aside by Requeue always has a wake-up to come.
THEOREM HeldPacketIsBlocked == Spec => []HeldIsBlocked
  <1>1. Init => HeldInvariant
    BY DEF Init, HeldInvariant, HeldIsBlocked
  <1>2. Accounting /\ RunTypes /\ HeldInvariant /\ [Next]_vars => HeldInvariant'
    BY NextHeld
  <1>3. HeldInvariant => HeldIsBlocked
    BY DEF HeldInvariant
  <1> QED
    BY <1>1, <1>2, <1>3, AccountingInvariant, PTL DEF Spec

-----------------------------------------------------------------------------
\* The local variable quota of Run, as long as it does not wrap.
LEMMA SmallModulo ==
  ASSUME NEW m \in Nat, NEW x \in 0 .. (m - 1)
  PROVE  x % m = x
  OBVIOUS

\* How many packets a Run has passed to the device, at each of its points.
QuotaInvariant ==
  /\ burst <= Quota
  /\ pc = "restart" => burst < Quota

LEMMA NextQuota ==
  ASSUME Quota > 0, RunTypes, QuotaInvariant, [Next]_vars
  PROVE  QuotaInvariant'
  <1> USE UintAssumption DEF QuotaInvariant, RunTypes
  <1>1. ASSUME NEW p \in Packets, Send(p)
        PROVE  QuotaInvariant'
    BY <1>1 DEF Send, RunBegin
  <1>2. ASSUME NEW q \in TxQueues, Wake(q) \/ Stop(q)
        PROVE  QuotaInvariant'
    BY <1>2 DEF Wake, Stop, RunBegin
  <1>3. CASE Peek \/ Dequeue
    BY <1>3 DEF Peek, Dequeue
  <1>4. CASE RestartBlocked \/ RestartRequeued \/ RestartDequeue
    <2>1. /\ burst < Quota
          /\ \/ pc' = "idle" /\ burst' = burst
             \/ pc' = "sending" /\ burst' = burst + 1
      BY <1>4 DEF RestartBlocked, RestartRequeued, RestartDequeue, RunEnd, TransmitSend
    <2> QED
      BY <2>1
  <1>5. CASE SendReturns
    <2>1. /\ pc = "sending" /\ burst' = burst
          /\ pc' = "idle" \/ (pc' = "restart" /\ QuotaLeft # 0)
      <3>1. CASE nPackets = 0 \/ IsStopped(item) \/ QuotaLeft = 0
        BY <1>5, <3>1 DEF SendReturns, RunEnd
      <3>2. CASE ~ (nPackets = 0 \/ IsStopped(item) \/ QuotaLeft = 0)
        BY <1>5, <3>2 DEF SendReturns
      <3> QED
        BY <3>1, <3>2
    <2>2. CASE burst = Quota
      <3>1. QuotaLeft = 0
        BY <2>2, SmallModulo DEF QuotaLeft
      <3> QED
        BY <2>1, <3>1
    <2>3. CASE burst # Quota
      BY <2>1, <2>3
    <2> QED
      BY <2>2, <2>3
  <1>6. CASE UNCHANGED vars
    BY <1>6 DEF vars, codeVars
  <1> QED
    BY <1>1, <1>2, <1>3, <1>4, <1>5, <1>6 DEF Next

\* A Run passes at most its quota of packets to the device, unless the quota is 0.
THEOREM QuotaRespected ==
  ASSUME Quota > 0
  PROVE  Spec => []QuotaBound
  <1>1. Init => QuotaInvariant
    BY UintAssumption DEF Init, QuotaInvariant
  <1>2. RunTypes /\ QuotaInvariant /\ [Next]_vars => QuotaInvariant'
    BY NextQuota
  <1>3. QuotaInvariant => QuotaBound
    BY DEF QuotaInvariant, QuotaBound
  <1> QED
    BY <1>1, <1>2, <1>3, AccountingInvariant, PTL DEF Spec

-----------------------------------------------------------------------------
LEMMA NextBacklog ==
  ASSUME Quota > 0, Accounting, RunTypes, HeldInvariant, QuotaInvariant, NoStrandedBacklog,
         [Next]_vars
  PROVE  NoStrandedBacklog'
  <1> USE DEF NoStrandedBacklog, Held
  <1>1. ASSUME NEW p \in Packets, Send(p)
        PROVE  NoStrandedBacklog'
    BY <1>1 DEF Send, RunBegin
  <1>2. ASSUME NEW q \in TxQueues, Wake(q)
        PROVE  NoStrandedBacklog'
    BY <1>2 DEF Wake, RunBegin
  <1>3. ASSUME NEW q \in TxQueues, Stop(q)
        PROVE  NoStrandedBacklog'
    BY <1>3 DEF Stop, RunTypes
  <1>4. CASE Peek \/ Dequeue
    <2>1. /\ UNCHANGED <<pc, stopped, burst>>
          /\ (internal \cup Held)' # {} => internal \cup Held # {}
      BY <1>4 DEF Peek, Dequeue, DoDequeue, TakeRequeued
    <2> QED
      BY <2>1
  <1>5. CASE RestartBlocked
    <2>1. \E q \in TxQueues : stopped[q]
      BY <1>5, TxAssumption
         DEF RestartBlocked, IsStopped, Accounting, PacketTypes
    <2> QED
      BY <1>5, <2>1 DEF RestartBlocked
  <1>6. CASE RestartRequeued
    BY <1>6 DEF RestartRequeued, TransmitSend
  <1>7. CASE RestartDequeue
    <2>1. requeued = None /\ UNCHANGED stopped
      BY <1>7 DEF RestartDequeue
    <2>2. \/ internal' = {} /\ requeued' = None
          \/ \E p \in Packets : IsStopped(p)
          \/ pc' = "sending"
      BY <1>7, <2>1, PacketsAssumption
         DEF RestartDequeue, DoDequeue, Extraction, TransmitSend, Accounting, PacketTypes
    <2>3. (\E p \in Packets : IsStopped(p)) => \E q \in TxQueues : stopped[q]
      BY TxAssumption DEF IsStopped
    <2> QED
      BY <2>1, <2>2, <2>3
  <1>8. CASE SendReturns
    <2>1. /\ pc = "sending"
          /\ UNCHANGED <<internal, requeued, stopped, burst>>
          /\ pc' = "idle" => nPackets = 0 \/ IsStopped(item) \/ QuotaLeft = 0
      BY <1>8 DEF SendReturns, RunEnd
    <2>2. requeued # None => peeked
      BY <2>1 DEF HeldInvariant
    <2>3. CASE nPackets = 0
      <3> DEFINE in == Cardinality(internal)
      <3>1. in \in Nat
        BY PacketSets DEF Accounting, PacketTypes
      <3>2. nPackets = in + PeekedPackets
        BY DEF Accounting, CountersExact, QueuedExact
      <3>3. PeekedPackets \in {0, 1} /\ (peeked => PeekedPackets = 1)
        BY DEF PeekedPackets
      <3>4. in = 0 /\ PeekedPackets = 0
        <4> HIDE DEF in
        <4> QED
          BY <2>3, <3>1, <3>2, <3>3
      <3>5. internal = {}
        BY <3>4, PacketSets DEF Accounting, PacketTypes
      <3>6. requeued = None
        BY <2>2, <3>3, <3>4
      <3> QED
        BY <2>1, <3>5, <3>6
    <2>4. CASE IsStopped(item)
      <3>1. item \in Packets
        BY <2>1 DEF HeldInvariant
      <3> QED
        BY <2>1, <2>4, <3>1, TxAssumption DEF IsStopped
    <2>5. CASE QuotaLeft = 0
      <3>1. Quota - burst \in 0 .. (UintMod - 1)
        BY UintAssumption DEF QuotaInvariant, RunTypes
      <3>2. Quota - burst = 0
        BY <2>5, <3>1, SmallModulo, UintAssumption DEF QuotaLeft
      <3>3. burst = Quota
        BY <3>2, UintAssumption DEF RunTypes
      <3> QED
        BY <2>1, <3>3
    <2>6. CASE pc' # "idle"
      BY <2>6
    <2> QED
      BY <2>1, <2>3, <2>4, <2>5, <2>6
  <1>9. CASE UNCHANGED vars
    BY <1>9 DEF vars, codeVars
  <1> QED
    BY <1>1, <1>2, <1>3, <1>4, <1>5, <1>6, <1>7, <1>8, <1>9 DEF Next

\* Between runs a backlog always has a wake-up to come, or the last Run used its quota.
THEOREM BacklogHasWakeup ==
  ASSUME Quota > 0
  PROVE  Spec => []NoStrandedBacklog
  <1> DEFINE Both == HeldInvariant /\ QuotaInvariant /\ NoStrandedBacklog
  <1>1. Init => Both
    BY UintAssumption
       DEF Init, HeldInvariant, HeldIsBlocked, QuotaInvariant, NoStrandedBacklog, Held
  <1>2. Accounting /\ RunTypes /\ Both /\ [Next]_vars => Both'
    BY NextHeld, NextQuota, NextBacklog
  <1>3. Both => NoStrandedBacklog
    OBVIOUS
  <1> HIDE DEF Both
  <1> QED
    BY <1>1, <1>2, <1>3, AccountingInvariant, PTL DEF Spec

-----------------------------------------------------------------------------
\* Without Peek, the packets DoDequeue extracted in a Run have their header, and the others
\* do not have it yet.
HeaderInvariant ==
  /\ sent \subseteq InSequence(extracted)
  /\ \A p \in InSequence(extracted) : headers[p] = 1
  /\ \A p \in Packets \ InSequence(extracted) : headers[p] = 0

LEMMA HeldWasExtracted ==
  ASSUME Accounting, requeued # None
  PROVE  requeued \in InSequence(extracted)
  <1>1. delivered \in Seq(Packets) /\ requeued \in Packets
    BY DEF Accounting, PacketTypes
  <1>2. extracted = Append(delivered, requeued)
    BY DEF Accounting, RelayOrder
  <1> QED
    BY <1>1, <1>2, AppendProperties

LEMMA NextHeader ==
  ASSUME MayPeek = FALSE, Accounting, HeaderInvariant, [Next]_vars
  PROVE  HeaderInvariant'
  <1>0. ASSUME UNCHANGED <<sent, extracted, headers>>
        PROVE  HeaderInvariant'
    BY <1>0 DEF HeaderInvariant, InSequence
  <1>1. ASSUME NEW p \in Packets, Send(p)
        PROVE  HeaderInvariant'
    BY <1>0, <1>1 DEF Send, Enqueue
  <1>2. ASSUME NEW q \in TxQueues, Wake(q) \/ Stop(q)
        PROVE  HeaderInvariant'
    BY <1>0, <1>2 DEF Wake, Stop, history
  <1>3. ~ Peek /\ ~ Dequeue
    BY DEF Peek, Dequeue
  <1>4. CASE RestartBlocked \/ SendReturns
    BY <1>0, <1>4 DEF RestartBlocked, SendReturns, history
  <1>5. CASE RestartRequeued
    <2>1. /\ requeued \in InSequence(extracted)
          /\ UNCHANGED <<extracted, headers>>
          /\ sent' = sent \cup {requeued}
      BY <1>5, HeldWasExtracted DEF RestartRequeued, TakeRequeued, TransmitSend
    <2> QED
      BY <2>1 DEF HeaderInvariant, InSequence
  <1>6. CASE RestartDequeue
    <2>1. PICK D \in SUBSET internal, p \in internal \cup {None} :
            /\ DoDequeue(D, p, FALSE)
            /\ headers' = IF p = None THEN headers ELSE [headers EXCEPT ![p] = @ + 1]
            /\ UNCHANGED sent \/ (p # None /\ sent' = sent \cup {p})
      BY <1>6 DEF RestartDequeue, TransmitSend
    <2>2. CASE p = None
      BY <1>0, <2>1, <2>2 DEF DoDequeue
    <2>3. CASE p # None
      <3>1. p \in Packets /\ extracted \in Seq(Packets)
        BY <2>3 DEF Accounting, PacketTypes
      <3>2. extracted' = Append(extracted, p)
        BY <2>1, <2>3 DEF DoDequeue
      <3>3. InSequence(extracted)' = InSequence(extracted) \cup {p}
        BY <3>1, <3>2, AppendProperties DEF InSequence
      <3>4. p \notin InSequence(extracted)
        BY <2>3 DEF Accounting, OnePlace
      <3>5. headers' = [headers EXCEPT ![p] = @ + 1] /\ headers \in [Packets -> Nat]
        BY <2>1, <2>3 DEF Accounting, PacketTypes
      <3>6. InSequence(extracted) \subseteq Packets
        BY <3>1 DEF InSequence
      <3>7. sent' \subseteq InSequence(extracted)'
        BY <2>1, <3>3 DEF HeaderInvariant
      <3>8. headers[p] = 0
        BY <3>1, <3>4 DEF HeaderInvariant
      <3>9. headers'[p] = 1 /\ \A r \in Packets \ {p} : headers'[r] = headers[r]
        BY <3>1, <3>5, <3>8
      <3>10. \A r \in InSequence(extracted)' : headers'[r] = 1
        BY <3>3, <3>4, <3>6, <3>9 DEF HeaderInvariant
      <3>11. \A r \in Packets \ InSequence(extracted)' : headers'[r] = 0
        BY <3>3, <3>9 DEF HeaderInvariant
      <3> QED
        BY <3>7, <3>10, <3>11 DEF HeaderInvariant
    <2> QED
      BY <2>2, <2>3
  <1>7. CASE UNCHANGED vars
    BY <1>0, <1>7 DEF vars, history
  <1> QED
    BY <1>1, <1>2, <1>3, <1>4, <1>5, <1>6, <1>7 DEF Next

\* A queue disc that is only ever run sends every packet with its header, added once.
THEOREM HeaderBeforeSend ==
  ASSUME MayPeek = FALSE
  PROVE  Spec => []SentWithHeader
  <1>1. Init => HeaderInvariant
    BY DEF Init, HeaderInvariant, InSequence
  <1>2. Accounting /\ HeaderInvariant /\ [Next]_vars => HeaderInvariant'
    BY NextHeader
  <1>3. HeaderInvariant => SentWithHeader
    BY DEF HeaderInvariant, SentWithHeader
  <1> QED
    BY <1>1, <1>2, <1>3, AccountingInvariant, PTL DEF Spec

-----------------------------------------------------------------------------
\* A packet that has not arrived has not been passed on either.
LEMMA NewIsUnseen ==
  ASSUME Accounting, NEW p \in Packets, p \notin arrived
  PROVE  Relay!Unseen(p)
  <1>1. p \notin rejected \cup dropped \cup internal \cup InSequence(extracted)
    BY DEF Accounting, OnePlace
  <1>2. p \notin Held
    BY <1>1, HeldWasExtracted DEF Held
  <1>3. InSequence(delivered) \subseteq InSequence(extracted)
    <2>1. CASE requeued = None
      BY <2>1 DEF Accounting, RelayOrder
    <2>2. CASE requeued # None
      <3>1. delivered \in Seq(Packets) /\ requeued \in Packets
        BY <2>2 DEF Accounting, PacketTypes
      <3>2. extracted = Append(delivered, requeued)
        BY <2>2 DEF Accounting, RelayOrder
      <3> QED
        BY <3>1, <3>2, AppendProperties
    <2> QED
      BY <2>1, <2>2
  <1>4. \A i \in DOMAIN delivered : delivered[i] # p
    BY <1>1, <1>3 DEF InSequence
  <1> QED
    BY <1>1, <1>2, <1>4 DEF Relay!Unseen

\* A step of the queue disc is a step of the relay, or invisible to it.
LEMMA StepRefines ==
  ASSUME Accounting, [Next]_vars
  PROVE  [Relay!Next]_(Relay!relayVars)
  <1> DEFINE waiting == internal \cup Held
             lost == rejected \cup dropped
  <1>0. ASSUME UNCHANGED <<internal, requeued, delivered, rejected, dropped>>
        PROVE  UNCHANGED Relay!relayVars
    BY <1>0 DEF Relay!relayVars, Held
  <1>1. ASSUME NEW p \in Packets, Send(p)
        PROVE  Relay!Next
    <2>1. Enqueue(p) /\ Relay!Unseen(p)
      BY <1>1, NewIsUnseen DEF Send, Enqueue
    <2>2. CASE PacketEnqueued(p)
      BY <2>1, <2>2 DEF Relay!Next, Relay!Take, Enqueue, PacketEnqueued, Held
    <2>3. CASE DropBeforeEnqueue(p)
      BY <2>1, <2>3 DEF Relay!Next, Relay!Refuse, Enqueue, DropBeforeEnqueue, Held
    <2> QED
      BY <2>1, <2>2, <2>3 DEF Enqueue
  <1>2. ASSUME NEW q \in TxQueues, Wake(q) \/ Stop(q)
        PROVE  UNCHANGED Relay!relayVars
    BY <1>0, <1>2 DEF Wake, Stop, history
  <1>3. CASE RestartBlocked \/ SendReturns
    BY <1>0, <1>3 DEF RestartBlocked, SendReturns, history
  <1>4. CASE UNCHANGED vars
    BY <1>0, <1>4 DEF vars, codeVars, history
  <1>5. ASSUME TakeRequeued, delivered' = Append(delivered, requeued), UNCHANGED rejected
        PROVE  Relay!Next
    <2>1. requeued \notin internal
      BY <1>5, HeldWasExtracted DEF Accounting, OnePlace, TakeRequeued
    <2>2. waiting' = waiting \ {requeued}
      BY <1>5, <2>1 DEF TakeRequeued, Held
    <2> QED
      BY <1>5, <2>2 DEF TakeRequeued, Relay!Next, Relay!ForwardNext
  <1>6. ASSUME NEW D \in SUBSET internal, NEW p \in internal \cup {None}, requeued = None,
               NEW peeking \in BOOLEAN, DoDequeue(D, p, peeking), UNCHANGED rejected,
               \/ requeued' = p /\ UNCHANGED delivered
               \/ requeued' = None /\ delivered' = IF p = None THEN delivered
                                                    ELSE Append(delivered, p)
        PROVE  Relay!Next
    <2>1. waiting = internal /\ D \in SUBSET waiting
      BY <1>6 DEF Held
    <2>2. Relay!Drop(D)
      BY <1>6 DEF DoDequeue, Relay!Drop, Held
    <2>3. CASE p = None
      <3>1. waiting' = waiting \ D /\ UNCHANGED <<requeued, delivered>>
        BY <1>6, <2>1, <2>3, PacketsAssumption
           DEF DoDequeue, Held, Accounting, PacketTypes
      <3>2. Relay!DropOnly(D)
        BY <2>2, <3>1 DEF Relay!DropOnly
      <3> QED
        BY <2>1, <3>2 DEF Relay!Next
    <2>4. CASE p # None
      <3>1. p \in waiting \ D /\ internal' = internal \ (D \cup {p})
        BY <1>6, <2>1, <2>4 DEF DoDequeue, Extraction
      <3>2. CASE requeued' = p /\ UNCHANGED delivered
        <4>1. waiting' = waiting \ D
          BY <2>1, <2>4, <3>1, <3>2 DEF Held
        <4>2. Relay!Announce(D, p)
          BY <2>2, <3>1, <3>2, <4>1 DEF Relay!Announce
        <4> QED
          BY <2>1, <3>1, <4>2 DEF Relay!Next
      <3>3. CASE requeued' = None /\ delivered' = Append(delivered, p)
        <4>1. waiting' = waiting \ (D \cup {p})
          BY <2>1, <3>1, <3>3 DEF Held
        <4>2. Relay!Forward(D, p)
          BY <1>6, <2>2, <3>1, <3>3, <4>1 DEF Relay!Forward
        <4> QED
          BY <2>1, <3>1, <4>2 DEF Relay!Next
      <3> QED
        BY <1>6, <2>4, <3>2, <3>3
    <2> QED
      BY <2>3, <2>4
  <1>7. CASE Peek
    BY <1>6, <1>7 DEF Peek
  <1>8. CASE Dequeue
    BY <1>5, <1>6, <1>8 DEF Dequeue
  <1>9. CASE RestartRequeued
    BY <1>5, <1>9 DEF RestartRequeued, TransmitSend
  <1>10. CASE RestartDequeue
    <2>1. PICK D \in SUBSET internal, p \in internal \cup {None} :
            /\ DoDequeue(D, p, FALSE)
            /\ \/ requeued' = p /\ UNCHANGED delivered
               \/ requeued' = None /\ delivered' = IF p = None THEN delivered
                                                    ELSE Append(delivered, p)
      BY <1>10 DEF RestartDequeue, Requeue, TransmitSend
    <2> QED
      BY <1>6, <1>10, <2>1 DEF RestartDequeue
  <1> QED
    BY <1>1, <1>2, <1>3, <1>4, <1>7, <1>8, <1>9, <1>10 DEF Next

\* The queue disc implements the relay of PacketRelay, for every discipline and device.
THEOREM QueueDiscImplementsRelay == Spec => ImplementsRelay
  <1>1. Init => Relay!Init
    BY DEF Init, Relay!Init, Held
  <1>2. Accounting /\ [Next]_vars => [Relay!Next]_(Relay!relayVars)
    BY StepRefines
  <1> QED
    BY <1>1, <1>2, AccountingInvariant, PTL DEF Spec, ImplementsRelay, Relay!Spec
=============================================================================
