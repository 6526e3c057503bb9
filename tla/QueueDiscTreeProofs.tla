------------------------ MODULE QueueDiscTreeProofs -------------------------
(***************************************************************************)
(* Theorems about QueueDiscTree for any packets, priorities and limits:    *)
(* the three layers count every packet and every drop alike, the limit of  *)
(* the disc and not of its queues decides, and packets leave in order.     *)
(***************************************************************************)
EXTENDS QueueDiscTree, DataProofs

Drops == [Reasons -> Nat]

Discs ==
  [nPackets : Nat, nReceived : Nat, nEnqueued : Nat, nDequeued : Nat, nRequeued : Nat,
   droppedBefore : Drops, droppedAfter : Drops, requeued : Packets \cup {None},
   peeked : BOOLEAN, maxSize : [unit : {"packets", "bytes"}, value : Nat]]

Queues ==
  [packets : Seq(Packets), maxSize : Nat, received : Nat, droppedBefore : Nat,
   droppedAfter : Nat]

-----------------------------------------------------------------------------
\* The reasons of a disc and those of its child are all different.
LEMMA ReasonFacts ==
  /\ IsFiniteSet(Reasons) /\ OwnReasons \subseteq Reasons
  /\ INTERNAL_QUEUE_DROP \o NoReason = INTERNAL_QUEUE_DROP
  /\ INTERNAL_QUEUE_DROP # LIMIT_EXCEEDED_DROP
  /\ INTERNAL_QUEUE_DROP # P4_DROP /\ LIMIT_EXCEEDED_DROP # P4_DROP
  /\ \A r \in OwnReasons :
       /\ CHILD_QUEUE_DISC_DROP \o r \in Reasons
       /\ \A s \in OwnReasons :
            CHILD_QUEUE_DISC_DROP \o r # s
            /\ (CHILD_QUEUE_DISC_DROP \o r = CHILD_QUEUE_DISC_DROP \o s => r = s)
<1>1. /\ INTERNAL_QUEUE_DROP # LIMIT_EXCEEDED_DROP
      /\ INTERNAL_QUEUE_DROP # P4_DROP /\ LIMIT_EXCEEDED_DROP # P4_DROP
  BY DEF INTERNAL_QUEUE_DROP, LIMIT_EXCEEDED_DROP, P4_DROP
<1>2. INTERNAL_QUEUE_DROP \o NoReason = INTERNAL_QUEUE_DROP
  BY DEF INTERNAL_QUEUE_DROP, NoReason
<1>3. IsFiniteSet(OwnReasons)
  <2>1. OwnReasons = (({} \cup {INTERNAL_QUEUE_DROP}) \cup {LIMIT_EXCEEDED_DROP}) \cup {P4_DROP}
    BY DEF OwnReasons
  <2>2. IsFiniteSet({} \cup {INTERNAL_QUEUE_DROP})
    BY FS_EmptySet, FS_AddElement
  <2>3. IsFiniteSet(({} \cup {INTERNAL_QUEUE_DROP}) \cup {LIMIT_EXCEEDED_DROP})
    BY <2>2, FS_AddElement
  <2>4. IsFiniteSet((({} \cup {INTERNAL_QUEUE_DROP}) \cup {LIMIT_EXCEEDED_DROP}) \cup {P4_DROP})
    BY <2>3, FS_AddElement
  <2> QED
    BY <2>1, <2>4
<1>4. IsFiniteSet(Reasons)
  <2> DEFINE C == {CHILD_QUEUE_DISC_DROP \o r : r \in OwnReasons}
             f == [r \in OwnReasons |-> CHILD_QUEUE_DISC_DROP \o r]
  <2>1. C = {f[r] : r \in OwnReasons}
    OBVIOUS
  <2>2. IsFiniteSet(C)
    <3> HIDE DEF C, f
    <3>1. IsFiniteSet({f[r] : r \in OwnReasons})
      <4>1. f \in Surjection(OwnReasons, {f[r] : r \in OwnReasons})
        BY DEF Surjection, f
      <4> QED
        BY <1>3, <4>1, FS_Surjection
    <3> QED
      BY <2>1, <3>1
  <2>3. IsFiniteSet(OwnReasons \cup C)
    BY <1>3, <2>2, FS_Union
  <2> QED
    BY <2>3 DEF Reasons
<1> DEFINE Words == {"internal", "limit", "p4", "child"}
<1>5. \A r \in OwnReasons : r \in Seq(Words) /\ Len(r) = 1 /\ r = <<r[1]>>
  <2>1. \A w \in Words : <<w>> \in Seq(Words) /\ Len(<<w>>) = 1 /\ <<w>>[1] = w
    OBVIOUS
  <2>2. \A r \in OwnReasons : \E w \in Words : r = <<w>>
    BY DEF OwnReasons, INTERNAL_QUEUE_DROP, LIMIT_EXCEEDED_DROP, P4_DROP
  <2> QED
    BY <2>1, <2>2
<1>6. \A r \in OwnReasons :
        /\ Len(CHILD_QUEUE_DISC_DROP \o r) = 2
        /\ (CHILD_QUEUE_DISC_DROP \o r)[2] = r[1]
  <2> SUFFICES ASSUME NEW r \in OwnReasons
               PROVE  /\ Len(CHILD_QUEUE_DISC_DROP \o r) = 2
                      /\ (CHILD_QUEUE_DISC_DROP \o r)[2] = r[1]
    OBVIOUS
  <2>1. r \in Seq(Words) /\ Len(r) = 1
    BY <1>5
  <2>2. CHILD_QUEUE_DISC_DROP \in Seq(Words) /\ Len(CHILD_QUEUE_DISC_DROP) = 1
    BY DEF CHILD_QUEUE_DISC_DROP
  <2> QED
    BY <2>1, <2>2, ConcatProperties, SMTT(30)
<1>7. OwnReasons \subseteq Reasons /\ \A r \in OwnReasons : CHILD_QUEUE_DISC_DROP \o r \in Reasons
  BY DEF Reasons
<1>8. ASSUME NEW r \in OwnReasons, NEW s \in OwnReasons
      PROVE  /\ CHILD_QUEUE_DISC_DROP \o r # s
             /\ (CHILD_QUEUE_DISC_DROP \o r = CHILD_QUEUE_DISC_DROP \o s => r = s)
  <2>1. Len(CHILD_QUEUE_DISC_DROP \o r) = 2 /\ Len(s) = 1
    BY <1>5, <1>6
  <2>2. (CHILD_QUEUE_DISC_DROP \o r)[2] = r[1] /\ (CHILD_QUEUE_DISC_DROP \o s)[2] = s[1]
    BY <1>6
  <2>3. r = <<r[1]>> /\ s = <<s[1]>>
    BY <1>5
  <2>4. CHILD_QUEUE_DISC_DROP \o r # s
    BY <2>1
  <2>5. CHILD_QUEUE_DISC_DROP \o r = CHILD_QUEUE_DISC_DROP \o s => r = s
    BY <2>2, <2>3
  <2> QED
    BY <2>4, <2>5
<1> QED
  BY <1>1, <1>2, <1>4, <1>7, <1>8

-----------------------------------------------------------------------------
\* What a disc makes of no trace, of one and of two.
IsTold(v, d, fired, prefix) ==
  v = [n \in 0 .. Len(fired) |->
         IF n = 0 THEN Effect(d, <<>>) ELSE AndSink(v[n - 1], fired[n], prefix)]

LEMMA SinksTell ==
  ASSUME NEW d, NEW fired, NEW prefix, \E v : IsTold(v, d, fired, prefix)
  PROVE  \E v : IsTold(v, d, fired, prefix) /\ Sinks(d, fired, prefix) = v[Len(fired)]
<1> DEFINE w == CHOOSE v : v = [n \in 0 .. Len(fired) |->
                  IF n = 0 THEN Effect(d, <<>>) ELSE AndSink(v[n - 1], fired[n], prefix)]
<1>1. Sinks(d, fired, prefix) = w[Len(fired)]
  BY DEF Sinks
<1>2. IsTold(w, d, fired, prefix)
  BY DEF IsTold
<1> QED
  BY <1>1, <1>2

LEMMA SinksNone ==
  ASSUME NEW d, NEW prefix
  PROVE  Sinks(d, <<>>, prefix) = Effect(d, <<>>)
<1> DEFINE v == [n \in 0 .. 0 |-> Effect(d, <<>>)]
<1>1. IsTold(v, d, <<>>, prefix)
  BY DEF IsTold
<1>2. PICK w : IsTold(w, d, <<>>, prefix) /\ Sinks(d, <<>>, prefix) = w[Len(<<>>)]
  BY <1>1, SinksTell
<1> QED
  BY <1>2 DEF IsTold

LEMMA SinksOne ==
  ASSUME NEW d, NEW t, NEW prefix
  PROVE  Sinks(d, <<t>>, prefix) = AndSink(Effect(d, <<>>), t, prefix)
<1> DEFINE fired == <<t>>
           first == Effect(d, <<>>)
           v == [n \in 0 .. 1 |-> IF n = 0 THEN first ELSE AndSink(first, t, prefix)]
<1>1. Len(fired) = 1 /\ fired[1] = t
  OBVIOUS
<1>2. IsTold(v, d, fired, prefix)
  <2>1. \A n \in 0 .. 1 :
          v[n] = IF n = 0 THEN first ELSE AndSink(v[n - 1], fired[n], prefix)
    BY <1>1
  <2> QED
    BY <1>1, <2>1 DEF IsTold
<1> HIDE DEF fired
<1>3. PICK w : IsTold(w, d, fired, prefix) /\ Sinks(d, fired, prefix) = w[Len(fired)]
  BY <1>2, SinksTell
<1>4. w[0] = first /\ w[1] = AndSink(w[0], t, prefix)
  BY <1>1, <1>3 DEF IsTold
<1> QED
  BY <1>1, <1>3, <1>4 DEF fired

LEMMA SinksTwo ==
  ASSUME NEW d, NEW t, NEW u, NEW prefix
  PROVE  Sinks(d, <<t, u>>, prefix) = AndSink(AndSink(Effect(d, <<>>), t, prefix), u, prefix)
<1> DEFINE fired == <<t, u>>
           first == Effect(d, <<>>)
           second == AndSink(first, t, prefix)
           v == [n \in 0 .. 2 |-> IF n = 0 THEN first
                                  ELSE IF n = 1 THEN second ELSE AndSink(second, u, prefix)]
<1>1. Len(fired) = 2 /\ fired[1] = t /\ fired[2] = u
  OBVIOUS
<1>2. IsTold(v, d, fired, prefix)
  <2>1. \A n \in 0 .. 2 :
          v[n] = IF n = 0 THEN first ELSE AndSink(v[n - 1], fired[n], prefix)
    BY <1>1
  <2> QED
    BY <1>1, <2>1 DEF IsTold
<1> HIDE DEF fired
<1>3. PICK w : IsTold(w, d, fired, prefix) /\ Sinks(d, fired, prefix) = w[Len(fired)]
  BY <1>2, SinksTell
<1>4. w[0] = first /\ w[1] = AndSink(w[0], t, prefix) /\ w[2] = AndSink(w[1], u, prefix)
  BY <1>1, <1>3 DEF IsTold
<1> QED
  BY <1>1, <1>3, <1>4 DEF fired

-----------------------------------------------------------------------------
\* How one disc differs from another in what it counts.
Counts(d, e, received, enqueued, dequeued) ==
  /\ e \in Discs /\ e.maxSize = d.maxSize
  /\ e.nReceived = d.nReceived + received
  /\ e.nEnqueued = d.nEnqueued + enqueued
  /\ e.nDequeued = d.nDequeued + dequeued
  /\ e.nPackets + dequeued = d.nPackets + enqueued

SameFlags(d, e) == e.requeued = d.requeued /\ e.peeked = d.peeked

Refuses(d, e, r) ==
  /\ Counts(d, e, 1, 0, 0)
  /\ e.droppedBefore = [d.droppedBefore EXCEPT ![r] = @ + 1]
  /\ e.droppedAfter = d.droppedAfter

Admits(d, e) ==
  Counts(d, e, 1, 1, 0) /\ e.droppedBefore = d.droppedBefore /\ e.droppedAfter = d.droppedAfter

Releases(d, e) ==
  Counts(d, e, 0, 0, 1) /\ e.droppedBefore = d.droppedBefore /\ e.droppedAfter = d.droppedAfter

Loses(d, e, r, n) ==
  /\ Counts(d, e, 0, 0, n)
  /\ e.droppedBefore = d.droppedBefore
  /\ e.droppedAfter = [d.droppedAfter EXCEPT ![r] = @ + n]

\* One more drop for the reason r.
LEMMA DropsMore ==
  ASSUME NEW f \in Drops, NEW r \in Reasons, NEW n \in Nat
  PROVE  LET g == [f EXCEPT ![r] = @ + n]
         IN  /\ g \in Drops
             /\ g[r] = f[r] + n /\ \A s \in Reasons : s # r => g[s] = f[s]
             /\ SumOver(g, Reasons) = SumOver(f, Reasons) + n
             /\ SumOver(f, Reasons) \in Nat
<1> DEFINE g == [f EXCEPT ![r] = @ + n]
           rest == Reasons \ {r}
<1>1. /\ g \in Drops /\ g[r] = f[r] + n /\ f[r] \in Nat
      /\ \A s \in Reasons : s # r => g[s] = f[s]
      /\ \A s \in Reasons : f[s] \in Int /\ g[s] \in Int /\ f[s] \in Nat
  BY DEF Drops
<1> HIDE DEF g
<1>2. IsFiniteSet(Reasons) /\ IsFiniteSet(rest)
  BY ReasonFacts, FS_RemoveElement
<1>3. SumOver(f, Reasons) = f[r] + SumOver(f, rest)
  BY <1>1, <1>2, SumOverRemove
<1>4. SumOver(g, Reasons) = g[r] + SumOver(g, rest)
  BY <1>1, <1>2, SumOverRemove
<1>5. SumOver(g, rest) = SumOver(f, rest)
  <2>1. \A s \in rest : g[s] = f[s]
    BY <1>1
  <2> HIDE DEF rest
  <2> QED
    BY <1>2, <2>1, SumOverSame
<1>6. SumOver(f, rest) \in Int /\ SumOver(f, Reasons) \in Nat
  <2>1. \A s \in rest : f[s] \in Int
    BY <1>1
  <2> HIDE DEF rest
  <2> QED
    BY <1>1, <1>2, <2>1, SumOverInt, SumOverNat
<1>7. SumOver(g, Reasons) = SumOver(f, Reasons) + n
  BY <1>1, <1>3, <1>4, <1>5, <1>6
<1> QED
  BY <1>1, <1>6, <1>7 DEF g

\* What the traces tell.
LEMMA DropBeforeTold ==
  ASSUME NEW d, NEW p, NEW r, NEW prefix
  PROVE  Sinks(d, <<Trace("DropBeforeEnqueue", p, r)>>, prefix)
           = DropBeforeEnqueue(d, p, prefix \o r)
<1> DEFINE t == Trace("DropBeforeEnqueue", p, r)
           reason == prefix \o r
<1>1. Sinks(d, <<t>>, prefix) = AndSink(Effect(d, <<>>), t, prefix)
  BY SinksOne
<1>2. Sink(d, t, prefix) = DropBeforeEnqueue(d, p, reason)
  BY DEF Sink, Trace
<1> HIDE DEF t, reason
<1>3. AndSink(Effect(d, <<>>), t, prefix) = DropBeforeEnqueue(d, p, reason)
  BY <1>2 DEF AndSink, Effect, DropBeforeEnqueue
<1> QED
  BY <1>1, <1>3 DEF t, reason

LEMMA EnqueueTold ==
  ASSUME NEW d, NEW p, NEW r, NEW prefix
  PROVE  Sinks(d, <<Trace("Enqueue", p, r)>>, prefix) = PacketEnqueued(d, p)
<1> DEFINE t == Trace("Enqueue", p, r)
<1>1. Sinks(d, <<t>>, prefix) = AndSink(Effect(d, <<>>), t, prefix)
  BY SinksOne
<1>2. Sink(d, t, prefix) = PacketEnqueued(d, p)
  BY DEF Sink, Trace
<1> QED
  BY <1>1, <1>2 DEF AndSink, Effect, PacketEnqueued

LEMMA DequeueTold ==
  ASSUME NEW d, NEW p, NEW r, NEW prefix
  PROVE  Sinks(d, <<Trace("Dequeue", p, r)>>, prefix) = PacketDequeued(d, p)
<1> DEFINE t == Trace("Dequeue", p, r)
<1>1. Sinks(d, <<t>>, prefix) = AndSink(Effect(d, <<>>), t, prefix)
  BY SinksOne
<1>2. Sink(d, t, prefix) = PacketDequeued(d, p)
  BY DEF Sink, Trace
<1> QED
  BY <1>1, <1>2 DEF AndSink, Effect, PacketDequeued

\* A disc with new values in some of its fields.
LEMMA DiscFields ==
  ASSUME NEW d \in Discs
  PROVE  /\ \A n \in Nat : [d EXCEPT !.nReceived = n] \in Discs
         /\ \A m, n \in Nat : [d EXCEPT !.nPackets = m, !.nEnqueued = n] \in Discs
         /\ \A m, n \in Nat : [d EXCEPT !.nPackets = m, !.nDequeued = n] \in Discs
         /\ \A f \in Drops : [d EXCEPT !.droppedBefore = f] \in Discs
         /\ \A f \in Drops : [d EXCEPT !.droppedAfter = f] \in Discs
         /\ \A p \in Packets \cup {None}, b \in BOOLEAN : [d EXCEPT !.requeued = p, !.peeked = b] \in Discs
         /\ \A p \in Packets \cup {None}, n \in Nat : [d EXCEPT !.requeued = p, !.nRequeued = n] \in Discs
         /\ \A p \in Packets \cup {None} : [d EXCEPT !.requeued = p] \in Discs
         /\ \A b \in BOOLEAN : [d EXCEPT !.peeked = b] \in Discs
<1>1. \A n \in Nat : [d EXCEPT !.nReceived = n] \in Discs
  BY DEF Discs
<1>2. \A m, n \in Nat : [d EXCEPT !.nPackets = m, !.nEnqueued = n] \in Discs
  BY DEF Discs
<1>3. \A m, n \in Nat : [d EXCEPT !.nPackets = m, !.nDequeued = n] \in Discs
  BY DEF Discs
<1>4. \A f \in Drops : [d EXCEPT !.droppedBefore = f] \in Discs
  BY DEF Discs
<1>5. \A f \in Drops : [d EXCEPT !.droppedAfter = f] \in Discs
  BY DEF Discs
<1>6. \A p \in Packets \cup {None}, b \in BOOLEAN : [d EXCEPT !.requeued = p, !.peeked = b] \in Discs
  BY DEF Discs
<1>7. \A p \in Packets \cup {None}, n \in Nat : [d EXCEPT !.requeued = p, !.nRequeued = n] \in Discs
  BY DEF Discs
<1>8. \A p \in Packets \cup {None} : [d EXCEPT !.requeued = p] \in Discs
  BY DEF Discs
<1>9. \A b \in BOOLEAN : [d EXCEPT !.peeked = b] \in Discs
  BY DEF Discs
<1> QED
  BY <1>1, <1>2, <1>3, <1>4, <1>5, <1>6, <1>7, <1>8, <1>9

\* What an arrival leaves of a disc.
LEMMA ReceivedRefused ==
  ASSUME NEW d \in Discs, NEW p, NEW r \in Reasons
  PROVE  LET e == DropBeforeEnqueue(Received(d), p, r).disc
         IN  Refuses(d, e, r) /\ SameFlags(d, e)
<1> DEFINE e == DropBeforeEnqueue(Received(d), p, r).disc
<1>1. [d.droppedBefore EXCEPT ![r] = @ + 1] \in Drops
  BY DropsMore DEF Discs
<1>2. e \in Discs
  <2> DEFINE f == [d.droppedBefore EXCEPT ![r] = @ + 1]
             n == d.nReceived + 1
             received == [d EXCEPT !.nReceived = n]
  <2>1. n \in Nat
    BY DEF Discs
  <2>2. e = [received EXCEPT !.droppedBefore = f]
    BY DEF DropBeforeEnqueue, Received, Effect, Discs
  <2> HIDE DEF e, f, n
  <2>3. received \in Discs
    BY <2>1, DiscFields
  <2> HIDE DEF received
  <2> QED
    BY <1>1, <2>2, <2>3, DiscFields DEF f
<1>3. /\ e.maxSize = d.maxSize /\ e.nReceived = d.nReceived + 1 /\ e.nEnqueued = d.nEnqueued
      /\ e.nDequeued = d.nDequeued /\ e.nPackets = d.nPackets
      /\ e.droppedBefore = [d.droppedBefore EXCEPT ![r] = @ + 1]
      /\ e.droppedAfter = d.droppedAfter /\ e.requeued = d.requeued /\ e.peeked = d.peeked
      /\ d.nEnqueued \in Nat /\ d.nDequeued \in Nat /\ d.nPackets \in Nat
  BY DEF DropBeforeEnqueue, Received, Effect, Discs
<1> HIDE DEF e
<1>4. Counts(d, e, 1, 0, 0)
  BY <1>2, <1>3 DEF Counts
<1> QED
  BY <1>3, <1>4 DEF Refuses, SameFlags, e

LEMMA ReceivedAdmitted ==
  ASSUME NEW d \in Discs, NEW p
  PROVE  LET e == PacketEnqueued(Received(d), p).disc IN Admits(d, e) /\ SameFlags(d, e)
<1> DEFINE e == PacketEnqueued(Received(d), p).disc
<1>2. e \in Discs
  <2> DEFINE n == d.nReceived + 1
             received == [d EXCEPT !.nReceived = n]
             i == d.nPackets + 1
             j == d.nEnqueued + 1
  <2>1. n \in Nat /\ i \in Nat /\ j \in Nat
    BY DEF Discs
  <2>2. e = [received EXCEPT !.nPackets = i, !.nEnqueued = j]
    BY DEF PacketEnqueued, Received, Effect, Discs
  <2> HIDE DEF e, i, j, n
  <2>3. received \in Discs
    BY <2>1, DiscFields
  <2> HIDE DEF received
  <2> QED
    BY <2>1, <2>2, <2>3, DiscFields
<1>3. /\ e.maxSize = d.maxSize /\ e.nReceived = d.nReceived + 1
      /\ e.nEnqueued = d.nEnqueued + 1
      /\ e.nDequeued = d.nDequeued /\ e.nPackets = d.nPackets + 1
      /\ e.droppedBefore = d.droppedBefore
      /\ e.droppedAfter = d.droppedAfter /\ e.requeued = d.requeued /\ e.peeked = d.peeked
      /\ d.nEnqueued \in Nat /\ d.nDequeued \in Nat /\ d.nPackets \in Nat
  BY DEF PacketEnqueued, Received, Effect, Discs
<1> HIDE DEF e
<1>4. Counts(d, e, 1, 1, 0)
  BY <1>2, <1>3 DEF Counts
<1> QED
  BY <1>3, <1>4 DEF Admits, SameFlags, e

\* What the extraction of a packet leaves of a disc, in and outside the context of a peek.
LEMMA DiscDequeued ==
  ASSUME NEW d \in Discs, NEW p, d.nPackets > 0 \/ d.peeked
  PROVE  LET e == PacketDequeued(d, p)
         IN  /\ e.disc \in Discs /\ SameFlags(d, e.disc)
             /\ d.peeked => e.disc = d
             /\ ~ d.peeked => /\ Releases(d, e.disc)
                              /\ e.fired = <<Trace("Dequeue", p, NoReason)>>
<1>1. CASE d.peeked
  BY <1>1 DEF PacketDequeued, Effect, SameFlags
<1>2. CASE ~ d.peeked
  <2> DEFINE e == PacketDequeued(d, p).disc
  <2>1. e = [d EXCEPT !.nPackets = @ - 1, !.nDequeued = @ + 1]
        /\ PacketDequeued(d, p).fired = <<Trace("Dequeue", p, NoReason)>>
    BY <1>2 DEF PacketDequeued, Effect
  <2>2. d.nPackets \in Nat \ {0} /\ d.nDequeued \in Nat /\ d.nEnqueued \in Nat /\ d.nReceived \in Nat
    BY <1>2 DEF Discs
  <2> HIDE DEF e
  <2>3. e \in Discs
    <3> DEFINE i == d.nPackets - 1
               j == d.nDequeued + 1
    <3>1. i \in Nat /\ j \in Nat
      BY <2>2
    <3>2. e = [d EXCEPT !.nPackets = i, !.nDequeued = j]
      BY <2>1
    <3> HIDE DEF i, j
    <3> QED
      BY <3>1, <3>2, DiscFields
  <2>4. /\ e.maxSize = d.maxSize /\ e.nReceived = d.nReceived
        /\ e.nEnqueued = d.nEnqueued
        /\ e.nDequeued = d.nDequeued + 1 /\ e.nPackets = d.nPackets - 1
        /\ e.droppedBefore = d.droppedBefore
        /\ e.droppedAfter = d.droppedAfter /\ e.requeued = d.requeued /\ e.peeked = d.peeked
    BY <2>1 DEF Discs
  <2>5. Counts(d, e, 0, 0, 1)
    BY <2>2, <2>3, <2>4 DEF Counts
  <2> QED
    BY <1>2, <2>1, <2>3, <2>4, <2>5 DEF Releases, SameFlags, e
<1> QED
  BY <1>1, <1>2

-----------------------------------------------------------------------------
\* Sequences of two elements.
LEMMA PairSequence ==
  ASSUME NEW x, NEW y
  PROVE  /\ Append(<<x>>, y) = <<x, y>>
         /\ (<<>> \o <<x>>) \o <<y>> = <<x, y>>
<1> DEFINE S == {x, y}
           pair == <<x, y>>
<1>1. <<x>> \in Seq(S) /\ <<y>> \in Seq(S) /\ x \in S /\ y \in S
  OBVIOUS
<1>2. pair \in Seq(S) /\ Len(pair) = 2 /\ pair[1] = x /\ pair[2] = y
  OBVIOUS
<1>3. ASSUME NEW s \in Seq(S), Len(s) = 2, s[1] = x, s[2] = y
      PROVE  s = pair
  <2>1. Len(s) = Len(pair) /\ \A i \in 1 .. Len(s) : s[i] = pair[i]
    BY <1>2, <1>3
  <2> HIDE DEF pair, S
  <2> QED
    BY <1>2, <2>1, SeqEqual
<1>4. /\ Append(<<x>>, y) \in Seq(S) /\ Len(Append(<<x>>, y)) = 2
      /\ Append(<<x>>, y)[1] = x /\ Append(<<x>>, y)[2] = y
  BY <1>1, AppendProperties
<1>5. <<>> \o <<x>> = <<x>>
  BY <1>1
<1>6. /\ (<<x>> \o <<y>>) \in Seq(S) /\ Len(<<x>> \o <<y>>) = 2
      /\ (<<x>> \o <<y>>)[1] = x /\ (<<x>> \o <<y>>)[2] = y
  BY <1>1, ConcatProperties
<1> QED
  BY <1>3, <1>4, <1>5, <1>6 DEF pair

\* The effect of one more trace.
LEMMA AndSinkFields ==
  ASSUME NEW e, NEW t, NEW prefix
  PROVE  /\ AndSink(e, t, prefix).disc = Sink(e.disc, t, prefix).disc
         /\ AndSink(e, t, prefix).fired = e.fired \o Sink(e.disc, t, prefix).fired
BY DEF AndSink, Effect

\* A removed packet is dequeued and dropped at every level, once, and in the context of a
\* peek as well.
LEMMA RemovalTold ==
  ASSUME NEW d \in Discs, d.nPackets > 0, NEW p, NEW q, NEW r, NEW prefix,
         NEW reason \in Reasons, reason = prefix \o r
  PROVE  LET e == Sinks(d, <<Trace("Dequeue", p, q), Trace("DropAfterDequeue", p, r)>>, prefix)
         IN  /\ Loses(d, e.disc, reason, 1) /\ SameFlags(d, e.disc)
             /\ ~ d.peeked => e.fired = <<Trace("Dequeue", p, NoReason),
                                          Trace("DropAfterDequeue", p, reason)>>
<1> DEFINE t == Trace("Dequeue", p, q)
           u == Trace("DropAfterDequeue", p, r)
           first == AndSink(Effect(d, <<>>), t, prefix)
           e == Sinks(d, <<t, u>>, prefix)
<1>1. e = AndSink(first, u, prefix)
  BY SinksTwo
<1>2. Sink(d, t, prefix) = PacketDequeued(d, p)
  BY DEF Sink, Trace
<1>3. Sink(first.disc, u, prefix) = DropAfterDequeue(first.disc, p, reason)
  BY DEF Sink, Trace
<1> HIDE DEF t, u
<1>4. /\ first.disc = PacketDequeued(d, p).disc
      /\ first.fired = <<>> \o PacketDequeued(d, p).fired
  BY <1>2 DEF AndSink, Effect
<1> HIDE DEF first, e
<1>5. /\ e.disc = DropAfterDequeue(first.disc, p, reason).disc
      /\ e.fired = first.fired \o DropAfterDequeue(first.disc, p, reason).fired
  <2>1. /\ AndSink(first, u, prefix).disc = Sink(first.disc, u, prefix).disc
        /\ AndSink(first, u, prefix).fired = first.fired \o Sink(first.disc, u, prefix).fired
    BY AndSinkFields
  <2> QED
    BY <1>1, <1>3, <2>1
<1>6. /\ d.nPackets \in Nat /\ d.nDequeued \in Nat /\ d.nEnqueued \in Nat /\ d.nReceived \in Nat
      /\ d.droppedAfter \in Drops /\ d.peeked \in BOOLEAN
  BY DEF Discs
<1>7. [d.droppedAfter EXCEPT ![reason] = @ + 1] \in Drops
  BY <1>6, DropsMore
<1>8. CASE ~ d.peeked
  <2> DEFINE c == first.disc
             f == [c.droppedAfter EXCEPT ![reason] = @ + 1]
  <2>1. /\ c \in Discs /\ Releases(d, c) /\ SameFlags(d, c)
        /\ first.fired = <<>> \o <<Trace("Dequeue", p, NoReason)>>
    BY <1>4, <1>8, DiscDequeued
  <2> HIDE DEF c
  <2>2. ~ c.peeked /\ c.droppedAfter = d.droppedAfter
    BY <1>8, <2>1 DEF SameFlags, Releases
  <2>3. /\ e.disc = [c EXCEPT !.droppedAfter[reason] = @ + 1]
        /\ e.fired = first.fired \o <<Trace("DropAfterDequeue", p, reason)>>
    BY <1>5, <2>2 DEF DropAfterDequeue, Effect, c
  <2>4. e.disc = [c EXCEPT !.droppedAfter = f]
    BY <2>1, <2>3 DEF Discs
  <2>5. f \in Drops /\ f = [d.droppedAfter EXCEPT ![reason] = @ + 1]
    BY <1>7, <2>2
  <2> HIDE DEF f
  <2>6. e.disc \in Discs
    <3>1. c \in Discs
      BY <2>1
    <3> QED
      BY <2>4, <2>5, <3>1, DiscFields, ZenonT(30)
  <2>7. /\ e.disc.droppedAfter = f /\ e.disc.droppedBefore = c.droppedBefore
        /\ e.disc.nReceived = c.nReceived /\ e.disc.nEnqueued = c.nEnqueued
        /\ e.disc.nDequeued = c.nDequeued /\ e.disc.nPackets = c.nPackets
        /\ e.disc.maxSize = c.maxSize /\ e.disc.requeued = c.requeued
        /\ e.disc.peeked = c.peeked
    BY <2>1, <2>4 DEF Discs
  <2>8. Loses(d, e.disc, reason, 1) /\ SameFlags(d, e.disc)
    BY <2>1, <2>5, <2>6, <2>7 DEF Loses, Releases, Counts, SameFlags
  <2>9. e.fired = <<Trace("Dequeue", p, NoReason), Trace("DropAfterDequeue", p, reason)>>
    <3>1. e.fired = (<<>> \o <<Trace("Dequeue", p, NoReason)>>)
                       \o <<Trace("DropAfterDequeue", p, reason)>>
      BY <2>1, <2>3
    <3> QED
      BY <3>1, PairSequence
  <2> QED
    BY <1>8, <2>8, <2>9 DEF e, t, u
<1>9. CASE d.peeked
  <2> DEFINE f == [d.droppedAfter EXCEPT ![reason] = @ + 1]
             dropped == [d EXCEPT !.droppedAfter = f]
             lifted == [dropped EXCEPT !.peeked = FALSE]
             c == PacketDequeued(lifted, p).disc
  <2>1. first.disc = d
    BY <1>4, <1>9 DEF PacketDequeued, Effect
  <2>2. e.disc = [c EXCEPT !.peeked = TRUE]
    <3>1. dropped = [d EXCEPT !.droppedAfter[reason] = @ + 1]
      BY DEF Discs
    <3> HIDE DEF dropped
    <3> QED
      BY <1>5, <1>9, <2>1, <3>1 DEF DropAfterDequeue, Effect
  <2>3. f \in Drops
    BY <1>7
  <2> HIDE DEF f
  <2>4. dropped \in Discs
    BY <2>3, DiscFields
  <2>5. /\ dropped.droppedAfter = f /\ dropped.droppedBefore = d.droppedBefore
        /\ dropped.nReceived = d.nReceived /\ dropped.nEnqueued = d.nEnqueued
        /\ dropped.nDequeued = d.nDequeued /\ dropped.nPackets = d.nPackets
        /\ dropped.maxSize = d.maxSize /\ dropped.requeued = d.requeued
    BY DEF Discs
  <2> HIDE DEF dropped
  <2>6. lifted \in Discs
    BY <2>4, DiscFields
  <2>7. /\ lifted.droppedAfter = f /\ lifted.droppedBefore = d.droppedBefore
        /\ lifted.nReceived = d.nReceived /\ lifted.nEnqueued = d.nEnqueued
        /\ lifted.nDequeued = d.nDequeued /\ lifted.nPackets = d.nPackets
        /\ lifted.maxSize = d.maxSize /\ lifted.requeued = d.requeued
        /\ ~ lifted.peeked
    BY <2>4, <2>5 DEF Discs
  <2> HIDE DEF lifted
  <2>8. c \in Discs /\ Releases(lifted, c) /\ SameFlags(lifted, c)
    BY <2>6, <2>7, DiscDequeued
  <2> HIDE DEF c
  <2>9. e.disc \in Discs
    BY <2>2, <2>8, DiscFields
  <2>10. /\ e.disc.droppedAfter = c.droppedAfter /\ e.disc.droppedBefore = c.droppedBefore
         /\ e.disc.nReceived = c.nReceived /\ e.disc.nEnqueued = c.nEnqueued
         /\ e.disc.nDequeued = c.nDequeued /\ e.disc.nPackets = c.nPackets
         /\ e.disc.maxSize = c.maxSize /\ e.disc.requeued = c.requeued
         /\ e.disc.peeked = TRUE
    BY <2>2, <2>8 DEF Discs
  <2>11. Loses(d, e.disc, reason, 1)
    BY <2>7, <2>8, <2>9, <2>10 DEF Loses, Releases, Counts, f
  <2>12. SameFlags(d, e.disc)
    BY <1>6, <1>9, <2>7, <2>8, <2>10 DEF SameFlags
  <2> QED
    BY <1>9, <2>11, <2>12 DEF e, t, u
<1> QED
  BY <1>6, <1>8, <1>9

-----------------------------------------------------------------------------
\* Sequence t is what is left of s after its first n elements.
Rest(s, t, n) ==
  /\ t \in Seq(Packets) /\ Len(t) = Len(s) - n
  /\ \A i \in 1 .. Len(t) : t[i] = s[i + n]

\* Queue u is queue q after the removal of n packets.
Removed(q, u, n) ==
  /\ u \in Queues /\ Rest(q.packets, u.packets, n)
  /\ u.maxSize = q.maxSize /\ u.droppedBefore = q.droppedBefore
  /\ u.droppedAfter = q.droppedAfter + n

LEMMA QueueRemoval ==
  ASSUME NEW q \in Queues, NPackets(q) > 0
  PROVE  /\ Removed(q, DoRemove(q).queue, 1)
         /\ \E p \in Packets : DoRemove(q).fired = <<Trace("Dequeue", p, NoReason),
                                                     Trace("DropAfterDequeue", p, NoReason)>>
<1> DEFINE h == Head(q.packets)
           s == Tail(q.packets)
           u == DoRemove(q).queue
<1>1. /\ q.packets \in Seq(Packets) /\ Len(q.packets) \in Nat /\ Len(q.packets) > 0
      /\ q.droppedAfter \in Nat
  BY DEF Queues, NPackets
<1>2. h \in Packets /\ Rest(q.packets, s, 1)
  BY <1>1 DEF Rest
<1>3. /\ u = [[q EXCEPT !.packets = s] EXCEPT !.droppedAfter = @ + 1]
      /\ DoRemove(q).fired = Append(<<Trace("Dequeue", h, NoReason)>>,
                                    Trace("DropAfterDequeue", h, NoReason))
  <2>1. /\ DoDequeue(q).queue = [q EXCEPT !.packets = s] /\ DoDequeue(q).item = h
        /\ DoDequeue(q).fired = <<Trace("Dequeue", h, NoReason)>>
    BY <1>1 DEF DoDequeue, Outcome, NPackets
  <2>2. DoRemove(q) = DropDequeued(DoDequeue(q))
    BY <1>1 DEF DoRemove, NPackets
  <2> HIDE DEF s, h
  <2> QED
    BY <2>1, <2>2 DEF DropDequeued, Outcome
<1> HIDE DEF u
<1>4. s \in Seq(Packets)
  BY <1>2 DEF Rest
<1> HIDE DEF s, h
<1>5. u \in Queues
  <2> DEFINE n == q.droppedAfter + 1
  <2>1. n \in Nat /\ u = [q EXCEPT !.packets = s, !.droppedAfter = n]
    BY <1>1, <1>3 DEF Queues
  <2> HIDE DEF n
  <2> QED
    BY <1>4, <2>1 DEF Queues
<1>6. /\ u.packets = s /\ u.maxSize = q.maxSize /\ u.droppedBefore = q.droppedBefore
      /\ u.droppedAfter = q.droppedAfter + 1
  BY <1>3 DEF Queues
<1>7. DoRemove(q).fired = <<Trace("Dequeue", h, NoReason), Trace("DropAfterDequeue", h, NoReason)>>
  BY <1>3, PairSequence
<1> QED
  BY <1>2, <1>5, <1>6, <1>7 DEF Removed, u

\* What one call of Remove leaves at the three levels.
LEMMA RemovalKeeps ==
  ASSUME NEW s, s.queue \in Queues, NPackets(s.queue) > 0,
         s.child \in Discs, s.child.nPackets > 0, ~ s.child.peeked,
         s.parent \in Discs, s.parent.nPackets > 0
  PROVE  LET t == Removal(s)
         IN  /\ Removed(s.queue, t.queue, 1)
             /\ Loses(s.child, t.child, INTERNAL_QUEUE_DROP, 1) /\ SameFlags(s.child, t.child)
             /\ Loses(s.parent, t.parent, CHILD_QUEUE_DISC_DROP \o INTERNAL_QUEUE_DROP, 1)
             /\ SameFlags(s.parent, t.parent)
<1> DEFINE o == DoRemove(s.queue)
           counted == Sinks(s.child, o.fired, INTERNAL_QUEUE_DROP)
           told == Sinks(s.parent, counted.fired, CHILD_QUEUE_DISC_DROP)
<1>1. Removed(s.queue, o.queue, 1)
  BY QueueRemoval
<1>2. PICK p \in Packets : o.fired = <<Trace("Dequeue", p, NoReason),
                                       Trace("DropAfterDequeue", p, NoReason)>>
  BY QueueRemoval
<1>3. /\ INTERNAL_QUEUE_DROP \in Reasons
      /\ INTERNAL_QUEUE_DROP = INTERNAL_QUEUE_DROP \o NoReason
      /\ CHILD_QUEUE_DISC_DROP \o INTERNAL_QUEUE_DROP \in Reasons
  BY ReasonFacts DEF OwnReasons
<1>4. /\ Loses(s.child, counted.disc, INTERNAL_QUEUE_DROP, 1)
      /\ SameFlags(s.child, counted.disc)
      /\ counted.fired = <<Trace("Dequeue", p, NoReason),
                           Trace("DropAfterDequeue", p, INTERNAL_QUEUE_DROP)>>
  BY <1>2, <1>3, RemovalTold
<1>5. /\ Loses(s.parent, told.disc, CHILD_QUEUE_DISC_DROP \o INTERNAL_QUEUE_DROP, 1)
      /\ SameFlags(s.parent, told.disc)
  <2> DEFINE reason == CHILD_QUEUE_DISC_DROP \o INTERNAL_QUEUE_DROP
  <2>1. reason \in Reasons /\ reason = CHILD_QUEUE_DISC_DROP \o INTERNAL_QUEUE_DROP
    BY <1>3
  <2>2. told = Sinks(s.parent, <<Trace("Dequeue", p, NoReason),
                                 Trace("DropAfterDequeue", p, INTERNAL_QUEUE_DROP)>>,
                     CHILD_QUEUE_DISC_DROP)
    BY <1>4
  <2> HIDE DEF reason, told
  <2>3. Loses(s.parent, told.disc, reason, 1) /\ SameFlags(s.parent, told.disc)
    BY <2>1, <2>2, RemovalTold
  <2> QED
    BY <2>3 DEF reason
<1>6. /\ Removal(s).queue = o.queue /\ Removal(s).child = counted.disc
      /\ Removal(s).parent = told.disc
  BY DEF Removal, AddInternalQueue, AddQueueDiscClass
<1> QED
  BY <1>1, <1>4, <1>5, <1>6

\* State t of a queue and its two discs is state s after n calls of Remove.
Withdrawn(s, t, n) ==
  /\ Removed(s.queue, t.queue, n)
  /\ Loses(s.child, t.child, INTERNAL_QUEUE_DROP, n) /\ SameFlags(s.child, t.child)
  /\ Loses(s.parent, t.parent, CHILD_QUEUE_DISC_DROP \o INTERNAL_QUEUE_DROP, n)
  /\ SameFlags(s.parent, t.parent)

\* Losses add up.
LEMMA LosesNothing ==
  ASSUME NEW d \in Discs, NEW r \in Reasons
  PROVE  Loses(d, d, r, 0)
<1>1. /\ d.nPackets \in Nat /\ d.nDequeued \in Nat /\ d.nEnqueued \in Nat
      /\ d.nReceived \in Nat /\ d.droppedAfter \in Drops
  BY DEF Discs
<1>2. Counts(d, d, 0, 0, 0)
  BY <1>1 DEF Counts
<1>3. d.droppedAfter = [d.droppedAfter EXCEPT ![r] = @ + 0]
  BY <1>1 DEF Drops
<1> QED
  BY <1>2, <1>3 DEF Loses

LEMMA LosesMore ==
  ASSUME NEW d \in Discs, NEW e, NEW f, NEW r \in Reasons, NEW n \in Nat,
         Loses(d, e, r, n), Loses(e, f, r, 1)
  PROVE  Loses(d, f, r, n + 1)
<1>1. /\ d.nPackets \in Nat /\ d.nDequeued \in Nat /\ d.nEnqueued \in Nat
      /\ d.nReceived \in Nat /\ d.droppedAfter \in Drops
  BY DEF Discs
<1>2. /\ e.nPackets \in Nat /\ e.nDequeued \in Nat /\ e.nEnqueued \in Nat
      /\ e.nReceived \in Nat
  BY DEF Loses, Counts, Discs
<1>3. /\ f \in Discs /\ f.nPackets \in Nat
  BY DEF Loses, Counts, Discs
<1>4. Counts(d, f, 0, 0, n + 1)
  BY <1>1, <1>2, <1>3 DEF Loses, Counts
<1>5. f.droppedAfter = [d.droppedAfter EXCEPT ![r] = @ + (n + 1)]
  <2> DEFINE h == d.droppedAfter
             i == [h EXCEPT ![r] = @ + n]
  <2>1. e.droppedAfter = i /\ f.droppedAfter = [i EXCEPT ![r] = @ + 1]
    BY DEF Loses
  <2>2. h \in [Reasons -> Nat]
    BY <1>1 DEF Drops
  <2> HIDE DEF h
  <2>3. [i EXCEPT ![r] = @ + 1] = [h EXCEPT ![r] = @ + (n + 1)]
    BY <2>2
  <2> QED
    BY <2>1, <2>3 DEF h
<1> QED
  BY <1>4, <1>5 DEF Loses

LEMMA RestOfRest ==
  ASSUME NEW s \in Seq(Packets), NEW t, NEW u, NEW n \in Nat, Rest(s, t, n), Rest(t, u, 1)
  PROVE  Rest(s, u, n + 1)
<1>1. /\ t \in Seq(Packets) /\ u \in Seq(Packets)
      /\ Len(s) \in Nat /\ Len(t) \in Nat /\ Len(u) \in Nat
      /\ Len(t) = Len(s) - n /\ Len(u) = Len(t) - 1
  BY DEF Rest
<1>2. ASSUME NEW i \in 1 .. Len(u)
      PROVE  u[i] = s[i + (n + 1)]
  <2>1. u[i] = t[i + 1]
    BY DEF Rest
  <2>2. i + 1 \in 1 .. Len(t)
    BY <1>1
  <2>3. t[i + 1] = s[(i + 1) + n]
    BY <2>2 DEF Rest
  <2>4. (i + 1) + n = i + (n + 1)
    OBVIOUS
  <2> QED
    BY <2>1, <2>3, <2>4
<1> QED
  BY <1>1, <1>2 DEF Rest

LEMMA WithdrawnMore ==
  ASSUME NEW s, s.queue \in Queues, s.child \in Discs, s.parent \in Discs,
         NEW t, NEW n \in Nat, Withdrawn(s, t, n), NEW u, Withdrawn(t, u, 1)
  PROVE  Withdrawn(s, u, n + 1)
<1>1. /\ INTERNAL_QUEUE_DROP \in Reasons
      /\ CHILD_QUEUE_DISC_DROP \o INTERNAL_QUEUE_DROP \in Reasons
  BY ReasonFacts DEF OwnReasons
<1>2. Loses(s.child, u.child, INTERNAL_QUEUE_DROP, n + 1)
  <2>1. /\ Loses(s.child, t.child, INTERNAL_QUEUE_DROP, n)
        /\ Loses(t.child, u.child, INTERNAL_QUEUE_DROP, 1)
    BY DEF Withdrawn
  <2> QED
    BY <1>1, <2>1, LosesMore
<1>3. Loses(s.parent, u.parent, CHILD_QUEUE_DISC_DROP \o INTERNAL_QUEUE_DROP, n + 1)
  <2> DEFINE reason == CHILD_QUEUE_DISC_DROP \o INTERNAL_QUEUE_DROP
  <2>1. /\ Loses(s.parent, t.parent, reason, n) /\ Loses(t.parent, u.parent, reason, 1)
        /\ reason \in Reasons
    BY <1>1 DEF Withdrawn
  <2> HIDE DEF reason
  <2>2. Loses(s.parent, u.parent, reason, n + 1)
    BY <2>1, LosesMore
  <2> QED
    BY <2>2 DEF reason
<1>4. SameFlags(s.child, u.child) /\ SameFlags(s.parent, u.parent)
  BY DEF Withdrawn, SameFlags
<1>5. Removed(s.queue, u.queue, n + 1)
  <2>1. s.queue.packets \in Seq(Packets) /\ s.queue.droppedAfter \in Nat
    BY DEF Queues
  <2>2. Rest(s.queue.packets, t.queue.packets, n) /\ Rest(t.queue.packets, u.queue.packets, 1)
    BY DEF Withdrawn, Removed
  <2>3. Rest(s.queue.packets, u.queue.packets, n + 1)
    BY <2>1, <2>2, RestOfRest
  <2> QED
    BY <2>1, <2>3 DEF Withdrawn, Removed
<1> QED
  BY <1>2, <1>3, <1>4, <1>5 DEF Withdrawn

\* The states that n calls of Remove go through,
IsWithdrawal(v, start, n) == v = [i \in 0 .. n |-> IF i = 0 THEN start ELSE Removal(v[i - 1])]

LEMMA WithdrawalExists ==
  ASSUME NEW start, NEW n \in Nat
  PROVE  \E v : IsWithdrawal(v, start, n)
<1> DEFINE A == {k \in Nat : \E v : IsWithdrawal(v, start, k)}
<1>1. 0 \in A
  <2> DEFINE v == [i \in 0 .. 0 |-> start]
  <2>1. \A i \in 0 .. 0 : v[i] = IF i = 0 THEN start ELSE Removal(v[i - 1])
    OBVIOUS
  <2>2. v = [i \in 0 .. 0 |-> IF i = 0 THEN start ELSE Removal(v[i - 1])]
    BY <2>1
  <2> HIDE DEF v
  <2> QED
    BY <2>2 DEF IsWithdrawal
<1>2. ASSUME NEW k \in Nat \cap A
      PROVE  k + 1 \in A
  <2>1. PICK v : IsWithdrawal(v, start, k)
    OBVIOUS
  <2> DEFINE w == [i \in 0 .. (k + 1) |-> IF i = k + 1 THEN Removal(v[k]) ELSE v[i]]
             u == [i \in 0 .. (k + 1) |-> IF i = 0 THEN start ELSE Removal(w[i - 1])]
  <2>2. ASSUME NEW i \in 0 .. (k + 1)
        PROVE  w[i] = u[i]
    <3>1. CASE i = k + 1
      BY <3>1
    <3>2. CASE i \in 0 .. k
      <4>1. v[i] = IF i = 0 THEN start ELSE Removal(v[i - 1])
        BY <2>1, <3>2 DEF IsWithdrawal
      <4>2. i # 0 => w[i - 1] = v[i - 1]
        BY <3>2
      <4> QED
        BY <3>2, <4>1, <4>2
    <3> QED
      BY <3>1, <3>2
  <2>3. w = u
    BY <2>2
  <2> HIDE DEF w
  <2> QED
    BY <2>3 DEF IsWithdrawal
<1>3. Nat \subseteq A
  <2> HIDE DEF A
  <2> QED
    BY <1>1, <1>2, NumberInduction
<1> QED
  BY <1>3

\* and what they leave.
LEMMA WithdrawalKeeps ==
  ASSUME NEW s, s.queue \in Queues, s.child \in Discs, ~ s.child.peeked, s.parent \in Discs,
         NEW n \in Nat, n <= NPackets(s.queue), n <= s.child.nPackets, n <= s.parent.nPackets,
         NEW v, IsWithdrawal(v, s, n)
  PROVE  Withdrawn(s, v[n], n)
<1> DEFINE A == {i \in Nat : i <= n => Withdrawn(s, v[i], i)}
<1>1. 0 \in A
  <2>1. v[0] = s
    BY DEF IsWithdrawal
  <2>2. /\ INTERNAL_QUEUE_DROP \in Reasons
        /\ CHILD_QUEUE_DISC_DROP \o INTERNAL_QUEUE_DROP \in Reasons
    BY ReasonFacts DEF OwnReasons
  <2>3. Loses(s.child, s.child, INTERNAL_QUEUE_DROP, 0)
    BY <2>2, LosesNothing
  <2>4. Loses(s.parent, s.parent, CHILD_QUEUE_DISC_DROP \o INTERNAL_QUEUE_DROP, 0)
    BY <2>2, LosesNothing
  <2>5. Removed(s.queue, s.queue, 0)
    BY DEF Removed, Rest, Queues
  <2>6. SameFlags(s.child, s.child) /\ SameFlags(s.parent, s.parent)
    BY DEF SameFlags
  <2> QED
    BY <2>1, <2>3, <2>4, <2>5, <2>6 DEF Withdrawn
<1>2. ASSUME NEW i \in Nat \cap A
      PROVE  i + 1 \in A
  <2> SUFFICES ASSUME i + 1 <= n PROVE Withdrawn(s, v[i + 1], i + 1)
    OBVIOUS
  <2> DEFINE t == v[i]
  <2>1. v[i + 1] = Removal(t)
    <3>1. i + 1 \in 0 .. n /\ i + 1 # 0 /\ (i + 1) - 1 = i
      OBVIOUS
    <3>2. v[i + 1] = Removal(v[(i + 1) - 1])
      BY <3>1 DEF IsWithdrawal
    <3> QED
      BY <3>1, <3>2
  <2>2. Withdrawn(s, t, i)
    OBVIOUS
  <2> HIDE DEF t
  <2>3. t.queue \in Queues /\ NPackets(t.queue) > 0
    <3>1. s.queue.packets \in Seq(Packets) /\ Len(s.queue.packets) \in Nat
      BY DEF Queues
    <3>2. t.queue \in Queues /\ Len(t.queue.packets) = Len(s.queue.packets) - i
      BY <2>2 DEF Withdrawn, Removed, Rest
    <3> QED
      BY <3>1, <3>2 DEF NPackets
  <2>4. t.child \in Discs /\ t.child.nPackets > 0 /\ ~ t.child.peeked
    <3>1. t.child \in Discs /\ t.child.nPackets + i = s.child.nPackets + 0
      BY <2>2 DEF Withdrawn, Loses, Counts
    <3>2. t.child.nPackets \in Nat /\ s.child.nPackets \in Nat
      BY <3>1 DEF Discs
    <3>3. t.child.nPackets > 0
      BY <3>1, <3>2
    <3>4. ~ t.child.peeked
      BY <2>2 DEF Withdrawn, SameFlags
    <3> QED
      BY <3>1, <3>3, <3>4
  <2>5. t.parent \in Discs /\ t.parent.nPackets > 0
    <3>1. t.parent \in Discs /\ t.parent.nPackets + i = s.parent.nPackets + 0
      BY <2>2 DEF Withdrawn, Loses, Counts
    <3>2. t.parent.nPackets \in Nat /\ s.parent.nPackets \in Nat
      BY <3>1 DEF Discs
    <3> QED
      BY <3>1, <3>2
  <2>6. Withdrawn(t, Removal(t), 1)
    BY <2>3, <2>4, <2>5, RemovalKeeps DEF Withdrawn
  <2> QED
    BY <2>1, <2>2, <2>6, WithdrawnMore
<1>3. Nat \subseteq A
  <2> HIDE DEF A
  <2> QED
    BY <1>1, <1>2, NumberInduction
<1> QED
  BY <1>3

-----------------------------------------------------------------------------
\* The packets in the bands, and the drops before and after, summed up.
Bands == [1 .. 3 -> Queues]
FillOf(B) == SumOver([b \in DOMAIN B |-> NPackets(B[b])], DOMAIN B)
BeforeOf(B) == SumOver([b \in DOMAIN B |-> B[b].droppedBefore], DOMAIN B)
AfterOf(B) == SumOver([b \in DOMAIN B |-> B[b].droppedAfter], DOMAIN B)

LEMMA OneTerm ==
  ASSUME NEW D, IsFiniteSet(D), NEW f \in [D -> Nat], NEW b \in D, NEW g \in [D -> Nat],
         \A c \in D : c # b => g[c] = f[c]
  PROVE  /\ SumOver(f, D) \in Nat /\ f[b] <= SumOver(f, D)
         /\ SumOver(g, D) = (SumOver(f, D) - f[b]) + g[b]
<1> DEFINE rest == D \ {b}
<1>1. IsFiniteSet(rest)
  BY FS_RemoveElement
<1>2. /\ \A c \in D : f[c] \in Int /\ g[c] \in Int
      /\ \A c \in rest : f[c] \in Nat /\ f[c] = g[c]
      /\ f[b] \in Nat /\ g[b] \in Nat
  OBVIOUS
<1>3. SumOver(f, D) = f[b] + SumOver(f, rest)
  BY <1>2, SumOverRemove
<1>4. SumOver(g, D) = g[b] + SumOver(g, rest)
  BY <1>2, SumOverRemove
<1> HIDE DEF rest
<1>5. SumOver(f, rest) \in Nat
  BY <1>1, <1>2, SumOverNat
<1>6. SumOver(f, rest) = SumOver(g, rest)
  BY <1>1, <1>2, SumOverSame
<1> QED
  BY <1>2, <1>3, <1>4, <1>5, <1>6

LEMMA OneBand ==
  ASSUME NEW f \in [1 .. 3 -> Nat], NEW b \in 1 .. 3, NEW g \in [1 .. 3 -> Nat],
         \A c \in 1 .. 3 : c # b => g[c] = f[c]
  PROVE  /\ SumOver(f, 1 .. 3) \in Nat /\ f[b] <= SumOver(f, 1 .. 3)
         /\ SumOver(g, 1 .. 3) = (SumOver(f, 1 .. 3) - f[b]) + g[b]
<1> DEFINE D == 1 .. 3
<1>1. IsFiniteSet(D)
  <2>1. 1 \in Int /\ 3 \in Int
    OBVIOUS
  <2> QED
    BY ONLY <2>1, FS_Interval
<1>2. /\ f \in [D -> Nat] /\ g \in [D -> Nat] /\ b \in D
      /\ \A c \in D : c # b => g[c] = f[c]
  OBVIOUS
<1> HIDE DEF D
<1>3. /\ SumOver(f, D) \in Nat /\ f[b] <= SumOver(f, D)
      /\ SumOver(g, D) = (SumOver(f, D) - f[b]) + g[b]
  BY <1>1, <1>2, OneTerm
<1> QED
  BY <1>3 DEF D

LEMMA BandChanges ==
  ASSUME NEW B \in Bands, NEW b \in 1 .. 3, NEW u \in Queues
  PROVE  LET C == [B EXCEPT ![b] = u]
         IN  /\ C \in Bands /\ DOMAIN C = DOMAIN B
             /\ {FillOf(B), BeforeOf(B), AfterOf(B)} \subseteq Nat
             /\ NPackets(B[b]) \in Nat /\ NPackets(u) \in Nat
             /\ NPackets(B[b]) <= FillOf(B)
             /\ FillOf(C) = (FillOf(B) - NPackets(B[b])) + NPackets(u)
             /\ BeforeOf(C) = (BeforeOf(B) - B[b].droppedBefore) + u.droppedBefore
             /\ AfterOf(C) = (AfterOf(B) - B[b].droppedAfter) + u.droppedAfter
<1> DEFINE C == [B EXCEPT ![b] = u]
<1>1. /\ C \in Bands /\ DOMAIN C = 1 .. 3 /\ DOMAIN B = 1 .. 3
      /\ C[b] = u /\ \A c \in 1 .. 3 : c # b => C[c] = B[c]
  BY DEF Bands
<1>2. /\ \A c \in 1 .. 3 : B[c] \in Queues /\ C[c] \in Queues
      /\ \A q \in Queues : NPackets(q) \in Nat /\ q.droppedBefore \in Nat /\ q.droppedAfter \in Nat
  <2>1. \A c \in 1 .. 3 : B[c] \in Queues /\ C[c] \in Queues
    BY <1>1 DEF Bands
  <2>2. ASSUME NEW q \in Queues
        PROVE  NPackets(q) \in Nat /\ q.droppedBefore \in Nat /\ q.droppedAfter \in Nat
    BY DEF Queues, NPackets
  <2> QED
    BY <2>1, <2>2
<1> HIDE DEF C
<1>3. /\ FillOf(B) \in Nat /\ NPackets(B[b]) <= FillOf(B)
      /\ FillOf(C) = (FillOf(B) - NPackets(B[b])) + NPackets(u)
  <2> DEFINE f == [c \in 1 .. 3 |-> NPackets(B[c])]
             g == [c \in 1 .. 3 |-> NPackets(C[c])]
  <2>1. f \in [1 .. 3 -> Nat] /\ g \in [1 .. 3 -> Nat]
    BY <1>2
  <2>2. \A c \in 1 .. 3 : c # b => g[c] = f[c]
    BY <1>1
  <2>3. f[b] = NPackets(B[b]) /\ g[b] = NPackets(u)
    BY <1>1
  <2>4. FillOf(B) = SumOver(f, 1 .. 3) /\ FillOf(C) = SumOver(g, 1 .. 3)
    BY <1>1 DEF FillOf
  <2> HIDE DEF f, g
  <2> QED
    BY <2>1, <2>2, <2>3, <2>4, OneBand
<1>4. /\ BeforeOf(B) \in Nat
      /\ BeforeOf(C) = (BeforeOf(B) - B[b].droppedBefore) + u.droppedBefore
  <2> DEFINE f == [c \in 1 .. 3 |-> B[c].droppedBefore]
             g == [c \in 1 .. 3 |-> C[c].droppedBefore]
  <2>1. f \in [1 .. 3 -> Nat] /\ g \in [1 .. 3 -> Nat]
    BY <1>2
  <2>2. \A c \in 1 .. 3 : c # b => g[c] = f[c]
    BY <1>1
  <2>3. f[b] = B[b].droppedBefore /\ g[b] = u.droppedBefore
    BY <1>1
  <2>4. BeforeOf(B) = SumOver(f, 1 .. 3) /\ BeforeOf(C) = SumOver(g, 1 .. 3)
    BY <1>1 DEF BeforeOf
  <2> HIDE DEF f, g
  <2> QED
    BY <2>1, <2>2, <2>3, <2>4, OneBand
<1>5. /\ AfterOf(B) \in Nat
      /\ AfterOf(C) = (AfterOf(B) - B[b].droppedAfter) + u.droppedAfter
  <2> DEFINE f == [c \in 1 .. 3 |-> B[c].droppedAfter]
             g == [c \in 1 .. 3 |-> C[c].droppedAfter]
  <2>1. f \in [1 .. 3 -> Nat] /\ g \in [1 .. 3 -> Nat]
    BY <1>2
  <2>2. \A c \in 1 .. 3 : c # b => g[c] = f[c]
    BY <1>1
  <2>3. f[b] = B[b].droppedAfter /\ g[b] = u.droppedAfter
    BY <1>1
  <2>4. AfterOf(B) = SumOver(f, 1 .. 3) /\ AfterOf(C) = SumOver(g, 1 .. 3)
    BY <1>1 DEF AfterOf
  <2> HIDE DEF f, g
  <2> QED
    BY <2>1, <2>2, <2>3, <2>4, OneBand
<1> QED
  BY <1>1, <1>2, <1>3, <1>4, <1>5 DEF C

\* The drops of a disc, by reason and in all, after another one.
SumsUp(d, e, r, before, after) ==
  /\ GetNDroppedPackets(e, r) = GetNDroppedPackets(d, r) + (before + after)
  /\ \A s \in Reasons : s # r => GetNDroppedPackets(e, s) = GetNDroppedPackets(d, s)
  /\ DroppedBefore(e) = DroppedBefore(d) + before
  /\ DroppedAfter(e) = DroppedAfter(d) + after
  /\ e.droppedBefore[r] = d.droppedBefore[r] + before
  /\ e.droppedAfter[r] = d.droppedAfter[r] + after
  /\ \A s \in Reasons : s # r => /\ e.droppedBefore[s] = d.droppedBefore[s]
                                 /\ e.droppedAfter[s] = d.droppedAfter[s]

LEMMA DropNumbers ==
  ASSUME NEW d \in Discs
  PROVE  /\ \A s \in Reasons : /\ d.droppedBefore[s] \in Nat /\ d.droppedAfter[s] \in Nat
                               /\ GetNDroppedPackets(d, s) \in Nat
         /\ DroppedBefore(d) \in Nat /\ DroppedAfter(d) \in Nat
<1>1. /\ d.droppedBefore \in Drops /\ d.droppedAfter \in Drops
      /\ \A s \in Reasons : d.droppedBefore[s] \in Nat /\ d.droppedAfter[s] \in Nat
  BY DEF Discs, Drops
<1>2. DroppedBefore(d) \in Nat /\ DroppedAfter(d) \in Nat
  BY <1>1, ReasonFacts, SumOverNat DEF DroppedBefore, DroppedAfter
<1> QED
  BY <1>1, <1>2 DEF GetNDroppedPackets

LEMMA RefusalSumsUp ==
  ASSUME NEW d \in Discs, NEW e, NEW r \in Reasons, Refuses(d, e, r)
  PROVE  SumsUp(d, e, r, 1, 0)
<1> DEFINE f == d.droppedBefore
           g == [f EXCEPT ![r] = @ + 1]
<1>1. e.droppedBefore = g /\ e.droppedAfter = d.droppedAfter
  BY DEF Refuses
<1>2. f \in Drops
  BY DEF Discs
<1>3. /\ g[r] = f[r] + 1 /\ \A s \in Reasons : s # r => g[s] = f[s]
      /\ SumOver(g, Reasons) = SumOver(f, Reasons) + 1
  <2> HIDE DEF f
  <2> QED
    BY <1>2, DropsMore
<1> HIDE DEF g
<1>4. DroppedBefore(e) = DroppedBefore(d) + 1 /\ DroppedAfter(e) = DroppedAfter(d) + 0
  <2>1. DroppedAfter(d) \in Nat /\ DroppedAfter(e) = DroppedAfter(d)
    BY <1>1, DropNumbers DEF DroppedAfter
  <2> QED
    BY <1>1, <1>3, <2>1 DEF DroppedBefore
<1>5. d.droppedBefore[r] \in Nat /\ d.droppedAfter[r] \in Nat
  BY DropNumbers
<1> QED
  BY <1>1, <1>3, <1>4, <1>5 DEF SumsUp, GetNDroppedPackets

LEMMA LossSumsUp ==
  ASSUME NEW d \in Discs, NEW e, NEW r \in Reasons, NEW n \in Nat, Loses(d, e, r, n)
  PROVE  SumsUp(d, e, r, 0, n)
<1> DEFINE f == d.droppedAfter
           g == [f EXCEPT ![r] = @ + n]
<1>1. e.droppedAfter = g /\ e.droppedBefore = d.droppedBefore
  BY DEF Loses
<1>2. f \in Drops
  BY DEF Discs
<1>3. /\ g[r] = f[r] + n /\ \A s \in Reasons : s # r => g[s] = f[s]
      /\ SumOver(g, Reasons) = SumOver(f, Reasons) + n
  <2> HIDE DEF f
  <2> QED
    BY <1>2, DropsMore
<1> HIDE DEF g
<1>4. DroppedAfter(e) = DroppedAfter(d) + n /\ DroppedBefore(e) = DroppedBefore(d) + 0
  <2>1. DroppedBefore(d) \in Nat /\ DroppedBefore(e) = DroppedBefore(d)
    BY <1>1, DropNumbers DEF DroppedBefore
  <2> QED
    BY <1>1, <1>3, <2>1 DEF DroppedAfter
<1>5. d.droppedBefore[r] \in Nat /\ d.droppedAfter[r] \in Nat
  BY DropNumbers
<1> QED
  BY <1>1, <1>3, <1>4, <1>5 DEF SumsUp, GetNDroppedPackets

-----------------------------------------------------------------------------
\* What a packet that arrives at a queue, or leaves it, makes of the queue.
TurnsAway(q, u) ==
  /\ u \in Queues /\ u.packets = q.packets /\ u.maxSize = q.maxSize
  /\ u.droppedBefore = q.droppedBefore + 1 /\ u.droppedAfter = q.droppedAfter

TakesIn(q, u, p) ==
  /\ u \in Queues /\ u.packets = Append(q.packets, p) /\ u.maxSize = q.maxSize
  /\ u.droppedBefore = q.droppedBefore /\ u.droppedAfter = q.droppedAfter

HandsOut(q, u, p) ==
  /\ u \in Queues /\ Rest(q.packets, u.packets, 1) /\ p = q.packets[1]
  /\ u.maxSize = q.maxSize
  /\ u.droppedBefore = q.droppedBefore /\ u.droppedAfter = q.droppedAfter

LEMMA QueueFields ==
  ASSUME NEW q \in Queues
  PROVE  /\ q.packets \in Seq(Packets) /\ q.maxSize \in Nat
         /\ q.droppedBefore \in Nat /\ q.droppedAfter \in Nat /\ NPackets(q) \in Nat
         /\ \A s \in Seq(Packets) : [q EXCEPT !.packets = s] \in Queues
         /\ \A s \in Seq(Packets), n \in Nat : [q EXCEPT !.packets = s, !.received = n] \in Queues
         /\ \A n \in Nat : [q EXCEPT !.droppedBefore = n] \in Queues
<1>1. /\ q.packets \in Seq(Packets) /\ q.maxSize \in Nat
      /\ q.droppedBefore \in Nat /\ q.droppedAfter \in Nat
  BY DEF Queues
<1>2. NPackets(q) \in Nat
  BY <1>1 DEF NPackets
<1>3. \A s \in Seq(Packets) : [q EXCEPT !.packets = s] \in Queues
  BY DEF Queues
<1>4. \A s \in Seq(Packets), n \in Nat : [q EXCEPT !.packets = s, !.received = n] \in Queues
  BY DEF Queues
<1>5. \A n \in Nat : [q EXCEPT !.droppedBefore = n] \in Queues
  BY DEF Queues
<1> QED
  BY <1>1, <1>2, <1>3, <1>4, <1>5

LEMMA QueueEnqueues ==
  ASSUME NEW q \in Queues, NEW p \in Packets
  PROVE  LET o == DoEnqueue(q, p)
         IN  /\ IsFull(q) => /\ TurnsAway(q, o.queue) /\ o.item = None
                             /\ o.fired = <<Trace("DropBeforeEnqueue", p, NoReason)>>
             /\ ~ IsFull(q) => /\ TakesIn(q, o.queue, p) /\ o.item = p
                               /\ o.fired = <<Trace("Enqueue", p, NoReason)>>
<1>1. CASE IsFull(q)
  <2> DEFINE n == q.droppedBefore + 1
             u == [q EXCEPT !.droppedBefore = n]
  <2>1. /\ DoEnqueue(q, p).queue = u /\ DoEnqueue(q, p).item = None
        /\ DoEnqueue(q, p).fired = <<Trace("DropBeforeEnqueue", p, NoReason)>>
    BY <1>1 DEF DoEnqueue, DropFull, Outcome
  <2>2. n \in Nat
    BY DEF Queues
  <2>3. u.packets = q.packets /\ u.maxSize = q.maxSize
        /\ u.droppedBefore = q.droppedBefore + 1 /\ u.droppedAfter = q.droppedAfter
    BY DEF Queues
  <2> HIDE DEF n
  <2>4. u \in Queues
    BY <2>2, QueueFields
  <2> QED
    BY <1>1, <2>1, <2>3, <2>4 DEF TurnsAway
<1>2. CASE ~ IsFull(q)
  <2> DEFINE s == Append(q.packets, p)
             n == q.received + 1
             u == [q EXCEPT !.packets = s, !.received = n]
  <2>1. /\ DoEnqueue(q, p).queue = u /\ DoEnqueue(q, p).item = p
        /\ DoEnqueue(q, p).fired = <<Trace("Enqueue", p, NoReason)>>
    BY <1>2 DEF DoEnqueue, Insert, Outcome
  <2>2. n \in Nat /\ s \in Seq(Packets)
    BY DEF Queues
  <2> HIDE DEF n, s
  <2>3. u.packets = s /\ u.maxSize = q.maxSize
        /\ u.droppedBefore = q.droppedBefore /\ u.droppedAfter = q.droppedAfter
    BY DEF Queues
  <2>4. u \in Queues
    BY <2>2, QueueFields
  <2> QED
    BY <1>2, <2>1, <2>3, <2>4 DEF TakesIn, s
<1> QED
  BY <1>1, <1>2

LEMMA QueueDequeues ==
  ASSUME NEW q \in Queues, NPackets(q) > 0
  PROVE  LET o == DoDequeue(q)
         IN  /\ o.item \in Packets /\ HandsOut(q, o.queue, o.item)
             /\ o.fired = <<Trace("Dequeue", o.item, NoReason)>>
<1> DEFINE h == Head(q.packets)
           s == Tail(q.packets)
           u == [q EXCEPT !.packets = s]
<1>1. q.packets \in Seq(Packets) /\ Len(q.packets) \in Nat /\ Len(q.packets) > 0
  BY DEF Queues, NPackets
<1>2. h \in Packets /\ Rest(q.packets, s, 1) /\ h = q.packets[1]
  BY <1>1 DEF Rest
<1>3. /\ DoDequeue(q).queue = u /\ DoDequeue(q).item = h
      /\ DoDequeue(q).fired = <<Trace("Dequeue", h, NoReason)>>
  BY <1>1 DEF DoDequeue, Outcome, NPackets
<1>4. s \in Seq(Packets)
  BY <1>2 DEF Rest
<1> HIDE DEF s, h
<1>5. u.packets = s /\ u.maxSize = q.maxSize
      /\ u.droppedBefore = q.droppedBefore /\ u.droppedAfter = q.droppedAfter
  BY DEF Queues
<1>6. u \in Queues
  BY <1>4, QueueFields
<1> QED
  BY <1>2, <1>3, <1>5, <1>6 DEF HandsOut

-----------------------------------------------------------------------------
\* The variables and their types.  Before the initialization there are no bands.
Typed ==
  /\ phase \in {"config", "ready"} /\ p4 \in BOOLEAN /\ raised \in BOOLEAN /\ highest \in Nat
  /\ parent \in Discs /\ child \in Discs /\ ~ child.peeked /\ child.requeued = None
  /\ phase = "config" => bands = <<>>
  /\ phase = "ready" => bands \in Bands
  /\ tagged \subseteq Packets /\ arrived \subseteq Packets
  /\ ~ p4 => tagged = Packets
  /\ accepted \in Seq(Packets) /\ extracted \in Seq(Packets)

\* Packet p leaves band b, which becomes u.
Leaves(b, u, p) ==
  /\ b \in 1 .. 3 /\ b \in NonEmpty /\ \A c \in NonEmpty : b <= c
  /\ p \in Packets /\ HandsOut(bands[b], u, p)

LEMMA ServedFirst ==
  ASSUME NonEmpty # {}
  PROVE  ServedBand \in NonEmpty /\ \A c \in NonEmpty : ServedBand <= c
<1>1. IsFiniteSet(NonEmpty) /\ NonEmpty \subseteq Int
  <2>1. IsFiniteSet(1 .. 3)
    <3>1. 1 \in Int /\ 3 \in Int
      OBVIOUS
    <3> QED
      BY ONLY <3>1, FS_Interval
  <2> QED
    BY <2>1, FS_Subset DEF NonEmpty
<1>2. \E m \in NonEmpty : \A c \in NonEmpty : m <= c
  BY DEF NonEmpty
<1>3. ServedBand = Min(NonEmpty)
  BY DEF ServedBand
<1> HIDE DEF NonEmpty
<1> QED
  BY <1>2, <1>3 DEF Min

LEMMA NothingExtracted ==
  ASSUME Typed, phase = "ready", NonEmpty = {}, NEW d
  PROVE  LET x == Extract(d)
         IN  x.item = None /\ x.bands = bands /\ x.child = child /\ x.parent = d
<1>1. ServedBand = 1 /\ NPackets(bands[1]) = 0
  <2>1. bands[1] \in Queues
    BY DEF Typed, Bands
  <2>2. NPackets(bands[1]) \in Nat
    BY <2>1, QueueFields
  <2> QED
    BY <2>2 DEF ServedBand, NonEmpty
<1>2. /\ DoDequeue(bands[1]).queue = bands[1] /\ DoDequeue(bands[1]).item = None
      /\ DoDequeue(bands[1]).fired = <<>>
  BY <1>1 DEF DoDequeue, Outcome
<1>3. [bands EXCEPT ![1] = bands[1]] = bands
  BY DEF Typed, Bands
<1>4. /\ AddInternalQueue(child, <<>>).disc = child /\ AddInternalQueue(child, <<>>).fired = <<>>
      /\ AddQueueDiscClass(d, <<>>).disc = d
  BY SinksNone DEF AddInternalQueue, AddQueueDiscClass, Effect
<1> QED
  BY <1>1, <1>2, <1>3, <1>4 DEF Extract

LEMMA PacketExtracted ==
  ASSUME Typed, phase = "ready", NonEmpty # {}, child.nPackets > 0,
         NEW d \in Discs, d.nPackets > 0 \/ d.peeked
  PROVE  LET x == Extract(d)
         IN  /\ \E b, u : Leaves(b, u, x.item) /\ x.bands = [bands EXCEPT ![b] = u]
             /\ Releases(child, x.child) /\ SameFlags(child, x.child)
             /\ x.parent \in Discs /\ SameFlags(d, x.parent)
             /\ d.peeked => x.parent = d
             /\ ~ d.peeked => Releases(d, x.parent)
<1> DEFINE b == ServedBand
           o == DoDequeue(bands[b])
           x == Extract(d)
<1>1. b \in NonEmpty /\ \A c \in NonEmpty : b <= c
  BY ServedFirst
<1>2. b \in 1 .. 3 /\ bands[b] \in Queues /\ NPackets(bands[b]) > 0
  BY <1>1 DEF NonEmpty, Typed, Bands
<1> HIDE DEF b
<1>3. /\ o.item \in Packets /\ HandsOut(bands[b], o.queue, o.item)
      /\ o.fired = <<Trace("Dequeue", o.item, NoReason)>>
  BY <1>2, QueueDequeues
<1>4. /\ x.item = o.item /\ x.bands = [bands EXCEPT ![b] = o.queue]
      /\ x.child = AddInternalQueue(child, o.fired).disc
      /\ x.parent = AddQueueDiscClass(d, AddInternalQueue(child, o.fired).fired).disc
  BY DEF Extract, b
<1> HIDE DEF o, x
<1>5. Leaves(b, o.queue, x.item)
  BY <1>1, <1>2, <1>3, <1>4 DEF Leaves
<1>6. AddInternalQueue(child, o.fired) = PacketDequeued(child, o.item)
  BY <1>3, DequeueTold DEF AddInternalQueue
<1>7. child \in Discs /\ ~ child.peeked
  BY DEF Typed
<1>8. /\ Releases(child, x.child) /\ SameFlags(child, x.child)
      /\ AddInternalQueue(child, o.fired).fired = <<Trace("Dequeue", o.item, NoReason)>>
  BY <1>4, <1>6, <1>7, DiscDequeued
<1>9. x.parent = PacketDequeued(d, o.item).disc
  BY <1>4, <1>8, DequeueTold DEF AddQueueDiscClass
<1>10. /\ x.parent \in Discs /\ SameFlags(d, x.parent)
       /\ d.peeked => x.parent = d
       /\ ~ d.peeked => Releases(d, x.parent)
  BY <1>9, DiscDequeued
<1> QED
  BY <1>4, <1>5, <1>8, <1>10 DEF x

-----------------------------------------------------------------------------
\* The packet p arrives, and the program of the root drops it,
ProgramRefuses ==
  /\ p4
  /\ Refuses(parent, parent', P4_DROP) /\ SameFlags(parent, parent')
  /\ UNCHANGED <<child, bands, accepted>>

\* the child drops it for its limit, or a full queue does,
BothRefuse(r) ==
  /\ Refuses(child, child', r) /\ SameFlags(child, child')
  /\ Refuses(parent, parent', CHILD_QUEUE_DISC_DROP \o r) /\ SameFlags(parent, parent')

LimitRefuses ==
  BothRefuse(LIMIT_EXCEEDED_DROP) /\ child.nPackets >= child.maxSize.value
  /\ UNCHANGED <<bands, accepted>>

QueueRefuses(b, u) ==
  /\ BothRefuse(INTERNAL_QUEUE_DROP) /\ child.nPackets < child.maxSize.value
  /\ b \in 1 .. 3 /\ IsFull(bands[b]) /\ TurnsAway(bands[b], u)
  /\ bands' = [bands EXCEPT ![b] = u] /\ accepted' = accepted

\* or it is stored in its band.
Stored(p, u) ==
  /\ Admits(child, child') /\ SameFlags(child, child')
  /\ Admits(parent, parent') /\ SameFlags(parent, parent')
  /\ BandOfPacket(p) \in 1 .. 3
  /\ ~ IsFull(bands[BandOfPacket(p)]) /\ TakesIn(bands[BandOfPacket(p)], u, p)
  /\ bands' = [bands EXCEPT ![BandOfPacket(p)] = u]
  /\ accepted' = Append(accepted, p)

LEMMA ThreeBands ==
  ASSUME NEW n \in Nat
  PROVE  BandOf(n) \in 1 .. 3
<1>1. n % 16 \in 0 .. 15
  OBVIOUS
<1>2. \A i \in 0 .. 15 : prio2band[i + 1] \in 0 .. 2
  BY DEF prio2band
<1>3. prio2band[(n % 16) + 1] \in 0 .. 2
  BY <1>1, <1>2
<1> QED
  BY <1>3 DEF BandOf

LEMMA BandKept ==
  ASSUME NEW p \in Packets, p4' = p4
  PROVE  BandOfPacket(p) \in 1 .. 3 /\ BandOfPacket(p)' = BandOfPacket(p)
<1>1. PriorityOf[p] \in Nat /\ 0 \in Nat
  BY TreeAssumption
<1>2. BandOf(0) \in 1 .. 3 /\ BandOf(PriorityOf[p]) \in 1 .. 3
  BY <1>1, ThreeBands
<1> QED
  BY <1>2 DEF BandOfPacket

LEMMA ParentRefuses ==
  ASSUME NEW d \in Discs, NEW p, NEW r \in OwnReasons
  PROVE  LET e == AddQueueDiscClass(Received(d), <<Trace("DropBeforeEnqueue", p, r)>>).disc
         IN  Refuses(d, e, CHILD_QUEUE_DISC_DROP \o r) /\ SameFlags(d, e)
<1> DEFINE reason == CHILD_QUEUE_DISC_DROP \o r
           e == AddQueueDiscClass(Received(d), <<Trace("DropBeforeEnqueue", p, r)>>).disc
<1>1. e = DropBeforeEnqueue(Received(d), p, reason).disc
  BY DropBeforeTold DEF AddQueueDiscClass
<1>2. reason \in Reasons
  BY ReasonFacts
<1> HIDE DEF reason, e
<1>3. Refuses(d, e, reason) /\ SameFlags(d, e)
  BY <1>1, <1>2, ReceivedRefused
<1> QED
  BY <1>3 DEF reason, e

LEMMA EnqueueCases ==
  ASSUME Typed, NEW p \in Packets, Enqueue(p)
  PROVE  /\ phase = "ready" /\ p \notin arrived /\ arrived' = arrived \cup {p}
         /\ tagged' = ReplacePacket(p)
         /\ UNCHANGED <<phase, p4, extracted, raised, highest>>
         /\ \/ ProgramRefuses
            \/ LimitRefuses
            \/ \E b, u : QueueRefuses(b, u)
            \/ \E u : Stored(p, u)
<1> DEFINE b == BandOf(PriorityTag(p, tagged'))
<1>1. /\ phase = "ready" /\ p \notin arrived /\ arrived' = arrived \cup {p}
      /\ tagged' = ReplacePacket(p)
      /\ UNCHANGED <<phase, p4, extracted, raised, highest>>
      /\ ProgramDrop(p) \/ ChildEnqueue(p, b)
  BY DEF Enqueue
<1>2. parent \in Discs /\ child \in Discs /\ bands \in Bands
  BY <1>1 DEF Typed
<1>3. OwnReasons \subseteq Reasons /\ {P4_DROP, LIMIT_EXCEEDED_DROP, INTERNAL_QUEUE_DROP} = OwnReasons
  BY ReasonFacts DEF OwnReasons
<1>4. CASE ProgramDrop(p)
  <2>1. Refuses(parent, parent', P4_DROP) /\ SameFlags(parent, parent')
    BY <1>2, <1>3, <1>4, ReceivedRefused DEF ProgramDrop
  <2> QED
    BY <1>1, <1>4, <2>1 DEF ProgramDrop, ProgramRefuses
<1>5. CASE ChildEnqueue(p, b)
  <2>1. b = BandOfPacket(p)
    <3>1. CASE p4
      BY <1>1, <3>1 DEF ReplacePacket, PriorityTag, BandOfPacket
    <3>2. CASE ~ p4
      BY <1>1, <3>2 DEF Typed, ReplacePacket, PriorityTag, BandOfPacket
    <3> QED
      BY <3>1, <3>2
  <2>2. b \in 1 .. 3
    BY <1>1, <2>1, BandKept
  <2> HIDE DEF b
  <2>3. bands[b] \in Queues
    BY <1>2, <2>2 DEF Bands
  <2> DEFINE o == DoEnqueue(bands[b], p)
             limited == DropBeforeEnqueue(Received(child), p, LIMIT_EXCEEDED_DROP)
             counted == AddInternalQueue(Received(child), o.fired)
  <2>4. CASE child.nPackets >= child.maxSize.value
    <3>1. /\ child' = limited.disc
          /\ parent' = AddQueueDiscClass(Received(parent), limited.fired).disc
          /\ UNCHANGED <<bands, accepted>>
      BY <1>5, <2>4 DEF ChildEnqueue, Refused
    <3>2. Refuses(child, child', LIMIT_EXCEEDED_DROP) /\ SameFlags(child, child')
      BY <1>2, <1>3, <3>1, ReceivedRefused
    <3>3. limited.fired = <<Trace("DropBeforeEnqueue", p, LIMIT_EXCEEDED_DROP)>>
      BY DEF DropBeforeEnqueue, Effect
    <3>4. /\ Refuses(parent, parent', CHILD_QUEUE_DISC_DROP \o LIMIT_EXCEEDED_DROP)
          /\ SameFlags(parent, parent')
      BY <1>2, <1>3, <3>1, <3>3, ParentRefuses
    <3>5. LimitRefuses
      BY <2>4, <3>1, <3>2, <3>4 DEF LimitRefuses, BothRefuse
    <3> QED
      BY <1>1, <3>5
  <2>5. CASE ~ (child.nPackets >= child.maxSize.value)
    <3>1. /\ bands' = [bands EXCEPT ![b] = o.queue]
          /\ child' = counted.disc
          /\ parent' = AddQueueDiscClass(Received(parent), counted.fired).disc
          /\ accepted' = IF o.item = None THEN accepted ELSE Append(accepted, p)
      BY <1>5, <2>5 DEF ChildEnqueue
    <3>2. child.nPackets < child.maxSize.value
      <4>1. child.nPackets \in Nat /\ child.maxSize.value \in Nat
        BY <1>2 DEF Discs
      <4> QED
        BY <2>5, <4>1
    <3>3. CASE IsFull(bands[b])
      <4>1. /\ TurnsAway(bands[b], o.queue) /\ o.item = None
            /\ o.fired = <<Trace("DropBeforeEnqueue", p, NoReason)>>
        BY <2>3, <3>3, QueueEnqueues
      <4>2. counted = DropBeforeEnqueue(Received(child), p, INTERNAL_QUEUE_DROP)
        <5>1. Sinks(Received(child), <<Trace("DropBeforeEnqueue", p, NoReason)>>, INTERNAL_QUEUE_DROP)
                = DropBeforeEnqueue(Received(child), p, INTERNAL_QUEUE_DROP \o NoReason)
          BY DropBeforeTold
        <5>2. INTERNAL_QUEUE_DROP \o NoReason = INTERNAL_QUEUE_DROP
          BY ReasonFacts
        <5> QED
          BY <4>1, <5>1, <5>2 DEF AddInternalQueue
      <4>3. Refuses(child, child', INTERNAL_QUEUE_DROP) /\ SameFlags(child, child')
        BY <1>2, <1>3, <3>1, <4>2, ReceivedRefused
      <4>4. counted.fired = <<Trace("DropBeforeEnqueue", p, INTERNAL_QUEUE_DROP)>>
        BY <4>2 DEF DropBeforeEnqueue, Effect
      <4>5. /\ Refuses(parent, parent', CHILD_QUEUE_DISC_DROP \o INTERNAL_QUEUE_DROP)
            /\ SameFlags(parent, parent')
        BY <1>2, <1>3, <3>1, <4>4, ParentRefuses
      <4>6. QueueRefuses(b, o.queue)
        BY <2>2, <3>1, <3>2, <3>3, <4>1, <4>3, <4>5 DEF QueueRefuses, BothRefuse
      <4> QED
        BY <1>1, <4>6
    <3>4. CASE ~ IsFull(bands[b])
      <4>1. /\ TakesIn(bands[b], o.queue, p) /\ o.item = p
            /\ o.fired = <<Trace("Enqueue", p, NoReason)>>
        BY <2>3, <3>4, QueueEnqueues
      <4>2. counted = PacketEnqueued(Received(child), p)
        BY <4>1, EnqueueTold DEF AddInternalQueue
      <4>3. Admits(child, child') /\ SameFlags(child, child')
        BY <1>2, <3>1, <4>2, ReceivedAdmitted
      <4>4. counted.fired = <<Trace("Enqueue", p, NoReason)>>
        BY <4>2 DEF PacketEnqueued, Effect
      <4>5. parent' = PacketEnqueued(Received(parent), p).disc
        BY <3>1, <4>4, EnqueueTold DEF AddQueueDiscClass
      <4>6. Admits(parent, parent') /\ SameFlags(parent, parent')
        BY <1>2, <4>5, ReceivedAdmitted
      <4>7. accepted' = Append(accepted, p)
        BY <3>1, <4>1, TreeAssumption
      <4>8. Stored(p, o.queue)
        BY <2>1, <2>2, <3>1, <3>4, <4>1, <4>3, <4>6, <4>7 DEF Stored
      <4> QED
        BY <1>1, <4>8
    <3> QED
      BY <3>3, <3>4
  <2> QED
    BY <2>4, <2>5
<1> QED
  BY <1>1, <1>4, <1>5

-----------------------------------------------------------------------------
\* A disc that counts what it counted before.
Keeps(d, e) ==
  Counts(d, e, 0, 0, 0) /\ e.droppedBefore = d.droppedBefore /\ e.droppedAfter = d.droppedAfter

LEMMA FlagsKeep ==
  ASSUME NEW d \in Discs, NEW p \in Packets \cup {None}, NEW b \in BOOLEAN
  PROVE  /\ Keeps(d, d)
         /\ Keeps(d, [d EXCEPT !.peeked = b])
         /\ Keeps(d, [d EXCEPT !.requeued = p])
         /\ Keeps(d, [d EXCEPT !.requeued = p, !.peeked = b])
         /\ Keeps(d, [d EXCEPT !.requeued = p, !.nRequeued = @ + 1])
<1>1. /\ d.nPackets \in Nat /\ d.nDequeued \in Nat /\ d.nEnqueued \in Nat
      /\ d.nReceived \in Nat /\ d.nRequeued \in Nat
  BY DEF Discs
<1>2. ASSUME NEW e \in Discs, e.nPackets = d.nPackets, e.nReceived = d.nReceived,
             e.nEnqueued = d.nEnqueued, e.nDequeued = d.nDequeued, e.maxSize = d.maxSize,
             e.droppedBefore = d.droppedBefore, e.droppedAfter = d.droppedAfter
      PROVE  Keeps(d, e)
  BY <1>1, <1>2 DEF Keeps, Counts
<1>3. Keeps(d, d)
  BY <1>2
<1>4. Keeps(d, [d EXCEPT !.peeked = b])
  <2> DEFINE e == [d EXCEPT !.peeked = b]
  <2>1. /\ e.nPackets = d.nPackets /\ e.nReceived = d.nReceived
        /\ e.nEnqueued = d.nEnqueued /\ e.nDequeued = d.nDequeued /\ e.maxSize = d.maxSize
        /\ e.droppedBefore = d.droppedBefore /\ e.droppedAfter = d.droppedAfter
    BY DEF Discs
  <2>2. e \in Discs
    BY DiscFields
  <2> HIDE DEF e
  <2>3. Keeps(d, e)
    BY <1>2, <2>1, <2>2
  <2> QED
    BY <2>3 DEF e
<1>5. Keeps(d, [d EXCEPT !.requeued = p])
  <2> DEFINE e == [d EXCEPT !.requeued = p]
  <2>1. /\ e.nPackets = d.nPackets /\ e.nReceived = d.nReceived
        /\ e.nEnqueued = d.nEnqueued /\ e.nDequeued = d.nDequeued /\ e.maxSize = d.maxSize
        /\ e.droppedBefore = d.droppedBefore /\ e.droppedAfter = d.droppedAfter
    BY DEF Discs
  <2>2. e \in Discs
    BY DiscFields
  <2> HIDE DEF e
  <2>3. Keeps(d, e)
    BY <1>2, <2>1, <2>2
  <2> QED
    BY <2>3 DEF e
<1>6. Keeps(d, [d EXCEPT !.requeued = p, !.peeked = b])
  <2> DEFINE e == [d EXCEPT !.requeued = p, !.peeked = b]
  <2>1. /\ e.nPackets = d.nPackets /\ e.nReceived = d.nReceived
        /\ e.nEnqueued = d.nEnqueued /\ e.nDequeued = d.nDequeued /\ e.maxSize = d.maxSize
        /\ e.droppedBefore = d.droppedBefore /\ e.droppedAfter = d.droppedAfter
    BY DEF Discs
  <2>2. e \in Discs
    BY DiscFields
  <2> HIDE DEF e
  <2>3. Keeps(d, e)
    BY <1>2, <2>1, <2>2
  <2> QED
    BY <2>3 DEF e
<1>7. Keeps(d, [d EXCEPT !.requeued = p, !.nRequeued = @ + 1])
  <2> DEFINE n == d.nRequeued + 1
             e == [d EXCEPT !.requeued = p, !.nRequeued = n]
  <2>1. n \in Nat
    BY <1>1
  <2> HIDE DEF n
  <2>2. /\ e.nPackets = d.nPackets /\ e.nReceived = d.nReceived
        /\ e.nEnqueued = d.nEnqueued /\ e.nDequeued = d.nDequeued /\ e.maxSize = d.maxSize
        /\ e.droppedBefore = d.droppedBefore /\ e.droppedAfter = d.droppedAfter
    BY DEF Discs
  <2>3. e \in Discs
    BY <2>1, DiscFields
  <2> HIDE DEF e
  <2>4. Keeps(d, e)
    BY <1>2, <2>2, <2>3
  <2> QED
    BY <2>4 DEF e, n
<1> QED
  BY <1>3, <1>4, <1>5, <1>6, <1>7

LEMMA KeptAndReleased ==
  ASSUME NEW d \in Discs, NEW e \in Discs, NEW f \in Discs,
         (Keeps(d, e) /\ Releases(e, f)) \/ (Releases(d, e) /\ Keeps(e, f))
  PROVE  Releases(d, f)
<1>1. /\ d.nPackets \in Nat /\ e.nPackets \in Nat /\ f.nPackets \in Nat
      /\ d.nReceived \in Nat /\ e.nReceived \in Nat /\ f.nReceived \in Nat
      /\ d.nEnqueued \in Nat /\ e.nEnqueued \in Nat /\ f.nEnqueued \in Nat
      /\ d.nDequeued \in Nat /\ e.nDequeued \in Nat /\ f.nDequeued \in Nat
  BY DEF Discs
<1>2. Counts(d, f, 0, 0, 1)
  BY <1>1 DEF Releases, Counts, Keeps
<1> QED
  BY <1>2 DEF Releases, Keeps

\* The packets that the root has extracted and still counts as stored.
Peeked(d) == IF d.peeked THEN 1 ELSE 0
HeldIfPeeked(d) == d.peeked => d.requeued # None

\* The packet in m_requeued does not count as peeked without being there, and the root
\* counts it as long as it is peeked.
Held ==
  /\ HeldIfPeeked(parent)
  /\ child.nPackets = FillOf(bands)
  /\ parent.nPackets = child.nPackets + Peeked(parent)

\* Nothing leaves the bands and the root only puts down what it held unpeeked,
Stays ==
  /\ Keeps(parent, parent') /\ ~ parent.peeked /\ ~ parent'.peeked
  /\ UNCHANGED <<child, bands, extracted>>

\* or sends what it has peeked,
SendsPeeked ==
  /\ parent.peeked /\ Releases(parent, parent') /\ ~ parent'.peeked
  /\ UNCHANGED <<child, bands, extracted>>

\* or packet p leaves the bands, for good or
LetsGo(b, u, p) ==
  /\ Leaves(b, u, p) /\ bands' = [bands EXCEPT ![b] = u]
  /\ Releases(child, child') /\ SameFlags(child, child')
  /\ extracted' = Append(extracted, p)

Sends(b, u, p) ==
  LetsGo(b, u, p) /\ Releases(parent, parent') /\ ~ parent.peeked /\ ~ parent'.peeked

\* because the root peeks it.
Peeks(b, u, p) ==
  /\ LetsGo(b, u, p) /\ Keeps(parent, parent') /\ ~ parent.peeked
  /\ parent'.peeked /\ parent'.requeued # None

LEMMA SomethingToTake ==
  ASSUME Typed, Held, phase = "ready", NonEmpty # {}
  PROVE  child.nPackets > 0 /\ parent.nPackets > 0
<1>1. PICK b \in 1 .. 3 : NPackets(bands[b]) > 0
  BY DEF NonEmpty
<1>2. bands \in Bands /\ bands[b] \in Queues
  BY DEF Typed, Bands
<1>3. NPackets(bands[b]) \in Nat /\ NPackets(bands[b]) <= FillOf(bands)
  BY <1>2, BandChanges
<1>4. FillOf(bands) \in Nat
  BY <1>2, BandChanges
<1> QED
  BY <1>1, <1>3, <1>4 DEF HeldIfPeeked, Held, Peeked

LEMMA ExtractedCases ==
  ASSUME Typed, Held, phase = "ready", parent.requeued = None,
         NEW d, Extracted(Extract(parent), d), NEW x, x = Extract(parent),
         Keeps(x.parent, d), d.peeked = x.parent.peeked
  PROVE  \/ parent' = d /\ NonEmpty = {} /\ x.parent = parent /\ UNCHANGED <<child, bands, extracted>>
         \/ \E b, u, p : Sends(b, u, p)
<1>1. ~ parent.peeked
  BY DEF HeldIfPeeked, Held
<1>2. /\ bands' = x.bands /\ child' = x.child /\ parent' = d
      /\ extracted' = IF x.item = None THEN extracted ELSE Append(extracted, x.item)
  BY DEF Extracted
<1>3. CASE NonEmpty = {}
  BY <1>2, <1>3, NothingExtracted
<1>4. CASE NonEmpty # {}
  <2>1. child.nPackets > 0 /\ parent.nPackets > 0 /\ parent \in Discs
    BY <1>4, SomethingToTake DEF Typed
  <2>2. /\ \E b, u : Leaves(b, u, x.item) /\ x.bands = [bands EXCEPT ![b] = u]
        /\ Releases(child, x.child) /\ SameFlags(child, x.child)
        /\ SameFlags(parent, x.parent) /\ Releases(parent, x.parent)
    BY <1>1, <1>4, <2>1, PacketExtracted
  <2>3. PICK b, u : Leaves(b, u, x.item) /\ x.bands = [bands EXCEPT ![b] = u]
    BY <2>2
  <2>4. x.item # None
    BY <2>3, TreeAssumption DEF Leaves
  <2>5. LetsGo(b, u, x.item)
    BY <1>2, <2>2, <2>3, <2>4 DEF LetsGo
  <2>6. ~ x.parent.peeked
    BY <1>1, <2>2 DEF SameFlags
  <2>7. Releases(parent, d)
    <3>1. /\ x.parent \in Discs /\ d \in Discs /\ parent \in Discs
      BY <2>1, <2>2 DEF Releases, Counts, Keeps
    <3> QED
      BY <2>2, <3>1, KeptAndReleased
  <2>8. Sends(b, u, x.item)
    BY <1>1, <1>2, <2>5, <2>6, <2>7 DEF Sends
  <2> QED
    BY <2>8
<1> QED
  BY <1>3, <1>4

LEMMA DequeueCases ==
  ASSUME Typed, Held, Dequeue
  PROVE  /\ phase = "ready" /\ UNCHANGED <<phase, p4, tagged, accepted, arrived, raised, highest>>
         /\ Stays \/ SendsPeeked \/ \E b, u, p : Sends(b, u, p)
<1>1. CASE /\ parent.requeued # None
           /\ parent' = TakeRequeued(parent).disc
           /\ UNCHANGED <<phase, p4, child, bands, tagged, history>>
  <2>1. parent \in Discs /\ phase = "ready" /\ None \in Packets \cup {None}
    BY SMTT(30) DEF Typed, Dequeue
  <2>2. /\ UNCHANGED <<phase, p4, tagged, accepted, arrived, raised, highest>>
        /\ UNCHANGED <<child, bands, extracted>>
    BY <1>1, SMTT(30) DEF history
  <2>3. CASE parent.peeked
    <3> DEFINE d == [parent EXCEPT !.requeued = None, !.peeked = FALSE]
    <3>1. d \in Discs /\ Keeps(parent, d)
      BY <2>1, DiscFields, FlagsKeep
    <3>2. ~ d.peeked
      BY <2>1 DEF Discs
    <3>3. d.nPackets > 0
      <4>1. parent.nPackets \in Nat /\ child.nPackets \in Nat /\ d.nPackets = parent.nPackets
        BY DEF Typed, Discs
      <4> QED
        BY <2>3, <4>1 DEF HeldIfPeeked, Held, Peeked
    <3>4. parent' = PacketDequeued(d, parent.requeued).disc
      BY <1>1, <2>3 DEF TakeRequeued
    <3> HIDE DEF d
    <3>5. Releases(d, parent') /\ SameFlags(d, parent')
      BY <3>1, <3>2, <3>3, <3>4, DiscDequeued
    <3>6. Releases(parent, parent')
      <4>1. parent' \in Discs
        BY <3>5 DEF Releases, Counts
      <4>2. Keeps(parent, d) /\ Releases(d, parent') /\ d \in Discs /\ parent \in Discs
        BY <2>1, <3>1, <3>5
      <4> QED
        BY <4>1, <4>2, KeptAndReleased
    <3>7. ~ parent'.peeked
      BY <3>2, <3>5 DEF SameFlags
    <3> QED
      BY <2>1, <2>2, <2>3, <3>6, <3>7, SMTT(30) DEF SendsPeeked
  <2>4. CASE ~ parent.peeked
    <3>1. parent' = [parent EXCEPT !.requeued = None]
      BY <1>1, <2>4 DEF TakeRequeued, Effect
    <3>2. Keeps(parent, parent')
      BY <2>1, <3>1, FlagsKeep
    <3>3. ~ parent'.peeked
      BY <2>1, <2>4, <3>1 DEF Discs
    <3> QED
      BY <2>1, <2>2, <2>4, <3>2, <3>3 DEF Stays
  <2> QED
    BY <2>3, <2>4
<1>2. CASE parent.requeued = None /\ LET x == Extract(parent) IN Extracted(x, x.parent)
  <2> DEFINE x == Extract(parent)
             d == x.parent
  <2>1. phase = "ready" /\ Extracted(x, d)
    BY <1>2 DEF Dequeue
  <2>2. UNCHANGED <<phase, p4, tagged, accepted, arrived, raised, highest>>
    BY <2>1 DEF Extracted
  <2>3. d \in Discs
    <3>1. CASE NonEmpty = {}
      BY <2>1, <3>1, NothingExtracted DEF Typed
    <3>2. CASE NonEmpty # {}
      <4>1. child.nPackets > 0 /\ parent.nPackets > 0 /\ parent \in Discs
        BY <2>1, <3>2, SomethingToTake DEF Typed
      <4> QED
        BY <2>1, <3>2, <4>1, PacketExtracted
    <3> QED
      BY <3>1, <3>2
  <2>4. Keeps(d, d)
    <3> HIDE DEF d
    <3>1. None \in Packets \cup {None} /\ FALSE \in BOOLEAN
      OBVIOUS
    <3> QED
      BY <2>3, <3>1, FlagsKeep
  <2>5. \/ parent' = d /\ NonEmpty = {} /\ d = parent /\ UNCHANGED <<child, bands, extracted>>
        \/ \E b, u, p : Sends(b, u, p)
    BY <1>2, <2>1, <2>4, ExtractedCases
  <2>6. ASSUME parent' = d, d = parent, UNCHANGED <<child, bands, extracted>>
        PROVE  Stays
    <3>1. Keeps(parent, parent')
      BY <2>4, <2>6
    <3>2. ~ parent.peeked
      BY <1>2 DEF HeldIfPeeked, Held
    <3> QED
      BY <2>6, <3>1, <3>2 DEF Stays
  <2> QED
    BY <2>1, <2>2, <2>5, <2>6
<1> QED
  BY <1>1, <1>2 DEF Dequeue

LEMMA KeptTwice ==
  ASSUME NEW d \in Discs, NEW e \in Discs, NEW f \in Discs, Keeps(d, e), Keeps(e, f)
  PROVE  Keeps(d, f)
<1>1. /\ d.nPackets \in Nat /\ e.nPackets \in Nat /\ f.nPackets \in Nat
      /\ d.nReceived \in Nat /\ e.nReceived \in Nat /\ f.nReceived \in Nat
      /\ d.nEnqueued \in Nat /\ e.nEnqueued \in Nat /\ f.nEnqueued \in Nat
      /\ d.nDequeued \in Nat /\ e.nDequeued \in Nat /\ f.nDequeued \in Nat
  BY DEF Discs
<1>2. Counts(d, f, 0, 0, 0)
  BY <1>1 DEF Counts, Keeps
<1> QED
  BY <1>2 DEF Keeps

LEMMA RequeueCases ==
  ASSUME Typed, Held, Requeue
  PROVE  /\ phase = "ready" /\ UNCHANGED <<phase, p4, tagged, accepted, arrived, raised, highest>>
         /\ \E b, u, p : Sends(b, u, p)
<1> DEFINE x == Extract(parent)
           d == [x.parent EXCEPT !.requeued = x.item, !.nRequeued = @ + 1]
<1>1. phase = "ready" /\ parent.requeued = None /\ NonEmpty # {} /\ Extracted(x, d)
  BY DEF Requeue
<1>2. UNCHANGED <<phase, p4, tagged, accepted, arrived, raised, highest>>
  BY <1>1 DEF Extracted
<1>3. child.nPackets > 0 /\ parent.nPackets > 0 /\ parent \in Discs
  BY <1>1, SomethingToTake DEF Typed
<1>4. x.parent \in Discs /\ x.item \in Packets \cup {None}
  BY <1>1, <1>3, PacketExtracted DEF Leaves
<1> HIDE DEF x
<1>5. Keeps(x.parent, d)
  <2>1. FALSE \in BOOLEAN
    OBVIOUS
  <2> QED
    BY <1>4, <2>1, FlagsKeep
<1>6. d.peeked = x.parent.peeked
  BY <1>4 DEF Discs
<1> HIDE DEF d
<1>7. \/ parent' = d /\ NonEmpty = {} /\ x.parent = parent /\ UNCHANGED <<child, bands, extracted>>
      \/ \E b, u, p : Sends(b, u, p)
  <2>1. Extracted(Extract(parent), d)
    BY <1>1 DEF x
  <2>2. x = Extract(parent)
    BY DEF x
  <2> QED
    BY <1>1, <1>5, <1>6, <2>1, <2>2, ExtractedCases
<1> QED
  BY <1>1, <1>2, <1>7

LEMMA PeekCases ==
  ASSUME Typed, Held, Peek
  PROVE  /\ phase = "ready" /\ UNCHANGED <<phase, p4, tagged, accepted, arrived, raised, highest>>
         /\ Stays \/ \E b, u, p : Peeks(b, u, p)
<1> DEFINE c == [parent EXCEPT !.peeked = TRUE]
           x == Extract(c)
           d == [x.parent EXCEPT !.requeued = x.item, !.peeked = (x.item # None)]
<1>1. phase = "ready" /\ parent.requeued = None /\ Extracted(x, d)
  BY DEF Peek
<1>2. UNCHANGED <<phase, p4, tagged, accepted, arrived, raised, highest>>
  BY <1>1 DEF Extracted
<1>3. ~ parent.peeked /\ parent \in Discs
  BY <1>1 DEF HeldIfPeeked, Held, Typed
<1>4. c \in Discs /\ Keeps(parent, c) /\ c.peeked
  <2>1. c \in Discs
    BY <1>3, DiscFields
  <2>2. TRUE \in BOOLEAN /\ None \in Packets \cup {None}
    OBVIOUS
  <2>3. Keeps(parent, c)
    BY <1>3, <2>2, FlagsKeep
  <2>4. c.peeked
    BY <1>3 DEF Discs
  <2> QED
    BY <2>1, <2>3, <2>4
<1> HIDE DEF c
<1>5. /\ bands' = x.bands /\ child' = x.child /\ parent' = d
      /\ extracted' = IF x.item = None THEN extracted ELSE Append(extracted, x.item)
  BY <1>1 DEF Extracted
<1>6. ASSUME x.parent = c, x.item \in Packets \cup {None}
      PROVE  /\ Keeps(parent, parent') /\ parent'.requeued = x.item
             /\ parent'.peeked = (x.item # None)
  <2> DEFINE i == x.item
             b == (i # None)
  <2>1. parent' = [c EXCEPT !.requeued = i, !.peeked = b] /\ i \in Packets \cup {None}
    BY <1>5, <1>6, SMTT(30)
  <2>2. b \in BOOLEAN
    BY SMTT(30)
  <2> HIDE DEF i, b
  <2>3. Keeps(c, parent') /\ parent' \in Discs
    BY <1>4, <2>1, <2>2, FlagsKeep, DiscFields
  <2>4. Keeps(parent, parent')
    BY <1>3, <1>4, <2>3, KeptTwice
  <2>5. parent'.requeued = i /\ parent'.peeked = b
    BY <1>4, <2>1 DEF Discs
  <2> QED
    BY <2>4, <2>5, SMTT(30) DEF i, b
<1>7. CASE NonEmpty = {}
  <2>1. x.item = None /\ x.bands = bands /\ x.child = child /\ x.parent = c
    BY <1>1, <1>7, NothingExtracted
  <2>2. Keeps(parent, parent') /\ ~ parent'.peeked
    BY <1>6, <2>1
  <2>3. Stays
    BY <1>3, <1>5, <2>1, <2>2 DEF Stays
  <2> QED
    BY <1>1, <1>2, <2>3
<1>8. CASE NonEmpty # {}
  <2>1. child.nPackets > 0
    BY <1>1, <1>8, SomethingToTake
  <2>2. /\ \E b, u : Leaves(b, u, x.item) /\ x.bands = [bands EXCEPT ![b] = u]
        /\ Releases(child, x.child) /\ SameFlags(child, x.child)
        /\ x.parent = c
    BY <1>1, <1>4, <1>8, <2>1, PacketExtracted
  <2>3. PICK b, u : Leaves(b, u, x.item) /\ x.bands = [bands EXCEPT ![b] = u]
    BY <2>2
  <2>4. x.item # None /\ x.item \in Packets
    BY <2>3, TreeAssumption DEF Leaves
  <2>5. Keeps(parent, parent') /\ parent'.peeked /\ parent'.requeued # None
    BY <1>6, <2>2, <2>4
  <2>6. LetsGo(b, u, x.item)
    BY <1>5, <2>2, <2>3, <2>4 DEF LetsGo
  <2>7. Peeks(b, u, x.item)
    BY <1>3, <2>5, <2>6 DEF Peeks
  <2> QED
    BY <1>1, <1>2, <2>7
<1> QED
  BY <1>7, <1>8

\* n packets are removed from band b, which becomes u.
Withdraws(b, u, n) ==
  /\ b \in 1 .. 3 /\ n \in Nat
  /\ Removed(bands[b], u, n) /\ bands' = [bands EXCEPT ![b] = u]
  /\ Loses(child, child', INTERNAL_QUEUE_DROP, n) /\ SameFlags(child, child')
  /\ Loses(parent, parent', CHILD_QUEUE_DISC_DROP \o INTERNAL_QUEUE_DROP, n)
  /\ SameFlags(parent, parent')

LEMMA RemoveCases ==
  ASSUME Typed, Held, NEW b \in 1 .. 3, NEW n \in Nat, b \in NonEmpty => n <= NPackets(bands[b]),
         RemovePackets(b, n)
  PROVE  /\ phase = "ready"
         /\ UNCHANGED <<phase, p4, tagged, accepted, extracted, arrived, raised, highest>>
         /\ \E u : Withdraws(b, u, n)
<1> DEFINE start == [queue |-> bands[b], child |-> child, parent |-> parent]
           left == CHOOSE v : v = [i \in 0 .. n |-> IF i = 0 THEN start ELSE Removal(v[i - 1])]
<1>1. /\ phase = "ready" /\ b \in NonEmpty
      /\ bands' = [bands EXCEPT ![b] = left[n].queue]
      /\ child' = left[n].child /\ parent' = left[n].parent
      /\ UNCHANGED <<phase, p4, tagged, accepted, extracted, arrived, raised, highest>>
  BY DEF RemovePackets
<1>2. start.queue = bands[b] /\ start.child = child /\ start.parent = parent
  OBVIOUS
<1> HIDE DEF start
<1>3. IsWithdrawal(left, start, n)
  BY WithdrawalExists DEF IsWithdrawal
<1> HIDE DEF left
<1>4. bands \in Bands /\ bands[b] \in Queues
  BY <1>1 DEF Typed, Bands
<1>5. n <= NPackets(bands[b]) /\ n <= child.nPackets /\ n <= parent.nPackets
  <2>1. /\ NPackets(bands[b]) \in Nat /\ NPackets(bands[b]) <= FillOf(bands)
        /\ FillOf(bands) \in Nat
    BY <1>4, BandChanges
  <2> QED
    BY <1>1, <2>1 DEF HeldIfPeeked, Held, Peeked
<1>6. Withdrawn(start, left[n], n)
  <2>1. start.queue \in Queues /\ start.child \in Discs /\ ~ start.child.peeked
        /\ start.parent \in Discs
    BY <1>2, <1>4 DEF Typed
  <2>2. n <= NPackets(start.queue) /\ n <= start.child.nPackets /\ n <= start.parent.nPackets
    BY <1>2, <1>5
  <2> QED
    BY <1>3, <2>1, <2>2, WithdrawalKeeps
<1>7. Withdraws(b, left[n].queue, n)
  BY <1>1, <1>2, <1>6 DEF Withdrawn, Withdraws
<1> QED
  BY <1>1, <1>7

-----------------------------------------------------------------------------
\* The numbers of the three layers agree, as long as a peeked packet counts as one that the
\* root has extracted and not yet dequeued.
SentOrDropped ==
  parent.nDequeued + Peeked(parent) = DroppedAfter(parent) + Len(extracted)

Balance ==
  /\ Balanced(parent) /\ Balanced(child)
  /\ parent.nReceived = child.nReceived + GetNDroppedPackets(parent, P4_DROP)
  /\ SentOrDropped

BandDrops ==
  /\ child.droppedBefore[INTERNAL_QUEUE_DROP] = BeforeOf(bands)
  /\ child.droppedAfter[INTERNAL_QUEUE_DROP] = AfterOf(bands)

Accounts == Held /\ Balance /\ SameDrops /\ BandDrops

LEMMA DiscNumbers ==
  ASSUME NEW d \in Discs
  PROVE  /\ d.nPackets \in Nat /\ d.nReceived \in Nat /\ d.nEnqueued \in Nat
         /\ d.nDequeued \in Nat
BY DEF Discs

LEMMA SumsStay ==
  ASSUME NEW d \in Discs, NEW e, NEW r \in Reasons,
         e.droppedBefore = d.droppedBefore, e.droppedAfter = d.droppedAfter
  PROVE  SumsUp(d, e, r, 0, 0)
<1>1. /\ GetNDroppedPackets(d, r) \in Nat /\ DroppedBefore(d) \in Nat /\ DroppedAfter(d) \in Nat
      /\ d.droppedBefore[r] \in Nat /\ d.droppedAfter[r] \in Nat
  BY DropNumbers
<1>2. DroppedBefore(e) = DroppedBefore(d) /\ DroppedAfter(e) = DroppedAfter(d)
  BY DEF DroppedBefore, DroppedAfter
<1>3. \A s : GetNDroppedPackets(e, s) = GetNDroppedPackets(d, s)
  BY DEF GetNDroppedPackets
<1> QED
  BY <1>1, <1>2, <1>3 DEF SumsUp

LEMMA BalancedKept ==
  ASSUME NEW d \in Discs, NEW e \in Discs, Balanced(d), NEW j \in Nat, NEW k \in Nat,
         NEW x \in Nat, NEW y \in Nat, NEW r \in Reasons,
         Counts(d, e, x + j, j, k), SumsUp(d, e, r, x, y)
  PROVE  Balanced(e)
<1>1. /\ d.nPackets \in Nat /\ d.nReceived \in Nat /\ d.nEnqueued \in Nat /\ d.nDequeued \in Nat
      /\ e.nPackets \in Nat /\ e.nReceived \in Nat /\ e.nEnqueued \in Nat /\ e.nDequeued \in Nat
      /\ DroppedBefore(d) \in Nat
  BY DiscNumbers, DropNumbers
<1>2. /\ e.nReceived = d.nReceived + (x + j) /\ e.nEnqueued = d.nEnqueued + j
      /\ e.nDequeued = d.nDequeued + k /\ e.nPackets + k = d.nPackets + j
      /\ DroppedBefore(e) = DroppedBefore(d) + x
  BY DEF Counts, SumsUp
<1>3. d.nReceived = DroppedBefore(d) + d.nEnqueued /\ d.nEnqueued = d.nDequeued + d.nPackets
  BY DEF Balanced
<1> QED
  BY <1>1, <1>2, <1>3, SMTT(30) DEF Balanced

\* A drop that the child and the root count for the same reason.
Parallel(r, x, y) ==
  SumsUp(child, child', r, x, y) /\ SumsUp(parent, parent', CHILD_QUEUE_DISC_DROP \o r, x, y)

LEMMA ParallelDrops ==
  ASSUME Typed, SameDrops, NEW r \in OwnReasons, NEW x \in Nat, NEW y \in Nat, Parallel(r, x, y)
  PROVE  /\ SameDrops'
         /\ GetNDroppedPackets(parent', P4_DROP) = GetNDroppedPackets(parent, P4_DROP)
<1>1. SameDrops'
  <2> SUFFICES ASSUME NEW s \in OwnReasons
               PROVE  GetNDroppedPackets(parent', CHILD_QUEUE_DISC_DROP \o s)
                        = GetNDroppedPackets(child', s)
    BY DEF SameDrops
  <2> DEFINE t == CHILD_QUEUE_DISC_DROP \o s
             u == CHILD_QUEUE_DISC_DROP \o r
  <2>1. GetNDroppedPackets(parent, t) = GetNDroppedPackets(child, s)
    BY DEF SameDrops
  <2>2. t \in Reasons /\ s \in Reasons /\ u \in Reasons /\ r \in Reasons /\ (s # r => t # u)
    BY ReasonFacts
  <2>3. SumsUp(child, child', r, x, y) /\ SumsUp(parent, parent', u, x, y)
    BY DEF Parallel
  <2> HIDE DEF t, u
  <2>4. CASE s = r
    <3>1. t = u
      BY <2>4 DEF t, u
    <3>2. /\ GetNDroppedPackets(child', s) = GetNDroppedPackets(child, s) + (x + y)
          /\ GetNDroppedPackets(parent', t) = GetNDroppedPackets(parent, t) + (x + y)
      BY <2>3, <2>4, <3>1 DEF SumsUp
    <3> QED
      BY <2>1, <3>2 DEF t
  <2>5. CASE s # r
    <3>1. /\ GetNDroppedPackets(child', s) = GetNDroppedPackets(child, s)
          /\ GetNDroppedPackets(parent', t) = GetNDroppedPackets(parent, t)
      BY <2>2, <2>3, <2>5 DEF SumsUp
    <3> QED
      BY <2>1, <3>1 DEF t
  <2> QED
    BY <2>4, <2>5
<1>2. P4_DROP \in Reasons /\ P4_DROP # CHILD_QUEUE_DISC_DROP \o r
  BY ReasonFacts DEF OwnReasons
<1>3. GetNDroppedPackets(parent', P4_DROP) = GetNDroppedPackets(parent, P4_DROP)
  BY <1>2 DEF Parallel, SumsUp
<1> QED
  BY <1>1, <1>3

LEMMA ProgramKeepsAccounts ==
  ASSUME Typed, Accounts, ProgramRefuses, UNCHANGED <<phase, extracted>>
  PROVE  Accounts'
<1>1. /\ parent \in Discs /\ child \in Discs /\ parent' \in Discs /\ child' = child
      /\ bands' = bands /\ extracted' = extracted
      /\ P4_DROP \in Reasons /\ Refuses(parent, parent', P4_DROP) /\ SameFlags(parent, parent')
  BY ReasonFacts DEF Typed, ProgramRefuses, Refuses, Counts, OwnReasons
<1>2. SumsUp(parent, parent', P4_DROP, 1, 0)
  BY <1>1, RefusalSumsUp
<1>3. /\ parent.nPackets \in Nat /\ parent.nReceived \in Nat /\ parent.nEnqueued \in Nat
      /\ parent.nDequeued \in Nat /\ parent'.nPackets \in Nat
      /\ child.nReceived \in Nat
      /\ GetNDroppedPackets(parent, P4_DROP) \in Nat /\ DroppedAfter(parent) \in Nat
  BY <1>1, DiscNumbers, DropNumbers
<1>4. /\ parent'.nReceived = parent.nReceived + 1 /\ parent'.nDequeued = parent.nDequeued
      /\ parent'.nPackets = parent.nPackets
      /\ parent'.peeked = parent.peeked /\ parent'.requeued = parent.requeued
  BY <1>1, <1>3 DEF Refuses, Counts, SameFlags
<1>5. Held'
  BY <1>1, <1>4 DEF HeldIfPeeked, Accounts, Held, Peeked
<1>6. Balanced(parent')
  <2>1. Counts(parent, parent', 1 + 0, 0, 0)
    BY <1>1 DEF Refuses
  <2> QED
    BY <1>1, <1>2, <2>1, BalancedKept DEF Accounts, Balance
<1>7. Balance'
  <2>1. GetNDroppedPackets(parent', P4_DROP) = GetNDroppedPackets(parent, P4_DROP) + 1
    BY <1>2 DEF SumsUp
  <2>2. DroppedAfter(parent') = DroppedAfter(parent)
    BY <1>2, <1>3 DEF SumsUp
  <2>3. parent'.nReceived = child'.nReceived + GetNDroppedPackets(parent', P4_DROP)
    BY <1>1, <1>3, <1>4, <2>1 DEF Accounts, Balance
  <2>4. SentOrDropped'
    BY <1>1, <1>4, <2>2 DEF Accounts, Balance, SentOrDropped, Peeked
  <2> QED
    BY <1>1, <1>6, <2>3, <2>4 DEF Accounts, Balance
<1>8. SameDrops'
  <2>1. ASSUME NEW s \in OwnReasons
        PROVE  GetNDroppedPackets(parent', CHILD_QUEUE_DISC_DROP \o s) = GetNDroppedPackets(child', s)
    <3> DEFINE t == CHILD_QUEUE_DISC_DROP \o s
    <3>1. t \in Reasons /\ t # P4_DROP
      BY ReasonFacts DEF OwnReasons
    <3>2. GetNDroppedPackets(parent, t) = GetNDroppedPackets(child, s)
      BY DEF Accounts, SameDrops
    <3> HIDE DEF t
    <3>3. GetNDroppedPackets(parent', t) = GetNDroppedPackets(parent, t)
      BY <1>2, <3>1 DEF SumsUp
    <3> QED
      BY <1>1, <3>2, <3>3 DEF t
  <2> QED
    BY <2>1 DEF SameDrops
<1>9. BandDrops'
  BY <1>1 DEF Accounts, BandDrops
<1> QED
  BY <1>5, <1>7, <1>8, <1>9 DEF Accounts

LEMMA ParallelKeepsAccounts ==
  ASSUME Typed, Accounts, NEW r \in OwnReasons, NEW x \in Nat, NEW y \in Nat,
         NEW j \in Nat, NEW k \in Nat, NEW l \in Nat,
         Counts(child, child', x + j, j, k), Counts(parent, parent', x + j, j, l),
         Parallel(r, x, y), Held', SentOrDropped', BandDrops'
  PROVE  Accounts'
<1>1. /\ parent \in Discs /\ child \in Discs /\ parent' \in Discs /\ child' \in Discs
  BY DEF Typed, Counts
<1>2. r \in Reasons /\ CHILD_QUEUE_DISC_DROP \o r \in Reasons
  BY ReasonFacts
<1>3. Balanced(child')
  <2>1. SumsUp(child, child', r, x, y) /\ Balanced(child)
    BY DEF Parallel, Accounts, Balance
  <2> QED
    BY <1>1, <1>2, <2>1, BalancedKept
<1>4. Balanced(parent')
  <2> DEFINE t == CHILD_QUEUE_DISC_DROP \o r
  <2>1. SumsUp(parent, parent', t, x, y) /\ Balanced(parent) /\ t \in Reasons
    BY <1>2 DEF Parallel, Accounts, Balance
  <2> HIDE DEF t
  <2> QED
    BY <1>1, <2>1, BalancedKept
<1>5. SameDrops' /\ GetNDroppedPackets(parent', P4_DROP) = GetNDroppedPackets(parent, P4_DROP)
  BY ParallelDrops DEF Accounts
<1>6. parent'.nReceived = child'.nReceived + GetNDroppedPackets(parent', P4_DROP)
  <2>1. /\ parent.nReceived \in Nat /\ child.nReceived \in Nat
        /\ GetNDroppedPackets(parent, P4_DROP) \in Nat
    BY <1>1, DiscNumbers, DropNumbers, ReasonFacts DEF OwnReasons
  <2>2. /\ parent'.nReceived = parent.nReceived + (x + j)
        /\ child'.nReceived = child.nReceived + (x + j)
    BY DEF Counts
  <2>3. parent.nReceived = child.nReceived + GetNDroppedPackets(parent, P4_DROP)
    BY DEF Accounts, Balance
  <2> QED
    BY <1>5, <2>1, <2>2, <2>3
<1>7. Balance'
  BY <1>3, <1>4, <1>6 DEF Balance
<1> QED
  BY <1>5, <1>7 DEF Accounts

\* Both discs refuse the packet; the bands are as before, or one counts a drop.
LEMMA RefusalKeepsAccounts ==
  ASSUME Typed, Accounts, NEW r \in OwnReasons, BothRefuse(r), extracted' = extracted,
         FillOf(bands') = FillOf(bands),
         BeforeOf(bands') = BeforeOf(bands) + (IF r = INTERNAL_QUEUE_DROP THEN 1 ELSE 0),
         AfterOf(bands') = AfterOf(bands)
  PROVE  Accounts'
<1> DEFINE t == CHILD_QUEUE_DISC_DROP \o r
<1>1. /\ parent \in Discs /\ child \in Discs /\ parent' \in Discs /\ child' \in Discs
      /\ Refuses(child, child', r) /\ Refuses(parent, parent', t)
      /\ SameFlags(parent, parent')
  BY DEF Typed, BothRefuse, Refuses, Counts
<1>2. r \in Reasons /\ t \in Reasons /\ INTERNAL_QUEUE_DROP \in Reasons
  BY ReasonFacts DEF OwnReasons
<1>3. Parallel(r, 1, 0)
  <2>1. SumsUp(child, child', r, 1, 0)
    BY <1>1, <1>2, RefusalSumsUp
  <2> HIDE DEF t
  <2>2. SumsUp(parent, parent', t, 1, 0)
    BY <1>1, <1>2, RefusalSumsUp
  <2> QED
    BY <2>1, <2>2 DEF Parallel, t
<1>4. Counts(child, child', 1 + 0, 0, 0) /\ Counts(parent, parent', 1 + 0, 0, 0)
  BY <1>1 DEF Refuses
<1> HIDE DEF t
<1>5. /\ parent'.nPackets = parent.nPackets /\ child'.nPackets = child.nPackets
      /\ parent'.nDequeued = parent.nDequeued
      /\ parent'.peeked = parent.peeked /\ parent'.requeued = parent.requeued
  <2>1. /\ parent.nPackets \in Nat /\ child.nPackets \in Nat /\ parent'.nPackets \in Nat
        /\ child'.nPackets \in Nat /\ parent.nDequeued \in Nat
    BY <1>1, DiscNumbers
  <2> QED
    BY <1>1, <1>4, <2>1 DEF Counts, SameFlags
<1>6. Held'
  BY <1>5 DEF HeldIfPeeked, Accounts, Held, Peeked
<1>7. SentOrDropped'
  <2>1. DroppedAfter(parent') = DroppedAfter(parent)
    BY <1>1 DEF Refuses, DroppedAfter
  <2> QED
    BY <1>5, <2>1 DEF Accounts, Balance, SentOrDropped, Peeked
<1>8. BandDrops'
  <2>1. /\ child.droppedBefore[INTERNAL_QUEUE_DROP] = BeforeOf(bands)
        /\ child.droppedAfter[INTERNAL_QUEUE_DROP] = AfterOf(bands)
        /\ child.droppedBefore[INTERNAL_QUEUE_DROP] \in Nat
        /\ child.droppedAfter[INTERNAL_QUEUE_DROP] \in Nat
    BY <1>1, <1>2, DropNumbers DEF Accounts, BandDrops
  <2>2. /\ child'.droppedBefore[INTERNAL_QUEUE_DROP]
             = child.droppedBefore[INTERNAL_QUEUE_DROP] + (IF r = INTERNAL_QUEUE_DROP THEN 1 ELSE 0)
        /\ child'.droppedAfter[INTERNAL_QUEUE_DROP] = child.droppedAfter[INTERNAL_QUEUE_DROP]
    BY <1>2, <1>3, <2>1 DEF Parallel, SumsUp
  <2> QED
    BY <2>1, <2>2 DEF BandDrops
<1> QED
  BY <1>3, <1>4, <1>6, <1>7, <1>8, ParallelKeepsAccounts

\* No drop is counted, and the child lets k packets go or takes j.
LEMMA QuietKeepsAccounts ==
  ASSUME Typed, Accounts, NEW j \in Nat, NEW k \in Nat, NEW l \in Nat,
         Counts(child, child', j, j, k), Counts(parent, parent', j, j, l),
         child'.droppedBefore = child.droppedBefore, child'.droppedAfter = child.droppedAfter,
         parent'.droppedBefore = parent.droppedBefore, parent'.droppedAfter = parent.droppedAfter,
         FillOf(bands') = (FillOf(bands) + j) - k,
         BeforeOf(bands') = BeforeOf(bands), AfterOf(bands') = AfterOf(bands),
         HeldIfPeeked(parent'),
         l + Peeked(parent') = k + Peeked(parent),
         Len(extracted') = Len(extracted) + k
  PROVE  Accounts'
<1>1. /\ parent \in Discs /\ child \in Discs /\ parent' \in Discs /\ child' \in Discs
  BY DEF Typed, Counts
<1>2. INTERNAL_QUEUE_DROP \in OwnReasons
  BY DEF OwnReasons
<1>3. Parallel(INTERNAL_QUEUE_DROP, 0, 0)
  <2>1. INTERNAL_QUEUE_DROP \in Reasons /\ CHILD_QUEUE_DISC_DROP \o INTERNAL_QUEUE_DROP \in Reasons
    BY <1>2, ReasonFacts
  <2>2. SumsUp(child, child', INTERNAL_QUEUE_DROP, 0, 0)
    BY <1>1, <2>1, SumsStay
  <2> DEFINE t == CHILD_QUEUE_DISC_DROP \o INTERNAL_QUEUE_DROP
  <2>3. t \in Reasons
    BY <2>1
  <2> HIDE DEF t
  <2>4. SumsUp(parent, parent', t, 0, 0)
    BY <1>1, <2>3, SumsStay
  <2> QED
    BY <2>2, <2>4 DEF Parallel, t
<1> DEFINE before == Peeked(parent)
           after == Peeked(parent')
           sent == Len(extracted)
           dropped == DroppedAfter(parent)
           fill == FillOf(bands)
           m == parent.nPackets
           n == child.nPackets
           dequeued == parent.nDequeued
           M == parent'.nPackets
           N == child'.nPackets
           D == parent'.nDequeued
<1>4. /\ m \in Nat /\ n \in Nat /\ M \in Nat /\ N \in Nat /\ dequeued \in Nat
      /\ sent \in Nat /\ dropped \in Nat /\ before \in Nat /\ after \in Nat
      /\ j \in Nat /\ k \in Nat /\ l \in Nat
  BY <1>1, DiscNumbers, DropNumbers DEF Typed, Peeked
<1>5. /\ N + k = n + j /\ M + l = m + j /\ D = dequeued + l /\ l + after = k + before
      /\ m = n + before /\ n = fill /\ dequeued + before = dropped + sent
  BY DEF Counts, Accounts, Held, Balance, SentOrDropped
<1>6. Held'
  <2>1. M = N + after /\ N = (fill + j) - k
    <3> HIDE DEF before, after, sent, dropped, fill, m, n, dequeued, M, N, D
    <3> QED
      BY ONLY <1>4, <1>5
  <2> QED
    BY <2>1 DEF Held
<1>7. SentOrDropped'
  <2>1. DroppedAfter(parent') = DroppedAfter(parent)
    BY DEF DroppedAfter
  <2>2. D + after = dropped + (sent + k)
    <3> HIDE DEF before, after, sent, dropped, fill, m, n, dequeued, M, N, D
    <3> QED
      BY ONLY <1>4, <1>5
  <2> QED
    BY <2>1, <2>2 DEF SentOrDropped
<1>8. BandDrops'
  BY DEF Accounts, BandDrops
<1>9. Counts(child, child', 0 + j, j, k) /\ Counts(parent, parent', 0 + j, j, l)
  BY DEF Counts
<1> QED
  BY <1>2, <1>3, <1>6, <1>7, <1>8, <1>9, ParallelKeepsAccounts

\* Bands C are B after band b became u, with j arrivals, k departures and i and l drops
\* before and after.
Change(B, C, b, u, j, k, i, l) ==
  /\ b \in 1 .. 3 /\ u \in Queues /\ C = [B EXCEPT ![b] = u]
  /\ NPackets(u) + k = NPackets(B[b]) + j
  /\ u.droppedBefore = B[b].droppedBefore + i /\ u.droppedAfter = B[b].droppedAfter + l

LEMMA BandsAfter ==
  ASSUME NEW B \in Bands, NEW C, NEW b, NEW u,
         NEW j \in Nat, NEW k \in Nat, NEW i \in Nat, NEW l \in Nat,
         Change(B, C, b, u, j, k, i, l)
  PROVE  /\ C \in Bands
         /\ FillOf(C) = (FillOf(B) + j) - k
         /\ BeforeOf(C) = BeforeOf(B) + i /\ AfterOf(C) = AfterOf(B) + l
<1> DEFINE q == B[b]
           m == NPackets(q)
           n == NPackets(u)
           fill == FillOf(B)
           before == BeforeOf(B)
           after == AfterOf(B)
<1>1. /\ C \in Bands /\ FillOf(C) = (fill - m) + n
      /\ BeforeOf(C) = (before - q.droppedBefore) + u.droppedBefore
      /\ AfterOf(C) = (after - q.droppedAfter) + u.droppedAfter
      /\ m \in Nat /\ n \in Nat /\ fill \in Nat /\ before \in Nat /\ after \in Nat
  BY BandChanges DEF Change
<1>2. q \in Queues
  BY DEF Bands, Change
<1>3. q.droppedBefore \in Nat /\ q.droppedAfter \in Nat
  BY <1>2, QueueFields
<1>4. n + k = m + j
  BY DEF Change
<1> HIDE DEF q, m, n, fill, before, after
<1>5. FillOf(C) = (fill + j) - k
  <2>1. j \in Nat /\ k \in Nat
    OBVIOUS
  <2> QED
    BY ONLY <1>1, <1>4, <2>1
<1>6. u.droppedBefore = q.droppedBefore + i /\ u.droppedAfter = q.droppedAfter + l
  BY DEF Change, q
<1>7. BeforeOf(C) = before + i /\ AfterOf(C) = after + l
  <2>1. i \in Nat /\ l \in Nat
    OBVIOUS
  <2> QED
    BY ONLY <1>1, <1>3, <1>6, <2>1
<1> QED
  BY <1>1, <1>5, <1>7 DEF fill, before, after

LEMMA EnqueueKeepsAccounts ==
  ASSUME Typed, Accounts, NEW p \in Packets, Enqueue(p)
  PROVE  Accounts'
<1>1. /\ phase = "ready" /\ extracted' = extracted /\ phase' = phase
      /\ \/ ProgramRefuses
         \/ LimitRefuses
         \/ \E b, u : QueueRefuses(b, u)
         \/ \E u : Stored(p, u)
  BY EnqueueCases
<1>2. bands \in Bands
  BY <1>1 DEF Typed
<1>3. CASE ProgramRefuses
  BY <1>1, <1>3, ProgramKeepsAccounts
<1>4. CASE LimitRefuses
  <2>1. LIMIT_EXCEEDED_DROP \in OwnReasons /\ LIMIT_EXCEEDED_DROP # INTERNAL_QUEUE_DROP
    BY ReasonFacts DEF OwnReasons
  <2>2. BothRefuse(LIMIT_EXCEEDED_DROP) /\ bands' = bands
    BY <1>4 DEF LimitRefuses
  <2>3. BeforeOf(bands) \in Nat
    BY <1>2, BandChanges DEF Bands
  <2>4. BeforeOf(bands')
          = BeforeOf(bands) + (IF LIMIT_EXCEEDED_DROP = INTERNAL_QUEUE_DROP THEN 1 ELSE 0)
    BY <2>1, <2>2, <2>3
  <2> QED
    BY <1>1, <2>1, <2>2, <2>4, RefusalKeepsAccounts
<1>5. CASE \E b, u : QueueRefuses(b, u)
  <2>1. PICK b, u : QueueRefuses(b, u)
    BY <1>5
  <2>2. b \in 1 .. 3 /\ u \in Queues /\ bands[b] \in Queues /\ bands' = [bands EXCEPT ![b] = u]
        /\ BothRefuse(INTERNAL_QUEUE_DROP)
    BY <1>2, <2>1 DEF QueueRefuses, TurnsAway, Bands
  <2>3. /\ NPackets(u) = NPackets(bands[b]) /\ NPackets(bands[b]) \in Nat
        /\ u.droppedBefore = bands[b].droppedBefore + 1
        /\ u.droppedAfter = bands[b].droppedAfter /\ bands[b].droppedAfter \in Nat
    BY <2>1, <2>2, QueueFields DEF QueueRefuses, TurnsAway, NPackets
  <2>4. Change(bands, bands', b, u, 0, 0, 1, 0)
    BY <2>2, <2>3 DEF Change
  <2>5. /\ FillOf(bands') = (FillOf(bands) + 0) - 0
        /\ BeforeOf(bands') = BeforeOf(bands) + 1 /\ AfterOf(bands') = AfterOf(bands) + 0
    BY <1>2, <2>4, BandsAfter
  <2>6. FillOf(bands) \in Nat /\ AfterOf(bands) \in Nat
    BY <1>2, <2>2, BandChanges
  <2>7. FillOf(bands') = FillOf(bands) /\ AfterOf(bands') = AfterOf(bands)
    BY <2>5, <2>6
  <2>8. INTERNAL_QUEUE_DROP \in OwnReasons
    BY DEF OwnReasons
  <2> QED
    BY <1>1, <2>2, <2>5, <2>7, <2>8, RefusalKeepsAccounts
<1>6. CASE \E u : Stored(p, u)
  <2>1. PICK u : Stored(p, u)
    BY <1>6
  <2> DEFINE b == BandOfPacket(p)
  <2>2. b \in 1 .. 3 /\ u \in Queues /\ bands[b] \in Queues /\ bands' = [bands EXCEPT ![b] = u]
    BY <1>2, <2>1 DEF Stored, TakesIn, Bands
  <2>3. /\ u.packets = Append(bands[b].packets, p)
        /\ u.droppedBefore = bands[b].droppedBefore
        /\ u.droppedAfter = bands[b].droppedAfter
        /\ Admits(child, child') /\ SameFlags(child, child')
        /\ Admits(parent, parent') /\ SameFlags(parent, parent')
    BY <2>1 DEF Stored, TakesIn
  <2> HIDE DEF b
  <2>4. /\ bands[b].packets \in Seq(Packets) /\ NPackets(bands[b]) \in Nat
        /\ bands[b].droppedBefore \in Nat /\ bands[b].droppedAfter \in Nat
    BY <2>2, QueueFields
  <2>5. Change(bands, bands', b, u, 1, 0, 0, 0)
    BY <2>2, <2>3, <2>4 DEF NPackets, Change
  <2>6. /\ FillOf(bands') = (FillOf(bands) + 1) - 0
        /\ BeforeOf(bands') = BeforeOf(bands) + 0 /\ AfterOf(bands') = AfterOf(bands) + 0
    BY <1>2, <2>5, BandsAfter
  <2>7. BeforeOf(bands) \in Nat /\ AfterOf(bands) \in Nat
    BY <1>2, <2>2, BandChanges
  <2>8. BeforeOf(bands') = BeforeOf(bands) /\ AfterOf(bands') = AfterOf(bands)
    BY <2>6, <2>7
  <2>9. /\ Counts(child, child', 1, 1, 0) /\ Counts(parent, parent', 1, 1, 0)
        /\ child'.droppedBefore = child.droppedBefore /\ child'.droppedAfter = child.droppedAfter
        /\ parent'.droppedBefore = parent.droppedBefore
        /\ parent'.droppedAfter = parent.droppedAfter
    BY <2>3 DEF Admits
  <2>10. HeldIfPeeked(parent') /\ 0 + Peeked(parent') = 0 + Peeked(parent)
    BY <2>3 DEF SameFlags, HeldIfPeeked, Peeked, Accounts, Held
  <2>11. Len(extracted') = Len(extracted) + 0
    BY <1>1 DEF Typed
  <2> QED
    BY <2>6, <2>8, <2>9, <2>10, <2>11, QuietKeepsAccounts
<1> QED
  BY <1>1, <1>3, <1>4, <1>5, <1>6

LEMMA NothingLeavesAccounts ==
  ASSUME Typed, Accounts, phase = "ready", Stays \/ SendsPeeked
  PROVE  Accounts'
<1>1. /\ child' = child /\ bands' = bands /\ extracted' = extracted
      /\ bands \in Bands /\ child \in Discs /\ ~ parent'.peeked
  BY DEF Typed, Stays, SendsPeeked
<1>2. FillOf(bands') = (FillOf(bands) + 0) - 0
  <2>1. FillOf(bands) \in Nat
    BY <1>1, BandChanges DEF Bands
  <2> QED
    BY <1>1, <2>1
<1>3. BeforeOf(bands') = BeforeOf(bands) /\ AfterOf(bands') = AfterOf(bands)
  BY <1>1
<1>4. Counts(child, child', 0, 0, 0)
  BY <1>1, DiscNumbers DEF Counts
<1>5. HeldIfPeeked(parent') /\ Peeked(parent') = 0
  BY <1>1 DEF HeldIfPeeked, Peeked
<1>6. Len(extracted') = Len(extracted) + 0
  BY <1>1 DEF Typed
<1>7. child'.droppedBefore = child.droppedBefore /\ child'.droppedAfter = child.droppedAfter
  BY <1>1
<1>8. CASE Stays
  <2>1. /\ Counts(parent, parent', 0, 0, 0) /\ parent'.droppedBefore = parent.droppedBefore
        /\ parent'.droppedAfter = parent.droppedAfter
    BY <1>8 DEF Stays, Keeps
  <2>2. 0 + Peeked(parent') = 0 + Peeked(parent)
    BY <1>5, <1>8 DEF Stays, Peeked
  <2> QED
    BY <1>2, <1>3, <1>4, <1>5, <1>6, <1>7, <2>1, <2>2, QuietKeepsAccounts
<1>9. CASE SendsPeeked
  <2>1. /\ Counts(parent, parent', 0, 0, 1) /\ parent'.droppedBefore = parent.droppedBefore
        /\ parent'.droppedAfter = parent.droppedAfter
    BY <1>9 DEF SendsPeeked, Releases
  <2>2. 1 + Peeked(parent') = 0 + Peeked(parent)
    BY <1>5, <1>9 DEF SendsPeeked, Peeked
  <2> QED
    BY <1>2, <1>3, <1>4, <1>5, <1>6, <1>7, <2>1, <2>2, QuietKeepsAccounts
<1> QED
  BY <1>8, <1>9

LEMMA PacketLeavesAccounts ==
  ASSUME Typed, Accounts, phase = "ready", NEW b, NEW u, NEW p, Sends(b, u, p) \/ Peeks(b, u, p)
  PROVE  Accounts'
<1>1. /\ LetsGo(b, u, p) /\ bands \in Bands
  BY DEF Typed, Sends, Peeks
<1>2. /\ b \in 1 .. 3 /\ HandsOut(bands[b], u, p) /\ bands' = [bands EXCEPT ![b] = u]
      /\ u \in Queues /\ Rest(bands[b].packets, u.packets, 1)
      /\ u.droppedBefore = bands[b].droppedBefore /\ u.droppedAfter = bands[b].droppedAfter
  BY <1>1 DEF LetsGo, Leaves, HandsOut
<1>3. bands[b] \in Queues
  BY <1>1, <1>2 DEF Bands
<1>4. /\ NPackets(bands[b]) \in Nat /\ bands[b].droppedBefore \in Nat
      /\ bands[b].droppedAfter \in Nat
  BY <1>3, QueueFields
<1>5. NPackets(u) = NPackets(bands[b]) - 1
  BY <1>2 DEF Rest, NPackets
<1>6. Change(bands, bands', b, u, 0, 1, 0, 0)
  BY <1>2, <1>4, <1>5 DEF Change
<1>7. /\ FillOf(bands') = (FillOf(bands) + 0) - 1
      /\ BeforeOf(bands') = BeforeOf(bands) + 0 /\ AfterOf(bands') = AfterOf(bands) + 0
  BY <1>1, <1>6, BandsAfter
<1>8. BeforeOf(bands) \in Nat /\ AfterOf(bands) \in Nat
  BY <1>1, <1>2, <1>3, BandChanges
<1>9. BeforeOf(bands') = BeforeOf(bands) /\ AfterOf(bands') = AfterOf(bands)
  BY <1>7, <1>8
<1>10. /\ Counts(child, child', 0, 0, 1)
       /\ child'.droppedBefore = child.droppedBefore /\ child'.droppedAfter = child.droppedAfter
  BY <1>1 DEF LetsGo, Releases
<1>11. Len(extracted') = Len(extracted) + 1
  BY <1>1 DEF LetsGo, Leaves, Typed
<1>12. CASE Sends(b, u, p)
  <2>1. /\ Counts(parent, parent', 0, 0, 1) /\ parent'.droppedBefore = parent.droppedBefore
        /\ parent'.droppedAfter = parent.droppedAfter
    BY <1>12 DEF Sends, Releases
  <2>2. 1 + Peeked(parent') = 1 + Peeked(parent) /\ HeldIfPeeked(parent')
    BY <1>12 DEF Sends, Peeked, HeldIfPeeked
  <2> QED
    BY <1>7, <1>9, <1>10, <1>11, <2>1, <2>2, QuietKeepsAccounts
<1>13. CASE Peeks(b, u, p)
  <2>1. /\ Counts(parent, parent', 0, 0, 0) /\ parent'.droppedBefore = parent.droppedBefore
        /\ parent'.droppedAfter = parent.droppedAfter
    BY <1>13 DEF Peeks, Keeps
  <2>2. 0 + Peeked(parent') = 1 + Peeked(parent) /\ HeldIfPeeked(parent')
    BY <1>13 DEF Peeks, Peeked, HeldIfPeeked
  <2> QED
    BY <1>7, <1>9, <1>10, <1>11, <2>1, <2>2, QuietKeepsAccounts
<1> QED
  BY <1>12, <1>13

LEMMA WithdrawalKeepsAccounts ==
  ASSUME Typed, Accounts, phase = "ready", extracted' = extracted,
         NEW b, NEW u, NEW n \in Nat, Withdraws(b, u, n)
  PROVE  Accounts'
<1> DEFINE r == INTERNAL_QUEUE_DROP
           t == CHILD_QUEUE_DISC_DROP \o INTERNAL_QUEUE_DROP
<1>1. /\ bands \in Bands /\ parent \in Discs /\ child \in Discs
      /\ parent' \in Discs /\ child' \in Discs /\ n \in Nat
  BY DEF Typed, Withdraws, Loses, Counts
<1>2. /\ b \in 1 .. 3 /\ Removed(bands[b], u, n) /\ bands' = [bands EXCEPT ![b] = u]
      /\ Loses(child, child', r, n) /\ SameFlags(child, child')
      /\ Loses(parent, parent', t, n) /\ SameFlags(parent, parent')
  BY DEF Withdraws
<1>3. /\ u \in Queues /\ Rest(bands[b].packets, u.packets, n)
      /\ u.droppedBefore = bands[b].droppedBefore
      /\ u.droppedAfter = bands[b].droppedAfter + n
  BY <1>2 DEF Removed
<1>4. bands[b] \in Queues
  BY <1>1, <1>2 DEF Bands
<1>5. NPackets(bands[b]) \in Nat /\ bands[b].droppedBefore \in Nat
  BY <1>4, QueueFields
<1>6. NPackets(u) = NPackets(bands[b]) - n
  BY <1>3 DEF Rest, NPackets
<1>7. Change(bands, bands', b, u, 0, n, 0, n)
  BY <1>2, <1>3, <1>5, <1>6 DEF Change
<1>8. /\ FillOf(bands') = (FillOf(bands) + 0) - n
      /\ BeforeOf(bands') = BeforeOf(bands) + 0 /\ AfterOf(bands') = AfterOf(bands) + n
  BY <1>1, <1>7, BandsAfter
<1>9. r \in OwnReasons /\ r \in Reasons /\ t \in Reasons
  BY ReasonFacts DEF OwnReasons
<1>10. SumsUp(child, child', r, 0, n)
  BY <1>1, <1>2, <1>9, LossSumsUp
<1> HIDE DEF r, t
<1>11. SumsUp(parent, parent', t, 0, n)
  BY <1>1, <1>2, <1>9, LossSumsUp
<1>12. Parallel(r, 0, n)
  BY <1>10, <1>11 DEF Parallel, r, t
<1>13. Counts(child, child', 0 + 0, 0, n) /\ Counts(parent, parent', 0 + 0, 0, n)
  BY <1>2 DEF Loses
<1> DEFINE before == Peeked(parent)
           sent == Len(extracted)
           dropped == DroppedAfter(parent)
           fill == FillOf(bands)
           m == parent.nPackets
           k == child.nPackets
           dequeued == parent.nDequeued
           M == parent'.nPackets
           K == child'.nPackets
           D == parent'.nDequeued
<1>14. /\ m \in Nat /\ k \in Nat /\ M \in Nat /\ K \in Nat /\ dequeued \in Nat
       /\ sent \in Nat /\ dropped \in Nat /\ before \in Nat /\ fill \in Nat
  <2>1. fill \in Nat
    BY <1>1, <1>2, <1>3, BandChanges
  <2>2. m \in Nat /\ k \in Nat /\ M \in Nat /\ K \in Nat /\ dequeued \in Nat
    BY <1>1, DiscNumbers
  <2>3. sent \in Nat
    BY DEF Typed
  <2>4. dropped \in Nat
    BY <1>1, DropNumbers
  <2>5. before \in Nat
    BY DEF Peeked
  <2> QED
    BY <2>1, <2>2, <2>3, <2>4, <2>5
<1>15. /\ K + n = k + 0 /\ M + n = m + 0 /\ D = dequeued + n
       /\ m = k + before /\ k = fill /\ dequeued + before = dropped + sent
  BY <1>2 DEF Loses, Counts, Accounts, Held, Balance, SentOrDropped
<1>16. Peeked(parent') = before /\ HeldIfPeeked(parent')
  BY <1>2 DEF Accounts, Held, Peeked, HeldIfPeeked, SameFlags
<1>17. DroppedAfter(parent') = dropped + n
  BY <1>11 DEF SumsUp
<1>18. M = K + before /\ K = (fill + 0) - n /\ D + before = (dropped + n) + sent
  <2> HIDE DEF before, sent, dropped, fill, m, k, dequeued, M, K, D
  <2> QED
    BY ONLY <1>1, <1>14, <1>15
<1>19. Held'
  BY <1>8, <1>16, <1>18 DEF Held
<1>20. SentOrDropped'
  BY <1>16, <1>17, <1>18 DEF SentOrDropped
<1>21. BandDrops'
  <2>1. /\ child'.droppedBefore[r] = child.droppedBefore[r] + 0
        /\ child'.droppedAfter[r] = child.droppedAfter[r] + n
    BY <1>10 DEF SumsUp
  <2> QED
    BY <1>8, <2>1 DEF BandDrops, Accounts, r
<1> QED
  BY <1>9, <1>12, <1>13, <1>19, <1>20, <1>21, ParallelKeepsAccounts

-----------------------------------------------------------------------------
\* A change of the sizes, and the initialization.
SameButSize(d, e) ==
  /\ e \in Discs
  /\ e.nPackets = d.nPackets /\ e.nReceived = d.nReceived /\ e.nEnqueued = d.nEnqueued
  /\ e.nDequeued = d.nDequeued /\ e.droppedBefore = d.droppedBefore
  /\ e.droppedAfter = d.droppedAfter /\ SameFlags(d, e)

LEMMA SizeSet ==
  ASSUME NEW d \in Discs, NEW size \in Sizes
  PROVE  /\ SameButSize(d, d) /\ SameButSize(d, [d EXCEPT !.maxSize = size])
         /\ [d EXCEPT !.maxSize = size].maxSize = size
<1>1. size \in [unit : {"packets", "bytes"}, value : Nat]
  BY TreeAssumption DEF Sizes, Size
<1>2. SameButSize(d, d)
  BY DEF SameButSize, SameFlags
<1> HIDE DEF Sizes
<1> DEFINE e == [d EXCEPT !.maxSize = size]
<1>3. e \in Discs
  BY <1>1 DEF Discs
<1>4. /\ e.nPackets = d.nPackets /\ e.nReceived = d.nReceived /\ e.nEnqueued = d.nEnqueued
      /\ e.nDequeued = d.nDequeued /\ e.droppedBefore = d.droppedBefore
      /\ e.droppedAfter = d.droppedAfter /\ e.requeued = d.requeued /\ e.peeked = d.peeked
      /\ e.maxSize = size
  BY DEF Discs
<1> HIDE DEF e
<1>5. SameButSize(d, e)
  BY <1>3, <1>4 DEF SameButSize, SameFlags
<1> QED
  BY <1>2, <1>4, <1>5 DEF e

LEMMA SetMaxSizeCases ==
  ASSUME Typed, NEW size \in Sizes, SetMaxSize(size)
  PROVE  /\ UNCHANGED <<phase, p4, bands, tagged, accepted, extracted, arrived>>
         /\ SameButSize(parent, parent') /\ SameButSize(child, child')
         /\ raised' = (raised \/ (phase = "ready" /\ child'.maxSize.value > child.maxSize.value))
         /\ highest' = IF phase = "ready" /\ child'.maxSize.value > highest
                       THEN child'.maxSize.value ELSE highest
<1>1. parent \in Discs /\ child \in Discs
  BY DEF Typed
<1>2. child' = child \/ child' = [child EXCEPT !.maxSize = size]
  BY DEF SetMaxSize, ChildSetMaxSize, SetOwnMaxSize
<1>3. parent' = parent \/ parent' = [parent EXCEPT !.maxSize = size]
  BY DEF SetMaxSize
<1>4. SameButSize(child, child')
  BY <1>1, <1>2, SizeSet
<1>5. SameButSize(parent, parent')
  BY <1>1, <1>3, SizeSet
<1> QED
  BY <1>4, <1>5 DEF SetMaxSize, ChildSetMaxSize

LEMMA SizesKeepAccounts ==
  ASSUME Typed, Accounts, SameButSize(parent, parent'), SameButSize(child, child'),
         UNCHANGED <<bands, extracted>>
  PROVE  Accounts'
<1>1. \A r : /\ GetNDroppedPackets(parent', r) = GetNDroppedPackets(parent, r)
             /\ GetNDroppedPackets(child', r) = GetNDroppedPackets(child, r)
  BY DEF GetNDroppedPackets, SameButSize
<1>2. /\ DroppedBefore(parent') = DroppedBefore(parent)
      /\ DroppedAfter(parent') = DroppedAfter(parent)
      /\ DroppedBefore(child') = DroppedBefore(child)
  BY DEF DroppedBefore, DroppedAfter, SameButSize
<1>3. Peeked(parent') = Peeked(parent) /\ HeldIfPeeked(parent')
  BY DEF SameButSize, SameFlags, Peeked, HeldIfPeeked, Accounts, Held
<1>4. Held'
  BY <1>3 DEF SameButSize, Accounts, Held
<1>5. SameDrops'
  BY <1>1 DEF Accounts, SameDrops
<1>6. BandDrops'
  BY DEF SameButSize, Accounts, BandDrops
<1>7. Balance'
  BY <1>1, <1>2, <1>3 DEF SameButSize, Accounts, Balance, Balanced, SentOrDropped
<1> QED
  BY <1>4, <1>5, <1>6, <1>7 DEF Accounts

LEMMA NoneSummed ==
  ASSUME NEW f, NEW S, IsFiniteSet(S), \A x \in S : f[x] = 0
  PROVE  SumOver(f, S) = 0
<1> DEFINE B == {T \in SUBSET S : SumOver(f, T) = 0}
<1>1. ASSUME NEW T \in SUBSET S, \A U \in SUBSET T : U # T => U \in B
      PROVE  T \in B
  <2>1. CASE T = {}
    BY <2>1, SumOverEmpty
  <2>2. CASE T # {}
    <3>1. PICK x \in T : TRUE
      BY <2>2
    <3>2. IsFiniteSet(T) /\ \A y \in T : f[y] \in Int
      BY FS_Subset
    <3>3. SumOver(f, T) = f[x] + SumOver(f, T \ {x})
      BY <3>2, SumOverRemove
    <3>4. SumOver(f, T \ {x}) = 0
      BY <1>1
    <3> QED
      BY <3>3, <3>4
  <2> QED
    BY <2>1, <2>2
<1>2. SUBSET S \subseteq B
  <2> HIDE DEF B
  <2> QED
    BY <1>1, SubsetInduction
<1> QED
  BY <1>2

LEMMA NothingSummed ==
  ASSUME NEW f, f[1] = 0, f[2] = 0, f[3] = 0
  PROVE  SumOver(f, 1 .. 3) = 0
<1> DEFINE D == 1 .. 3
<1>1. IsFiniteSet(D)
  <2>1. 1 \in Int /\ 3 \in Int
    OBVIOUS
  <2> QED
    BY ONLY <2>1, FS_Interval
<1>2. \A x \in D : f[x] = 0
  OBVIOUS
<1> HIDE DEF D
<1>3. SumOver(f, D) = 0
  BY <1>1, <1>2, NoneSummed
<1> QED
  BY <1>3 DEF D

LEMMA NewBands ==
  ASSUME NEW capacities, \A i \in 1 .. 3 : capacities[i] \in Nat
  PROVE  LET B == [i \in 1 .. 3 |-> NewQueue(capacities[i])]
         IN  B \in Bands /\ FillOf(B) = 0 /\ BeforeOf(B) = 0 /\ AfterOf(B) = 0
<1> DEFINE B == [i \in 1 .. 3 |-> NewQueue(capacities[i])]
<1>1. ASSUME NEW i \in 1 .. 3
      PROVE  /\ B[i] \in Queues /\ NPackets(B[i]) = 0
             /\ B[i].droppedBefore = 0 /\ B[i].droppedAfter = 0
  BY DEF NewQueue, Queues, NPackets
<1>2. DOMAIN B = 1 .. 3
  OBVIOUS
<1>3. B \in Bands
  BY <1>1 DEF Bands
<1> HIDE DEF B
<1>4. FillOf(B) = 0
  <2> DEFINE f == [b \in 1 .. 3 |-> NPackets(B[b])]
  <2>1. f[1] = 0 /\ f[2] = 0 /\ f[3] = 0
    BY <1>1
  <2> HIDE DEF f
  <2>2. SumOver(f, 1 .. 3) = 0
    BY <2>1, NothingSummed
  <2> QED
    BY <1>2, <2>2 DEF FillOf, f
<1>5. BeforeOf(B) = 0
  <2> DEFINE f == [b \in 1 .. 3 |-> B[b].droppedBefore]
  <2>1. f[1] = 0 /\ f[2] = 0 /\ f[3] = 0
    BY <1>1
  <2> HIDE DEF f
  <2>2. SumOver(f, 1 .. 3) = 0
    BY <2>1, NothingSummed
  <2> QED
    BY <1>2, <2>2 DEF BeforeOf, f
<1>6. AfterOf(B) = 0
  <2> DEFINE f == [b \in 1 .. 3 |-> B[b].droppedAfter]
  <2>1. f[1] = 0 /\ f[2] = 0 /\ f[3] = 0
    BY <1>1
  <2> HIDE DEF f
  <2>2. SumOver(f, 1 .. 3) = 0
    BY <2>1, NothingSummed
  <2> QED
    BY <1>2, <2>2 DEF AfterOf, f
<1> QED
  BY <1>3, <1>4, <1>5, <1>6 DEF B

LEMMA NoBands == FillOf(<<>>) = 0 /\ BeforeOf(<<>>) = 0 /\ AfterOf(<<>>) = 0
<1>1. DOMAIN <<>> = {}
  OBVIOUS
<1> QED
  BY <1>1, SumOverEmpty DEF FillOf, BeforeOf, AfterOf

LEMMA InitializeCases ==
  ASSUME Typed, Initialize
  PROVE  /\ phase = "config" /\ phase' = "ready" /\ bands = <<>>
         /\ \E capacities :
              /\ \A i \in 1 .. 3 : capacities[i] \in Nat
              /\ \A i \in 1 .. 2 : capacities[i] >= child.maxSize.value
              /\ bands' = [i \in 1 .. 3 |-> NewQueue(capacities[i])]
         /\ highest' = child.maxSize.value
         /\ UNCHANGED <<p4, parent, child, tagged, accepted, extracted, arrived, raised>>
<1>1. /\ phase = "config" /\ phase' = "ready" /\ bands = <<>>
      /\ highest' = child.maxSize.value
      /\ UNCHANGED <<p4, parent, child, tagged, accepted, extracted, arrived, raised>>
  BY DEF Initialize, Typed
<1>2. PICK added \in BoundedSeq(Limits \ {0}, 3) :
        LET capacities == InternalQueues(added)
        IN  /\ CheckConfig(capacities)
            /\ bands' = [i \in 1 .. 3 |-> NewQueue(capacities[i])]
  BY DEF Initialize
<1> DEFINE capacities == InternalQueues(added)
<1>3. /\ Len(capacities) = 3 /\ \A i \in 1 .. 2 : capacities[i] >= child.maxSize.value
      /\ bands' = [i \in 1 .. 3 |-> NewQueue(capacities[i])]
  BY <1>2 DEF CheckConfig
<1>4. child.maxSize.value \in Nat
  BY DEF Typed, Discs
<1>5. \A i \in 1 .. 3 : capacities[i] \in Nat
  <2>1. CASE added = <<>>
    BY <1>4, <2>1 DEF InternalQueues
  <2>2. CASE added # <<>>
    <3>1. capacities = added
      BY <2>2 DEF InternalQueues
    <3>2. PICK m \in 0 .. 3 : added \in [1 .. m -> Limits \ {0}]
      BY DEF BoundedSeq, SeqOf
    <3>3. added \in Seq(Limits \ {0}) /\ Len(added) = m
      BY <3>2
    <3>4. m = 3
      BY <1>3, <3>1, <3>3
    <3> QED
      BY <3>1, <3>2, <3>4, TreeAssumption
  <2> QED
    BY <2>1, <2>2
<1> QED
  BY <1>1, <1>3, <1>5

LEMMA InitializeKeepsAccounts ==
  ASSUME Typed, Accounts, Initialize
  PROVE  Accounts' /\ bands' \in Bands
<1>1. /\ bands = <<>> /\ parent' = parent /\ child' = child /\ extracted' = extracted
  BY InitializeCases
<1>2. PICK capacities : /\ \A i \in 1 .. 3 : capacities[i] \in Nat
                        /\ bands' = [i \in 1 .. 3 |-> NewQueue(capacities[i])]
  BY InitializeCases
<1>3. /\ bands' \in Bands /\ FillOf(bands') = 0 /\ BeforeOf(bands') = 0 /\ AfterOf(bands') = 0
  BY <1>2, NewBands
<1>4. FillOf(bands) = 0 /\ BeforeOf(bands) = 0 /\ AfterOf(bands) = 0
  BY <1>1, NoBands
<1>5. Held'
  BY <1>1, <1>3, <1>4 DEF Accounts, Held
<1>6. BandDrops'
  BY <1>1, <1>3, <1>4 DEF Accounts, BandDrops
<1>7. Balance' /\ SameDrops'
  BY <1>1 DEF Accounts, Balance, SameDrops, SentOrDropped
<1> QED
  BY <1>3, <1>5, <1>6, <1>7 DEF Accounts

-----------------------------------------------------------------------------
\* What a step can be.  A packet that leaves the bands, and the removal of n packets.
Departs ==
  \/ \E b, u, p : Sends(b, u, p)
  \/ \E b, u, p : Peeks(b, u, p)

Removes == \E b, u : \E n \in Nat : Withdraws(b, u, n) /\ extracted' = extracted

LEMMA NextCases ==
  ASSUME Typed, Accounts, Next
  PROVE  \/ Initialize
         \/ \E size \in Sizes : SetMaxSize(size)
         \/ \E p \in Packets : Enqueue(p)
         \/ /\ phase = "ready" /\ UNCHANGED <<phase, p4, tagged, accepted, arrived, raised, highest>>
            /\ Stays \/ SendsPeeked \/ Departs \/ Removes
<1>1. Held
  BY DEF Accounts
<1>2. ASSUME Peek \/ Dequeue \/ Requeue
      PROVE  /\ phase = "ready" /\ UNCHANGED <<phase, p4, tagged, accepted, arrived, raised, highest>>
             /\ Stays \/ SendsPeeked \/ Departs
  <2>1. CASE Peek
    BY <1>1, <2>1, PeekCases DEF Departs
  <2>2. CASE Dequeue
    BY <1>1, <2>2, DequeueCases DEF Departs
  <2>3. CASE Requeue
    BY <1>1, <2>3, RequeueCases DEF Departs
  <2> QED
    BY <1>2, <2>1, <2>2, <2>3
<1>3. ASSUME NEW b \in 1 .. 3, NEW n, RemovePackets(b, n), n = 1 \/ n = NPackets(bands[b])
      PROVE  /\ phase = "ready" /\ UNCHANGED <<phase, p4, tagged, accepted, arrived, raised, highest>>
             /\ Removes
  <2>1. phase = "ready" /\ b \in NonEmpty
    BY <1>3 DEF RemovePackets
  <2>2. bands[b] \in Queues
    BY <2>1 DEF Typed, Bands
  <2>3. NPackets(bands[b]) \in Nat /\ NPackets(bands[b]) > 0
    BY <2>1, <2>2, QueueFields DEF NonEmpty
  <2>4. n \in Nat /\ n <= NPackets(bands[b])
    BY <1>3, <2>3
  <2>5. /\ UNCHANGED <<phase, p4, tagged, accepted, extracted, arrived, raised, highest>>
        /\ \E u : Withdraws(b, u, n)
    BY <1>1, <1>3, <2>4, RemoveCases
  <2> QED
    BY <2>1, <2>4, <2>5 DEF Removes
<1>4. ASSUME NEW b \in 1 .. 3, RemovePacket(b) \/ FlushQueue(b)
      PROVE  /\ phase = "ready" /\ UNCHANGED <<phase, p4, tagged, accepted, arrived, raised, highest>>
             /\ Removes
  BY <1>3, <1>4 DEF RemovePacket, FlushQueue
<1> QED
  BY <1>2, <1>4 DEF Next

LEMMA TypedInit == Init => Typed /\ Accounts
<1> SUFFICES ASSUME Init PROVE Typed /\ Accounts
  OBVIOUS
<1>1. ASSUME NEW size \in [unit : {"packets", "bytes"}, value : Nat]
      PROVE  NewDisc(size) \in Discs
  <2>1. NoDrops \in Drops
    BY DEF NoDrops, Drops
  <2> HIDE DEF NoDrops
  <2> QED
    BY <2>1 DEF NewDisc, Discs
<1>2. parent = NewDisc(Size("bytes", 1)) /\ Size("bytes", 1) \in [unit : {"packets", "bytes"}, value : Nat]
  BY DEF Init, Size
<1>3. PICK n \in Limits \ {0} : child = NewDisc(Size("packets", n))
  BY DEF Init
<1>4. Size("packets", n) \in [unit : {"packets", "bytes"}, value : Nat]
  BY TreeAssumption DEF Size
<1>5. parent \in Discs /\ child \in Discs
  BY <1>1, <1>2, <1>3, <1>4
<1>6. \A size : /\ NewDisc(size).nPackets = 0 /\ NewDisc(size).nReceived = 0
                /\ NewDisc(size).nEnqueued = 0 /\ NewDisc(size).nDequeued = 0
                /\ NewDisc(size).droppedBefore = NoDrops /\ NewDisc(size).droppedAfter = NoDrops
                /\ NewDisc(size).peeked = FALSE /\ NewDisc(size).requeued = None
  BY DEF NewDisc
<1>7. ASSUME NEW d, d = parent \/ d = child
      PROVE  /\ d.nPackets = 0 /\ d.nReceived = 0 /\ d.nEnqueued = 0 /\ d.nDequeued = 0
             /\ d.droppedBefore = NoDrops /\ d.droppedAfter = NoDrops
             /\ ~ d.peeked /\ d.requeued = None
  BY <1>2, <1>3, <1>6, <1>7
<1>8. /\ phase = "config" /\ p4 \in BOOLEAN /\ bands = <<>> /\ tagged = Packets
      /\ accepted = <<>> /\ extracted = <<>> /\ arrived = {} /\ raised = FALSE
      /\ highest = 0
  BY DEF Init
<1>9. Typed
  <2>1. ~ child.peeked /\ child.requeued = None
    BY <1>7
  <2>2. accepted \in Seq(Packets) /\ extracted \in Seq(Packets)
    BY <1>8
  <2> QED
    BY <1>5, <1>8, <2>1, <2>2 DEF Typed
<1>10. /\ \A r \in Reasons : NoDrops[r] = 0
       /\ SumOver(NoDrops, Reasons) = 0
  <2>1. \A r \in Reasons : NoDrops[r] = 0
    BY DEF NoDrops
  <2>2. SumOver(NoDrops, Reasons) = 0
    BY <2>1, ReasonFacts, NoneSummed
  <2> QED
    BY <2>1, <2>2
<1>11. ASSUME NEW d, d = parent \/ d = child
       PROVE  /\ DroppedBefore(d) = 0 /\ DroppedAfter(d) = 0
              /\ \A r \in Reasons : GetNDroppedPackets(d, r) = 0
              /\ Balanced(d)
  <2>1. DroppedBefore(d) = 0 /\ DroppedAfter(d) = 0
    BY <1>7, <1>10, <1>11 DEF DroppedBefore, DroppedAfter
  <2>2. \A r \in Reasons : GetNDroppedPackets(d, r) = 0
    BY <1>7, <1>10, <1>11 DEF GetNDroppedPackets
  <2> QED
    BY <1>7, <1>11, <2>1, <2>2 DEF Balanced
<1>12. Held
  <2>1. child.nPackets = 0 /\ parent.nPackets = 0 /\ ~ parent.peeked
    BY <1>7
  <2> QED
    BY <1>8, <2>1, NoBands DEF Held, HeldIfPeeked, Peeked
<1>13. SentOrDropped
  <2>1. parent.nDequeued = 0 /\ ~ parent.peeked /\ DroppedAfter(parent) = 0
    BY <1>7, <1>11
  <2> QED
    BY <1>8, <2>1 DEF SentOrDropped, Peeked
<1>14. P4_DROP \in Reasons /\ INTERNAL_QUEUE_DROP \in Reasons
  BY ReasonFacts DEF OwnReasons
<1>15. Balance
  <2>1. /\ parent.nReceived = 0 /\ child.nReceived = 0
        /\ GetNDroppedPackets(parent, P4_DROP) = 0
        /\ Balanced(parent) /\ Balanced(child)
    BY <1>7, <1>11, <1>14
  <2> QED
    BY <1>13, <2>1 DEF Balance
<1>16. SameDrops
  BY <1>11, ReasonFacts DEF SameDrops
<1>17. BandDrops
  <2>1. child.droppedBefore = NoDrops /\ child.droppedAfter = NoDrops
    BY <1>7
  <2> QED
    BY <1>8, <1>10, <1>14, <2>1, NoBands DEF BandDrops
<1> QED
  BY <1>9, <1>12, <1>15, <1>16, <1>17 DEF Accounts

LEMMA TypedStep ==
  ASSUME Typed, Accounts, Next
  PROVE  Typed'
<1>1. CASE Initialize
  <2>1. /\ phase' = "ready" /\ bands' \in Bands
        /\ highest' = child.maxSize.value
        /\ UNCHANGED <<p4, parent, child, tagged, accepted, extracted, arrived, raised>>
    BY <1>1, InitializeCases, InitializeKeepsAccounts
  <2>2. highest' \in Nat
    BY <2>1 DEF Typed, Discs
  <2> QED
    BY <2>1, <2>2 DEF Typed
<1>2. CASE \E size \in Sizes : SetMaxSize(size)
  <2>1. PICK size \in Sizes : SetMaxSize(size)
    BY <1>2
  <2>2. /\ UNCHANGED <<phase, p4, bands, tagged, accepted, extracted, arrived>>
        /\ SameButSize(parent, parent') /\ SameButSize(child, child')
        /\ raised' = (raised \/ (phase = "ready" /\ child'.maxSize.value > child.maxSize.value))
        /\ highest' = IF phase = "ready" /\ child'.maxSize.value > highest
                      THEN child'.maxSize.value ELSE highest
    BY <2>1, SetMaxSizeCases
  <2>3. raised' \in BOOLEAN /\ highest' \in Nat
    <3>1. child'.maxSize.value \in Nat
      BY <2>2 DEF SameButSize, Discs
    <3>2. highest' \in Nat
      BY <2>2, <3>1 DEF Typed
    <3> QED
      BY <2>2, <3>2
  <2>4. parent' \in Discs /\ child' \in Discs /\ ~ child'.peeked /\ child'.requeued = None
    BY <2>2 DEF SameButSize, SameFlags, Typed
  <2> QED
    BY <2>2, <2>3, <2>4 DEF Typed
<1>3. CASE \E p \in Packets : Enqueue(p)
  <2>1. PICK p \in Packets : Enqueue(p)
    BY <1>3
  <2>2. /\ phase = "ready" /\ arrived' = arrived \cup {p} /\ tagged' = ReplacePacket(p)
        /\ UNCHANGED <<phase, p4, extracted, raised, highest>>
        /\ \/ ProgramRefuses
           \/ LimitRefuses
           \/ \E b, u : QueueRefuses(b, u)
           \/ \E u : Stored(p, u)
    BY <2>1, EnqueueCases
  <2>3. bands \in Bands
    BY <2>2 DEF Typed
  <2>4. tagged' \subseteq Packets /\ arrived' \subseteq Packets /\ (~ p4' => tagged' = Packets)
    BY <2>2 DEF Typed, ReplacePacket
  <2>5. /\ parent' \in Discs /\ child' \in Discs
        /\ ~ child'.peeked /\ child'.requeued = None
    BY <2>2 DEF ProgramRefuses, LimitRefuses, QueueRefuses, BothRefuse, Stored, Refuses, Admits,
                Counts, SameFlags, Typed
  <2>6. bands' \in Bands /\ accepted' \in Seq(Packets)
    <3>1. CASE ProgramRefuses \/ LimitRefuses
      BY <2>3, <3>1 DEF ProgramRefuses, LimitRefuses, Typed
    <3>2. ASSUME NEW b, NEW u, QueueRefuses(b, u)
          PROVE  bands' \in Bands /\ accepted' \in Seq(Packets)
      <4>1. b \in 1 .. 3 /\ u \in Queues /\ bands' = [bands EXCEPT ![b] = u] /\ accepted' = accepted
        BY <3>2 DEF QueueRefuses, TurnsAway
      <4> QED
        BY <2>3, <4>1 DEF Bands, Typed
    <3>3. ASSUME NEW u, Stored(p, u)
          PROVE  bands' \in Bands /\ accepted' \in Seq(Packets)
      <4> DEFINE b == BandOfPacket(p)
      <4>1. /\ b \in 1 .. 3 /\ u \in Queues /\ bands' = [bands EXCEPT ![b] = u]
            /\ accepted' = Append(accepted, p)
        BY <3>3 DEF Stored, TakesIn
      <4> HIDE DEF b
      <4>2. bands' \in Bands
        BY <2>3, <4>1 DEF Bands
      <4> QED
        BY <4>1, <4>2 DEF Typed
    <3> QED
      BY <2>2, <3>1, <3>2, <3>3
  <2>7. raised' \in BOOLEAN /\ highest' \in Nat /\ p4' \in BOOLEAN /\ phase' = "ready" /\ extracted' \in Seq(Packets)
    BY <2>2 DEF Typed
  <2> QED
    BY <2>4, <2>5, <2>6, <2>7 DEF Typed
<1>4. CASE /\ phase = "ready" /\ UNCHANGED <<phase, p4, tagged, accepted, arrived, raised, highest>>
           /\ Stays \/ SendsPeeked \/ Departs \/ Removes
  <2>1. bands \in Bands /\ phase' = "ready"
    BY <1>4 DEF Typed
  <2>2. parent' \in Discs /\ child' \in Discs /\ ~ child'.peeked /\ child'.requeued = None
    <3>1. CASE Stays \/ SendsPeeked
      BY <3>1 DEF Stays, SendsPeeked, Keeps, Releases, Counts, Typed
    <3>2. CASE Departs
      BY <3>2 DEF Departs, Sends, Peeks, LetsGo, Keeps, Releases, Counts, SameFlags, Typed
    <3>3. CASE Removes
      BY <3>3 DEF Removes, Withdraws, Loses, Counts, SameFlags, Typed
    <3> QED
      BY <1>4, <3>1, <3>2, <3>3
  <2>3. bands' \in Bands /\ extracted' \in Seq(Packets)
    <3>1. CASE Stays \/ SendsPeeked
      BY <2>1, <3>1 DEF Stays, SendsPeeked, Typed
    <3>2. ASSUME NEW b, NEW u, NEW p, LetsGo(b, u, p)
          PROVE  bands' \in Bands /\ extracted' \in Seq(Packets)
      <4>1. /\ b \in 1 .. 3 /\ u \in Queues /\ bands' = [bands EXCEPT ![b] = u] /\ p \in Packets
            /\ extracted' = Append(extracted, p)
        BY <3>2 DEF LetsGo, Leaves, HandsOut
      <4>2. bands' \in Bands
        BY <2>1, <4>1 DEF Bands
      <4> QED
        BY <4>1, <4>2 DEF Typed
    <3>3. ASSUME NEW b, NEW u, NEW n \in Nat, Withdraws(b, u, n), extracted' = extracted
          PROVE  bands' \in Bands /\ extracted' \in Seq(Packets)
      <4>1. b \in 1 .. 3 /\ u \in Queues /\ bands' = [bands EXCEPT ![b] = u]
        BY <3>3 DEF Withdraws, Removed
      <4>2. bands' \in Bands
        BY <2>1, <4>1 DEF Bands
      <4> QED
        BY <3>3, <4>2 DEF Typed
    <3>4. Departs => \E b, u, p : LetsGo(b, u, p)
      BY DEF Departs, Sends, Peeks
    <3> QED
      BY <1>4, <3>1, <3>2, <3>3, <3>4 DEF Removes
  <2> QED
    BY <1>4, <2>1, <2>2, <2>3 DEF Typed
<1> QED
  BY <1>1, <1>2, <1>3, <1>4, NextCases

LEMMA AccountsStep ==
  ASSUME Typed, Accounts, Next
  PROVE  Accounts'
<1>1. CASE Initialize
  BY <1>1, InitializeKeepsAccounts
<1>2. CASE \E size \in Sizes : SetMaxSize(size)
  BY <1>2, SetMaxSizeCases, SizesKeepAccounts
<1>3. CASE \E p \in Packets : Enqueue(p)
  BY <1>3, EnqueueKeepsAccounts
<1>4. CASE /\ phase = "ready" /\ UNCHANGED <<phase, p4, tagged, accepted, arrived, raised, highest>>
           /\ Stays \/ SendsPeeked \/ Departs \/ Removes
  <2>1. CASE Stays \/ SendsPeeked
    BY <1>4, <2>1, NothingLeavesAccounts
  <2>2. CASE Departs
    BY <1>4, <2>2, PacketLeavesAccounts DEF Departs
  <2>3. CASE Removes
    BY <1>4, <2>3, WithdrawalKeepsAccounts DEF Removes
  <2> QED
    BY <1>4, <2>1, <2>2, <2>3
<1> QED
  BY <1>1, <1>2, <1>3, <1>4, NextCases

LEMMA AccountsStutter == Typed /\ Accounts /\ UNCHANGED vars => Typed' /\ Accounts'
<1> SUFFICES ASSUME Typed, Accounts, UNCHANGED vars PROVE Typed' /\ Accounts'
  OBVIOUS
<1>1. /\ UNCHANGED <<phase, p4, parent, child, bands, tagged>>
      /\ UNCHANGED <<accepted, extracted, arrived, raised, highest>>
  BY DEF vars, history
<1>2. Typed'
  BY <1>1 DEF Typed
<1>3. Accounts'
  BY <1>1 DEF Accounts, Held, Balance, SentOrDropped, SameDrops, BandDrops
<1> QED
  BY <1>2, <1>3

-----------------------------------------------------------------------------
\* Packet x stands before packet y in the sequence s.
Precedes(s, x, y) == \E i, j \in DOMAIN s : i < j /\ s[i] = x /\ s[j] = y

\* All of t is in s, and in the order of s.
Within(t, s) ==
  /\ Distinct(s) => Distinct(t)
  /\ ToSet(t) \subseteq ToSet(s)
  /\ \A x, y : Precedes(t, x, y) => Precedes(s, x, y)

\* What the removal of packets leaves of a queue was in it before, in the same order.
LEMMA RestWithin ==
  ASSUME NEW s \in Seq(Packets), NEW t, NEW n \in Nat, Rest(s, t, n)
  PROVE  Within(t, s)
<1>1. /\ t \in Seq(Packets) /\ Len(t) \in Nat /\ Len(s) \in Nat
      /\ Len(t) = Len(s) - n
      /\ \A i \in 1 .. Len(t) : t[i] = s[i + n]
      /\ DOMAIN s = 1 .. Len(s) /\ DOMAIN t = 1 .. Len(t)
  BY DEF Rest
<1>2. \A i \in DOMAIN t : i \in Nat /\ i + n \in DOMAIN s /\ t[i] = s[i + n]
  BY <1>1
<1>3. Distinct(s) => Distinct(t)
  BY <1>2 DEF Distinct
<1>4. ToSet(t) \subseteq ToSet(s)
  BY <1>2 DEF ToSet
<1>5. ASSUME NEW x, NEW y, Precedes(t, x, y)
      PROVE  Precedes(s, x, y)
  <2>1. PICK i \in DOMAIN t, j \in DOMAIN t : i < j /\ t[i] = x /\ t[j] = y
    BY <1>5 DEF Precedes
  <2>2. i + n < j + n
    BY <1>2, <2>1
  <2> QED
    BY <1>2, <2>1, <2>2 DEF Precedes
<1> QED
  BY <1>3, <1>4, <1>5 DEF Within

\* The first packet of a queue stands before all that are left, and is not among them.
LEMMA FirstPrecedes ==
  ASSUME NEW s \in Seq(Packets), NEW t, Rest(s, t, 1), NEW y \in ToSet(t)
  PROVE  Precedes(s, s[1], y) /\ (Distinct(s) => y # s[1])
<1>1. /\ t \in Seq(Packets) /\ Len(t) \in Nat /\ Len(s) \in Nat
      /\ Len(t) = Len(s) - 1
      /\ \A i \in 1 .. Len(t) : t[i] = s[i + 1]
      /\ DOMAIN s = 1 .. Len(s) /\ DOMAIN t = 1 .. Len(t)
  BY DEF Rest
<1>2. PICK i \in DOMAIN t : t[i] = y
  BY DEF ToSet
<1>3. 1 \in DOMAIN s /\ i + 1 \in DOMAIN s /\ 1 < i + 1 /\ s[i + 1] = y
  BY <1>1, <1>2
<1> QED
  BY <1>3 DEF Precedes, Distinct

LEMMA FirstOfQueue ==
  ASSUME NEW s \in Seq(Packets), NEW q \in ToSet(s), q # s[1]
  PROVE  Precedes(s, s[1], q)
<1>1. PICK i \in DOMAIN s : s[i] = q
  BY DEF ToSet
<1>2. i \in Nat /\ 1 < i /\ 1 \in DOMAIN s
  BY <1>1
<1> QED
  BY <1>1, <1>2 DEF Precedes

\* A packet added at the end comes after all the others, whose order stays.
LEMMA AppendPrecedes ==
  ASSUME NEW s \in Seq(Packets), NEW p \in Packets
  PROVE  /\ \A x, y : Precedes(s, x, y) => Precedes(Append(s, p), x, y)
         /\ \A x \in ToSet(s) : Precedes(Append(s, p), x, p)
         /\ \A x, y : Precedes(Append(s, p), x, y) =>
              Precedes(s, x, y) \/ (x \in ToSet(s) /\ y = p)
<1> DEFINE t == Append(s, p)
           n == Len(s)
<1>1. /\ n \in Nat /\ DOMAIN t = 1 .. (n + 1) /\ DOMAIN s = 1 .. n
      /\ \A i \in 1 .. n : t[i] = s[i]
      /\ t[n + 1] = p
  OBVIOUS
<1> HIDE DEF t, n
<1>2. \A x, y : Precedes(s, x, y) => Precedes(t, x, y)
  BY <1>1 DEF Precedes
<1>3. ASSUME NEW x \in ToSet(s)
      PROVE  Precedes(t, x, p)
  <2>1. PICK i \in 1 .. n : s[i] = x
    BY <1>1 DEF ToSet
  <2>2. i \in DOMAIN t /\ n + 1 \in DOMAIN t /\ i < n + 1 /\ t[i] = x /\ t[n + 1] = p
    BY <1>1, <2>1
  <2> QED
    BY <2>2 DEF Precedes
<1>4. ASSUME NEW x, NEW y, Precedes(t, x, y)
      PROVE  Precedes(s, x, y) \/ (x \in ToSet(s) /\ y = p)
  <2>1. PICK i \in DOMAIN t, j \in DOMAIN t : i < j /\ t[i] = x /\ t[j] = y
    BY <1>4 DEF Precedes
  <2>2. i \in DOMAIN s /\ s[i] = x
    BY <1>1, <2>1
  <2>3. CASE j = n + 1
    BY <1>1, <2>1, <2>2, <2>3 DEF ToSet
  <2>4. CASE j # n + 1
    <3>1. j \in DOMAIN s /\ s[j] = y
      BY <1>1, <2>1, <2>4
    <3> QED
      BY <2>1, <2>2, <3>1 DEF Precedes
  <2> QED
    BY <2>3, <2>4
<1> QED
  BY <1>2, <1>3, <1>4 DEF t

\* In a sequence without repetitions this is the order of the positions.
LEMMA PrecedesIsBefore ==
  ASSUME NEW s \in Seq(Packets), Distinct(s), NEW x \in ToSet(s), NEW y \in ToSet(s)
  PROVE  /\ Precedes(s, x, y) <=> Before(s, x, y)
         /\ x # y => Precedes(s, x, y) \/ Precedes(s, y, x)
         /\ ~ (Precedes(s, x, y) /\ Precedes(s, y, x))
<1>1. /\ Position(s, x) \in DOMAIN s /\ s[Position(s, x)] = x
      /\ Position(s, y) \in DOMAIN s /\ s[Position(s, y)] = y
  <2>1. (\E i \in DOMAIN s : s[i] = x) /\ (\E i \in DOMAIN s : s[i] = y)
    BY DEF ToSet
  <2> QED
    BY <2>1 DEF Position
<1>2. DOMAIN s \subseteq Nat
  OBVIOUS
<1> DEFINE i == Position(s, x)
           j == Position(s, y)
<1>3. \A k \in DOMAIN s : (s[k] = x => k = i) /\ (s[k] = y => k = j)
  BY <1>1 DEF Distinct
<1>4. i \in Nat /\ j \in Nat /\ i \in DOMAIN s /\ j \in DOMAIN s /\ s[i] = x /\ s[j] = y
  BY <1>1, <1>2
<1>5. Before(s, x, y) <=> i < j
  BY DEF Before
<1> HIDE DEF i, j
<1>6. Precedes(s, x, y) <=> i < j
  BY <1>3, <1>4 DEF Precedes
<1>7. Precedes(s, y, x) <=> j < i
  BY <1>3, <1>4 DEF Precedes
<1>8. x # y => i # j
  BY <1>4
<1> QED
  BY <1>4, <1>5, <1>6, <1>7, <1>8

-----------------------------------------------------------------------------
\* Every packet was accepted once, waits in its own band until it leaves, and leaves once.
Waiting(b, s) ==
  /\ Distinct(s)
  /\ \A p \in ToSet(s) :
       p \in ToSet(accepted) /\ p \notin ToSet(extracted) /\ BandOfPacket(p) = b

Contents ==
  /\ Distinct(accepted) /\ ToSet(accepted) \subseteq arrived
  /\ Distinct(extracted) /\ ToSet(extracted) \subseteq ToSet(accepted)
  /\ \A b \in DOMAIN bands : Waiting(b, bands[b].packets)

\* A band holds its packets in the order in which they were accepted.
BandsInOrder ==
  \A b \in DOMAIN bands : \A x, y :
    Precedes(bands[b].packets, x, y) => Precedes(accepted, x, y)

\* The queues never hold more than they have room for; the first two have room for what the
\* disc admits, unless its limit was raised; and a queue that has turned a packet away is
\* smaller than a limit there was.
Room ==
  /\ \A b \in DOMAIN bands : NPackets(bands[b]) <= bands[b].maxSize
  /\ phase = "ready" /\ ~ raised =>
       \A b \in 1 .. 2 : bands[b].maxSize >= child.maxSize.value /\ bands[b].droppedBefore = 0
  /\ phase = "ready" =>
       /\ child.maxSize.value <= highest
       /\ \A b \in 1 .. 3 : bands[b].droppedBefore > 0 => bands[b].maxSize < highest

\* No band gains a packet.
Shrinks ==
  \A b \in DOMAIN bands' :
    \/ bands'[b].packets = <<>>
    \/ /\ b \in DOMAIN bands /\ bands[b].packets \in Seq(Packets)
       /\ \E n \in Nat : Rest(bands[b].packets, bands'[b].packets, n)

LEMMA ShrinksWithin ==
  ASSUME Shrinks, NEW b \in DOMAIN bands'
  PROVE  \/ bands'[b].packets = <<>>
         \/ b \in DOMAIN bands /\ Within(bands'[b].packets, bands[b].packets)
BY RestWithin DEF Shrinks

LEMMA EmptySequence ==
  /\ Distinct(<<>>) /\ ToSet(<<>>) = {} /\ \A x, y : ~ Precedes(<<>>, x, y)
BY DEF Distinct, ToSet, Precedes

\* A step that changes one band.
LEMMA BandReplaced ==
  ASSUME bands \in Bands, NEW b \in 1 .. 3, NEW u \in Queues, bands' = [bands EXCEPT ![b] = u]
  PROVE  /\ DOMAIN bands = 1 .. 3 /\ DOMAIN bands' = 1 .. 3
         /\ bands'[b] = u /\ \A c \in 1 .. 3 : c # b => bands'[c] = bands[c]
         /\ \A c \in 1 .. 3 : bands[c].packets \in Seq(Packets) /\ bands[c] \in Queues
BY DEF Bands, Queues

LEMMA BandShrinks ==
  ASSUME bands \in Bands, NEW b \in 1 .. 3, NEW u \in Queues, bands' = [bands EXCEPT ![b] = u],
         NEW n \in Nat, Rest(bands[b].packets, u.packets, n)
  PROVE  Shrinks
<1>1. \A s \in Seq(Packets) : Rest(s, s, 0) /\ 0 \in Nat
  BY DEF Rest
<1>2. ASSUME NEW c \in DOMAIN bands'
      PROVE  /\ c \in DOMAIN bands /\ bands[c].packets \in Seq(Packets)
             /\ \E m \in Nat : Rest(bands[c].packets, bands'[c].packets, m)
  <2>1. CASE c = b
    BY <2>1, BandReplaced
  <2>2. CASE c # b
    BY <1>1, <1>2, <2>2, BandReplaced
  <2> QED
    BY <2>1, <2>2
<1> QED
  BY <1>2 DEF Shrinks

LEMMA SameBandsShrink ==
  ASSUME Typed, \A b \in DOMAIN bands' : b \in DOMAIN bands /\ bands'[b].packets = bands[b].packets
  PROVE  Shrinks
<1>1. \A s \in Seq(Packets) : Rest(s, s, 0) /\ 0 \in Nat
  BY DEF Rest
<1>2. \A b \in DOMAIN bands : bands[b].packets \in Seq(Packets)
  <2>1. CASE bands = <<>>
    BY <2>1
  <2>2. CASE bands \in Bands
    BY <2>2 DEF Bands, Queues
  <2> QED
    BY <2>1, <2>2 DEF Typed
<1> QED
  BY <1>1, <1>2 DEF Shrinks

\* What the steps do to the packets: they only take some away,
Thins == Shrinks /\ UNCHANGED <<p4, accepted, extracted>> /\ arrived \subseteq arrived'

\* let one go, or let one in.
Drains(b, u, p) ==
  /\ bands \in Bands /\ Leaves(b, u, p) /\ bands' = [bands EXCEPT ![b] = u]
  /\ extracted' = Append(extracted, p)
  /\ UNCHANGED <<p4, accepted, arrived>>

Fills(p, u) ==
  /\ bands \in Bands /\ p \in Packets /\ p \notin arrived /\ arrived' = arrived \cup {p}
  /\ BandOfPacket(p) \in 1 .. 3 /\ TakesIn(bands[BandOfPacket(p)], u, p)
  /\ bands' = [bands EXCEPT ![BandOfPacket(p)] = u]
  /\ accepted' = Append(accepted, p)
  /\ UNCHANGED <<p4, extracted>>

LEMMA PacketSteps ==
  ASSUME Typed, Accounts, Next
  PROVE  Thins \/ (\E b, u, p : Drains(b, u, p)) \/ \E p, u : Fills(p, u)
<1>1. CASE Initialize
  <2>1. PICK capacities : bands' = [i \in 1 .. 3 |-> NewQueue(capacities[i])]
    BY <1>1, InitializeCases
  <2>2. \A b \in DOMAIN bands' : bands'[b].packets = <<>>
    BY <2>1 DEF NewQueue
  <2>3. UNCHANGED <<p4, accepted, extracted, arrived>>
    BY <1>1, InitializeCases
  <2> QED
    BY <2>2, <2>3 DEF Thins, Shrinks
<1>2. CASE \E size \in Sizes : SetMaxSize(size)
  <2>1. UNCHANGED <<p4, bands, accepted, extracted, arrived>>
    BY <1>2, SetMaxSizeCases
  <2> QED
    BY <2>1, SameBandsShrink DEF Thins
<1>3. CASE \E p \in Packets : Enqueue(p)
  <2>1. PICK p \in Packets : Enqueue(p)
    BY <1>3
  <2>2. /\ phase = "ready" /\ p \notin arrived /\ arrived' = arrived \cup {p}
        /\ UNCHANGED <<p4, extracted>>
        /\ \/ ProgramRefuses
           \/ LimitRefuses
           \/ \E b, u : QueueRefuses(b, u)
           \/ \E u : Stored(p, u)
    BY <2>1, EnqueueCases
  <2>3. bands \in Bands
    BY <2>2 DEF Typed
  <2>4. CASE ProgramRefuses \/ LimitRefuses
    <3>1. bands' = bands /\ accepted' = accepted
      BY <2>4 DEF ProgramRefuses, LimitRefuses
    <3> QED
      BY <2>2, <3>1, SameBandsShrink DEF Thins
  <2>5. ASSUME NEW b, NEW u, QueueRefuses(b, u)
        PROVE  Thins
    <3>1. /\ b \in 1 .. 3 /\ u \in Queues /\ u.packets = bands[b].packets
          /\ bands' = [bands EXCEPT ![b] = u] /\ accepted' = accepted
      BY <2>5 DEF QueueRefuses, TurnsAway
    <3>2. \A c \in DOMAIN bands' : c \in DOMAIN bands /\ bands'[c].packets = bands[c].packets
      BY <2>3, <3>1, BandReplaced
    <3> QED
      BY <2>2, <3>1, <3>2, SameBandsShrink DEF Thins
  <2>6. ASSUME NEW u, Stored(p, u)
        PROVE  Fills(p, u)
    BY <2>2, <2>3, <2>6 DEF Fills, Stored
  <2> QED
    BY <2>2, <2>4, <2>5, <2>6
<1>4. CASE /\ phase = "ready" /\ UNCHANGED <<phase, p4, tagged, accepted, arrived, raised, highest>>
           /\ Stays \/ SendsPeeked \/ Departs \/ Removes
  <2>1. bands \in Bands
    BY <1>4 DEF Typed
  <2>2. CASE Stays \/ SendsPeeked
    <3>1. bands' = bands /\ extracted' = extracted
      BY <2>2 DEF Stays, SendsPeeked
    <3> QED
      BY <1>4, <3>1, SameBandsShrink DEF Thins
  <2>3. CASE Departs
    <3>1. PICK b, u, p : LetsGo(b, u, p)
      BY <2>3 DEF Departs, Sends, Peeks
    <3> QED
      BY <1>4, <2>1, <3>1 DEF Drains, LetsGo
  <2>4. ASSUME NEW b, NEW u, NEW n \in Nat, Withdraws(b, u, n), extracted' = extracted
        PROVE  Thins
    <3>1. /\ b \in 1 .. 3 /\ u \in Queues /\ bands' = [bands EXCEPT ![b] = u]
          /\ Rest(bands[b].packets, u.packets, n)
      BY <2>4 DEF Withdraws, Removed
    <3>2. Shrinks
      BY <2>1, <3>1, BandShrinks
    <3> QED
      BY <1>4, <2>4, <3>2 DEF Thins
  <2> QED
    BY <1>4, <2>2, <2>3, <2>4 DEF Removes
<1> QED
  BY <1>1, <1>2, <1>3, <1>4, NextCases

LEMMA PacketsTyped ==
  ASSUME Typed
  PROVE  /\ accepted \in Seq(Packets) /\ extracted \in Seq(Packets)
         /\ \A p \in ToSet(accepted) : p \in Packets
         /\ \A b \in DOMAIN bands : /\ b \in 1 .. 3 /\ bands[b].packets \in Seq(Packets)
                                    /\ \A p \in ToSet(bands[b].packets) : p \in Packets
<1>1. accepted \in Seq(Packets) /\ extracted \in Seq(Packets)
  BY DEF Typed
<1>2. \A s \in Seq(Packets) : \A p \in ToSet(s) : p \in Packets
  BY DEF ToSet
<1>3. \A b \in DOMAIN bands : b \in 1 .. 3 /\ bands[b].packets \in Seq(Packets)
  <2>1. CASE bands = <<>>
    BY <2>1
  <2>2. CASE bands \in Bands
    BY <2>2 DEF Bands, Queues
  <2> QED
    BY <2>1, <2>2 DEF Typed
<1> QED
  BY <1>1, <1>2, <1>3

LEMMA ThinsKeepsContents ==
  ASSUME Typed, Contents, Thins
  PROVE  Contents'
<1>1. /\ accepted' = accepted /\ extracted' = extracted /\ p4' = p4
      /\ arrived \subseteq arrived' /\ Shrinks
  BY DEF Thins
<1>2. ASSUME NEW b \in DOMAIN bands'
      PROVE  Waiting(b, bands[b].packets)' /\ Distinct(bands'[b].packets)
  <2>1. CASE bands'[b].packets = <<>>
    BY <2>1, EmptySequence DEF Waiting
  <2>2. CASE b \in DOMAIN bands /\ Within(bands'[b].packets, bands[b].packets)
    <3>1. Waiting(b, bands[b].packets)
      BY <2>2 DEF Contents
    <3>2. Distinct(bands'[b].packets) /\ ToSet(bands'[b].packets) \subseteq ToSet(bands[b].packets)
      BY <2>2, <3>1 DEF Within, Waiting
    <3>3. \A p \in ToSet(bands[b].packets) : BandOfPacket(p)' = BandOfPacket(p)
      BY <1>1, <2>2, PacketsTyped, BandKept
    <3> QED
      BY <1>1, <3>1, <3>2, <3>3 DEF Waiting
  <2> QED
    BY <1>1, <2>1, <2>2, ShrinksWithin
<1>3. \A b \in DOMAIN bands' : Waiting(b, bands[b].packets)'
  BY <1>2
<1>4. /\ Distinct(accepted) /\ ToSet(accepted) \subseteq arrived
      /\ Distinct(extracted) /\ ToSet(extracted) \subseteq ToSet(accepted)
  BY DEF Contents
<1> QED
  BY <1>1, <1>3, <1>4 DEF Contents

LEMMA ThinsKeepsOrder ==
  ASSUME BandsInOrder, Thins
  PROVE  BandsInOrder'
<1>1. accepted' = accepted /\ Shrinks
  BY DEF Thins
<1>2. ASSUME NEW b \in DOMAIN bands', NEW x, NEW y, Precedes(bands'[b].packets, x, y)
      PROVE  Precedes(accepted', x, y)
  <2>1. b \in DOMAIN bands /\ Precedes(bands[b].packets, x, y)
    BY <1>1, <1>2, ShrinksWithin, EmptySequence DEF Within
  <2> QED
    BY <1>1, <2>1 DEF BandsInOrder
<1> QED
  BY <1>2 DEF BandsInOrder

\* The packet that leaves was the first of its band, and no more urgent band had any.
LEMMA DrainFacts ==
  ASSUME Typed, Contents, NEW b, NEW u, NEW p, Drains(b, u, p)
  PROVE  /\ b \in 1 .. 3 /\ DOMAIN bands = 1 .. 3 /\ Shrinks
         /\ extracted' = Append(extracted, p) /\ accepted' = accepted /\ arrived' = arrived
         /\ p \in Packets /\ p \in ToSet(bands[b].packets) /\ BandOfPacket(p) = b
         /\ p \in ToSet(accepted) /\ p \notin ToSet(extracted)
         /\ \A c \in DOMAIN bands' : \A q \in ToSet(bands'[c].packets) :
              /\ c \in 1 .. 3 /\ q \in ToSet(bands[c].packets) /\ b <= c /\ q # p
              /\ c = b => Precedes(bands[b].packets, p, q)
         /\ \A q \in Packets : BandOfPacket(q)' = BandOfPacket(q)
<1>1. /\ bands \in Bands /\ b \in 1 .. 3 /\ b \in NonEmpty /\ \A c \in NonEmpty : b <= c
      /\ p \in Packets /\ u \in Queues /\ Rest(bands[b].packets, u.packets, 1)
      /\ p = bands[b].packets[1]
      /\ bands' = [bands EXCEPT ![b] = u]
      /\ extracted' = Append(extracted, p) /\ accepted' = accepted /\ arrived' = arrived
      /\ p4' = p4
  BY DEF Drains, Leaves, HandsOut
<1>2. /\ DOMAIN bands = 1 .. 3 /\ DOMAIN bands' = 1 .. 3
      /\ bands'[b] = u /\ \A c \in 1 .. 3 : c # b => bands'[c] = bands[c]
      /\ \A c \in 1 .. 3 : bands[c].packets \in Seq(Packets) /\ bands[c] \in Queues
  BY <1>1, BandReplaced
<1>3. Shrinks
  BY <1>1, BandShrinks
<1>4. p \in ToSet(bands[b].packets)
  <2>1. NPackets(bands[b]) > 0 /\ bands[b].packets \in Seq(Packets)
    BY <1>1, <1>2 DEF NonEmpty
  <2>2. 1 \in DOMAIN bands[b].packets
    BY <2>1 DEF NPackets
  <2> QED
    BY <1>1, <2>2 DEF ToSet
<1>5. Waiting(b, bands[b].packets)
  BY <1>1, <1>2 DEF Contents
<1>6. BandOfPacket(p) = b /\ p \in ToSet(accepted) /\ p \notin ToSet(extracted)
  BY <1>4, <1>5 DEF Waiting
<1>7. ASSUME NEW c \in DOMAIN bands', NEW q \in ToSet(bands'[c].packets)
      PROVE  /\ c \in 1 .. 3 /\ q \in ToSet(bands[c].packets) /\ b <= c /\ q # p
             /\ c = b => Precedes(bands[b].packets, p, q)
  <2>1. c \in 1 .. 3 /\ q \in ToSet(bands[c].packets)
    BY <1>2, <1>3, <1>7, ShrinksWithin, EmptySequence DEF Within
  <2>2. c \in NonEmpty
    <3>1. bands[c].packets \in Seq(Packets) /\ DOMAIN bands[c].packets # {}
      BY <1>2, <2>1 DEF ToSet
    <3>2. Len(bands[c].packets) > 0
      BY <3>1
    <3> QED
      BY <2>1, <3>2 DEF NonEmpty, NPackets
  <2>3. c = b => Precedes(bands[b].packets, p, q) /\ q # p
    BY <1>1, <1>2, <1>5, <1>7, FirstPrecedes DEF Waiting
  <2>4. c # b => q # p
    BY <1>2, <1>6, <2>1 DEF Contents, Waiting
  <2> QED
    BY <1>1, <2>1, <2>2, <2>3, <2>4
<1>8. \A q \in Packets : BandOfPacket(q)' = BandOfPacket(q)
  BY <1>1, BandKept
<1> QED
  BY <1>1, <1>2, <1>3, <1>4, <1>6, <1>7, <1>8

LEMMA DrainsKeepsContents ==
  ASSUME Typed, Contents, NEW b, NEW u, NEW p, Drains(b, u, p)
  PROVE  Contents'
<1>1. /\ extracted' = Append(extracted, p) /\ accepted' = accepted /\ arrived' = arrived
      /\ p \in Packets /\ p \in ToSet(accepted) /\ p \notin ToSet(extracted)
      /\ Shrinks /\ DOMAIN bands = 1 .. 3
  BY DrainFacts
<1>2. extracted \in Seq(Packets)
  BY PacketsTyped
<1>3. /\ Distinct(accepted) /\ ToSet(accepted) \subseteq arrived
      /\ Distinct(extracted) /\ ToSet(extracted) \subseteq ToSet(accepted)
  BY DEF Contents
<1>4. ToSet(extracted') = ToSet(extracted) \cup {p} /\ Distinct(extracted')
  BY <1>1, <1>2, <1>3, AppendedQueue
<1>5. ASSUME NEW c \in DOMAIN bands'
      PROVE  Waiting(c, bands[c].packets)'
  <2>1. Distinct(bands'[c].packets)
    BY <1>1, <1>5, ShrinksWithin, EmptySequence DEF Within, Contents, Waiting
  <2>2. ASSUME NEW q \in ToSet(bands'[c].packets)
        PROVE  q \in ToSet(accepted') /\ q \notin ToSet(extracted') /\ BandOfPacket(q)' = c
    <3>1. c \in DOMAIN bands /\ q \in ToSet(bands[c].packets) /\ q # p
      BY <1>1, <2>2, DrainFacts
    <3>2. q \in ToSet(accepted) /\ q \notin ToSet(extracted) /\ BandOfPacket(q) = c /\ q \in Packets
      BY <3>1, PacketsTyped DEF Contents, Waiting
    <3>3. BandOfPacket(q)' = BandOfPacket(q)
      BY <3>2, DrainFacts
    <3> QED
      BY <1>1, <1>4, <3>1, <3>2, <3>3
  <2> QED
    BY <2>1, <2>2 DEF Waiting
<1> QED
  BY <1>1, <1>3, <1>4, <1>5 DEF Contents

LEMMA DrainsKeepsOrder ==
  ASSUME Typed, Contents, BandsInOrder, NEW b, NEW u, NEW p, Drains(b, u, p)
  PROVE  BandsInOrder'
<1>1. accepted' = accepted /\ Shrinks
  BY DrainFacts
<1>2. ASSUME NEW c \in DOMAIN bands', NEW x, NEW y, Precedes(bands'[c].packets, x, y)
      PROVE  Precedes(accepted', x, y)
  <2>1. c \in DOMAIN bands /\ Precedes(bands[c].packets, x, y)
    BY <1>1, <1>2, ShrinksWithin, EmptySequence DEF Within
  <2> QED
    BY <1>1, <2>1 DEF BandsInOrder
<1> QED
  BY <1>2 DEF BandsInOrder

\* The packet that is stored was never accepted before, and comes last in its band.
LEMMA FillFacts ==
  ASSUME Typed, Contents, NEW p, NEW u, Fills(p, u)
  PROVE  /\ p \in Packets /\ p \notin ToSet(accepted)
         /\ arrived' = arrived \cup {p} /\ extracted' = extracted
         /\ accepted' = Append(accepted, p) /\ ToSet(accepted') = ToSet(accepted) \cup {p}
         /\ DOMAIN bands' = DOMAIN bands /\ DOMAIN bands = 1 .. 3
         /\ BandOfPacket(p) \in 1 .. 3
         /\ bands'[BandOfPacket(p)].packets = Append(bands[BandOfPacket(p)].packets, p)
         /\ \A c \in 1 .. 3 : c # BandOfPacket(p) => bands'[c] = bands[c]
         /\ \A q \in Packets : BandOfPacket(q)' = BandOfPacket(q)
<1> DEFINE b == BandOfPacket(p)
<1>1. /\ bands \in Bands /\ p \in Packets /\ p \notin arrived /\ arrived' = arrived \cup {p}
      /\ b \in 1 .. 3 /\ u \in Queues /\ u.packets = Append(bands[b].packets, p)
      /\ bands' = [bands EXCEPT ![b] = u]
      /\ accepted' = Append(accepted, p) /\ p4' = p4 /\ extracted' = extracted
  BY DEF Fills, TakesIn
<1>2. \A q \in Packets : BandOfPacket(q)' = BandOfPacket(q)
  BY <1>1, BandKept
<1>3. p \notin ToSet(accepted)
  BY <1>1 DEF Contents
<1>4. ToSet(accepted') = ToSet(accepted) \cup {p}
  BY <1>1, PacketsTyped, AppendedQueue
<1> HIDE DEF b
<1>5. /\ DOMAIN bands = 1 .. 3 /\ DOMAIN bands' = 1 .. 3
      /\ bands'[b] = u /\ \A c \in 1 .. 3 : c # b => bands'[c] = bands[c]
  BY <1>1, BandReplaced
<1> QED
  BY <1>1, <1>2, <1>3, <1>4, <1>5 DEF b

LEMMA FillsKeepsContents ==
  ASSUME Typed, Contents, NEW p, NEW u, Fills(p, u)
  PROVE  Contents'
<1> DEFINE b == BandOfPacket(p)
<1>1. /\ p \in Packets /\ p \notin ToSet(accepted)
      /\ arrived' = arrived \cup {p} /\ extracted' = extracted
      /\ accepted' = Append(accepted, p) /\ ToSet(accepted') = ToSet(accepted) \cup {p}
      /\ DOMAIN bands' = DOMAIN bands /\ DOMAIN bands = 1 .. 3 /\ b \in 1 .. 3
      /\ bands'[b].packets = Append(bands[b].packets, p)
      /\ \A c \in 1 .. 3 : c # b => bands'[c] = bands[c]
      /\ \A q \in Packets : BandOfPacket(q)' = BandOfPacket(q)
  BY FillFacts
<1>2. BandOfPacket(p)' = b
  BY <1>1
<1> HIDE DEF b
<1>3. /\ Distinct(accepted) /\ ToSet(accepted) \subseteq arrived
      /\ Distinct(extracted) /\ ToSet(extracted) \subseteq ToSet(accepted)
  BY DEF Contents
<1>4. Distinct(accepted')
  BY <1>1, <1>3, PacketsTyped, AppendedQueue
<1>5. p \notin ToSet(extracted)
  BY <1>1, <1>3
<1>6. ASSUME NEW c \in 1 .. 3, NEW q, q \in ToSet(bands[c].packets)
      PROVE  /\ q \in ToSet(accepted) /\ q \in ToSet(accepted') /\ q \notin ToSet(extracted')
             /\ BandOfPacket(q)' = c
  <2>1. q \in ToSet(accepted) /\ q \notin ToSet(extracted) /\ BandOfPacket(q) = c /\ q \in Packets
    BY <1>1, <1>6, PacketsTyped DEF Contents, Waiting
  <2>2. BandOfPacket(q)' = BandOfPacket(q)
    BY <1>1, <2>1
  <2> QED
    BY <1>1, <2>1, <2>2
<1>7. ASSUME NEW c \in 1 .. 3
      PROVE  Waiting(c, bands[c].packets)'
  <2>1. Distinct(bands[c].packets)
    BY <1>1 DEF Contents, Waiting
  <2>2. CASE c # b
    <3>1. bands'[c] = bands[c]
      BY <1>1, <2>2
    <3> QED
      BY <1>6, <2>1, <3>1 DEF Waiting
  <2>3. CASE c = b
    <3>1. bands[b].packets \in Seq(Packets) /\ p \notin ToSet(bands[b].packets)
      BY <1>1, <1>6, PacketsTyped
    <3>2. /\ ToSet(bands'[b].packets) = ToSet(bands[b].packets) \cup {p}
          /\ Distinct(bands'[b].packets)
      BY <1>1, <2>1, <2>3, <3>1, AppendedQueue
    <3> QED
      BY <1>1, <1>2, <1>5, <1>6, <2>3, <3>2 DEF Waiting
  <2> QED
    BY <2>2, <2>3
<1> QED
  BY <1>1, <1>3, <1>4, <1>7 DEF Contents

LEMMA FillsKeepsOrder ==
  ASSUME Typed, Contents, BandsInOrder, NEW p, NEW u, Fills(p, u)
  PROVE  BandsInOrder'
<1> DEFINE b == BandOfPacket(p)
<1>1. /\ p \in Packets
      /\ accepted' = Append(accepted, p)
      /\ DOMAIN bands' = DOMAIN bands /\ DOMAIN bands = 1 .. 3 /\ b \in 1 .. 3
      /\ bands'[b].packets = Append(bands[b].packets, p)
      /\ \A c \in 1 .. 3 : c # b => bands'[c] = bands[c]
  BY FillFacts
<1> HIDE DEF b
<1>2. /\ \A x, y : Precedes(accepted, x, y) => Precedes(accepted', x, y)
      /\ \A x \in ToSet(accepted) : Precedes(accepted', x, p)
  BY <1>1, PacketsTyped, AppendPrecedes
<1>3. bands[b].packets \in Seq(Packets)
  BY <1>1, PacketsTyped
<1>4. ASSUME NEW c \in 1 .. 3, NEW x, NEW y, Precedes(bands'[c].packets, x, y)
      PROVE  Precedes(accepted', x, y)
  <2>1. CASE Precedes(bands[c].packets, x, y)
    BY <1>1, <1>2, <2>1 DEF BandsInOrder
  <2>2. CASE ~ Precedes(bands[c].packets, x, y)
    <3>1. c = b
      BY <1>1, <1>4, <2>2
    <3>2. Precedes(Append(bands[b].packets, p), x, y) /\ ~ Precedes(bands[b].packets, x, y)
      BY <1>1, <1>4, <2>2, <3>1
    <3>3. x \in ToSet(bands[b].packets) /\ y = p
      <4>1. p \in Packets /\ bands[b].packets \in Seq(Packets)
        BY <1>1, <1>3
      <4> QED
        BY <3>2, <4>1, AppendPrecedes
    <3>4. x \in ToSet(accepted)
      BY <1>1, <3>3 DEF Contents, Waiting
    <3> QED
      BY <1>2, <3>3, <3>4
  <2> QED
    BY <2>1, <2>2
<1> QED
  BY <1>1, <1>4 DEF BandsInOrder

LEMMA ContentsStep ==
  ASSUME Typed, Accounts, Contents, BandsInOrder, Next
  PROVE  Contents' /\ BandsInOrder'
<1>1. CASE Thins
  BY <1>1, ThinsKeepsContents, ThinsKeepsOrder
<1>2. CASE \E b, u, p : Drains(b, u, p)
  BY <1>2, DrainsKeepsContents, DrainsKeepsOrder
<1>3. CASE \E p, u : Fills(p, u)
  BY <1>3, FillsKeepsContents, FillsKeepsOrder
<1> QED
  BY <1>1, <1>2, <1>3, PacketSteps

-----------------------------------------------------------------------------
LEMMA RoomInit ==
  ASSUME Typed, Initialize
  PROVE  Room'
<1>1. PICK capacities :
        /\ \A i \in 1 .. 3 : capacities[i] \in Nat
        /\ \A i \in 1 .. 2 : capacities[i] >= child.maxSize.value
        /\ bands' = [i \in 1 .. 3 |-> NewQueue(capacities[i])]
  BY InitializeCases
<1>2. child' = child /\ highest' = child.maxSize.value /\ child.maxSize.value \in Nat
  BY InitializeCases DEF Typed, Discs
<1>3. \A b \in DOMAIN bands' : /\ NPackets(bands'[b]) = 0 /\ b \in 1 .. 3
                               /\ bands'[b].maxSize = capacities[b]
                               /\ bands'[b].droppedBefore = 0
  BY <1>1 DEF NewQueue, NPackets
<1>4. DOMAIN bands' = 1 .. 3 /\ \A b \in 1 .. 2 : b \in 1 .. 3
  BY <1>1
<1>5. child'.maxSize.value <= highest'
  BY <1>2
<1>6. \A b \in 1 .. 3 : ~ (bands'[b].droppedBefore > 0)
  BY <1>3, <1>4
<1> QED
  BY <1>1, <1>2, <1>3, <1>4, <1>5, <1>6 DEF Room

\* A step that leaves the sizes alone and turns no packet away at the queues.
LEMMA RoomKept ==
  ASSUME Typed, Room, phase = "ready", phase' = phase, raised' = raised,
         highest' = highest, child'.maxSize = child.maxSize, DOMAIN bands' = 1 .. 3,
         \A b \in 1 .. 3 : /\ bands'[b].maxSize = bands[b].maxSize
                           /\ bands'[b].droppedBefore = bands[b].droppedBefore
                           /\ NPackets(bands'[b]) <= bands'[b].maxSize
  PROVE  Room'
<1>1. \A b \in 1 .. 2 : b \in 1 .. 3
  OBVIOUS
<1> QED
  BY <1>1 DEF Room

LEMMA RestIsShorter ==
  ASSUME Typed, phase = "ready", Room, NEW b \in 1 .. 3, NEW u \in Queues, NEW n \in Nat,
         Rest(bands[b].packets, u.packets, n), u.maxSize = bands[b].maxSize
  PROVE  NPackets(u) <= u.maxSize
<1>1. bands \in Bands
  BY DEF Typed
<1>2. NPackets(bands[b]) <= bands[b].maxSize /\ bands[b].packets \in Seq(Packets)
      /\ bands[b].maxSize \in Nat
  BY <1>1 DEF Room, Bands, Queues
<1>3. NPackets(u) = NPackets(bands[b]) - n /\ NPackets(bands[b]) \in Nat
  BY <1>2 DEF NPackets, Rest
<1> QED
  BY <1>2, <1>3

\* A queue is only full when the disc still has room if CheckConfig has not looked at it.
LEMMA RoomWhenRefused ==
  ASSUME Typed, Accounts, Room, phase = "ready", phase' = phase, raised' = raised,
         highest' = highest, NEW b, NEW u, QueueRefuses(b, u)
  PROVE  Room'
<1>1. /\ b \in 1 .. 3 /\ IsFull(bands[b]) /\ u \in Queues /\ u.packets = bands[b].packets
      /\ u.maxSize = bands[b].maxSize
      /\ bands' = [bands EXCEPT ![b] = u] /\ child.nPackets < child.maxSize.value
      /\ child'.maxSize = child.maxSize
  BY DEF QueueRefuses, TurnsAway, BothRefuse, Refuses, Counts
<1>2. bands \in Bands /\ child \in Discs
  BY DEF Typed
<1>3. /\ DOMAIN bands = 1 .. 3 /\ DOMAIN bands' = 1 .. 3
      /\ bands'[b] = u /\ \A c \in 1 .. 3 : c # b => bands'[c] = bands[c]
      /\ \A c \in 1 .. 3 : bands[c].packets \in Seq(Packets) /\ bands[c] \in Queues
  BY <1>1, <1>2, BandReplaced
<1>4. NPackets(bands[b]) \in Nat /\ NPackets(bands[b]) <= child.nPackets
  BY <1>1, <1>2, BandChanges DEF Accounts, Held
<1>5. bands[b].maxSize \in Nat /\ child.maxSize.value \in Nat /\ child.nPackets \in Nat
  BY <1>1, <1>2, <1>3 DEF Queues, Discs
<1>6. bands[b].maxSize < child.maxSize.value
  BY <1>1, <1>4, <1>5 DEF IsFull
<1>7. raised \/ b \notin 1 .. 2
  BY <1>5, <1>6 DEF Room
<1>8. \A c \in 1 .. 3 : NPackets(bands'[c]) <= bands'[c].maxSize
  <2>1. NPackets(u) = NPackets(bands[b])
    BY <1>1 DEF NPackets
  <2> QED
    BY <1>1, <1>3, <2>1 DEF Room
<1>9. ASSUME ~ raised, NEW c \in 1 .. 2
      PROVE  bands'[c].maxSize >= child.maxSize.value /\ bands'[c].droppedBefore = 0
  <2>1. c # b /\ c \in 1 .. 3
    BY <1>7, <1>9
  <2> QED
    BY <1>3, <1>9, <2>1 DEF Room
<1>10. child'.maxSize.value <= highest' /\ u.maxSize < highest'
  <2>1. child.maxSize.value <= highest /\ highest \in Nat
    BY DEF Room, Typed
  <2>2. u.maxSize < highest
    BY <1>1, <1>5, <1>6, <2>1
  <2> QED
    BY <1>1, <2>1, <2>2
<1>11. ASSUME NEW c \in 1 .. 3, bands'[c].droppedBefore > 0
       PROVE  bands'[c].maxSize < highest'
  <2>1. CASE c = b
    BY <1>3, <1>10, <2>1
  <2>2. CASE c # b
    BY <1>3, <1>11, <2>2 DEF Room
  <2> QED
    BY <2>1, <2>2
<1> QED
  BY <1>1, <1>3, <1>8, <1>9, <1>10, <1>11 DEF Room

LEMMA RoomStep ==
  ASSUME Typed, Accounts, Room, Next
  PROVE  Room'
<1>1. CASE Initialize
  BY <1>1, RoomInit
<1>2. CASE \E size \in Sizes : SetMaxSize(size)
  <2>1. /\ UNCHANGED <<phase, bands>>
        /\ raised' = (raised \/ (phase = "ready" /\ child'.maxSize.value > child.maxSize.value))
        /\ highest' = IF phase = "ready" /\ child'.maxSize.value > highest
                      THEN child'.maxSize.value ELSE highest
        /\ child' \in Discs /\ child \in Discs /\ highest \in Nat
    BY <1>2, SetMaxSizeCases DEF SameButSize, Typed
  <2>2. child'.maxSize.value \in Nat /\ child.maxSize.value \in Nat
    BY <2>1 DEF Discs
  <2>3. ASSUME phase = "ready", ~ raised', NEW b \in 1 .. 2
        PROVE  bands[b].maxSize >= child'.maxSize.value /\ bands[b].droppedBefore = 0
    <3>1. ~ raised /\ child'.maxSize.value <= child.maxSize.value
      <4>1. ~ raised /\ ~ (child'.maxSize.value > child.maxSize.value)
        BY <2>1, <2>3
      <4> QED
        BY ONLY <2>2, <4>1
    <3>2. bands[b].maxSize \in Nat
      <4>1. bands \in Bands /\ b \in 1 .. 3
        BY <2>3 DEF Typed
      <4> QED
        BY <4>1 DEF Bands, Queues
    <3>3. bands[b].maxSize >= child.maxSize.value /\ bands[b].droppedBefore = 0
      BY <2>3, <3>1 DEF Room
    <3> QED
      BY <2>2, <3>1, <3>2, <3>3
  <2>4. phase = "ready" => /\ child'.maxSize.value <= highest' /\ highest <= highest'
                           /\ highest' \in Nat
    BY <2>1, <2>2
  <2>5. ASSUME phase = "ready", NEW b \in 1 .. 3, bands[b].droppedBefore > 0
        PROVE  bands[b].maxSize < highest'
    <3>1. bands[b].maxSize < highest
      BY <2>5 DEF Room
    <3>2. bands[b].maxSize \in Nat
      BY <2>5 DEF Typed, Bands, Queues
    <3> QED
      BY <2>1, <2>4, <2>5, <3>1, <3>2
  <2> QED
    BY <2>1, <2>3, <2>4, <2>5 DEF Room
<1>3. CASE \E p \in Packets : Enqueue(p)
  <2>1. PICK p \in Packets : Enqueue(p)
    BY <1>3
  <2>2. /\ phase = "ready" /\ UNCHANGED <<phase, raised, highest>>
        /\ \/ ProgramRefuses
           \/ LimitRefuses
           \/ \E b, u : QueueRefuses(b, u)
           \/ \E u : Stored(p, u)
    BY <2>1, EnqueueCases
  <2>3. bands \in Bands /\ DOMAIN bands = 1 .. 3
    BY <2>2 DEF Typed, Bands
  <2>4. CASE ProgramRefuses \/ LimitRefuses
    <3>1. bands' = bands /\ child'.maxSize = child.maxSize
      BY <2>4 DEF ProgramRefuses, LimitRefuses, BothRefuse, Refuses, Counts
    <3> QED
      BY <2>2, <2>3, <3>1 DEF Room
  <2>5. ASSUME NEW b, NEW u, QueueRefuses(b, u)
        PROVE  Room'
    BY <2>2, <2>5, RoomWhenRefused
  <2>6. ASSUME NEW u, Stored(p, u)
        PROVE  Room'
    <3> DEFINE b == BandOfPacket(p)
    <3>1. /\ b \in 1 .. 3 /\ ~ IsFull(bands[b]) /\ TakesIn(bands[b], u, p)
          /\ bands' = [bands EXCEPT ![b] = u] /\ child'.maxSize = child.maxSize
      BY <2>6 DEF Stored, Admits, Counts
    <3> HIDE DEF b
    <3>2. u \in Queues
      BY <3>1 DEF TakesIn
    <3>3. /\ DOMAIN bands = 1 .. 3 /\ DOMAIN bands' = 1 .. 3
          /\ bands'[b] = u /\ \A c \in 1 .. 3 : c # b => bands'[c] = bands[c]
          /\ \A c \in 1 .. 3 : bands[c].packets \in Seq(Packets) /\ bands[c] \in Queues
      BY <2>3, <3>1, <3>2, BandReplaced
    <3>4. NPackets(u) = NPackets(bands[b]) + 1 /\ NPackets(bands[b]) \in Nat
          /\ bands[b].maxSize \in Nat
      <4>1. /\ u.packets = Append(bands[b].packets, p) /\ bands[b].packets \in Seq(Packets)
            /\ bands[b] \in Queues
        BY <3>1, <3>3 DEF TakesIn
      <4>2. bands[b].maxSize \in Nat
        BY <4>1 DEF Queues
      <4> QED
        BY <4>1, <4>2 DEF NPackets
    <3>5. NPackets(u) <= u.maxSize
      BY <3>1, <3>4 DEF IsFull, TakesIn
    <3>6. \A c \in 1 .. 3 : /\ bands'[c].maxSize = bands[c].maxSize
                            /\ bands'[c].droppedBefore = bands[c].droppedBefore
                            /\ NPackets(bands'[c]) <= bands'[c].maxSize
      BY <3>1, <3>3, <3>5 DEF Room, TakesIn
    <3> QED
      BY <2>2, <3>1, <3>3, <3>6, RoomKept
  <2> QED
    BY <2>2, <2>4, <2>5, <2>6
<1>4. CASE /\ phase = "ready" /\ UNCHANGED <<phase, p4, tagged, accepted, arrived, raised, highest>>
           /\ Stays \/ SendsPeeked \/ Departs \/ Removes
  <2>1. bands \in Bands /\ DOMAIN bands = 1 .. 3
    BY <1>4 DEF Typed, Bands
  <2>2. CASE Stays \/ SendsPeeked
    BY <1>4, <2>2 DEF Stays, SendsPeeked, Room
  <2>3. ASSUME NEW b \in 1 .. 3, NEW u \in Queues, NEW n \in Nat,
               bands' = [bands EXCEPT ![b] = u], Rest(bands[b].packets, u.packets, n),
               u.maxSize = bands[b].maxSize, u.droppedBefore = bands[b].droppedBefore,
               child'.maxSize = child.maxSize
        PROVE  Room'
    <3>1. /\ DOMAIN bands = 1 .. 3 /\ DOMAIN bands' = 1 .. 3
          /\ bands'[b] = u /\ \A c \in 1 .. 3 : c # b => bands'[c] = bands[c]
      BY <2>1, <2>3, BandReplaced
    <3>2. NPackets(u) <= u.maxSize
      BY <1>4, <2>3, RestIsShorter
    <3>3. \A c \in 1 .. 3 : /\ bands'[c].maxSize = bands[c].maxSize
                            /\ bands'[c].droppedBefore = bands[c].droppedBefore
                            /\ NPackets(bands'[c]) <= bands'[c].maxSize
      BY <2>3, <3>1, <3>2 DEF Room
    <3> QED
      BY <1>4, <2>3, <3>1, <3>3, RoomKept
  <2>4. CASE Departs
    <3>1. PICK b, u, p : LetsGo(b, u, p)
      BY <2>4 DEF Departs, Sends, Peeks
    <3>2. /\ b \in 1 .. 3 /\ u \in Queues /\ bands' = [bands EXCEPT ![b] = u]
          /\ Rest(bands[b].packets, u.packets, 1) /\ 1 \in Nat
          /\ u.maxSize = bands[b].maxSize /\ u.droppedBefore = bands[b].droppedBefore
          /\ child'.maxSize = child.maxSize
      BY <3>1 DEF LetsGo, Leaves, HandsOut, Releases, Counts
    <3> QED
      BY <2>3, <3>2
  <2>5. ASSUME NEW b, NEW u, NEW n \in Nat, Withdraws(b, u, n)
        PROVE  Room'
    <3>1. /\ b \in 1 .. 3 /\ u \in Queues /\ bands' = [bands EXCEPT ![b] = u]
          /\ Rest(bands[b].packets, u.packets, n)
          /\ u.maxSize = bands[b].maxSize /\ u.droppedBefore = bands[b].droppedBefore
          /\ child'.maxSize = child.maxSize
      BY <2>5 DEF Withdraws, Removed, Loses, Counts
    <3> QED
      BY <2>3, <3>1
  <2> QED
    BY <1>4, <2>2, <2>4, <2>5 DEF Removes
<1> QED
  BY <1>1, <1>2, <1>3, <1>4, NextCases

-----------------------------------------------------------------------------
\* The inductive invariant.
Inductive == Typed /\ Accounts /\ Contents /\ BandsInOrder /\ Room

LEMMA InductiveInit == Init => Inductive
<1> SUFFICES ASSUME Init PROVE Contents /\ BandsInOrder /\ Room
  BY TypedInit DEF Inductive
<1>1. phase = "config" /\ bands = <<>> /\ accepted = <<>> /\ extracted = <<>> /\ arrived = {}
  BY DEF Init
<1>2. DOMAIN bands = {}
  BY <1>1
<1>3. Contents
  BY <1>1, <1>2, EmptySequence DEF Contents
<1>4. BandsInOrder
  BY <1>1, <1>2 DEF BandsInOrder
<1>5. Room
  BY <1>1, <1>2 DEF Room
<1> QED
  BY <1>3, <1>4, <1>5

LEMMA InductiveNext == Inductive /\ [Next]_vars => Inductive'
<1>1. ASSUME Inductive, Next
      PROVE  Inductive'
  BY <1>1, TypedStep, AccountsStep, ContentsStep, RoomStep DEF Inductive
<1>2. ASSUME Inductive, UNCHANGED vars
      PROVE  Inductive'
  <2>1. /\ UNCHANGED <<phase, p4, parent, child, bands, tagged>>
        /\ UNCHANGED <<accepted, extracted, arrived, raised, highest>>
    BY <1>2 DEF vars, history
  <2>2. Typed' /\ Accounts'
    BY <1>2, AccountsStutter DEF Inductive
  <2>3. \A p : BandOfPacket(p)' = BandOfPacket(p)
    BY <2>1 DEF BandOfPacket
  <2>4. Contents'
    BY <1>2, <2>1, <2>3 DEF Inductive, Contents, Waiting
  <2>5. BandsInOrder'
    BY <1>2, <2>1 DEF Inductive, BandsInOrder
  <2>6. Room'
    BY <1>2, <2>1 DEF Inductive, Room
  <2> QED
    BY <2>2, <2>4, <2>5, <2>6 DEF Inductive
<1> QED
  BY <1>1, <1>2

LEMMA InductiveHolds == Spec => []Inductive
BY InductiveInit, InductiveNext, PTL DEF Spec

-----------------------------------------------------------------------------
\* What the child counts is what waits in its bands.
LEMMA BandsCounted ==
  ASSUME Inductive
  PROVE  IsFiniteSet(InBands) /\ Cardinality(InBands) = FillOf(bands)
<1> DEFINE D == DOMAIN bands
           G == [b \in D |-> ToSet(bands[b].packets)]
           f == [b \in D |-> NPackets(bands[b])]
<1>1. IsFiniteSet(D)
  <2>1. CASE bands = <<>>
    BY <2>1, FS_EmptySet
  <2>2. CASE bands \in Bands
    <3>1. D = 1 .. 3
      BY <2>2 DEF Bands
    <3>2. 1 \in Int /\ 3 \in Int
      OBVIOUS
    <3>3. IsFiniteSet(1 .. 3)
      BY ONLY <3>2, FS_Interval
    <3> QED
      BY <3>1, <3>3
  <2> QED
    BY <2>1, <2>2 DEF Inductive, Typed
<1>2. ASSUME NEW b \in D
      PROVE  IsFiniteSet(G[b]) /\ f[b] = Cardinality(G[b])
  <2>1. bands[b].packets \in Seq(Packets) /\ Distinct(bands[b].packets)
    BY <1>2, PacketsTyped DEF Inductive, Contents, Waiting
  <2>2. /\ IsFiniteSet(ToSet(bands[b].packets))
        /\ Cardinality(ToSet(bands[b].packets)) = Len(bands[b].packets)
    BY <2>1, DistinctCount
  <2> QED
    BY <1>2, <2>2 DEF NPackets
<1>3. ASSUME NEW b \in D, NEW c \in D, b # c
      PROVE  G[b] \cap G[c] = {}
  BY <1>3 DEF Inductive, Contents, Waiting
<1>4. InBands = UNION {G[b] : b \in D}
  BY DEF InBands
<1>5. FillOf(bands) = SumOver(f, D)
  BY DEF FillOf
<1> HIDE DEF D, G, f
<1> QED
  BY <1>1, <1>2, <1>3, <1>4, <1>5, CountUnion

LEMMA LayersMeet ==
  ASSUME Inductive
  PROVE  LayersAgree
<1>1. Held /\ Balance /\ SameDrops /\ BandDrops
  BY DEF Inductive, Accounts
<1>2. child.nPackets = Cardinality(InBands)
  BY <1>1, BandsCounted DEF Held
<1>3. parent.nPackets = child.nPackets + (IF parent.peeked THEN 1 ELSE 0)
  BY <1>1 DEF Held, Peeked
<1>4. QueueDrops
  BY <1>1 DEF BandDrops, QueueDrops, SumBands, BeforeOf, AfterOf
<1>5. ASSUME ~ parent.peeked
      PROVE  GetStatsSent(parent) = Len(extracted) - (IF parent.requeued # None THEN 1 ELSE 0)
  <2> DEFINE n == parent.nDequeued
             k == DroppedAfter(parent)
             m == Len(extracted)
             r == IF parent.requeued # None THEN 1 ELSE 0
  <2>1. parent \in Discs /\ extracted \in Seq(Packets)
    BY DEF Inductive, Typed
  <2>2. n \in Nat /\ k \in Nat /\ m \in Nat /\ r \in Nat
    BY <2>1, DiscNumbers, DropNumbers
  <2>3. Peeked(parent) = 0
    BY <1>5 DEF Peeked
  <2>4. n + Peeked(parent) = k + m
    BY <1>1 DEF Balance, SentOrDropped
  <2>5. GetStatsSent(parent) = n - r - k
    BY DEF GetStatsSent
  <2> HIDE DEF n, k, m, r
  <2>6. n - r - k = m - r
    BY ONLY <2>2, <2>3, <2>4
  <2> QED
    BY <2>5, <2>6 DEF m, r
<1> QED
  BY <1>1, <1>2, <1>3, <1>4, <1>5 DEF LayersAgree, Balance

-----------------------------------------------------------------------------
\* No counter of any layer wraps below zero, whatever is flushed or removed, and no queue
\* holds more than it has room for.
THEOREM TreeTypeCorrect == Spec => []TypeOK
<1>1. Inductive => TypeOK
  <2> SUFFICES ASSUME Inductive PROVE TypeOK
    OBVIOUS
  <2>1. ASSUME NEW d \in Discs
        PROVE  DiscType(d)
    BY DEF Discs, Drops, DiscType
  <2>2. Typed /\ Room
    BY DEF Inductive
  <2>3. Len(bands) = IF phase = "ready" THEN 3 ELSE 0
    <3>1. CASE phase = "ready"
      <4>1. bands \in Bands
        BY <2>2, <3>1 DEF Typed
      <4>2. DOMAIN bands = 1 .. 3
        BY <4>1 DEF Bands
      <4>3. Len(bands) = 3
        BY <4>2
      <4> QED
        BY <3>1, <4>3
    <3>2. CASE phase # "ready"
      BY <2>2, <3>2 DEF Typed
    <3> QED
      BY <3>1, <3>2
  <2>4. \A b \in DOMAIN bands :
          bands[b].packets \in Seq(Packets) /\ NPackets(bands[b]) <= bands[b].maxSize
    BY <2>2, PacketsTyped DEF Room
  <2>5. /\ phase \in {"config", "ready"} /\ p4 \in BOOLEAN /\ raised \in BOOLEAN
        /\ highest \in Nat
        /\ parent \in Discs /\ child \in Discs
        /\ tagged \subseteq Packets /\ arrived \subseteq Packets
        /\ accepted \in Seq(Packets) /\ extracted \in Seq(Packets)
    BY <2>2 DEF Typed
  <2>6. DiscType(parent) /\ DiscType(child)
    BY <2>1, <2>5
  <2>7. (tagged \cup arrived) \subseteq Packets /\ {accepted, extracted} \subseteq Seq(Packets)
    BY <2>5
  <2> QED
    BY <2>3, <2>4, <2>5, <2>6, <2>7 DEF TypeOK
<1> QED
  BY <1>1, InductiveHolds, PTL

\* The counters of the three layers agree after every step: peeks, requeues, refusals at any
\* layer, and queues that are flushed behind the back of the discs.
THEOREM LayersAlwaysAgree == Spec => []LayersAgree
<1>1. Inductive => LayersAgree
  BY LayersMeet
<1> QED
  BY <1>1, InductiveHolds, PTL

\* A packet that the disc has admitted is dropped by an internal queue only below a limit that
\* was in force, and by the two queues that CheckConfig looks at only once it was raised.
THEOREM CheckedQueuesSuffice == Spec => []InternalQueuesSuffice
<1>1. Inductive => InternalQueuesSuffice
  <2> SUFFICES ASSUME Inductive, NEW b \in DOMAIN bands, bands[b].droppedBefore > 0
               PROVE  bands[b].maxSize < highest /\ (b = 3 \/ raised)
    BY DEF InternalQueuesSuffice
  <2>1. phase = "ready"
    <3>1. CASE phase = "config"
      BY <3>1 DEF Inductive, Typed
    <3> QED
      BY <3>1 DEF Inductive, Typed
  <2>2. b \in 1 .. 3
    BY PacketsTyped DEF Inductive
  <2>3. bands[b].maxSize < highest
    BY <2>1, <2>2 DEF Inductive, Room
  <2>4. b = 3 \/ raised
    <3>1. ASSUME ~ raised, b \in 1 .. 2
          PROVE  FALSE
      BY <2>1, <3>1 DEF Inductive, Room
    <3> QED
      BY <2>2, <3>1
  <2> QED
    BY <2>3, <2>4
<1> QED
  BY <1>1, InductiveHolds, PTL

\* What leaves the bands in a step of the tree is the first packet of the most urgent band that
\* has any.
LEMMA MostUrgentLeaves ==
  ASSUME Inductive, Next, NEW p \in Packets, extracted' = Append(extracted, p)
  PROVE  p \in InBands /\ \A q \in InBands \ {p} : Sooner(p, q)
<1>1. extracted \in Seq(Packets)
  BY DEF Inductive, Typed
<1>2. extracted' # extracted
  <2>1. Len(Append(extracted, p)) = Len(extracted) + 1 /\ Len(extracted) \in Nat
    BY <1>1
  <2> QED
    BY <2>1
<1>3. PICK b, u, x : Drains(b, u, x)
  BY <1>2, PacketSteps DEF Inductive, Thins, Fills
<1>4. /\ b \in 1 .. 3 /\ DOMAIN bands = 1 .. 3 /\ extracted' = Append(extracted, x)
      /\ x \in Packets /\ x \in ToSet(bands[b].packets) /\ BandOfPacket(x) = b
      /\ x \in ToSet(accepted)
  BY <1>3, DrainFacts DEF Inductive
<1>5. x = p
  <2>1. \A s \in Seq(Packets), y \in Packets : Append(s, y)[Len(s) + 1] = y
    OBVIOUS
  <2>2. Append(extracted, x) = Append(extracted, p)
    BY <1>4
  <2> QED
    BY <1>1, <1>4, <2>1, <2>2
<1>6. /\ \A c \in NonEmpty : b <= c
      /\ Rest(bands[b].packets, u.packets, 1) /\ p = bands[b].packets[1]
  BY <1>3, <1>5 DEF Drains, Leaves, HandsOut
<1>7. ASSUME NEW q \in InBands, q # p
      PROVE  Sooner(p, q)
  <2>1. PICK c \in 1 .. 3 : q \in ToSet(bands[c].packets)
    BY <1>4 DEF InBands
  <2>2. bands[c].packets \in Seq(Packets) /\ bands[b].packets \in Seq(Packets)
    BY <1>4, PacketsTyped DEF Inductive
  <2>3. BandOfPacket(q) = c /\ q \in ToSet(accepted)
    BY <1>4, <2>1 DEF Inductive, Contents, Waiting
  <2>4. b <= c
    <3>1. Len(bands[c].packets) > 0
      BY <2>1, <2>2 DEF ToSet
    <3>2. c \in NonEmpty
      BY <3>1 DEF NonEmpty, NPackets
    <3> QED
      BY <1>6, <3>2
  <2>5. CASE b < c
    BY <1>4, <1>5, <2>3, <2>5 DEF Sooner
  <2>6. CASE b = c
    <3>1. Precedes(bands[b].packets, p, q)
      BY <1>6, <1>7, <2>1, <2>2, <2>6, FirstOfQueue
    <3>2. Precedes(accepted, p, q)
      BY <1>4, <3>1 DEF Inductive, BandsInOrder
    <3>3. accepted \in Seq(Packets) /\ Distinct(accepted)
      BY DEF Inductive, Typed, Contents
    <3>4. Before(accepted, p, q)
      BY <1>4, <1>5, <2>3, <3>2, <3>3, PrecedesIsBefore
    <3> QED
      BY <1>4, <1>5, <2>3, <2>6, <3>4 DEF Sooner
  <2> QED
    BY <1>4, <2>4, <2>5, <2>6
<1>8. p \in InBands
  BY <1>4, <1>5 DEF InBands
<1> QED
  BY <1>7, <1>8

\* No packet leaves the bands while one of a more urgent band waits, also one that came later,
\* and packets of the same band leave in the order in which they were accepted.
THEOREM ServesUrgentFirst == Spec => UrgentFirst
<1>1. Inductive /\ [Next]_vars =>
        [\A p \in Packets : extracted' = Append(extracted, p) =>
           p \in InBands /\ \A q \in InBands \ {p} : Sooner(p, q)]_vars
  BY MostUrgentLeaves
<1> QED
  BY <1>1, InductiveHolds, PTL DEF Spec, UrgentFirst
=============================================================================
