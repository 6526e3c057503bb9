---------------------------- MODULE PacketRelay ----------------------------
(***************************************************************************)
(* What a queue disc promises its callers, whatever the discipline, the    *)
(* device and the counters do: a packet it takes is passed on at most once *)
(* or lost, and once the next packet has been announced (by Peek, or       *)
(* because it is retained for a stopped transmission queue) that packet,   *)
(* and no other, is the next to be passed on; it is no longer dropped.     *)
(***************************************************************************)
EXTENDS Sequences

CONSTANTS Packets, None

VARIABLES
  waiting,   \* packets taken and still held
  next,      \* the packet announced, or None
  out,       \* packets passed on, in order
  lost       \* packets refused or dropped

relayVars == <<waiting, next, out, lost>>

Init == waiting = {} /\ next = None /\ out = <<>> /\ lost = {}

\* A packet the relay has not seen: neither waiting, nor lost, nor passed on.
Unseen(p) == p \notin waiting \cup lost /\ \A i \in DOMAIN out : out[i] # p

Take(p) ==
  /\ Unseen(p)
  /\ waiting' = waiting \cup {p}
  /\ UNCHANGED <<next, out, lost>>

Refuse(p) ==
  /\ Unseen(p)
  /\ lost' = lost \cup {p}
  /\ UNCHANGED <<waiting, next, out>>

\* With nothing announced, some of the waiting packets are dropped ...
Drop(D) ==
  /\ next = None
  /\ D \subseteq waiting
  /\ lost' = lost \cup D

\* ... and another one is announced or passed on, if any is left.
DropOnly(D) == Drop(D) /\ waiting' = waiting \ D /\ UNCHANGED <<next, out>>

Announce(D, p) ==
  /\ Drop(D)
  /\ p \in waiting \ D
  /\ waiting' = waiting \ D
  /\ next' = p
  /\ UNCHANGED out

Forward(D, p) ==
  /\ Drop(D)
  /\ p \in waiting \ D
  /\ waiting' = waiting \ (D \cup {p})
  /\ out' = Append(out, p)
  /\ UNCHANGED next

\* The announced packet is passed on.
ForwardNext ==
  /\ next # None
  /\ waiting' = waiting \ {next}
  /\ out' = Append(out, next)
  /\ next' = None
  /\ UNCHANGED lost

Next ==
  \/ \E p \in Packets : Take(p) \/ Refuse(p)
  \/ \E D \in SUBSET waiting : DropOnly(D)
  \/ \E D \in SUBSET waiting, p \in waiting : Announce(D, p) \/ Forward(D, p)
  \/ ForwardNext

Spec == Init /\ [][Next]_relayVars
=============================================================================
