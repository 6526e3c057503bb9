-------------------------------- MODULE Pifo --------------------------------
(***************************************************************************)
(* What a push-in first-out queue promises: packets are pushed with a      *)
(* rank, and what leaves is always a packet of the lowest rank.            *)
(***************************************************************************)
EXTENDS Integers, Sequences

CONSTANTS Packets, Ranks

VARIABLES
  held,   \* the packets in the queue
  rank,   \* of every packet
  left    \* the packets that have left, in order

pifoVars == <<held, rank, left>>

Init == held = {} /\ rank \in [Packets -> Ranks] /\ left = <<>>

HasLeft(p) == \E i \in DOMAIN left : left[i] = p

Push(p, r) ==
  /\ p \notin held /\ ~ HasLeft(p)
  /\ held' = held \cup {p}
  /\ rank' = [rank EXCEPT ![p] = r]
  /\ UNCHANGED left

\* The rank of a packet that is not in the queue is of no interest.
Rank(p, r) ==
  /\ p \notin held
  /\ rank' = [rank EXCEPT ![p] = r]
  /\ UNCHANGED <<held, left>>

\* S leaves in the order s; one packet or several at once.
Leave(S, s) ==
  /\ S # {} /\ S \subseteq held
  /\ Len(s) - Len(left) \in Nat
  /\ SubSeq(s, 1, Len(left)) = left
  /\ {s[i] : i \in (Len(left) + 1) .. Len(s)} = S
  /\ \A i \in (Len(left) + 1) .. Len(s), p \in held :
       (\A j \in (Len(left) + 1) .. i : s[j] # p) => rank[s[i]] <= rank[p]
  /\ held' = held \ S
  /\ left' = s
  /\ UNCHANGED rank

Next ==
  \/ \E p \in Packets, r \in Ranks : Push(p, r) \/ Rank(p, r)
  \/ \E S \in SUBSET held : Leave(S, left')

Spec == Init /\ [][Next]_pifoVars
=============================================================================
