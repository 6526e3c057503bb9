-------------------------------- MODULE Red --------------------------------
(***************************************************************************)
(* The P4 programs red/basic/red.p4 and red/ewma/red.p4: both drop an      *)
(* arrival with a probability that a table looks up for an average queue   *)
(* size.  The former is given the average, the latter keeps one in a       *)
(* register, which another table decays while the queue is empty.  The     *)
(* tables are filled by the gen_commands.py beside each program.           *)
(***************************************************************************)
EXTENDS Integers, Sequences, FiniteSetsExt

CONSTANT RED   \* the thresholds, LOG_QW, and the entries of the decay table

ASSUME RedTablesAssumption ==
  /\ RED \in [minTh : Nat, maxTh : Nat, logQw : Nat,
              decay : Seq([upTo : Nat, factor : 0 .. 7]), longDecay : 0 .. 7]
  /\ RED.minTh < RED.maxTh

InitRed == [program |-> "red"]
InitRedEwma == [program |-> "red-ewma", avg |-> 0]

\* calc_red_drop_probability, in units of 1/256.  Between the thresholds the script computes
\* a slope from 0 to 1 unit and not to 256; whether it rounds 1 down is left to the draw.
DropProbability(qsize) ==
  CASE qsize < RED.minTh -> 0
    [] qsize > RED.maxTh -> 256
    [] OTHER -> (qsize - RED.minTh) \div (RED.maxTh - RED.minTh)

\* The comparison with a random number from 0 to 255.
RedDraws(qsize) ==
  LET p == DropProbability(qsize) IN {d \in BOOLEAN : (d => p > 0) /\ (~ d => p < 256)}

\* calc_decay_factor: the entries overlap, and the first that matches is the one.
DecayFactor(duration) ==
  LET hits == {i \in DOMAIN RED.decay : duration <= RED.decay[i].upTo}
  IN  IF hits = {} THEN RED.longDecay ELSE RED.decay[Min(hits)].factor

\* Mutant: an unsigned difference (here of 16 bits) is shifted, which the program's NOTE
\* warns of.
UnsignedStep(avg, qdepth) == (avg + ((qdepth - avg) % 2^16) \div 2^RED.logQw) % 2^16

\* The average after a sample; the difference is taken of the larger and the smaller,
\* since it is unsigned.
EwmaStep(avg, qdepth) ==
  IF qdepth > avg
  THEN avg + (qdepth - avg) \div 2^RED.logQw
  ELSE avg - (avg - qdepth) \div 2^RED.logQw

NewAverage(avg, qdepth, idle_duration) ==
  IF qdepth # 0 THEN EwmaStep(avg, qdepth) ELSE avg \div 2^DecayFactor(idle_duration)

RedOutcomes(reg, trace, m, qsize) ==
  {[registers |-> reg, trace |-> trace, drop |-> d, len |-> m.pkt_len_bytes] :
     d \in RedDraws(qsize)}

\* As in pie.p4, the fields of an arrival are 0 for the events that have their own.
Own(m) == m.trigger \in {"drop", "enq", "deq"}

RedIngress(reg, m) == RedOutcomes(reg, m.trace, m, IF Own(m) THEN 0 ELSE m.avg_qdepth)

RedEwmaIngress(reg, m) ==
  LET avg == IF Own(m)
             THEN NewAverage(reg.avg, 0, 0)
             ELSE NewAverage(reg.avg, m.qdepth, m.timestamp - m.idle_time)
  IN  RedOutcomes([reg EXCEPT !.avg = avg], [m.trace EXCEPT ![1] = avg], m, avg)
=============================================================================
