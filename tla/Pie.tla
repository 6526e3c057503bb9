-------------------------------- MODULE Pie --------------------------------
(***************************************************************************)
(* The P4 program pie.p4: every cTimeUpdate it moves the probability of a  *)
(* drop by the distance of the latency from its target and by its trend,   *)
(* in the modular arithmetic of bit<64> and int<64>.                       *)
(***************************************************************************)
EXTENDS Integers

CONSTANTS
  PIE,    \* the constants of the program, scaled down
  Word    \* number of values of a uint_t

ASSUME PieAssumption ==
  /\ PIE \in [limit : Nat, minDepth : Nat, target : Nat, period : Nat, late : Nat,
              alpha : Nat, beta : Nat, maxProb : Nat \ {0}, light : Nat, medium : Nat,
              heavy : Nat, step : Nat, certain : Nat, deltaShift : Nat, lightShift : Nat,
              mediumShift : Nat, heavyShift : Nat, decayShift : Nat]
  /\ Word \in Nat \ {0} /\ Word % 2 = 0 /\ 2 * PIE.maxProb < Word

InitPie == [program |-> "pie", prob |-> 0, qdelay |-> 0, time_next |-> 0]

\* The casts (bit<64>) and (int<64>).
Unsigned(x) == x % Word
Signed(x) == IF Unsigned(x) < Word \div 2 THEN Unsigned(x) ELSE Unsigned(x) - Word

\* The finer the step, the lower the probability; >> rounds down negative numbers, too.
Graded(delta, prob) ==
  LET d == delta \div 2^PIE.deltaShift
  IN  CASE prob < PIE.light -> d \div 2^PIE.lightShift
        [] prob \in PIE.light .. (PIE.medium - 1) -> d \div 2^PIE.mediumShift
        [] prob \in PIE.medium .. (PIE.heavy - 1) -> d \div 2^PIE.heavyShift
        [] OTHER -> Signed(2 * d)

\* The change of the probability that the PI controller asks for.
Delta(prob, qdelay, qdelay_old) ==
  LET pi == Signed(Signed(PIE.alpha * (qdelay - PIE.target))
                   + Signed(PIE.beta * (qdelay - qdelay_old)))
      graded == Graded(pi, prob)
      limited == IF graded > PIE.step /\ prob >= PIE.heavy THEN PIE.step ELSE graded
  IN  IF qdelay > PIE.late THEN limited + PIE.step ELSE limited

\* Mutant: an unsigned probability is taken not to fall below 0.
UncheckedProb(prob, qdelay, qdelay_old) ==
  LET delta == Delta(prob, qdelay, qdelay_old)
      moved == Unsigned(prob + delta)
      decayed == IF qdelay = 0 /\ qdelay_old = 0
                 THEN moved - moved \div 2^PIE.decayShift ELSE moved
  IN  IF delta > 0 /\ decayed < prob THEN PIE.maxProb ELSE decayed

\* The next probability.  It is not bounded by maxProb: only a wrapped sum is.
NewProb(prob, qdelay, qdelay_old) ==
  LET delta == Delta(prob, qdelay, qdelay_old)
      moved == Unsigned(prob + delta)
      decayed == IF qdelay = 0 /\ qdelay_old = 0
                 THEN moved - moved \div 2^PIE.decayShift ELSE moved
  IN  CASE delta > 0 /\ decayed < prob -> PIE.maxProb
        [] delta <= 0 /\ decayed > prob -> 0
        [] OTHER -> decayed

\* The registers after an event at this time, which catches up one period if it is late.
Updated(reg, qdelay, time) ==
  IF time >= reg.time_next
  THEN [reg EXCEPT !.prob = NewProb(reg.prob, qdelay, reg.qdelay),
                   !.qdelay = qdelay,
                   !.time_next = @ + PIE.period]
  ELSE reg

\* The comparison with a random number between 0 and maxProb.
Draws(prob) == {d \in BOOLEAN : (d => prob > 0) /\ (~ d => prob <= PIE.maxProb)}

\* The fields of the arrival are 0 for the events that have fields of their own.
PieIngress(reg, m) ==
  LET own == m.trigger \in {"drop", "enq", "deq"}
      qdepth == IF own THEN 0 ELSE m.qdepth
      qdelay == IF own THEN 0 ELSE m.qlatency
      new == Updated(reg, qdelay, IF own THEN 0 ELSE m.timestamp)
      exposed == (qdelay >= PIE.target \div 2 \/ new.prob >= PIE.certain)
                   /\ qdepth > PIE.minDepth
  IN  IF qdepth >= PIE.limit
      THEN {[registers |-> reg, trace |-> m.trace, drop |-> TRUE, len |-> m.pkt_len_bytes]}
      ELSE {[registers |-> new,
             trace |-> [m.trace EXCEPT ![4] = new.prob % PIE.maxProb],
             drop |-> d,
             len |-> m.pkt_len_bytes] : d \in IF exposed THEN Draws(new.prob) ELSE {FALSE}}
=============================================================================
