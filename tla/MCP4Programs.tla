---------------------------- MODULE MCP4Programs ----------------------------
(***************************************************************************)
(* Small instances of P4Programs.                                          *)
(***************************************************************************)
EXTENDS P4Programs

CONSTANTS p1, p2, p3, p4

SmallAndLarge == [p \in Packets |-> IF p \in {p1, p4} THEN 1 ELSE 3]
\* Two flows share a counter of microburst.p4.
ThreeFlows == [p \in Packets |-> IF p \in {p1, p2} THEN 1 ELSE IF p = p3 THEN 3 ELSE 2]

\* The probability ranges up to 8 and above and the latency over MaxTime, with each of the
\* grades of pie.p4 within reach.
SmallPie ==
  [limit |-> 12, minDepth |-> 2, target |-> 1, period |-> 1, late |-> 2,
   alpha |-> 1, beta |-> 2, maxProb |-> 8, light |-> 1, medium |-> 2, heavy |-> 4,
   step |-> 2, certain |-> 3, deltaShift |-> 0, lightShift |-> 2, mediumShift |-> 1,
   heavyShift |-> 1, decayShift |-> 1]

\* Queue sizes are mapped to multiples of 3; an idle time is short, longer or very long.
SmallRed ==
  [minTh |-> 3, maxTh |-> 6, logQw |-> 1,
   decay |-> <<[upTo |-> 0, factor |-> 0], [upTo |-> 2, factor |-> 1]>>, longDecay |-> 3]

OnlyAny == {InitAny}
=============================================================================
