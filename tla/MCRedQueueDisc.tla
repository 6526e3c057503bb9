--------------------------- MODULE MCRedQueueDisc ---------------------------
(***************************************************************************)
(* Small instances of RedQueueDisc: a queue of at most five packets of one *)
(* or two bytes, thresholds of up to three, and one configuration for each *)
(* branch of the algorithm.                                                *)
(***************************************************************************)
EXTENDS RedQueueDisc

Default ==
  [mode |-> "packets", wait |-> TRUE, gentle |-> TRUE, nonlinear |-> FALSE, ared |-> FALSE,
   adaptMaxP |-> FALSE, feng |-> FALSE, useEcn |-> FALSE, useHardDrop |-> TRUE,
   ns1Compat |-> FALSE]

Variants ==
  {Default,
   [Default EXCEPT !.gentle = FALSE, !.ns1Compat = TRUE],
   [Default EXCEPT !.wait = FALSE, !.nonlinear = TRUE],
   [Default EXCEPT !.mode = "bytes"],
   [Default EXCEPT !.ared = TRUE],
   [Default EXCEPT !.feng = TRUE],
   [Default EXCEPT !.useEcn = TRUE, !.useHardDrop = FALSE]}

Adaptive == {[Default EXCEPT !.ared = TRUE]}

OnePair == {<<1, 2>>}
PairsTried == {<<0, 0>>, <<0, 3>>}
Computed == <<1, 2>>
=============================================================================
