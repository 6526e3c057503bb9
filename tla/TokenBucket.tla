----------------------------- MODULE TokenBucket ----------------------------
(***************************************************************************)
(* The P4 program token-bucket.p4: every timer event adds tokens, every    *)
(* arrival takes as many as it has bytes or is dropped.  All other events  *)
(* are arrivals of 0 bytes to it, except that enqueue, dequeue and drop    *)
(* events leave pkt_len_bytes at 0.                                        *)
(***************************************************************************)
EXTENDS Integers

CONSTANTS
  FILL_RATE,    \* bytes per timer event
  MAX_TOKENS

ASSUME TokenAssumption == FILL_RATE \in Nat /\ MAX_TOKENS \in Nat

InitTokens == [program |-> "token-bucket", tokens |-> 0]

\* The field pkt_len_bytes is 0 for the events that have fields of their own.
Request(m) == IF m.trigger = "ingress" THEN m.pkt_len_bytes ELSE 0

\* Mutant: the bucket has no brim.
FilledPastBrim(tokens) == tokens + FILL_RATE

Filled(tokens) ==
  IF tokens + FILL_RATE > MAX_TOKENS THEN MAX_TOKENS ELSE tokens + FILL_RATE

Granted(tokens, request) == tokens > request

\* token_bucket: the tokens left and the result.
token_bucket(tokens, m) ==
  IF m.trigger = "timer" THEN <<Filled(tokens), TRUE>>
  ELSE IF Granted(tokens, Request(m)) THEN <<tokens - Request(m), TRUE>>
  ELSE <<tokens, FALSE>>

TokenBucketIngress(reg, m) ==
  LET tb == token_bucket(reg.tokens, m)
  IN  {[registers |-> [reg EXCEPT !.tokens = tb[1]],
        trace |-> m.trace,
        drop |-> ~ tb[2],
        len |-> m.pkt_len_bytes]}
=============================================================================
