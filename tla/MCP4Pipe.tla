------------------------------ MODULE MCP4Pipe ------------------------------
(***************************************************************************)
(* A small instance of P4Pipe: two headers of different sizes and fields   *)
(* of two bits.                                                            *)
(***************************************************************************)
EXTENDS P4Pipe

CONSTANTS ethernet, ipv4

TwoSizes == [h \in Headers |-> IF h = ethernet THEN 1 ELSE 2]
=============================================================================
