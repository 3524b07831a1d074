-------------------------- MODULE MCOrderFulfilment --------------------------
(* OrderFulfilment for TLC.                                                   *)
EXTENDS OrderFulfilment

CONSTANTS o1, r1, r2

=============================================================================
