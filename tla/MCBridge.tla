------------------------------ MODULE MCBridge ------------------------------
(***************************************************************************)
(* The bridge for TLC, with at most one token at home on either chain.     *)
(***************************************************************************)
EXTENDS Bridge, TLC

CONSTANTS t, l

NoPrices == [m \in {} |-> 0]

=============================================================================
