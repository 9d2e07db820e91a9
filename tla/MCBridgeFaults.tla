--------------------------- MODULE MCBridgeFaults ---------------------------
(***************************************************************************)
(* BridgeFaults for TLC: three guardians, one of them faulty.              *)
(***************************************************************************)
EXTENDS BridgeFaults, TLC

CONSTANT t

NoPrices == [m \in {} |-> 0]

=============================================================================
