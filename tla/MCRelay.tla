------------------------------- MODULE MCRelay -------------------------------
(***************************************************************************)
(* Relay for TLC.                                                          *)
(***************************************************************************)
EXTENDS Relay, TLC

\* One signature, pointing at its own bytes or at those of the first instruction.
OneSignature ==
    {MakeEd25519InstDataPacked(<<ConstructSig(g, m)>>, ix) :
        g \in Guardian, m \in Message, ix \in {0, U16_MAX}}

=============================================================================
