---------------------------- MODULE MCDeployment ----------------------------
(***************************************************************************)
(* Deployment for TLC: all of it on Solayer, and payouts under the cap on  *)
(* Solana.                                                                 *)
(***************************************************************************)
EXTENDS Deployment, TLC

CONSTANTS g1, g2, u1, t, w

MCMessage == {MessageHash(p) : p \in Payout}

SolPayout(amount, nonce, tx) ==
    [kind |-> "sol", sender |-> u1, recipient |-> u1, source_mint |-> SOL, mint |-> SOL,
     amount |-> amount, nonce |-> nonce, tx |-> <<OtherChain, tx>>, gas |-> 0]
TokenPayout(source_mint, mint, amount, gas, nonce, tx) ==
    [kind |-> "token", sender |-> u1, recipient |-> u1, source_mint |-> source_mint,
     mint |-> mint, amount |-> amount, nonce |-> nonce, tx |-> <<OtherChain, tx>>,
     gas |-> gas]

\* Two SOL payouts and a token payout with gas; the token call was made in the
\* transaction of the second SOL call.  Nobody signed the larger first payout.
Unsigned == SolPayout(2, 0, 0)
CapPayouts == {SolPayout(1, 0, 0), SolPayout(2, 1, 1),
               TokenPayout(w, WrappedMint(w), 1, 1, 2, 1), Unsigned}
CapPrices == [m \in {WrappedMint(w)} |-> 150]

\* Guardians, authorities and vaults are only compared with each other.
AdminSymmetry ==
    Permutations(Guardian) \cup Permutations(Authority) \cup Permutations(FeeVault)

OnePayout == {TokenPayout(w, WrappedMint(w), 1, 1, 0, 0)}

-----------------------------------------------------------------------------
\* The state the manager's add_guardian and update_guardian_threshold calls
\* lead to, after the guardians have signed every message but one.
ConfiguredInit ==
    /\ ProgramInit
    /\ guardians = <<g1, g2>>
    /\ threshold = 2
    /\ verified = <<>>
    /\ now = 0
    /\ attested = [g \in Guardian |-> Message \ {MessageHash(Unsigned)}]
    /\ disturbed = {}

\* Submitting what is signed already, at any time.
Submitting == (AnyVerifySignature \/ Tick) /\ UNCHANGED programVars

SetCap == \E s \in Authority, cap \in InstantBridgeCap : UpdateInstantBridgeCap(s, cap)

\* Payouts under the cap: time, epochs, and a handler funded by source calls.
CapNext ==
    \/ PayToken \/ PaySolOut \/ RegisterToken \/ BridgeSol
    \/ Submitting \/ SetCap \/ NextEpoch
CapSpec == ConfiguredInit /\ [][CapNext]_vars

=============================================================================
