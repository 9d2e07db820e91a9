------------------------------ MODULE MCScripts ------------------------------
(***************************************************************************)
(* Scripts for TLC.                                                        *)
(***************************************************************************)
EXTENDS Scripts, TLC

CONSTANTS t, l, g1, g2, g3

\* Twice as much SOL there as back, out of which the fee is paid.
BridgeAmount ==
    [s \in SourceScript |-> IF s = "solayer/bridge_asset_source_chain_sol" THEN 1 ELSE 2]

NoPrices == [m \in {} |-> 0]

ToAdd == <<g1, g2, g3>>
ToRemove == <<g3>>
ToSign == <<g1, g2>>

SetupScript == {"solana/initialize", "solana/add_guardian", "solana/remove_guardian",
                "solana/update_guardian_threshold",
                "solayer/initialize", "solayer/add_guardian", "solayer/remove_guardian",
                "solayer/update_guardian_threshold"}
SolScript == {"solana/bridge_asset_source_chain_sol",
              "solayer/verify_signature_bridge_sol", "solayer/bridge_asset_target_chain_sol"}
TokenScript == {"solana/bridge_asset_source_chain", "solayer/add_token",
                "solayer/verify_signature", "solayer/bridge_asset_target_chain"}
\* The scripts that answer a call made on Solana.
SolAnswers == {"solayer/verify_signature_bridge_sol", "solayer/bridge_asset_target_chain_sol"}
TokenAnswers == TokenScript \ SourceScript

OtherScript == {"solana/update_fee_vault", "solana/pause_token", "solana/unpause_token",
                "solana/verify_signature", "solayer/unpause_token",
                "solayer/bridge_asset_source_chain", "solayer/bridge_asset_source_chain_sol"}
AllScript == SetupScript \cup SolScript \cup TokenScript \cup OtherScript
TokenFlowScript == SetupScript \cup TokenScript

=============================================================================
