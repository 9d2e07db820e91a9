------------------------------- MODULE Scripts -------------------------------
(***************************************************************************)
(* The bridge as it is set up and used by hand, with the scripts under     *)
(* scripts/devnet.  A script builds one transaction and sends it.  Some    *)
(* wait until it is confirmed, most of those for Solayer do not: their     *)
(* transaction is executed later, after others sent later, or never.  All  *)
(* instructions of a transaction are executed, or none.  An operator who   *)
(* sees no effect runs the script again.                                   *)
(*                                                                         *)
(* The operator copies what a source-chain script has called for into the  *)
(* constants of the verify_signature and target-chain scripts, which sign  *)
(* with the guardians' own keys.                                           *)
(***************************************************************************)
EXTENDS Bridge

CONSTANTS
    Script,                   \* the scripts that are run
    GUARDIAN_KEYPAIRS,        \* the keys add_guardian registers, in this order
    RemovedKeypairs,          \* the keys remove_guardian takes out
    GUARDIAN_THRESHOLD,       \* the argument of update_guardian_threshold
    InputSigs,                \* the guardians verify_signature signs for, in this order
    SENDER, RECIPIENT,        \* users
    SOLANA_MINT, SOLAYER_MINT,
    BRIDGE_AMOUNT,            \* by source-chain script: each has its own
    ADDITIONAL_SOL_GAS,
    FEE_VAULT, SOLANA_MINT_FOR_DELETE,
    Repeated,                 \* the scripts that are run until they have worked
    MaxSent                   \* bound on the transactions under way

VARIABLES
    up,     \* chains with an initialised handler
    sent    \* transactions sent, neither executed nor expired

scriptsVars == <<bridgeVars, up, sent>>

\* Scripts that wait for their transaction: whoever runs one, a user or the
\* operator, runs nothing else meanwhile.
Awaited ==
    {"solana/initialize", "solana/add_guardian", "solana/remove_guardian",
     "solana/update_guardian_threshold", "solana/update_fee_vault",
     "solana/bridge_asset_source_chain", "solana/bridge_asset_source_chain_sol",
     "solana/pause_token", "solana/unpause_token",
     "solayer/initialize", "solayer/remove_guardian", "solayer/bridge_asset_target_chain"}

TokenSource == {"solana/bridge_asset_source_chain", "solayer/bridge_asset_source_chain"}
SolSource == {"solana/bridge_asset_source_chain_sol", "solayer/bridge_asset_source_chain_sol"}
SourceScript == TokenSource \cup SolSource
CallScript == {"solana/verify_signature", "solayer/verify_signature",
               "solayer/verify_signature_bridge_sol",
               "solayer/bridge_asset_target_chain", "solayer/bridge_asset_target_chain_sol"}

\* The operator's other scripts.
OperatorScript ==
    {"solana/initialize", "solana/add_guardian", "solana/remove_guardian",
     "solana/update_guardian_threshold", "solana/update_fee_vault",
     "solana/pause_token", "solana/unpause_token",
     "solayer/initialize", "solayer/add_guardian", "solayer/remove_guardian",
     "solayer/update_guardian_threshold", "solayer/add_token", "solayer/unpause_token"}

Tx(script, args) == [script |-> script, args |-> args]

\* What the key files and the constants of the scripts hold: each keypair is
\* there once, the mint of SOLANA_MINT's key file is at home on Solana, and the
\* account to be deleted is not the fee vault.
ASSUME ScriptAssumption ==
    /\ Script \subseteq SourceScript \cup CallScript \cup OperatorScript
    /\ GUARDIAN_KEYPAIRS \in Seq(Guardian) /\ IsInjective(GUARDIAN_KEYPAIRS)
    /\ RemovedKeypairs \in Seq(Guardian)
    /\ SENDER \in User /\ RECIPIENT \in User
    /\ SOLANA_MINT \in SolanaMint /\ SOLAYER_MINT \in Solayer!Mint
    /\ \A s \in SourceScript : BRIDGE_AMOUNT[s] \in Amount
    /\ {0, ADDITIONAL_SOL_GAS} \subseteq Gas
    /\ {FEE_VAULT, SOLANA_MINT_FOR_DELETE} \subseteq FeeVault
    /\ FEE_VAULT # SOLANA_MINT_FOR_DELETE

-----------------------------------------------------------------------------
(***************************************************************************)
(* What the scripts sign.                                                  *)
(***************************************************************************)

\* Only the mint paid in is hashed for a token.
GetMessageHash(p) ==
    <<p.sender, p.recipient, p.mint, p.amount, p.nonce, p.tx, p.gas>>

\* Variant: the nonce of the call is left out.
GetMessageHashSolNonceless(p) == <<p.sender, p.recipient, p.mint, p.amount, p.tx>>

GetMessageHashForBridgeAssetTargetChainSol(p) ==
    <<p.sender, p.recipient, p.mint, p.amount, p.nonce, p.tx>>

ScriptHash(p) == IF p.kind = "token" THEN GetMessageHash(p)
                                     ELSE GetMessageHashForBridgeAssetTargetChainSol(p)

\* The indexes are literals: the first guardians of the list are to sign.
SignerIndexLiterals == [k \in DOMAIN InputSigs |-> k - 1]

Signed(hash) ==
    [g \in Guardian |-> IF g \in ToSet(InputSigs) THEN attested[g] \cup {hash}
                                                  ELSE attested[g]]

-----------------------------------------------------------------------------
(***************************************************************************)
(* Setting up: what each transaction does when it is executed.             *)
(***************************************************************************)
On(c) == c \in up /\ UNCHANGED up

Initialize(c) == c \notin up /\ up' = up \cup {c} /\ UNCHANGED bridgeVars
SolanaInitialize == Initialize("Solana")
SolayerInitialize == Initialize("Solayer")

\* Variant: every key is a transaction of its own.
AddEach(list, new) ==
    \E k \in DOMAIN GUARDIAN_KEYPAIRS :
        /\ GUARDIAN_KEYPAIRS[k] \notin ToSet(list)
        /\ new = Append(list, GUARDIAN_KEYPAIRS[k])

\* One add_guardian for every key: a key that is registered fails them all.
AddAll(list, new) ==
    /\ ToSet(list) \cap ToSet(GUARDIAN_KEYPAIRS) = {}
    /\ Len(list) + Len(GUARDIAN_KEYPAIRS) <= 15
    /\ new = list \o GUARDIAN_KEYPAIRS

SolanaAddGuardian ==
    /\ On("Solana")
    /\ AddAll(sol_guardians, sol_guardians')
    /\ UNCHANGED <<sol_threshold, sol_verified, sol_now, attested, sol_disturbed,
                   solanaProgram, solayerVars>>
SolayerAddGuardian ==
    /\ On("Solayer")
    /\ AddAll(lay_guardians, lay_guardians')
    /\ UNCHANGED <<lay_threshold, lay_verified, lay_now, attested, lay_disturbed,
                   solayerProgram, solanaVars>>

\* A list without a key it has, and what remove_guardian, called for one key
\* after the other, makes of a list: left[k] once the first k are out.
Without(list, key) == RemoveAt(list, CHOOSE i \in DOMAIN list : list[i] = key)
RemovingEach(list) ==
    LET left[k \in 0..Len(RemovedKeypairs)] ==
            IF k = 0 THEN list ELSE Without(left[k - 1], RemovedKeypairs[k])
    IN  left

\* A key that is missing fails them all, and so does the threshold once too
\* few are left.
RemoveAll(list, thr, new) ==
    LET left == RemovingEach(list) IN
    /\ \A k \in DOMAIN RemovedKeypairs : RemovedKeypairs[k] \in ToSet(left[k - 1])
    /\ Len(list) - Len(RemovedKeypairs) >= thr
    /\ new = left[Len(RemovedKeypairs)]

\* Records with an index at or behind the first guardian removed.
Moved(list, verified) ==
    {h \in DOMAIN verified :
        \E k \in DOMAIN verified[h].pubkey_index, i \in DOMAIN list :
            list[i] \in ToSet(RemovedKeypairs) /\ verified[h].pubkey_index[k] + 1 >= i}

SolanaRemoveGuardian ==
    /\ On("Solana")
    /\ RemoveAll(sol_guardians, sol_threshold, sol_guardians')
    /\ sol_disturbed' = sol_disturbed \cup Moved(sol_guardians, sol_verified)
    /\ UNCHANGED <<sol_threshold, sol_verified, sol_now, attested, solanaProgram,
                   solayerVars>>
SolayerRemoveGuardian ==
    /\ On("Solayer")
    /\ RemoveAll(lay_guardians, lay_threshold, lay_guardians')
    /\ lay_disturbed' = lay_disturbed \cup Moved(lay_guardians, lay_verified)
    /\ UNCHANGED <<lay_threshold, lay_verified, lay_now, attested, solayerProgram,
                   solanaVars>>

SolanaUpdateGuardianThreshold ==
    /\ On("Solana")
    /\ Solana!UpdateGuardianThreshold(GUARDIAN_THRESHOLD)
    /\ UNCHANGED <<solanaProgram, solayerVars>>
SolayerUpdateGuardianThreshold ==
    /\ On("Solayer")
    /\ Solayer!UpdateGuardianThreshold(GUARDIAN_THRESHOLD)
    /\ UNCHANGED <<solayerProgram, solanaVars>>

\* Variant: the instruction that goes back is left out.
SolanaUpdateFeeVaultOneWay ==
    /\ On("Solana")
    /\ Solana!UpdateFeeVault(sol_handler.manager, SOLANA_MINT_FOR_DELETE)
    /\ UNCHANGED solayerVars

\* To the vault for deletion and back, in one transaction.
SolanaUpdateFeeVault ==
    /\ On("Solana")
    /\ sol_handler.fee_vault # SOLANA_MINT_FOR_DELETE
    /\ sol_handler' = [sol_handler EXCEPT !.fee_vault = FEE_VAULT]
    /\ UNCHANGED <<sol_guardians, sol_threshold, sol_verified, sol_now, attested,
                   sol_disturbed, sol_epoch, sol_token_info, sol_tokens, sol_lamports,
                   sol_source_proofs, sol_target_proofs, sol_requests, sol_payouts,
                   sol_audit, solayerVars>>

\* The source mint is SOLANA_MINT's key file; the script as it stands makes a
\* new key in its place, of a token nobody has.
SolayerAddToken ==
    /\ On("Solayer")
    /\ Solayer!AddToken(lay_handler.operator, SOLANA_MINT)
    /\ UNCHANGED solanaVars

SolanaPauseToken ==
    /\ On("Solana")
    /\ Solana!PauseToken(sol_handler.manager, SOLANA_MINT)
    /\ UNCHANGED solayerVars
SolanaUnpauseToken ==
    /\ On("Solana")
    /\ Solana!UnpauseToken(sol_handler.manager, SOLANA_MINT)
    /\ UNCHANGED solayerVars
SolayerUnpauseToken ==
    /\ On("Solayer")
    /\ Solayer!UnpauseToken(lay_handler.manager, SOLAYER_MINT)
    /\ UNCHANGED solanaVars

-----------------------------------------------------------------------------
(***************************************************************************)
(* Bridging: a source-chain call, and what answers the n-th of them.       *)
(***************************************************************************)
SolanaBridgeAssetSourceChain(proof_nonce) ==
    /\ On("Solana")
    /\ Solana!BridgeAssetSourceChain(
           SENDER, proof_nonce, SOLANA_MINT, BRIDGE_AMOUNT["solana/bridge_asset_source_chain"],
           RECIPIENT, MintThere(SOLANA_MINT),
           ADDITIONAL_SOL_GAS, <<"Solana", sol_handler.nonce>>)
    /\ UNCHANGED solayerVars
SolayerBridgeAssetSourceChain(proof_nonce) ==
    /\ On("Solayer")
    /\ Solayer!BridgeAssetSourceChain(
           RECIPIENT, proof_nonce, SOLAYER_MINT, BRIDGE_AMOUNT["solayer/bridge_asset_source_chain"],
           SENDER, MintThere(SOLAYER_MINT), 0, <<"Solayer", lay_handler.nonce>>)
    /\ UNCHANGED solanaVars

\* The recipient of SOL is a new key on each run.
SolanaBridgeAssetSourceChainSol(proof_nonce, recipient) ==
    /\ On("Solana")
    /\ Solana!BridgeAssetSourceChainSol(
           SENDER, proof_nonce, BRIDGE_AMOUNT["solana/bridge_asset_source_chain_sol"],
           recipient, <<"Solana", sol_handler.nonce>>)
    /\ UNCHANGED solayerVars
SolayerBridgeAssetSourceChainSol(proof_nonce, recipient) ==
    /\ On("Solayer")
    /\ Solayer!BridgeAssetSourceChainSol(
           SENDER, proof_nonce, BRIDGE_AMOUNT["solayer/bridge_asset_source_chain_sol"],
           recipient, <<"Solayer", lay_handler.nonce>>)
    /\ UNCHANGED solanaVars

\* What the operator has copied into the scripts for the n-th call to a chain.
CallToSolayer(n) == PayoutOf(sol_requests[n])
CallToSolana(n) == PayoutOf(lay_requests[n])

SolanaVerifySignature(n) ==
    /\ On("Solana")
    /\ Solana!VerifySignature(GetMessageHash(CallToSolana(n)), SignerIndexLiterals, "this")
    /\ UNCHANGED <<solanaProgram, solayerVars>>
SolayerVerifySignature(n) ==
    /\ On("Solayer")
    /\ Solayer!VerifySignature(GetMessageHash(CallToSolayer(n)), SignerIndexLiterals, "this")
    /\ UNCHANGED <<solayerProgram, solanaVars>>
SolayerVerifySignatureBridgeSol(n) ==
    /\ On("Solayer")
    /\ Solayer!VerifySignature(GetMessageHashForBridgeAssetTargetChainSol(CallToSolayer(n)),
                               SignerIndexLiterals, "this")
    /\ UNCHANGED <<solayerProgram, solanaVars>>

\* The mint is passed for the source mint as well.
SolayerBridgeAssetTargetChain(n) ==
    LET p == CallToSolayer(n) IN
    /\ On("Solayer")
    /\ Solayer!BridgeAssetTargetChain(lay_handler.operator, GetMessageHash(p),
                                      [p EXCEPT !.source_mint = p.mint])
    /\ UNCHANGED solanaVars
SolayerBridgeAssetTargetChainSol(n) ==
    LET p == CallToSolayer(n) IN
    /\ On("Solayer")
    /\ Solayer!BridgeAssetTargetChainSol(
           lay_handler.operator, GetMessageHashForBridgeAssetTargetChainSol(p), p)
    /\ UNCHANGED solanaVars
-----------------------------------------------------------------------------
(***************************************************************************)
(* Running a script, and what becomes of its transaction.                  *)
(***************************************************************************)

\* The calls a script can be about.
CallsOf(script) ==
    CASE script = "solana/verify_signature" ->
             {n \in DOMAIN lay_requests : lay_requests[n].kind = "token"}
      [] script \in {"solayer/verify_signature", "solayer/bridge_asset_target_chain"} ->
             {n \in DOMAIN sol_requests : sol_requests[n].kind = "token"}
      [] OTHER -> {n \in DOMAIN sol_requests : sol_requests[n].kind = "sol"}

\* The transactions the scripts can be made to send.
Transactions ==
    {Tx(s, <<>>) : s \in Script \ (SourceScript \cup CallScript)} \cup
    {Tx(s, <<n>>) : s \in Script \cap TokenSource, n \in BridgeProofNonce} \cup
    {Tx(s, <<n, u>>) : s \in Script \cap SolSource, n \in BridgeProofNonce, u \in User} \cup
    UNION {{Tx(s, <<n>>) : n \in CallsOf(s)} : s \in Script \cap CallScript}

\* The verify_signature scripts sign before they send.
Sign(tx) ==
    IF tx.script \in {"solayer/verify_signature", "solayer/verify_signature_bridge_sol"}
    THEN attested' = Signed(ScriptHash(CallToSolayer(tx.args[1])))
    ELSE IF tx.script = "solana/verify_signature"
    THEN attested' = Signed(ScriptHash(CallToSolana(tx.args[1])))
    ELSE UNCHANGED attested

\* A script is run again when its last transaction is over: a second copy
\* under way would be as good as one sent later.
Run(tx) ==
    /\ tx \in Transactions \ sent
    /\ \A t \in sent :
           t.script \in Awaited => (t.script \in SourceScript) # (tx.script \in SourceScript)
    /\ Cardinality(sent) < MaxSent
    /\ sent' = sent \cup {tx}
    /\ Sign(tx)
    /\ UNCHANGED <<up, sol_guardians, sol_threshold, sol_verified, sol_now, sol_disturbed,
                   solanaProgram, lay_guardians, lay_threshold, lay_verified, lay_now,
                   lay_disturbed, solayerProgram>>

Execute(script, args) ==
    CASE script = "solana/initialize" -> SolanaInitialize
      [] script = "solana/add_guardian" -> SolanaAddGuardian
      [] script = "solana/remove_guardian" -> SolanaRemoveGuardian
      [] script = "solana/update_guardian_threshold" -> SolanaUpdateGuardianThreshold
      [] script = "solana/update_fee_vault" -> SolanaUpdateFeeVault
      [] script = "solana/pause_token" -> SolanaPauseToken
      [] script = "solana/unpause_token" -> SolanaUnpauseToken
      [] script = "solana/bridge_asset_source_chain" -> SolanaBridgeAssetSourceChain(args[1])
      [] script = "solana/bridge_asset_source_chain_sol" ->
             SolanaBridgeAssetSourceChainSol(args[1], args[2])
      [] script = "solana/verify_signature" -> SolanaVerifySignature(args[1])
      [] script = "solayer/initialize" -> SolayerInitialize
      [] script = "solayer/add_guardian" -> SolayerAddGuardian
      [] script = "solayer/remove_guardian" -> SolayerRemoveGuardian
      [] script = "solayer/update_guardian_threshold" -> SolayerUpdateGuardianThreshold
      [] script = "solayer/add_token" -> SolayerAddToken
      [] script = "solayer/unpause_token" -> SolayerUnpauseToken
      [] script = "solayer/bridge_asset_source_chain" -> SolayerBridgeAssetSourceChain(args[1])
      [] script = "solayer/bridge_asset_source_chain_sol" ->
             SolayerBridgeAssetSourceChainSol(args[1], args[2])
      [] script = "solayer/verify_signature" -> SolayerVerifySignature(args[1])
      [] script = "solayer/verify_signature_bridge_sol" ->
             SolayerVerifySignatureBridgeSol(args[1])
      [] script = "solayer/bridge_asset_target_chain" -> SolayerBridgeAssetTargetChain(args[1])
      [] script = "solayer/bridge_asset_target_chain_sol" ->
             SolayerBridgeAssetTargetChainSol(args[1])

Land(tx) ==
    /\ tx \in sent
    /\ sent' = sent \ {tx}
    /\ Execute(tx.script, tx.args)

\* External: the transaction is lost, expires, or fails and changes nothing.
Drop(tx) ==
    /\ tx \in sent
    /\ sent' = sent \ {tx}
    /\ UNCHANGED <<bridgeVars, up>>

\* Two program accounts nobody has initialised yet.
ScriptsInit ==
    /\ Solana!Init /\ Solayer!Init
    /\ sol_handler.fee_vault = FEE_VAULT /\ lay_handler.fee_vault = FEE_VAULT
    /\ up = {}
    /\ sent = {}

AnyRun == \E tx \in Transactions : Run(tx)
AnyLand == \E tx \in sent : Land(tx)
AnyDrop == \E tx \in sent : Drop(tx)

ScriptsNext == AnyRun \/ AnyLand \/ AnyDrop

ScriptsSpec == ScriptsInit /\ [][ScriptsNext]_scriptsVars

\* The operator does not wait for one transaction for ever: it expires.
OperatorWaitsNoMore == \E tx \in sent : tx.script \in Awaited \ SourceScript /\ Drop(tx)

\* Room for another transaction comes again and again.  The operator runs the
\* scripts in Repeated again and again, as there is room, and none fails to be
\* executed for ever when it could be.
RunAndLand(tx) == SF_scriptsVars(Run(tx)) /\ SF_scriptsVars(Land(tx))
ScriptsFairSpec ==
    /\ ScriptsSpec
    /\ WF_scriptsVars(AnyDrop) /\ WF_scriptsVars(OperatorWaitsNoMore)
    /\ \A s \in Repeated \ CallScript : RunAndLand(Tx(s, <<>>))
    /\ \A s \in Repeated \cap CallScript, n \in 1..MaxNonce : RunAndLand(Tx(s, <<n>>))

-----------------------------------------------------------------------------
GuardiansLeft == RemovingEach(GUARDIAN_KEYPAIRS)[Len(RemovedKeypairs)]

\* However often the scripts are run and in whatever order their transactions
\* are executed, a guardian list is empty, as add_guardian has it, or that
\* without what remove_guardian takes out: the index literals of the
\* verify_signature scripts name the guardians they sign for.
ListsAsScripted ==
    \A list \in {sol_guardians, lay_guardians} :
        list \in {<<>>, GUARDIAN_KEYPAIRS, GuardiansLeft}

\* No user ever pays a fee to the vault update_fee_vault passes through.
FeesReachVault == sol_lamports[SOLANA_MINT_FOR_DELETE] = 0

\* Both deployments are set up as the scripts say.
SetUp ==
    /\ up = {"Solana", "Solayer"}
    /\ sol_guardians = GuardiansLeft /\ lay_guardians = GuardiansLeft
    /\ sol_threshold = GUARDIAN_THRESHOLD /\ lay_threshold = GUARDIAN_THRESHOLD

\* Once the bridge is set up, what the scripts have called for in SOL on Solana
\* is paid out by them on Solayer, with signatures and payouts lost, repeated
\* and out of order, and all the other scripts run in between.
SolFlowPaid ==
    \A n \in 1..MaxNonce :
        (SetUp /\ n \in DOMAIN sol_requests /\ sol_requests[n].kind = "sol")
            ~> n \in Answered(sol_requests, lay_payouts)

\* README, Test Flow: verify_signature and then bridge_asset_target_chain on
\* Solayer finish a bridge_asset_source_chain on Solana, in whatever mint.
TokenFlowPaid ==
    \A n \in 1..MaxNonce :
        (SetUp /\ n \in DOMAIN sol_requests /\ sol_requests[n].kind = "token")
            ~> \E i \in DOMAIN lay_payouts : lay_payouts[i].tx = sol_requests[n].tx

=============================================================================
