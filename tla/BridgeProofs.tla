---------------------------- MODULE BridgeProofs ----------------------------
(***************************************************************************)
(* Proofs about the whole bridge, for any number of users, guardians,      *)
(* tokens and calls: the invariant BInv(F) of its two deployments, where F *)
(* are guardians who may sign anything; that operators pay out nothing but *)
(* what a user called for, once; and that what is wrapped, or on its way,  *)
(* is held on the other chain.                                             *)
(*                                                                         *)
(* SP and LP are the proofs about the two deployments: what                *)
(* DeploymentProofs shows of a deployment holds of Solana and of Solayer   *)
(* once every step of the bridge is known to be a step of each.            *)
(***************************************************************************)
EXTENDS Bridge, SumProofs, SequenceTheorems, FunctionTheorems

\* Everything that is called for, or that an operator may submit; the fields
\* an operator cannot choose in a payout of SOL are fixed.
Token == Asset \cup {Solana!WrappedMint(m) : m \in Asset}
AnySourceTx == {"Solana", "Solayer"} \X Nat

TokenCall == [kind : {"token"}, sender : User, recipient : User, source_mint : Token,
              mint : Token, amount : Nat, nonce : Nat, tx : AnySourceTx, gas : Nat]
SolCall == [kind : {"sol"}, sender : User, recipient : User, source_mint : {SOL},
            mint : {SOL}, amount : Nat, nonce : Nat, tx : AnySourceTx, gas : {0}]
AnyCall == TokenCall \cup SolCall

AnyHash ==
    (User \X User \X Token \X Token \X Nat \X Nat \X AnySourceTx \X Nat)
        \cup (User \X User \X {SOL} \X Nat \X Nat \X AnySourceTx)

SP == INSTANCE DeploymentProofs WITH
    chain <- "Solana", LocalMint <- SolanaMint, RemoteMint <- SolayerMint,
    InitialLamports <- SolanaLamports, Payout <- AnyCall, Message <- AnyHash,
    MAX_GUARDIAN_COUNT <- 15, MAX_GUARDIAN_SIGNATURES <- 10,
    InstantBridgeCap <- {}, MaxTime <- 0, MaxEpoch <- 0,
    guardians <- sol_guardians, threshold <- sol_threshold, verified <- sol_verified,
    now <- sol_now, disturbed <- sol_disturbed,
    handler <- sol_handler, epoch <- sol_epoch, token_info <- sol_token_info,
    tokens <- sol_tokens, lamports <- sol_lamports, source_proofs <- sol_source_proofs,
    target_proofs <- sol_target_proofs, requests <- sol_requests,
    payouts <- sol_payouts, audit <- sol_audit

LP == INSTANCE DeploymentProofs WITH
    chain <- "Solayer", LocalMint <- SolayerMint, RemoteMint <- SolanaMint,
    InitialLamports <- 0, Payout <- AnyCall, Message <- AnyHash,
    MAX_GUARDIAN_COUNT <- 15, MAX_GUARDIAN_SIGNATURES <- 10,
    InstantBridgeCap <- {}, MaxTime <- 0, MaxEpoch <- 0,
    guardians <- lay_guardians, threshold <- lay_threshold, verified <- lay_verified,
    now <- lay_now, disturbed <- lay_disturbed,
    handler <- lay_handler, epoch <- lay_epoch, token_info <- lay_token_info,
    tokens <- lay_tokens, lamports <- lay_lamports, source_proofs <- lay_source_proofs,
    target_proofs <- lay_target_proofs, requests <- lay_requests,
    payouts <- lay_payouts, audit <- lay_audit

-----------------------------------------------------------------------------
(***************************************************************************)
(* The assumptions of the deployments follow from those of the bridge.     *)
(***************************************************************************)

\* The deployment on Solana meets the assumptions of the proofs about a deployment.
LEMMA SolanaAssumptions ==
    /\ SP!CountAssumption /\ SP!TimeAssumption /\ SP!ChainAssumption
    /\ SP!AmountAssumption /\ SP!PriceAssumption /\ SP!PayoutAssumption
    /\ SP!MintAssumption /\ SP!KeyAssumption /\ SP!InstructionIndexAssumption
<1>1. SP!AmountAssumption
  BY DeploymentAssumption DEF Solana!AmountAssumption, SP!AmountAssumption
<1>2. SP!PriceAssumption
  BY DeploymentAssumption DEF Solana!PriceAssumption, SP!PriceAssumption
<1>3. SP!PayoutAssumption
  BY DEF SP!PayoutAssumption, AnyCall, TokenCall, SolCall
<1>4. SP!MintAssumption
  BY TokenAssumption DEF SP!MintAssumption, SP!WrappedMint, Solana!WrappedMint, Asset
<1>5. SP!KeyAssumption
  <2>1. SOL \notin SP!Mint
    BY TokenAssumption DEF SP!Mint, SP!WrappedMint, Solana!WrappedMint, Asset
  <2>2. QED
    BY <2>1, DeploymentAssumption
       DEF Solana!KeyAssumption, SP!KeyAssumption, Solana!VAULT, SP!VAULT, Solana!HANDLER,
           SP!HANDLER, Solana!IsFiniteSet, SP!IsFiniteSet
<1>6. SP!InstructionIndexAssumption
  BY DeploymentAssumption
     DEF Solana!InstructionIndexAssumption, SP!InstructionIndexAssumption
<1>7. QED
  BY <1>1, <1>2, <1>3, <1>4, <1>5, <1>6
     DEF SP!CountAssumption, SP!TimeAssumption, SP!ChainAssumption, SP!UNSET_THRESHOLD

\* The deployment on Solayer meets the assumptions of the proofs about a deployment.
LEMMA SolayerAssumptions ==
    /\ LP!CountAssumption /\ LP!TimeAssumption /\ LP!ChainAssumption
    /\ LP!AmountAssumption /\ LP!PriceAssumption /\ LP!PayoutAssumption
    /\ LP!MintAssumption /\ LP!KeyAssumption /\ LP!InstructionIndexAssumption
<1>1. LP!AmountAssumption
  BY DeploymentAssumption DEF Solana!AmountAssumption, LP!AmountAssumption
<1>2. LP!PriceAssumption
  BY DeploymentAssumption DEF Solana!PriceAssumption, LP!PriceAssumption
<1>3. LP!PayoutAssumption
  BY DEF LP!PayoutAssumption, AnyCall, TokenCall, SolCall
<1>4. LP!MintAssumption
  BY TokenAssumption DEF LP!MintAssumption, LP!WrappedMint, Solana!WrappedMint, Asset
<1>5. LP!KeyAssumption
  <2>1. SOL \notin LP!Mint
    BY TokenAssumption DEF LP!Mint, LP!WrappedMint, Solana!WrappedMint, Asset
  <2>2. QED
    BY <2>1, DeploymentAssumption
       DEF Solana!KeyAssumption, LP!KeyAssumption, Solana!VAULT, LP!VAULT, Solana!HANDLER,
           LP!HANDLER, Solana!IsFiniteSet, LP!IsFiniteSet
<1>6. LP!InstructionIndexAssumption
  BY DeploymentAssumption
     DEF Solana!InstructionIndexAssumption, LP!InstructionIndexAssumption
<1>7. QED
  BY <1>1, <1>2, <1>3, <1>4, <1>5, <1>6
     DEF LP!CountAssumption, LP!TimeAssumption, LP!ChainAssumption, LP!UNSET_THRESHOLD

-----------------------------------------------------------------------------
(***************************************************************************)
(* What the bridge does on Solana are steps of the deployment there.      *)
(***************************************************************************)

\* The helpers mean the same for the model of Solana and for the proofs about it.
LEMMA SolanaOperators ==
    /\ \A S : Solana!Cardinality(S) = SP!Cardinality(S)
    /\ \A s : Solana!IsInjective(s) <=> SP!IsInjective(s)
    /\ \A s, x : Solana!Contains(s, x) <=> SP!Contains(s, x)
    /\ Solana!Mint = SP!Mint /\ Solana!TargetMint = SP!TargetMint
    /\ \A p : Solana!MessageHash(p) = SP!MessageHash(p)
  BY DEF Solana!Cardinality, SP!Cardinality, Solana!IsInjective, SP!IsInjective,
         Solana!Contains, SP!Contains, Solana!Mint, SP!Mint, Solana!WrappedMint,
         SP!WrappedMint, Solana!TargetMint, SP!TargetMint, Solana!MessageHash, SP!MessageHash

\* A call in a token on Solana is one of the deployment that is proved about.
LEMMA SolanaTokenCall ==
    ASSUME NEW s, NEW n, NEW m, NEW a, NEW r, NEW tm, NEW g, NEW tx,
           Solana!BridgeAssetSourceChain(s, n, m, a, r, tm, g, tx)
    PROVE  SP!BridgeAssetSourceChain(s, n, m, a, r, tm, g, tx)
  BY DEF Solana!BridgeAssetSourceChain, Solana!IssueBridgeProof, Solana!RegisterNative,
         Solana!TakeSol, Solana!Move, Solana!Put, Solana!HANDLER, Solana!VAULT,
         Solana!SourceHash, Solana!guardianVars, SP!BridgeAssetSourceChain,
         SP!IssueBridgeProof, SP!RegisterNative, SP!TakeSol, SP!Move, SP!Put, SP!HANDLER,
         SP!VAULT, SP!SourceHash, SP!guardianVars

\* A call in SOL on Solana is one of the deployment that is proved about.
LEMMA SolanaSolCall ==
    ASSUME NEW s, NEW n, NEW a, NEW r, NEW tx,
           Solana!BridgeAssetSourceChainSol(s, n, a, r, tx)
    PROVE  SP!BridgeAssetSourceChainSol(s, n, a, r, tx)
  BY DEF Solana!BridgeAssetSourceChainSol, Solana!IssueBridgeProof, Solana!TakeSol,
         Solana!Move, Solana!Put, Solana!HANDLER, Solana!SourceHash, Solana!guardianVars,
         SP!BridgeAssetSourceChainSol, SP!IssueBridgeProof, SP!TakeSol,
         SP!Move, SP!Put, SP!HANDLER, SP!SourceHash, SP!guardianVars

\* Either kind of call on Solana is a step of the deployment that is proved about.
LEMMA SolanaCalls == Solana!BridgeToken \/ Solana!BridgeSol => SP!BridgeToken \/ SP!BridgeSol
<1>1. \A s : Solana!SourceTx(s) = SP!SourceTx(s)
  BY SolanaOperators DEF Solana!SourceTx, SP!SourceTx
<1>2. Solana!BridgeToken => SP!BridgeToken
  BY <1>1, SolanaOperators, SolanaTokenCall DEF Solana!BridgeToken, SP!BridgeToken
<1>3. Solana!BridgeSol => SP!BridgeSol
  BY <1>1, SolanaSolCall DEF Solana!BridgeSol, SP!BridgeSol
<1>4. QED
  BY <1>2, <1>3

\* Checking and recording a payout on Solana is the same operation in the proofs.
LEMMA SolanaAccept ==
    ASSUME NEW signer, NEW hash, NEW p, Solana!AcceptPayout(signer, hash, p)
    PROVE  SP!AcceptPayout(signer, hash, p)
  BY DEF Solana!AcceptPayout, Solana!ChargeInstantCap, Solana!IsCapped, Solana!DollarValue,
         Solana!TokenDollars, Solana!SolDollars, Solana!CapRemained, Solana!WithinCap,
         Solana!Charged,
         Solana!AuditPayout, Solana!ConsumeSignatures, Solana!HasQuorum, Solana!PubkeyIndex,
         Solana!MessageHash,
         Solana!RecordPayout, Solana!Put,
         SP!AcceptPayout, SP!ChargeInstantCap, SP!IsCapped, SP!DollarValue,
         SP!TokenDollars, SP!SolDollars, SP!CapRemained, SP!WithinCap, SP!Charged,
         SP!AuditPayout, SP!ConsumeSignatures, SP!HasQuorum, SP!PubkeyIndex, SP!MessageHash,
         SP!RecordPayout, SP!Put

\* A payout on Solana is a payout of the deployment that is proved about.
LEMMA SolanaPayouts ==
    ASSUME NEW signer, NEW hash, NEW p
    PROVE  /\ Solana!BridgeAssetTargetChain(signer, hash, p) =>
                  SP!BridgeAssetTargetChain(signer, hash, p)
           /\ Solana!BridgeAssetTargetChainSol(signer, hash, p) =>
                  SP!BridgeAssetTargetChainSol(signer, hash, p)
  BY SolanaAccept
     DEF Solana!BridgeAssetTargetChain, Solana!BridgeAssetTargetChainSol, Solana!PaySol,
         Solana!Move, Solana!HANDLER, Solana!VAULT, SP!BridgeAssetTargetChain,
         SP!BridgeAssetTargetChainSol, SP!PaySol, SP!Move, SP!HANDLER, SP!VAULT

\* A batch of one signature is among the batches of module Guardians.
LEMMA SolanaVerify ==
    ASSUME SP!TypeOK, NEW m \in AnyHash, NEW k \in DOMAIN sol_guardians,
           NEW at \in InstructionIndex, Solana!VerifySignature(m, <<k - 1>>, at)
    PROVE  SP!AnyVerifySignature
<1>1. SP!VerifySignature(m, <<k - 1>>, at)
  BY SolanaOperators
     DEF Solana!VerifySignature, Solana!NamesGuardians, Solana!VerifyEd25519,
         Solana!GuardianAt, Solana!RecordSignatures, Solana!DisturbRecord, Solana!NewSigners,
         Solana!PubkeyIndex, Solana!FitsRecord,
         SP!VerifySignature, SP!NamesGuardians, SP!VerifyEd25519, SP!GuardianAt,
         SP!RecordSignatures, SP!DisturbRecord, SP!NewSigners, SP!PubkeyIndex,
         SP!FitsRecord
<1>2. k \in 1..15
  BY LenProperties DEF SP!TypeOK
<1>3. <<k - 1>> \in [1..1 -> SP!Index]
  BY <1>2 DEF SP!Index
<1>4. <<k - 1>> \in SP!SignerIndexes
  BY <1>3 DEF SP!SignerIndexes
<1>5. QED
  BY <1>1, <1>4 DEF SP!AnyVerifySignature

\* Registering a token on Solana is a step of the deployment that is proved about.
LEMMA SolanaRegister == Solana!RegisterToken => SP!RegisterToken
  BY DEF Solana!RegisterToken, Solana!AddToken, Solana!WrappedMint, Solana!Put,
         Solana!OtherChain, Solana!guardianVars, SP!RegisterToken, SP!AddToken, SP!WrappedMint,
         SP!Put, SP!OtherChain, SP!guardianVars

\* Solana starts as the deployment that is proved about starts.
LEMMA SolanaInit == Solana!ProgramInit => SP!ProgramInit
  BY SolanaOperators
     DEF Solana!ProgramInit, Solana!HANDLER, Solana!VAULT, SP!ProgramInit, SP!HANDLER, SP!VAULT

-----------------------------------------------------------------------------
(***************************************************************************)
(* What the bridge does on Solayer are steps of the deployment there.      *)
(***************************************************************************)

\* The helpers mean the same for the model of Solayer and for the proofs about it.
LEMMA SolayerOperators ==
    /\ \A S : Solayer!Cardinality(S) = LP!Cardinality(S)
    /\ \A s : Solayer!IsInjective(s) <=> LP!IsInjective(s)
    /\ \A s, x : Solayer!Contains(s, x) <=> LP!Contains(s, x)
    /\ Solayer!Mint = LP!Mint /\ Solayer!TargetMint = LP!TargetMint
    /\ \A p : Solayer!MessageHash(p) = LP!MessageHash(p)
  BY DEF Solayer!Cardinality, LP!Cardinality, Solayer!IsInjective, LP!IsInjective,
         Solayer!Contains, LP!Contains, Solayer!Mint, LP!Mint, Solayer!WrappedMint,
         LP!WrappedMint, Solayer!TargetMint, LP!TargetMint, Solayer!MessageHash, LP!MessageHash

\* A call in a token on Solayer is one of the deployment that is proved about.
LEMMA SolayerTokenCall ==
    ASSUME NEW s, NEW n, NEW m, NEW a, NEW r, NEW tm, NEW g, NEW tx,
           Solayer!BridgeAssetSourceChain(s, n, m, a, r, tm, g, tx)
    PROVE  LP!BridgeAssetSourceChain(s, n, m, a, r, tm, g, tx)
  BY DEF Solayer!BridgeAssetSourceChain, Solayer!IssueBridgeProof, Solayer!RegisterNative,
         Solayer!TakeSol, Solayer!Move, Solayer!Put, Solayer!HANDLER, Solayer!VAULT,
         Solayer!SourceHash, Solayer!guardianVars, LP!BridgeAssetSourceChain,
         LP!IssueBridgeProof, LP!RegisterNative, LP!TakeSol, LP!Move, LP!Put, LP!HANDLER,
         LP!VAULT, LP!SourceHash, LP!guardianVars

\* A call in SOL on Solayer is one of the deployment that is proved about.
LEMMA SolayerSolCall ==
    ASSUME NEW s, NEW n, NEW a, NEW r, NEW tx,
           Solayer!BridgeAssetSourceChainSol(s, n, a, r, tx)
    PROVE  LP!BridgeAssetSourceChainSol(s, n, a, r, tx)
  BY DEF Solayer!BridgeAssetSourceChainSol, Solayer!IssueBridgeProof, Solayer!TakeSol,
         Solayer!Move, Solayer!Put, Solayer!HANDLER, Solayer!SourceHash, Solayer!guardianVars,
         LP!BridgeAssetSourceChainSol, LP!IssueBridgeProof, LP!TakeSol,
         LP!Move, LP!Put, LP!HANDLER, LP!SourceHash, LP!guardianVars

\* Either kind of call on Solayer is a step of the deployment that is proved about.
LEMMA SolayerCalls == Solayer!BridgeToken \/ Solayer!BridgeSol => LP!BridgeToken \/ LP!BridgeSol
<1>1. \A s : Solayer!SourceTx(s) = LP!SourceTx(s)
  BY SolayerOperators DEF Solayer!SourceTx, LP!SourceTx
<1>2. Solayer!BridgeToken => LP!BridgeToken
  BY <1>1, SolayerOperators, SolayerTokenCall DEF Solayer!BridgeToken, LP!BridgeToken
<1>3. Solayer!BridgeSol => LP!BridgeSol
  BY <1>1, SolayerSolCall DEF Solayer!BridgeSol, LP!BridgeSol
<1>4. QED
  BY <1>2, <1>3

\* Checking and recording a payout on Solayer is the same operation in the proofs.
LEMMA SolayerAccept ==
    ASSUME NEW signer, NEW hash, NEW p, Solayer!AcceptPayout(signer, hash, p)
    PROVE  LP!AcceptPayout(signer, hash, p)
  BY DEF Solayer!AcceptPayout, Solayer!ChargeInstantCap, Solayer!IsCapped, Solayer!DollarValue,
         Solayer!TokenDollars, Solayer!SolDollars, Solayer!CapRemained, Solayer!WithinCap,
         Solayer!Charged,
         Solayer!AuditPayout, Solayer!ConsumeSignatures, Solayer!HasQuorum,
         Solayer!PubkeyIndex, Solayer!MessageHash,
         Solayer!RecordPayout, Solayer!Put,
         LP!AcceptPayout, LP!ChargeInstantCap, LP!IsCapped, LP!DollarValue,
         LP!TokenDollars, LP!SolDollars, LP!CapRemained, LP!WithinCap, LP!Charged,
         LP!AuditPayout, LP!ConsumeSignatures, LP!HasQuorum, LP!PubkeyIndex, LP!MessageHash,
         LP!RecordPayout, LP!Put

\* A payout on Solayer is a payout of the deployment that is proved about.
LEMMA SolayerPayouts ==
    ASSUME NEW signer, NEW hash, NEW p
    PROVE  /\ Solayer!BridgeAssetTargetChain(signer, hash, p) =>
                  LP!BridgeAssetTargetChain(signer, hash, p)
           /\ Solayer!BridgeAssetTargetChainSol(signer, hash, p) =>
                  LP!BridgeAssetTargetChainSol(signer, hash, p)
  BY SolayerAccept
     DEF Solayer!BridgeAssetTargetChain, Solayer!BridgeAssetTargetChainSol, Solayer!PaySol,
         Solayer!Move, Solayer!HANDLER, Solayer!VAULT, LP!BridgeAssetTargetChain,
         LP!BridgeAssetTargetChainSol, LP!PaySol, LP!Move, LP!HANDLER, LP!VAULT

\* A batch of one signature is among the batches of module Guardians.
LEMMA SolayerVerify ==
    ASSUME LP!TypeOK, NEW m \in AnyHash, NEW k \in DOMAIN lay_guardians,
           NEW at \in InstructionIndex, Solayer!VerifySignature(m, <<k - 1>>, at)
    PROVE  LP!AnyVerifySignature
<1>1. LP!VerifySignature(m, <<k - 1>>, at)
  BY SolayerOperators
     DEF Solayer!VerifySignature, Solayer!NamesGuardians, Solayer!VerifyEd25519,
         Solayer!GuardianAt, Solayer!RecordSignatures, Solayer!DisturbRecord, Solayer!NewSigners,
         Solayer!PubkeyIndex, Solayer!FitsRecord,
         LP!VerifySignature, LP!NamesGuardians, LP!VerifyEd25519, LP!GuardianAt,
         LP!RecordSignatures, LP!DisturbRecord, LP!NewSigners, LP!PubkeyIndex,
         LP!FitsRecord
<1>2. k \in 1..15
  BY LenProperties DEF LP!TypeOK
<1>3. <<k - 1>> \in [1..1 -> LP!Index]
  BY <1>2 DEF LP!Index
<1>4. <<k - 1>> \in LP!SignerIndexes
  BY <1>3 DEF LP!SignerIndexes
<1>5. QED
  BY <1>1, <1>4 DEF LP!AnyVerifySignature

\* Registering a token on Solayer is a step of the deployment that is proved about.
LEMMA SolayerRegister == Solayer!RegisterToken => LP!RegisterToken
  BY DEF Solayer!RegisterToken, Solayer!AddToken, Solayer!WrappedMint, Solayer!Put,
         Solayer!OtherChain, Solayer!guardianVars, LP!RegisterToken, LP!AddToken,
         LP!WrappedMint, LP!Put, LP!OtherChain, LP!guardianVars

\* Solayer starts as the deployment that is proved about starts.
LEMMA SolayerInit == Solayer!ProgramInit => LP!ProgramInit
  BY SolayerOperators
     DEF Solayer!ProgramInit, Solayer!HANDLER, Solayer!VAULT, LP!ProgramInit, LP!HANDLER,
         LP!VAULT

-----------------------------------------------------------------------------
(***************************************************************************)
(* Calls, their payouts and their hashes.                                  *)
(***************************************************************************)

\* What a deployment logs, and what a guardian signs for it.
LoggedCall ==
    [kind : {"token"}, sender : User, recipient : User, mint : Token, amount : Nat,
     gas : Nat, nonce : Nat, tx : AnySourceTx, proof_nonce : BridgeProofNonce]
        \cup
    [kind : {"sol"}, sender : User, recipient : User, mint : {SOL}, amount : Nat,
     gas : {0}, nonce : Nat, tx : AnySourceTx, proof_nonce : BridgeProofNonce]
HashOf(r) == Solana!MessageHash(PayoutOf(r))

\* Token and Asset, and where they are at home.
LEMMA MintFacts ==
    /\ \A m \in Asset : MintThere(m) \in Token \ Asset /\ MintThere(MintThere(m)) = m
    /\ \A m \in Token \ Asset : MintThere(m) \in Asset /\ MintThere(MintThere(m)) = m
    /\ MintThere(SOL) = SOL /\ SOL \notin Token
    /\ Asset \subseteq Token /\ SolanaMint \cup SolayerMint = Asset
    /\ SolanaMint \cap SolayerMint = {}
<1>1. \A m \in Asset : /\ MintThere(m) = <<"mint", m>>
                       /\ <<"mint", m>> \in Token
                       /\ <<"mint", m>> \notin Asset \cup {SOL}
  BY TokenAssumption DEF MintThere, Token, Solana!WrappedMint
<1>2. \A m \in Asset : MintThere(<<"mint", m>>) = m
  BY <1>1 DEF MintThere
<1>3. \A m \in Token \ Asset : \E s \in Asset : m = <<"mint", s>>
  BY DEF Token, Solana!WrappedMint
<1>4. SOL \notin Token
  BY <1>1, TokenAssumption DEF Token, Solana!WrappedMint
<1>5. MintThere(SOL) = SOL
  BY TokenAssumption DEF MintThere
<1>6. Asset \subseteq Token
  BY DEF Token
<1>7. \A m \in Asset : MintThere(m) \in Token \ Asset /\ MintThere(MintThere(m)) = m
  BY <1>1, <1>2
<1>8. \A m \in Token \ Asset : MintThere(m) \in Asset /\ MintThere(MintThere(m)) = m
  BY <1>1, <1>2, <1>3
<1>9. SolanaMint \cup SolayerMint = Asset /\ SolanaMint \cap SolayerMint = {}
  BY TokenAssumption DEF Asset
<1>10. QED
  BY <1>4, <1>5, <1>6, <1>7, <1>8, <1>9

\* The mints of either deployment.
LEMMA MintSides ==
    /\ SP!Mint \subseteq Token /\ LP!Mint \subseteq Token
    /\ \A m \in SolanaMint : m \in SP!Mint /\ MintThere(m) \in LP!Mint
    /\ \A m \in SolayerMint : m \in LP!Mint /\ MintThere(m) \in SP!Mint
    /\ \A m \in SP!Mint : MintThere(m) \in LP!Mint /\ (m \in Asset <=> m \in SolanaMint)
    /\ \A m \in LP!Mint : MintThere(m) \in SP!Mint /\ (m \in Asset <=> m \in SolayerMint)
  BY MintFacts, TokenAssumption
     DEF SP!Mint, LP!Mint, SP!WrappedMint, LP!WrappedMint, Solana!WrappedMint, Token, Asset,
         MintThere

\* What a deployment logs is of that type, and names the chain it is from.
LEMMA RequestTypes ==
    /\ \A r \in SP!Request :
           r \in LoggedCall /\ r.tx[1] = "Solana" /\ r.mint \in SP!Mint \cup {SOL}
    /\ \A r \in LP!Request :
           r \in LoggedCall /\ r.tx[1] = "Solayer" /\ r.mint \in LP!Mint \cup {SOL}
<1>1. Amount \subseteq Nat /\ Gas \subseteq Nat /\ MaxNonce \in Nat
  BY DeploymentAssumption DEF Solana!AmountAssumption
<1>2. SP!Mint \subseteq Token /\ LP!Mint \subseteq Token
  BY MintSides
<1>3. ASSUME NEW r \in SP!TokenRequest \cup SP!SolRequest
      PROVE  r \in LoggedCall /\ r.tx[1] = "Solana" /\ r.mint \in SP!Mint \cup {SOL}
  <2>1. \A t \in {"Solana"} \X (0..(MaxNonce - 1)) : t \in AnySourceTx /\ t[1] = "Solana"
    BY <1>1 DEF AnySourceTx
  <2>2. 0..(MaxNonce - 1) \subseteq Nat
    BY <1>1
  <2>3. CASE r \in SP!TokenRequest
    <3>1. r \in LoggedCall
      BY <1>1, <1>2, <2>1, <2>2, <2>3 DEF SP!TokenRequest, LoggedCall
    <3>2. r.tx[1] = "Solana" /\ r.mint \in SP!Mint
      BY <2>1, <2>3 DEF SP!TokenRequest
    <3>3. QED
      BY <3>1, <3>2
  <2>4. CASE r \in SP!SolRequest
    <3>1. r \in LoggedCall
      BY <1>1, <1>2, <2>1, <2>2, <2>4 DEF SP!SolRequest, LoggedCall
    <3>2. r.tx[1] = "Solana" /\ r.mint = SOL
      BY <2>1, <2>4 DEF SP!SolRequest
    <3>3. QED
      BY <3>1, <3>2
  <2>5. QED
    BY <2>3, <2>4
<1>4. ASSUME NEW r \in LP!TokenRequest \cup LP!SolRequest
      PROVE  r \in LoggedCall /\ r.tx[1] = "Solayer" /\ r.mint \in LP!Mint \cup {SOL}
  <2>1. \A t \in {"Solayer"} \X (0..(MaxNonce - 1)) : t \in AnySourceTx /\ t[1] = "Solayer"
    BY <1>1 DEF AnySourceTx
  <2>2. 0..(MaxNonce - 1) \subseteq Nat
    BY <1>1
  <2>3. CASE r \in LP!TokenRequest
    <3>1. r \in LoggedCall
      BY <1>1, <1>2, <2>1, <2>2, <2>3 DEF LP!TokenRequest, LoggedCall
    <3>2. r.tx[1] = "Solayer" /\ r.mint \in LP!Mint
      BY <2>1, <2>3 DEF LP!TokenRequest
    <3>3. QED
      BY <3>1, <3>2
  <2>4. CASE r \in LP!SolRequest
    <3>1. r \in LoggedCall
      BY <1>1, <1>2, <2>1, <2>2, <2>4 DEF LP!SolRequest, LoggedCall
    <3>2. r.tx[1] = "Solayer" /\ r.mint = SOL
      BY <2>1, <2>4 DEF LP!SolRequest
    <3>3. QED
      BY <3>1, <3>2
  <2>5. QED
    BY <2>3, <2>4
<1>5. QED
  BY <1>3, <1>4 DEF SP!Request, LP!Request

\* The payout that answers a logged call is one an operator may submit.
LEMMA PayoutIsCall == \A r \in LoggedCall : PayoutOf(r) \in AnyCall
  BY MintFacts DEF LoggedCall, PayoutOf, AnyCall, TokenCall, SolCall

\* Whatever an operator submits is a call of that type.
LEMMA OperatorsCalls ==
    ASSUME NEW log \in Seq(LoggedCall)
    PROVE  Calls(log) \subseteq AnyCall
<1>1. Amount \subseteq Nat
  BY DeploymentAssumption DEF Solana!AmountAssumption
<1>2. \A i \in DOMAIN log : PayoutOf(log[i]) \in AnyCall
  BY PayoutIsCall
<1>3. \A p \in AnyCall, u \in User, n \in Nat :
          [p EXCEPT !.recipient = u, !.amount = n] \in AnyCall
  BY DEF AnyCall, TokenCall, SolCall
<1> DEFINE Try(i, u, n) == [PayoutOf(log[i]) EXCEPT !.recipient = u, !.amount = n]
<1>4. \A i \in DOMAIN log, u \in User, n \in Amount : Try(i, u, n) \in AnyCall
  BY <1>1, <1>2, <1>3
<1>5. Calls(log) = {Try(i, u, n) : i \in DOMAIN log, u \in User, n \in Amount}
  BY DEF Calls
<1> HIDE DEF Try
<1>6. QED
  BY <1>4, <1>5

\* Guardians who sign a hash sign one call.
LEMMA HashIsInjective ==
    /\ \A p \in AnyCall : Solana!MessageHash(p) \in AnyHash
    /\ \A p, q \in AnyCall : Solana!MessageHash(p) = Solana!MessageHash(q) => p = q
<1>1. \A p \in TokenCall : Solana!MessageHash(p) =
          <<p.sender, p.recipient, p.source_mint, p.mint, p.amount, p.nonce, p.tx, p.gas>>
  BY DEF Solana!MessageHash, TokenCall
<1>2. \A p \in SolCall : Solana!MessageHash(p) =
          <<p.sender, p.recipient, SOL, p.amount, p.nonce, p.tx>>
  BY DEF Solana!MessageHash, SolCall
<1>3. \A p \in TokenCall : Solana!MessageHash(p) \in AnyHash
  BY <1>1 DEF TokenCall, AnyHash
<1>4. \A p \in SolCall : Solana!MessageHash(p) \in AnyHash
  BY <1>2 DEF SolCall, AnyHash
<1>5. ASSUME NEW p \in TokenCall, NEW q \in TokenCall,
             Solana!MessageHash(p) = Solana!MessageHash(q)
      PROVE  p = q
  BY <1>1, <1>5 DEF TokenCall
<1>6. ASSUME NEW p \in SolCall, NEW q \in SolCall,
             Solana!MessageHash(p) = Solana!MessageHash(q)
      PROVE  p = q
  BY <1>2, <1>6 DEF SolCall
<1>7. ASSUME NEW p \in TokenCall, NEW q \in SolCall
      PROVE  Solana!MessageHash(p) # Solana!MessageHash(q)
  <2>1. DOMAIN Solana!MessageHash(p) = 1..8
    BY <1>1
  <2>2. DOMAIN Solana!MessageHash(q) = 1..6
    BY <1>2
  <2>3. QED
    BY <2>1, <2>2
<1>8. QED
  BY <1>3, <1>4, <1>5, <1>6, <1>7 DEF AnyCall

-----------------------------------------------------------------------------
(***************************************************************************)
(* The inductive invariant.  F are guardians who may sign anything: fewer  *)
(* than the threshold.  The others have signed nothing but the payouts of  *)
(* calls that were made, on either chain; so while every record paid on is *)
(* undisturbed, behind every payout of a chain stands a call.              *)
(*                                                                         *)
(* Programs adds what the balances need: that it is a call of the other    *)
(* chain.  That follows while the bridge is Trusted.                       *)
(***************************************************************************)
Asked == ToSet(sol_requests) \cup ToSet(lay_requests)

SignedFor(F, signed, calls) ==
    \A g \in Guardian \ F : \A m \in signed[g] : \E r \in calls : m = HashOf(r)
PaysOnly(payouts, calls) ==
    \A i \in DOMAIN payouts : \E r \in calls : payouts[i] = PayoutOf(r)
PaidFor(requests, payouts) ==
    \A i \in DOMAIN payouts : \E j \in DOMAIN requests : payouts[i] = PayoutOf(requests[j])

\* What the balances and the logs need, whoever signs.
Programs ==
    /\ SP!DInv /\ LP!DInv
    /\ PaidFor(sol_requests, lay_payouts) /\ PaidFor(lay_requests, sol_payouts)

BInv(F) ==
    /\ SP!DInv /\ LP!DInv /\ SP!IInv /\ LP!IInv
    /\ Cardinality(F) < sol_threshold /\ Cardinality(F) < lay_threshold
    /\ SignedFor(F, attested, Asked)
    /\ sol_audit.vouched => PaysOnly(sol_payouts, Asked)
    /\ lay_audit.vouched => PaysOnly(lay_payouts, Asked)

\* What every step of the bridge is: a step of each deployment, of which one
\* keeps its program as it is; no new threshold; and a signature, if any, for a
\* call.
SignsFor(F, signed, after, calls) ==
    \A g \in Guardian \ F : \A m \in after[g] \ signed[g] : \E r \in calls : m = HashOf(r)

BridgeStep(F) ==
    /\ [SP!Next]_SP!vars /\ [LP!Next]_LP!vars
    /\ UNCHANGED solanaProgram \/ UNCHANGED solayerProgram
    /\ UNCHANGED <<sol_threshold, lay_threshold>>
    /\ SignsFor(F, attested, attested', Asked)

\* Nothing is signed where attested stays as it is.
LEMMA NoneSigned ==
    \A F, calls : UNCHANGED attested => SignsFor(F, attested, attested', calls)
  BY DEF SignsFor

\* A step that leaves Solana alone is a stutter of its deployment.
LEMMA SolanaStands ==
    ASSUME UNCHANGED <<solanaVars, attested>>
    PROVE  [SP!Next]_SP!vars /\ UNCHANGED sol_threshold /\ UNCHANGED solanaProgram
  BY DEF solanaVars, solanaProgram, SP!vars, SP!guardianVars, SP!programVars

\* A step that leaves Solayer alone is a stutter of its deployment.
LEMMA SolayerStands ==
    ASSUME UNCHANGED <<solayerVars, attested>>
    PROVE  [LP!Next]_LP!vars /\ UNCHANGED lay_threshold /\ UNCHANGED solayerProgram
  BY DEF solayerVars, solayerProgram, LP!vars, LP!guardianVars, LP!programVars

\* The logs are logs of calls.
LEMMA LogTypes ==
    /\ SP!DInv => sol_requests \in Seq(SP!Request) /\ sol_requests \in Seq(LoggedCall)
                    /\ sol_payouts \in Seq(AnyCall)
    /\ LP!DInv => lay_requests \in Seq(LP!Request) /\ lay_requests \in Seq(LoggedCall)
                    /\ lay_payouts \in Seq(AnyCall)
<1>1. SP!Request \subseteq LoggedCall /\ LP!Request \subseteq LoggedCall
  BY RequestTypes
<1>2. SP!DInv => sol_requests \in Seq(SP!Request) /\ sol_payouts \in Seq(AnyCall)
  BY DEF SP!DInv, SP!ProgramTypeOK, SP!RequestsTypeOK, SP!PayoutsTypeOK
<1>3. LP!DInv => lay_requests \in Seq(LP!Request) /\ lay_payouts \in Seq(AnyCall)
  BY DEF LP!DInv, LP!ProgramTypeOK, LP!RequestsTypeOK, LP!PayoutsTypeOK
<1>4. QED
  BY <1>1, <1>2, <1>3, SeqMonotonic

\* The calls asked for are those of the two logs, each of its own chain.
LEMMA AskedCalls ==
    ASSUME SP!DInv, LP!DInv
    PROVE  /\ AllRequests \in Seq(LoggedCall) /\ Asked \subseteq LoggedCall
           /\ \A i \in DOMAIN sol_requests : sol_requests[i] \in Asked
           /\ \A i \in DOMAIN lay_requests : lay_requests[i] \in Asked
           /\ \A r \in Asked : \E i \in DOMAIN AllRequests : r = AllRequests[i]
           /\ \A r \in Asked : r.tx[1] # "Solayer"
                  => \E i \in DOMAIN sol_requests : r = sol_requests[i]
           /\ \A r \in Asked : r.tx[1] # "Solana"
                  => \E i \in DOMAIN lay_requests : r = lay_requests[i]
<1>1. /\ sol_requests \in Seq(LoggedCall) /\ lay_requests \in Seq(LoggedCall)
      /\ sol_requests \in Seq(SP!Request) /\ lay_requests \in Seq(LP!Request)
  BY LogTypes
<1>2. /\ AllRequests \in Seq(LoggedCall)
      /\ Len(AllRequests) = Len(sol_requests) + Len(lay_requests)
      /\ \A i \in 1..(Len(sol_requests) + Len(lay_requests)) :
             AllRequests[i] = IF i <= Len(sol_requests) THEN sol_requests[i]
                                                      ELSE lay_requests[i - Len(sol_requests)]
  BY <1>1, ConcatProperties DEF AllRequests
<1>3. /\ \A i \in DOMAIN sol_requests : sol_requests[i] \in Asked
      /\ \A i \in DOMAIN lay_requests : lay_requests[i] \in Asked
      /\ \A r \in Asked : \/ \E i \in DOMAIN sol_requests : r = sol_requests[i]
                          \/ \E i \in DOMAIN lay_requests : r = lay_requests[i]
  BY DEF Asked, ToSet
<1>4. /\ \A i \in DOMAIN sol_requests : sol_requests[i].tx[1] = "Solana"
      /\ \A i \in DOMAIN lay_requests : lay_requests[i].tx[1] = "Solayer"
  BY <1>1, RequestTypes
<1>5. ASSUME NEW r \in Asked PROVE \E i \in DOMAIN AllRequests : r = AllRequests[i]
  <2>1. DOMAIN AllRequests = 1..(Len(sol_requests) + Len(lay_requests))
    BY <1>2
  <2>2. CASE \E i \in DOMAIN sol_requests : r = sol_requests[i]
    <3>1. PICK i \in 1..Len(sol_requests) : r = sol_requests[i]
      BY <1>1, <2>2
    <3>2. i \in 1..(Len(sol_requests) + Len(lay_requests)) /\ i <= Len(sol_requests)
      BY <1>1, LenProperties
    <3>3. QED
      BY <1>2, <2>1, <3>1, <3>2
  <2>3. CASE \E i \in DOMAIN lay_requests : r = lay_requests[i]
    <3>1. PICK i \in 1..Len(lay_requests) : r = lay_requests[i]
      BY <1>1, <2>3
    <3>2. /\ i + Len(sol_requests) \in 1..(Len(sol_requests) + Len(lay_requests))
          /\ ~ (i + Len(sol_requests) <= Len(sol_requests))
          /\ i + Len(sol_requests) - Len(sol_requests) = i
      BY <1>1, LenProperties
    <3>3. QED
      BY <1>2, <2>1, <3>1, <3>2
  <2>4. QED
    BY <1>3, <2>2, <2>3
<1>6. Asked \subseteq LoggedCall
  BY <1>1, <1>3
<1>7. QED
  BY <1>2, <1>3, <1>4, <1>5, <1>6

\* What an operator or a submitter tries are calls, and hashes of calls.
LEMMA TriedCalls ==
    ASSUME SP!DInv, LP!DInv
    PROVE  /\ Calls(AllRequests) \subseteq AnyCall /\ Messages(AllRequests) \subseteq AnyHash
           /\ Messages(sol_requests) \subseteq AnyHash /\ Messages(lay_requests) \subseteq AnyHash
<1>1. ASSUME NEW log \in Seq(LoggedCall)
      PROVE  Calls(log) \subseteq AnyCall /\ Messages(log) \subseteq AnyHash
  BY <1>1, OperatorsCalls, HashIsInjective DEF Messages
<1>2. QED
  BY <1>1, AskedCalls, LogTypes

\* What was proved of a deployment, of the one on Solana.
LEMMA SolanaProved ==
    /\ SP!BridgeToken \/ SP!BridgeSol \/ SP!RegisterToken => UNCHANGED SP!guardianVars
    /\ SP!DInv /\ ([SP!Next]_SP!vars \/ UNCHANGED SP!programVars) => SP!DInv'
    /\ SP!IInv /\ [SP!Next]_SP!vars => SP!IInv'
    /\ SP!ProgramInit => SP!DInv
    /\ SP!DInv /\ [SP!Next]_SP!vars =>
           \/ \E r, fee : SP!Called(r, fee)
           \/ \E p : SP!Paid(p)
           \/ SP!Idle
    /\ SP!DInv /\ [SP!Next]_SP!vars /\ sol_audit'.vouched => sol_audit.vouched
<1> USE SolanaAssumptions
    DEF SP!CountAssumption, SP!TimeAssumption, SP!ChainAssumption, SP!AmountAssumption,
        SP!PriceAssumption, SP!PayoutAssumption, SP!MintAssumption, SP!KeyAssumption,
        SP!InstructionIndexAssumption
<1>1. SP!BridgeToken \/ SP!BridgeSol \/ SP!RegisterToken => UNCHANGED SP!guardianVars
  BY SP!GuardiansUntouched
<1>2. SP!DInv /\ ([SP!Next]_SP!vars \/ UNCHANGED SP!programVars) => SP!DInv'
  BY SP!DeploymentStep, SP!UnchangedInvariant
<1>3. SP!IInv /\ [SP!Next]_SP!vars => SP!IInv'
  BY SP!GuardiansStep, SP!NextInvariant
<1>4. SP!ProgramInit => SP!DInv
  BY SP!InitDInv
<1>5. SP!DInv /\ [SP!Next]_SP!vars =>
           \/ \E r, fee : SP!Called(r, fee)
           \/ \E p : SP!Paid(p)
           \/ SP!Idle
  BY SP!StepIsCallPayoutOrIdle
<1>6. SP!DInv /\ [SP!Next]_SP!vars /\ sol_audit'.vouched => sol_audit.vouched
  BY SP!VouchedBefore DEF SP!DInv, SP!ProgramTypeOK
<1>7. QED
  BY <1>1, <1>2, <1>3, <1>4, <1>5, <1>6

\* A payout there, as long as the records paid on are undisturbed, has a record
\* with a quorum, hence a signature from outside F.
LEMMA SolanaPayoutSigned ==
    ASSUME SP!IInv, SP!DInv, [SP!Next]_SP!vars, NEW F, IsFiniteSet(F),
           Cardinality(F) < sol_threshold, sol_audit'.vouched, sol_payouts' # sol_payouts
    PROVE  \E p \in AnyCall :
               /\ sol_payouts' = Append(sol_payouts, p)
               /\ \E g \in Guardian \ F : Solana!MessageHash(p) \in attested[g]
<1> USE SolanaAssumptions
    DEF SP!CountAssumption, SP!TimeAssumption, SP!ChainAssumption, SP!AmountAssumption,
        SP!PriceAssumption, SP!PayoutAssumption, SP!MintAssumption, SP!KeyAssumption,
        SP!InstructionIndexAssumption
<1>1. PICK signer \in Authority, hash \in DOMAIN sol_verified, p \in AnyCall :
          SP!AcceptPayout(signer, hash, p)
  BY SP!PayoutIsAccepted
<1>2. SP!HasQuorum(hash)
  BY <1>1 DEF SP!AcceptPayout, SP!ConsumeSignatures
<1>3. hash \notin sol_disturbed
  <2>1. SP!HandlerTypeOK /\ SP!AuditPayout(p, hash)
    BY <1>1 DEF SP!DInv, SP!ProgramTypeOK, SP!AcceptPayout
  <2>2. QED
    BY <2>1, SP!PayoutVouches
<1>4. SP!IsFiniteSet(F) /\ SP!Cardinality(F) = Cardinality(F)
  BY DEF SP!IsFiniteSet, IsFiniteSet, SP!Cardinality, Cardinality
<1>5. \E g \in Guardian \ F : hash \in attested[g]
  BY <1>2, <1>3, <1>4, SP!QuorumHasOther
<1>6. hash = SP!MessageHash(p) /\ sol_payouts' = Append(sol_payouts, p)
  BY <1>1 DEF SP!AcceptPayout, SP!RecordPayout
<1>7. SP!MessageHash(p) = Solana!MessageHash(p)
  BY DEF Solana!MessageHash, SP!MessageHash
<1>8. QED
  BY <1>5, <1>6, <1>7

\* What was proved of a deployment, of the one on Solayer.
LEMMA SolayerProved ==
    /\ LP!BridgeToken \/ LP!BridgeSol \/ LP!RegisterToken => UNCHANGED LP!guardianVars
    /\ LP!DInv /\ ([LP!Next]_LP!vars \/ UNCHANGED LP!programVars) => LP!DInv'
    /\ LP!IInv /\ [LP!Next]_LP!vars => LP!IInv'
    /\ LP!ProgramInit => LP!DInv
    /\ LP!DInv /\ [LP!Next]_LP!vars =>
           \/ \E r, fee : LP!Called(r, fee)
           \/ \E p : LP!Paid(p)
           \/ LP!Idle
    /\ LP!DInv /\ [LP!Next]_LP!vars /\ lay_audit'.vouched => lay_audit.vouched
<1> USE SolayerAssumptions
    DEF LP!CountAssumption, LP!TimeAssumption, LP!ChainAssumption, LP!AmountAssumption,
        LP!PriceAssumption, LP!PayoutAssumption, LP!MintAssumption, LP!KeyAssumption,
        LP!InstructionIndexAssumption
<1>1. LP!BridgeToken \/ LP!BridgeSol \/ LP!RegisterToken => UNCHANGED LP!guardianVars
  BY LP!GuardiansUntouched
<1>2. LP!DInv /\ ([LP!Next]_LP!vars \/ UNCHANGED LP!programVars) => LP!DInv'
  BY LP!DeploymentStep, LP!UnchangedInvariant
<1>3. LP!IInv /\ [LP!Next]_LP!vars => LP!IInv'
  BY LP!GuardiansStep, LP!NextInvariant
<1>4. LP!ProgramInit => LP!DInv
  BY LP!InitDInv
<1>5. LP!DInv /\ [LP!Next]_LP!vars =>
           \/ \E r, fee : LP!Called(r, fee)
           \/ \E p : LP!Paid(p)
           \/ LP!Idle
  BY LP!StepIsCallPayoutOrIdle
<1>6. LP!DInv /\ [LP!Next]_LP!vars /\ lay_audit'.vouched => lay_audit.vouched
  BY LP!VouchedBefore DEF LP!DInv, LP!ProgramTypeOK
<1>7. QED
  BY <1>1, <1>2, <1>3, <1>4, <1>5, <1>6

\* A payout there, as long as the records paid on are undisturbed, has a record
\* with a quorum, hence a signature from outside F.
LEMMA SolayerPayoutSigned ==
    ASSUME LP!IInv, LP!DInv, [LP!Next]_LP!vars, NEW F, IsFiniteSet(F),
           Cardinality(F) < lay_threshold, lay_audit'.vouched, lay_payouts' # lay_payouts
    PROVE  \E p \in AnyCall :
               /\ lay_payouts' = Append(lay_payouts, p)
               /\ \E g \in Guardian \ F : Solana!MessageHash(p) \in attested[g]
<1> USE SolayerAssumptions
    DEF LP!CountAssumption, LP!TimeAssumption, LP!ChainAssumption, LP!AmountAssumption,
        LP!PriceAssumption, LP!PayoutAssumption, LP!MintAssumption, LP!KeyAssumption,
        LP!InstructionIndexAssumption
<1>1. PICK signer \in Authority, hash \in DOMAIN lay_verified, p \in AnyCall :
          LP!AcceptPayout(signer, hash, p)
  BY LP!PayoutIsAccepted
<1>2. LP!HasQuorum(hash)
  BY <1>1 DEF LP!AcceptPayout, LP!ConsumeSignatures
<1>3. hash \notin lay_disturbed
  <2>1. LP!HandlerTypeOK /\ LP!AuditPayout(p, hash)
    BY <1>1 DEF LP!DInv, LP!ProgramTypeOK, LP!AcceptPayout
  <2>2. QED
    BY <2>1, LP!PayoutVouches
<1>4. LP!IsFiniteSet(F) /\ LP!Cardinality(F) = Cardinality(F)
  BY DEF LP!IsFiniteSet, IsFiniteSet, LP!Cardinality, Cardinality
<1>5. \E g \in Guardian \ F : hash \in attested[g]
  BY <1>2, <1>3, <1>4, LP!QuorumHasOther
<1>6. hash = LP!MessageHash(p) /\ lay_payouts' = Append(lay_payouts, p)
  BY <1>1 DEF LP!AcceptPayout, LP!RecordPayout
<1>7. LP!MessageHash(p) = Solana!MessageHash(p)
  BY DEF Solana!MessageHash, LP!MessageHash
<1>8. QED
  BY <1>5, <1>6, <1>7

\* A call, a registration, a payout, a signature or its relay on Solana.
LEMMA SolanaCallStep ==
    ASSUME NEW F, CallOnSolana PROVE BridgeStep(F)
<1>1. SP!Next /\ UNCHANGED SP!guardianVars
  <2>1. SP!BridgeToken \/ SP!BridgeSol
    BY SolanaCalls DEF CallOnSolana
  <2>2. QED
    BY <2>1, SolanaProved DEF SP!Next
<1>2. UNCHANGED <<sol_threshold, attested>>
  BY <1>1 DEF SP!guardianVars
<1>3. UNCHANGED solayerVars
  BY DEF CallOnSolana
<1>4. QED
  BY <1>1, <1>2, <1>3, SolayerStands, NoneSigned DEF BridgeStep

\* Registering a token on Solana is a step of the bridge in terms of the deployments.
LEMMA SolanaRegisterStep ==
    ASSUME NEW F, RegisterOnSolana PROVE BridgeStep(F)
<1>1. SP!Next /\ UNCHANGED SP!guardianVars
  <2>1. SP!RegisterToken
    BY SolanaRegister DEF RegisterOnSolana
  <2>2. QED
    BY <2>1, SolanaProved DEF SP!Next
<1>2. UNCHANGED <<sol_threshold, attested>>
  BY <1>1 DEF SP!guardianVars
<1>3. UNCHANGED solayerVars
  BY DEF RegisterOnSolana
<1>4. QED
  BY <1>1, <1>2, <1>3, SolayerStands, NoneSigned DEF BridgeStep

\* So is a payout on Solana, whatever call the operator submits.
LEMMA SolanaPayStep ==
    ASSUME NEW F, BInv(F), PayOnSolana PROVE BridgeStep(F)
<1>1. PICK signer \in Authority, hash \in DOMAIN sol_verified, p \in Calls(AllRequests) :
          \/ Solana!BridgeAssetTargetChain(signer, hash, p)
          \/ Solana!BridgeAssetTargetChainSol(signer, hash, p)
  BY DEF PayOnSolana
<1>2. p \in AnyCall
  BY TriedCalls DEF BInv
<1>3. \/ SP!BridgeAssetTargetChain(signer, hash, p)
      \/ SP!BridgeAssetTargetChainSol(signer, hash, p)
  BY <1>1, SolanaPayouts
<1>4. SP!Next
  BY <1>2, <1>3 DEF SP!Next, SP!PayToken, SP!PaySolOut
<1>5. UNCHANGED <<sol_threshold, attested>>
  BY <1>3 DEF SP!BridgeAssetTargetChain, SP!BridgeAssetTargetChainSol, SP!AcceptPayout,
              SP!ConsumeSignatures
<1>6. UNCHANGED solayerVars
  BY DEF PayOnSolana
<1>7. QED
  BY <1>4, <1>5, <1>6, SolayerStands, NoneSigned DEF BridgeStep

\* So is a batch of one signature on Solana, wherever its data points.
LEMMA SolanaBatchStep ==
    ASSUME NEW F, BInv(F), NEW m \in AnyHash, NEW k \in DOMAIN sol_guardians,
           NEW at \in InstructionIndex, Solana!VerifySignature(m, <<k - 1>>, at),
           UNCHANGED <<solayerVars, solanaProgram>>
    PROVE  BridgeStep(F)
<1>1. SP!AnyVerifySignature
  BY SolanaVerify DEF BInv, SP!IInv
<1>2. SP!Next
  <2>1. UNCHANGED SP!programVars
    BY DEF solanaProgram, SP!programVars
  <2>2. QED
    BY <1>1, <2>1 DEF SP!Next, SP!Collecting
<1>3. UNCHANGED <<sol_threshold, attested>>
  BY DEF Solana!VerifySignature, Solana!RecordSignatures
<1>4. UNCHANGED solayerVars
  OBVIOUS
<1>5. QED
  BY <1>2, <1>3, <1>4, SolayerStands, NoneSigned DEF BridgeStep

\* So is a signature that the relayer brings to Solana.
LEMMA SolanaRelayStep ==
    ASSUME NEW F, BInv(F), RelayToSolana PROVE BridgeStep(F)
<1>1. PICK g \in Guardian : \E m \in attested[g] \cap Messages(lay_requests) :
          /\ \E k \in DOMAIN sol_guardians : Solana!VerifySignature(m, <<k - 1>>, "this")
          /\ UNCHANGED <<solayerVars, solanaProgram>>
  BY DEF RelayToSolana
<1>2. PICK m \in Messages(lay_requests), k \in DOMAIN sol_guardians :
          /\ Solana!VerifySignature(m, <<k - 1>>, "this")
          /\ UNCHANGED <<solayerVars, solanaProgram>>
  BY <1>1
<1>3. m \in AnyHash
  BY TriedCalls DEF BInv
<1>4. "this" \in InstructionIndex
  BY DeploymentAssumption DEF Solana!InstructionIndexAssumption
<1>5. QED
  BY <1>2, <1>3, <1>4, SolanaBatchStep

\* So is a batch on Solana that the relayer did not send.
LEMMA SolanaStrayStep ==
    ASSUME NEW F, BInv(F), StrayBatchOnSolana PROVE BridgeStep(F)
<1>1. PICK m \in Messages(AllRequests), k \in DOMAIN sol_guardians, at \in InstructionIndex :
          /\ Solana!VerifySignature(m, <<k - 1>>, at)
          /\ UNCHANGED <<solayerVars, solanaProgram>>
  BY DEF StrayBatchOnSolana
<1>2. m \in AnyHash
  BY TriedCalls DEF BInv
<1>3. QED
  BY <1>1, <1>2, SolanaBatchStep

\* A call, a registration, a payout, a signature or its relay on Solayer.
LEMMA SolayerCallStep ==
    ASSUME NEW F, CallOnSolayer PROVE BridgeStep(F)
<1>1. LP!Next /\ UNCHANGED LP!guardianVars
  <2>1. LP!BridgeToken \/ LP!BridgeSol
    BY SolayerCalls DEF CallOnSolayer
  <2>2. QED
    BY <2>1, SolayerProved DEF LP!Next
<1>2. UNCHANGED <<lay_threshold, attested>>
  BY <1>1 DEF LP!guardianVars
<1>3. UNCHANGED solanaVars
  BY DEF CallOnSolayer
<1>4. QED
  BY <1>1, <1>2, <1>3, SolanaStands, NoneSigned DEF BridgeStep

\* Registering a token on Solayer is a step of the bridge in terms of the deployments.
LEMMA SolayerRegisterStep ==
    ASSUME NEW F, RegisterOnSolayer PROVE BridgeStep(F)
<1>1. LP!Next /\ UNCHANGED LP!guardianVars
  <2>1. LP!RegisterToken
    BY SolayerRegister DEF RegisterOnSolayer
  <2>2. QED
    BY <2>1, SolayerProved DEF LP!Next
<1>2. UNCHANGED <<lay_threshold, attested>>
  BY <1>1 DEF LP!guardianVars
<1>3. UNCHANGED solanaVars
  BY DEF RegisterOnSolayer
<1>4. QED
  BY <1>1, <1>2, <1>3, SolanaStands, NoneSigned DEF BridgeStep

\* So is a payout on Solayer, whatever call the operator submits.
LEMMA SolayerPayStep ==
    ASSUME NEW F, BInv(F), PayOnSolayer PROVE BridgeStep(F)
<1>1. PICK signer \in Authority, hash \in DOMAIN lay_verified, p \in Calls(AllRequests) :
          \/ Solayer!BridgeAssetTargetChain(signer, hash, p)
          \/ Solayer!BridgeAssetTargetChainSol(signer, hash, p)
  BY DEF PayOnSolayer
<1>2. p \in AnyCall
  BY TriedCalls DEF BInv
<1>3. \/ LP!BridgeAssetTargetChain(signer, hash, p)
      \/ LP!BridgeAssetTargetChainSol(signer, hash, p)
  BY <1>1, SolayerPayouts
<1>4. LP!Next
  BY <1>2, <1>3 DEF LP!Next, LP!PayToken, LP!PaySolOut
<1>5. UNCHANGED <<lay_threshold, attested>>
  BY <1>3 DEF LP!BridgeAssetTargetChain, LP!BridgeAssetTargetChainSol, LP!AcceptPayout,
              LP!ConsumeSignatures
<1>6. UNCHANGED solanaVars
  BY DEF PayOnSolayer
<1>7. QED
  BY <1>4, <1>5, <1>6, SolanaStands, NoneSigned DEF BridgeStep

\* So is a batch of one signature on Solayer, wherever its data points.
LEMMA SolayerBatchStep ==
    ASSUME NEW F, BInv(F), NEW m \in AnyHash, NEW k \in DOMAIN lay_guardians,
           NEW at \in InstructionIndex, Solayer!VerifySignature(m, <<k - 1>>, at),
           UNCHANGED <<solanaVars, solayerProgram>>
    PROVE  BridgeStep(F)
<1>1. LP!AnyVerifySignature
  BY SolayerVerify DEF BInv, LP!IInv
<1>2. LP!Next
  <2>1. UNCHANGED LP!programVars
    BY DEF solayerProgram, LP!programVars
  <2>2. QED
    BY <1>1, <2>1 DEF LP!Next, LP!Collecting
<1>3. UNCHANGED <<lay_threshold, attested>>
  BY DEF Solayer!VerifySignature, Solayer!RecordSignatures
<1>4. UNCHANGED solanaVars
  OBVIOUS
<1>5. QED
  BY <1>2, <1>3, <1>4, SolanaStands, NoneSigned DEF BridgeStep

\* So is a signature that the relayer brings to Solayer.
LEMMA SolayerRelayStep ==
    ASSUME NEW F, BInv(F), RelayToSolayer PROVE BridgeStep(F)
<1>1. PICK g \in Guardian : \E m \in attested[g] \cap Messages(sol_requests) :
          /\ \E k \in DOMAIN lay_guardians : Solayer!VerifySignature(m, <<k - 1>>, "this")
          /\ UNCHANGED <<solanaVars, solayerProgram>>
  BY DEF RelayToSolayer
<1>2. PICK m \in Messages(sol_requests), k \in DOMAIN lay_guardians :
          /\ Solayer!VerifySignature(m, <<k - 1>>, "this")
          /\ UNCHANGED <<solanaVars, solayerProgram>>
  BY <1>1
<1>3. m \in AnyHash
  BY TriedCalls DEF BInv
<1>4. "this" \in InstructionIndex
  BY DeploymentAssumption DEF Solayer!InstructionIndexAssumption
<1>5. QED
  BY <1>2, <1>3, <1>4, SolayerBatchStep

\* So is a batch on Solayer that the relayer did not send.
LEMMA SolayerStrayStep ==
    ASSUME NEW F, BInv(F), StrayBatchOnSolayer PROVE BridgeStep(F)
<1>1. PICK m \in Messages(AllRequests), k \in DOMAIN lay_guardians, at \in InstructionIndex :
          /\ Solayer!VerifySignature(m, <<k - 1>>, at)
          /\ UNCHANGED <<solanaVars, solayerProgram>>
  BY DEF StrayBatchOnSolayer
<1>2. m \in AnyHash
  BY TriedCalls DEF BInv
<1>3. QED
  BY <1>1, <1>2, SolayerBatchStep

\* A signature is one for both deployments, be it of a call that was made or by
\* a guardian in F.
LEMMA AttestStep ==
    ASSUME NEW F, NEW g \in Guardian, NEW p \in AnyCall,
           \/ Solana!Attest(g, Solana!MessageHash(p))
           \/ Solayer!Attest(g, Solayer!MessageHash(p)),
           UNCHANGED <<sol_guardians, sol_threshold, sol_verified, sol_now, sol_disturbed>>,
           UNCHANGED <<lay_guardians, lay_threshold, lay_verified, lay_now, lay_disturbed>>,
           UNCHANGED <<solanaProgram, solayerProgram>>,
           g \in F \/ \E r \in Asked : p = PayoutOf(r)
    PROVE  BridgeStep(F)
<1> DEFINE m == Solana!MessageHash(p)
<1>1. m = Solayer!MessageHash(p) /\ m \in AnyHash
  BY HashIsInjective DEF Solana!MessageHash, Solayer!MessageHash
<1>2. /\ m \notin attested[g]
      /\ attested' = [attested EXCEPT ![g] = @ \cup {m}]
  BY <1>1 DEF Solana!Attest, Solayer!Attest
<1>3. g \in F \/ \E r \in Asked : m = HashOf(r)
  BY DEF HashOf
<1> HIDE DEF m
<1>4. SP!AnyAttest /\ LP!AnyAttest
  BY <1>1, <1>2 DEF SP!AnyAttest, LP!AnyAttest, SP!Attest, LP!Attest
<1>5. UNCHANGED SP!programVars /\ UNCHANGED LP!programVars
  BY DEF solanaProgram, SP!programVars, solayerProgram, LP!programVars
<1>6. SP!Next /\ LP!Next
  BY <1>4, <1>5 DEF SP!Next, SP!Collecting, LP!Next, LP!Collecting
<1>7. SignsFor(F, attested, attested', Asked)
  BY <1>2, <1>3 DEF SignsFor
<1>8. QED
  BY <1>6, <1>7 DEF BridgeStep

\* So is a guardian signing what it saw on either chain.
LEMMA SignStep ==
    ASSUME NEW F, BInv(F), SignForSolana \/ SignForSolayer PROVE BridgeStep(F)
<1>1. CASE SignForSolana
  <2>1. PICK g \in Guardian : SignForSolanaBy(g)
    BY <1>1 DEF SignForSolana
  <2>2. PICK i \in DOMAIN lay_requests :
            /\ Solana!Attest(g, Solana!MessageHash(PayoutOf(lay_requests[i])))
            /\ UNCHANGED <<solayerVars, solanaProgram>>
    BY <2>1 DEF SignForSolanaBy
  <2>3. PayoutOf(lay_requests[i]) \in AnyCall /\ lay_requests[i] \in Asked
    BY AskedCalls, PayoutIsCall DEF BInv
  <2>4. QED
    BY <2>2, <2>3, AttestStep DEF Solana!Attest, solayerVars
<1>2. CASE SignForSolayer
  <2>1. PICK g \in Guardian : SignForSolayerBy(g)
    BY <1>2 DEF SignForSolayer
  <2>2. PICK i \in DOMAIN sol_requests :
            /\ Solayer!Attest(g, Solayer!MessageHash(PayoutOf(sol_requests[i])))
            /\ UNCHANGED <<solanaVars, solayerProgram>>
    BY <2>1 DEF SignForSolayerBy
  <2>3. PayoutOf(sol_requests[i]) \in AnyCall /\ sol_requests[i] \in Asked
    BY AskedCalls, PayoutIsCall DEF BInv
  <2>4. QED
    BY <2>2, <2>3, AttestStep DEF Solayer!Attest, solanaVars
<1>3. QED
  BY <1>1, <1>2

\* A step of the bridge, fault or not, in terms of the two deployments.
LEMMA NextIsBridgeStep ==
    ASSUME NEW F, BInv(F), [BridgeNext]_bridgeVars PROVE BridgeStep(F)
<1>1. CASE UNCHANGED bridgeVars
  <2>1. UNCHANGED <<solanaVars, solayerVars, attested>>
    BY <1>1 DEF bridgeVars
  <2>2. QED
    BY <2>1, SolanaStands, SolayerStands, NoneSigned DEF BridgeStep
<1>2. CASE BridgeNext
  BY <1>2, SolanaCallStep, SolayerCallStep, SolanaRegisterStep, SolayerRegisterStep,
     SolanaPayStep, SolayerPayStep, SignStep, SolanaRelayStep, SolayerRelayStep,
     SolanaStrayStep, SolayerStrayStep DEF BridgeNext
<1>3. QED
  BY <1>1, <1>2

-----------------------------------------------------------------------------
(***************************************************************************)
(* Every step keeps the invariant.                                         *)
(***************************************************************************)

\* While the records paid on are undisturbed, a payout on Solana answers a call
\* that somebody made; and in any case it is none that was made there before.
LEMMA SolanaPayoutAnswers ==
    ASSUME NEW F, IsFiniteSet(F), BInv(F), [SP!Next]_SP!vars, NEW p, SP!Paid(p)
    PROVE  /\ p \in AnyCall /\ sol_payouts \in Seq(AnyCall)
           /\ sol_payouts' = Append(sol_payouts, p)
           /\ sol_audit'.vouched => \E r \in Asked : p = PayoutOf(r)
           /\ \A i \in DOMAIN sol_payouts : sol_payouts[i] # p
<1>1. sol_payouts' = Append(sol_payouts, p) /\ sol_payouts \in Seq(AnyCall) /\ p \in AnyCall
  BY LogTypes DEF BInv, SP!Paid
<1>2. ASSUME sol_audit'.vouched PROVE \E r \in Asked : p = PayoutOf(r)
  <2>1. PICK q \in AnyCall :
            /\ sol_payouts' = Append(sol_payouts, q)
            /\ \E g \in Guardian \ F : Solana!MessageHash(q) \in attested[g]
    BY <1>1, <1>2, SolanaPayoutSigned DEF BInv
  <2>2. p = q
    <3>1. sol_payouts'[Len(sol_payouts) + 1] = p
      BY <1>1
    <3>2. sol_payouts'[Len(sol_payouts) + 1] = q
      BY <1>1, <2>1
    <3>3. QED
      BY <3>1, <3>2
  <2>3. PICK r \in Asked : Solana!MessageHash(p) = HashOf(r)
    BY <2>1, <2>2 DEF BInv, SignedFor
  <2>4. PayoutOf(r) \in AnyCall
    BY AskedCalls, PayoutIsCall DEF BInv
  <2>5. QED
    BY <1>1, <2>3, <2>4, HashIsInjective DEF HashOf
<1>3. ASSUME NEW k \in DOMAIN sol_payouts PROVE sol_payouts[k] # p
  <2>1. SP!PaidOncePerTransaction'
    BY SolanaProved DEF BInv, SP!DInv
  <2>2. /\ k \in DOMAIN sol_payouts' /\ sol_payouts'[k] = sol_payouts[k]
        /\ Len(sol_payouts) + 1 \in DOMAIN sol_payouts'
        /\ sol_payouts'[Len(sol_payouts) + 1] = p /\ k # Len(sol_payouts) + 1
    BY <1>1
  <2>3. QED
    BY <2>1, <2>2 DEF SP!PaidOncePerTransaction
<1>4. QED
  BY <1>1, <1>2, <1>3

\* While the records paid on are undisturbed, a payout on Solayer answers a call
\* that somebody made; and in any case it is none that was made there before.
LEMMA SolayerPayoutAnswers ==
    ASSUME NEW F, IsFiniteSet(F), BInv(F), [LP!Next]_LP!vars, NEW p, LP!Paid(p)
    PROVE  /\ p \in AnyCall /\ lay_payouts \in Seq(AnyCall)
           /\ lay_payouts' = Append(lay_payouts, p)
           /\ lay_audit'.vouched => \E r \in Asked : p = PayoutOf(r)
           /\ \A i \in DOMAIN lay_payouts : lay_payouts[i] # p
<1>1. lay_payouts' = Append(lay_payouts, p) /\ lay_payouts \in Seq(AnyCall) /\ p \in AnyCall
  BY LogTypes DEF BInv, LP!Paid
<1>2. ASSUME lay_audit'.vouched PROVE \E r \in Asked : p = PayoutOf(r)
  <2>1. PICK q \in AnyCall :
            /\ lay_payouts' = Append(lay_payouts, q)
            /\ \E g \in Guardian \ F : Solana!MessageHash(q) \in attested[g]
    BY <1>1, <1>2, SolayerPayoutSigned DEF BInv
  <2>2. p = q
    <3>1. lay_payouts'[Len(lay_payouts) + 1] = p
      BY <1>1
    <3>2. lay_payouts'[Len(lay_payouts) + 1] = q
      BY <1>1, <2>1
    <3>3. QED
      BY <3>1, <3>2
  <2>3. PICK r \in Asked : Solana!MessageHash(p) = HashOf(r)
    BY <2>1, <2>2 DEF BInv, SignedFor
  <2>4. PayoutOf(r) \in AnyCall
    BY AskedCalls, PayoutIsCall DEF BInv
  <2>5. QED
    BY <1>1, <2>3, <2>4, HashIsInjective DEF HashOf
<1>3. ASSUME NEW k \in DOMAIN lay_payouts PROVE lay_payouts[k] # p
  <2>1. LP!PaidOncePerTransaction'
    BY SolayerProved DEF BInv, LP!DInv
  <2>2. /\ k \in DOMAIN lay_payouts' /\ lay_payouts'[k] = lay_payouts[k]
        /\ Len(lay_payouts) + 1 \in DOMAIN lay_payouts'
        /\ lay_payouts'[Len(lay_payouts) + 1] = p /\ k # Len(lay_payouts) + 1
    BY <1>1
  <2>3. QED
    BY <2>1, <2>2 DEF LP!PaidOncePerTransaction
<1>4. QED
  BY <1>1, <1>2, <1>3

\* What a step is to the balances and the logs of both chains: a call on one,
\* the first payout on one of a call on the other, or nothing.
SolanaCalled(r, fee) == SP!Called(r, fee) /\ LP!Idle
SolanaPaid(r) ==
    /\ \E i \in DOMAIN lay_requests : r = lay_requests[i]
    /\ \A i \in DOMAIN sol_payouts : sol_payouts[i] # PayoutOf(r)
    /\ SP!Paid(PayoutOf(r)) /\ LP!Idle

SolayerCalled(r, fee) == LP!Called(r, fee) /\ SP!Idle
SolayerPaid(r) ==
    /\ \E i \in DOMAIN sol_requests : r = sol_requests[i]
    /\ \A i \in DOMAIN lay_payouts : lay_payouts[i] # PayoutOf(r)
    /\ LP!Paid(PayoutOf(r)) /\ SP!Idle

BothIdle == SP!Idle /\ LP!Idle

Moves ==
    \/ \E r, fee : SolanaCalled(r, fee)
    \/ \E r, fee : SolayerCalled(r, fee)
    \/ \E r : SolanaPaid(r)
    \/ \E r : SolayerPaid(r)
    \/ BothIdle

\* As long as the bridge is trusted, every step is a call, a payout of a call of
\* the other chain not answered yet, or moves nothing.
LEMMA StepKinds ==
    ASSUME NEW F, IsFiniteSet(F), BInv(F), BridgeStep(F), Trusted'
    PROVE  Moves
<1> USE DEF Moves
<1>1. SP!Idle \/ LP!Idle
  BY DEF BridgeStep, SP!Idle, LP!Idle, solanaProgram, solayerProgram
<1>2. CASE LP!Idle
  <2>1. CASE \E r, fee : SP!Called(r, fee)
    BY <1>2, <2>1 DEF SolanaCalled
  <2>2. CASE \E p : SP!Paid(p)
    <3>1. PICK p : SP!Paid(p)
      BY <2>2
    <3>2. /\ sol_payouts \in Seq(AnyCall) /\ sol_payouts' = Append(sol_payouts, p)
          /\ \E r \in Asked : p = PayoutOf(r)
          /\ \A i \in DOMAIN sol_payouts : sol_payouts[i] # p
      BY <3>1, SolanaPayoutAnswers DEF BridgeStep, Trusted, Vouched
    <3>3. PICK r \in Asked : p = PayoutOf(r)
      BY <3>2
    <3>4. p.tx[1] # "Solana"
      <4>1. /\ Len(sol_payouts) + 1 \in DOMAIN sol_payouts'
            /\ sol_payouts'[Len(sol_payouts) + 1] = p
        BY <3>2
      <4>2. QED
        BY <4>1 DEF Trusted, Routed
    <3>5. r.tx[1] # "Solana"
      BY <3>3, <3>4 DEF PayoutOf
    <3>6. \E i \in DOMAIN lay_requests : r = lay_requests[i]
      BY <3>5, AskedCalls DEF BInv
    <3>7. QED
      BY <1>2, <3>1, <3>2, <3>3, <3>6 DEF SolanaPaid
  <2>3. CASE SP!Idle
    BY <1>2, <2>3 DEF BothIdle
  <2>4. QED
    BY <2>1, <2>2, <2>3, SolanaProved DEF BInv, BridgeStep
<1>3. CASE SP!Idle
  <2>1. CASE \E r, fee : LP!Called(r, fee)
    BY <1>3, <2>1 DEF SolayerCalled
  <2>2. CASE \E p : LP!Paid(p)
    <3>1. PICK p : LP!Paid(p)
      BY <2>2
    <3>2. /\ lay_payouts \in Seq(AnyCall) /\ lay_payouts' = Append(lay_payouts, p)
          /\ \E r \in Asked : p = PayoutOf(r)
          /\ \A i \in DOMAIN lay_payouts : lay_payouts[i] # p
      BY <3>1, SolayerPayoutAnswers DEF BridgeStep, Trusted, Vouched
    <3>3. PICK r \in Asked : p = PayoutOf(r)
      BY <3>2
    <3>4. p.tx[1] # "Solayer"
      <4>1. /\ Len(lay_payouts) + 1 \in DOMAIN lay_payouts'
            /\ lay_payouts'[Len(lay_payouts) + 1] = p
        BY <3>2
      <4>2. QED
        BY <4>1 DEF Trusted, Routed
    <3>5. r.tx[1] # "Solayer"
      BY <3>3, <3>4 DEF PayoutOf
    <3>6. \E i \in DOMAIN sol_requests : r = sol_requests[i]
      BY <3>5, AskedCalls DEF BInv
    <3>7. QED
      BY <1>3, <3>1, <3>2, <3>3, <3>6 DEF SolayerPaid
  <2>3. CASE LP!Idle
    BY <1>3, <2>3 DEF BothIdle
  <2>4. QED
    BY <2>1, <2>2, <2>3, SolayerProved DEF BInv, BridgeStep
<1>4. QED
  BY <1>1, <1>2, <1>3

\* A log that grows keeps what is in it.
Grows(log, after, S) == log \in Seq(S) /\ (after = log \/ \E r \in S : after = Append(log, r))

\* Entries stay where they are.
LEMMA GrownLog ==
    ASSUME NEW S, NEW log, NEW after, Grows(log, after, S)
    PROVE  \A i \in DOMAIN log : i \in DOMAIN after /\ after[i] = log[i]
  BY DEF Grows

\* The logs of calls only grow.
LEMMA LogsGrow ==
    ASSUME Programs, Moves
    PROVE  /\ Grows(sol_requests, sol_requests', SP!Request)
           /\ Grows(lay_requests, lay_requests', LP!Request)
<1>1. sol_requests' = sol_requests \/ \E r \in SP!Request : sol_requests' = Append(sol_requests, r)
  BY DEF Moves, SolanaCalled, SolanaPaid, SolayerCalled, SolayerPaid, BothIdle, SP!Called,
         SP!Paid, SP!Idle
<1>2. lay_requests' = lay_requests \/ \E r \in LP!Request : lay_requests' = Append(lay_requests, r)
  BY DEF Moves, SolanaCalled, SolanaPaid, SolayerCalled, SolayerPaid, BothIdle, LP!Called,
         LP!Paid, LP!Idle
<1>3. QED
  BY <1>1, <1>2, LogTypes DEF Programs, Grows

\* What is called for stays called for, and payouts are only added.
LEMMA CallsStay ==
    ASSUME NEW F, IsFiniteSet(F), BInv(F), BridgeStep(F)
    PROVE  /\ Asked \subseteq Asked'
           /\ \/ sol_payouts' = sol_payouts
              \/ \E p : SP!Paid(p)
           /\ \/ lay_payouts' = lay_payouts
              \/ \E p : LP!Paid(p)
<1>1. /\ Grows(sol_requests, sol_requests', SP!Request)
      /\ \/ sol_payouts' = sol_payouts
         \/ \E p : SP!Paid(p)
  <2>1. sol_requests \in Seq(SP!Request)
    BY LogTypes DEF BInv
  <2>2. QED
    BY <2>1, SolanaProved DEF BInv, BridgeStep, SP!Called, SP!Paid, SP!Idle, Grows
<1>2. /\ Grows(lay_requests, lay_requests', LP!Request)
      /\ \/ lay_payouts' = lay_payouts
         \/ \E p : LP!Paid(p)
  <2>1. lay_requests \in Seq(LP!Request)
    BY LogTypes DEF BInv
  <2>2. QED
    BY <2>1, SolayerProved DEF BInv, BridgeStep, LP!Called, LP!Paid, LP!Idle, Grows
<1>3. \A i \in DOMAIN sol_requests :
          i \in DOMAIN sol_requests' /\ sol_requests'[i] = sol_requests[i]
  BY <1>1, GrownLog
<1>4. \A i \in DOMAIN lay_requests :
          i \in DOMAIN lay_requests' /\ lay_requests'[i] = lay_requests[i]
  BY <1>2, GrownLog
<1>5. QED
  BY <1>1, <1>2, <1>3, <1>4 DEF Asked, ToSet

\* Signatures stay for calls while more calls and signatures come.
LEMMA SignedStep ==
    ASSUME NEW F, NEW signed, NEW after, NEW calls, NEW more, calls \subseteq more,
           SignedFor(F, signed, calls), SignsFor(F, signed, after, calls)
    PROVE  SignedFor(F, after, more)
<1>1. ASSUME NEW g \in Guardian \ F, NEW m \in after[g]
      PROVE  \E r \in calls : m = HashOf(r)
  <2>1. CASE m \in signed[g]
    BY <2>1 DEF SignedFor
  <2>2. CASE m \notin signed[g]
    BY <2>2 DEF SignsFor
  <2>3. QED
    BY <2>1, <2>2
<1>2. QED
  BY <1>1 DEF SignedFor

\* Payouts stay payouts of calls while calls, and payouts of them, come.
LEMMA PaysOnlyStep ==
    ASSUME NEW payouts \in Seq(AnyCall), NEW after, NEW calls, NEW more, calls \subseteq more,
           PaysOnly(payouts, calls),
           \/ after = payouts
           \/ \E p \in AnyCall : /\ after = Append(payouts, p)
                                 /\ \E r \in calls : p = PayoutOf(r)
    PROVE  PaysOnly(after, more)
<1>1. CASE after = payouts
  BY <1>1 DEF PaysOnly
<1>2. CASE after # payouts
  <2>1. PICK p \in AnyCall : after = Append(payouts, p) /\ \E r \in calls : p = PayoutOf(r)
    BY <1>2
  <2>2. \A i \in DOMAIN after : (i \in DOMAIN payouts /\ after[i] = payouts[i]) \/ after[i] = p
    BY <2>1
  <2>3. QED
    BY <2>1, <2>2 DEF PaysOnly
<1>3. QED
  BY <1>1, <1>2

\* A payout of a call keeps all payouts paid for, while more calls come.
LEMMA PaidForStep ==
    ASSUME NEW requests, NEW more, NEW S, Grows(requests, more, S),
           NEW payouts \in Seq(AnyCall), NEW after, PaidFor(requests, payouts),
           \/ after = payouts
           \/ \E i \in DOMAIN requests : /\ after = Append(payouts, PayoutOf(requests[i]))
                                         /\ PayoutOf(requests[i]) \in AnyCall
    PROVE  PaidFor(more, after)
<1>1. \A i \in DOMAIN requests : i \in DOMAIN more /\ more[i] = requests[i]
  BY GrownLog
<1>2. \A i \in DOMAIN payouts : \E j \in DOMAIN requests : payouts[i] = PayoutOf(requests[j])
  BY DEF PaidFor
<1>3. \A i \in DOMAIN after : \E j \in DOMAIN requests : after[i] = PayoutOf(requests[j])
  <2>1. CASE after = payouts
    BY <1>2, <2>1
  <2>2. CASE after # payouts
    <3>1. PICK n \in DOMAIN requests : /\ after = Append(payouts, PayoutOf(requests[n]))
                                       /\ PayoutOf(requests[n]) \in AnyCall
      BY <2>2
    <3> DEFINE p == PayoutOf(requests[n])
    <3>2. p \in AnyCall /\ after = Append(payouts, p)
      BY <3>1
    <3> HIDE DEF p
    <3>3. \A i \in DOMAIN after : (i \in DOMAIN payouts /\ after[i] = payouts[i]) \/ after[i] = p
      BY <3>2
    <3>4. QED
      BY <1>2, <3>3 DEF p
  <2>3. QED
    BY <2>1, <2>2
<1>4. QED
  BY <1>1, <1>3 DEF PaidFor

\* Where programs keep their invariants, payouts stay paid for.
LEMMA ProgramsStep ==
    ASSUME Programs, Moves, SP!DInv', LP!DInv'
    PROVE  Programs'
<1>1. /\ Grows(sol_requests, sol_requests', SP!Request)
      /\ Grows(lay_requests, lay_requests', LP!Request)
  BY LogsGrow
<1>2. /\ lay_payouts \in Seq(AnyCall) /\ sol_payouts \in Seq(AnyCall)
      /\ PaidFor(sol_requests, lay_payouts) /\ PaidFor(lay_requests, sol_payouts)
  BY LogTypes DEF Programs
<1>3. \/ lay_payouts' = lay_payouts
      \/ \E i \in DOMAIN sol_requests :
             /\ lay_payouts' = Append(lay_payouts, PayoutOf(sol_requests[i]))
             /\ PayoutOf(sol_requests[i]) \in AnyCall
  BY DEF Moves, SolanaCalled, SolanaPaid, SolayerCalled, SolayerPaid, BothIdle, LP!Called,
         LP!Paid, LP!Idle
<1>4. \/ sol_payouts' = sol_payouts
      \/ \E i \in DOMAIN lay_requests :
             /\ sol_payouts' = Append(sol_payouts, PayoutOf(lay_requests[i]))
             /\ PayoutOf(lay_requests[i]) \in AnyCall
  BY DEF Moves, SolanaCalled, SolanaPaid, SolayerCalled, SolayerPaid, BothIdle, SP!Called,
         SP!Paid, SP!Idle
<1>5. PaidFor(sol_requests', lay_payouts')
  BY <1>1, <1>2, <1>3, PaidForStep
<1>6. PaidFor(lay_requests', sol_payouts')
  BY <1>1, <1>2, <1>4, PaidForStep
<1>7. QED
  BY <1>5, <1>6 DEF Programs

\* While the bridge is trusted, the payouts of each chain are of calls of the other.
LEMMA TrustedPrograms ==
    ASSUME NEW F, BInv(F), Trusted
    PROVE  Programs
<1>1. PaidFor(lay_requests, sol_payouts)
  <2>1. ASSUME NEW i \in DOMAIN sol_payouts
        PROVE  \E j \in DOMAIN lay_requests : sol_payouts[i] = PayoutOf(lay_requests[j])
    <3>1. PICK r \in Asked : sol_payouts[i] = PayoutOf(r)
      BY DEF BInv, PaysOnly, Trusted, Vouched
    <3>2. r.tx[1] # "Solana"
      BY <3>1 DEF Trusted, Routed, PayoutOf
    <3>3. QED
      BY <3>1, <3>2, AskedCalls DEF BInv
  <2>2. QED
    BY <2>1 DEF PaidFor
<1>2. PaidFor(sol_requests, lay_payouts)
  <2>1. ASSUME NEW i \in DOMAIN lay_payouts
        PROVE  \E j \in DOMAIN sol_requests : lay_payouts[i] = PayoutOf(sol_requests[j])
    <3>1. PICK r \in Asked : lay_payouts[i] = PayoutOf(r)
      BY DEF BInv, PaysOnly, Trusted, Vouched
    <3>2. r.tx[1] # "Solayer"
      BY <3>1 DEF Trusted, Routed, PayoutOf
    <3>3. QED
      BY <3>1, <3>2, AskedCalls DEF BInv
  <2>2. QED
    BY <2>1 DEF PaidFor
<1>3. QED
  BY <1>1, <1>2 DEF BInv, Programs

\* What is not trusted any more is never trusted again.
LEMMA TrustedBefore ==
    ASSUME NEW F, IsFiniteSet(F), BInv(F), BridgeStep(F), Trusted'
    PROVE  Trusted
<1>1. Vouched
  BY SolanaProved, SolayerProved DEF BInv, BridgeStep, Trusted, Vouched
<1>2. \A i \in DOMAIN sol_payouts : i \in DOMAIN sol_payouts' /\ sol_payouts'[i] = sol_payouts[i]
  <2>1. \/ sol_payouts' = sol_payouts
        \/ \E p \in AnyCall : sol_payouts \in Seq(AnyCall) /\ sol_payouts' = Append(sol_payouts, p)
    BY CallsStay, SolanaPayoutAnswers DEF BridgeStep
  <2>2. QED
    BY <2>1
<1>3. \A i \in DOMAIN lay_payouts : i \in DOMAIN lay_payouts' /\ lay_payouts'[i] = lay_payouts[i]
  <2>1. \/ lay_payouts' = lay_payouts
        \/ \E p \in AnyCall : lay_payouts \in Seq(AnyCall) /\ lay_payouts' = Append(lay_payouts, p)
    BY CallsStay, SolayerPayoutAnswers DEF BridgeStep
  <2>2. QED
    BY <2>1
<1>4. QED
  BY <1>1, <1>2, <1>3 DEF Trusted, Routed

\* Every step keeps the invariant, whatever the guardians in F sign.
LEMMA BridgeInvariant ==
    ASSUME NEW F, IsFiniteSet(F), BInv(F), BridgeStep(F)
    PROVE  BInv(F)'
<1>1. SP!IInv' /\ SP!DInv' /\ LP!IInv' /\ LP!DInv'
  BY SolanaProved, SolayerProved DEF BInv, BridgeStep
<1>2. Cardinality(F) < sol_threshold' /\ Cardinality(F) < lay_threshold'
  BY DEF BInv, BridgeStep
<1>3. Asked \subseteq Asked'
  BY CallsStay
<1>4. SignedFor(F, attested', Asked')
  BY <1>3, SignedStep DEF BInv, BridgeStep
<1>5. ASSUME sol_audit'.vouched PROVE PaysOnly(sol_payouts', Asked')
  <2>1. PaysOnly(sol_payouts, Asked) /\ sol_payouts \in Seq(AnyCall)
    BY <1>5, SolanaProved, LogTypes DEF BInv, BridgeStep
  <2>2. \/ sol_payouts' = sol_payouts
        \/ \E p \in AnyCall : /\ sol_payouts' = Append(sol_payouts, p)
                              /\ \E r \in Asked : p = PayoutOf(r)
    BY <1>5, CallsStay, SolanaPayoutAnswers DEF BridgeStep
  <2>3. QED
    BY <1>3, <2>1, <2>2, PaysOnlyStep
<1>6. ASSUME lay_audit'.vouched PROVE PaysOnly(lay_payouts', Asked')
  <2>1. PaysOnly(lay_payouts, Asked) /\ lay_payouts \in Seq(AnyCall)
    BY <1>6, SolayerProved, LogTypes DEF BInv, BridgeStep
  <2>2. \/ lay_payouts' = lay_payouts
        \/ \E p \in AnyCall : /\ lay_payouts' = Append(lay_payouts, p)
                              /\ \E r \in Asked : p = PayoutOf(r)
    BY <1>6, CallsStay, SolayerPayoutAnswers DEF BridgeStep
  <2>3. QED
    BY <1>3, <2>1, <2>2, PaysOnlyStep
<1>7. QED
  BY <1>1, <1>2, <1>4, <1>5, <1>6 DEF BInv

\* As long as the bridge is trusted, a step finds the programs in order, leaves
\* them in order, and is one of Moves.
LEMMA TrustedStep ==
    ASSUME NEW F, IsFiniteSet(F), BInv(F), BridgeStep(F), Trusted'
    PROVE  Programs /\ Programs' /\ Moves /\ Trusted
<1>1. Trusted /\ Programs
  BY TrustedBefore, TrustedPrograms
<1>2. Moves
  BY StepKinds
<1>3. Programs'
  BY <1>1, <1>2, BridgeInvariant, ProgramsStep DEF BInv
<1>4. QED
  BY <1>1, <1>2, <1>3

-----------------------------------------------------------------------------
(***************************************************************************)
(* The invariant at the start, and what follows.                           *)
(***************************************************************************)

\* The guardians as a list: each of them once.
LEMMA GuardianListType ==
    ASSUME NEW list \in SetToSeqs(Guardian)
    PROVE  /\ list \in Seq(Guardian) /\ Len(list) = Cardinality(Guardian)
           /\ \A i, j \in 1..Len(list) : list[i] = list[j] => i = j
<1>1. list \in [1..Cardinality(Guardian) -> Guardian]
      /\ \A i, j \in DOMAIN list : list[i] = list[j] => i = j
  BY DEF SetToSeqs, IsInjective
<1>2. Cardinality(Guardian) \in Nat
  BY GuardianAssumption
<1>3. list \in Seq(Guardian) /\ Len(list) = Cardinality(Guardian)
  BY <1>1, <1>2
<1>4. QED
  BY <1>1, <1>3

\* Both programs start with a list of guardians and a threshold it can reach.
LEMMA InitGuardians ==
    ASSUME NEW list \in SetToSeqs(Guardian), NEW thr \in 1..Cardinality(Guardian),
           GuardedBy(list, thr)
    PROVE  SP!IInv /\ LP!IInv
<1>1. /\ list \in Seq(Guardian) /\ Len(list) = Cardinality(Guardian)
      /\ \A i, j \in 1..Len(list) : list[i] = list[j] => i = j
      /\ DOMAIN list = 1..Len(list)
  BY GuardianListType
<1>2. Len(list) <= 15 /\ thr \in 1..15 /\ thr <= Len(list)
  BY <1>1, GuardianAssumption
<1>3. SP!IInv
  <2>1. SP!TypeOK
    BY <1>1, <1>2 DEF GuardedBy, SP!TypeOK, SP!IsInjective
  <2>2. SP!ThresholdWithinList
    BY <1>1, <1>2 DEF GuardedBy, SP!ThresholdWithinList
  <2>3. SP!RecordsNameSigners
    BY DEF GuardedBy, SP!RecordsNameSigners
  <2>4. QED
    BY <2>1, <2>2, <2>3 DEF SP!IInv
<1>4. LP!IInv
  <2>1. LP!TypeOK
    BY <1>1, <1>2 DEF GuardedBy, LP!TypeOK, LP!IsInjective
  <2>2. LP!ThresholdWithinList
    BY <1>1, <1>2 DEF GuardedBy, LP!ThresholdWithinList
  <2>3. LP!RecordsNameSigners
    BY DEF GuardedBy, LP!RecordsNameSigners
  <2>4. QED
    BY <2>1, <2>2, <2>3 DEF LP!IInv
<1>5. QED
  BY <1>3, <1>4

\* At the start no program has logged anything.
LEMMA InitPrograms ==
    ASSUME Solana!ProgramInit, Solayer!ProgramInit
    PROVE  Programs /\ sol_payouts = <<>> /\ lay_payouts = <<>>
<1>1. SP!ProgramInit /\ LP!ProgramInit
  BY SolanaInit, SolayerInit
<1>2. SP!DInv /\ LP!DInv
  BY <1>1, SolanaProved, SolayerProved
<1>3. QED
  BY <1>1, <1>2 DEF SP!ProgramInit, LP!ProgramInit, Programs, PaidFor

\* The invariant holds at the start.
LEMMA InitBridgeInvariant ==
    ASSUME NEW F, NEW list \in SetToSeqs(Guardian), NEW thr \in 1..Cardinality(Guardian),
           GuardedBy(list, thr), Cardinality(F) < thr,
           Solana!ProgramInit, Solayer!ProgramInit
    PROVE  BInv(F)
<1>1. SP!IInv /\ LP!IInv
  BY InitGuardians
<1>2. SP!DInv /\ LP!DInv
  BY InitPrograms DEF Programs
<1>3. PaysOnly(sol_payouts, Asked) /\ PaysOnly(lay_payouts, Asked)
  BY InitPrograms DEF PaysOnly
<1>4. SignedFor(F, attested, Asked)
  BY DEF GuardedBy, SignedFor
<1>5. QED
  BY <1>1, <1>2, <1>3, <1>4 DEF BInv, GuardedBy

\* The invariant says of payouts what OnlyRequested says.
LEMMA PaysOnlyRequested == ASSUME NEW F, BInv(F) PROVE OnlyRequested
<1>1. IsInjective(lay_payouts)
  BY DEF BInv, LP!DInv, LP!PaidOncePerTransaction, IsInjective
<1>2. IsInjective(sol_payouts)
  BY DEF BInv, SP!DInv, SP!PaidOncePerTransaction, IsInjective
<1>3. \A payouts : PaysOnly(payouts, Asked) => AnswersCalls(payouts)
  <2>1. \A r \in Asked : \E i \in DOMAIN AllRequests : r = AllRequests[i]
    BY AskedCalls DEF BInv
  <2>2. QED
    BY <2>1 DEF PaysOnly, AnswersCalls
<1>4. QED
  BY <1>1, <1>2, <1>3 DEF BInv, OnlyRequested

\* The invariant holds of the bridge, where no guardian signs wrongly.
LEMMA BridgeInvariance == BridgeSpec => []BInv({})
<1>1. IsFiniteSet({}) /\ Cardinality({}) = 0
  BY FS_EmptySet
<1>2. BridgeInit => BInv({})
  <2>1. SUFFICES ASSUME BridgeInit PROVE BInv({})
    OBVIOUS
  <2>2. PICK list \in SetToSeqs(Guardian) : GuardedBy(list, Cardinality(Guardian))
    BY <2>1 DEF BridgeInit
  <2>3. Cardinality(Guardian) \in 1..Cardinality(Guardian) /\ 0 < Cardinality(Guardian)
    BY GuardianAssumption
  <2>4. QED
    BY <1>1, <2>1, <2>2, <2>3, InitBridgeInvariant DEF BridgeInit
<1>3. BInv({}) /\ [BridgeNext]_bridgeVars => BInv({})'
  BY <1>1, NextIsBridgeStep, BridgeInvariant
<1>4. QED
  BY <1>2, <1>3, PTL DEF BridgeSpec

\* On a chain where every record paid on was undisturbed, operators have paid
\* nothing but what users called for; and never a call twice on one chain.
THEOREM PayoutsAreRequested == BridgeSpec => []OnlyRequested
<1>1. BInv({}) => OnlyRequested
  BY PaysOnlyRequested
<1>2. QED
  BY <1>1, BridgeInvariance, PTL

-----------------------------------------------------------------------------
(***************************************************************************)
(* Everything called for and not yet delivered, and every wrapped token,   *)
(* is held on the other chain: sums over what is on its way, and over the  *)
(* balances of both deployments.                                           *)
(*                                                                         *)
(* What is on its way: a call joins it, the payout of that call takes it   *)
(* out again.                                                              *)
(***************************************************************************)

InTransit == ToSolayer \cup ToSolana

\* A call is undelivered if no payout answers it.
LEMMA UndeliveredMembers ==
    ASSUME NEW requests, NEW payouts
    PROVE  Undelivered(requests, payouts) =
               {r \in ToSet(requests) : PayoutOf(r) \notin ToSet(payouts)}
  BY DEF Undelivered, Answered, ToSet

\* Nonces tell the calls of a log apart, and their payouts.
Numbered(requests) ==
    /\ requests \in Seq(LoggedCall)
    /\ \A i \in DOMAIN requests : requests[i].nonce = i - 1

\* A call logged is a call undelivered.
LEMMA CallJoins ==
    ASSUME NEW requests, NEW payouts, Numbered(requests), PaidFor(requests, payouts),
           NEW r \in LoggedCall, r.nonce = Len(requests)
    PROVE  /\ Undelivered(Append(requests, r), payouts) = Undelivered(requests, payouts) \cup {r}
           /\ r \notin Undelivered(requests, payouts)
<1>1. ToSet(Append(requests, r)) = ToSet(requests) \cup {r}
  <2>1. /\ DOMAIN Append(requests, r) = DOMAIN requests \cup {Len(requests) + 1}
        /\ \A i \in DOMAIN requests : Append(requests, r)[i] = requests[i]
        /\ Append(requests, r)[Len(requests) + 1] = r
    BY DEF Numbered
  <2>2. QED
    BY <2>1 DEF ToSet
<1>2. \A i \in DOMAIN requests : requests[i].nonce # r.nonce
  BY DEF Numbered
<1>3. r \notin ToSet(requests)
  BY <1>2 DEF ToSet
<1>4. \A x : PayoutOf(x).nonce = x.nonce
  BY DEF PayoutOf
<1>5. PayoutOf(r) \notin ToSet(payouts)
  BY <1>2, <1>4 DEF PaidFor, ToSet
<1>6. QED
  BY <1>1, <1>3, <1>5, UndeliveredMembers

\* A payout made is a call delivered, and no other.
LEMMA PayoutLeaves ==
    ASSUME NEW requests, NEW payouts, Numbered(requests), NEW S, payouts \in Seq(S),
           NEW i \in DOMAIN requests, PayoutOf(requests[i]) \in S,
           \A k \in DOMAIN payouts : payouts[k] # PayoutOf(requests[i])
    PROVE  /\ Undelivered(requests, Append(payouts, PayoutOf(requests[i]))) =
                  Undelivered(requests, payouts) \ {requests[i]}
           /\ requests[i] \in Undelivered(requests, payouts)
<1> DEFINE r == requests[i]
           p == PayoutOf(r)
<1>1. ToSet(Append(payouts, p)) = ToSet(payouts) \cup {p}
  <2>1. /\ DOMAIN Append(payouts, p) = DOMAIN payouts \cup {Len(payouts) + 1}
        /\ \A k \in DOMAIN payouts : Append(payouts, p)[k] = payouts[k]
        /\ Append(payouts, p)[Len(payouts) + 1] = p
    OBVIOUS
  <2>2. QED
    BY <2>1 DEF ToSet
<1>2. p \notin ToSet(payouts)
  BY DEF ToSet
<1>3. \A x \in ToSet(requests) : PayoutOf(x) = p => x = r
  <2>1. \A x : PayoutOf(x).nonce = x.nonce
    BY DEF PayoutOf
  <2>2. \A j \in DOMAIN requests : PayoutOf(requests[j]) = p => j = i
    BY <2>1 DEF Numbered
  <2>3. QED
    BY <2>2 DEF ToSet
<1>4. r \in ToSet(requests)
  BY DEF ToSet
<1> HIDE DEF r, p
<1>5. ToSet(Append(payouts, p)) = ToSet(payouts) \cup {p} /\ PayoutOf(r) = p
  BY <1>1 DEF p
<1>6. /\ Undelivered(requests, Append(payouts, p)) = Undelivered(requests, payouts) \ {r}
      /\ r \in Undelivered(requests, payouts)
  BY <1>2, <1>3, <1>4, <1>5, UndeliveredMembers
<1>7. QED
  BY <1>6 DEF r, p

\* The logs of both chains are numbered.
LEMMA LogsNumbered ==
    ASSUME Programs
    PROVE  Numbered(sol_requests) /\ Numbered(lay_requests)
  BY LogTypes DEF Programs, SP!DInv, LP!DInv, SP!NoncesCount, LP!NoncesCount, Numbered

\* A log holds finitely many calls.
LEMMA LogIsFinite ==
    ASSUME NEW S, NEW log \in Seq(S)
    PROVE  IsFiniteSet(ToSet(log)) /\ ToSet(log) \subseteq S
<1>1. /\ IsFiniteSet(1..Len(log)) /\ DOMAIN log = 1..Len(log)
      /\ \A i \in 1..Len(log) : log[i] \in S /\ log[i] \in ToSet(log)
      /\ \A x \in ToSet(log) : \E i \in 1..Len(log) : log[i] = x
  <2>1. IsFiniteSet(1..Len(log)) /\ DOMAIN log = 1..Len(log)
    BY FS_Interval
  <2>2. QED
    BY <2>1 DEF ToSet
<1>2. log \in Surjection(1..Len(log), ToSet(log))
  BY <1>1, Fun_IsSurj
<1>3. QED
  BY <1>1, <1>2, FS_Surjection

\* What is in transit are calls, those to Solana and to Solayer not the same.
LEMMA TransitType ==
    ASSUME Programs
    PROVE  /\ IsFiniteSet(InTransit) /\ InTransit \subseteq LoggedCall
           /\ ToSolayer \subseteq SP!Request /\ ToSolana \subseteq LP!Request
           /\ ToSolayer \cap LP!Request = {} /\ ToSolana \cap SP!Request = {}
<1>1. ToSolayer \subseteq ToSet(sol_requests) /\ ToSolana \subseteq ToSet(lay_requests)
  BY UndeliveredMembers DEF ToSolayer, ToSolana
<1>2. /\ IsFiniteSet(ToSet(sol_requests)) /\ ToSet(sol_requests) \subseteq SP!Request
      /\ IsFiniteSet(ToSet(lay_requests)) /\ ToSet(lay_requests) \subseteq LP!Request
  BY LogTypes, LogIsFinite DEF Programs
<1>3. IsFiniteSet(ToSet(sol_requests) \cup ToSet(lay_requests))
  BY <1>2, FS_Union
<1>4. IsFiniteSet(InTransit)
  BY <1>1, <1>3, FS_Subset DEF InTransit
<1>5. SP!Request \subseteq LoggedCall /\ LP!Request \subseteq LoggedCall
  BY RequestTypes
<1>6. SP!Request \cap LP!Request = {}
  BY RequestTypes
<1>7. QED
  BY <1>1, <1>2, <1>4, <1>5, <1>6 DEF InTransit

\* A call on Solana joins what is on its way.
LEMMA SolanaCallInTransit ==
    ASSUME Programs, NEW r, NEW fee, SolanaCalled(r, fee)
    PROVE  /\ r \in SP!Request /\ r \in LoggedCall
           /\ InTransit' = InTransit \cup {r} /\ r \notin InTransit
<1>1. /\ r \in SP!Request /\ r.nonce = sol_handler.nonce
      /\ sol_requests' = Append(sol_requests, r)
      /\ UNCHANGED <<sol_payouts, lay_requests, lay_payouts>>
  BY DEF SolanaCalled, SP!Called, LP!Idle
<1>2. r \in LoggedCall
  BY <1>1, RequestTypes
<1>3. r.nonce = Len(sol_requests)
  BY <1>1 DEF Programs, SP!DInv, SP!NoncesCount
<1>4. Numbered(sol_requests) /\ PaidFor(sol_requests, lay_payouts)
  BY LogsNumbered DEF Programs
<1>5. ToSolayer' = ToSolayer \cup {r} /\ r \notin ToSolayer
  BY <1>1, <1>2, <1>3, <1>4, CallJoins DEF ToSolayer
<1>6. ToSolana' = ToSolana
  BY <1>1 DEF ToSolana, Undelivered, Answered, ToSet
<1>7. r \notin ToSolana
  BY <1>1, TransitType
<1>8. QED
  BY <1>1, <1>2, <1>5, <1>6, <1>7 DEF InTransit

\* A payout on Solana takes the call on TSolana out of what is on its way.
LEMMA SolanaPayoutInTransit ==
    ASSUME Programs, NEW r, SolanaPaid(r)
    PROVE  /\ r \in LP!Request /\ r \in LoggedCall
           /\ InTransit' = InTransit \ {r} /\ r \in InTransit
<1>1. PICK i \in DOMAIN lay_requests : r = lay_requests[i]
  BY DEF SolanaPaid
<1>2. /\ sol_payouts' = Append(sol_payouts, PayoutOf(r))
      /\ \A k \in DOMAIN sol_payouts : sol_payouts[k] # PayoutOf(r)
      /\ UNCHANGED <<sol_requests, lay_requests, lay_payouts>>
  BY DEF SolanaPaid, SP!Paid, LP!Idle
<1>3. r \in LP!Request /\ r \in LoggedCall
  BY <1>1, LogTypes, RequestTypes DEF Programs
<1>4. PayoutOf(r) \in AnyCall /\ sol_payouts \in Seq(AnyCall) /\ Numbered(lay_requests)
  BY <1>3, LogTypes, PayoutIsCall, LogsNumbered DEF Programs
<1>5. /\ Undelivered(lay_requests, Append(sol_payouts, PayoutOf(r))) =
              Undelivered(lay_requests, sol_payouts) \ {r}
      /\ r \in Undelivered(lay_requests, sol_payouts)
  BY <1>1, <1>2, <1>4, PayoutLeaves
<1>6. ToSolana' = ToSolana \ {r} /\ r \in ToSolana
  BY <1>2, <1>5 DEF ToSolana
<1>7. ToSolayer' = ToSolayer
  BY <1>2 DEF ToSolayer, Undelivered, Answered, ToSet
<1>8. r \notin ToSolayer
  BY <1>3, TransitType
<1>9. QED
  BY <1>3, <1>6, <1>7, <1>8 DEF InTransit

\* A call on Solayer joins what is on its way.
LEMMA SolayerCallInTransit ==
    ASSUME Programs, NEW r, NEW fee, SolayerCalled(r, fee)
    PROVE  /\ r \in LP!Request /\ r \in LoggedCall
           /\ InTransit' = InTransit \cup {r} /\ r \notin InTransit
<1>1. /\ r \in LP!Request /\ r.nonce = lay_handler.nonce
      /\ lay_requests' = Append(lay_requests, r)
      /\ UNCHANGED <<lay_payouts, sol_requests, sol_payouts>>
  BY DEF SolayerCalled, LP!Called, SP!Idle
<1>2. r \in LoggedCall
  BY <1>1, RequestTypes
<1>3. r.nonce = Len(lay_requests)
  BY <1>1 DEF Programs, LP!DInv, LP!NoncesCount
<1>4. Numbered(lay_requests) /\ PaidFor(lay_requests, sol_payouts)
  BY LogsNumbered DEF Programs
<1>5. ToSolana' = ToSolana \cup {r} /\ r \notin ToSolana
  BY <1>1, <1>2, <1>3, <1>4, CallJoins DEF ToSolana
<1>6. ToSolayer' = ToSolayer
  BY <1>1 DEF ToSolayer, Undelivered, Answered, ToSet
<1>7. r \notin ToSolayer
  BY <1>1, TransitType
<1>8. QED
  BY <1>1, <1>2, <1>5, <1>6, <1>7 DEF InTransit

\* A payout on Solayer takes the call on TSolayer out of what is on its way.
LEMMA SolayerPayoutInTransit ==
    ASSUME Programs, NEW r, SolayerPaid(r)
    PROVE  /\ r \in SP!Request /\ r \in LoggedCall
           /\ InTransit' = InTransit \ {r} /\ r \in InTransit
<1>1. PICK i \in DOMAIN sol_requests : r = sol_requests[i]
  BY DEF SolayerPaid
<1>2. /\ lay_payouts' = Append(lay_payouts, PayoutOf(r))
      /\ \A k \in DOMAIN lay_payouts : lay_payouts[k] # PayoutOf(r)
      /\ UNCHANGED <<lay_requests, sol_requests, sol_payouts>>
  BY DEF SolayerPaid, LP!Paid, SP!Idle
<1>3. r \in SP!Request /\ r \in LoggedCall
  BY <1>1, LogTypes, RequestTypes DEF Programs
<1>4. PayoutOf(r) \in AnyCall /\ lay_payouts \in Seq(AnyCall) /\ Numbered(sol_requests)
  BY <1>3, LogTypes, PayoutIsCall, LogsNumbered DEF Programs
<1>5. /\ Undelivered(sol_requests, Append(lay_payouts, PayoutOf(r))) =
              Undelivered(sol_requests, lay_payouts) \ {r}
      /\ r \in Undelivered(sol_requests, lay_payouts)
  BY <1>1, <1>2, <1>4, PayoutLeaves
<1>6. ToSolayer' = ToSolayer \ {r} /\ r \in ToSolayer
  BY <1>2, <1>5 DEF ToSolayer
<1>7. ToSolana' = ToSolana
  BY <1>2 DEF ToSolana, Undelivered, Answered, ToSet
<1>8. r \notin ToSolana
  BY <1>3, TransitType
<1>9. QED
  BY <1>3, <1>6, <1>7, <1>8 DEF InTransit

\* Where nothing is called or paid, the same calls are on their way.
LEMMA IdleInTransit == BothIdle => InTransit' = InTransit
  BY DEF BothIdle, SP!Idle, LP!Idle, InTransit, ToSolayer, ToSolana, Undelivered, Answered,
         ToSet

-----------------------------------------------------------------------------
(***************************************************************************)
(* Backed: what a step adds to one side it adds to what is on its way.     *)
(***************************************************************************)

\* The sums of the deployments are the sums of the bridge.
LEMMA SumsAgree ==
    \A f : SP!SumFunction(f) = SumFunction(f) /\ LP!SumFunction(f) = SumFunction(f)
  BY DEF SP!SumFunction, LP!SumFunction, SumFunction, SP!SumFunctionOnSet, LP!SumFunctionOnSet,
         SumFunctionOnSet, SP!FoldFunctionOnSet, LP!FoldFunctionOnSet, FoldFunctionOnSet,
         SP!MapThenFoldSet, LP!MapThenFoldSet, MapThenFoldSet

\* What was proved of the sums of a deployment, of the one on Solana.
LEMMA SolanaSumsProved ==
    /\ SP!DInv => /\ SumFunction(sol_lamports) \in Int /\ sol_lamports["handler"] \in Int
                   /\ \A m \in SP!Mint : /\ SumFunction(sol_tokens[m]) \in Int
                                          /\ sol_tokens[m]["vault"] \in Int
    /\ SP!DInv /\ SP!DInv' => \A r, fee : SP!Called(r, fee) =>
           /\ \A m \in SP!Mint :
                  LET lock == IF m \in SolanaMint THEN SP!TokensOf(r, m) ELSE 0
                  IN  /\ SumFunction(sol_tokens'[m]) =
                             SumFunction(sol_tokens[m]) - SP!TokensOf(r, m) + lock
                      /\ sol_tokens'[m]["vault"] = sol_tokens[m]["vault"] + lock
           /\ sol_lamports'["handler"] = sol_lamports["handler"] + SP!SolOf(r)
    /\ SP!DInv /\ SP!DInv' => \A p : SP!Paid(p) =>
           /\ \A m \in SP!Mint :
                  LET unlock == IF m \in SolanaMint THEN SP!TokensOf(p, m) ELSE 0
                  IN  /\ SumFunction(sol_tokens'[m]) =
                             SumFunction(sol_tokens[m]) + SP!TokensOf(p, m) - unlock
                      /\ sol_tokens'[m]["vault"] = sol_tokens[m]["vault"] - unlock
           /\ sol_lamports'["handler"] = sol_lamports["handler"] - SP!SolOf(p)
<1> USE SolanaAssumptions
    DEF SP!CountAssumption, SP!TimeAssumption, SP!ChainAssumption, SP!AmountAssumption,
        SP!PriceAssumption, SP!PayoutAssumption, SP!MintAssumption, SP!KeyAssumption,
        SP!InstructionIndexAssumption
<1>1. ASSUME SP!DInv
      PROVE  /\ SumFunction(sol_lamports) \in Int
             /\ \A m \in SP!Mint : SumFunction(sol_tokens[m]) \in Int
  BY <1>1, SP!SumsType, SumsAgree
<1>2. ASSUME SP!DInv
      PROVE  /\ sol_lamports["handler"] \in Int
             /\ \A m \in SP!Mint : sol_tokens[m]["vault"] \in Int
  BY <1>2 DEF SP!DInv, SP!ProgramTypeOK, SP!BalancesTypeOK, SP!HANDLER, SP!VAULT
<1>3. ASSUME SP!DInv, SP!DInv', NEW r, NEW fee, SP!Called(r, fee)
      PROVE  /\ \A m \in SP!Mint :
                  LET lock == IF m \in SolanaMint THEN SP!TokensOf(r, m) ELSE 0
                  IN  /\ SumFunction(sol_tokens'[m]) =
                             SumFunction(sol_tokens[m]) - SP!TokensOf(r, m) + lock
                      /\ sol_tokens'[m]["vault"] = sol_tokens[m]["vault"] + lock
             /\ sol_lamports'["handler"] = sol_lamports["handler"] + SP!SolOf(r)
  BY <1>3, SP!CallSums, SumsAgree DEF SP!VAULT, SP!HANDLER
<1>4. ASSUME SP!DInv, SP!DInv', NEW p, SP!Paid(p)
      PROVE  /\ \A m \in SP!Mint :
                  LET unlock == IF m \in SolanaMint THEN SP!TokensOf(p, m) ELSE 0
                  IN  /\ SumFunction(sol_tokens'[m]) =
                             SumFunction(sol_tokens[m]) + SP!TokensOf(p, m) - unlock
                      /\ sol_tokens'[m]["vault"] = sol_tokens[m]["vault"] - unlock
             /\ sol_lamports'["handler"] = sol_lamports["handler"] - SP!SolOf(p)
  BY <1>4, SP!PayoutSums, SumsAgree DEF SP!VAULT, SP!HANDLER
<1>5. QED
  BY <1>1, <1>2, <1>3, <1>4

\* What was proved of the sums of a deployment, of the one on Solayer.
LEMMA SolayerSumsProved ==
    /\ LP!DInv => /\ SumFunction(lay_lamports) \in Int /\ lay_lamports["handler"] \in Int
                   /\ \A m \in LP!Mint : /\ SumFunction(lay_tokens[m]) \in Int
                                          /\ lay_tokens[m]["vault"] \in Int
    /\ LP!DInv /\ LP!DInv' => \A r, fee : LP!Called(r, fee) =>
           /\ \A m \in LP!Mint :
                  LET lock == IF m \in SolayerMint THEN LP!TokensOf(r, m) ELSE 0
                  IN  /\ SumFunction(lay_tokens'[m]) =
                             SumFunction(lay_tokens[m]) - LP!TokensOf(r, m) + lock
                      /\ lay_tokens'[m]["vault"] = lay_tokens[m]["vault"] + lock
           /\ SumFunction(lay_lamports') = SumFunction(lay_lamports) - LP!SolOf(r)
    /\ LP!DInv /\ LP!DInv' => \A p : LP!Paid(p) =>
           /\ \A m \in LP!Mint :
                  LET unlock == IF m \in SolayerMint THEN LP!TokensOf(p, m) ELSE 0
                  IN  /\ SumFunction(lay_tokens'[m]) =
                             SumFunction(lay_tokens[m]) + LP!TokensOf(p, m) - unlock
                      /\ lay_tokens'[m]["vault"] = lay_tokens[m]["vault"] - unlock
           /\ SumFunction(lay_lamports') = SumFunction(lay_lamports) + LP!SolOf(p)
<1> USE SolayerAssumptions
    DEF LP!CountAssumption, LP!TimeAssumption, LP!ChainAssumption, LP!AmountAssumption,
        LP!PriceAssumption, LP!PayoutAssumption, LP!MintAssumption, LP!KeyAssumption,
        LP!InstructionIndexAssumption
<1>1. ASSUME LP!DInv
      PROVE  /\ SumFunction(lay_lamports) \in Int
             /\ \A m \in LP!Mint : SumFunction(lay_tokens[m]) \in Int
  BY <1>1, LP!SumsType, SumsAgree
<1>2. ASSUME LP!DInv
      PROVE  /\ lay_lamports["handler"] \in Int
             /\ \A m \in LP!Mint : lay_tokens[m]["vault"] \in Int
  BY <1>2 DEF LP!DInv, LP!ProgramTypeOK, LP!BalancesTypeOK, LP!HANDLER, LP!VAULT
<1>3. ASSUME LP!DInv, LP!DInv', NEW r, NEW fee, LP!Called(r, fee)
      PROVE  /\ \A m \in LP!Mint :
                  LET lock == IF m \in SolayerMint THEN LP!TokensOf(r, m) ELSE 0
                  IN  /\ SumFunction(lay_tokens'[m]) =
                             SumFunction(lay_tokens[m]) - LP!TokensOf(r, m) + lock
                      /\ lay_tokens'[m]["vault"] = lay_tokens[m]["vault"] + lock
             /\ SumFunction(lay_lamports') = SumFunction(lay_lamports) - LP!SolOf(r)
  <2>1. LP!SolOf(r) \in Int /\ SumFunction(lay_lamports) \in Int
    BY <1>1, <1>3, RequestTypes DEF LP!Called, LoggedCall, LP!SolOf
  <2>2. QED
    BY <1>3, <2>1, LP!CallSums, SumsAgree DEF LP!VAULT, LP!HANDLER
<1>4. ASSUME LP!DInv, LP!DInv', NEW p, LP!Paid(p)
      PROVE  /\ \A m \in LP!Mint :
                  LET unlock == IF m \in SolayerMint THEN LP!TokensOf(p, m) ELSE 0
                  IN  /\ SumFunction(lay_tokens'[m]) =
                             SumFunction(lay_tokens[m]) + LP!TokensOf(p, m) - unlock
                      /\ lay_tokens'[m]["vault"] = lay_tokens[m]["vault"] - unlock
             /\ SumFunction(lay_lamports') = SumFunction(lay_lamports) + LP!SolOf(p)
  <2>1. LP!SolOf(p) \in Int /\ SumFunction(lay_lamports) \in Int
    BY <1>1, <1>4 DEF LP!Paid
  <2>2. QED
    BY <1>4, <2>1, LP!PayoutSums, SumsAgree DEF LP!VAULT, LP!HANDLER
<1>5. QED
  BY <1>1, <1>2, <1>3, <1>4

\* The part of a call that is about asset m, and what either side holds of m:
\* locked at home, wrapped on the other chain.
Carries(r, m) == IF r.mint \in {m, MintThere(m)} THEN r.amount ELSE 0
SolanaSide(m) == IF m \in SolanaMint THEN sol_tokens[m]["vault"]
                                     ELSE SumFunction(sol_tokens[MintThere(m)])
SolayerSide(m) == IF m \in SolanaMint THEN SumFunction(lay_tokens[MintThere(m)])
                                      ELSE lay_tokens[m]["vault"]

\* No mint of one deployment stands for an asset where it does not belong.
LEMMA MintsMatch ==
    /\ \A x \in SP!Mint \cup {SOL} : /\ \A m \in SolanaMint : x # MintThere(m)
                                     /\ \A m \in SolayerMint : x # m
    /\ \A x \in LP!Mint \cup {SOL} : /\ \A m \in SolayerMint : x # MintThere(m)
                                     /\ \A m \in SolanaMint : x # m
    /\ \A x \in Token \cup {SOL}, m \in Asset :
           /\ MintThere(x) = m <=> x = MintThere(m)
           /\ MintThere(x) = MintThere(m) <=> x = m
<1>1. \A x \in Token \cup {SOL} : MintThere(MintThere(x)) = x
  BY MintFacts
<1>2. Asset \subseteq Token /\ SOL \notin Token /\ \A m \in Asset : MintThere(m) \in Token
  BY MintFacts
<1>3. \A x \in SP!Mint : /\ \A m \in SolanaMint : x # MintThere(m)
                         /\ \A m \in SolayerMint : x # m
  BY <1>1, <1>2, MintFacts, MintSides
<1>4. \A x \in LP!Mint : /\ \A m \in SolayerMint : x # MintThere(m)
                         /\ \A m \in SolanaMint : x # m
  BY <1>1, <1>2, MintFacts, MintSides
<1>5. \A m \in Asset : SOL # m /\ SOL # MintThere(m)
  BY <1>2
<1>6. \A x \in Token \cup {SOL}, m \in Asset :
           /\ MintThere(x) = m <=> x = MintThere(m)
           /\ MintThere(x) = MintThere(m) <=> x = m
  BY <1>1, <1>2
<1>7. SolanaMint \subseteq Asset /\ SolayerMint \subseteq Asset
  BY MintFacts
<1>8. QED
  BY <1>3, <1>4, <1>5, <1>6, <1>7

\* What a call or its payout moves on Solana, in terms of the call.
LEMMA SolanaCarries ==
    /\ \A r \in SP!Request :
           /\ \A m \in SolanaMint : SP!TokensOf(r, m) = Carries(r, m)
           /\ \A m \in SolayerMint : SP!TokensOf(r, MintThere(m)) = Carries(r, m)
           /\ SP!SolOf(r) = Solana!SolOf(r)
    /\ \A r \in LP!Request :
           /\ \A m \in SolanaMint : SP!TokensOf(PayoutOf(r), m) = Carries(r, m)
           /\ \A m \in SolayerMint : SP!TokensOf(PayoutOf(r), MintThere(m)) = Carries(r, m)
           /\ SP!SolOf(PayoutOf(r)) = Solana!SolOf(r)
<1>1. ASSUME NEW r \in SP!Request
      PROVE  /\ \A m \in SolanaMint : SP!TokensOf(r, m) = Carries(r, m)
             /\ \A m \in SolayerMint : SP!TokensOf(r, MintThere(m)) = Carries(r, m)
  <2>1. r.mint \in SP!Mint \cup {SOL}
    BY RequestTypes
  <2>2. QED
    BY <2>1, MintsMatch DEF SP!TokensOf, Carries
<1>2. ASSUME NEW r \in LP!Request
      PROVE  /\ \A m \in SolanaMint : SP!TokensOf(PayoutOf(r), m) = Carries(r, m)
             /\ \A m \in SolayerMint : SP!TokensOf(PayoutOf(r), MintThere(m)) = Carries(r, m)
  <2>1. r.mint \in LP!Mint \cup {SOL} /\ LP!Mint \subseteq Token
    BY RequestTypes, MintSides
  <2>2. PayoutOf(r).mint = MintThere(r.mint) /\ PayoutOf(r).amount = r.amount
    BY DEF PayoutOf
  <2>3. SolanaMint \subseteq Asset /\ SolayerMint \subseteq Asset
    BY MintFacts
  <2>4. QED
    BY <2>1, <2>2, <2>3, MintsMatch DEF SP!TokensOf, Carries
<1>3. \A r : SP!SolOf(r) = Solana!SolOf(r) /\ SP!SolOf(PayoutOf(r)) = Solana!SolOf(r)
  BY DEF SP!SolOf, Solana!SolOf, PayoutOf
<1>4. QED
  BY <1>1, <1>2, <1>3

\* What a call on Solana changes on either side.
LEMMA SolanaSideCall ==
    ASSUME Programs, Programs', NEW r, NEW fee, SolanaCalled(r, fee)
    PROVE  /\ \A m \in Asset :
                  /\ SolanaSide(m)' =
                         SolanaSide(m) + (IF m \in SolanaMint THEN Carries(r, m)
                                                              ELSE 0 - Carries(r, m))
                  /\ SolayerSide(m)' = SolayerSide(m)
           /\ sol_lamports'["handler"] = sol_lamports["handler"] + Solana!SolOf(r)
           /\ SumFunction(lay_lamports') = SumFunction(lay_lamports)
<1>1. SP!DInv /\ SP!DInv' /\ LP!DInv /\ SP!Called(r, fee) /\ r \in SP!Request
  BY DEF Programs, SolanaCalled, SP!Called
<1>2. UNCHANGED <<lay_tokens, lay_lamports>>
  BY DEF SolanaCalled, LP!Idle
<1>3. /\ \A m \in SolanaMint :
             /\ Carries(r, m) \in Int
             /\ SP!TokensOf(r, m) = Carries(r, m)
      /\ \A m \in SolayerMint :
             /\ Carries(r, m) \in Int
             /\ SP!TokensOf(r, MintThere(m)) = Carries(r, m)
      /\ SP!SolOf(r) = Solana!SolOf(r) /\ Solana!SolOf(r) \in Int
  <2>1. r.amount \in Nat /\ r.gas \in Nat
    BY <1>1, RequestTypes DEF LoggedCall
  <2>2. QED
    BY <1>1, <2>1, SolanaCarries DEF Carries, Solana!SolOf
<1>4. /\ \A m \in SolanaMint : m \in SP!Mint /\ m \notin SolayerMint
      /\ \A m \in SolayerMint : MintThere(m) \in SP!Mint /\ MintThere(m) \notin SolanaMint
                            /\ m \notin SolanaMint
      /\ Asset = SolanaMint \cup SolayerMint
  BY MintFacts, MintSides
<1>5. ASSUME NEW m \in SP!Mint
      PROVE  LET lock == IF m \in SolanaMint THEN SP!TokensOf(r, m) ELSE 0
             IN  /\ SumFunction(sol_tokens'[m]) =
                        SumFunction(sol_tokens[m]) - SP!TokensOf(r, m) + lock
                 /\ sol_tokens'[m]["vault"] = sol_tokens[m]["vault"] + lock
                 /\ SumFunction(sol_tokens[m]) \in Int /\ sol_tokens[m]["vault"] \in Int
  BY <1>1, SolanaSumsProved
<1>6. ASSUME NEW m \in Asset
      PROVE  SolanaSide(m)' =
                 SolanaSide(m) + (IF m \in SolanaMint THEN Carries(r, m) ELSE 0 - Carries(r, m))
  <2>1. CASE m \in SolanaMint
    <3>1. sol_tokens'[m]["vault"] = sol_tokens[m]["vault"] + Carries(r, m)
      BY <1>3, <1>4, <1>5, <2>1
    <3>2. QED
      BY <1>4, <2>1, <3>1 DEF SolanaSide
  <2>2. CASE m \in SolayerMint
    <3>1. SumFunction(sol_tokens'[MintThere(m)]) =
              SumFunction(sol_tokens[MintThere(m)]) + (0 - Carries(r, m))
      BY <1>3, <1>4, <1>5, <2>2
    <3>2. QED
      BY <1>4, <2>2, <3>1 DEF SolanaSide
  <2>3. QED
    BY <1>4, <2>1, <2>2
<1>7. \A m \in Asset : SolayerSide(m)' = SolayerSide(m)
  BY <1>2 DEF SolayerSide
<1>8. /\ sol_lamports'["handler"] = sol_lamports["handler"] + Solana!SolOf(r)
      /\ SumFunction(lay_lamports') = SumFunction(lay_lamports)
  BY <1>1, <1>2, <1>3, SolanaSumsProved
<1>9. QED
  BY <1>6, <1>7, <1>8

\* What a payout on Solana changes on either side.
LEMMA SolanaSidePayout ==
    ASSUME Programs, Programs', NEW r, SolanaPaid(r)
    PROVE  /\ \A m \in Asset :
                  /\ SolanaSide(m)' =
                         SolanaSide(m) + (IF m \in SolanaMint THEN 0 - Carries(r, m)
                                                              ELSE Carries(r, m))
                  /\ SolayerSide(m)' = SolayerSide(m)
           /\ sol_lamports'["handler"] = sol_lamports["handler"] - Solana!SolOf(r)
           /\ SumFunction(lay_lamports') = SumFunction(lay_lamports)
<1>1. SP!DInv /\ SP!DInv' /\ SP!Paid(PayoutOf(r)) /\ r \in LP!Request
  BY SolanaPayoutInTransit DEF Programs, SolanaPaid
<1>2. UNCHANGED <<lay_tokens, lay_lamports>>
  BY DEF SolanaPaid, LP!Idle
<1>3. /\ \A m \in SolanaMint :
             /\ Carries(r, m) \in Int
             /\ SP!TokensOf(PayoutOf(r), m) = Carries(r, m)
      /\ \A m \in SolayerMint :
             /\ Carries(r, m) \in Int
             /\ SP!TokensOf(PayoutOf(r), MintThere(m)) = Carries(r, m)
      /\ SP!SolOf(PayoutOf(r)) = Solana!SolOf(r) /\ Solana!SolOf(r) \in Int
  <2>1. r.amount \in Nat /\ r.gas \in Nat
    BY <1>1, RequestTypes DEF LoggedCall
  <2>2. QED
    BY <1>1, <2>1, SolanaCarries DEF Carries, Solana!SolOf
<1>4. /\ \A m \in SolanaMint : m \in SP!Mint /\ m \notin SolayerMint
      /\ \A m \in SolayerMint : MintThere(m) \in SP!Mint /\ MintThere(m) \notin SolanaMint
                            /\ m \notin SolanaMint
      /\ Asset = SolanaMint \cup SolayerMint
  BY MintFacts, MintSides
<1>5. ASSUME NEW m \in SP!Mint
      PROVE  LET unlock == IF m \in SolanaMint THEN SP!TokensOf(PayoutOf(r), m) ELSE 0
             IN  /\ SumFunction(sol_tokens'[m]) =
                        SumFunction(sol_tokens[m]) + SP!TokensOf(PayoutOf(r), m) - unlock
                 /\ sol_tokens'[m]["vault"] = sol_tokens[m]["vault"] - unlock
                 /\ SumFunction(sol_tokens[m]) \in Int /\ sol_tokens[m]["vault"] \in Int
  BY <1>1, SolanaSumsProved
<1>6. ASSUME NEW m \in Asset
      PROVE  SolanaSide(m)' =
                 SolanaSide(m) + (IF m \in SolanaMint THEN 0 - Carries(r, m) ELSE Carries(r, m))
  <2>1. CASE m \in SolanaMint
    <3>1. sol_tokens'[m]["vault"] = sol_tokens[m]["vault"] + (0 - Carries(r, m))
      BY <1>3, <1>4, <1>5, <2>1
    <3>2. QED
      BY <1>4, <2>1, <3>1 DEF SolanaSide
  <2>2. CASE m \in SolayerMint
    <3>1. SumFunction(sol_tokens'[MintThere(m)]) =
              SumFunction(sol_tokens[MintThere(m)]) + Carries(r, m)
      BY <1>3, <1>4, <1>5, <2>2
    <3>2. QED
      BY <1>4, <2>2, <3>1 DEF SolanaSide
  <2>3. QED
    BY <1>4, <2>1, <2>2
<1>7. \A m \in Asset : SolayerSide(m)' = SolayerSide(m)
  BY <1>2 DEF SolayerSide
<1>8. /\ sol_lamports'["handler"] = sol_lamports["handler"] - Solana!SolOf(r)
      /\ SumFunction(lay_lamports') = SumFunction(lay_lamports)
  BY <1>1, <1>2, <1>3, SolanaSumsProved
<1>9. QED
  BY <1>6, <1>7, <1>8

\* What a call or its payout moves on Solayer, in terms of the call.
LEMMA SolayerCarries ==
    /\ \A r \in LP!Request :
           /\ \A m \in SolayerMint : LP!TokensOf(r, m) = Carries(r, m)
           /\ \A m \in SolanaMint : LP!TokensOf(r, MintThere(m)) = Carries(r, m)
           /\ LP!SolOf(r) = Solana!SolOf(r)
    /\ \A r \in SP!Request :
           /\ \A m \in SolayerMint : LP!TokensOf(PayoutOf(r), m) = Carries(r, m)
           /\ \A m \in SolanaMint : LP!TokensOf(PayoutOf(r), MintThere(m)) = Carries(r, m)
           /\ LP!SolOf(PayoutOf(r)) = Solana!SolOf(r)
<1>1. ASSUME NEW r \in LP!Request
      PROVE  /\ \A m \in SolayerMint : LP!TokensOf(r, m) = Carries(r, m)
             /\ \A m \in SolanaMint : LP!TokensOf(r, MintThere(m)) = Carries(r, m)
  <2>1. r.mint \in LP!Mint \cup {SOL}
    BY RequestTypes
  <2>2. QED
    BY <2>1, MintsMatch DEF LP!TokensOf, Carries
<1>2. ASSUME NEW r \in SP!Request
      PROVE  /\ \A m \in SolayerMint : LP!TokensOf(PayoutOf(r), m) = Carries(r, m)
             /\ \A m \in SolanaMint : LP!TokensOf(PayoutOf(r), MintThere(m)) = Carries(r, m)
  <2>1. r.mint \in SP!Mint \cup {SOL} /\ SP!Mint \subseteq Token
    BY RequestTypes, MintSides
  <2>2. PayoutOf(r).mint = MintThere(r.mint) /\ PayoutOf(r).amount = r.amount
    BY DEF PayoutOf
  <2>3. SolanaMint \subseteq Asset /\ SolayerMint \subseteq Asset
    BY MintFacts
  <2>4. QED
    BY <2>1, <2>2, <2>3, MintsMatch DEF LP!TokensOf, Carries
<1>3. \A r : LP!SolOf(r) = Solana!SolOf(r) /\ LP!SolOf(PayoutOf(r)) = Solana!SolOf(r)
  BY DEF LP!SolOf, Solana!SolOf, PayoutOf
<1>4. QED
  BY <1>1, <1>2, <1>3

\* What a call on Solayer changes on either side.
LEMMA SolayerSideCall ==
    ASSUME Programs, Programs', NEW r, NEW fee, SolayerCalled(r, fee)
    PROVE  /\ \A m \in Asset :
                  /\ SolayerSide(m)' =
                         SolayerSide(m) + (IF m \in SolayerMint THEN Carries(r, m)
                                                              ELSE 0 - Carries(r, m))
                  /\ SolanaSide(m)' = SolanaSide(m)
           /\ sol_lamports'["handler"] = sol_lamports["handler"]
           /\ SumFunction(lay_lamports') = SumFunction(lay_lamports) - Solana!SolOf(r)
<1>1. LP!DInv /\ LP!DInv' /\ SP!DInv /\ LP!Called(r, fee) /\ r \in LP!Request
  BY DEF Programs, SolayerCalled, LP!Called
<1>2. UNCHANGED <<sol_tokens, sol_lamports>>
  BY DEF SolayerCalled, SP!Idle
<1>3. /\ \A m \in SolayerMint :
             /\ Carries(r, m) \in Int
             /\ LP!TokensOf(r, m) = Carries(r, m)
      /\ \A m \in SolanaMint :
             /\ Carries(r, m) \in Int
             /\ LP!TokensOf(r, MintThere(m)) = Carries(r, m)
      /\ LP!SolOf(r) = Solana!SolOf(r) /\ Solana!SolOf(r) \in Int
  <2>1. r.amount \in Nat /\ r.gas \in Nat
    BY <1>1, RequestTypes DEF LoggedCall
  <2>2. QED
    BY <1>1, <2>1, SolayerCarries DEF Carries, Solana!SolOf
<1>4. /\ \A m \in SolayerMint : m \in LP!Mint /\ m \notin SolanaMint
      /\ \A m \in SolanaMint : MintThere(m) \in LP!Mint /\ MintThere(m) \notin SolayerMint
                            /\ m \notin SolayerMint
      /\ Asset = SolayerMint \cup SolanaMint
  BY MintFacts, MintSides
<1>5. ASSUME NEW m \in LP!Mint
      PROVE  LET lock == IF m \in SolayerMint THEN LP!TokensOf(r, m) ELSE 0
             IN  /\ SumFunction(lay_tokens'[m]) =
                        SumFunction(lay_tokens[m]) - LP!TokensOf(r, m) + lock
                 /\ lay_tokens'[m]["vault"] = lay_tokens[m]["vault"] + lock
                 /\ SumFunction(lay_tokens[m]) \in Int /\ lay_tokens[m]["vault"] \in Int
  BY <1>1, SolayerSumsProved
<1>6. ASSUME NEW m \in Asset
      PROVE  SolayerSide(m)' =
                 SolayerSide(m) + (IF m \in SolayerMint THEN Carries(r, m) ELSE 0 - Carries(r, m))
  <2>1. CASE m \in SolayerMint
    <3>1. lay_tokens'[m]["vault"] = lay_tokens[m]["vault"] + Carries(r, m)
      BY <1>3, <1>4, <1>5, <2>1
    <3>2. QED
      BY <1>4, <2>1, <3>1 DEF SolayerSide
  <2>2. CASE m \in SolanaMint
    <3>1. SumFunction(lay_tokens'[MintThere(m)]) =
              SumFunction(lay_tokens[MintThere(m)]) + (0 - Carries(r, m))
      BY <1>3, <1>4, <1>5, <2>2
    <3>2. QED
      BY <1>4, <2>2, <3>1 DEF SolayerSide
  <2>3. QED
    BY <1>4, <2>1, <2>2
<1>7. \A m \in Asset : SolanaSide(m)' = SolanaSide(m)
  BY <1>2 DEF SolanaSide
<1>8. /\ sol_lamports'["handler"] = sol_lamports["handler"]
      /\ SumFunction(lay_lamports') = SumFunction(lay_lamports) - Solana!SolOf(r)
  BY <1>1, <1>2, <1>3, SolayerSumsProved
<1>9. QED
  BY <1>6, <1>7, <1>8

\* What a payout on Solayer changes on either side.
LEMMA SolayerSidePayout ==
    ASSUME Programs, Programs', NEW r, SolayerPaid(r)
    PROVE  /\ \A m \in Asset :
                  /\ SolayerSide(m)' =
                         SolayerSide(m) + (IF m \in SolayerMint THEN 0 - Carries(r, m)
                                                              ELSE Carries(r, m))
                  /\ SolanaSide(m)' = SolanaSide(m)
           /\ sol_lamports'["handler"] = sol_lamports["handler"]
           /\ SumFunction(lay_lamports') = SumFunction(lay_lamports) + Solana!SolOf(r)
<1>1. LP!DInv /\ LP!DInv' /\ LP!Paid(PayoutOf(r)) /\ r \in SP!Request
  BY SolayerPayoutInTransit DEF Programs, SolayerPaid
<1>2. UNCHANGED <<sol_tokens, sol_lamports>>
  BY DEF SolayerPaid, SP!Idle
<1>3. /\ \A m \in SolayerMint :
             /\ Carries(r, m) \in Int
             /\ LP!TokensOf(PayoutOf(r), m) = Carries(r, m)
      /\ \A m \in SolanaMint :
             /\ Carries(r, m) \in Int
             /\ LP!TokensOf(PayoutOf(r), MintThere(m)) = Carries(r, m)
      /\ LP!SolOf(PayoutOf(r)) = Solana!SolOf(r) /\ Solana!SolOf(r) \in Int
  <2>1. r.amount \in Nat /\ r.gas \in Nat
    BY <1>1, RequestTypes DEF LoggedCall
  <2>2. QED
    BY <1>1, <2>1, SolayerCarries DEF Carries, Solana!SolOf
<1>4. /\ \A m \in SolayerMint : m \in LP!Mint /\ m \notin SolanaMint
      /\ \A m \in SolanaMint : MintThere(m) \in LP!Mint /\ MintThere(m) \notin SolayerMint
                            /\ m \notin SolayerMint
      /\ Asset = SolayerMint \cup SolanaMint
  BY MintFacts, MintSides
<1>5. ASSUME NEW m \in LP!Mint
      PROVE  LET unlock == IF m \in SolayerMint THEN LP!TokensOf(PayoutOf(r), m) ELSE 0
             IN  /\ SumFunction(lay_tokens'[m]) =
                        SumFunction(lay_tokens[m]) + LP!TokensOf(PayoutOf(r), m) - unlock
                 /\ lay_tokens'[m]["vault"] = lay_tokens[m]["vault"] - unlock
                 /\ SumFunction(lay_tokens[m]) \in Int /\ lay_tokens[m]["vault"] \in Int
  BY <1>1, SolayerSumsProved
<1>6. ASSUME NEW m \in Asset
      PROVE  SolayerSide(m)' =
                 SolayerSide(m) + (IF m \in SolayerMint THEN 0 - Carries(r, m) ELSE Carries(r, m))
  <2>1. CASE m \in SolayerMint
    <3>1. lay_tokens'[m]["vault"] = lay_tokens[m]["vault"] + (0 - Carries(r, m))
      BY <1>3, <1>4, <1>5, <2>1
    <3>2. QED
      BY <1>4, <2>1, <3>1 DEF SolayerSide
  <2>2. CASE m \in SolanaMint
    <3>1. SumFunction(lay_tokens'[MintThere(m)]) =
              SumFunction(lay_tokens[MintThere(m)]) + Carries(r, m)
      BY <1>3, <1>4, <1>5, <2>2
    <3>2. QED
      BY <1>4, <2>2, <3>1 DEF SolayerSide
  <2>3. QED
    BY <1>4, <2>1, <2>2
<1>7. \A m \in Asset : SolanaSide(m)' = SolanaSide(m)
  BY <1>2 DEF SolanaSide
<1>8. /\ sol_lamports'["handler"] = sol_lamports["handler"]
      /\ SumFunction(lay_lamports') = SumFunction(lay_lamports) + Solana!SolOf(r)
  BY <1>1, <1>2, <1>3, SolayerSumsProved
<1>9. QED
  BY <1>6, <1>7, <1>8

\* What of asset m, and of lamports, is on its way.
InMint(T, m) == {r \in T : r.mint \in {m, MintThere(m)}}
Moving(m) == SumFunction([r \in InMint(InTransit, m) |-> r.amount])
MovingSol == SumFunction([r \in InTransit |-> Solana!SolOf(r)])

\* Backed in terms of the two sides, before and after a step.
LEMMA BackedInParts ==
    /\ Backed <=>
           /\ \A m \in SolanaMint : SolanaSide(m) = SolayerSide(m) + Moving(m)
           /\ \A m \in SolayerMint : SolayerSide(m) = SolanaSide(m) + Moving(m)
           /\ sol_lamports["handler"] = SumFunction(lay_lamports) + MovingSol
    /\ Backed' <=>
           /\ \A m \in SolanaMint : SolanaSide(m)' = SolayerSide(m)' + Moving(m)'
           /\ \A m \in SolayerMint : SolayerSide(m)' = SolanaSide(m)' + Moving(m)'
           /\ sol_lamports'["handler"] = SumFunction(lay_lamports') + MovingSol'
<1>1. SolanaMint \cup SolayerMint = Asset /\ SolanaMint \cap SolayerMint = {}
  BY MintFacts
<1>2. QED
  BY <1>1 DEF Backed, Amounts, SolanaSide, SolayerSide, Moving, MovingSol, InMint, InTransit

\* One call more: its value more.
LEMMA CarriedSums ==
    ASSUME NEW T \in SUBSET LoggedCall, IsFiniteSet(T), NEW r \in T
    PROVE  /\ \A m : /\ SumFunction([x \in InMint(T, m) |-> x.amount]) =
                              SumFunction([x \in InMint(T \ {r}, m) |-> x.amount]) + Carries(r, m)
                    /\ SumFunction([x \in InMint(T \ {r}, m) |-> x.amount]) \in Int
           /\ SumFunction([x \in T |-> Solana!SolOf(x)]) =
                  SumFunction([x \in T \ {r} |-> Solana!SolOf(x)]) + Solana!SolOf(r)
           /\ SumFunction([x \in T \ {r} |-> Solana!SolOf(x)]) \in Int
<1>1. \A x \in LoggedCall : x.amount \in Int /\ Solana!SolOf(x) \in Int
  BY DEF LoggedCall, Solana!SolOf
<1>2. ASSUME NEW m
      PROVE  /\ SumFunction([x \in InMint(T, m) |-> x.amount]) =
                              SumFunction([x \in InMint(T \ {r}, m) |-> x.amount]) + Carries(r, m)
             /\ SumFunction([x \in InMint(T \ {r}, m) |-> x.amount]) \in Int
  <2> DEFINE E == InMint(T, m)
             D == InMint(T \ {r}, m)
             f == [x \in D |-> x.amount]
             g == [x \in E |-> x.amount]
  <2>1. /\ E \subseteq T /\ D \subseteq T /\ D = E \ {r}
        /\ r \in E <=> r.mint \in {m, MintThere(m)}
    BY DEF InMint
  <2>2. IsFiniteSet(E) /\ IsFiniteSet(D)
    BY <2>1, FS_Subset
  <2>3. /\ f \in [D -> Int] /\ g \in [E -> Int]
        /\ \A x \in D : g[x] = f[x]
        /\ r \in E => g[r] = r.amount
    BY <1>1, <2>1
  <2> HIDE DEF D, E, f, g
  <2>4. SumFunction(f) \in Int
    BY <2>2, <2>3, SumType
  <2>5. CASE r \in E
    <3>1. SumFunction(g) = SumFunction(f) + g[r]
      BY <2>1, <2>2, <2>3, <2>5, SumExtend
    <3>2. SumFunction(g) = SumFunction(f) + Carries(r, m)
      BY <2>1, <2>3, <2>5, <3>1 DEF Carries
    <3>3. QED
      BY <2>4, <3>2 DEF D, E, f, g
  <2>6. CASE r \notin E
    <3>1. g = f /\ Carries(r, m) = 0
      <4>1. D = E
        BY <2>1, <2>6
      <4>2. g = f
        BY <2>3, <4>1
      <4>3. QED
        BY <2>1, <2>6, <4>2 DEF Carries
    <3>2. SumFunction(g) = SumFunction(f) + Carries(r, m)
      BY <2>4, <3>1
    <3>3. QED
      BY <2>4, <3>2 DEF D, E, f, g
  <2>7. QED
    BY <2>5, <2>6
<1>3. /\ SumFunction([x \in T |-> Solana!SolOf(x)]) =
            SumFunction([x \in T \ {r} |-> Solana!SolOf(x)]) + Solana!SolOf(r)
      /\ SumFunction([x \in T \ {r} |-> Solana!SolOf(x)]) \in Int
  <2> DEFINE f == [x \in T \ {r} |-> Solana!SolOf(x)]
             g == [x \in T |-> Solana!SolOf(x)]
  <2>1. /\ f \in [T \ {r} -> Int] /\ g \in [T -> Int]
        /\ \A x \in T \ {r} : g[x] = f[x]
        /\ g[r] = Solana!SolOf(r)
    BY <1>1
  <2>2. IsFiniteSet(T \ {r})
    BY FS_Subset
  <2> HIDE DEF f, g
  <2>3. SumFunction(g) = SumFunction(f) + g[r] /\ SumFunction(f) \in Int
    BY <2>1, <2>2, SumExtend, SumType
  <2>4. QED
    BY <2>1, <2>3 DEF f, g
<1>4. QED
  BY <1>2, <1>3

\* A call adds its value to what is moving.
LEMMA CallMoves ==
    ASSUME Programs, NEW r \in LoggedCall, InTransit' = InTransit \cup {r},
           r \notin InTransit
    PROVE  /\ \A m : Moving(m)' = Moving(m) + Carries(r, m) /\ Moving(m) \in Int
           /\ MovingSol' = MovingSol + Solana!SolOf(r) /\ MovingSol \in Int
<1> DEFINE T == InTransit \cup {r}
<1>1. IsFiniteSet(T) /\ T \in SUBSET LoggedCall /\ r \in T /\ T \ {r} = InTransit
  BY TransitType, FS_AddElement
<1>2. InTransit' = T
  OBVIOUS
<1> HIDE DEF T
<1>3. /\ \A m : /\ SumFunction([x \in InMint(T, m) |-> x.amount]) =
                              SumFunction([x \in InMint(InTransit, m) |-> x.amount]) + Carries(r, m)
               /\ SumFunction([x \in InMint(InTransit, m) |-> x.amount]) \in Int
      /\ SumFunction([x \in T |-> Solana!SolOf(x)]) =
             SumFunction([x \in InTransit |-> Solana!SolOf(x)]) + Solana!SolOf(r)
      /\ SumFunction([x \in InTransit |-> Solana!SolOf(x)]) \in Int
  BY <1>1, CarriedSums
<1>4. /\ \A m : Moving(m)' = SumFunction([x \in InMint(T, m) |-> x.amount])
      /\ MovingSol' = SumFunction([x \in T |-> Solana!SolOf(x)])
  BY <1>2 DEF Moving, MovingSol
<1>5. QED
  BY <1>3, <1>4 DEF Moving, MovingSol

\* A payout takes its value out of what is moving.
LEMMA PayoutMoves ==
    ASSUME Programs, NEW r, InTransit' = InTransit \ {r}, r \in InTransit
    PROVE  /\ \A m : Moving(m)' = Moving(m) - Carries(r, m) /\ Moving(m) \in Int
           /\ MovingSol' = MovingSol - Solana!SolOf(r) /\ MovingSol \in Int
<1>1. IsFiniteSet(InTransit) /\ InTransit \subseteq LoggedCall
  BY TransitType
<1>2. \A m : Carries(r, m) \in Int /\ Solana!SolOf(r) \in Int
  BY <1>1 DEF Carries, LoggedCall, Solana!SolOf
<1>3. /\ \A m : /\ Moving(m) = Moving(m)' + Carries(r, m)
               /\ Moving(m)' \in Int
      /\ MovingSol = MovingSol' + Solana!SolOf(r) /\ MovingSol' \in Int
  BY <1>1, CarriedSums DEF Moving, MovingSol
<1>4. QED
  BY <1>2, <1>3

\* Both sides are integers.
LEMMA SidesAreInts ==
    ASSUME Programs
    PROVE  /\ \A m \in Asset : SolanaSide(m) \in Int /\ SolayerSide(m) \in Int
           /\ sol_lamports["handler"] \in Int /\ SumFunction(lay_lamports) \in Int
<1>1. SP!DInv /\ LP!DInv
  BY DEF Programs
<1>2. Asset = SolanaMint \cup SolayerMint /\ SolanaMint \cap SolayerMint = {}
  BY MintFacts
<1>3. QED
  BY <1>1, <1>2, MintSides, SolanaSumsProved, SolayerSumsProved DEF SolanaSide, SolayerSide

\* Each kind of step keeps everything backed.
LEMMA BackedStep ==
    ASSUME Programs, Programs', Moves, Backed
    PROVE  Backed'
<1> SUFFICES /\ \A m \in SolanaMint : SolanaSide(m)' = SolayerSide(m)' + Moving(m)'
             /\ \A m \in SolayerMint : SolayerSide(m)' = SolanaSide(m)' + Moving(m)'
             /\ sol_lamports'["handler"] = SumFunction(lay_lamports') + MovingSol'
  BY BackedInParts
<1>1. Programs /\ Programs'
  OBVIOUS
<1>2. /\ \A m \in SolanaMint : m \in Asset /\ m \notin SolayerMint
                               /\ SolanaSide(m) = SolayerSide(m) + Moving(m)
      /\ \A m \in SolayerMint : m \in Asset /\ m \notin SolanaMint
                               /\ SolayerSide(m) = SolanaSide(m) + Moving(m)
      /\ sol_lamports["handler"] = SumFunction(lay_lamports) + MovingSol
      /\ \A m \in Asset : SolanaSide(m) \in Int /\ SolayerSide(m) \in Int
      /\ sol_lamports["handler"] \in Int /\ SumFunction(lay_lamports) \in Int
  BY MintFacts, BackedInParts, SidesAreInts
<1> HIDE DEF SolanaSide, SolayerSide, Moving, MovingSol
<1>3. CASE \E r, fee : SolanaCalled(r, fee)
  <2>1. PICK r, fee : SolanaCalled(r, fee)
    BY <1>3
  <2>2. r \in LoggedCall /\ InTransit' = InTransit \cup {r} /\ r \notin InTransit
    BY <2>1, SolanaCallInTransit
  <2>3. /\ \A m : Moving(m)' = Moving(m) + Carries(r, m) /\ Moving(m) \in Int
        /\ MovingSol' = MovingSol + Solana!SolOf(r) /\ MovingSol \in Int
    BY <2>2, CallMoves
  <2>4. /\ \A m \in Asset :
               /\ SolanaSide(m)' =
                      SolanaSide(m) + (IF m \in SolanaMint THEN Carries(r, m)
                                                            ELSE 0 - Carries(r, m))
               /\ SolayerSide(m)' = SolayerSide(m)
        /\ sol_lamports'["handler"] = sol_lamports["handler"] + Solana!SolOf(r)
        /\ SumFunction(lay_lamports') = SumFunction(lay_lamports)
    BY <1>1, <2>1, SolanaSideCall
  <2>5. Solana!SolOf(r) \in Int /\ \A m : Carries(r, m) \in Int
    BY <2>2 DEF Carries, LoggedCall, Solana!SolOf
  <2>6. QED
    BY <1>1, <1>2, <2>3, <2>4, <2>5
<1>4. CASE \E r : SolanaPaid(r)
  <2>1. PICK r : SolanaPaid(r)
    BY <1>4
  <2>2. r \in LoggedCall /\ InTransit' = InTransit \ {r} /\ r \in InTransit
    BY <2>1, SolanaPayoutInTransit
  <2>3. /\ \A m : Moving(m)' = Moving(m) - Carries(r, m) /\ Moving(m) \in Int
        /\ MovingSol' = MovingSol - Solana!SolOf(r) /\ MovingSol \in Int
    BY <2>2, PayoutMoves
  <2>4. /\ \A m \in Asset :
               /\ SolanaSide(m)' =
                      SolanaSide(m) + (IF m \in SolanaMint THEN 0 - Carries(r, m)
                                                            ELSE Carries(r, m))
               /\ SolayerSide(m)' = SolayerSide(m)
        /\ sol_lamports'["handler"] = sol_lamports["handler"] - Solana!SolOf(r)
        /\ SumFunction(lay_lamports') = SumFunction(lay_lamports)
    BY <1>1, <2>1, SolanaSidePayout
  <2>5. Solana!SolOf(r) \in Int /\ \A m : Carries(r, m) \in Int
    BY <2>2 DEF Carries, LoggedCall, Solana!SolOf
  <2>6. QED
    BY <1>1, <1>2, <2>3, <2>4, <2>5
<1>5. CASE \E r, fee : SolayerCalled(r, fee)
  <2>1. PICK r, fee : SolayerCalled(r, fee)
    BY <1>5
  <2>2. r \in LoggedCall /\ InTransit' = InTransit \cup {r} /\ r \notin InTransit
    BY <2>1, SolayerCallInTransit
  <2>3. /\ \A m : Moving(m)' = Moving(m) + Carries(r, m) /\ Moving(m) \in Int
        /\ MovingSol' = MovingSol + Solana!SolOf(r) /\ MovingSol \in Int
    BY <2>2, CallMoves
  <2>4. /\ \A m \in Asset :
               /\ SolayerSide(m)' =
                      SolayerSide(m) + (IF m \in SolayerMint THEN Carries(r, m)
                                                            ELSE 0 - Carries(r, m))
               /\ SolanaSide(m)' = SolanaSide(m)
        /\ sol_lamports'["handler"] = sol_lamports["handler"]
        /\ SumFunction(lay_lamports') = SumFunction(lay_lamports) - Solana!SolOf(r)
    BY <1>1, <2>1, SolayerSideCall
  <2>5. Solana!SolOf(r) \in Int /\ \A m : Carries(r, m) \in Int
    BY <2>2 DEF Carries, LoggedCall, Solana!SolOf
  <2>6. QED
    BY <1>1, <1>2, <2>3, <2>4, <2>5
<1>6. CASE \E r : SolayerPaid(r)
  <2>1. PICK r : SolayerPaid(r)
    BY <1>6
  <2>2. r \in LoggedCall /\ InTransit' = InTransit \ {r} /\ r \in InTransit
    BY <2>1, SolayerPayoutInTransit
  <2>3. /\ \A m : Moving(m)' = Moving(m) - Carries(r, m) /\ Moving(m) \in Int
        /\ MovingSol' = MovingSol - Solana!SolOf(r) /\ MovingSol \in Int
    BY <2>2, PayoutMoves
  <2>4. /\ \A m \in Asset :
               /\ SolayerSide(m)' =
                      SolayerSide(m) + (IF m \in SolayerMint THEN 0 - Carries(r, m)
                                                            ELSE Carries(r, m))
               /\ SolanaSide(m)' = SolanaSide(m)
        /\ sol_lamports'["handler"] = sol_lamports["handler"]
        /\ SumFunction(lay_lamports') = SumFunction(lay_lamports) + Solana!SolOf(r)
    BY <1>1, <2>1, SolayerSidePayout
  <2>5. Solana!SolOf(r) \in Int /\ \A m : Carries(r, m) \in Int
    BY <2>2 DEF Carries, LoggedCall, Solana!SolOf
  <2>6. QED
    BY <1>1, <1>2, <2>3, <2>4, <2>5
<1>7. CASE BothIdle
  <2>1. InTransit' = InTransit
    BY <1>7, IdleInTransit
  <2>2. UNCHANGED <<sol_tokens, lay_tokens, sol_lamports, lay_lamports>>
    BY <1>7 DEF BothIdle, SP!Idle, LP!Idle
  <2>3. /\ \A m : /\ Moving(m)' = Moving(m) /\ SolanaSide(m)' = SolanaSide(m)
                 /\ SolayerSide(m)' = SolayerSide(m)
        /\ MovingSol' = MovingSol
    BY <2>1, <2>2 DEF Moving, MovingSol, SolanaSide, SolayerSide
  <2>4. QED
    BY <1>2, <2>2, <2>3
<1>8. QED
  BY <1>3, <1>4, <1>5, <1>6, <1>7 DEF Moves

\* Zeros sum to zero.
LEMMA ZerosSumToZero ==
    ASSUME NEW D, IsFiniteSet(D)
    PROVE  SumFunction([x \in D |-> 0]) = 0
<1> DEFINE f == [x \in D |-> 0]
<1>1. f \in [D -> Int] /\ {} \in SUBSET D /\ \A x \in D \ {} : f[x] = 0
  OBVIOUS
<1> HIDE DEF f
<1>2. SumFunction(f) = Cardinality({}) * 0
  BY <1>1, SumConstant
<1>3. SumFunction(f) = 0
  BY <1>2, FS_EmptySet
<1>4. QED
  BY <1>3 DEF f

\* At the start nothing is locked, wrapped or on its way.
LEMMA InitBacked ==
    ASSUME Solana!ProgramInit, Solayer!ProgramInit
    PROVE  Backed
<1>1. SP!ProgramInit /\ LP!ProgramInit
  BY SolanaInit, SolayerInit
<1>2. InTransit = {}
  <2>1. sol_requests = <<>> /\ lay_requests = <<>>
    BY <1>1 DEF SP!ProgramInit, LP!ProgramInit
  <2>2. QED
    BY <2>1 DEF InTransit, ToSolayer, ToSolana, Undelivered, Answered
<1>3. /\ IsFiniteSet(User \cup {"vault"}) /\ IsFiniteSet(User \cup FeeVault \cup {"handler"})
      /\ "vault" \notin User /\ "handler" \notin User
  <2>1. IsFiniteSet(User) /\ IsFiniteSet(FeeVault) /\ "vault" \notin User /\ "handler" \notin User
    BY DeploymentAssumption DEF Solana!KeyAssumption, Solana!VAULT, Solana!HANDLER,
                                Solana!IsFiniteSet, IsFiniteSet
  <2>2. IsFiniteSet(User \cup FeeVault) /\ IsFiniteSet(User \cup {"vault"})
    BY <2>1, FS_Union, FS_AddElement
  <2>3. QED
    BY <2>1, <2>2, FS_AddElement
<1>4. /\ \A m \in SolanaMint : sol_tokens[m]["vault"] = 0
      /\ \A m \in SolayerMint : SumFunction(sol_tokens[MintThere(m)]) = 0
  <2>1. sol_tokens = [m \in SP!Mint |-> [h \in User \cup {"vault"} |->
                         IF h \in User /\ m \in SolanaMint THEN InitialTokens ELSE 0]]
    BY <1>1 DEF SP!ProgramInit, SP!VAULT
  <2>2. \A m \in SolanaMint : sol_tokens[m]["vault"] = 0
    BY <1>3, <2>1, MintSides
  <2>3. ASSUME NEW m \in SolayerMint
        PROVE  SumFunction(sol_tokens[MintThere(m)]) = 0
    <3>1. MintThere(m) \in SP!Mint /\ MintThere(m) \notin SolanaMint
      BY MintFacts, MintSides
    <3>2. sol_tokens[MintThere(m)] = [h \in User \cup {"vault"} |-> 0]
      BY <2>1, <3>1
    <3>3. QED
      BY <1>3, <3>2, ZerosSumToZero
  <2>4. QED
    BY <2>2, <2>3
<1>5. /\ \A m \in SolayerMint : lay_tokens[m]["vault"] = 0
      /\ \A m \in SolanaMint : SumFunction(lay_tokens[MintThere(m)]) = 0
  <2>1. lay_tokens = [m \in LP!Mint |-> [h \in User \cup {"vault"} |->
                         IF h \in User /\ m \in SolayerMint THEN InitialTokens ELSE 0]]
    BY <1>1 DEF LP!ProgramInit, LP!VAULT
  <2>2. \A m \in SolayerMint : lay_tokens[m]["vault"] = 0
    BY <1>3, <2>1, MintSides
  <2>3. ASSUME NEW m \in SolanaMint
        PROVE  SumFunction(lay_tokens[MintThere(m)]) = 0
    <3>1. MintThere(m) \in LP!Mint /\ MintThere(m) \notin SolayerMint
      BY MintFacts, MintSides
    <3>2. lay_tokens[MintThere(m)] = [h \in User \cup {"vault"} |-> 0]
      BY <2>1, <3>1
    <3>3. QED
      BY <1>3, <3>2, ZerosSumToZero
  <2>4. QED
    BY <2>2, <2>3
<1>6. sol_lamports["handler"] = 0
  BY <1>1, <1>3 DEF SP!ProgramInit, SP!HANDLER
<1>7. SumFunction(lay_lamports) = 0
  <2>1. lay_lamports = [h \in User \cup FeeVault \cup {"handler"} |-> 0]
    BY <1>1 DEF LP!ProgramInit, LP!HANDLER
  <2>2. QED
    BY <1>3, <2>1, ZerosSumToZero
<1>8. MovingSol = 0 /\ \A m : Moving(m) = 0
  <2>1. \A m : InMint(InTransit, m) = {}
    BY <1>2 DEF InMint
  <2>2. [r \in {} |-> Solana!SolOf(r)] \in [{} -> Int] /\ [r \in {} |-> r.amount] \in [{} -> Int]
    OBVIOUS
  <2>3. QED
    BY <1>2, <2>1, <2>2, SumEmpty DEF Moving, MovingSol
<1>9. \A m \in SolayerMint : m \notin SolanaMint
  BY MintFacts
<1>10. QED
  BY <1>4, <1>5, <1>6, <1>7, <1>8, <1>9, BackedInParts DEF SolanaSide, SolayerSide

\* As long as the records paid on are undisturbed and each call is paid on the
\* other chain only, neither chain is left unable to pay what is wrapped, or
\* called for, on the other.
THEOREM AllBacked == BridgeSpec => []BackedWhileTrusted
<1>1. BridgeInit => BackedWhileTrusted
  BY InitBacked DEF BridgeInit, BackedWhileTrusted
<1>2. BInv({}) /\ BackedWhileTrusted /\ [BridgeNext]_bridgeVars => BackedWhileTrusted'
  <2>1. IsFiniteSet({})
    BY FS_EmptySet
  <2>2. QED
    BY <2>1, NextIsBridgeStep, TrustedStep, BackedStep DEF BackedWhileTrusted
<1>3. QED
  BY <1>1, <1>2, BridgeInvariance, PTL DEF BridgeSpec

=============================================================================
