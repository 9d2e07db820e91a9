------------------------------- MODULE Bridge -------------------------------
(***************************************************************************)
(* The whole bridge: a deployment of the program on Solana and one on      *)
(* Solayer, and between them the guardians, who sign what they see on one  *)
(* chain, and the relayer, who takes their signatures to the other.        *)
(*                                                                         *)
(* sol_ variables belong to the deployment on Solana, lay_ variables to    *)
(* the one on Solayer.  Both run the same code (module Deployment); all    *)
(* the SOL on Solayer is bridged.                                          *)
(*                                                                         *)
(* What a guardian signs names neither the chain nor the handler it is     *)
(* for: a signature is good on both chains.  So the bridge keeps its       *)
(* promises as long as two things hold that the program does not ensure:   *)
(* the records paid on are undisturbed (see module Guardians), and each    *)
(* call is paid on the other chain only.  Trusted says so.                 *)
(***************************************************************************)
EXTENDS Integers, FiniteSets, Sequences, SequencesExt

CONSTANTS
    User, Authority, FeeVault, Guardian, SOL,
    SolanaMint, SolayerMint,          \* tokens at home on either chain
    InitialTokens, SolanaLamports,    \* what every user starts with
    DEFAULT_BRIDGE_ASSET_FEE, BridgeAssetFee, MIN_SOL_BRIDGE_AMOUNT, MAX_ADDITIONAL_SOL_GAS,
    METADATA_CREATION_FEE, LAMPORTS_PER_SOL, SOLANA_DOLLAR_VALUE,
    SOLANA_DOLLAR_CAP_PER_EPOCH, SOLANA_POST_INSTANT_CAP_AWAITING_TIME_SECONDS,
    SOLANA_WHITELISTED_TOKENS, TokenUnit, BridgeProofNonce, Amount, Gas,
    InstructionIndex, MaxInstructions, MaxNonce,    \* as in Deployment
    MaxStray                          \* bound on the records open on a chain when
                                      \* a batch comes that the relayer did not send

VARIABLES
    attested,   \* external: the messages each guardian has signed, for either chain
    sol_guardians, sol_threshold, sol_verified, sol_now, sol_disturbed,
    sol_handler, sol_epoch, sol_token_info, sol_tokens, sol_lamports,
    sol_source_proofs, sol_target_proofs, sol_requests, sol_payouts, sol_audit,
    lay_guardians, lay_threshold, lay_verified, lay_now, lay_disturbed,
    lay_handler, lay_epoch, lay_token_info, lay_tokens, lay_lamports,
    lay_source_proofs, lay_target_proofs, lay_requests, lay_payouts, lay_audit

Solana == INSTANCE Deployment WITH
    chain <- "Solana", LocalMint <- SolanaMint, RemoteMint <- SolayerMint,
    InitialLamports <- SolanaLamports, Payout <- {}, Message <- {},
    MAX_GUARDIAN_COUNT <- 15, MAX_GUARDIAN_SIGNATURES <- 10,
    InstantBridgeCap <- {}, MaxTime <- 0, MaxEpoch <- 0,
    guardians <- sol_guardians, threshold <- sol_threshold, verified <- sol_verified,
    now <- sol_now, disturbed <- sol_disturbed,
    handler <- sol_handler, epoch <- sol_epoch, token_info <- sol_token_info,
    tokens <- sol_tokens, lamports <- sol_lamports, source_proofs <- sol_source_proofs,
    target_proofs <- sol_target_proofs, requests <- sol_requests,
    payouts <- sol_payouts, audit <- sol_audit

Solayer == INSTANCE Deployment WITH
    chain <- "Solayer", LocalMint <- SolayerMint, RemoteMint <- SolanaMint,
    InitialLamports <- 0, Payout <- {}, Message <- {},
    MAX_GUARDIAN_COUNT <- 15, MAX_GUARDIAN_SIGNATURES <- 10,
    InstantBridgeCap <- {}, MaxTime <- 0, MaxEpoch <- 0,
    guardians <- lay_guardians, threshold <- lay_threshold, verified <- lay_verified,
    now <- lay_now, disturbed <- lay_disturbed,
    handler <- lay_handler, epoch <- lay_epoch, token_info <- lay_token_info,
    tokens <- lay_tokens, lamports <- lay_lamports, source_proofs <- lay_source_proofs,
    target_proofs <- lay_target_proofs, requests <- lay_requests,
    payouts <- lay_payouts, audit <- lay_audit

solanaProgram == <<sol_handler, sol_epoch, sol_token_info, sol_tokens, sol_lamports,
                   sol_source_proofs, sol_target_proofs, sol_requests, sol_payouts,
                   sol_audit>>
solanaVars == <<sol_guardians, sol_threshold, sol_verified, sol_now, sol_disturbed,
                solanaProgram>>
solayerProgram == <<lay_handler, lay_epoch, lay_token_info, lay_tokens, lay_lamports,
                    lay_source_proofs, lay_target_proofs, lay_requests, lay_payouts,
                    lay_audit>>
solayerVars == <<lay_guardians, lay_threshold, lay_verified, lay_now, lay_disturbed,
                 solayerProgram>>
bridgeVars == <<attested, solanaVars, solayerVars>>

Asset == SolanaMint \cup SolayerMint

\* What module Deployment asks of amounts, prices, keys and instruction indexes.
ASSUME DeploymentAssumption ==
    /\ Solana!AmountAssumption /\ Solana!PriceAssumption /\ Solana!KeyAssumption
    /\ Solana!InstructionIndexAssumption

\* A token is at home on one chain, and an address the program derives for a
\* wrapped mint is nobody's mint.
ASSUME TokenAssumption ==
    /\ SolanaMint \cap SolayerMint = {} /\ SOL \notin Asset
    /\ \A m \in Asset : Solana!WrappedMint(m) \notin Asset \cup {SOL}

\* All guardians fit into the list.
ASSUME GuardianAssumption == Cardinality(Guardian) \in 1..15

-----------------------------------------------------------------------------
(***************************************************************************)
(* Guardians and relayer (external; the scripts under scripts/ play both). *)
(***************************************************************************)

\* The mint of the same asset on the other chain.
MintThere(mint) ==
    CASE mint = SOL -> SOL
      [] mint \in Asset -> Solana!WrappedMint(mint)
      [] OTHER -> mint[2]

\* The target-chain call that answers a source-chain call.
PayoutOf(r) ==
    [kind |-> r.kind, sender |-> r.sender, recipient |-> r.recipient,
     source_mint |-> r.mint, mint |-> MintThere(r.mint), amount |-> r.amount,
     nonce |-> r.nonce, tx |-> r.tx, gas |-> r.gas]

\* Calls an operator may try: the right ones, and ones for somebody else or
\* for another amount.
Calls(requests) ==
    {[PayoutOf(requests[i]) EXCEPT !.recipient = u, !.amount = n] :
         i \in DOMAIN requests, u \in User, n \in Amount}

\* A guardian believes a call whose proof account holds its hash.
Proved(r, source_proofs) ==
    /\ <<r.sender, r.proof_nonce>> \in DOMAIN source_proofs
    /\ source_proofs[<<r.sender, r.proof_nonce>>] = Solana!SourceHash(r)

SignForSolayerBy(g) ==
    \E i \in DOMAIN sol_requests :
        /\ Proved(sol_requests[i], sol_source_proofs)
        /\ Solayer!Attest(g, Solayer!MessageHash(PayoutOf(sol_requests[i])))
        /\ UNCHANGED <<solanaVars, solayerProgram>>
SignForSolanaBy(g) ==
    \E i \in DOMAIN lay_requests :
        /\ Proved(lay_requests[i], lay_source_proofs)
        /\ Solana!Attest(g, Solana!MessageHash(PayoutOf(lay_requests[i])))
        /\ UNCHANGED <<solayerVars, solanaProgram>>
SignForSolayer == \E g \in Guardian : SignForSolayerBy(g)
SignForSolana == \E g \in Guardian : SignForSolanaBy(g)

\* The calls of both chains.
AllRequests == sol_requests \o lay_requests

\* The hashes of the calls an operator may try.
Messages(requests) == {Solana!MessageHash(p) : p \in Calls(requests)}

\* One signature at a time reaches the other chain, in any order, again and
\* again if the program lets it.
RelayToSolayer ==
    \E g \in Guardian : \E m \in attested[g] \cap Messages(sol_requests) :
        /\ \E k \in DOMAIN lay_guardians : Solayer!VerifySignature(m, <<k - 1>>, "this")
        /\ UNCHANGED <<solanaVars, solayerProgram>>
RelayToSolana ==
    \E g \in Guardian : \E m \in attested[g] \cap Messages(lay_requests) :
        /\ \E k \in DOMAIN sol_guardians : Solana!VerifySignature(m, <<k - 1>>, "this")
        /\ UNCHANGED <<solayerVars, solanaProgram>>

\* Not only the relayer submits: a batch also comes to the chain its message
\* was not signed for, and with data that points elsewhere.
StrayBatchOnSolayer ==
    \E m \in Messages(AllRequests), k \in DOMAIN lay_guardians, at \in InstructionIndex :
        /\ Cardinality(DOMAIN lay_verified \cup {m}) <= MaxStray
        /\ Solayer!VerifySignature(m, <<k - 1>>, at)
        /\ UNCHANGED <<solanaVars, solayerProgram>>
StrayBatchOnSolana ==
    \E m \in Messages(AllRequests), k \in DOMAIN sol_guardians, at \in InstructionIndex :
        /\ Cardinality(DOMAIN sol_verified \cup {m}) <= MaxStray
        /\ Solana!VerifySignature(m, <<k - 1>>, at)
        /\ UNCHANGED <<solayerVars, solanaProgram>>

\* The operator combines any open record with any call.
PayOnSolayer ==
    \E signer \in Authority, hash \in DOMAIN lay_verified, p \in Calls(AllRequests) :
        /\ \/ Solayer!BridgeAssetTargetChain(signer, hash, p)
           \/ Solayer!BridgeAssetTargetChainSol(signer, hash, p)
        /\ UNCHANGED solanaVars
PayOnSolana ==
    \E signer \in Authority, hash \in DOMAIN sol_verified, p \in Calls(AllRequests) :
        /\ \/ Solana!BridgeAssetTargetChain(signer, hash, p)
           \/ Solana!BridgeAssetTargetChainSol(signer, hash, p)
        /\ UNCHANGED solayerVars

RegisterOnSolayer == Solayer!RegisterToken /\ UNCHANGED solanaVars
RegisterOnSolana == Solana!RegisterToken /\ UNCHANGED solayerVars

-----------------------------------------------------------------------------
\* The same guardians and threshold on both chains, nothing signed yet.
GuardedBy(list, thr) ==
    /\ sol_guardians = list /\ lay_guardians = list
    /\ sol_threshold = thr /\ lay_threshold = thr
    /\ sol_verified = <<>> /\ lay_verified = <<>>
    /\ sol_now = 0 /\ lay_now = 0
    /\ attested = [g \in Guardian |-> {}]
    /\ sol_disturbed = {} /\ lay_disturbed = {}

\* Both deployments after the setup scripts: guardians added, threshold set.
BridgeInit ==
    /\ Solana!ProgramInit
    /\ Solayer!ProgramInit
    /\ \E list \in SetToSeqs(Guardian) : GuardedBy(list, Cardinality(Guardian))

\* A user of Solana, and one of Solayer.
CallOnSolana == (Solana!BridgeToken \/ Solana!BridgeSol) /\ UNCHANGED solayerVars
CallOnSolayer == (Solayer!BridgeToken \/ Solayer!BridgeSol) /\ UNCHANGED solanaVars

BridgeNext ==
    \/ CallOnSolana \/ CallOnSolayer
    \/ SignForSolayer \/ SignForSolana
    \/ RelayToSolayer \/ RelayToSolana
    \/ StrayBatchOnSolayer \/ StrayBatchOnSolana
    \/ PayOnSolayer \/ PayOnSolana
    \/ RegisterOnSolayer \/ RegisterOnSolana

BridgeSpec == BridgeInit /\ [][BridgeNext]_bridgeVars

\* Guardians, relayer and operators keep working; users need not do anything.
BridgeFairSpec ==
    /\ BridgeSpec
    /\ WF_bridgeVars(SignForSolayer) /\ WF_bridgeVars(SignForSolana)
    /\ WF_bridgeVars(RelayToSolayer) /\ WF_bridgeVars(RelayToSolana)
    /\ WF_bridgeVars(RegisterOnSolayer) /\ WF_bridgeVars(RegisterOnSolana)
    /\ WF_bridgeVars(PayOnSolayer) /\ WF_bridgeVars(PayOnSolana)

-----------------------------------------------------------------------------
\* The source calls, by position, that have been paid out on the other chain.
Answered(requests, payouts) ==
    {i \in DOMAIN requests : PayoutOf(requests[i]) \in ToSet(payouts)}
Undelivered(requests, payouts) ==
    {requests[i] : i \in DOMAIN requests \ Answered(requests, payouts)}
ToSolayer == Undelivered(sol_requests, lay_payouts)
ToSolana == Undelivered(lay_requests, sol_payouts)

Amounts(rs, Value(_)) == SumFunction([r \in rs |-> Value(r)])

\* Every record paid on was undisturbed: no removal had shifted it, and every
\* batch in it came with data that pointed at itself.
Vouched == sol_audit.vouched /\ lay_audit.vouched

\* Every payout so far answers a call of the other chain.
Routed ==
    /\ \A i \in DOMAIN lay_payouts : lay_payouts[i].tx[1] # "Solayer"
    /\ \A i \in DOMAIN sol_payouts : sol_payouts[i].tx[1] # "Solana"

Trusted == Vouched /\ Routed

\* Every wrapped token is covered by one locked in its home vault, and every
\* lamport on Solayer by one the Solana handler keeps, counting what is on its
\* way in either direction: neither chain can be left unable to pay.
Backed ==
    LET locked(m) == IF m \in SolanaMint THEN sol_tokens[m]["vault"]
                                         ELSE lay_tokens[m]["vault"]
        wrapped(m) == SumFunction(IF m \in SolanaMint THEN lay_tokens[MintThere(m)]
                                                  ELSE sol_tokens[MintThere(m)])
        moving(m) == Amounts({r \in ToSolayer \cup ToSolana : r.mint \in {m, MintThere(m)}},
                             LAMBDA r : r.amount)
    IN /\ \A m \in Asset : locked(m) = wrapped(m) + moving(m)
       /\ sol_lamports["handler"] =
              SumFunction(lay_lamports) + Amounts(ToSolayer \cup ToSolana, Solana!SolOf)

\* Backed, as long as the records paid on are undisturbed and each call is paid
\* on the other chain only, both of which the program leaves to its users.
BackedWhileTrusted == Trusted => Backed

\* Each payout of a log answers a call somebody made, on either chain.
AnswersCalls(payouts) ==
    \A i \in DOMAIN payouts :
        \E j \in DOMAIN AllRequests : payouts[i] = PayoutOf(AllRequests[j])

\* A chain on which every record paid on was undisturbed has paid source calls
\* only, to the recipient and over the amount the user named, whichever record
\* and call an operator combines.  In any case no call is paid twice on one
\* chain.  It may be paid on the chain it was made on: the hash names none.
OnlyRequested ==
    /\ lay_audit.vouched => AnswersCalls(lay_payouts)
    /\ sol_audit.vouched => AnswersCalls(sol_payouts)
    /\ IsInjective(lay_payouts) /\ IsInjective(sol_payouts)

\* Every source call is paid out in the end, unless a disturbed record or a
\* payout on the wrong chain gets in its way.
EveryRequestPaid ==
    \A n \in 1..MaxNonce :
        /\ n \in DOMAIN sol_requests
               ~> (n \in Answered(sol_requests, lay_payouts) \/ ~Trusted)
        /\ n \in DOMAIN lay_requests
               ~> (n \in Answered(lay_requests, sol_payouts) \/ ~Trusted)

-----------------------------------------------------------------------------
\* A token and its wrapped mint are one asset, a call not answered yet is a
\* transfer in transit.
Home(mint) == IF mint \in Asset \cup {SOL} THEN mint ELSE MintThere(mint)
HeldIn(tokens, lamports, u, a) ==
    CASE a = SOL -> lamports[u]
      [] a \in DOMAIN tokens -> tokens[a][u]
      [] OTHER -> tokens[MintThere(a)][u]
HeldOn(tokens, lamports) ==
    [u \in User |-> [a \in Asset \cup {SOL} |-> HeldIn(tokens, lamports, u, a)]]
AsTransfer(r) ==
    [from |-> r.tx[1], id |-> r.nonce, sender |-> r.sender, recipient |-> r.recipient,
     asset |-> Home(r.mint), amount |-> r.amount, gas |-> r.gas]

Holding == [c \in {"Solana", "Solayer"} |->
               IF c = "Solana" THEN HeldOn(sol_tokens, sol_lamports)
                               ELSE HeldOn(lay_tokens, lay_lamports)]
Transit == {AsTransfer(r) : r \in ToSolayer \cup ToSolana}

Promise == INSTANCE BridgeTransfer WITH holding <- Holding, transit <- Transit

\* The bridge implements BridgeTransfer.
ImplementsTransfer == Promise!TransferSpec

\* The bridge implements BridgeTransfer until a disturbed record is paid on or a
\* call is paid on the chain it was made on.
ImplementsTransferWhileTrusted ==
    /\ Promise!TransferInit
    /\ [][Trusted' => [Promise!TransferNext]_<<Holding, Transit>>]_bridgeVars

=============================================================================
