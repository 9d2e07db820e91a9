----------------------------- MODULE Deployment -----------------------------
(***************************************************************************)
(* One deployment of the bridge program: a BridgeHandler on one chain with *)
(* its token registry, vaults, nonce, guardians and instant-payout cap.    *)
(* Each instruction of lib.rs is an action; an instruction that fails      *)
(* changes nothing, so only its success is an action.                      *)
(*                                                                         *)
(* Amounts are in whole units of a test scale.  Rent deposits and network  *)
(* fees are left out: lamports counts what an account holds above them.    *)
(***************************************************************************)
EXTENDS Guardians

CONSTANTS
    chain,                          \* "Solana" or "Solayer"
    User, Authority, FeeVault,      \* keys of users, of managers and operators, of vaults
    SOL,                            \* SOL_MINT_PUBKEY
    LocalMint,                      \* mints that exist on this chain without the bridge
    RemoteMint,                     \* mints of the other chain the operator may add
    InitialTokens, InitialLamports, \* what every user starts with
    Payout,                         \* calls to the target-chain handlers
    DEFAULT_BRIDGE_ASSET_FEE,       \* FixedFeeInfo::default().bridge_asset_fee
    BridgeAssetFee,                 \* values update_fee_info may set it to
    MIN_SOL_BRIDGE_AMOUNT, MAX_ADDITIONAL_SOL_GAS, METADATA_CREATION_FEE,
    LAMPORTS_PER_SOL, SOLANA_DOLLAR_VALUE, SOLANA_DOLLAR_CAP_PER_EPOCH,
    SOLANA_POST_INSTANT_CAP_AWAITING_TIME_SECONDS,
    SOLANA_WHITELISTED_TOKENS,      \* mint -> price of one token in cents
    TokenUnit,                      \* 10 ^ decimals
    BridgeProofNonce,               \* bridge_proof_nonce's that users pick
    Amount, Gas, InstantBridgeCap,  \* values of instruction arguments
    MaxInstructions,                \* source-chain instructions in one transaction
    MaxNonce, MaxEpoch              \* bounds

ASSUME ChainAssumption == chain \in {"Solana", "Solayer"}

\* Lamports, token amounts and dollars are u64's.
ASSUME AmountAssumption ==
    /\ Amount \subseteq Nat /\ Gas \subseteq Nat /\ InstantBridgeCap \subseteq Nat
    /\ BridgeAssetFee \subseteq Nat /\ DEFAULT_BRIDGE_ASSET_FEE \in Nat
    /\ InitialTokens \in Nat /\ InitialLamports \in Nat
    /\ METADATA_CREATION_FEE \in Nat /\ MIN_SOL_BRIDGE_AMOUNT \in Nat
    /\ MAX_ADDITIONAL_SOL_GAS \in Nat
    /\ MaxNonce \in Nat /\ MaxEpoch \in Nat

\* Prices and what they are prices of.
ASSUME PriceAssumption ==
    /\ LAMPORTS_PER_SOL \in Nat \ {0} /\ TokenUnit \in Nat \ {0}
    /\ SOLANA_DOLLAR_VALUE \in Nat /\ SOLANA_DOLLAR_CAP_PER_EPOCH \in Nat
    /\ \A m \in DOMAIN SOLANA_WHITELISTED_TOKENS : SOLANA_WHITELISTED_TOKENS[m] \in Nat

\* What an operator's call may carry: anything of the right type.  A payout of
\* SOL names no token.
ASSUME PayoutAssumption ==
    \A p \in Payout : /\ p.recipient \in User /\ p.amount \in Nat /\ p.gas \in Nat
                      /\ p.kind = "sol" => p.mint = SOL

VARIABLES
    handler,        \* BridgeHandler, without the guardian threshold
    epoch,          \* Clock.epoch
    token_info,     \* the TokenInfo accounts, by mint
    tokens,         \* token balances, by mint and holder
    lamports,       \* SOL balances
    source_proofs,  \* the BridgeProofSourceChain accounts: hash by <<signer, nonce>>
    target_proofs,  \* the BridgeProof accounts: message hash by source transaction
    requests,       \* history, read off chain: the source-chain calls, in order
    payouts,        \* history: the target-chain calls, in order
    audit           \* history: [paused, instant_out, cap_granted, cap_set, vouched]

programVars == <<handler, epoch, token_info, tokens, lamports, source_proofs,
                 target_proofs, requests, payouts, audit>>
vars == <<guardianVars, programVars>>

HANDLER == "handler"        \* the BridgeHandler account as a holder of lamports
VAULT == "vault"            \* the handler's token account of a mint

\* The mint PDA of add_token, seeded by the source mint.
WrappedMint(source_mint) == <<"mint", source_mint>>
Mint == LocalMint \cup {WrappedMint(s) : s \in RemoteMint}

\* No wallet holds the key of an address the program derives.
ASSUME MintAssumption == \A s \in RemoteMint : WrappedMint(s) \notin LocalMint

\* Keys are finitely many, and accounts of different kinds have different keys.
ASSUME KeyAssumption ==
    /\ IsFiniteSet(Guardian) /\ IsFiniteSet(User) /\ IsFiniteSet(FeeVault)
    /\ User \cap FeeVault = {} /\ VAULT \notin User
    /\ HANDLER \notin User \cup FeeVault
    /\ SOL \notin Mint

OtherChain == IF chain = "Solana" THEN "Solayer" ELSE "Solana"

\* What the guardians sign: the SHA-256 of the concatenated fields.  Token and
\* SOL messages have different lengths, so they never share a hash.
MessageHash(p) ==
    IF p.kind = "token"
    THEN <<p.sender, p.recipient, p.source_mint, p.mint, p.amount, p.nonce, p.tx, p.gas>>
    ELSE <<p.sender, p.recipient, SOL, p.amount, p.nonce, p.tx>>

\* What the source chain keeps in the proof account.
SourceHash(r) == <<r.sender, r.recipient, r.mint, r.amount, r.proof_nonce>>

Move(balance, from, to, n) == [balance EXCEPT ![from] = @ - n, ![to] = @ + n]

\* f with the value v at x, defined there or not.
Put(f, x, v) == [y \in DOMAIN f \cup {x} |-> IF y = x THEN v ELSE f[y]]

-----------------------------------------------------------------------------
ProgramInit ==
    /\ \E manager, operator \in Authority, fee_vault \in FeeVault :
           handler = [pause |-> FALSE, nonce |-> 0, manager |-> manager,
                      operator |-> operator, fee_vault |-> fee_vault,
                      bridge_asset_fee |-> DEFAULT_BRIDGE_ASSET_FEE,
                      cap_remained |-> SOLANA_DOLLAR_CAP_PER_EPOCH, cap_epoch |-> 0]
    /\ epoch = 0
    /\ token_info = <<>>
    /\ tokens = [m \in Mint |-> [h \in User \cup {VAULT} |->
                     IF h \in User /\ m \in LocalMint THEN InitialTokens ELSE 0]]
    /\ lamports = [h \in User \cup FeeVault \cup {HANDLER} |->
                     IF h \in User THEN InitialLamports ELSE 0]
    /\ source_proofs = <<>>
    /\ target_proofs = <<>>
    /\ requests = <<>>
    /\ payouts = <<>>
    /\ audit = [paused |-> {}, instant_out |-> 0,
                cap_granted |-> SOLANA_DOLLAR_CAP_PER_EPOCH,
                cap_set |-> SOLANA_DOLLAR_CAP_PER_EPOCH,
                vouched |-> TRUE]

Init == GuardiansInit /\ ProgramInit

-----------------------------------------------------------------------------
(***************************************************************************)
(* Source chain: a user hands in tokens or SOL.                            *)
(***************************************************************************)

\* Variant: what is burned on one chain and kept on the other, swapped.
TakeSolSwapped(balance, signer, n) ==
    IF chain = "Solayer" THEN Move(balance, signer, HANDLER, n)
                         ELSE [balance EXCEPT ![signer] = @ - n]

\* SOL taken from a user: kept by the handler on Solana, burned on Solayer.
TakeSol(balance, signer, n) ==
    IF chain = "Solana" THEN Move(balance, signer, HANDLER, n)
                        ELSE [balance EXCEPT ![signer] = @ - n]

\* The transactions a call of signer may be in: a new one, named by its first
\* nonce, or the one of the call just before it.
SourceTx(signer) ==
    {<<chain, handler.nonce>>} \cup
    {t \in {requests[Len(requests)].tx : i \in DOMAIN requests} :
         /\ requests[Len(requests)].sender = signer
         /\ Cardinality({i \in DOMAIN requests : requests[i].tx = t}) < MaxInstructions}

\* Variant: a proof account is overwritten when its seeds come again.
IssueBridgeProofAgain(r) ==
    /\ handler.nonce < MaxNonce
    /\ source_proofs' = Put(source_proofs, <<r.sender, r.proof_nonce>>, SourceHash(r))
    /\ requests' = Append(requests, r)
    /\ handler' = [handler EXCEPT !.nonce = @ + 1]

\* The proof account must not exist yet; the nonce is taken and counted up.
IssueBridgeProof(r) ==
    /\ <<r.sender, r.proof_nonce>> \notin DOMAIN source_proofs
    /\ handler.nonce < MaxNonce
    /\ source_proofs' = Put(source_proofs, <<r.sender, r.proof_nonce>>, SourceHash(r))
    /\ requests' = Append(requests, r)
    /\ handler' = [handler EXCEPT !.nonce = @ + 1]

\* Variant: the first call of every user registers the mint as native.
RegisterNativeAgain(mint, target_mint) ==
    token_info' = Put(token_info, mint, [native |-> chain, counterpart |-> target_mint,
                                         pause |-> FALSE])

\* A mint without TokenInfo is taken for native here and registered.  An
\* initialised TokenInfo has exactly one of its two native flags set: native.
RegisterNative(mint, target_mint) ==
    token_info' = IF mint \in DOMAIN token_info THEN token_info
                  ELSE Put(token_info, mint, [native |-> chain, counterpart |-> target_mint,
                                              pause |-> FALSE])

BridgeAssetSourceChain(signer, proof_nonce, mint, amount, recipient, target_mint, gas, tx) ==
    LET unknown == mint \notin DOMAIN token_info
        native == unknown \/ token_info[mint].native = chain
        fee == handler.bridge_asset_fee
                   + IF unknown /\ chain = "Solayer" THEN METADATA_CREATION_FEE ELSE 0
    IN /\ mint \in LocalMint \cup DOMAIN token_info
       /\ ~ handler.pause
       /\ tokens[mint][signer] >= amount
       /\ gas = 0 \/ gas \in MIN_SOL_BRIDGE_AMOUNT..MAX_ADDITIONAL_SOL_GAS
       /\ lamports[signer] >= fee + gas
       /\ mint \in DOMAIN token_info => ~ token_info[mint].pause
       /\ lamports' = TakeSol(Move(lamports, signer, handler.fee_vault, fee), signer, gas)
       /\ RegisterNative(mint, target_mint)
       /\ tokens' = IF native THEN [tokens EXCEPT ![mint] = Move(@, signer, VAULT, amount)]
                              ELSE [tokens EXCEPT ![mint][signer] = @ - amount]
       /\ IssueBridgeProof([kind |-> "token", sender |-> signer, recipient |-> recipient,
                            mint |-> mint, amount |-> amount, gas |-> gas,
                            nonce |-> handler.nonce, tx |-> tx, proof_nonce |-> proof_nonce])
       /\ UNCHANGED <<guardianVars, epoch, target_proofs, payouts, audit>>

BridgeAssetSourceChainSol(signer, proof_nonce, amount, recipient, tx) ==
    /\ ~ handler.pause
    /\ amount >= MIN_SOL_BRIDGE_AMOUNT
    /\ lamports[signer] >= handler.bridge_asset_fee + amount
    /\ lamports' = TakeSol(Move(lamports, signer, handler.fee_vault, handler.bridge_asset_fee),
                           signer, amount)
    /\ IssueBridgeProof([kind |-> "sol", sender |-> signer, recipient |-> recipient,
                         mint |-> SOL, amount |-> amount, gas |-> 0,
                         nonce |-> handler.nonce, tx |-> tx, proof_nonce |-> proof_nonce])
    /\ UNCHANGED <<guardianVars, epoch, token_info, tokens, target_proofs, payouts, audit>>

-----------------------------------------------------------------------------
(***************************************************************************)
(* Target chain: the operator pays out a message the guardians signed.     *)
(***************************************************************************)

\* f64 to u64: fractions of a dollar are dropped; less than one whole token
\* counts as one.
SolDollars(amount) == (amount * SOLANA_DOLLAR_VALUE) \div LAMPORTS_PER_SOL
TokenDollars(mint, amount) ==
    LET counted == IF amount < TokenUnit THEN TokenUnit ELSE amount
    IN  (counted * SOLANA_WHITELISTED_TOKENS[mint]) \div (TokenUnit * 100)

IsCapped(p) ==
    /\ chain = "Solana"
    /\ p.kind = "token" => p.mint \in DOMAIN SOLANA_WHITELISTED_TOKENS

DollarValue(p) == IF p.kind = "token" THEN TokenDollars(p.mint, p.amount)
                                      ELSE SolDollars(p.amount)

\* The allowance after the reset the first payout of an epoch makes.
CapRemained == IF handler.cap_epoch # epoch THEN SOLANA_DOLLAR_CAP_PER_EPOCH
                                            ELSE handler.cap_remained

\* Variant: the remainder is written, the epoch it belongs to is not.
ChargedUnstamped(value) == [handler EXCEPT !.cap_remained = CapRemained - value]

Charged(value) ==
    [handler EXCEPT !.cap_epoch = epoch, !.cap_remained = CapRemained - value]

WithinCap(p) == CapRemained >= DollarValue(p)

\* A payout within the allowance is charged to it; one beyond it must have
\* waited since the last signatures came in, and is not charged.
ChargeInstantCap(p, hash) ==
    IF ~ IsCapped(p) THEN UNCHANGED handler
    ELSE /\ \/ WithinCap(p)
            \/ now - verified[hash].created_at
                   >= SOLANA_POST_INSTANT_CAP_AWAITING_TIME_SECONDS
         /\ handler' = Charged(IF WithinCap(p) THEN DollarValue(p) ELSE 0)

\* What left without waiting, and whether every record paid on so far was
\* undisturbed.
AuditPayout(p, hash) ==
    audit' = [audit EXCEPT
        !.instant_out = IF IsCapped(p) /\ WithinCap(p) THEN @ + DollarValue(p) ELSE @,
        !.vouched = @ /\ hash \notin disturbed]

\* Variant: the handler's lamports are not looked at.
PaySolOverdrawn(recipient, n) == lamports' = Move(lamports, HANDLER, recipient, n)

\* SOL given to a recipient: minted on Solayer, the handler's own on Solana,
\* of which the rent-exempt minimum (not counted in lamports) must stay.
PaySol(recipient, n) ==
    IF chain = "Solayer"
    THEN lamports' = [lamports EXCEPT ![recipient] = @ + n]
    ELSE /\ n <= lamports[HANDLER]
         /\ lamports' = Move(lamports, HANDLER, recipient, n)

\* Variant: an existing proof does not stop a payout.
RecordPayoutAgain(p) ==
    /\ target_proofs' = Put(target_proofs, p.tx, MessageHash(p))
    /\ payouts' = Append(payouts, p)

\* Variant: a payout leaves no proof behind.
RecordPayoutUnproved(p) ==
    /\ p.tx \notin DOMAIN target_proofs
    /\ payouts' = Append(payouts, p)
    /\ UNCHANGED target_proofs

\* The proof of a source transaction is created once and never closed.
RecordPayout(p) ==
    /\ p.tx \notin DOMAIN target_proofs
    /\ target_proofs' = Put(target_proofs, p.tx, MessageHash(p))
    /\ payouts' = Append(payouts, p)

\* Variant: any record is good for any payout.
AcceptPayoutUnhashed(signer, hash, p) ==
    /\ signer = handler.operator
    /\ ~ handler.pause
    /\ hash \in DOMAIN verified
    /\ ChargeInstantCap(p, hash)
    /\ AuditPayout(p, hash)
    /\ ConsumeSignatures(hash)
    /\ RecordPayout(p)

\* Variant: the record is closed uncounted.
AcceptPayoutUncounted(signer, hash, p) ==
    /\ signer = handler.operator
    /\ ~ handler.pause
    /\ hash \in DOMAIN verified
    /\ ChargeInstantCap(p, hash)
    /\ AuditPayout(p, hash)
    /\ verified' = [m \in DOMAIN verified \ {hash} |-> verified[m]]
    /\ disturbed' = disturbed \ {hash}
    /\ UNCHANGED <<guardians, threshold, now, attested>>
    /\ MessageHash(p) = hash
    /\ RecordPayout(p)

\* What both handlers check: the operator calls, the record of that hash has
\* a quorum, and the arguments of the call have that hash.
AcceptPayout(signer, hash, p) ==
    /\ signer = handler.operator
    /\ ~ handler.pause
    /\ hash \in DOMAIN verified
    /\ ChargeInstantCap(p, hash)
    /\ AuditPayout(p, hash)
    /\ ConsumeSignatures(hash)
    /\ MessageHash(p) = hash
    /\ RecordPayout(p)

BridgeAssetTargetChain(signer, hash, p) ==
    /\ p.kind = "token"
    /\ p.mint \in DOMAIN token_info
    /\ AcceptPayout(signer, hash, p)
    /\ p.gas <= MAX_ADDITIONAL_SOL_GAS
    /\ IF token_info[p.mint].native = chain
       THEN /\ tokens[p.mint][VAULT] >= p.amount
            /\ tokens' = [tokens EXCEPT ![p.mint] = Move(@, VAULT, p.recipient, p.amount)]
       ELSE tokens' = [tokens EXCEPT ![p.mint][p.recipient] = @ + p.amount]
    /\ IF p.gas > 0 THEN PaySol(p.recipient, p.gas) ELSE UNCHANGED lamports
    /\ UNCHANGED <<epoch, token_info, source_proofs, requests>>

BridgeAssetTargetChainSol(signer, hash, p) ==
    /\ p.kind = "sol"
    /\ AcceptPayout(signer, hash, p)
    /\ PaySol(p.recipient, p.amount)
    /\ UNCHANGED <<epoch, token_info, tokens, source_proofs, requests>>

-----------------------------------------------------------------------------
(***************************************************************************)
(* The operator's and the manager's instructions.                          *)
(***************************************************************************)

\* Variant: the wrapped mint is registered as native here.
AddTokenNative(signer, source_mint) ==
    LET mint == WrappedMint(source_mint) IN
    /\ signer = handler.operator
    /\ token_info' = IF mint \in DOMAIN token_info THEN token_info
                     ELSE Put(token_info, mint, [native |-> chain,
                                                 counterpart |-> source_mint,
                                                 pause |-> FALSE])
    /\ UNCHANGED <<guardianVars, handler, epoch, tokens, lamports, source_proofs,
                   target_proofs, requests, payouts, audit>>

\* Registers the wrapped mint of a token of the other chain; again: no change.
AddToken(signer, source_mint) ==
    LET mint == WrappedMint(source_mint) IN
    /\ signer = handler.operator
    /\ token_info' = IF mint \in DOMAIN token_info THEN token_info
                     ELSE Put(token_info, mint, [native |-> OtherChain,
                                                 counterpart |-> source_mint,
                                                 pause |-> FALSE])
    /\ UNCHANGED <<guardianVars, handler, epoch, tokens, lamports, source_proofs,
                   target_proofs, requests, payouts, audit>>

\* update_fee_vault, update_fee_info, update_operator, update_manager and the
\* pause of the bridge: the manager writes one field of the handler.
UpdateHandler(signer, new) ==
    /\ signer = handler.manager
    /\ handler' = new
    /\ UNCHANGED <<guardianVars, epoch, token_info, tokens, lamports, source_proofs,
                   target_proofs, requests, payouts, audit>>

PauseBridge(signer) == UpdateHandler(signer, [handler EXCEPT !.pause = TRUE])
UnpauseBridge(signer) == UpdateHandler(signer, [handler EXCEPT !.pause = FALSE])
UpdateManager(signer, key) == UpdateHandler(signer, [handler EXCEPT !.manager = key])
UpdateOperator(signer, key) == UpdateHandler(signer, [handler EXCEPT !.operator = key])
UpdateFeeInfo(signer, fee) ==
    UpdateHandler(signer, [handler EXCEPT !.bridge_asset_fee = fee])
UpdateFeeVault(signer, key) ==
    /\ key # handler.fee_vault
    /\ UpdateHandler(signer, [handler EXCEPT !.fee_vault = key])

\* Only the remainder is written: the epoch it is for stays.
UpdateInstantBridgeCap(signer, cap) ==
    /\ signer = handler.manager
    /\ handler' = [handler EXCEPT !.cap_remained = cap]
    /\ audit' = [audit EXCEPT
           !.cap_set = audit.instant_out + cap,
           !.cap_granted = IF handler.cap_epoch = epoch THEN audit.instant_out + cap ELSE @]
    /\ UNCHANGED <<guardianVars, epoch, token_info, tokens, lamports, source_proofs,
                   target_proofs, requests, payouts>>

\* The instruction sets pause in its copy of a TokenInfo that the accounts
\* struct does not mark mut, so the runtime never writes it back.
SetTokenPause(signer, mint, paused) ==
    /\ signer = handler.manager
    /\ mint \in DOMAIN token_info
    /\ audit' = [audit EXCEPT !.paused = paused]
    /\ UNCHANGED <<guardianVars, handler, epoch, token_info, tokens, lamports,
                   source_proofs, target_proofs, requests, payouts>>

PauseToken(signer, mint) == SetTokenPause(signer, mint, audit.paused \cup {mint})
UnpauseToken(signer, mint) == SetTokenPause(signer, mint, audit.paused \ {mint})

\* External: the cluster enters its next epoch.
NextEpoch ==
    /\ epoch < MaxEpoch
    /\ epoch' = epoch + 1
    /\ audit' = [audit EXCEPT !.instant_out = 0,
                              !.cap_granted = SOLANA_DOLLAR_CAP_PER_EPOCH,
                              !.cap_set = SOLANA_DOLLAR_CAP_PER_EPOCH]
    /\ UNCHANGED <<guardianVars, handler, token_info, tokens, lamports, source_proofs,
                   target_proofs, requests, payouts>>

-----------------------------------------------------------------------------
\* The mint a caller names for the other chain: that of the asset, or another.
TargetMint == {WrappedMint(m) : m \in LocalMint} \cup RemoteMint

BridgeToken ==
    \E signer, recipient \in User, n \in BridgeProofNonce, mint \in Mint,
       amount \in Amount, target_mint \in TargetMint, gas \in Gas :
        \E tx \in SourceTx(signer) :
            BridgeAssetSourceChain(signer, n, mint, amount, recipient, target_mint, gas, tx)
BridgeSol ==
    \E signer, recipient \in User, n \in BridgeProofNonce, amount \in Amount :
        \E tx \in SourceTx(signer) :
            BridgeAssetSourceChainSol(signer, n, amount, recipient, tx)
PayToken ==
    \E signer \in Authority, hash \in DOMAIN verified, p \in Payout :
        BridgeAssetTargetChain(signer, hash, p)
PaySolOut ==
    \E signer \in Authority, hash \in DOMAIN verified, p \in Payout :
        BridgeAssetTargetChainSol(signer, hash, p)
RegisterToken == \E signer \in Authority, m \in RemoteMint : AddToken(signer, m)

\* The guardian instructions, which the manager signs: the program's other
\* accounts stay as they are.
Guarding ==
    /\ AnyAddGuardian \/ AnyRemoveGuardian \/ AnyUpdateGuardianThreshold
    /\ UNCHANGED programVars

\* Signatures arrive and time passes; closing a record is part of a payout.
Collecting ==
    /\ AnyAttest \/ AnyVerifySignature \/ Tick
    /\ UNCHANGED programVars

Managing ==
    \E signer \in Authority :
        \/ PauseBridge(signer)
        \/ UnpauseBridge(signer)
        \/ \E key \in Authority : UpdateManager(signer, key) \/ UpdateOperator(signer, key)
        \/ \E key \in FeeVault : UpdateFeeVault(signer, key)
        \/ \E fee \in BridgeAssetFee : UpdateFeeInfo(signer, fee)
        \/ \E cap \in InstantBridgeCap : UpdateInstantBridgeCap(signer, cap)
        \/ \E mint \in Mint : PauseToken(signer, mint) \/ UnpauseToken(signer, mint)

Next ==
    \/ BridgeToken
    \/ BridgeSol
    \/ PayToken
    \/ PaySolOut
    \/ RegisterToken
    \/ Guarding
    \/ Collecting
    \/ Managing
    \/ NextEpoch

Spec == Init /\ [][Next]_vars

-----------------------------------------------------------------------------
BridgeHandler == [pause : BOOLEAN, nonce : 0..MaxNonce, manager : Authority,
                  operator : Authority, fee_vault : FeeVault,
                  bridge_asset_fee : BridgeAssetFee \cup {DEFAULT_BRIDGE_ASSET_FEE},
                  cap_remained : Nat,
                  cap_epoch : 0..MaxEpoch]

TokenInfo == [native : {"Solana", "Solayer"}, counterpart : TargetMint, pause : BOOLEAN]

TokenRequest == [kind : {"token"}, sender : User, recipient : User, mint : Mint,
                 amount : Amount, gas : Gas, nonce : 0..(MaxNonce - 1),
                 tx : {chain} \X (0..(MaxNonce - 1)), proof_nonce : BridgeProofNonce]
SolRequest == [kind : {"sol"}, sender : User, recipient : User, mint : {SOL},
               amount : Amount, gas : {0}, nonce : 0..(MaxNonce - 1),
               tx : {chain} \X (0..(MaxNonce - 1)), proof_nonce : BridgeProofNonce]
Request == TokenRequest \cup SolRequest

Audit == [paused : SUBSET Mint, instant_out : Nat, cap_granted : Nat, cap_set : Nat,
          vouched : BOOLEAN]

HandlerTypeOK == handler \in BridgeHandler /\ epoch \in 0..MaxEpoch /\ audit \in Audit
RegistryTypeOK ==
    /\ DOMAIN token_info \subseteq Mint
    /\ \A m \in DOMAIN token_info : token_info[m] \in TokenInfo
BalancesTypeOK ==
    /\ tokens \in [Mint -> [User \cup {VAULT} -> Nat]]
    /\ lamports \in [User \cup FeeVault \cup {HANDLER} -> Nat]
RequestsTypeOK ==
    /\ requests \in Seq(Request)
    /\ DOMAIN source_proofs \subseteq User \X BridgeProofNonce
PayoutsTypeOK ==
    /\ payouts \in Seq(Payout)
    /\ DOMAIN target_proofs = {payouts[i].tx : i \in DOMAIN payouts}

\* Types of the program's accounts: balances never go below zero, and a proof
\* of execution exists for exactly what was paid.
ProgramTypeOK ==
    /\ HandlerTypeOK
    /\ RegistryTypeOK
    /\ BalancesTypeOK
    /\ RequestsTypeOK
    /\ PayoutsTypeOK

Total(log, Value(_)) == SumFunction([i \in DOMAIN log |-> Value(log[i])])

\* Lamports a source call hands in, or a payout hands out, as SOL or as gas.
SolOf(r) == IF r.kind = "sol" THEN r.amount ELSE r.gas
TokensOf(r, mint) == IF r.mint = mint THEN r.amount ELSE 0

\* What the log of calls says and what the accounts hold agree: a native
\* token's vault holds what was handed in and not paid out, of a wrapped token
\* exists what was paid out and not handed in, the handler holds on Solana the
\* SOL handed in and not paid out, and beyond that no SOL appears or is lost
\* (on Solayer it is burned and minted).
LedgerBalanced ==
    LET sol_in == Total(requests, SolOf)
        sol_out == Total(payouts, SolOf)
        sol_held == SumFunction(lamports)
        issued == Cardinality(User) * InitialLamports
    IN /\ \A m \in Mint :
              LET into == Total(requests, LAMBDA r : TokensOf(r, m))
                  out == Total(payouts, LAMBDA p : TokensOf(p, m))
                  supply == SumFunction(tokens[m])
              IN IF m \in LocalMint
                 THEN /\ tokens[m][VAULT] = into - out
                      /\ supply = Cardinality(User) * InitialTokens
                 ELSE /\ tokens[m][VAULT] = 0
                      /\ supply = out - into
       /\ IF chain = "Solana"
          THEN lamports[HANDLER] = sol_in - sol_out /\ sol_held = issued
          ELSE lamports[HANDLER] = 0 /\ sol_held = issued - sol_in + sol_out

\* A source transaction is paid at most once on this chain, also when its
\* signatures are submitted again after their record was closed, and also
\* when the guardians signed two messages for it.
PaidOncePerTransaction ==
    \A i, j \in DOMAIN payouts : payouts[i].tx = payouts[j].tx => i = j

\* A source call submitted again with the same bridge_proof_nonce takes
\* nothing twice, and the nonces guardians sign tell all calls apart.
RequestsDistinct ==
    \A i, j \in DOMAIN requests :
        \/ i = j
        \/ /\ requests[i].nonce # requests[j].nonce
           /\ \/ requests[i].sender # requests[j].sender
              \/ requests[i].proof_nonce # requests[j].proof_nonce

\* Between two resets the dollars paid out without waiting never exceed the
\* allowance, counting an allowance the manager has set anew in that epoch.
InstantWithinCap == audit.instant_out + CapRemained = audit.cap_granted

\* What the check for InstantBridgeCapExceeded is for: no more dollars leave
\* without waiting than the manager's last update_instant_bridge_cap of the
\* epoch allows, or else the default allowance of an epoch.
ManagersCapHolds == audit.instant_out <= audit.cap_set

\* Mints of this chain are registered as native here and mints the program
\* creates as native on the other chain, whoever registers first and however
\* often: a vault is never drained for a token that should have been minted.
RegistryFollowsOrigin ==
    \A m \in DOMAIN token_info :
        token_info[m].native = (IF m \in LocalMint THEN chain ELSE OtherChain)

\* A registration is never undone or redirected to another counterpart.
RegistrationIsFinal ==
    [][\A m \in DOMAIN token_info :
           m \in DOMAIN token_info' /\ token_info'[m] = token_info[m]]_vars

\* Every payout carries the signatures of a threshold of registered guardians
\* on its own sender, recipient, mint, amount, nonce and source transaction,
\* unless a removal has shifted its record or a batch in it came with Ed25519
\* data that pointed elsewhere.
PayoutsAreSigned ==
    [][payouts' # payouts =>
           LET hash == MessageHash(payouts'[Len(payouts')])
           IN  hash \in disturbed \/ Cardinality(Signers(hash)) >= threshold]_vars

\* What the TokenPaused check of the source chain is for: while the manager's
\* last word on a token is pause_token, nobody bridges it.
PausedTokenStays ==
    [][requests' # requests => requests'[Len(requests')].mint \notin audit.paused]_vars

=============================================================================
