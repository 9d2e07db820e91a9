-------------------------- MODULE DeploymentProofs --------------------------
(***************************************************************************)
(* What holds of one deployment for any numbers of users, mints, amounts   *)
(* and messages: first its types, its registry, its log of calls and the   *)
(* instant cap; then what its instructions do to the balances, and that    *)
(* the ledger stays balanced.                                              *)
(***************************************************************************)
EXTENDS Deployment, GuardiansProofs, SumProofs

-----------------------------------------------------------------------------
(***************************************************************************)
(* A deployment implements the guardian specification.                     *)
(***************************************************************************)

\* A payout closes the record of a message: one that verify_signature opened.
LEMMA PayoutConsumes ==
    ASSUME TypeOK, PayToken \/ PaySolOut
    PROVE  AnyConsumeSignatures
<1>1. PICK signer \in Authority, hash \in DOMAIN verified, p \in Payout :
          AcceptPayout(signer, hash, p)
  BY DEF PayToken, PaySolOut, BridgeAssetTargetChain, BridgeAssetTargetChainSol
<1>2. hash \in Message
  BY DEF TypeOK
<1>3. QED
  BY <1>1, <1>2 DEF AcceptPayout, AnyConsumeSignatures

\* What the program does apart from guardians, signatures and payouts.
LEMMA GuardiansUntouched ==
    ASSUME BridgeToken \/ BridgeSol \/ RegisterToken \/ Managing \/ NextEpoch
    PROVE  UNCHANGED guardianVars
<1>1. CASE BridgeToken
  BY <1>1 DEF BridgeToken, BridgeAssetSourceChain
<1>2. CASE BridgeSol
  BY <1>2 DEF BridgeSol, BridgeAssetSourceChainSol
<1>3. CASE RegisterToken
  BY <1>3 DEF RegisterToken, AddToken
<1>4. CASE Managing
  BY <1>4 DEF Managing, PauseBridge, UnpauseBridge, UpdateManager, UpdateOperator,
              UpdateFeeVault, UpdateFeeInfo, UpdateHandler, UpdateInstantBridgeCap,
              PauseToken, UnpauseToken, SetTokenPause
<1>5. CASE NextEpoch
  BY <1>5 DEF NextEpoch
<1>6. QED
  BY <1>1, <1>2, <1>3, <1>4, <1>5

\* Every step of a deployment is a step of module Guardians, or leaves it alone.
LEMMA GuardiansStep == IInv /\ [Next]_vars => [GuardiansNext]_guardianVars
<1> SUFFICES ASSUME IInv, [Next]_vars PROVE [GuardiansNext]_guardianVars
  OBVIOUS
<1>1. CASE PayToken \/ PaySolOut
  BY <1>1, PayoutConsumes DEF IInv, GuardiansNext
<1>2. CASE Guarding \/ Collecting
  BY <1>2 DEF Guarding, Collecting, GuardiansNext
<1>3. CASE BridgeToken \/ BridgeSol \/ RegisterToken \/ Managing \/ NextEpoch
  BY <1>3, GuardiansUntouched
<1>4. CASE UNCHANGED vars
  BY <1>4 DEF vars
<1>5. QED
  BY <1>1, <1>2, <1>3, <1>4 DEF Next

\* So the invariant of module Guardians holds of a deployment.
LEMMA GuardiansInvariance == Spec => []IInv
<1>1. Init => IInv
  BY InitInvariant DEF Init
<1>2. IInv /\ [Next]_vars => IInv'
  BY GuardiansStep, NextInvariant
<1>3. QED
  BY <1>1, <1>2, PTL DEF Spec

\* Whatever else its instructions do, a deployment treats guardians, threshold
\* and records as module Guardians says: records change by verified batches
\* and are closed by counted payouts only.
THEOREM ImplementsGuardians == Spec => GuardiansSpec
<1>1. Init => GuardiansInit
  BY DEF Init
<1>2. QED
  BY <1>1, GuardiansStep, GuardiansInvariance, PTL DEF Spec, GuardiansSpec

-----------------------------------------------------------------------------
(***************************************************************************)
(* The inductive invariant of the program's own accounts.  The types alone *)
(* carry over from step to step, balances included; single payment needs   *)
(* the proofs of execution to be those of the payouts (PayoutsTypeOK), the *)
(* cap needs its stamp not to be ahead of the epoch, and the distinctness  *)
(* of calls needs every call's proof account to be there still.            *)
(***************************************************************************)
CapCurrent == handler.cap_epoch <= epoch /\ InstantWithinCap

NoncesCount ==
    /\ handler.nonce = Len(requests)
    /\ \A i \in DOMAIN requests :
           /\ requests[i].nonce = i - 1
           /\ <<requests[i].sender, requests[i].proof_nonce>> \in DOMAIN source_proofs

DInv ==
    /\ ProgramTypeOK
    /\ CapCurrent
    /\ NoncesCount
    /\ RequestsDistinct
    /\ PaidOncePerTransaction
    /\ RegistryFollowsOrigin

-----------------------------------------------------------------------------
(***************************************************************************)
(* Helpers.                                                                *)
(***************************************************************************)

\* A transfer of what is there leaves no balance negative, and the giver short
\* of at most the amount (of nothing, if it is the taker too).
LEMMA MoveProperties ==
    ASSUME NEW S, NEW b \in [S -> Nat], NEW from \in S, NEW to \in S, NEW n \in Nat,
           n <= b[from]
    PROVE  /\ Move(b, from, to, n) \in [S -> Nat]
           /\ Move(b, from, to, n)[from] >= b[from] - n
  BY DEF Move

\* Taking SOL from a user who has it leaves every balance a natural number.
LEMMA TakeSolProperties ==
    ASSUME NEW S, NEW b \in [S -> Nat], NEW signer \in S, HANDLER \in S, NEW n \in Nat,
           n <= b[signer]
    PROVE  TakeSol(b, signer, n) \in [S -> Nat]
  BY MoveProperties DEF TakeSol

\* Products and quotients of natural numbers are natural numbers.
LEMMA QuotientIsNat ==
    ASSUME NEW a \in Nat, NEW b \in Nat, NEW c \in Nat \ {0}
    PROVE  (a * b) \div c \in Nat
<1>1. a * b \in Nat
  OBVIOUS
<1> DEFINE n == a * b
<1>2. n \in Nat
  BY <1>1
<1> HIDE DEF n
<1>3. n \div c \in Nat
  BY <1>2
<1>4. QED
  BY <1>3 DEF n

\* The dollars a capped payout is charged with.
LEMMA DollarValueType ==
    ASSUME NEW p \in Payout, IsCapped(p)
    PROVE  DollarValue(p) \in Nat
<1>1. p.amount \in Nat
  BY PayoutAssumption
<1>2. SolDollars(p.amount) \in Nat
  BY <1>1, PriceAssumption, QuotientIsNat DEF SolDollars
<1>3. CASE p.kind = "token"
  <2>1. SOLANA_WHITELISTED_TOKENS[p.mint] \in Nat
    BY <1>3, PriceAssumption DEF IsCapped
  <2>2. TokenUnit * 100 \in Nat \ {0}
    BY PriceAssumption
  <2>3. (IF p.amount < TokenUnit THEN TokenUnit ELSE p.amount) \in Nat
    BY <1>1, PriceAssumption
  <2>4. TokenDollars(p.mint, p.amount) \in Nat
    BY <2>1, <2>2, <2>3, QuotientIsNat DEF TokenDollars
  <2>5. QED
    BY <2>4, <1>3 DEF DollarValue
<1>4. QED
  BY <1>2, <1>3 DEF DollarValue

\* What a payout writes into the audit: the dollars it is charged, and whether
\* its record was vouched for.
LEMMA AuditAfterPayout ==
    ASSUME HandlerTypeOK, NEW p, NEW hash, AuditPayout(p, hash),
           NEW charge \in Nat,
           charge = (IF IsCapped(p) /\ WithinCap(p) THEN DollarValue(p) ELSE 0)
    PROVE  /\ audit' \in Audit
           /\ audit'.instant_out = audit.instant_out + charge
           /\ audit'.cap_granted = audit.cap_granted
           /\ audit'.vouched = (audit.vouched /\ hash \notin disturbed)
<1> DEFINE ok == audit.vouched /\ hash \notin disturbed
<1>1. /\ audit \in Audit /\ audit.instant_out \in Nat
      /\ audit.instant_out + charge \in Nat
  BY DEF HandlerTypeOK, Audit
<1>2. (IF IsCapped(p) /\ WithinCap(p) THEN audit.instant_out + DollarValue(p)
                                      ELSE audit.instant_out)
          = audit.instant_out + charge
  BY <1>1
<1>3. audit' = [audit EXCEPT !.instant_out = audit.instant_out + charge, !.vouched = ok]
  BY <1>2 DEF AuditPayout
<1>4. ok \in BOOLEAN
  OBVIOUS
<1> HIDE DEF ok
<1>5. QED
  <2>1. /\ audit' \in Audit
        /\ audit'.instant_out = audit.instant_out + charge
        /\ audit'.cap_granted = audit.cap_granted
        /\ audit'.vouched = ok
    BY <1>1, <1>3, <1>4 DEF Audit
  <2>2. QED
    BY <2>1, Zenon DEF ok

\* A payout within the cap leaves types and cap in order.
LEMMA ChargeInvariant ==
    ASSUME HandlerTypeOK, CapCurrent, NEW p \in Payout, NEW hash,
           ChargeInstantCap(p, hash), AuditPayout(p, hash), UNCHANGED epoch
    PROVE  /\ HandlerTypeOK'
           /\ CapCurrent'
           /\ handler'.nonce = handler.nonce
<1>1. CASE ~ IsCapped(p)
  <2>1. UNCHANGED handler
    BY <1>1 DEF ChargeInstantCap
  <2>2. /\ audit' \in Audit
        /\ audit'.instant_out = audit.instant_out
        /\ audit'.cap_granted = audit.cap_granted
    BY <1>1, AuditAfterPayout DEF HandlerTypeOK, Audit
  <2>3. QED
    BY <2>1, <2>2 DEF HandlerTypeOK, CapCurrent, InstantWithinCap, CapRemained
<1>2. CASE IsCapped(p)
  <2> DEFINE value == DollarValue(p)
             charge == IF WithinCap(p) THEN value ELSE 0
  <2>1. value \in Nat /\ CapRemained \in Nat
    BY <1>2, DollarValueType, PriceAssumption
       DEF HandlerTypeOK, BridgeHandler, CapRemained
  <2>2. handler' = [handler EXCEPT !.cap_epoch = epoch,
                                   !.cap_remained = CapRemained - charge]
    BY <1>2 DEF ChargeInstantCap, Charged
  <2>3. charge \in Nat /\ CapRemained - charge \in Nat
    BY <2>1 DEF WithinCap
  <2>4. /\ audit' \in Audit
        /\ audit'.instant_out = audit.instant_out + charge
        /\ audit'.cap_granted = audit.cap_granted
    BY <1>2, <2>3, AuditAfterPayout
  <2> HIDE DEF charge, value
  <2>5. HandlerTypeOK'
    BY <2>2, <2>3, <2>4 DEF HandlerTypeOK, BridgeHandler
  <2>6. /\ handler'.cap_epoch = epoch'
        /\ handler'.cap_remained = CapRemained - charge
        /\ handler'.nonce = handler.nonce
    BY <2>2 DEF HandlerTypeOK, BridgeHandler
  <2>7. CapRemained' = CapRemained - charge
    BY <2>6 DEF CapRemained
  <2>8. CapCurrent'
    BY <2>1, <2>3, <2>4, <2>6, <2>7 DEF CapCurrent, InstantWithinCap, HandlerTypeOK, Audit
  <2>9. QED
    BY <2>5, <2>6, <2>8
<1>3. QED
  BY <1>1, <1>2

-----------------------------------------------------------------------------
(***************************************************************************)
(* Parts of the invariant an action leaves alone.                          *)
(***************************************************************************)

\* Facts of the handler stay where it is not written.
LEMMA UnchangedHandler ==
    ASSUME HandlerTypeOK, CapCurrent, UNCHANGED <<handler, epoch, audit>>
    PROVE  HandlerTypeOK' /\ CapCurrent'
  BY DEF HandlerTypeOK, CapCurrent, InstantWithinCap, CapRemained

\* Facts of the registry stay where it is not written.
LEMMA UnchangedRegistry ==
    ASSUME RegistryTypeOK, RegistryFollowsOrigin, UNCHANGED token_info
    PROVE  RegistryTypeOK' /\ RegistryFollowsOrigin'
  BY DEF RegistryTypeOK, RegistryFollowsOrigin

\* Facts of the logged calls stay where none is logged.
LEMMA UnchangedRequests ==
    ASSUME RequestsTypeOK, NoncesCount, RequestsDistinct,
           UNCHANGED <<requests, source_proofs>>, handler'.nonce = handler.nonce
    PROVE  RequestsTypeOK' /\ NoncesCount' /\ RequestsDistinct'
  BY DEF RequestsTypeOK, NoncesCount, RequestsDistinct

\* Facts of the payouts stay where none is made.
LEMMA UnchangedPayouts ==
    ASSUME PayoutsTypeOK, PaidOncePerTransaction, UNCHANGED <<payouts, target_proofs>>
    PROVE  PayoutsTypeOK' /\ PaidOncePerTransaction'
  BY DEF PayoutsTypeOK, PaidOncePerTransaction

-----------------------------------------------------------------------------
(***************************************************************************)
(* The steps the handlers share.                                           *)
(***************************************************************************)

\* A new call takes the next nonce and an unused proof account.
LEMMA IssueInvariant ==
    ASSUME HandlerTypeOK, CapCurrent, RequestsTypeOK, NoncesCount, RequestsDistinct,
           NEW r \in Request, r.nonce = handler.nonce, IssueBridgeProof(r),
           UNCHANGED <<epoch, audit>>
    PROVE  /\ HandlerTypeOK' /\ CapCurrent'
           /\ RequestsTypeOK' /\ NoncesCount' /\ RequestsDistinct'
<1> DEFINE key == <<r.sender, r.proof_nonce>>
           n == Len(requests)
<1>1. /\ requests \in Seq(Request) /\ n \in Nat /\ DOMAIN requests = 1..n
      /\ handler.nonce = n
      /\ \A i \in 1..n : requests[i] \in Request
  BY ElementOfSeq, LenProperties DEF RequestsTypeOK, NoncesCount
<1>2. /\ requests' \in Seq(Request) /\ Len(requests') = n + 1
      /\ DOMAIN requests' = 1..(n + 1)
      /\ \A i \in 1..n : requests'[i] = requests[i]
      /\ requests'[n + 1] = r
  <2>1. requests' = Append(requests, r)
    BY DEF IssueBridgeProof
  <2>2. QED
    BY <1>1, <2>1, AppendProperties, LenProperties
<1>3. /\ DOMAIN source_proofs' = DOMAIN source_proofs \cup {key}
      /\ key \notin DOMAIN source_proofs
  BY DEF IssueBridgeProof, Put
<1>4. /\ handler' = [handler EXCEPT !.nonce = handler.nonce + 1]
      /\ handler.nonce < MaxNonce
  BY DEF IssueBridgeProof
<1>5. HandlerTypeOK'
  BY <1>4, AmountAssumption DEF HandlerTypeOK, BridgeHandler
<1>6. /\ handler'.nonce = n + 1
      /\ handler'.cap_epoch = handler.cap_epoch
      /\ handler'.cap_remained = handler.cap_remained
  BY <1>1, <1>4 DEF HandlerTypeOK, BridgeHandler
<1>7. CapCurrent'
  BY <1>6 DEF CapCurrent, InstantWithinCap, CapRemained
<1>8. RequestsTypeOK'
  BY <1>2, <1>3 DEF RequestsTypeOK, Request, TokenRequest, SolRequest
<1>9. NoncesCount'
  BY <1>1, <1>2, <1>3, <1>6 DEF NoncesCount
<1>10. \A i \in 1..n : /\ requests[i].nonce # r.nonce
                      /\ \/ requests[i].sender # r.sender
                         \/ requests[i].proof_nonce # r.proof_nonce
  <2> SUFFICES ASSUME NEW i \in 1..n
               PROVE  /\ requests[i].nonce # r.nonce
                      /\ \/ requests[i].sender # r.sender
                         \/ requests[i].proof_nonce # r.proof_nonce
    OBVIOUS
  <2>1. requests[i].nonce = i - 1
    BY <1>1 DEF NoncesCount
  <2>2. <<requests[i].sender, requests[i].proof_nonce>> \in DOMAIN source_proofs
    BY <1>1 DEF NoncesCount
  <2>3. requests[i].nonce # r.nonce
    BY <1>1, <2>1
  <2>4. QED
    BY <1>3, <2>2, <2>3
<1>11. RequestsDistinct'
  BY <1>1, <1>2, <1>10 DEF RequestsDistinct
<1>12. QED
  BY <1>5, <1>7, <1>8, <1>9, <1>11

\* A payout is of a source transaction that has no proof of execution yet.
LEMMA RecordInvariant ==
    ASSUME PayoutsTypeOK, PaidOncePerTransaction, NEW p \in Payout, RecordPayout(p)
    PROVE  PayoutsTypeOK' /\ PaidOncePerTransaction'
<1> DEFINE n == Len(payouts)
<1>1. payouts \in Seq(Payout) /\ n \in Nat /\ DOMAIN payouts = 1..n
  BY LenProperties DEF PayoutsTypeOK
<1>2. /\ payouts' \in Seq(Payout) /\ DOMAIN payouts' = 1..(n + 1)
      /\ \A i \in 1..n : payouts'[i] = payouts[i]
      /\ payouts'[n + 1] = p
  <2>1. payouts' = Append(payouts, p)
    BY DEF RecordPayout
  <2>2. QED
    BY <1>1, <2>1, AppendProperties, LenProperties
<1>3. DOMAIN target_proofs' = DOMAIN target_proofs \cup {p.tx}
  BY DEF RecordPayout, Put
<1>4. \A i \in 1..n : payouts[i].tx # p.tx
  BY <1>1 DEF RecordPayout, PayoutsTypeOK
<1>5. PayoutsTypeOK'
  BY <1>1, <1>2, <1>3 DEF PayoutsTypeOK
<1>6. PaidOncePerTransaction'
  BY <1>1, <1>2, <1>4 DEF PaidOncePerTransaction
<1>7. QED
  BY <1>5, <1>6

\* Nobody is paid SOL the handler does not hold.
LEMMA PaySolType ==
    ASSUME BalancesTypeOK, NEW r \in User, NEW n \in Nat, PaySol(r, n)
    PROVE  lamports' \in [User \cup FeeVault \cup {HANDLER} -> Nat]
<1>1. CASE chain = "Solayer"
  BY <1>1 DEF PaySol, BalancesTypeOK
<1>2. CASE chain # "Solayer"
  <2>1. /\ n <= lamports[HANDLER]
        /\ lamports' = Move(lamports, HANDLER, r, n)
    BY <1>2 DEF PaySol
  <2>2. QED
    BY <2>1, MoveProperties DEF BalancesTypeOK
<1>3. QED
  BY <1>1, <1>2

-----------------------------------------------------------------------------
(***************************************************************************)
(* One lemma per instruction.                                              *)
(***************************************************************************)

\* The invariant holds after the setup scripts.
LEMMA InitDInv == ProgramInit => DInv
<1> SUFFICES ASSUME ProgramInit PROVE DInv
  OBVIOUS
<1>1. HandlerTypeOK
  BY AmountAssumption, PriceAssumption
     DEF ProgramInit, HandlerTypeOK, BridgeHandler, Audit
<1>2. CapCurrent
  BY AmountAssumption, PriceAssumption
     DEF ProgramInit, CapCurrent, InstantWithinCap, CapRemained
<1>3. RegistryTypeOK /\ RegistryFollowsOrigin
  BY DEF ProgramInit, RegistryTypeOK, RegistryFollowsOrigin
<1>4. BalancesTypeOK
  BY AmountAssumption DEF ProgramInit, BalancesTypeOK
<1>5. RequestsTypeOK /\ NoncesCount /\ RequestsDistinct
  BY DEF ProgramInit, RequestsTypeOK, NoncesCount, RequestsDistinct
<1>6. PayoutsTypeOK /\ PaidOncePerTransaction
  BY DEF ProgramInit, PayoutsTypeOK, PaidOncePerTransaction
<1>7. QED
  BY <1>1, <1>2, <1>3, <1>4, <1>5, <1>6 DEF DInv, ProgramTypeOK

\* A transaction that makes a call is a new one, or the sender's latest.
LEMMA SourceTxType ==
    ASSUME HandlerTypeOK, RequestsTypeOK, NEW signer, NEW tx \in SourceTx(signer),
           handler.nonce < MaxNonce
    PROVE  tx \in {chain} \X (0..(MaxNonce - 1))
<1>1. CASE tx = <<chain, handler.nonce>>
  BY <1>1, AmountAssumption DEF HandlerTypeOK, BridgeHandler
<1>2. CASE tx # <<chain, handler.nonce>>
  <2>1. /\ DOMAIN requests # {}
        /\ tx = requests[Len(requests)].tx
    BY <1>2 DEF SourceTx
  <2>2. requests[Len(requests)] \in Request
    BY <2>1, ElementOfSeq, LenProperties DEF RequestsTypeOK
  <2>3. QED
    BY <2>1, <2>2 DEF Request, TokenRequest, SolRequest
<1>3. QED
  BY <1>1, <1>2

\* A user's call registers a mint as native here only when it is.
LEMMA RegisterNativeInvariant ==
    ASSUME RegistryTypeOK, RegistryFollowsOrigin, NEW mint \in Mint,
           NEW target_mint \in TargetMint, mint \in LocalMint \cup DOMAIN token_info,
           RegisterNative(mint, target_mint)
    PROVE  RegistryTypeOK' /\ RegistryFollowsOrigin'
<1>1. CASE mint \in DOMAIN token_info
  BY <1>1, UnchangedRegistry DEF RegisterNative
<1>2. CASE mint \notin DOMAIN token_info
  <2> DEFINE info == [native |-> chain, counterpart |-> target_mint, pause |-> FALSE]
  <2>1. info \in TokenInfo /\ info.native = chain
    BY ChainAssumption DEF TokenInfo
  <2>2. token_info' = Put(token_info, mint, info)
    BY <1>2 DEF RegisterNative
  <2> HIDE DEF info
  <2>3. /\ DOMAIN token_info' = DOMAIN token_info \cup {mint}
        /\ token_info'[mint] = info
        /\ \A m \in DOMAIN token_info : token_info'[m] = token_info[m]
    BY <1>2, <2>2 DEF Put
  <2>4. RegistryTypeOK'
    BY <2>1, <2>3 DEF RegistryTypeOK, TokenInfo
  <2>5. RegistryFollowsOrigin'
    BY <1>2, <2>1, <2>3 DEF RegistryFollowsOrigin, OtherChain
  <2>6. QED
    BY <2>4, <2>5
<1>3. QED
  BY <1>1, <1>2

\* What a caller is charged is there: fee and gas or SOL together.
LEMMA ChargeCaller ==
    ASSUME HandlerTypeOK, BalancesTypeOK, NEW signer \in User,
           NEW fee \in Nat, NEW n \in Nat, lamports[signer] >= fee + n
    PROVE  TakeSol(Move(lamports, signer, handler.fee_vault, fee), signer, n)
               \in [User \cup FeeVault \cup {HANDLER} -> Nat]
<1> DEFINE moved == Move(lamports, signer, handler.fee_vault, fee)
           Holder == User \cup FeeVault \cup {HANDLER}
<1>1. /\ lamports \in [Holder -> Nat] /\ handler.fee_vault \in FeeVault
      /\ signer \in Holder /\ handler.fee_vault \in Holder /\ HANDLER \in Holder
      /\ fee <= lamports[signer]
  BY DEF HandlerTypeOK, BridgeHandler, BalancesTypeOK
<1> HIDE DEF Holder
<1>2. moved \in [Holder -> Nat] /\ moved[signer] >= lamports[signer] - fee
  BY <1>1, MoveProperties
<1> HIDE DEF moved
<1>3. n <= moved[signer]
  BY <1>1, <1>2
<1>4. TakeSol(moved, signer, n) \in [Holder -> Nat]
  BY <1>1, <1>2, <1>3, TakeSolProperties
<1>5. QED
  BY <1>4 DEF Holder, moved

\* A call in a token keeps the invariant.
LEMMA BridgeTokenInvariant == ASSUME DInv, BridgeToken PROVE DInv'
<1> USE DEF DInv, ProgramTypeOK
<1>1. PICK signer \in User, recipient \in User, n \in BridgeProofNonce, mint \in Mint,
           amount \in Amount, target_mint \in TargetMint, gas \in Gas :
          \E tx \in SourceTx(signer) :
              BridgeAssetSourceChain(signer, n, mint, amount, recipient, target_mint, gas, tx)
  BY DEF BridgeToken
<1>2. PICK tx \in SourceTx(signer) :
          BridgeAssetSourceChain(signer, n, mint, amount, recipient, target_mint, gas, tx)
  BY <1>1
<1> DEFINE fee == handler.bridge_asset_fee
                      + IF mint \notin DOMAIN token_info /\ chain = "Solayer"
                        THEN METADATA_CREATION_FEE ELSE 0
           r == [kind |-> "token", sender |-> signer, recipient |-> recipient,
                 mint |-> mint, amount |-> amount, gas |-> gas,
                 nonce |-> handler.nonce, tx |-> tx, proof_nonce |-> n]
<1>3. /\ mint \in LocalMint \cup DOMAIN token_info
      /\ tokens[mint][signer] >= amount
      /\ lamports[signer] >= fee + gas
      /\ lamports' = TakeSol(Move(lamports, signer, handler.fee_vault, fee), signer, gas)
      /\ RegisterNative(mint, target_mint)
      /\ \/ tokens' = [tokens EXCEPT ![mint] = Move(@, signer, VAULT, amount)]
         \/ tokens' = [tokens EXCEPT ![mint][signer] = @ - amount]
      /\ IssueBridgeProof(r)
      /\ UNCHANGED <<epoch, target_proofs, payouts, audit>>
  BY <1>2 DEF BridgeAssetSourceChain
<1>4. amount \in Nat /\ gas \in Nat /\ fee \in Nat
  <2>1. handler.bridge_asset_fee \in Nat
    BY AmountAssumption DEF HandlerTypeOK, BridgeHandler
  <2>2. fee \in Nat
    BY <2>1, AmountAssumption
  <2>3. QED
    BY <2>2, AmountAssumption
<1>5. r \in Request
  <2>1. handler.nonce < MaxNonce
    BY <1>3 DEF IssueBridgeProof
  <2>2. handler.nonce \in 0..(MaxNonce - 1)
    BY <2>1, AmountAssumption DEF HandlerTypeOK, BridgeHandler
  <2>3. tx \in {chain} \X (0..(MaxNonce - 1))
    BY <2>1, SourceTxType
  <2>4. QED
    BY <2>2, <2>3 DEF Request, TokenRequest, SolRequest
<1> HIDE DEF fee
<1>6. lamports' \in [User \cup FeeVault \cup {HANDLER} -> Nat]
  BY <1>3, <1>4, ChargeCaller
<1>7. tokens' \in [Mint -> [User \cup {VAULT} -> Nat]]
  <2>1. tokens[mint] \in [User \cup {VAULT} -> Nat]
    BY DEF BalancesTypeOK
  <2>2. Move(tokens[mint], signer, VAULT, amount) \in [User \cup {VAULT} -> Nat]
    BY <1>3, <1>4, <2>1, MoveProperties
  <2>3. CASE tokens' = [tokens EXCEPT ![mint] = Move(@, signer, VAULT, amount)]
    BY <2>2, <2>3 DEF BalancesTypeOK
  <2>4. CASE tokens' = [tokens EXCEPT ![mint][signer] = @ - amount]
    BY <1>3, <1>4, <2>1, <2>4 DEF BalancesTypeOK
  <2>5. QED
    BY <1>3, <2>3, <2>4
<1>8. r.nonce = handler.nonce
  OBVIOUS
<1> HIDE DEF r
<1>9. /\ HandlerTypeOK' /\ CapCurrent'
      /\ RequestsTypeOK' /\ NoncesCount' /\ RequestsDistinct'
  BY <1>3, <1>5, <1>8, IssueInvariant
<1>10. RegistryTypeOK' /\ RegistryFollowsOrigin'
  BY <1>3, RegisterNativeInvariant
<1>11. PayoutsTypeOK' /\ PaidOncePerTransaction'
  BY <1>3, UnchangedPayouts
<1>12. BalancesTypeOK'
  BY <1>6, <1>7 DEF BalancesTypeOK
<1>13. QED
  BY <1>9, <1>10, <1>11, <1>12

\* A call in SOL keeps the invariant.
LEMMA BridgeSolInvariant == ASSUME DInv, BridgeSol PROVE DInv'
<1> USE DEF DInv, ProgramTypeOK
<1>1. PICK signer \in User, recipient \in User, n \in BridgeProofNonce, amount \in Amount :
          \E tx \in SourceTx(signer) :
              BridgeAssetSourceChainSol(signer, n, amount, recipient, tx)
  BY DEF BridgeSol
<1>2. PICK tx \in SourceTx(signer) :
          BridgeAssetSourceChainSol(signer, n, amount, recipient, tx)
  BY <1>1
<1> DEFINE fee == handler.bridge_asset_fee
           r == [kind |-> "sol", sender |-> signer, recipient |-> recipient,
                 mint |-> SOL, amount |-> amount, gas |-> 0,
                 nonce |-> handler.nonce, tx |-> tx, proof_nonce |-> n]
<1>3. /\ lamports[signer] >= fee + amount
      /\ lamports' = TakeSol(Move(lamports, signer, handler.fee_vault, fee), signer, amount)
      /\ IssueBridgeProof(r)
      /\ UNCHANGED <<epoch, token_info, tokens, target_proofs, payouts, audit>>
  BY <1>2 DEF BridgeAssetSourceChainSol
<1>4. amount \in Nat /\ fee \in Nat
  BY AmountAssumption DEF HandlerTypeOK, BridgeHandler
<1>5. r \in Request
  <2>1. handler.nonce < MaxNonce
    BY <1>3 DEF IssueBridgeProof
  <2>2. handler.nonce \in 0..(MaxNonce - 1)
    BY <2>1, AmountAssumption DEF HandlerTypeOK, BridgeHandler
  <2>3. tx \in {chain} \X (0..(MaxNonce - 1))
    BY <2>1, SourceTxType
  <2>4. QED
    BY <2>2, <2>3 DEF Request, TokenRequest, SolRequest
<1> HIDE DEF fee
<1>6. BalancesTypeOK'
  <2>1. lamports' \in [User \cup FeeVault \cup {HANDLER} -> Nat]
    BY <1>3, <1>4, ChargeCaller
  <2>2. QED
    BY <1>3, <2>1 DEF BalancesTypeOK
<1>7. r.nonce = handler.nonce
  OBVIOUS
<1> HIDE DEF r
<1>8. /\ HandlerTypeOK' /\ CapCurrent'
      /\ RequestsTypeOK' /\ NoncesCount' /\ RequestsDistinct'
  BY <1>3, <1>5, <1>7, IssueInvariant
<1>9. RegistryTypeOK' /\ RegistryFollowsOrigin'
  BY <1>3, UnchangedRegistry
<1>10. PayoutsTypeOK' /\ PaidOncePerTransaction'
  BY <1>3, UnchangedPayouts
<1>11. QED
  BY <1>6, <1>8, <1>9, <1>10

\* A payout of a token keeps the invariant.
LEMMA PayTokenInvariant == ASSUME DInv, PayToken PROVE DInv'
<1> USE DEF DInv, ProgramTypeOK
<1>1. PICK signer \in Authority, hash \in DOMAIN verified, p \in Payout :
          BridgeAssetTargetChain(signer, hash, p)
  BY DEF PayToken
<1>2. /\ p.mint \in DOMAIN token_info
      /\ AcceptPayout(signer, hash, p)
      /\ \/ /\ tokens[p.mint][VAULT] >= p.amount
            /\ tokens' = [tokens EXCEPT ![p.mint] = Move(@, VAULT, p.recipient, p.amount)]
         \/ tokens' = [tokens EXCEPT ![p.mint][p.recipient] = @ + p.amount]
      /\ PaySol(p.recipient, p.gas) \/ UNCHANGED lamports
      /\ UNCHANGED <<epoch, token_info, source_proofs, requests>>
  BY <1>1 DEF BridgeAssetTargetChain
<1>3. ChargeInstantCap(p, hash) /\ AuditPayout(p, hash) /\ RecordPayout(p)
  BY <1>2 DEF AcceptPayout
<1>4. p.recipient \in User /\ p.amount \in Nat /\ p.gas \in Nat /\ p.mint \in Mint
  BY <1>2, PayoutAssumption DEF RegistryTypeOK
<1>5. HandlerTypeOK' /\ CapCurrent' /\ handler'.nonce = handler.nonce
  BY <1>2, <1>3, ChargeInvariant
<1>6. tokens' \in [Mint -> [User \cup {VAULT} -> Nat]]
  <2> DEFINE mint == p.mint
             recipient == p.recipient
             amount == p.amount
  <2>1. /\ mint \in Mint /\ recipient \in User /\ amount \in Nat
        /\ \/ /\ tokens[mint][VAULT] >= amount
              /\ tokens' = [tokens EXCEPT ![mint] = Move(@, VAULT, recipient, amount)]
           \/ tokens' = [tokens EXCEPT ![mint][recipient] = @ + amount]
    BY <1>2, <1>4
  <2> HIDE DEF mint, recipient, amount
  <2>2. tokens[mint] \in [User \cup {VAULT} -> Nat]
    BY <2>1 DEF BalancesTypeOK
  <2>3. CASE /\ tokens[mint][VAULT] >= amount
             /\ tokens' = [tokens EXCEPT ![mint] = Move(@, VAULT, recipient, amount)]
    <3>1. Move(tokens[mint], VAULT, recipient, amount) \in [User \cup {VAULT} -> Nat]
      BY <2>1, <2>2, <2>3, MoveProperties
    <3>2. QED
      BY <2>3, <3>1 DEF BalancesTypeOK
  <2>4. CASE tokens' = [tokens EXCEPT ![mint][recipient] = @ + amount]
    BY <2>1, <2>2, <2>4 DEF BalancesTypeOK
  <2>5. QED
    BY <2>1, <2>3, <2>4
<1>7. lamports' \in [User \cup FeeVault \cup {HANDLER} -> Nat]
  BY <1>2, <1>4, PaySolType DEF BalancesTypeOK
<1>8. BalancesTypeOK'
  BY <1>6, <1>7 DEF BalancesTypeOK
<1>9. RegistryTypeOK' /\ RegistryFollowsOrigin'
  BY <1>2, UnchangedRegistry
<1>10. RequestsTypeOK' /\ NoncesCount' /\ RequestsDistinct'
  BY <1>2, <1>5, UnchangedRequests
<1>11. PayoutsTypeOK' /\ PaidOncePerTransaction'
  BY <1>3, RecordInvariant
<1>12. QED
  BY <1>5, <1>8, <1>9, <1>10, <1>11

\* A payout of SOL keeps the invariant.
LEMMA PaySolOutInvariant == ASSUME DInv, PaySolOut PROVE DInv'
<1> USE DEF DInv, ProgramTypeOK
<1>1. PICK signer \in Authority, hash \in DOMAIN verified, p \in Payout :
          BridgeAssetTargetChainSol(signer, hash, p)
  BY DEF PaySolOut
<1>2. /\ ChargeInstantCap(p, hash) /\ AuditPayout(p, hash) /\ RecordPayout(p)
      /\ PaySol(p.recipient, p.amount)
      /\ UNCHANGED <<epoch, token_info, tokens, source_proofs, requests>>
  BY <1>1 DEF BridgeAssetTargetChainSol, AcceptPayout
<1>3. p.recipient \in User /\ p.amount \in Nat
  BY PayoutAssumption
<1>4. HandlerTypeOK' /\ CapCurrent' /\ handler'.nonce = handler.nonce
  BY <1>2, ChargeInvariant
<1>5. lamports' \in [User \cup FeeVault \cup {HANDLER} -> Nat]
  BY <1>2, <1>3, PaySolType
<1>6. BalancesTypeOK'
  BY <1>2, <1>5 DEF BalancesTypeOK
<1>7. RegistryTypeOK' /\ RegistryFollowsOrigin'
  BY <1>2, UnchangedRegistry
<1>8. RequestsTypeOK' /\ NoncesCount' /\ RequestsDistinct'
  BY <1>2, <1>4, UnchangedRequests
<1>9. PayoutsTypeOK' /\ PaidOncePerTransaction'
  BY <1>2, RecordInvariant
<1>10. QED
  BY <1>4, <1>6, <1>7, <1>8, <1>9

\* Registering a token keeps the invariant.
LEMMA RegisterTokenInvariant == ASSUME DInv, RegisterToken PROVE DInv'
<1> USE DEF DInv, ProgramTypeOK
<1>1. PICK signer \in Authority, source_mint \in RemoteMint : AddToken(signer, source_mint)
  BY DEF RegisterToken
<1> DEFINE mint == WrappedMint(source_mint)
           info == [native |-> OtherChain, counterpart |-> source_mint, pause |-> FALSE]
<1>2. /\ \/ token_info' = token_info
         \/ mint \notin DOMAIN token_info /\ token_info' = Put(token_info, mint, info)
      /\ UNCHANGED <<handler, epoch, tokens, lamports, source_proofs,
                     target_proofs, requests, payouts, audit>>
  BY <1>1 DEF AddToken
<1>3. mint \in Mint /\ mint \notin LocalMint
  BY MintAssumption DEF Mint
<1>4. info \in TokenInfo /\ info.native = OtherChain
  BY DEF TokenInfo, TargetMint, OtherChain
<1> HIDE DEF mint, info
<1>5. RegistryTypeOK' /\ RegistryFollowsOrigin'
  <2>1. CASE token_info' = token_info
    BY <2>1, UnchangedRegistry
  <2>2. CASE mint \notin DOMAIN token_info /\ token_info' = Put(token_info, mint, info)
    <3>1. /\ DOMAIN token_info' = DOMAIN token_info \cup {mint}
          /\ token_info'[mint] = info
          /\ \A m \in DOMAIN token_info : token_info'[m] = token_info[m]
      BY <2>2 DEF Put
    <3>2. RegistryTypeOK'
      BY <1>3, <1>4, <3>1 DEF RegistryTypeOK, TokenInfo
    <3>3. RegistryFollowsOrigin'
      BY <1>3, <1>4, <3>1 DEF RegistryFollowsOrigin, OtherChain
    <3>4. QED
      BY <3>2, <3>3
  <2>3. QED
    BY <1>2, <2>1, <2>2
<1>6. HandlerTypeOK' /\ CapCurrent'
  BY <1>2, UnchangedHandler
<1>7. BalancesTypeOK'
  BY <1>2 DEF BalancesTypeOK
<1>8. RequestsTypeOK' /\ NoncesCount' /\ RequestsDistinct'
  BY <1>2, UnchangedRequests
<1>9. PayoutsTypeOK' /\ PaidOncePerTransaction'
  BY <1>2, UnchangedPayouts
<1>10. QED
  BY <1>5, <1>6, <1>7, <1>8, <1>9

\* The manager's setters write neither the nonce nor the cap.
LEMMA UpdateHandlerInvariant ==
    ASSUME DInv, NEW signer, NEW new \in BridgeHandler, UpdateHandler(signer, new),
           new.nonce = handler.nonce, new.cap_epoch = handler.cap_epoch,
           new.cap_remained = handler.cap_remained
    PROVE  DInv'
<1> USE DEF DInv, ProgramTypeOK
<1>1. /\ handler' = new
      /\ UNCHANGED <<epoch, token_info, tokens, lamports, source_proofs,
                     target_proofs, requests, payouts, audit>>
  BY DEF UpdateHandler
<1>2. HandlerTypeOK'
  BY <1>1 DEF HandlerTypeOK, BridgeHandler, Audit
<1>3. CapCurrent'
  BY <1>1 DEF CapCurrent, InstantWithinCap, CapRemained
<1>4. RegistryTypeOK' /\ RegistryFollowsOrigin'
  BY <1>1, UnchangedRegistry
<1>5. BalancesTypeOK'
  BY <1>1 DEF BalancesTypeOK
<1>6. RequestsTypeOK' /\ NoncesCount' /\ RequestsDistinct'
  BY <1>1, UnchangedRequests
<1>7. PayoutsTypeOK' /\ PaidOncePerTransaction'
  BY <1>1, UnchangedPayouts
<1>8. QED
  BY <1>2, <1>3, <1>4, <1>5, <1>6, <1>7

\* An allowance set in the epoch that is stamped counts from now on; set
\* before, it will be overwritten by the reset.
LEMMA UpdateInstantBridgeCapInvariant ==
    ASSUME DInv, NEW signer, NEW cap \in InstantBridgeCap, UpdateInstantBridgeCap(signer, cap)
    PROVE  DInv'
<1> USE DEF DInv, ProgramTypeOK
<1>1. /\ handler' = [handler EXCEPT !.cap_remained = cap]
      /\ audit' = [audit EXCEPT
             !.cap_set = audit.instant_out + cap,
             !.cap_granted = IF handler.cap_epoch = epoch THEN audit.instant_out + cap ELSE @]
      /\ UNCHANGED <<epoch, token_info, tokens, lamports, source_proofs,
                     target_proofs, requests, payouts>>
  BY DEF UpdateInstantBridgeCap
<1>2. cap \in Nat
  BY AmountAssumption
<1>3. HandlerTypeOK'
  <2>1. handler' \in BridgeHandler
    BY <1>1, <1>2 DEF HandlerTypeOK, BridgeHandler
  <2>2. audit' \in Audit
    <3>1. /\ audit \in Audit
          /\ audit.instant_out + cap \in Nat
      BY <1>2 DEF HandlerTypeOK, Audit
    <3>2. (IF handler.cap_epoch = epoch THEN audit.instant_out + cap ELSE audit.cap_granted)
              \in Nat
      BY <3>1 DEF Audit
    <3>3. QED
      BY <1>1, <3>1, <3>2 DEF Audit
  <2>3. QED
    BY <1>1, <2>1, <2>2 DEF HandlerTypeOK
<1>4. /\ handler'.cap_remained = cap
      /\ handler'.cap_epoch = handler.cap_epoch
      /\ handler'.nonce = handler.nonce
      /\ audit'.instant_out = audit.instant_out
      /\ audit'.cap_granted = IF handler.cap_epoch = epoch
                              THEN audit.instant_out + cap ELSE audit.cap_granted
  BY <1>1 DEF HandlerTypeOK, BridgeHandler, Audit
<1>5. CapCurrent'
  BY <1>1, <1>4 DEF CapCurrent, InstantWithinCap, CapRemained
<1>6. RegistryTypeOK' /\ RegistryFollowsOrigin'
  BY <1>1, UnchangedRegistry
<1>7. BalancesTypeOK'
  BY <1>1 DEF BalancesTypeOK
<1>8. RequestsTypeOK' /\ NoncesCount' /\ RequestsDistinct'
  BY <1>1, <1>4, UnchangedRequests
<1>9. PayoutsTypeOK' /\ PaidOncePerTransaction'
  BY <1>1, UnchangedPayouts
<1>10. QED
  BY <1>3, <1>5, <1>6, <1>7, <1>8, <1>9

\* Pausing a token, or ending its pause, keeps the invariant.
LEMMA SetTokenPauseInvariant ==
    ASSUME DInv, NEW signer, NEW mint, NEW paused \in SUBSET Mint,
           SetTokenPause(signer, mint, paused)
    PROVE  DInv'
<1> USE DEF DInv, ProgramTypeOK
<1>1. /\ audit' = [audit EXCEPT !.paused = paused]
      /\ UNCHANGED <<handler, epoch, token_info, tokens, lamports,
                     source_proofs, target_proofs, requests, payouts>>
  BY DEF SetTokenPause
<1>2. /\ audit' \in Audit
      /\ audit'.instant_out = audit.instant_out
      /\ audit'.cap_granted = audit.cap_granted
  BY <1>1 DEF HandlerTypeOK, Audit
<1>3. HandlerTypeOK'
  BY <1>1, <1>2 DEF HandlerTypeOK
<1>4. CapCurrent'
  BY <1>1, <1>2 DEF CapCurrent, InstantWithinCap, CapRemained
<1>5. RegistryTypeOK' /\ RegistryFollowsOrigin'
  BY <1>1, UnchangedRegistry
<1>6. BalancesTypeOK'
  BY <1>1 DEF BalancesTypeOK
<1>7. RequestsTypeOK' /\ NoncesCount' /\ RequestsDistinct'
  BY <1>1, UnchangedRequests
<1>8. PayoutsTypeOK' /\ PaidOncePerTransaction'
  BY <1>1, UnchangedPayouts
<1>9. QED
  BY <1>3, <1>4, <1>5, <1>6, <1>7, <1>8

\* What the manager may do keeps the invariant.
LEMMA ManagingInvariant == ASSUME DInv, Managing PROVE DInv'
<1>0. handler \in BridgeHandler /\ audit.paused \in SUBSET Mint
  BY DEF DInv, ProgramTypeOK, HandlerTypeOK, Audit
<1>1. PICK signer \in Authority :
          \/ PauseBridge(signer)
          \/ UnpauseBridge(signer)
          \/ \E key \in Authority : UpdateManager(signer, key) \/ UpdateOperator(signer, key)
          \/ \E key \in FeeVault : UpdateFeeVault(signer, key)
          \/ \E fee \in BridgeAssetFee : UpdateFeeInfo(signer, fee)
          \/ \E cap \in InstantBridgeCap : UpdateInstantBridgeCap(signer, cap)
          \/ \E mint \in Mint : PauseToken(signer, mint) \/ UnpauseToken(signer, mint)
  BY DEF Managing
<1>2. ASSUME NEW new,
             \/ new = [handler EXCEPT !.pause = TRUE]
             \/ new = [handler EXCEPT !.pause = FALSE]
             \/ \E key \in Authority : \/ new = [handler EXCEPT !.manager = key]
                                       \/ new = [handler EXCEPT !.operator = key]
             \/ \E key \in FeeVault : new = [handler EXCEPT !.fee_vault = key]
             \/ \E fee \in BridgeAssetFee : new = [handler EXCEPT !.bridge_asset_fee = fee]
      PROVE  /\ new \in BridgeHandler
             /\ new.nonce = handler.nonce
             /\ new.cap_epoch = handler.cap_epoch
             /\ new.cap_remained = handler.cap_remained
  BY <1>0, <1>2 DEF BridgeHandler
<1>3. CASE PauseBridge(signer)
  BY <1>2, <1>3, UpdateHandlerInvariant DEF PauseBridge
<1>4. CASE UnpauseBridge(signer)
  BY <1>2, <1>4, UpdateHandlerInvariant DEF UnpauseBridge
<1>5. ASSUME NEW key \in Authority, UpdateManager(signer, key) \/ UpdateOperator(signer, key)
      PROVE  DInv'
  BY <1>2, <1>5, UpdateHandlerInvariant DEF UpdateManager, UpdateOperator
<1>6. ASSUME NEW key \in FeeVault, UpdateFeeVault(signer, key) PROVE DInv'
  BY <1>2, <1>6, UpdateHandlerInvariant DEF UpdateFeeVault
<1>7. ASSUME NEW fee \in BridgeAssetFee, UpdateFeeInfo(signer, fee) PROVE DInv'
  BY <1>2, <1>7, UpdateHandlerInvariant DEF UpdateFeeInfo
<1>8. ASSUME NEW cap \in InstantBridgeCap, UpdateInstantBridgeCap(signer, cap) PROVE DInv'
  BY <1>8, UpdateInstantBridgeCapInvariant
<1>9. ASSUME NEW mint \in Mint, PauseToken(signer, mint) \/ UnpauseToken(signer, mint)
      PROVE  DInv'
  <2>1. audit.paused \cup {mint} \in SUBSET Mint /\ audit.paused \ {mint} \in SUBSET Mint
    BY <1>0
  <2>2. QED
    BY <1>9, <2>1, SetTokenPauseInvariant DEF PauseToken, UnpauseToken
<1>10. QED
  BY <1>1, <1>3, <1>4, <1>5, <1>6, <1>7, <1>8, <1>9

\* The stamp of the cap is never ahead, so a new epoch always has its reset
\* before it.
LEMMA NextEpochInvariant == ASSUME DInv, NextEpoch PROVE DInv'
<1> USE DEF DInv, ProgramTypeOK
<1>1. /\ epoch < MaxEpoch
      /\ epoch' = epoch + 1
      /\ audit' = [audit EXCEPT !.instant_out = 0,
                                !.cap_granted = SOLANA_DOLLAR_CAP_PER_EPOCH,
                                !.cap_set = SOLANA_DOLLAR_CAP_PER_EPOCH]
      /\ UNCHANGED <<handler, token_info, tokens, lamports, source_proofs,
                     target_proofs, requests, payouts>>
  BY DEF NextEpoch
<1>2. epoch' \in 0..MaxEpoch /\ handler.cap_epoch # epoch'
  BY <1>1, AmountAssumption DEF HandlerTypeOK, BridgeHandler, CapCurrent
<1>3. /\ audit' \in Audit
      /\ audit'.instant_out = 0
      /\ audit'.cap_granted = SOLANA_DOLLAR_CAP_PER_EPOCH
  BY <1>1, PriceAssumption DEF HandlerTypeOK, Audit
<1>4. HandlerTypeOK'
  BY <1>1, <1>2, <1>3 DEF HandlerTypeOK, BridgeHandler
<1>5. CapCurrent'
  <2>1. CapRemained' = SOLANA_DOLLAR_CAP_PER_EPOCH
    BY <1>1, <1>2 DEF CapRemained
  <2>2. InstantWithinCap'
    BY <1>3, <2>1, PriceAssumption DEF InstantWithinCap
  <2>3. handler'.cap_epoch <= epoch'
    BY <1>1 DEF CapCurrent, HandlerTypeOK, BridgeHandler
  <2>4. QED
    BY <2>2, <2>3 DEF CapCurrent
<1>6. RegistryTypeOK' /\ RegistryFollowsOrigin'
  BY <1>1, UnchangedRegistry
<1>7. BalancesTypeOK'
  BY <1>1 DEF BalancesTypeOK
<1>8. RequestsTypeOK' /\ NoncesCount' /\ RequestsDistinct'
  BY <1>1, UnchangedRequests
<1>9. PayoutsTypeOK' /\ PaidOncePerTransaction'
  BY <1>1, UnchangedPayouts
<1>10. QED
  BY <1>4, <1>5, <1>6, <1>7, <1>8, <1>9

\* Guardian instructions, signatures and stuttering.
LEMMA UnchangedInvariant == ASSUME DInv, UNCHANGED programVars PROVE DInv'
<1> USE DEF DInv, ProgramTypeOK, programVars
<1>1. HandlerTypeOK' /\ CapCurrent'
  BY UnchangedHandler
<1>2. RegistryTypeOK' /\ RegistryFollowsOrigin'
  BY UnchangedRegistry
<1>3. BalancesTypeOK'
  BY DEF BalancesTypeOK
<1>4. RequestsTypeOK' /\ NoncesCount' /\ RequestsDistinct'
  BY UnchangedRequests
<1>5. PayoutsTypeOK' /\ PaidOncePerTransaction'
  BY UnchangedPayouts
<1>6. QED
  BY <1>1, <1>2, <1>3, <1>4, <1>5

\* Every step of the deployment keeps the invariant.
LEMMA DeploymentStep == DInv /\ [Next]_vars => DInv'
<1> SUFFICES ASSUME DInv, [Next]_vars PROVE DInv'
  OBVIOUS
<1>1. CASE BridgeToken
  BY <1>1, BridgeTokenInvariant
<1>2. CASE BridgeSol
  BY <1>2, BridgeSolInvariant
<1>3. CASE PayToken
  BY <1>3, PayTokenInvariant
<1>4. CASE PaySolOut
  BY <1>4, PaySolOutInvariant
<1>5. CASE RegisterToken
  BY <1>5, RegisterTokenInvariant
<1>6. CASE Guarding \/ Collecting
  BY <1>6, UnchangedInvariant DEF Guarding, Collecting
<1>7. CASE Managing
  BY <1>7, ManagingInvariant
<1>8. CASE NextEpoch
  BY <1>8, NextEpochInvariant
<1>9. CASE UNCHANGED vars
  BY <1>9, UnchangedInvariant DEF vars
<1>10. QED
  BY <1>1, <1>2, <1>3, <1>4, <1>5, <1>6, <1>7, <1>8, <1>9 DEF Next

\* The invariant of a deployment holds.
LEMMA DeploymentInvariance == Spec => []DInv
<1>1. Init => DInv
  BY InitDInv DEF Init
<1>2. QED
  BY <1>1, DeploymentStep, PTL DEF Spec

-----------------------------------------------------------------------------
(***************************************************************************)
(* The theorems.                                                           *)
(***************************************************************************)

\* Accounts keep their types; in particular no instruction takes more from a
\* user, a vault or the handler than is there, and a proof of execution exists
\* for what was paid and for nothing else.
THEOREM ProgramTypeCorrect == Spec => []ProgramTypeOK
<1>1. DInv => ProgramTypeOK
  BY DEF DInv
<1>2. QED
  BY <1>1, DeploymentInvariance, PTL

\* No order of signatures, resubmissions and payouts pays a source
\* transaction twice.
THEOREM PaidOnce == Spec => []PaidOncePerTransaction
<1>1. DInv => PaidOncePerTransaction
  BY DEF DInv
<1>2. QED
  BY <1>1, DeploymentInvariance, PTL

\* The nonces and proof accounts of source calls never repeat.
THEOREM CallsStayDistinct == Spec => []RequestsDistinct
<1>1. DInv => RequestsDistinct
  BY DEF DInv
<1>2. QED
  BY <1>1, DeploymentInvariance, PTL

\* Instant payouts stay within the allowance, for any prices and any cap,
\* however epochs, payouts and new allowances follow on each other.
THEOREM CapIsKept == Spec => []InstantWithinCap
<1>1. DInv => InstantWithinCap
  BY DEF DInv, CapCurrent
<1>2. QED
  BY <1>1, DeploymentInvariance, PTL

\* A mint is registered with its true origin, by users and operators alike.
THEOREM RegistryIsRight == Spec => []RegistryFollowsOrigin
<1>1. DInv => RegistryFollowsOrigin
  BY DEF DInv
<1>2. QED
  BY <1>1, DeploymentInvariance, PTL

\* Once registered, a mint stays registered as it is.
THEOREM RegistrationStays == Spec => RegistrationIsFinal
<1>1. ASSUME [Next]_vars
      PROVE  \A m \in DOMAIN token_info :
                 m \in DOMAIN token_info' /\ token_info'[m] = token_info[m]
  <2>1. CASE BridgeToken
    BY <2>1 DEF BridgeToken, BridgeAssetSourceChain, RegisterNative, Put
  <2>2. CASE RegisterToken
    BY <2>2 DEF RegisterToken, AddToken, Put
  <2>3. CASE UNCHANGED token_info
    BY <2>3
  <2>4. CASE Managing
    <3>1. UNCHANGED token_info
      BY <2>4 DEF Managing, PauseBridge, UnpauseBridge, UpdateManager, UpdateOperator,
                  UpdateFeeVault, UpdateFeeInfo, UpdateHandler, UpdateInstantBridgeCap,
                  PauseToken, UnpauseToken, SetTokenPause
    <3>2. QED
      BY <3>1
  <2>5. QED
    BY <1>1, <2>1, <2>2, <2>3, <2>4
       DEF Next, vars, programVars, BridgeSol, BridgeAssetSourceChainSol, PayToken,
           BridgeAssetTargetChain, PaySolOut, BridgeAssetTargetChainSol, Guarding,
           Collecting, NextEpoch
<1>2. QED
  BY <1>1, PTL DEF Spec, RegistrationIsFinal

\* A payout is logged by the two target-chain handlers only.
LEMMA PayoutIsAccepted ==
    ASSUME [Next]_vars, payouts' # payouts
    PROVE  \E signer \in Authority, hash \in DOMAIN verified, p \in Payout :
               AcceptPayout(signer, hash, p)
<1>1. CASE PayToken
  BY <1>1 DEF PayToken, BridgeAssetTargetChain
<1>2. CASE PaySolOut
  BY <1>2 DEF PaySolOut, BridgeAssetTargetChainSol
<1>3. CASE Managing
  <2>1. UNCHANGED payouts
    BY <1>3 DEF Managing, PauseBridge, UnpauseBridge, UpdateManager, UpdateOperator,
                UpdateFeeVault, UpdateFeeInfo, UpdateHandler, UpdateInstantBridgeCap,
                PauseToken, UnpauseToken, SetTokenPause
  <2>2. QED
    BY <2>1
<1>4. CASE BridgeToken
  BY <1>4 DEF BridgeToken, BridgeAssetSourceChain
<1>5. QED
  BY <1>1, <1>2, <1>3, <1>4
     DEF Next, vars, programVars, BridgeSol, BridgeAssetSourceChainSol, RegisterToken,
         AddToken, Guarding, Collecting, NextEpoch

\* A payout keeps the audit vouching only if its record was undisturbed.
LEMMA PayoutVouches ==
    ASSUME HandlerTypeOK, NEW p, NEW hash, AuditPayout(p, hash)
    PROVE  audit'.vouched = (audit.vouched /\ hash \notin disturbed)
<1> DEFINE ok == audit.vouched /\ hash \notin disturbed
           out == IF IsCapped(p) /\ WithinCap(p) THEN audit.instant_out + DollarValue(p)
                                                 ELSE audit.instant_out
<1>1. audit' = [audit EXCEPT !.instant_out = out, !.vouched = ok]
  BY DEF AuditPayout
<1>2. audit \in Audit
  BY DEF HandlerTypeOK
<1> HIDE DEF ok, out
<1>3. audit'.vouched = ok
  BY <1>1, <1>2 DEF Audit
<1>4. QED
  BY <1>3, Zenon DEF ok

\* Once a disturbed record has been paid on, the audit never vouches again.
LEMMA VouchedBefore ==
    ASSUME HandlerTypeOK, [Next]_vars, audit'.vouched
    PROVE  audit.vouched
<1>1. ASSUME NEW signer, NEW hash, NEW p, AcceptPayout(signer, hash, p)
      PROVE  audit.vouched
  BY <1>1, PayoutVouches DEF AcceptPayout
<1>2. CASE PayToken
  BY <1>1, <1>2 DEF PayToken, BridgeAssetTargetChain
<1>3. CASE PaySolOut
  BY <1>1, <1>3 DEF PaySolOut, BridgeAssetTargetChainSol
<1>4. CASE UNCHANGED audit
  BY <1>4
<1>5. audit \in Audit
  BY DEF HandlerTypeOK
<1>6. CASE NextEpoch
  BY <1>5, <1>6 DEF NextEpoch, Audit
<1>7. CASE Managing
  <2>1. ASSUME NEW signer, NEW cap, UpdateInstantBridgeCap(signer, cap)
        PROVE  audit.vouched
    BY <1>5, <2>1 DEF UpdateInstantBridgeCap, Audit
  <2>2. ASSUME NEW signer, NEW mint, NEW paused, SetTokenPause(signer, mint, paused)
        PROVE  audit.vouched
    BY <1>5, <2>2 DEF SetTokenPause, Audit
  <2>3. QED
    BY <1>4, <1>7, <2>1, <2>2
       DEF Managing, PauseBridge, UnpauseBridge, UpdateManager, UpdateOperator,
           UpdateFeeVault, UpdateFeeInfo, UpdateHandler, PauseToken, UnpauseToken
<1>8. CASE BridgeToken \/ BridgeSol
  <2>1. ASSUME NEW s, NEW n, NEW m, NEW a, NEW r, NEW tm, NEW g, NEW tx,
               BridgeAssetSourceChain(s, n, m, a, r, tm, g, tx)
        PROVE  UNCHANGED audit
    BY <2>1 DEF BridgeAssetSourceChain
  <2>2. ASSUME NEW s, NEW n, NEW a, NEW r, NEW tx, BridgeAssetSourceChainSol(s, n, a, r, tx)
        PROVE  UNCHANGED audit
    BY <2>2 DEF BridgeAssetSourceChainSol
  <2>3. QED
    BY <1>4, <1>8, <2>1, <2>2 DEF BridgeToken, BridgeSol
<1>9. CASE RegisterToken \/ Guarding \/ Collecting \/ UNCHANGED vars
  BY <1>4, <1>9 DEF RegisterToken, AddToken, Guarding, Collecting, vars, programVars
<1>10. QED
  BY <1>2, <1>3, <1>6, <1>7, <1>8, <1>9 DEF Next

\* Whatever the operator passes, the call that is paid is the call a threshold
\* of guardians signed, unless a removal has disturbed its record: the hash of
\* the arguments is the hash of the record, whose indexes count signers.
THEOREM PayoutsCarrySignatures == Spec => PayoutsAreSigned
<1>1. ASSUME IInv, DInv, [Next]_vars, payouts' # payouts,
             MessageHash(payouts'[Len(payouts')]) \notin disturbed
      PROVE  Cardinality(Signers(MessageHash(payouts'[Len(payouts')]))) >= threshold
  <2>1. PICK signer \in Authority, hash \in DOMAIN verified, p \in Payout :
            AcceptPayout(signer, hash, p)
    BY <1>1, PayoutIsAccepted
  <2>2. MessageHash(p) = hash /\ HasQuorum(hash) /\ payouts' = Append(payouts, p)
    BY <2>1 DEF AcceptPayout, ConsumeSignatures, RecordPayout
  <2>3. payouts'[Len(payouts')] = p
    <3>1. payouts \in Seq(Payout)
      BY <1>1 DEF DInv, ProgramTypeOK, PayoutsTypeOK
    <3>2. QED
      BY <2>2, <3>1, AppendProperties, LenProperties
  <2>4. hash \notin disturbed
    BY <1>1, <2>2, <2>3
  <2>5. /\ Cardinality(Signers(hash)) \in Nat
        /\ Len(PubkeyIndex(hash)) <= Cardinality(Signers(hash))
    BY <1>1, <2>4, RecordCountsSigners
  <2>6. Len(PubkeyIndex(hash)) >= threshold
    BY <2>2 DEF HasQuorum
  <2>7. threshold \in Int /\ Len(PubkeyIndex(hash)) \in Nat
    BY <1>1, PubkeyIndexType, CountAssumption DEF IInv, TypeOK, UNSET_THRESHOLD
  <2>8. Cardinality(Signers(hash)) >= threshold
    BY <2>5, <2>6, <2>7
  <2>9. QED
    BY <2>2, <2>3, <2>8
<1>2. IInv /\ DInv /\ [Next]_vars =>
          [payouts' # payouts =>
              LET hash == MessageHash(payouts'[Len(payouts')])
              IN  hash \in disturbed \/ Cardinality(Signers(hash)) >= threshold]_vars
  BY <1>1
<1>3. QED
  BY <1>2, GuardiansInvariance, DeploymentInvariance, PTL DEF Spec, PayoutsAreSigned

-----------------------------------------------------------------------------
(***************************************************************************)
(* The ledger.  A source-chain call debits its sender by what it records,  *)
(* a payout credits its recipient by what was signed, and nothing else     *)
(* moves anything.                                                         *)
(***************************************************************************)

SolHolder == User \cup FeeVault \cup {HANDLER}
TokenHolder == User \cup {VAULT}

\* A call r for which fee went to the vault: locked or kept where the asset is
\* at home (every lamport is at home on Solana), else gone.
Called(r, fee) ==
    /\ r \in Request /\ fee \in Nat
    /\ r.nonce = handler.nonce
    /\ requests' = Append(requests, r)
    /\ UNCHANGED payouts
    /\ lamports[r.sender] >= fee + SolOf(r)
    /\ \A m \in Mint : tokens[m][r.sender] >= TokensOf(r, m)
    /\ \A m \in Mint, h \in TokenHolder :
           tokens'[m][h] =
               tokens[m][h] - (IF h = r.sender THEN TokensOf(r, m) ELSE 0)
                   + (IF h = VAULT /\ m \in LocalMint THEN TokensOf(r, m) ELSE 0)
    /\ \A h \in SolHolder :
           lamports'[h] =
               lamports[h] - (IF h = r.sender THEN fee + SolOf(r) ELSE 0)
                   + (IF h = handler.fee_vault THEN fee ELSE 0)
                   + (IF h = HANDLER /\ chain = "Solana" THEN SolOf(r) ELSE 0)

\* A payout p, the other way round.
Paid(p) ==
    /\ p \in Payout
    /\ SolOf(p) \in Nat /\ \A m \in Mint : TokensOf(p, m) \in Nat
    /\ payouts' = Append(payouts, p)
    /\ UNCHANGED requests
    /\ \A m \in Mint, h \in TokenHolder :
           tokens'[m][h] =
               tokens[m][h] + (IF h = p.recipient THEN TokensOf(p, m) ELSE 0)
                   - (IF h = VAULT /\ m \in LocalMint THEN TokensOf(p, m) ELSE 0)
    /\ \A h \in SolHolder :
           lamports'[h] =
               lamports[h] + (IF h = p.recipient THEN SolOf(p) ELSE 0)
                   - (IF h = HANDLER /\ chain = "Solana" THEN SolOf(p) ELSE 0)

Idle == UNCHANGED <<tokens, lamports, requests, payouts>>

-----------------------------------------------------------------------------
(***************************************************************************)
(* One lemma per instruction.                                              *)
(***************************************************************************)

\* What the key assumptions say about the holders of lamports and tokens.
LEMMA HoldersDiffer ==
    ASSUME NEW u \in User, NEW v \in FeeVault
    PROVE  /\ u \in SolHolder /\ v \in SolHolder /\ HANDLER \in SolHolder
           /\ u # v /\ u # HANDLER /\ v # HANDLER
           /\ u \in TokenHolder /\ VAULT \in TokenHolder /\ u # VAULT
  BY KeyAssumption DEF SolHolder, TokenHolder

\* The ways balances change, holder by holder.
LEMMA MoveEffect ==
    ASSUME NEW S, NEW b \in [S -> Int], NEW from \in S, NEW to \in S, from # to, NEW n \in Int
    PROVE  /\ Move(b, from, to, n) \in [S -> Int]
           /\ \A h \in S : Move(b, from, to, n)[h] =
                  b[h] - (IF h = from THEN n ELSE 0) + (IF h = to THEN n ELSE 0)
  BY DEF Move

\* TakeSol, holder by holder.
LEMMA TakeSolEffect ==
    ASSUME NEW b \in [SolHolder -> Int], NEW u \in User, NEW n \in Int
    PROVE  /\ TakeSol(b, u, n) \in [SolHolder -> Int]
           /\ \A h \in SolHolder : TakeSol(b, u, n)[h] =
                  b[h] - (IF h = u THEN n ELSE 0)
                       + (IF h = HANDLER /\ chain = "Solana" THEN n ELSE 0)
<1>1. u \in SolHolder /\ HANDLER \in SolHolder /\ u # HANDLER
  BY KeyAssumption DEF SolHolder
<1>2. CASE chain = "Solana"
  BY <1>1, <1>2 DEF TakeSol, Move
<1>3. CASE chain # "Solana"
  BY <1>1, <1>3 DEF TakeSol
<1>4. QED
  BY <1>2, <1>3

SolCharged(u, v, fee, n) == lamports' = TakeSol(Move(lamports, u, v, fee), u, n)

\* A charge of a fee and of n lamports on top, holder by holder.
LEMMA ChargeEffect ==
    ASSUME lamports \in [SolHolder -> Nat], NEW u \in User, NEW v \in FeeVault,
           NEW fee \in Nat, NEW n \in Nat, SolCharged(u, v, fee, n)
    PROVE  \A h \in SolHolder :
               lamports'[h] = lamports[h] - (IF h = u THEN fee + n ELSE 0)
                                  + (IF h = v THEN fee ELSE 0)
                                  + (IF h = HANDLER /\ chain = "Solana" THEN n ELSE 0)
<1> DEFINE moved == Move(lamports, u, v, fee)
           taken == TakeSol(moved, u, n)
<1>1. /\ u \in SolHolder /\ v \in SolHolder /\ HANDLER \in SolHolder
      /\ u # v /\ u # HANDLER /\ v # HANDLER
      /\ lamports \in [SolHolder -> Int]
  BY HoldersDiffer
<1>2. /\ moved \in [SolHolder -> Int]
      /\ \A h \in SolHolder : moved[h] =
             lamports[h] - (IF h = u THEN fee ELSE 0) + (IF h = v THEN fee ELSE 0)
  BY <1>1 DEF Move
<1>0. lamports' = taken
  BY DEF SolCharged
<1> HIDE DEF moved
<1>3. /\ taken \in [SolHolder -> Int]
      /\ \A h \in SolHolder : taken[h] =
             moved[h] - (IF h = u THEN n ELSE 0)
                      + (IF h = HANDLER /\ chain = "Solana" THEN n ELSE 0)
  <2>1. moved \in [SolHolder -> Int] /\ n \in Int
    BY <1>2
  <2>2. QED
    BY <2>1, TakeSolEffect
<1> HIDE DEF taken
<1>4. \A h \in SolHolder : taken[h] =
          lamports[h] - (IF h = u THEN fee + n ELSE 0)
                      + (IF h = v THEN fee ELSE 0)
                      + (IF h = HANDLER /\ chain = "Solana" THEN n ELSE 0)
  BY <1>1, <1>2, <1>3
<1>5. \A h \in SolHolder : lamports'[h] = taken[h]
  BY <1>0
<1>6. QED
  BY <1>4, <1>5

\* What a payout in lamports does, holder by holder.
LEMMA PaySolEffect ==
    ASSUME lamports \in [SolHolder -> Nat], NEW u \in User, NEW n \in Nat, PaySol(u, n)
    PROVE  lamports' = [h \in SolHolder |->
                           lamports[h] + (IF h = u THEN n ELSE 0)
                                       - (IF h = HANDLER /\ chain = "Solana" THEN n ELSE 0)]
<1>1. u \in SolHolder /\ HANDLER \in SolHolder /\ u # HANDLER
  BY KeyAssumption DEF SolHolder
<1>2. CASE chain = "Solayer"
  BY <1>1, <1>2 DEF PaySol, Move
<1>3. CASE chain # "Solayer"
  BY <1>1, <1>3, ChainAssumption DEF PaySol, Move
<1>4. QED
  BY <1>2, <1>3

TokensTaken(u, mint, n) ==
    tokens' = IF mint \in LocalMint THEN [tokens EXCEPT ![mint] = Move(@, u, VAULT, n)]
                                    ELSE [tokens EXCEPT ![mint][u] = @ - n]
TokensGiven(u, mint, n) ==
    tokens' = IF mint \in LocalMint THEN [tokens EXCEPT ![mint] = Move(@, VAULT, u, n)]
                                    ELSE [tokens EXCEPT ![mint][u] = @ + n]

\* Tokens of one mint taken from u, and locked if the mint is at home here.
LEMMA TakeTokensEffect ==
    ASSUME tokens \in [Mint -> [TokenHolder -> Nat]], NEW u \in User, NEW mint \in Mint,
           NEW n \in Nat, TokensTaken(u, mint, n)
    PROVE  \A m \in Mint, h \in TokenHolder :
               tokens'[m][h] =
                   tokens[m][h] - (IF h = u /\ m = mint THEN n ELSE 0)
                       + (IF h = VAULT /\ m \in LocalMint /\ m = mint THEN n ELSE 0)
<1> DEFINE row == tokens[mint]
<1>1. /\ u \in TokenHolder /\ VAULT \in TokenHolder /\ u # VAULT
      /\ row \in [TokenHolder -> Int]
      /\ \A m \in Mint, h \in TokenHolder : tokens[m][h] \in Nat
  <2>1. u \in TokenHolder /\ VAULT \in TokenHolder /\ u # VAULT
    BY KeyAssumption DEF TokenHolder
  <2>2. QED
    BY <2>1
<1>2. \A m \in Mint \ {mint} : tokens'[m] = tokens[m]
  BY DEF TokensTaken
<1>3. tokens'[mint] = IF mint \in LocalMint THEN Move(row, u, VAULT, n)
                                           ELSE [row EXCEPT ![u] = @ - n]
  BY DEF TokensTaken
<1> HIDE DEF row
<1>4. \A h \in TokenHolder : tokens'[mint][h] =
          row[h] - (IF h = u THEN n ELSE 0) + (IF h = VAULT /\ mint \in LocalMint THEN n ELSE 0)
  <2>1. CASE mint \in LocalMint
    BY <1>1, <1>3, <2>1 DEF Move
  <2>2. CASE mint \notin LocalMint
    BY <1>1, <1>3, <2>2
  <2>3. QED
    BY <2>1, <2>2
<1>5. \A h \in TokenHolder : tokens'[mint][h] =
          tokens[mint][h] - (IF h = u THEN n ELSE 0)
              + (IF h = VAULT /\ mint \in LocalMint THEN n ELSE 0)
  BY <1>4 DEF row
<1>6. \A m \in Mint \ {mint}, h \in TokenHolder : tokens'[m][h] = tokens[m][h] - 0 + 0
  BY <1>1, <1>2
<1>7. ASSUME NEW m \in Mint, NEW h \in TokenHolder
      PROVE  tokens'[m][h] = tokens[m][h] - (IF h = u /\ m = mint THEN n ELSE 0)
                     + (IF h = VAULT /\ m \in LocalMint /\ m = mint THEN n ELSE 0)
  <2>1. CASE m = mint
    BY <1>5, <2>1
  <2>2. CASE m # mint
    BY <1>6, <2>2
  <2>3. QED
    BY <2>1, <2>2
<1>8. QED
  BY <1>7

\* Tokens of one mint given to u, out of the vault if the mint is at home here.
LEMMA GiveTokensEffect ==
    ASSUME tokens \in [Mint -> [TokenHolder -> Nat]], NEW u \in User, NEW mint \in Mint,
           NEW n \in Nat, TokensGiven(u, mint, n)
    PROVE  \A m \in Mint, h \in TokenHolder :
               tokens'[m][h] =
                   tokens[m][h] + (IF h = u /\ m = mint THEN n ELSE 0)
                       - (IF h = VAULT /\ m \in LocalMint /\ m = mint THEN n ELSE 0)
<1> DEFINE row == tokens[mint]
<1>1. /\ u \in TokenHolder /\ VAULT \in TokenHolder /\ u # VAULT
      /\ row \in [TokenHolder -> Int]
      /\ \A m \in Mint, h \in TokenHolder : tokens[m][h] \in Nat
  <2>1. u \in TokenHolder /\ VAULT \in TokenHolder /\ u # VAULT
    BY KeyAssumption DEF TokenHolder
  <2>2. QED
    BY <2>1
<1>2. \A m \in Mint \ {mint} : tokens'[m] = tokens[m]
  BY DEF TokensGiven
<1>3. tokens'[mint] = IF mint \in LocalMint THEN Move(row, VAULT, u, n)
                                           ELSE [row EXCEPT ![u] = @ + n]
  BY DEF TokensGiven
<1> HIDE DEF row
<1>4. \A h \in TokenHolder : tokens'[mint][h] =
          row[h] + (IF h = u THEN n ELSE 0) - (IF h = VAULT /\ mint \in LocalMint THEN n ELSE 0)
  <2>1. CASE mint \in LocalMint
    <3>1. tokens'[mint] = Move(row, VAULT, u, n)
      BY <1>3, <2>1
    <3>2. \A h \in TokenHolder : Move(row, VAULT, u, n)[h] =
              row[h] - (IF h = VAULT THEN n ELSE 0) + (IF h = u THEN n ELSE 0)
      BY <1>1 DEF Move
    <3>3. mint \in LocalMint
      BY <2>1
    <3>4. \A h \in TokenHolder : tokens'[mint][h] =
              row[h] - (IF h = VAULT THEN n ELSE 0) + (IF h = u THEN n ELSE 0)
      BY <3>1, <3>2
    <3>5. \A h \in TokenHolder : row[h] \in Int
      BY <1>1
    <3>6. TAKE h \in TokenHolder
    <3>7. row[h] \in Int
      BY <3>5
    <3>8. CASE h = VAULT
      BY <3>3, <3>4, <3>7, <3>8
    <3>9. CASE h # VAULT
      BY <3>4, <3>7, <3>9
    <3>10. QED
      BY <3>8, <3>9
  <2>2. CASE mint \notin LocalMint
    BY <1>1, <1>3, <2>2
  <2>3. QED
    BY <2>1, <2>2
<1>5. \A h \in TokenHolder : tokens'[mint][h] =
          tokens[mint][h] + (IF h = u THEN n ELSE 0)
              - (IF h = VAULT /\ mint \in LocalMint THEN n ELSE 0)
  BY <1>4 DEF row
<1>6. \A m \in Mint \ {mint}, h \in TokenHolder : tokens'[m][h] = tokens[m][h] + 0 - 0
  BY <1>1, <1>2
<1>7. ASSUME NEW m \in Mint, NEW h \in TokenHolder
      PROVE  tokens'[m][h] = tokens[m][h] + (IF h = u /\ m = mint THEN n ELSE 0)
                     - (IF h = VAULT /\ m \in LocalMint /\ m = mint THEN n ELSE 0)
  <2>1. CASE m = mint
    BY <1>5, <2>1
  <2>2. CASE m # mint
    BY <1>6, <2>2
  <2>3. QED
    BY <2>1, <2>2
<1>8. QED
  BY <1>7

-----------------------------------------------------------------------------
(***************************************************************************)
(* Every instruction is a call, a payout or idle.                          *)
(***************************************************************************)

\* A registered mint is native exactly where it is at home.
LEMMA NativeIsLocal ==
    ASSUME RegistryFollowsOrigin, NEW mint \in DOMAIN token_info
    PROVE  token_info[mint].native = chain <=> mint \in LocalMint
  BY ChainAssumption DEF RegistryFollowsOrigin, OtherChain

\* A call in a token moves what Called says.
LEMMA BridgeTokenIsCall == ASSUME DInv, BridgeToken PROVE \E r, fee : Called(r, fee)
<1> USE DEF DInv, ProgramTypeOK
<1>1. PICK signer \in User, recipient \in User, n \in BridgeProofNonce, mint \in Mint,
           amount \in Amount, target_mint \in TargetMint, gas \in Gas :
          \E tx \in SourceTx(signer) :
              BridgeAssetSourceChain(signer, n, mint, amount, recipient, target_mint, gas, tx)
  BY DEF BridgeToken
<1>2. PICK tx \in SourceTx(signer) :
          BridgeAssetSourceChain(signer, n, mint, amount, recipient, target_mint, gas, tx)
  BY <1>1
<1> DEFINE fee == handler.bridge_asset_fee
                      + IF mint \notin DOMAIN token_info /\ chain = "Solayer"
                        THEN METADATA_CREATION_FEE ELSE 0
           native == mint \notin DOMAIN token_info \/ token_info[mint].native = chain
           r == [kind |-> "token", sender |-> signer, recipient |-> recipient,
                 mint |-> mint, amount |-> amount, gas |-> gas,
                 nonce |-> handler.nonce, tx |-> tx, proof_nonce |-> n]
<1>3. /\ mint \in LocalMint \cup DOMAIN token_info
      /\ tokens[mint][signer] >= amount
      /\ lamports[signer] >= fee + gas
      /\ SolCharged(signer, handler.fee_vault, fee, gas)
      /\ tokens' = IF native THEN [tokens EXCEPT ![mint] = Move(@, signer, VAULT, amount)]
                             ELSE [tokens EXCEPT ![mint][signer] = @ - amount]
      /\ IssueBridgeProof(r)
      /\ UNCHANGED payouts
  BY <1>2 DEF BridgeAssetSourceChain, SolCharged
<1>4. amount \in Nat /\ gas \in Nat /\ fee \in Nat /\ handler.fee_vault \in FeeVault
  <2>1. handler.bridge_asset_fee \in Nat /\ handler.fee_vault \in FeeVault
    BY AmountAssumption DEF HandlerTypeOK, BridgeHandler
  <2>2. fee \in Nat
    BY <2>1, AmountAssumption
  <2>3. QED
    BY <2>1, <2>2, AmountAssumption
<1>5. r \in Request
  <2>1. handler.nonce < MaxNonce
    BY <1>3 DEF IssueBridgeProof
  <2>2. handler.nonce \in 0..(MaxNonce - 1)
    BY <2>1, AmountAssumption DEF HandlerTypeOK, BridgeHandler
  <2>3. tx \in {chain} \X (0..(MaxNonce - 1))
    BY <2>1, SourceTxType
  <2>4. QED
    BY <2>2, <2>3 DEF Request, TokenRequest
<1>6. native <=> mint \in LocalMint
  BY <1>3, NativeIsLocal
<1>7. /\ SolOf(r) = gas /\ \A m \in Mint : TokensOf(r, m) = IF m = mint THEN amount ELSE 0
      /\ r.sender = signer /\ r.nonce = handler.nonce
  BY DEF SolOf, TokensOf
<1>8. requests' = Append(requests, r)
  BY <1>3 DEF IssueBridgeProof
<1> HIDE DEF fee, native, r
<1>9. /\ lamports \in [SolHolder -> Nat]
      /\ tokens \in [Mint -> [TokenHolder -> Nat]]
  BY DEF BalancesTypeOK, SolHolder, TokenHolder
<1>10. \A h \in SolHolder :
          lamports'[h] = lamports[h] - (IF h = signer THEN fee + gas ELSE 0)
                             + (IF h = handler.fee_vault THEN fee ELSE 0)
                             + (IF h = HANDLER /\ chain = "Solana" THEN gas ELSE 0)
  BY <1>3, <1>4, <1>9, ChargeEffect
<1>b. TokensTaken(signer, mint, amount)
  BY <1>3, <1>6 DEF TokensTaken
<1>11. \A m \in Mint, h \in TokenHolder :
          tokens'[m][h] =
              tokens[m][h] - (IF h = signer /\ m = mint THEN amount ELSE 0)
                  + (IF h = VAULT /\ m \in LocalMint /\ m = mint THEN amount ELSE 0)
  BY <1>4, <1>9, <1>b, TakeTokensEffect
<1>12. \A m \in Mint : tokens[m][signer] >= TokensOf(r, m)
  <2>1. \A m \in Mint : tokens[m][signer] \in Nat
    BY <1>9 DEF TokenHolder
  <2>2. QED
    BY <1>3, <1>7, <2>1
<1>13. \A m \in Mint, h \in TokenHolder :
          tokens'[m][h] = tokens[m][h] - (IF h = r.sender THEN TokensOf(r, m) ELSE 0)
                              + (IF h = VAULT /\ m \in LocalMint THEN TokensOf(r, m) ELSE 0)
  BY <1>7, <1>11
<1>14. Called(r, fee)
  BY <1>3, <1>4, <1>5, <1>7, <1>8, <1>10, <1>12, <1>13 DEF Called
<1>15. QED
  BY <1>14

\* A call in SOL moves what Called says.
LEMMA BridgeSolIsCall == ASSUME DInv, BridgeSol PROVE \E r, fee : Called(r, fee)
<1> USE DEF DInv, ProgramTypeOK
<1>1. PICK signer \in User, recipient \in User, n \in BridgeProofNonce, amount \in Amount :
          \E tx \in SourceTx(signer) :
              BridgeAssetSourceChainSol(signer, n, amount, recipient, tx)
  BY DEF BridgeSol
<1>2. PICK tx \in SourceTx(signer) :
          BridgeAssetSourceChainSol(signer, n, amount, recipient, tx)
  BY <1>1
<1> DEFINE fee == handler.bridge_asset_fee
           r == [kind |-> "sol", sender |-> signer, recipient |-> recipient,
                 mint |-> SOL, amount |-> amount, gas |-> 0,
                 nonce |-> handler.nonce, tx |-> tx, proof_nonce |-> n]
<1>3. /\ lamports[signer] >= fee + amount
      /\ SolCharged(signer, handler.fee_vault, fee, amount)
      /\ IssueBridgeProof(r)
      /\ UNCHANGED <<tokens, payouts>>
  BY <1>2 DEF BridgeAssetSourceChainSol, SolCharged
<1>4. amount \in Nat /\ fee \in Nat /\ handler.fee_vault \in FeeVault
  BY AmountAssumption DEF HandlerTypeOK, BridgeHandler
<1>5. r \in Request
  <2>1. handler.nonce < MaxNonce
    BY <1>3 DEF IssueBridgeProof
  <2>2. handler.nonce \in 0..(MaxNonce - 1)
    BY <2>1, AmountAssumption DEF HandlerTypeOK, BridgeHandler
  <2>3. tx \in {chain} \X (0..(MaxNonce - 1))
    BY <2>1, SourceTxType
  <2>4. QED
    BY <2>2, <2>3 DEF Request, SolRequest
<1>6. /\ SolOf(r) = amount /\ \A m \in Mint : TokensOf(r, m) = 0
      /\ r.sender = signer /\ r.nonce = handler.nonce
  BY KeyAssumption DEF SolOf, TokensOf
<1>7. requests' = Append(requests, r)
  BY <1>3 DEF IssueBridgeProof
<1> HIDE DEF fee, r
<1>8. /\ lamports \in [SolHolder -> Nat]
      /\ \A m \in Mint, h \in TokenHolder : tokens[m][h] \in Nat
      /\ signer \in TokenHolder
  BY DEF BalancesTypeOK, SolHolder, TokenHolder
<1>9. \A h \in SolHolder :
          lamports'[h] = lamports[h] - (IF h = signer THEN fee + amount ELSE 0)
                             + (IF h = handler.fee_vault THEN fee ELSE 0)
                             + (IF h = HANDLER /\ chain = "Solana" THEN amount ELSE 0)
  BY <1>3, <1>4, <1>8, ChargeEffect
<1>10. \A m \in Mint : tokens[m][signer] >= TokensOf(r, m)
  BY <1>6, <1>8
<1>11. \A m \in Mint, h \in TokenHolder :
          tokens'[m][h] = tokens[m][h] - (IF h = r.sender THEN TokensOf(r, m) ELSE 0)
                              + (IF h = VAULT /\ m \in LocalMint THEN TokensOf(r, m) ELSE 0)
  BY <1>3, <1>6, <1>8
<1>12. Called(r, fee)
  BY <1>3, <1>4, <1>5, <1>6, <1>7, <1>9, <1>10, <1>11 DEF Called
<1>13. QED
  BY <1>12

\* A payout of a token moves what Paid says.
LEMMA TokenPayoutIsPaid ==
    ASSUME DInv, NEW signer, NEW hash, NEW p \in Payout,
           BridgeAssetTargetChain(signer, hash, p)
    PROVE  Paid(p)
<1> USE DEF DInv, ProgramTypeOK
<1> DEFINE u == p.recipient
           mint == p.mint
           amount == p.amount
           gas == p.gas
<1>1. u \in User /\ amount \in Nat /\ gas \in Nat /\ mint \in DOMAIN token_info /\ mint \in Mint
  BY PayoutAssumption DEF BridgeAssetTargetChain, RegistryTypeOK
<1>2. token_info[mint].native = chain <=> mint \in LocalMint
  BY <1>1, NativeIsLocal
<1>3. TokensGiven(u, mint, amount)
  BY <1>2 DEF TokensGiven, BridgeAssetTargetChain
<1>4. /\ IF gas > 0 THEN PaySol(u, gas) ELSE UNCHANGED lamports
      /\ UNCHANGED requests
      /\ payouts' = Append(payouts, p)
  BY DEF BridgeAssetTargetChain, AcceptPayout, RecordPayout
<1>5. /\ SolOf(p) = gas
      /\ \A m \in Mint : TokensOf(p, m) = IF m = mint THEN amount ELSE 0
  BY DEF SolOf, TokensOf, BridgeAssetTargetChain
<1>6. p.recipient = u
  OBVIOUS
<1> HIDE DEF u, mint, amount, gas
<1>7. /\ lamports \in [SolHolder -> Nat]
      /\ tokens \in [Mint -> [TokenHolder -> Nat]]
  BY DEF BalancesTypeOK, SolHolder, TokenHolder
<1>8. \A m \in Mint, h \in TokenHolder :
          tokens'[m][h] =
              tokens[m][h] + (IF h = u /\ m = mint THEN amount ELSE 0)
                  - (IF h = VAULT /\ m \in LocalMint /\ m = mint THEN amount ELSE 0)
  BY <1>1, <1>3, <1>7, GiveTokensEffect
<1>9. \A m \in Mint, h \in TokenHolder :
          tokens'[m][h] = tokens[m][h] + (IF h = u THEN TokensOf(p, m) ELSE 0)
                              - (IF h = VAULT /\ m \in LocalMint THEN TokensOf(p, m) ELSE 0)
  BY <1>5, <1>8
<1>10. \A h \in SolHolder :
          lamports'[h] = lamports[h] + (IF h = u THEN gas ELSE 0)
                             - (IF h = HANDLER /\ chain = "Solana" THEN gas ELSE 0)
  <2>1. CASE gas > 0
    <3>1. PaySol(u, gas)
      BY <1>4, <2>1
    <3>2. QED
      BY <1>1, <1>7, <3>1, PaySolEffect
  <2>2. CASE ~ (gas > 0)
    <3>1. gas = 0 /\ lamports' = lamports
      BY <1>1, <1>4, <2>2
    <3>2. QED
      BY <1>7, <3>1
  <2>3. QED
    BY <2>1, <2>2
<1>11. SolOf(p) \in Nat /\ \A m \in Mint : TokensOf(p, m) \in Nat
  BY <1>1, <1>5
<1>12. QED
  BY <1>4, <1>5, <1>6, <1>9, <1>10, <1>11 DEF Paid

\* A payout of SOL moves what Paid says.
LEMMA SolPayoutIsPaid ==
    ASSUME DInv, NEW signer, NEW hash, NEW p \in Payout,
           BridgeAssetTargetChainSol(signer, hash, p)
    PROVE  Paid(p)
<1> USE DEF DInv, ProgramTypeOK
<1> DEFINE u == p.recipient
           amount == p.amount
<1>1. u \in User /\ amount \in Nat /\ p.mint = SOL
  BY PayoutAssumption DEF BridgeAssetTargetChainSol
<1>2. /\ PaySol(u, amount)
      /\ UNCHANGED <<tokens, requests>>
      /\ payouts' = Append(payouts, p)
  BY DEF BridgeAssetTargetChainSol, AcceptPayout, RecordPayout
<1>3. SolOf(p) = amount /\ \A m \in Mint : TokensOf(p, m) = 0
  BY <1>1, KeyAssumption DEF SolOf, TokensOf, BridgeAssetTargetChainSol
<1>4. p.recipient = u
  OBVIOUS
<1> HIDE DEF u, amount
<1>5. /\ lamports \in [SolHolder -> Nat]
      /\ \A m \in Mint, h \in TokenHolder : tokens[m][h] \in Nat
  BY DEF BalancesTypeOK, SolHolder, TokenHolder
<1>6. \A m \in Mint, h \in TokenHolder :
          tokens'[m][h] = tokens[m][h] + (IF h = u THEN TokensOf(p, m) ELSE 0)
                              - (IF h = VAULT /\ m \in LocalMint THEN TokensOf(p, m) ELSE 0)
  BY <1>2, <1>3, <1>5
<1>7. \A h \in SolHolder :
          lamports'[h] = lamports[h] + (IF h = u THEN amount ELSE 0)
                             - (IF h = HANDLER /\ chain = "Solana" THEN amount ELSE 0)
  BY <1>1, <1>2, <1>5, PaySolEffect
<1>8. QED
  BY <1>1, <1>2, <1>3, <1>4, <1>6, <1>7 DEF Paid

\* Registering, guarding, collecting signatures, managing and the passing of
\* time leave the balances and both logs alone.
LEMMA OthersAreIdle ==
    ASSUME RegisterToken \/ Guarding \/ Collecting \/ Managing \/ NextEpoch \/ UNCHANGED vars
    PROVE  Idle
<1>1. CASE Managing
  BY <1>1 DEF Managing, PauseBridge, UnpauseBridge, UpdateManager, UpdateOperator,
              UpdateFeeVault, UpdateFeeInfo, UpdateHandler, UpdateInstantBridgeCap,
              PauseToken, UnpauseToken, SetTokenPause, Idle
<1>2. QED
  BY <1>1 DEF RegisterToken, AddToken, Guarding, Collecting, NextEpoch, vars, programVars, Idle

\* Every step is a call, a payout, or leaves balances and logs alone.
LEMMA StepIsCallPayoutOrIdle ==
    ASSUME DInv, [Next]_vars
    PROVE  \/ \E r, fee : Called(r, fee)
           \/ \E p : Paid(p)
           \/ Idle
<1>1. CASE BridgeToken
  BY <1>1, BridgeTokenIsCall
<1>2. CASE BridgeSol
  BY <1>2, BridgeSolIsCall
<1>3. CASE PayToken
  BY <1>3, TokenPayoutIsPaid DEF PayToken
<1>4. CASE PaySolOut
  BY <1>4, SolPayoutIsPaid DEF PaySolOut
<1>5. QED
  BY <1>1, <1>2, <1>3, <1>4, OthersAreIdle DEF Next

-----------------------------------------------------------------------------
(***************************************************************************)
(* The totals of LedgerBalanced.                                           *)
(***************************************************************************)
SolIn == SumFunction([i \in DOMAIN requests |-> SolOf(requests[i])])
SolOut == SumFunction([i \in DOMAIN payouts |-> SolOf(payouts[i])])
TokensIn(m) == SumFunction([i \in DOMAIN requests |-> TokensOf(requests[i], m)])
TokensOut(m) == SumFunction([i \in DOMAIN payouts |-> TokensOf(payouts[i], m)])

\* LedgerBalanced in these terms.
TokensBalanced(m) ==
    IF m \in LocalMint
    THEN /\ tokens[m][VAULT] = TokensIn(m) - TokensOut(m)
         /\ SumFunction(tokens[m]) = Cardinality(User) * InitialTokens
    ELSE /\ tokens[m][VAULT] = 0
         /\ SumFunction(tokens[m]) = TokensOut(m) - TokensIn(m)
SolBalanced ==
    IF chain = "Solana"
    THEN /\ lamports[HANDLER] = SolIn - SolOut
         /\ SumFunction(lamports) = Cardinality(User) * InitialLamports
    ELSE /\ lamports[HANDLER] = 0
         /\ SumFunction(lamports) = Cardinality(User) * InitialLamports - SolIn + SolOut

\* LedgerBalanced in terms of the totals.
LEMMA LedgerInTotals ==
    /\ LedgerBalanced <=> (\A m \in Mint : TokensBalanced(m)) /\ SolBalanced
    /\ LedgerBalanced' <=> (\A m \in Mint : TokensBalanced(m)') /\ SolBalanced'
  BY DEF LedgerBalanced, Total, SolIn, SolOut, TokensIn, TokensOut, TokensBalanced, SolBalanced

\* A value summed over a log, and over the log with one entry more.
LEMMA LogSum ==
    ASSUME NEW S, NEW log \in Seq(S), NEW val \in [S -> Int]
    PROVE  SumFunction([i \in DOMAIN log |-> val[log[i]]]) \in Int
<1> DEFINE f == [i \in DOMAIN log |-> val[log[i]]]
<1>1. IsFiniteSet(DOMAIN log)
  BY FS_Interval, LenProperties
<1>2. f \in [DOMAIN log -> Int]
  BY ElementOfSeq
<1> HIDE DEF f
<1>3. SumFunction(f) \in Int
  BY <1>1, <1>2, SumType
<1>4. QED
  BY <1>3 DEF f

\* One entry more in a log adds its value to the sum.
LEMMA LogGrows ==
    ASSUME NEW S, NEW log \in Seq(S), NEW val \in [S -> Int], NEW r \in S
    PROVE  SumFunction([i \in DOMAIN Append(log, r) |-> val[Append(log, r)[i]]]) =
               SumFunction([i \in DOMAIN log |-> val[log[i]]]) + val[r]
<1> DEFINE new == Append(log, r)
           before == [i \in DOMAIN log |-> val[log[i]]]
           after == [i \in DOMAIN new |-> val[new[i]]]
           places == DOMAIN log
           last == Len(log) + 1
<1>1. /\ Len(log) \in Nat /\ places = 1..Len(log)
      /\ new \in Seq(S) /\ DOMAIN new = 1..(Len(log) + 1)
      /\ \A i \in places : new[i] = log[i]
      /\ new[last] = r
  BY LenProperties, AppendProperties
<1>2. DOMAIN new = places \cup {last} /\ last \notin places /\ IsFiniteSet(places)
  <2>1. 1..(Len(log) + 1) = (1..Len(log)) \cup {Len(log) + 1}
    BY <1>1
  <2>2. IsFiniteSet(1..Len(log))
    BY <1>1, FS_Interval
  <2>3. Len(log) + 1 \notin 1..Len(log)
    BY <1>1
  <2>4. QED
    BY <1>1, <2>1, <2>2, <2>3
<1>3. before \in [places -> Int]
  BY ElementOfSeq
<1>4. after \in [places \cup {last} -> Int]
  BY <1>1, <1>2, ElementOfSeq
<1>5. (\A i \in places : after[i] = before[i]) /\ after[last] = val[r]
  BY <1>1, <1>2
<1> HIDE DEF new, before, after, places, last
<1>6. SumFunction(after) = SumFunction(before) + after[last]
  <2>1. before \in [DOMAIN new \ {last} -> Int]
    BY <1>2, <1>3
  <2>2. after \in [DOMAIN new -> Int]
    BY <1>2, <1>4
  <2>3. /\ IsFiniteSet(DOMAIN new) /\ last \in DOMAIN new
        /\ \A i \in DOMAIN new \ {last} : after[i] = before[i]
    BY <1>2, <1>5, FS_AddElement
  <2>4. QED
    BY <2>1, <2>2, <2>3, SumExtend
<1>7. SumFunction(after) = SumFunction(before) + val[r]
  BY <1>5, <1>6
<1>8. QED
  BY <1>7 DEF new, before, after

\* What the calls and payouts of the logs carry.
LEMMA CarriedTypes ==
    /\ \A r \in Request : SolOf(r) \in Nat /\ \A m \in Mint : TokensOf(r, m) \in Nat
    /\ \A p \in Payout : SolOf(p) \in Nat /\ \A m \in Mint : TokensOf(p, m) \in Nat
<1>1. ASSUME NEW r \in Request PROVE r.amount \in Nat /\ r.gas \in Nat
  <2>1. r.amount \in Amount
    BY DEF Request, TokenRequest, SolRequest
  <2>2. Amount \subseteq Nat /\ Gas \subseteq Nat
    BY AmountAssumption
  <2>3. CASE r \in TokenRequest
    BY <2>1, <2>2, <2>3 DEF TokenRequest
  <2>4. CASE r \in SolRequest
    <3>1. r.gas \in {0}
      BY <2>4 DEF SolRequest
    <3>2. r.gas \in Nat
      BY <3>1
    <3>3. QED
      BY <2>1, <2>2, <3>2
  <2>5. QED
    BY <2>3, <2>4 DEF Request
<1>2. QED
  BY <1>1, PayoutAssumption DEF SolOf, TokensOf

\* The totals are integers.
LEMMA TotalsType ==
    ASSUME DInv
    PROVE  /\ SolIn \in Int /\ SolOut \in Int
           /\ \A m \in Mint : TokensIn(m) \in Int /\ TokensOut(m) \in Int
<1>1. requests \in Seq(Request) /\ payouts \in Seq(Payout)
  BY DEF DInv, ProgramTypeOK, RequestsTypeOK, PayoutsTypeOK
<1>2. SolIn \in Int
  <2> DEFINE val == [r \in Request |-> SolOf(r)]
  <2>1. val \in [Request -> Int]
    BY CarriedTypes
  <2>2. [i \in DOMAIN requests |-> SolOf(requests[i])]
          = [i \in DOMAIN requests |-> val[requests[i]]]
    BY <1>1, ElementOfSeq
  <2> HIDE DEF val
  <2>3. QED
    BY <1>1, <2>1, <2>2, LogSum DEF SolIn
<1>3. SolOut \in Int
  <2> DEFINE val == [r \in Payout |-> SolOf(r)]
  <2>1. val \in [Payout -> Int]
    BY CarriedTypes
  <2>2. [i \in DOMAIN payouts |-> SolOf(payouts[i])] = [i \in DOMAIN payouts |-> val[payouts[i]]]
    BY <1>1, ElementOfSeq
  <2> HIDE DEF val
  <2>3. QED
    BY <1>1, <2>1, <2>2, LogSum DEF SolOut
<1>4. ASSUME NEW m \in Mint PROVE TokensIn(m) \in Int
  <2> DEFINE val == [r \in Request |-> TokensOf(r, m)]
  <2>1. val \in [Request -> Int]
    BY CarriedTypes
  <2>2. [i \in DOMAIN requests |-> TokensOf(requests[i], m)]
            = [i \in DOMAIN requests |-> val[requests[i]]]
    BY <1>1, ElementOfSeq
  <2> HIDE DEF val
  <2>3. QED
    BY <1>1, <2>1, <2>2, LogSum DEF TokensIn
<1>5. ASSUME NEW m \in Mint PROVE TokensOut(m) \in Int
  <2> DEFINE val == [r \in Payout |-> TokensOf(r, m)]
  <2>1. val \in [Payout -> Int]
    BY CarriedTypes
  <2>2. [i \in DOMAIN payouts |-> TokensOf(payouts[i], m)]
            = [i \in DOMAIN payouts |-> val[payouts[i]]]
    BY <1>1, ElementOfSeq
  <2> HIDE DEF val
  <2>3. QED
    BY <1>1, <2>1, <2>2, LogSum DEF TokensOut
<1>6. QED
  BY <1>2, <1>3, <1>4, <1>5

\* A call adds to what went in.
LEMMA CallTotals ==
    ASSUME DInv, NEW r \in Request, requests' = Append(requests, r), UNCHANGED payouts
    PROVE  /\ SolIn' = SolIn + SolOf(r) /\ SolOut' = SolOut
           /\ \A m \in Mint : /\ TokensIn(m)' = TokensIn(m) + TokensOf(r, m)
                             /\ TokensOut(m)' = TokensOut(m)
<1> DEFINE new == Append(requests, r)
<1>1. requests \in Seq(Request) /\ new \in Seq(Request)
  BY AppendProperties DEF DInv, ProgramTypeOK, RequestsTypeOK
<1>2. requests' = new
  OBVIOUS
<1> HIDE DEF new
<1>3. SolIn' = SolIn + SolOf(r)
  <2> DEFINE val == [q \in Request |-> SolOf(q)]
  <2>1. val \in [Request -> Int] /\ val[r] = SolOf(r)
    BY CarriedTypes
  <2>2. /\ [i \in DOMAIN requests |-> SolOf(requests[i])]
               = [i \in DOMAIN requests |-> val[requests[i]]]
        /\ [i \in DOMAIN new |-> SolOf(new[i])] = [i \in DOMAIN new |-> val[new[i]]]
    BY <1>1, ElementOfSeq
  <2> HIDE DEF val
  <2>3. SumFunction([i \in DOMAIN new |-> val[new[i]]])
            = SumFunction([i \in DOMAIN requests |-> val[requests[i]]]) + val[r]
    BY <1>1, <2>1, LogGrows DEF new
  <2>4. SolIn' = SumFunction([i \in DOMAIN new |-> SolOf(new[i])])
    BY <1>2 DEF SolIn, SolOf
  <2>5. QED
    BY <2>1, <2>2, <2>3, <2>4 DEF SolIn
<1>4. ASSUME NEW m \in Mint PROVE TokensIn(m)' = TokensIn(m) + TokensOf(r, m)
  <2> DEFINE val == [q \in Request |-> TokensOf(q, m)]
  <2>1. val \in [Request -> Int] /\ val[r] = TokensOf(r, m)
    BY CarriedTypes
  <2>2. /\ [i \in DOMAIN requests |-> TokensOf(requests[i], m)]
               = [i \in DOMAIN requests |-> val[requests[i]]]
        /\ [i \in DOMAIN new |-> TokensOf(new[i], m)] = [i \in DOMAIN new |-> val[new[i]]]
    BY <1>1, ElementOfSeq
  <2> HIDE DEF val
  <2>3. SumFunction([i \in DOMAIN new |-> val[new[i]]])
            = SumFunction([i \in DOMAIN requests |-> val[requests[i]]]) + val[r]
    BY <1>1, <2>1, LogGrows DEF new
  <2>4. TokensIn(m)' = SumFunction([i \in DOMAIN new |-> TokensOf(new[i], m)])
    BY <1>2 DEF TokensIn, TokensOf
  <2>5. QED
    BY <2>1, <2>2, <2>3, <2>4 DEF TokensIn
<1>5. SolOut' = SolOut /\ \A m \in Mint : TokensOut(m)' = TokensOut(m)
  BY DEF SolOut, TokensOut, SolOf, TokensOf
<1>6. QED
  BY <1>3, <1>4, <1>5

\* A payout adds to what went out.
LEMMA PayoutTotals ==
    ASSUME DInv, NEW p \in Payout, payouts' = Append(payouts, p), UNCHANGED requests
    PROVE  /\ SolOut' = SolOut + SolOf(p) /\ SolIn' = SolIn
           /\ \A m \in Mint : /\ TokensOut(m)' = TokensOut(m) + TokensOf(p, m)
                             /\ TokensIn(m)' = TokensIn(m)
<1> DEFINE new == Append(payouts, p)
<1>1. payouts \in Seq(Payout) /\ new \in Seq(Payout)
  BY AppendProperties DEF DInv, ProgramTypeOK, PayoutsTypeOK
<1>2. payouts' = new
  OBVIOUS
<1> HIDE DEF new
<1>3. SolOut' = SolOut + SolOf(p)
  <2> DEFINE val == [q \in Payout |-> SolOf(q)]
  <2>1. val \in [Payout -> Int] /\ val[p] = SolOf(p)
    BY CarriedTypes
  <2>2. /\ [i \in DOMAIN payouts |-> SolOf(payouts[i])]
               = [i \in DOMAIN payouts |-> val[payouts[i]]]
        /\ [i \in DOMAIN new |-> SolOf(new[i])] = [i \in DOMAIN new |-> val[new[i]]]
    BY <1>1, ElementOfSeq
  <2> HIDE DEF val
  <2>3. SumFunction([i \in DOMAIN new |-> val[new[i]]])
            = SumFunction([i \in DOMAIN payouts |-> val[payouts[i]]]) + val[p]
    BY <1>1, <2>1, LogGrows DEF new
  <2>4. SolOut' = SumFunction([i \in DOMAIN new |-> SolOf(new[i])])
    BY <1>2 DEF SolOut, SolOf
  <2>5. QED
    BY <2>1, <2>2, <2>3, <2>4 DEF SolOut
<1>4. ASSUME NEW m \in Mint PROVE TokensOut(m)' = TokensOut(m) + TokensOf(p, m)
  <2> DEFINE val == [q \in Payout |-> TokensOf(q, m)]
  <2>1. val \in [Payout -> Int] /\ val[p] = TokensOf(p, m)
    BY CarriedTypes
  <2>2. /\ [i \in DOMAIN payouts |-> TokensOf(payouts[i], m)]
               = [i \in DOMAIN payouts |-> val[payouts[i]]]
        /\ [i \in DOMAIN new |-> TokensOf(new[i], m)] = [i \in DOMAIN new |-> val[new[i]]]
    BY <1>1, ElementOfSeq
  <2> HIDE DEF val
  <2>3. SumFunction([i \in DOMAIN new |-> val[new[i]]])
            = SumFunction([i \in DOMAIN payouts |-> val[payouts[i]]]) + val[p]
    BY <1>1, <2>1, LogGrows DEF new
  <2>4. TokensOut(m)' = SumFunction([i \in DOMAIN new |-> TokensOf(new[i], m)])
    BY <1>2 DEF TokensOut, TokensOf
  <2>5. QED
    BY <2>1, <2>2, <2>3, <2>4 DEF TokensOut
<1>5. SolIn' = SolIn /\ \A m \in Mint : TokensIn(m)' = TokensIn(m)
  BY DEF SolIn, TokensIn, SolOf, TokensOf
<1>6. QED
  BY <1>3, <1>4, <1>5

-----------------------------------------------------------------------------
(***************************************************************************)
(* Calls and payouts keep the ledger balanced.                             *)
(***************************************************************************)

\* Holders are finitely many.
LEMMA HoldersFinite == IsFiniteSet(SolHolder) /\ IsFiniteSet(TokenHolder)
<1>1. IsFiniteSet(User) /\ IsFiniteSet(FeeVault)
  BY KeyAssumption
<1>2. IsFiniteSet({HANDLER}) /\ IsFiniteSet({VAULT})
  BY FS_Singleton
<1>3. IsFiniteSet(User \cup FeeVault)
  BY <1>1, FS_Union
<1>4. IsFiniteSet((User \cup FeeVault) \cup {HANDLER})
  BY <1>2, <1>3, FS_Union
<1>5. IsFiniteSet(User \cup {VAULT})
  BY <1>1, <1>2, FS_Union
<1>6. QED
  BY <1>4, <1>5 DEF SolHolder, TokenHolder

\* Balances are integers, before and after a step.
LEMMA BalancesAreInts ==
    /\ BalancesTypeOK => /\ lamports \in [SolHolder -> Int]
                         /\ \A m \in Mint : tokens[m] \in [TokenHolder -> Int]
    /\ BalancesTypeOK' => /\ lamports' \in [SolHolder -> Int]
                          /\ \A m \in Mint : tokens'[m] \in [TokenHolder -> Int]
<1>1. ASSUME BalancesTypeOK
      PROVE  lamports \in [SolHolder -> Int] /\ \A m \in Mint : tokens[m] \in [TokenHolder -> Int]
  <2>1. lamports \in [SolHolder -> Nat] /\ tokens \in [Mint -> [TokenHolder -> Nat]]
    BY <1>1 DEF BalancesTypeOK, SolHolder, TokenHolder
  <2>2. lamports \in [SolHolder -> Int]
    BY <2>1
  <2>3. ASSUME NEW m \in Mint PROVE tokens[m] \in [TokenHolder -> Int]
    BY <2>1
  <2>4. QED
    BY <2>2, <2>3
<1>2. ASSUME BalancesTypeOK'
      PROVE  lamports' \in [SolHolder -> Int] /\ \A m \in Mint : tokens'[m] \in [TokenHolder -> Int]
  <2>1. lamports' \in [SolHolder -> Nat] /\ tokens' \in [Mint -> [TokenHolder -> Nat]]
    BY <1>2 DEF BalancesTypeOK, SolHolder, TokenHolder
  <2>2. lamports' \in [SolHolder -> Int]
    BY <2>1
  <2>3. ASSUME NEW m \in Mint PROVE tokens'[m] \in [TokenHolder -> Int]
    BY <2>1
  <2>4. QED
    BY <2>2, <2>3
<1>3. QED
  BY <1>1, <1>2

\* A change of x units at u and of y units at the vault.
LEMMA RowSum ==
    ASSUME NEW b \in [TokenHolder -> Int], NEW c \in [TokenHolder -> Int],
           NEW u \in User, NEW x \in Int, NEW y \in Int,
           \A h \in TokenHolder : c[h] = b[h] + (IF h = u THEN x ELSE 0)
                                            + (IF h = VAULT THEN y ELSE 0)
    PROVE  SumFunction(c) = SumFunction(b) + x + y /\ c[VAULT] = b[VAULT] + y
<1>1. u \in TokenHolder /\ VAULT \in TokenHolder /\ u # VAULT
  BY KeyAssumption DEF TokenHolder
<1>2. IsFiniteSet(TokenHolder)
  BY HoldersFinite
<1>3. c[u] = b[u] + x /\ c[VAULT] = b[VAULT] + y /\ b[u] \in Int /\ b[VAULT] \in Int
  BY <1>1
<1>4. \A h \in TokenHolder \ {u, VAULT} : c[h] = b[h]
  <2> TAKE h \in TokenHolder \ {u, VAULT}
  <2>1. b[h] \in Int /\ h # u /\ h # VAULT
    OBVIOUS
  <2>2. QED
    BY <2>1
<1>5. SumFunction(c) = SumFunction(b) - b[u] + c[u] - b[VAULT] + c[VAULT]
  BY <1>1, <1>2, <1>4, SumChangeTwo
<1>6. SumFunction(b) \in Int
  BY <1>2, SumType
<1>7. QED
  BY <1>3, <1>5, <1>6

\* A change of lamports at a user, a vault and the handler only.
LEMMA SolSum ==
    ASSUME NEW b \in [SolHolder -> Int], NEW c \in [SolHolder -> Int],
           NEW u \in User, NEW v \in FeeVault,
           \A h \in SolHolder \ {u, v, HANDLER} : c[h] = b[h]
    PROVE  SumFunction(c) = SumFunction(b) - b[u] + c[u] - b[v] + c[v]
                                - b[HANDLER] + c[HANDLER]
<1> DEFINE mid == [c EXCEPT ![HANDLER] = b[HANDLER]]
<1>1. /\ u \in SolHolder /\ v \in SolHolder /\ HANDLER \in SolHolder
      /\ u # v /\ u # HANDLER /\ v # HANDLER
  BY HoldersDiffer
<1>2. IsFiniteSet(SolHolder)
  BY HoldersFinite
<1>3. /\ mid \in [SolHolder -> Int]
      /\ mid[u] = c[u] /\ mid[v] = c[v] /\ mid[HANDLER] = b[HANDLER]
      /\ \A h \in SolHolder \ {u, v} : mid[h] = b[h]
      /\ \A h \in SolHolder \ {HANDLER} : c[h] = mid[h]
  BY <1>1
<1> HIDE DEF mid
<1>4. SumFunction(mid) = SumFunction(b) - b[u] + mid[u] - b[v] + mid[v]
  BY <1>1, <1>2, <1>3, SumChangeTwo
<1>5. SumFunction(c) = SumFunction(mid) - mid[HANDLER] + c[HANDLER]
  BY <1>1, <1>2, <1>3, SumChange
<1>6. /\ SumFunction(b) \in Int /\ b[u] \in Int /\ c[u] \in Int /\ b[v] \in Int
      /\ c[v] \in Int /\ b[HANDLER] \in Int /\ c[HANDLER] \in Int
  BY <1>1, <1>2, SumType
<1>7. QED
  BY <1>3, <1>4, <1>5, <1>6

\* What a call, or a payout, does to the sums over all holders.
LEMMA CallSums ==
    ASSUME DInv, DInv', NEW r, NEW fee, Called(r, fee)
    PROVE  /\ \A m \in Mint :
                  LET lock == IF m \in LocalMint THEN TokensOf(r, m) ELSE 0
                  IN  /\ SumFunction(tokens'[m]) = SumFunction(tokens[m]) - TokensOf(r, m) + lock
                      /\ tokens'[m][VAULT] = tokens[m][VAULT] + lock
           /\ LET keep == IF chain = "Solana" THEN SolOf(r) ELSE 0
              IN  /\ SumFunction(lamports') = SumFunction(lamports) - SolOf(r) + keep
                  /\ lamports'[HANDLER] = lamports[HANDLER] + keep
<1>1. /\ BalancesTypeOK /\ BalancesTypeOK' /\ handler.fee_vault \in FeeVault
      /\ r \in Request /\ r.sender \in User /\ fee \in Nat
      /\ SolOf(r) \in Nat /\ \A m \in Mint : TokensOf(r, m) \in Nat
  <2>1. r \in Request /\ fee \in Nat
    BY DEF Called
  <2>2. r.sender \in User
    BY <2>1 DEF Request, TokenRequest, SolRequest
  <2>3. BalancesTypeOK /\ BalancesTypeOK' /\ handler.fee_vault \in FeeVault
    BY DEF DInv, ProgramTypeOK, HandlerTypeOK, BridgeHandler
  <2>4. QED
    BY <2>1, <2>2, <2>3, CarriedTypes
<1>2. /\ lamports \in [SolHolder -> Int] /\ lamports' \in [SolHolder -> Int]
      /\ \A m \in Mint : /\ tokens[m] \in [TokenHolder -> Int]
                        /\ tokens'[m] \in [TokenHolder -> Int]
  BY <1>1, BalancesAreInts
<1>3. ASSUME NEW m \in Mint
      PROVE  LET lock == IF m \in LocalMint THEN TokensOf(r, m) ELSE 0
             IN  /\ SumFunction(tokens'[m]) = SumFunction(tokens[m]) - TokensOf(r, m) + lock
                 /\ tokens'[m][VAULT] = tokens[m][VAULT] + lock
  <2> DEFINE b == tokens[m]
             c == tokens'[m]
             u == r.sender
             n == TokensOf(r, m)
             lock == IF m \in LocalMint THEN n ELSE 0
  <2>1. /\ b \in [TokenHolder -> Int] /\ c \in [TokenHolder -> Int]
        /\ u \in User /\ n \in Int /\ -n \in Int /\ lock \in Int
    BY <1>1, <1>2
  <2>2. \A h \in TokenHolder :
            c[h] = b[h] - (IF h = u THEN n ELSE 0)
                       + (IF h = VAULT /\ m \in LocalMint THEN n ELSE 0)
    BY DEF Called
  <2>3. lock = IF m \in LocalMint THEN n ELSE 0
    OBVIOUS
  <2> HIDE DEF b, c, u, n, lock
  <2>4. \A h \in TokenHolder : b[h] \in Int
    BY <2>1
  <2>5. \A h \in TokenHolder :
            c[h] = b[h] + (IF h = u THEN -n ELSE 0) + (IF h = VAULT THEN lock ELSE 0)
    BY <2>1, <2>2, <2>3, <2>4
  <2>6. SumFunction(c) = SumFunction(b) + (-n) + lock /\ c[VAULT] = b[VAULT] + lock
    BY <2>1, <2>5, RowSum
  <2>7. SumFunction(b) \in Int
    BY <2>1, HoldersFinite, SumType
  <2>8. SumFunction(c) = SumFunction(b) - n + lock
    BY <2>1, <2>6, <2>7
  <2>9. QED
    BY <2>6, <2>8 DEF b, c, n, lock
<1>4. LET keep == IF chain = "Solana" THEN SolOf(r) ELSE 0
      IN  /\ SumFunction(lamports') = SumFunction(lamports) - SolOf(r) + keep
          /\ lamports'[HANDLER] = lamports[HANDLER] + keep
  <2> DEFINE b == lamports
             c == lamports'
             u == r.sender
             v == handler.fee_vault
             n == SolOf(r)
             paid == -(fee + n)
             keep == IF chain = "Solana" THEN n ELSE 0
  <2>1. /\ b \in [SolHolder -> Int] /\ c \in [SolHolder -> Int]
        /\ u \in User /\ v \in FeeVault /\ n \in Int /\ fee \in Int
        /\ paid \in Int /\ keep \in Int
    BY <1>1, <1>2
  <2>2. \A h \in SolHolder :
            c[h] = b[h] - (IF h = u THEN fee + n ELSE 0) + (IF h = v THEN fee ELSE 0)
                       + (IF h = HANDLER /\ chain = "Solana" THEN n ELSE 0)
    BY DEF Called
  <2>3. paid = -(fee + n) /\ keep = IF chain = "Solana" THEN n ELSE 0
    OBVIOUS
  <2> HIDE DEF b, c, u, v, n, paid, keep
  <2>4. \A h \in SolHolder : b[h] \in Int
    BY <2>1
  <2>5. \A h \in SolHolder :
            c[h] = b[h] + (IF h = u THEN paid ELSE 0) + (IF h = v THEN fee ELSE 0)
                       + (IF h = HANDLER THEN keep ELSE 0)
    BY <2>1, <2>2, <2>3, <2>4
  <2>6. /\ u \in SolHolder /\ v \in SolHolder /\ HANDLER \in SolHolder
        /\ u # v /\ u # HANDLER /\ v # HANDLER
    BY <2>1, HoldersDiffer
  <2>7. c[u] = b[u] + paid /\ c[v] = b[v] + fee /\ c[HANDLER] = b[HANDLER] + keep
    BY <2>1, <2>4, <2>5, <2>6
  <2>8. \A h \in SolHolder \ {u, v, HANDLER} : c[h] = b[h]
    <3> TAKE h \in SolHolder \ {u, v, HANDLER}
    <3>1. b[h] \in Int /\ h # u /\ h # v /\ h # HANDLER /\ h \in SolHolder
      BY <2>4
    <3>2. QED
      BY <2>5, <3>1
  <2>9. SumFunction(c) = SumFunction(b) - b[u] + c[u] - b[v] + c[v] - b[HANDLER] + c[HANDLER]
    BY <2>1, <2>8, SolSum
  <2>10. SumFunction(b) \in Int
    BY <2>1, HoldersFinite, SumType
  <2>11. SumFunction(c) = SumFunction(b) - n + keep
    BY <2>1, <2>3, <2>4, <2>6, <2>7, <2>9, <2>10
  <2>12. QED
    BY <2>7, <2>11 DEF b, c, n, keep
<1>5. QED
  BY <1>3, <1>4

\* What a payout changes in the sums of the balances, and in the vaults.
LEMMA PayoutSums ==
    ASSUME DInv, DInv', NEW p, Paid(p)
    PROVE  /\ \A m \in Mint :
                  LET unlock == IF m \in LocalMint THEN TokensOf(p, m) ELSE 0
                  IN  /\ SumFunction(tokens'[m]) = SumFunction(tokens[m]) + TokensOf(p, m) - unlock
                      /\ tokens'[m][VAULT] = tokens[m][VAULT] - unlock
           /\ LET spent == IF chain = "Solana" THEN SolOf(p) ELSE 0
              IN  /\ SumFunction(lamports') = SumFunction(lamports) + SolOf(p) - spent
                  /\ lamports'[HANDLER] = lamports[HANDLER] - spent
<1>1. /\ BalancesTypeOK /\ BalancesTypeOK'
      /\ p \in Payout /\ p.recipient \in User
      /\ SolOf(p) \in Nat /\ \A m \in Mint : TokensOf(p, m) \in Nat
  <2>1. p \in Payout /\ SolOf(p) \in Nat /\ \A m \in Mint : TokensOf(p, m) \in Nat
    BY DEF Paid
  <2>2. BalancesTypeOK /\ BalancesTypeOK'
    BY DEF DInv, ProgramTypeOK
  <2>3. QED
    BY <2>1, <2>2, PayoutAssumption
<1>2. /\ lamports \in [SolHolder -> Int] /\ lamports' \in [SolHolder -> Int]
      /\ \A m \in Mint : /\ tokens[m] \in [TokenHolder -> Int]
                        /\ tokens'[m] \in [TokenHolder -> Int]
  BY <1>1, BalancesAreInts
<1>3. ASSUME NEW m \in Mint
      PROVE  LET unlock == IF m \in LocalMint THEN TokensOf(p, m) ELSE 0
             IN  /\ SumFunction(tokens'[m]) = SumFunction(tokens[m]) + TokensOf(p, m) - unlock
                 /\ tokens'[m][VAULT] = tokens[m][VAULT] - unlock
  <2> DEFINE b == tokens[m]
             c == tokens'[m]
             u == p.recipient
             n == TokensOf(p, m)
             unlock == IF m \in LocalMint THEN n ELSE 0
             gone == -unlock
  <2>1. /\ b \in [TokenHolder -> Int] /\ c \in [TokenHolder -> Int]
        /\ u \in User /\ n \in Int /\ unlock \in Int /\ gone \in Int
    BY <1>1, <1>2
  <2>2. \A h \in TokenHolder :
            c[h] = b[h] + (IF h = u THEN n ELSE 0)
                       - (IF h = VAULT /\ m \in LocalMint THEN n ELSE 0)
    BY DEF Paid
  <2>3. unlock = (IF m \in LocalMint THEN n ELSE 0) /\ gone = -unlock
    OBVIOUS
  <2> HIDE DEF b, c, u, n, unlock, gone
  <2>4. \A h \in TokenHolder : b[h] \in Int
    BY <2>1
  <2>5. \A h \in TokenHolder :
            c[h] = b[h] + (IF h = u THEN n ELSE 0) + (IF h = VAULT THEN gone ELSE 0)
    BY <2>1, <2>2, <2>3, <2>4
  <2>6. SumFunction(c) = SumFunction(b) + n + gone /\ c[VAULT] = b[VAULT] + gone
    BY <2>1, <2>5, RowSum
  <2>7. SumFunction(b) \in Int /\ b[VAULT] \in Int
    BY <2>1, <2>4, HoldersFinite, SumType DEF TokenHolder
  <2>8. SumFunction(c) = SumFunction(b) + n - unlock /\ c[VAULT] = b[VAULT] - unlock
    BY <2>1, <2>3, <2>6, <2>7
  <2>9. QED
    BY <2>8 DEF b, c, n, unlock
<1>4. LET spent == IF chain = "Solana" THEN SolOf(p) ELSE 0
      IN  /\ SumFunction(lamports') = SumFunction(lamports) + SolOf(p) - spent
          /\ lamports'[HANDLER] = lamports[HANDLER] - spent
  <2> DEFINE b == lamports
             c == lamports'
             u == p.recipient
             n == SolOf(p)
             spent == IF chain = "Solana" THEN n ELSE 0
  <2>1. /\ b \in [SolHolder -> Int] /\ c \in [SolHolder -> Int]
        /\ u \in User /\ n \in Int /\ spent \in Int
    BY <1>1, <1>2
  <2>2. \A h \in SolHolder :
            c[h] = b[h] + (IF h = u THEN n ELSE 0)
                       - (IF h = HANDLER /\ chain = "Solana" THEN n ELSE 0)
    BY DEF Paid
  <2>3. spent = IF chain = "Solana" THEN n ELSE 0
    OBVIOUS
  <2> HIDE DEF b, c, u, n, spent
  <2>4. \A h \in SolHolder : b[h] \in Int
    BY <2>1
  <2>5. \A h \in SolHolder :
            c[h] = b[h] + (IF h = u THEN n ELSE 0) - (IF h = HANDLER THEN spent ELSE 0)
    BY <2>1, <2>2, <2>3, <2>4
  <2>6. u \in SolHolder /\ HANDLER \in SolHolder /\ u # HANDLER
    BY <2>1, KeyAssumption DEF SolHolder
  <2>7. c[u] = b[u] + n /\ c[HANDLER] = b[HANDLER] - spent
    BY <2>1, <2>4, <2>5, <2>6
  <2>8. \A h \in SolHolder \ {u, HANDLER} : c[h] = b[h]
    <3> TAKE h \in SolHolder \ {u, HANDLER}
    <3>1. b[h] \in Int /\ h # u /\ h # HANDLER /\ h \in SolHolder
      BY <2>4
    <3>2. QED
      BY <2>5, <3>1
  <2>9. SumFunction(c) = SumFunction(b) - b[u] + c[u] - b[HANDLER] + c[HANDLER]
    BY <2>1, <2>6, <2>8, HoldersFinite, SumChangeTwo
  <2>10. SumFunction(b) \in Int
    BY <2>1, HoldersFinite, SumType
  <2>11. SumFunction(c) = SumFunction(b) + n - spent
    BY <2>1, <2>3, <2>4, <2>6, <2>7, <2>9, <2>10
  <2>12. QED
    BY <2>7, <2>11 DEF b, c, n, spent
<1>5. QED
  BY <1>3, <1>4

\* The sums are integers.
LEMMA SumsType ==
    ASSUME DInv
    PROVE  /\ SumFunction(lamports) \in Int
           /\ \A m \in Mint : SumFunction(tokens[m]) \in Int
<1>1. /\ lamports \in [SolHolder -> Int]
      /\ \A m \in Mint : tokens[m] \in [TokenHolder -> Int]
  BY BalancesAreInts DEF DInv, ProgramTypeOK
<1>2. QED
  BY <1>1, HoldersFinite, SumType

\* The same balances on both sides of a step with the same logs.
LEMMA IdleKeepsBalance == ASSUME LedgerBalanced, Idle PROVE LedgerBalanced'
  BY LedgerInTotals DEF Idle, TokensBalanced, SolBalanced, SolIn, SolOut, TokensIn, TokensOut,
                        SolOf, TokensOf

\* A call keeps the ledger balanced.
LEMMA CallKeepsBalance ==
    ASSUME DInv, DInv', LedgerBalanced, NEW r, NEW fee, Called(r, fee)
    PROVE  LedgerBalanced'
<1>1. r \in Request /\ requests' = Append(requests, r) /\ UNCHANGED payouts
  BY DEF Called
<1>2. /\ SolIn' = SolIn + SolOf(r) /\ SolOut' = SolOut
      /\ \A m \in Mint : /\ TokensIn(m)' = TokensIn(m) + TokensOf(r, m)
                        /\ TokensOut(m)' = TokensOut(m)
  BY <1>1, CallTotals
<1>3. /\ SolIn \in Int /\ SolOut \in Int /\ SolOf(r) \in Nat
      /\ \A m \in Mint : TokensIn(m) \in Int /\ TokensOut(m) \in Int /\ TokensOf(r, m) \in Nat
  BY <1>1, TotalsType, CarriedTypes
<1>4. /\ SumFunction(lamports) \in Int
      /\ \A m \in Mint : SumFunction(tokens[m]) \in Int
  BY SumsType
<1>5. Cardinality(User) * InitialLamports \in Int
  BY KeyAssumption, AmountAssumption, FS_CardinalityType
<1>6. (\A m \in Mint : TokensBalanced(m)) /\ SolBalanced
  BY LedgerInTotals
<1>7. ASSUME NEW m \in Mint PROVE TokensBalanced(m)'
  <2> DEFINE lock == IF m \in LocalMint THEN TokensOf(r, m) ELSE 0
  <2>1. /\ SumFunction(tokens'[m]) = SumFunction(tokens[m]) - TokensOf(r, m) + lock
        /\ tokens'[m][VAULT] = tokens[m][VAULT] + lock
    BY CallSums
  <2>2. CASE m \in LocalMint
    BY <1>2, <1>3, <1>4, <1>6, <2>1, <2>2 DEF TokensBalanced
  <2>3. CASE m \notin LocalMint
    BY <1>2, <1>3, <1>4, <1>6, <2>1, <2>3 DEF TokensBalanced
  <2>4. QED
    BY <2>2, <2>3
<1>8. SolBalanced'
  <2> DEFINE keep == IF chain = "Solana" THEN SolOf(r) ELSE 0
  <2>1. /\ SumFunction(lamports') = SumFunction(lamports) - SolOf(r) + keep
        /\ lamports'[HANDLER] = lamports[HANDLER] + keep
    BY CallSums
  <2>2. CASE chain = "Solana"
    BY <1>2, <1>3, <1>4, <1>5, <1>6, <2>1, <2>2 DEF SolBalanced
  <2>3. CASE chain # "Solana"
    BY <1>2, <1>3, <1>4, <1>5, <1>6, <2>1, <2>3 DEF SolBalanced
  <2>4. QED
    BY <2>2, <2>3
<1>9. QED
  BY <1>7, <1>8, LedgerInTotals

\* A payout keeps the ledger balanced.
LEMMA PayoutKeepsBalance ==
    ASSUME DInv, DInv', LedgerBalanced, NEW p, Paid(p)
    PROVE  LedgerBalanced'
<1>1. p \in Payout /\ payouts' = Append(payouts, p) /\ UNCHANGED requests
  BY DEF Paid
<1>2. /\ SolOut' = SolOut + SolOf(p) /\ SolIn' = SolIn
      /\ \A m \in Mint : /\ TokensOut(m)' = TokensOut(m) + TokensOf(p, m)
                        /\ TokensIn(m)' = TokensIn(m)
  BY <1>1, PayoutTotals
<1>3. /\ SolIn \in Int /\ SolOut \in Int /\ SolOf(p) \in Nat
      /\ \A m \in Mint : TokensIn(m) \in Int /\ TokensOut(m) \in Int /\ TokensOf(p, m) \in Nat
  BY <1>1, TotalsType, CarriedTypes
<1>4. /\ SumFunction(lamports) \in Int
      /\ \A m \in Mint : SumFunction(tokens[m]) \in Int
  BY SumsType
<1>5. Cardinality(User) * InitialLamports \in Int
  BY KeyAssumption, AmountAssumption, FS_CardinalityType
<1>6. (\A m \in Mint : TokensBalanced(m)) /\ SolBalanced
  BY LedgerInTotals
<1>7. ASSUME NEW m \in Mint PROVE TokensBalanced(m)'
  <2> DEFINE unlock == IF m \in LocalMint THEN TokensOf(p, m) ELSE 0
  <2>1. /\ SumFunction(tokens'[m]) = SumFunction(tokens[m]) + TokensOf(p, m) - unlock
        /\ tokens'[m][VAULT] = tokens[m][VAULT] - unlock
    BY PayoutSums
  <2>2. CASE m \in LocalMint
    BY <1>2, <1>3, <1>4, <1>6, <2>1, <2>2 DEF TokensBalanced
  <2>3. CASE m \notin LocalMint
    BY <1>2, <1>3, <1>4, <1>6, <2>1, <2>3 DEF TokensBalanced
  <2>4. QED
    BY <2>2, <2>3
<1>8. SolBalanced'
  <2> DEFINE spent == IF chain = "Solana" THEN SolOf(p) ELSE 0
  <2>1. /\ SumFunction(lamports') = SumFunction(lamports) + SolOf(p) - spent
        /\ lamports'[HANDLER] = lamports[HANDLER] - spent
    BY PayoutSums
  <2>2. CASE chain = "Solana"
    BY <1>2, <1>3, <1>4, <1>5, <1>6, <2>1, <2>2 DEF SolBalanced
  <2>3. CASE chain # "Solana"
    BY <1>2, <1>3, <1>4, <1>5, <1>6, <2>1, <2>3 DEF SolBalanced
  <2>4. QED
    BY <2>2, <2>3
<1>9. QED
  BY <1>7, <1>8, LedgerInTotals

\* An empty log adds up to nothing.
LEMMA EmptyTotals ==
    ASSUME requests = <<>>, payouts = <<>>
    PROVE  /\ SolIn = 0 /\ SolOut = 0
           /\ \A m \in Mint : TokensIn(m) = 0 /\ TokensOut(m) = 0
<1>1. DOMAIN requests = {} /\ DOMAIN payouts = {}
  OBVIOUS
<1>2. SolIn = 0
  <2> DEFINE f == [i \in DOMAIN requests |-> SolOf(requests[i])]
  <2>1. f \in [{} -> Int]
    BY <1>1
  <2> HIDE DEF f
  <2>2. SumFunction(f) = 0
    BY <2>1, SumEmpty
  <2>3. QED
    BY <2>2 DEF SolIn, f
<1>3. SolOut = 0
  <2> DEFINE f == [i \in DOMAIN payouts |-> SolOf(payouts[i])]
  <2>1. f \in [{} -> Int]
    BY <1>1
  <2> HIDE DEF f
  <2>2. SumFunction(f) = 0
    BY <2>1, SumEmpty
  <2>3. QED
    BY <2>2 DEF SolOut, f
<1>4. ASSUME NEW m \in Mint PROVE TokensIn(m) = 0
  <2> DEFINE f == [i \in DOMAIN requests |-> TokensOf(requests[i], m)]
  <2>1. f \in [{} -> Int]
    BY <1>1
  <2> HIDE DEF f
  <2>2. SumFunction(f) = 0
    BY <2>1, SumEmpty
  <2>3. QED
    BY <2>2 DEF TokensIn, f
<1>5. ASSUME NEW m \in Mint PROVE TokensOut(m) = 0
  <2> DEFINE f == [i \in DOMAIN payouts |-> TokensOf(payouts[i], m)]
  <2>1. f \in [{} -> Int]
    BY <1>1
  <2> HIDE DEF f
  <2>2. SumFunction(f) = 0
    BY <2>1, SumEmpty
  <2>3. QED
    BY <2>2 DEF TokensOut, f
<1>6. QED
  BY <1>2, <1>3, <1>4, <1>5

\* The ledger is balanced at the start.
LEMMA InitBalanced == ProgramInit => LedgerBalanced
<1> SUFFICES ASSUME ProgramInit PROVE LedgerBalanced
  OBVIOUS
<1>1. /\ SolIn = 0 /\ SolOut = 0
      /\ \A m \in Mint : TokensIn(m) = 0 /\ TokensOut(m) = 0
  BY EmptyTotals DEF ProgramInit
<1>2. /\ User \subseteq TokenHolder /\ VAULT \in TokenHolder /\ VAULT \notin User
      /\ User \subseteq SolHolder /\ HANDLER \in SolHolder /\ HANDLER \notin User
  BY KeyAssumption DEF TokenHolder, SolHolder
<1>3. IsFiniteSet(User) /\ Cardinality(User) \in Nat
  BY KeyAssumption, FS_CardinalityType
<1>4. InitialTokens \in Nat /\ InitialLamports \in Nat
  BY AmountAssumption
<1>5. ASSUME NEW m \in Mint PROVE TokensBalanced(m)
  <2> DEFINE n == IF m \in LocalMint THEN InitialTokens ELSE 0
             b == [h \in TokenHolder |-> IF h \in User THEN n ELSE 0]
  <2>1. tokens[m] = b
    BY DEF ProgramInit, TokenHolder
  <2>2. /\ n \in Int /\ b \in [TokenHolder -> Int] /\ b[VAULT] = 0
        /\ \A h \in User : b[h] = n
        /\ \A h \in TokenHolder \ User : b[h] = 0
    BY <1>2, <1>4
  <2>3. n = IF m \in LocalMint THEN InitialTokens ELSE 0
    OBVIOUS
  <2> HIDE DEF n, b
  <2>4. SumFunction(b) = Cardinality(User) * n
    BY <1>2, <2>2, HoldersFinite, SumConstant
  <2>5. CASE m \in LocalMint
    BY <1>1, <2>1, <2>2, <2>3, <2>4, <2>5 DEF TokensBalanced
  <2>6. CASE m \notin LocalMint
    <3>1. Cardinality(User) * n = 0
      BY <1>3, <2>3, <2>6
    <3>2. QED
      BY <1>1, <2>1, <2>2, <2>4, <2>6, <3>1 DEF TokensBalanced
  <2>7. QED
    BY <2>5, <2>6
<1>6. SolBalanced
  <2> DEFINE b == [h \in SolHolder |-> IF h \in User THEN InitialLamports ELSE 0]
  <2>1. lamports = b
    BY DEF ProgramInit, SolHolder
  <2>2. /\ InitialLamports \in Int /\ b \in [SolHolder -> Int] /\ b[HANDLER] = 0
        /\ \A h \in User : b[h] = InitialLamports
        /\ \A h \in SolHolder \ User : b[h] = 0
    BY <1>2, <1>4
  <2> HIDE DEF b
  <2>3. SumFunction(b) = Cardinality(User) * InitialLamports
    BY <1>2, <2>2, HoldersFinite, SumConstant
  <2>4. Cardinality(User) * InitialLamports \in Int
    BY <1>3, <1>4
  <2>5. QED
    BY <1>1, <2>1, <2>2, <2>3, <2>4 DEF SolBalanced
<1>7. QED
  BY <1>5, <1>6, LedgerInTotals

\* Every step keeps the ledger balanced.
LEMMA LedgerStep == ASSUME DInv, LedgerBalanced, [Next]_vars PROVE LedgerBalanced'
<1>1. DInv'
  BY DeploymentStep
<1>2. CASE \E r, fee : Called(r, fee)
  BY <1>1, <1>2, CallKeepsBalance
<1>3. CASE \E p : Paid(p)
  BY <1>1, <1>3, PayoutKeepsBalance
<1>4. CASE Idle
  BY <1>4, IdleKeepsBalance
<1>5. QED
  BY <1>2, <1>3, <1>4, StepIsCallPayoutOrIdle

\* Whatever users, operator and manager do, the accounts hold what the log of
\* calls and payouts says: no token or lamport appears, is lost, or is paid
\* out of a vault that it was not handed in to.
THEOREM LedgerStaysBalanced == Spec => []LedgerBalanced
<1>1. Init => LedgerBalanced
  BY InitBalanced DEF Init
<1>2. DInv /\ LedgerBalanced /\ [Next]_vars => LedgerBalanced'
  BY LedgerStep
<1>3. QED
  BY <1>1, <1>2, DeploymentInvariance, PTL DEF Spec

=============================================================================
