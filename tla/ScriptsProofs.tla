---------------------------- MODULE ScriptsProofs ----------------------------
(***************************************************************************)
(* Whatever scripts are run, lost, repeated and executed out of order:     *)
(* the guardian lists are as the scripts have them, fees reach the vault,  *)
(* and what the scripts do is what BridgeTransfer allows.                  *)
(*                                                                         *)
(* Only the programs matter for the last: the scripts' own signatures, and *)
(* which guardians are left, decide whether a call is paid, but the        *)
(* target-chain scripts name no call that was not made.                    *)
(***************************************************************************)
EXTENDS Scripts, TransferProofs

-----------------------------------------------------------------------------
(***************************************************************************)
(* The guardian lists.                                                     *)
(***************************************************************************)

\* The k-th key is in the list left by the first k - 1, for each k.
Removable(list) ==
    \A k \in DOMAIN RemovedKeypairs :
        RemovedKeypairs[k] \in ToSet(RemovingEach(list)[k - 1])

\* A list without duplicates, without one of its keys: the others, still
\* without duplicates.
LEMMA WithoutKey ==
    ASSUME NEW list \in Seq(Guardian), IsInjective(list), NEW key \in ToSet(list)
    PROVE  /\ Without(list, key) \in Seq(Guardian) /\ IsInjective(Without(list, key))
           /\ ToSet(Without(list, key)) \subseteq ToSet(list) \ {key}
<1> DEFINE i == CHOOSE i \in DOMAIN list : list[i] = key
           left == RemoveAt(list, i)
<1>1. i \in 1..Len(list) /\ list[i] = key
  BY DEF ToSet
<1> HIDE DEF i
<1>2. /\ left \in Seq(Guardian) /\ Len(left) = Len(list) - 1
      /\ \A j \in 1..(Len(list) - 1) : left[j] = IF j < i THEN list[j] ELSE list[j + 1]
  <2>1. /\ SP!RemoveAt(list, i) \in Seq(Guardian)
        /\ Len(SP!RemoveAt(list, i)) = Len(list) - 1
        /\ \A j \in 1..(Len(list) - 1) :
               SP!RemoveAt(list, i)[j] = IF j < i THEN list[j] ELSE list[j + 1]
    BY <1>1, SolanaAssumptions, SP!RemoveAtProperties
       DEF SP!CountAssumption, SP!TimeAssumption, SP!ChainAssumption, SP!AmountAssumption,
           SP!PriceAssumption, SP!PayoutAssumption, SP!MintAssumption, SP!KeyAssumption,
           SP!InstructionIndexAssumption
  <2>2. SP!RemoveAt(list, i) = RemoveAt(list, i)
    BY DEF SP!RemoveAt, RemoveAt
  <2>3. QED
    BY <2>1, <2>2
<1> DEFINE at(j) == IF j < i THEN j ELSE j + 1
<1>3. Len(list) \in Nat /\ DOMAIN list = 1..Len(list)
  OBVIOUS
<1>4. \A j \in 1..(Len(list) - 1) :
          at(j) \in 1..Len(list) /\ at(j) # i /\ left[j] = list[at(j)]
  BY <1>1, <1>2, <1>3
<1>5. \A j, k \in 1..(Len(list) - 1) : at(j) = at(k) => j = k
  BY <1>1, <1>3
<1>6. DOMAIN left = 1..(Len(list) - 1)
  BY <1>2
<1> HIDE DEF left, at
<1>7. IsInjective(left)
  BY <1>3, <1>4, <1>5, <1>6 DEF IsInjective
<1>8. ToSet(left) \subseteq ToSet(list) \ {key}
  <2>1. ASSUME NEW j \in DOMAIN left PROVE left[j] \in ToSet(list) \ {key}
    <3>1. at(j) \in DOMAIN list /\ at(j) # i /\ left[j] = list[at(j)]
      BY <1>3, <1>4, <1>6
    <3>2. list[at(j)] # key
      BY <1>1, <1>3, <3>1 DEF IsInjective
    <3>3. QED
      BY <3>1, <3>2 DEF ToSet
  <2>2. QED
    BY <2>1 DEF ToSet
<1>9. QED
  BY <1>2, <1>7, <1>8 DEF left, i, Without

\* What RemovingEach recurses to.
Removes(list, n, f) ==
    f = [k \in 0..n |-> IF k = 0 THEN list ELSE Without(f[k - 1], RemovedKeypairs[k])]

\* The recursion of RemovingEach has a solution.
LEMMA RemovesExists ==
    ASSUME NEW list PROVE \A n \in Nat : \E f : Removes(list, n, f)
<1> DEFINE Good == {n \in Nat : \E f : Removes(list, n, f)}
<1>1. 0 \in Good
  <2> DEFINE f == [k \in 0..0 |-> list]
  <2>1. Removes(list, 0, f)
    BY DEF Removes
  <2> HIDE DEF f
  <2>2. QED
    BY <2>1
<1>2. ASSUME NEW n \in Nat, n \in Good PROVE n + 1 \in Good
  <2>1. PICK f : Removes(list, n, f)
    BY <1>2
  <2> DEFINE last == Without(f[n], RemovedKeypairs[n + 1])
             h == [k \in 0..(n + 1) |-> IF k = n + 1 THEN last ELSE f[k]]
             again == [k \in 0..(n + 1) |->
                          IF k = 0 THEN list ELSE Without(h[k - 1], RemovedKeypairs[k])]
  <2>2. \A k \in 0..n : f[k] = IF k = 0 THEN list ELSE Without(f[k - 1], RemovedKeypairs[k])
    BY <2>1 DEF Removes
  <2>3. \A k \in 0..n : h[k] = f[k]
    OBVIOUS
  <2>4. h[n + 1] = last
    OBVIOUS
  <2>5. h = [k \in 0..(n + 1) |-> h[k]]
    OBVIOUS
  <2> HIDE DEF h
  <2>6. ASSUME NEW k \in 0..(n + 1)
        PROVE  h[k] = IF k = 0 THEN list ELSE Without(h[k - 1], RemovedKeypairs[k])
    <3>1. CASE k = n + 1
      <4>1. k - 1 = n /\ n \in 0..n /\ k # 0
        BY <3>1
      <4>2. h[k - 1] = f[n]
        BY <2>3, <4>1
      <4>3. QED
        BY <2>4, <3>1, <4>1, <4>2
    <3>2. CASE k # n + 1
      <4>1. k \in 0..n /\ (k # 0 => k - 1 \in 0..n)
        BY <3>2
      <4>2. QED
        BY <2>2, <2>3, <4>1
    <3>3. QED
      BY <3>1, <3>2
  <2>7. again = [k \in 0..(n + 1) |-> h[k]]
    BY <2>6
  <2>8. Removes(list, n + 1, h)
    BY <2>5, <2>7 DEF Removes
  <2>9. QED
    BY <2>8
<1> HIDE DEF Good
<1>3. \A n \in Nat : n \in Good
  BY <1>1, <1>2, NaturalInduction
<1>4. QED
  BY <1>3 DEF Good

\* So the lists come one out of the other.
LEMMA RemovingEachRecurses ==
    ASSUME NEW list
    PROVE  /\ RemovingEach(list)[0] = list
           /\ \A k \in DOMAIN RemovedKeypairs :
                  RemovingEach(list)[k] = Without(RemovingEach(list)[k - 1], RemovedKeypairs[k])
<1>1. Len(RemovedKeypairs) \in Nat /\ DOMAIN RemovedKeypairs = 1..Len(RemovedKeypairs)
  BY ScriptAssumption
<1> DEFINE n == Len(RemovedKeypairs)
           f == CHOOSE f : Removes(list, n, f)
<1>2. Removes(list, n, f)
  BY <1>1, RemovesExists
<1>3. RemovingEach(list) = f
  BY DEF RemovingEach, Removes
<1> HIDE DEF f
<1>4. \A k \in 0..n : f[k] = IF k = 0 THEN list ELSE Without(f[k - 1], RemovedKeypairs[k])
  BY <1>2 DEF Removes
<1>5. QED
  BY <1>1, <1>3, <1>4

\* What is left of a list that has all keys to be removed has none of them.
LEMMA RemovedAreGone ==
    ASSUME NEW list \in Seq(Guardian), IsInjective(list), Removable(list)
    PROVE  LET left == RemovingEach(list)[Len(RemovedKeypairs)] IN
           /\ left \in Seq(Guardian) /\ ToSet(left) \subseteq ToSet(list)
           /\ ToSet(left) \cap ToSet(RemovedKeypairs) = {}
<1> DEFINE n == Len(RemovedKeypairs)
           f == RemovingEach(list)
           Right(k) == /\ f[k] \in Seq(Guardian) /\ IsInjective(f[k])
                       /\ ToSet(f[k]) \subseteq ToSet(list)
                       /\ \A j \in 1..k : RemovedKeypairs[j] \notin ToSet(f[k])
           Good == {k \in Nat : k \in 0..n => Right(k)}
<1>1. n \in Nat /\ DOMAIN RemovedKeypairs = 1..n
  BY ScriptAssumption
<1>2. f[0] = list /\ \A k \in 1..n : f[k] = Without(f[k - 1], RemovedKeypairs[k])
  BY <1>1, RemovingEachRecurses
<1>3. \A k \in 1..n : RemovedKeypairs[k] \in ToSet(f[k - 1])
  BY <1>1 DEF Removable
<1> HIDE DEF f, n
<1>4. 0 \in Good
  BY <1>2
<1>5. ASSUME NEW k \in Nat, k \in Good PROVE k + 1 \in Good
  <2>1. SUFFICES ASSUME k + 1 \in 0..n PROVE Right(k + 1)
    OBVIOUS
  <2>2. k \in 0..n /\ k + 1 \in 1..n /\ k + 1 - 1 = k
    BY <1>1, <2>1
  <2> DEFINE key == RemovedKeypairs[k + 1]
  <2>3. Right(k) /\ f[k + 1] = Without(f[k], key) /\ key \in ToSet(f[k])
    BY <1>2, <1>3, <1>5, <2>2
  <2> HIDE DEF key
  <2>4. /\ f[k + 1] \in Seq(Guardian) /\ IsInjective(f[k + 1])
        /\ ToSet(f[k + 1]) \subseteq ToSet(f[k]) \ {key}
    BY <2>3, WithoutKey
  <2>5. \A j \in 1..(k + 1) : j \in 1..k \/ j = k + 1
    BY <2>2
  <2>6. QED
    BY <2>3, <2>4, <2>5 DEF key
<1> HIDE DEF Good
<1>6. \A k \in Nat : k \in Good
  BY <1>4, <1>5, NaturalInduction
<1>7. Right(n)
  BY <1>1, <1>6 DEF Good
<1>8. ToSet(RemovedKeypairs) = {RemovedKeypairs[j] : j \in 1..n}
  BY <1>1 DEF ToSet
<1>9. QED
  BY <1>7, <1>8 DEF f, n

\* The lists the scripts can make.
Scripted(list) ==
    \/ list \in {<<>>, GUARDIAN_KEYPAIRS}
    \/ list = GuardiansLeft /\ Removable(GUARDIAN_KEYPAIRS)

\* What is left of the keypairs, if they can be removed from them.
LEMMA LeftOfKeypairs ==
    ASSUME Removable(GUARDIAN_KEYPAIRS)
    PROVE  /\ GuardiansLeft \in Seq(Guardian)
           /\ ToSet(GuardiansLeft) \subseteq ToSet(GUARDIAN_KEYPAIRS)
           /\ ToSet(GuardiansLeft) \cap ToSet(RemovedKeypairs) = {}
  BY ScriptAssumption, RemovedAreGone DEF GuardiansLeft

\* All are added to no list but the empty one.
LEMMA AddAllScripted ==
    ASSUME NEW list, Scripted(list), NEW new, AddAll(list, new)
    PROVE  Scripted(new)
<1>1. GUARDIAN_KEYPAIRS \in Seq(Guardian)
  BY ScriptAssumption
<1>2. \A s \in Seq(Guardian) : ToSet(s) = {} => s = <<>>
  <2>1. SUFFICES ASSUME NEW s \in Seq(Guardian), ToSet(s) = {} PROVE s = <<>>
    OBVIOUS
  <2>2. Len(s) \in Nat /\ (Len(s) # 0 => 1 \in DOMAIN s)
    OBVIOUS
  <2>3. Len(s) = 0
    BY <2>1, <2>2 DEF ToSet
  <2>4. QED
    BY <2>3
<1>3. list = <<>>
  <2>1. CASE list = GUARDIAN_KEYPAIRS
    BY <1>1, <1>2, <2>1 DEF AddAll
  <2>2. CASE list = GuardiansLeft /\ Removable(GUARDIAN_KEYPAIRS)
    BY <1>2, <2>2, LeftOfKeypairs DEF AddAll
  <2>3. QED
    BY <2>1, <2>2 DEF Scripted
<1>4. new = <<>> \o GUARDIAN_KEYPAIRS
  BY <1>3 DEF AddAll
<1>5. new = GUARDIAN_KEYPAIRS
  BY <1>1, <1>4
<1>6. QED
  BY <1>5 DEF Scripted

\* The keys to be removed are removed once, or there are none.
LEMMA RemoveAllScripted ==
    ASSUME NEW list, Scripted(list), NEW thr, NEW new, RemoveAll(list, thr, new)
    PROVE  Scripted(new)
<1>1. Removable(list) /\ new = RemovingEach(list)[Len(RemovedKeypairs)]
  BY DEF RemoveAll, Removable
<1>2. Len(RemovedKeypairs) \in Nat /\ DOMAIN RemovedKeypairs = 1..Len(RemovedKeypairs)
  BY ScriptAssumption
<1>3. RemovingEach(list)[0] = list
  BY RemovingEachRecurses
<1>4. CASE Len(RemovedKeypairs) = 0
  BY <1>1, <1>3, <1>4
<1>5. CASE Len(RemovedKeypairs) # 0
  <2>1. 1 \in DOMAIN RemovedKeypairs /\ 1 - 1 = 0
    BY <1>2, <1>5
  <2>2. RemovedKeypairs[1] \in ToSet(list) /\ RemovedKeypairs[1] \in ToSet(RemovedKeypairs)
    BY <1>1, <1>3, <2>1 DEF Removable, ToSet
  <2>3. list # <<>>
    BY <2>2 DEF ToSet
  <2>4. list = GUARDIAN_KEYPAIRS
    BY <2>2, <2>3, LeftOfKeypairs DEF Scripted
  <2>5. QED
    BY <1>1, <2>4 DEF Scripted, GuardiansLeft
<1>6. QED
  BY <1>4, <1>5

-----------------------------------------------------------------------------
(***************************************************************************)
(* What a transaction does when it is executed.                            *)
(***************************************************************************)

\* The scripts that change no account but those of the guardians.
SolanaGuarding ==
    \/ SolanaAddGuardian \/ SolanaRemoveGuardian \/ SolanaUpdateGuardianThreshold
    \/ \E n \in DOMAIN lay_requests : SolanaVerifySignature(n)
SolayerGuarding ==
    \/ SolayerAddGuardian \/ SolayerRemoveGuardian \/ SolayerUpdateGuardianThreshold
    \/ \E n \in DOMAIN sol_requests : SolayerVerifySignature(n)
    \/ \E n \in DOMAIN sol_requests : SolayerVerifySignatureBridgeSol(n)
Initializing == SolanaInitialize \/ SolayerInitialize

\* The source-chain scripts.
SolanaCalling ==
    \E n \in BridgeProofNonce :
        SolanaBridgeAssetSourceChain(n) \/ \E u \in User : SolanaBridgeAssetSourceChainSol(n, u)
SolayerCalling ==
    \E n \in BridgeProofNonce :
        SolayerBridgeAssetSourceChain(n) \/ \E u \in User : SolayerBridgeAssetSourceChainSol(n, u)

\* The scripts of the manager and of the operator.
SolanaManaging == SolanaUpdateFeeVault \/ SolanaPauseToken \/ SolanaUnpauseToken
SolayerManaging == SolayerAddToken \/ SolayerUnpauseToken
SolayerPaying ==
    \E n \in DOMAIN sol_requests :
        SolayerBridgeAssetTargetChain(n) \/ SolayerBridgeAssetTargetChainSol(n)

ScriptStep ==
    \/ Initializing \/ SolanaGuarding \/ SolayerGuarding
    \/ SolanaCalling \/ SolayerCalling
    \/ SolanaManaging \/ SolayerManaging \/ SolayerPaying

\* Each script has its own transaction.
LEMMA ExecuteIs ==
    ASSUME NEW a
    PROVE  /\ Execute("solana/initialize", a) => SolanaInitialize
           /\ Execute("solana/add_guardian", a) => SolanaAddGuardian
           /\ Execute("solana/remove_guardian", a) => SolanaRemoveGuardian
           /\ Execute("solana/update_guardian_threshold", a) =>
                  SolanaUpdateGuardianThreshold
           /\ Execute("solana/update_fee_vault", a) => SolanaUpdateFeeVault
           /\ Execute("solana/pause_token", a) => SolanaPauseToken
           /\ Execute("solana/unpause_token", a) => SolanaUnpauseToken
           /\ Execute("solana/bridge_asset_source_chain", a) =>
                  SolanaBridgeAssetSourceChain(a[1])
           /\ Execute("solana/bridge_asset_source_chain_sol", a) =>
                  SolanaBridgeAssetSourceChainSol(a[1], a[2])
           /\ Execute("solana/verify_signature", a) => SolanaVerifySignature(a[1])
           /\ Execute("solayer/initialize", a) => SolayerInitialize
           /\ Execute("solayer/add_guardian", a) => SolayerAddGuardian
           /\ Execute("solayer/remove_guardian", a) => SolayerRemoveGuardian
           /\ Execute("solayer/update_guardian_threshold", a) =>
                  SolayerUpdateGuardianThreshold
           /\ Execute("solayer/add_token", a) => SolayerAddToken
           /\ Execute("solayer/unpause_token", a) => SolayerUnpauseToken
           /\ Execute("solayer/bridge_asset_source_chain", a) =>
                  SolayerBridgeAssetSourceChain(a[1])
           /\ Execute("solayer/bridge_asset_source_chain_sol", a) =>
                  SolayerBridgeAssetSourceChainSol(a[1], a[2])
           /\ Execute("solayer/verify_signature", a) => SolayerVerifySignature(a[1])
           /\ Execute("solayer/verify_signature_bridge_sol", a) =>
                  SolayerVerifySignatureBridgeSol(a[1])
           /\ Execute("solayer/bridge_asset_target_chain", a) =>
                  SolayerBridgeAssetTargetChain(a[1])
           /\ Execute("solayer/bridge_asset_target_chain_sol", a) =>
                  SolayerBridgeAssetTargetChainSol(a[1])
<1>1. Execute("solana/initialize", a) => SolanaInitialize
  BY DEF Execute
<1>2. Execute("solana/add_guardian", a) => SolanaAddGuardian
  BY DEF Execute
<1>3. Execute("solana/remove_guardian", a) => SolanaRemoveGuardian
  BY DEF Execute
<1>4. Execute("solana/update_guardian_threshold", a) => SolanaUpdateGuardianThreshold
  BY DEF Execute
<1>5. Execute("solana/update_fee_vault", a) => SolanaUpdateFeeVault
  BY DEF Execute
<1>6. Execute("solana/pause_token", a) => SolanaPauseToken
  BY DEF Execute
<1>7. Execute("solana/unpause_token", a) => SolanaUnpauseToken
  BY DEF Execute
<1>8. Execute("solana/bridge_asset_source_chain", a) =>
          SolanaBridgeAssetSourceChain(a[1])
  BY DEF Execute
<1>9. Execute("solana/bridge_asset_source_chain_sol", a) =>
          SolanaBridgeAssetSourceChainSol(a[1], a[2])
  BY DEF Execute
<1>10. Execute("solana/verify_signature", a) => SolanaVerifySignature(a[1])
  BY DEF Execute
<1>11. Execute("solayer/initialize", a) => SolayerInitialize
  BY DEF Execute
<1>12. Execute("solayer/add_guardian", a) => SolayerAddGuardian
  BY DEF Execute
<1>13. Execute("solayer/remove_guardian", a) => SolayerRemoveGuardian
  BY DEF Execute
<1>14. Execute("solayer/update_guardian_threshold", a) => SolayerUpdateGuardianThreshold
  BY DEF Execute
<1>15. Execute("solayer/add_token", a) => SolayerAddToken
  BY DEF Execute
<1>16. Execute("solayer/unpause_token", a) => SolayerUnpauseToken
  BY DEF Execute
<1>17. Execute("solayer/bridge_asset_source_chain", a) =>
          SolayerBridgeAssetSourceChain(a[1])
  BY DEF Execute
<1>18. Execute("solayer/bridge_asset_source_chain_sol", a) =>
          SolayerBridgeAssetSourceChainSol(a[1], a[2])
  BY DEF Execute
<1>19. Execute("solayer/verify_signature", a) => SolayerVerifySignature(a[1])
  BY DEF Execute
<1>20. Execute("solayer/verify_signature_bridge_sol", a) =>
          SolayerVerifySignatureBridgeSol(a[1])
  BY DEF Execute
<1>21. Execute("solayer/bridge_asset_target_chain", a) =>
          SolayerBridgeAssetTargetChain(a[1])
  BY DEF Execute
<1>22. Execute("solayer/bridge_asset_target_chain_sol", a) =>
          SolayerBridgeAssetTargetChainSol(a[1])
  BY DEF Execute
<1>23. QED
  BY <1>1, <1>2, <1>3, <1>4, <1>5, <1>6, <1>7, <1>8, <1>9, <1>10, <1>11, <1>12, <1>13, <1>14,
     <1>15, <1>16, <1>17, <1>18, <1>19, <1>20, <1>21, <1>22

\* A transaction without arguments is of one of the operator's other scripts.
LEMMA ExecutesOperator ==
    ASSUME NEW s \in OperatorScript, NEW a, Execute(s, a)
    PROVE  Initializing \/ SolanaManaging \/ SolayerManaging
              \/ SolanaAddGuardian \/ SolanaRemoveGuardian \/ SolanaUpdateGuardianThreshold
              \/ SolayerAddGuardian \/ SolayerRemoveGuardian \/ SolayerUpdateGuardianThreshold
  BY ExecuteIs DEF OperatorScript, Initializing, SolanaManaging, SolayerManaging

\* A transaction of a source-chain script is a call with its nonce and recipient.
LEMMA ExecutesSource ==
    ASSUME NEW s \in SourceScript, NEW a, Execute(s, a)
    PROVE  /\ s \in TokenSource => SolanaBridgeAssetSourceChain(a[1])
                                       \/ SolayerBridgeAssetSourceChain(a[1])
           /\ s \in SolSource => SolanaBridgeAssetSourceChainSol(a[1], a[2])
                                     \/ SolayerBridgeAssetSourceChainSol(a[1], a[2])
  BY ExecuteIs DEF SourceScript, TokenSource, SolSource

\* A transaction of the other scripts is about a call that was made.
LEMMA ExecutesCall ==
    ASSUME NEW s \in CallScript, NEW n \in CallsOf(s), NEW a, a[1] = n, Execute(s, a)
    PROVE  SolanaGuarding \/ SolayerGuarding \/ SolayerPaying
<1>1. CASE s = "solana/verify_signature"
  <2>1. n \in DOMAIN lay_requests
    BY <1>1 DEF CallsOf
  <2>2. SolanaVerifySignature(n)
    BY <1>1, ExecuteIs
  <2>3. QED
    BY <2>1, <2>2 DEF SolanaGuarding
<1>2. CASE s # "solana/verify_signature"
  <2>1. n \in DOMAIN sol_requests
    BY <1>2 DEF CallsOf
  <2>2. \/ SolayerVerifySignature(n) \/ SolayerVerifySignatureBridgeSol(n)
        \/ SolayerBridgeAssetTargetChain(n) \/ SolayerBridgeAssetTargetChainSol(n)
    BY <1>2, ExecuteIs DEF CallScript
  <2>3. QED
    BY <2>1, <2>2 DEF SolayerGuarding, SolayerPaying
<1>3. QED
  BY <1>1, <1>2

\* The transactions, by what their arguments are.
OperatorTx == {Tx(s, <<>>) : s \in Script \ (SourceScript \cup CallScript)}
TokenTx == {Tx(s, <<n>>) : s \in Script \cap TokenSource, n \in BridgeProofNonce}
SolTx == {Tx(s, <<n, u>>) : s \in Script \cap SolSource, n \in BridgeProofNonce, u \in User}
CallTx == UNION {{Tx(s, <<n>>) : n \in CallsOf(s)} : s \in Script \cap CallScript}

\* Whatever transaction is executed, it is one of these steps.
LEMMA ExecutesStep ==
    ASSUME NEW tx \in Transactions, Execute(tx.script, tx.args)
    PROVE  ScriptStep
<1>1. ASSUME tx \in OperatorTx PROVE ScriptStep
  <2>1. PICK s \in Script \ (SourceScript \cup CallScript) : tx = Tx(s, <<>>)
    BY <1>1 DEF OperatorTx
  <2>2. s \in OperatorScript /\ Execute(s, <<>>)
    BY <2>1, ScriptAssumption DEF Tx
  <2>3. QED
    BY <2>2, ExecutesOperator DEF ScriptStep, SolanaGuarding, SolayerGuarding
<1>2. ASSUME tx \in TokenTx PROVE ScriptStep
  <2>1. PICK s \in Script \cap TokenSource, n \in BridgeProofNonce : tx = Tx(s, <<n>>)
    BY <1>2 DEF TokenTx
  <2>2. s \in SourceScript /\ Execute(s, <<n>>)
    BY <2>1 DEF Tx, SourceScript
  <2>3. SolanaBridgeAssetSourceChain(n) \/ SolayerBridgeAssetSourceChain(n)
    BY <2>1, <2>2, ExecutesSource
  <2>4. QED
    BY <2>3 DEF ScriptStep, SolanaCalling, SolayerCalling
<1>3. ASSUME tx \in SolTx PROVE ScriptStep
  <2>1. PICK s \in Script \cap SolSource, n \in BridgeProofNonce, u \in User :
            tx = Tx(s, <<n, u>>)
    BY <1>3 DEF SolTx
  <2>2. s \in SourceScript /\ Execute(s, <<n, u>>)
    BY <2>1 DEF Tx, SourceScript
  <2>3. SolanaBridgeAssetSourceChainSol(n, u) \/ SolayerBridgeAssetSourceChainSol(n, u)
    BY <2>1, <2>2, ExecutesSource
  <2>4. QED
    BY <2>3 DEF ScriptStep, SolanaCalling, SolayerCalling
<1>4. ASSUME tx \in CallTx PROVE ScriptStep
  <2>1. PICK s \in Script \cap CallScript : tx \in {Tx(s, <<n>>) : n \in CallsOf(s)}
    BY <1>4 DEF CallTx
  <2>2. PICK n \in CallsOf(s) : tx = Tx(s, <<n>>)
    BY <2>1
  <2>3. Execute(s, <<n>>) /\ <<n>>[1] = n
    BY <2>2 DEF Tx
  <2>4. QED
    BY <2>3, ExecutesCall DEF ScriptStep
<1>5. Transactions = OperatorTx \cup TokenTx \cup SolTx \cup CallTx
  BY DEF Transactions, OperatorTx, TokenTx, SolTx, CallTx
<1>6. QED
  BY <1>1, <1>2, <1>3, <1>4, <1>5

-----------------------------------------------------------------------------
(***************************************************************************)
(* What these steps are to the programs.                                   *)
(***************************************************************************)

\* No account of a program changes but those of its guardians.
Quiet == UNCHANGED solanaProgram /\ UNCHANGED solayerProgram

\* One program takes a step that pays nothing out, or answers a call.
SolanaActs ==
    /\ SP!Next /\ UNCHANGED <<sol_payouts, sol_guardians>>
    /\ sol_handler'.fee_vault = sol_handler.fee_vault
    /\ UNCHANGED solayerVars
Answers ==
    \E n \in DOMAIN sol_requests : lay_payouts' = Append(lay_payouts, PayoutOf(sol_requests[n]))
SolayerActs ==
    /\ LP!Next /\ UNCHANGED lay_guardians
    /\ lay_payouts' = lay_payouts \/ Answers
    /\ UNCHANGED solanaVars

\* Setting up, and the guardians' scripts, leave the programs' other accounts alone.
LEMMA GuardingIsQuiet ==
    ASSUME Initializing \/ SolanaGuarding \/ SolayerGuarding
    PROVE  Quiet
<1>1. ASSUME Initializing PROVE Quiet
  BY <1>1 DEF Initializing, SolanaInitialize, SolayerInitialize, Initialize, bridgeVars,
              solanaVars, solayerVars, Quiet
<1>2. ASSUME SolanaGuarding PROVE Quiet
  <2>1. UNCHANGED solanaProgram /\ UNCHANGED solayerVars
    BY <1>2 DEF SolanaGuarding, SolanaAddGuardian, SolanaRemoveGuardian,
                SolanaUpdateGuardianThreshold, SolanaVerifySignature
  <2>2. QED
    BY <2>1 DEF solayerVars, Quiet
<1>3. ASSUME SolayerGuarding PROVE Quiet
  <2>1. UNCHANGED solayerProgram /\ UNCHANGED solanaVars
    BY <1>3 DEF SolayerGuarding, SolayerAddGuardian, SolayerRemoveGuardian,
                SolayerUpdateGuardianThreshold, SolayerVerifySignature,
                SolayerVerifySignatureBridgeSol
  <2>2. QED
    BY <2>1 DEF solanaVars, Quiet
<1>4. QED
  BY <1>1, <1>2, <1>3

\* The constants of the scripts are arguments a caller may pass.
LEMMA ScriptArguments ==
    /\ SENDER \in User /\ RECIPIENT \in User
    /\ SOLANA_MINT \in SP!Mint /\ MintThere(SOLANA_MINT) \in SP!TargetMint
    /\ SOLAYER_MINT \in LP!Mint /\ MintThere(SOLAYER_MINT) \in LP!TargetMint
    /\ 0 \in Gas /\ ADDITIONAL_SOL_GAS \in Gas
    /\ BRIDGE_AMOUNT["solana/bridge_asset_source_chain"] \in Amount
    /\ BRIDGE_AMOUNT["solayer/bridge_asset_source_chain"] \in Amount
    /\ BRIDGE_AMOUNT["solana/bridge_asset_source_chain_sol"] \in Amount
    /\ BRIDGE_AMOUNT["solayer/bridge_asset_source_chain_sol"] \in Amount
    /\ \A s : <<"Solana", sol_handler.nonce>> \in SP!SourceTx(s)
    /\ \A s : <<"Solayer", lay_handler.nonce>> \in LP!SourceTx(s)
<1>1. SOLANA_MINT \in SolanaMint /\ SOLAYER_MINT \in LP!Mint
  BY ScriptAssumption, SolayerOperators
<1>2. SOLANA_MINT \in SP!Mint
  BY <1>1, MintSides
<1>3. MintThere(SOLANA_MINT) \in SP!TargetMint
  BY <1>1, TokenAssumption DEF MintThere, Asset, SP!TargetMint, SP!WrappedMint,
                               Solana!WrappedMint
<1>4. MintThere(SOLAYER_MINT) \in LP!TargetMint
  <2>1. CASE SOLAYER_MINT \in SolayerMint
    BY <2>1, TokenAssumption DEF MintThere, Asset, LP!TargetMint, LP!WrappedMint,
                                 Solana!WrappedMint
  <2>2. CASE SOLAYER_MINT \notin SolayerMint
    <3>1. SOLAYER_MINT \notin Asset
      BY <1>1, <2>2, MintSides
    <3>2. MintThere(SOLAYER_MINT) \in SP!Mint /\ MintThere(SOLAYER_MINT) \in Asset
      BY <1>1, <3>1, MintSides, MintFacts
    <3>3. MintThere(SOLAYER_MINT) \in SolanaMint
      BY <3>2, MintSides
    <3>4. QED
      BY <3>3 DEF LP!TargetMint
  <2>3. QED
    BY <2>1, <2>2
<1>5. /\ \A s : <<"Solana", sol_handler.nonce>> \in SP!SourceTx(s)
      /\ \A s : <<"Solayer", lay_handler.nonce>> \in LP!SourceTx(s)
  BY DEF SP!SourceTx, LP!SourceTx
<1>6. SENDER \in User /\ RECIPIENT \in User /\ 0 \in Gas /\ ADDITIONAL_SOL_GAS \in Gas
  BY ScriptAssumption
<1>7. /\ BRIDGE_AMOUNT["solana/bridge_asset_source_chain"] \in Amount
      /\ BRIDGE_AMOUNT["solayer/bridge_asset_source_chain"] \in Amount
      /\ BRIDGE_AMOUNT["solana/bridge_asset_source_chain_sol"] \in Amount
      /\ BRIDGE_AMOUNT["solayer/bridge_asset_source_chain_sol"] \in Amount
  BY ScriptAssumption DEF SourceScript, TokenSource, SolSource
<1>8. QED
  BY <1>1, <1>2, <1>3, <1>4, <1>5, <1>6, <1>7

\* A call on Solana pays nothing out and writes no field of the handler but the nonce.
LEMMA SolanaCallIssues ==
    ASSUME SP!BridgeToken \/ SP!BridgeSol
    PROVE  /\ sol_handler' = [sol_handler EXCEPT !.nonce = @ + 1]
           /\ UNCHANGED sol_payouts
<1>1. ASSUME NEW s, NEW n, NEW m, NEW a, NEW r, NEW tm, NEW g, NEW tx,
             SP!BridgeAssetSourceChain(s, n, m, a, r, tm, g, tx)
      PROVE  UNCHANGED sol_payouts /\ \E q : SP!IssueBridgeProof(q)
  BY <1>1 DEF SP!BridgeAssetSourceChain
<1>2. ASSUME NEW s, NEW n, NEW a, NEW r, NEW tx,
             SP!BridgeAssetSourceChainSol(s, n, a, r, tx)
      PROVE  UNCHANGED sol_payouts /\ \E q : SP!IssueBridgeProof(q)
  BY <1>2 DEF SP!BridgeAssetSourceChainSol
<1>3. UNCHANGED sol_payouts /\ \E q : SP!IssueBridgeProof(q)
  BY <1>1, <1>2 DEF SP!BridgeToken, SP!BridgeSol
<1>4. QED
  BY <1>3 DEF SP!IssueBridgeProof

\* A call on Solayer pays nothing out and writes no field of the handler but the nonce.
LEMMA SolayerCallIssues ==
    ASSUME LP!BridgeToken \/ LP!BridgeSol
    PROVE  /\ lay_handler' = [lay_handler EXCEPT !.nonce = @ + 1]
           /\ UNCHANGED lay_payouts
<1>1. ASSUME NEW s, NEW n, NEW m, NEW a, NEW r, NEW tm, NEW g, NEW tx,
             LP!BridgeAssetSourceChain(s, n, m, a, r, tm, g, tx)
      PROVE  UNCHANGED lay_payouts /\ \E q : LP!IssueBridgeProof(q)
  BY <1>1 DEF LP!BridgeAssetSourceChain
<1>2. ASSUME NEW s, NEW n, NEW a, NEW r, NEW tx,
             LP!BridgeAssetSourceChainSol(s, n, a, r, tx)
      PROVE  UNCHANGED lay_payouts /\ \E q : LP!IssueBridgeProof(q)
  BY <1>2 DEF LP!BridgeAssetSourceChainSol
<1>3. UNCHANGED lay_payouts /\ \E q : LP!IssueBridgeProof(q)
  BY <1>1, <1>2 DEF LP!BridgeToken, LP!BridgeSol
<1>4. QED
  BY <1>3 DEF LP!IssueBridgeProof

\* The source-chain scripts for Solana make calls of its program.
LEMMA SolanaCallingActs == ASSUME SolanaCalling PROVE SolanaActs
<1>1. PICK n \in BridgeProofNonce :
          \/ SolanaBridgeAssetSourceChain(n)
          \/ \E u \in User : SolanaBridgeAssetSourceChainSol(n, u)
  BY DEF SolanaCalling
<1>2. SP!BridgeToken \/ SP!BridgeSol
  <2>1. CASE SolanaBridgeAssetSourceChain(n)
    <3>1. SP!BridgeAssetSourceChain(
              SENDER, n, SOLANA_MINT, BRIDGE_AMOUNT["solana/bridge_asset_source_chain"],
              RECIPIENT, MintThere(SOLANA_MINT), ADDITIONAL_SOL_GAS,
              <<"Solana", sol_handler.nonce>>)
      BY <2>1, SolanaTokenCall DEF SolanaBridgeAssetSourceChain
    <3>2. QED
      BY <3>1, ScriptArguments DEF SP!BridgeToken
  <2>2. CASE \E u \in User : SolanaBridgeAssetSourceChainSol(n, u)
    <3>1. PICK u \in User : SolanaBridgeAssetSourceChainSol(n, u)
      BY <2>2
    <3>2. SP!BridgeAssetSourceChainSol(
              SENDER, n, BRIDGE_AMOUNT["solana/bridge_asset_source_chain_sol"], u,
              <<"Solana", sol_handler.nonce>>)
      BY <3>1, SolanaSolCall DEF SolanaBridgeAssetSourceChainSol
    <3>3. QED
      BY <3>2, ScriptArguments DEF SP!BridgeSol
  <2>3. QED
    BY <1>1, <2>1, <2>2
<1>3. /\ sol_handler' = [sol_handler EXCEPT !.nonce = @ + 1]
      /\ UNCHANGED sol_payouts
  BY <1>2, SolanaCallIssues
<1>4. sol_handler'.fee_vault = sol_handler.fee_vault
  BY <1>3
<1>5. UNCHANGED sol_guardians
  BY <1>2, SolanaProved DEF SP!guardianVars
<1>6. UNCHANGED solayerVars
  BY <1>1 DEF SolanaBridgeAssetSourceChain, SolanaBridgeAssetSourceChainSol
<1>7. QED
  BY <1>2, <1>3, <1>4, <1>5, <1>6 DEF SolanaActs, SP!Next

\* The source-chain scripts for Solayer make calls of its program.
LEMMA SolayerCallingActs == ASSUME SolayerCalling PROVE SolayerActs
<1>1. PICK n \in BridgeProofNonce :
          \/ SolayerBridgeAssetSourceChain(n)
          \/ \E u \in User : SolayerBridgeAssetSourceChainSol(n, u)
  BY DEF SolayerCalling
<1>2. LP!BridgeToken \/ LP!BridgeSol
  <2>1. CASE SolayerBridgeAssetSourceChain(n)
    <3>1. LP!BridgeAssetSourceChain(
              RECIPIENT, n, SOLAYER_MINT, BRIDGE_AMOUNT["solayer/bridge_asset_source_chain"],
              SENDER, MintThere(SOLAYER_MINT), 0, <<"Solayer", lay_handler.nonce>>)
      BY <2>1, SolayerTokenCall DEF SolayerBridgeAssetSourceChain
    <3>2. QED
      BY <3>1, ScriptArguments DEF LP!BridgeToken
  <2>2. CASE \E u \in User : SolayerBridgeAssetSourceChainSol(n, u)
    <3>1. PICK u \in User : SolayerBridgeAssetSourceChainSol(n, u)
      BY <2>2
    <3>2. LP!BridgeAssetSourceChainSol(
              SENDER, n, BRIDGE_AMOUNT["solayer/bridge_asset_source_chain_sol"], u,
              <<"Solayer", lay_handler.nonce>>)
      BY <3>1, SolayerSolCall DEF SolayerBridgeAssetSourceChainSol
    <3>3. QED
      BY <3>2, ScriptArguments DEF LP!BridgeSol
  <2>3. QED
    BY <1>1, <2>1, <2>2
<1>3. UNCHANGED lay_payouts
  BY <1>2, SolayerCallIssues
<1>4. UNCHANGED lay_guardians
  BY <1>2, SolayerProved DEF LP!guardianVars
<1>5. UNCHANGED solanaVars
  BY <1>1 DEF SolayerBridgeAssetSourceChain, SolayerBridgeAssetSourceChainSol
<1>6. QED
  BY <1>2, <1>3, <1>4, <1>5 DEF SolayerActs, LP!Next

\* The manager's scripts for Solana write no balance, and the fee vault is
\* after update_fee_vault what it was before.
LEMMA SolanaManagingActs ==
    ASSUME SolanaManaging, SP!DInv, sol_handler.fee_vault = FEE_VAULT
    PROVE  /\ Quiet \/ SolanaActs
           /\ sol_handler'.fee_vault = FEE_VAULT
           /\ UNCHANGED <<sol_guardians, lay_guardians>>
<1>1. sol_handler \in SP!BridgeHandler
  BY DEF SP!DInv, SP!ProgramTypeOK, SP!HandlerTypeOK
<1>2. CASE SolanaUpdateFeeVault
  <2>1. [sol_handler EXCEPT !.fee_vault = FEE_VAULT] = sol_handler
    BY <1>1 DEF SP!BridgeHandler
  <2>2. UNCHANGED solanaProgram /\ UNCHANGED solayerVars /\ UNCHANGED sol_guardians
    BY <1>2, <2>1 DEF SolanaUpdateFeeVault, solanaProgram
  <2>3. UNCHANGED sol_handler
    BY <2>2 DEF solanaProgram
  <2>4. QED
    BY <2>2, <2>3 DEF Quiet, solayerVars
<1>3. CASE SolanaPauseToken \/ SolanaUnpauseToken
  <2>1. /\ UNCHANGED solayerVars
        /\ \/ Solana!PauseToken(sol_handler.manager, SOLANA_MINT)
           \/ Solana!UnpauseToken(sol_handler.manager, SOLANA_MINT)
    BY <1>3 DEF SolanaPauseToken, SolanaUnpauseToken
  <2>2. \/ SP!PauseToken(sol_handler.manager, SOLANA_MINT)
        \/ SP!UnpauseToken(sol_handler.manager, SOLANA_MINT)
    BY <2>1 DEF Solana!PauseToken, Solana!UnpauseToken, Solana!SetTokenPause,
                Solana!guardianVars, SP!PauseToken, SP!UnpauseToken, SP!SetTokenPause,
                SP!guardianVars
  <2>3. sol_handler.manager \in Authority /\ SOLANA_MINT \in SP!Mint
    BY <1>1, ScriptArguments DEF SP!BridgeHandler
  <2>4. SP!Next
    BY <2>2, <2>3 DEF SP!Managing, SP!Next
  <2>5. UNCHANGED <<sol_payouts, sol_guardians, sol_handler>>
    BY <2>2 DEF SP!PauseToken, SP!UnpauseToken, SP!SetTokenPause, SP!guardianVars
  <2>6. QED
    BY <2>1, <2>4, <2>5 DEF SolanaActs, solayerVars
<1>4. QED
  BY <1>2, <1>3 DEF SolanaManaging

\* add_token and unpause_token on Solayer pay nothing out.
LEMMA SolayerManagingActs ==
    ASSUME SolayerManaging, LP!DInv PROVE SolayerActs
<1>1. /\ lay_handler \in LP!BridgeHandler
      /\ lay_handler.manager \in Authority /\ lay_handler.operator \in Authority
  BY DEF LP!DInv, LP!ProgramTypeOK, LP!HandlerTypeOK, LP!BridgeHandler
<1>2. CASE SolayerAddToken
  <2>1. Solayer!AddToken(lay_handler.operator, SOLANA_MINT) /\ UNCHANGED solanaVars
    BY <1>2 DEF SolayerAddToken
  <2>2. Solayer!RegisterToken
    BY <1>1, <2>1, ScriptAssumption DEF Solayer!RegisterToken
  <2>3. LP!RegisterToken /\ UNCHANGED LP!guardianVars
    BY <2>2, SolayerRegister, SolayerProved
  <2>4. UNCHANGED <<lay_payouts, lay_guardians>>
    BY <2>1, <2>3 DEF Solayer!AddToken, LP!guardianVars
  <2>5. QED
    BY <2>1, <2>3, <2>4 DEF SolayerActs, LP!Next
<1>3. CASE SolayerUnpauseToken
  <2>1. Solayer!UnpauseToken(lay_handler.manager, SOLAYER_MINT) /\ UNCHANGED solanaVars
    BY <1>3 DEF SolayerUnpauseToken
  <2>2. LP!UnpauseToken(lay_handler.manager, SOLAYER_MINT)
    BY <2>1 DEF Solayer!UnpauseToken, Solayer!SetTokenPause, Solayer!guardianVars,
                LP!UnpauseToken, LP!SetTokenPause, LP!guardianVars
  <2>3. LP!Next
    BY <1>1, <2>2, ScriptArguments DEF LP!Managing, LP!Next
  <2>4. UNCHANGED <<lay_payouts, lay_guardians>>
    BY <2>2 DEF LP!UnpauseToken, LP!SetTokenPause, LP!guardianVars
  <2>5. QED
    BY <2>1, <2>3, <2>4 DEF SolayerActs
<1>4. QED
  BY <1>2, <1>3 DEF SolayerManaging

\* The record for a token call would have to be of the hash of its payout:
\* verify_signature hashes one mint only, so that there is no such record.
LEMMA TokenAnswerFails ==
    ASSUME NEW n \in DOMAIN sol_requests PROVE ~ SolayerBridgeAssetTargetChain(n)
<1> DEFINE p == CallToSolayer(n)
           q == [p EXCEPT !.source_mint = p.mint]
<1>1. SUFFICES ASSUME SolayerBridgeAssetTargetChain(n) PROVE FALSE
  OBVIOUS
<1>2. Solayer!BridgeAssetTargetChain(lay_handler.operator, GetMessageHash(p), q)
  BY <1>1 DEF SolayerBridgeAssetTargetChain
<1> HIDE DEF p
<1>3. q.kind = "token" /\ Solayer!MessageHash(q) = GetMessageHash(p)
  BY <1>2 DEF Solayer!BridgeAssetTargetChain, Solayer!AcceptPayout
<1> HIDE DEF q
<1>4. Len(Solayer!MessageHash(q)) = 8
  BY <1>3 DEF Solayer!MessageHash
<1>5. Len(GetMessageHash(p)) = 7
  BY DEF GetMessageHash
<1>6. QED
  BY <1>3, <1>4, <1>5

\* The target-chain scripts pay nothing but what a call asked for.
LEMMA SolayerPayingActs ==
    ASSUME SolayerPaying, Programs PROVE SolayerActs
<1>1. PICK n \in DOMAIN sol_requests : SolayerBridgeAssetTargetChainSol(n)
  BY TokenAnswerFails DEF SolayerPaying
<1> DEFINE p == PayoutOf(sol_requests[n])
           hash == GetMessageHashForBridgeAssetTargetChainSol(p)
<1>2. /\ Solayer!BridgeAssetTargetChainSol(lay_handler.operator, hash, p)
      /\ UNCHANGED solanaVars
  BY <1>1 DEF SolayerBridgeAssetTargetChainSol, CallToSolayer
<1>3. p \in AnyCall
  <2>1. sol_requests[n] \in LoggedCall
    BY LogTypes DEF Programs
  <2>2. QED
    BY <2>1, PayoutIsCall
<1> HIDE DEF p, hash
<1>4. LP!BridgeAssetTargetChainSol(lay_handler.operator, hash, p)
  BY <1>2, SolayerPayouts
<1>5. LP!AcceptPayout(lay_handler.operator, hash, p)
  BY <1>4 DEF LP!BridgeAssetTargetChainSol
<1>6. lay_handler.operator \in Authority
  BY DEF Programs, LP!DInv, LP!ProgramTypeOK, LP!HandlerTypeOK, LP!BridgeHandler
<1>7. hash \in DOMAIN lay_verified /\ UNCHANGED lay_guardians
  BY <1>5 DEF LP!AcceptPayout, LP!ConsumeSignatures
<1>8. LP!Next
  BY <1>3, <1>4, <1>6, <1>7 DEF LP!PaySolOut, LP!Next
<1>9. lay_payouts' = Append(lay_payouts, p)
  BY <1>5 DEF LP!AcceptPayout, LP!RecordPayout
<1>10. Answers
  BY <1>9 DEF p, Answers
<1>11. QED
  BY <1>2, <1>7, <1>8, <1>10 DEF SolayerActs

-----------------------------------------------------------------------------
(***************************************************************************)
(* The invariant.                                                          *)
(***************************************************************************)

Lists == Scripted(sol_guardians) /\ Scripted(lay_guardians)

\* What the scripts keep, and why what they sent can still be executed: the
\* calls it is about are never taken back.
ScriptsInv ==
    /\ Programs /\ Lists
    /\ sol_handler.fee_vault = FEE_VAULT
    /\ FeesReachVault
    /\ sent \subseteq Transactions

\* Whatever transaction is executed, a program acts or all keep still, and the
\* lists stay as the scripts make them.
LEMMA StepActs ==
    ASSUME ScriptsInv, ScriptStep
    PROVE  /\ Quiet \/ SolanaActs \/ SolayerActs
           /\ Lists'
           /\ sol_handler'.fee_vault = FEE_VAULT
<1>1. SP!DInv /\ LP!DInv /\ sol_handler.fee_vault = FEE_VAULT /\ Lists
  BY DEF ScriptsInv, Programs
<1>2. ASSUME Quiet \/ SolayerActs PROVE sol_handler'.fee_vault = FEE_VAULT
  BY <1>1, <1>2 DEF Quiet, SolayerActs, solanaVars, solanaProgram
<1>3. ASSUME UNCHANGED <<sol_guardians, lay_guardians>> PROVE Lists'
  BY <1>1, <1>3 DEF Lists, Scripted
<1>4. CASE Initializing
  <2>1. UNCHANGED <<sol_guardians, lay_guardians>>
    BY <1>4 DEF Initializing, SolanaInitialize, SolayerInitialize, Initialize, bridgeVars,
                solanaVars, solayerVars
  <2>2. QED
    BY <1>2, <1>3, <1>4, <2>1, GuardingIsQuiet
<1>5. CASE SolanaGuarding
  <2>1. Lists'
    <3>1. UNCHANGED lay_guardians
      BY <1>5 DEF SolanaGuarding, SolanaAddGuardian, SolanaRemoveGuardian,
                  SolanaUpdateGuardianThreshold, SolanaVerifySignature, solayerVars
    <3>2. \/ AddAll(sol_guardians, sol_guardians')
          \/ RemoveAll(sol_guardians, sol_threshold, sol_guardians')
          \/ UNCHANGED sol_guardians
      BY <1>5 DEF SolanaGuarding, SolanaAddGuardian, SolanaRemoveGuardian,
                  SolanaUpdateGuardianThreshold, Solana!UpdateGuardianThreshold,
                  SolanaVerifySignature, Solana!VerifySignature, Solana!RecordSignatures
    <3>3. Scripted(sol_guardians) /\ Scripted(lay_guardians)
      BY <1>1 DEF Lists
    <3>4. Scripted(sol_guardians')
      BY <3>2, <3>3, AddAllScripted, RemoveAllScripted
    <3>5. QED
      BY <3>1, <3>3, <3>4 DEF Lists
  <2>2. QED
    BY <1>2, <1>5, <2>1, GuardingIsQuiet
<1>6. CASE SolayerGuarding
  <2>1. Lists'
    <3>1. UNCHANGED sol_guardians
      BY <1>6 DEF SolayerGuarding, SolayerAddGuardian, SolayerRemoveGuardian,
                  SolayerUpdateGuardianThreshold, SolayerVerifySignature,
                  SolayerVerifySignatureBridgeSol, solanaVars
    <3>2. \/ AddAll(lay_guardians, lay_guardians')
          \/ RemoveAll(lay_guardians, lay_threshold, lay_guardians')
          \/ UNCHANGED lay_guardians
      BY <1>6 DEF SolayerGuarding, SolayerAddGuardian, SolayerRemoveGuardian,
                  SolayerUpdateGuardianThreshold, Solayer!UpdateGuardianThreshold,
                  SolayerVerifySignature, SolayerVerifySignatureBridgeSol,
                  Solayer!VerifySignature, Solayer!RecordSignatures
    <3>3. Scripted(sol_guardians) /\ Scripted(lay_guardians)
      BY <1>1 DEF Lists
    <3>4. Scripted(lay_guardians')
      BY <3>2, <3>3, AddAllScripted, RemoveAllScripted
    <3>5. QED
      BY <3>1, <3>3, <3>4 DEF Lists
  <2>2. QED
    BY <1>2, <1>6, <2>1, GuardingIsQuiet
<1>7. CASE SolanaCalling
  <2>1. SolanaActs
    BY <1>7, SolanaCallingActs
  <2>2. UNCHANGED <<sol_guardians, lay_guardians>> /\ sol_handler'.fee_vault = FEE_VAULT
    BY <1>1, <2>1 DEF SolanaActs, solayerVars
  <2>3. QED
    BY <1>3, <2>1, <2>2
<1>8. CASE SolayerCalling \/ SolayerManaging \/ SolayerPaying
  <2>1. SolayerActs
    BY <1>1, <1>8, SolayerCallingActs, SolayerManagingActs, SolayerPayingActs DEF ScriptsInv
  <2>2. UNCHANGED <<sol_guardians, lay_guardians>>
    BY <2>1 DEF SolayerActs, solanaVars
  <2>3. QED
    BY <1>2, <1>3, <2>1, <2>2
<1>9. CASE SolanaManaging
  BY <1>1, <1>3, <1>9, SolanaManagingActs
<1>10. QED
  BY <1>4, <1>5, <1>6, <1>7, <1>8, <1>9 DEF ScriptStep

\* Then either program keeps its invariant.
LEMMA ActsKeepDeployments ==
    ASSUME Programs, Quiet \/ SolanaActs \/ SolayerActs
    PROVE  SP!DInv' /\ LP!DInv'
<1>1. [SP!Next]_SP!vars \/ UNCHANGED SP!programVars
  BY DEF Quiet, SolanaActs, SolayerActs, solanaVars, solanaProgram, SP!programVars
<1>2. [LP!Next]_LP!vars \/ UNCHANGED LP!programVars
  BY DEF Quiet, SolanaActs, SolayerActs, solayerVars, solayerProgram, LP!programVars
<1>3. QED
  BY <1>1, <1>2, SolanaProved, SolayerProved DEF Programs

\* A payout on Solayer answers a call that was not answered before.
LEMMA AnswersAreFirst ==
    ASSUME Programs, LP!DInv', NEW p, LP!Paid(p), Answers
    PROVE  /\ \E n \in DOMAIN sol_requests : p = PayoutOf(sol_requests[n])
           /\ \A k \in DOMAIN lay_payouts : lay_payouts[k] # p
<1>1. lay_payouts' = Append(lay_payouts, p) /\ lay_payouts \in Seq(AnyCall) /\ p \in AnyCall
  BY LogTypes DEF Programs, LP!Paid
<1>2. PICK n \in DOMAIN sol_requests : lay_payouts' = Append(lay_payouts, PayoutOf(sol_requests[n]))
  BY DEF Answers
<1> DEFINE q == PayoutOf(sol_requests[n])
<1>3. lay_payouts' = Append(lay_payouts, q) /\ q \in AnyCall
  BY <1>2, LogTypes, PayoutIsCall DEF Programs
<1> HIDE DEF q
<1>4. p = q
  <2>1. lay_payouts'[Len(lay_payouts) + 1] = p
    BY <1>1
  <2>2. lay_payouts'[Len(lay_payouts) + 1] = q
    BY <1>1, <1>3
  <2>3. QED
    BY <2>1, <2>2
<1>5. p = PayoutOf(sol_requests[n])
  BY <1>4 DEF q
<1>6. ASSUME NEW k \in DOMAIN lay_payouts PROVE lay_payouts[k] # p
  <2>1. LP!PaidOncePerTransaction'
    BY DEF LP!DInv
  <2>2. /\ k \in DOMAIN lay_payouts' /\ lay_payouts'[k] = lay_payouts[k]
        /\ Len(lay_payouts) + 1 \in DOMAIN lay_payouts'
        /\ lay_payouts'[Len(lay_payouts) + 1] = p /\ k # Len(lay_payouts) + 1
    BY <1>1
  <2>3. QED
    BY <2>1, <2>2 DEF LP!PaidOncePerTransaction
<1>7. QED
  BY <1>5, <1>6

\* And the step is a call, the first payout of one, or moves nothing.
LEMMA ActsMove ==
    ASSUME Programs, LP!DInv', Quiet \/ SolanaActs \/ SolayerActs
    PROVE  Moves
<1>1. CASE Quiet
  BY <1>1 DEF Quiet, solanaProgram, solayerProgram, SP!Idle, LP!Idle, BothIdle, Moves
<1>2. CASE SolanaActs
  <2>1. LP!Idle
    BY <1>2 DEF SolanaActs, solayerVars, solayerProgram, LP!Idle
  <2>2. ASSUME NEW p PROVE ~ SP!Paid(p)
    <3>1. sol_payouts \in Seq(AnyCall) /\ sol_payouts' = sol_payouts
      BY <1>2, LogTypes DEF Programs, SolanaActs
    <3>2. SP!Paid(p) => p \in AnyCall /\ sol_payouts' = Append(sol_payouts, p)
      BY DEF SP!Paid
    <3>3. Len(sol_payouts) \in Nat
      BY <3>1
    <3>4. p \in AnyCall => Len(Append(sol_payouts, p)) = Len(sol_payouts) + 1
      BY <3>1
    <3>5. QED
      BY <3>1, <3>2, <3>3, <3>4
  <2>3. (\E r, fee : SP!Called(r, fee)) \/ SP!Idle
    BY <1>2, <2>2, SolanaProved DEF Programs, SolanaActs
  <2>4. QED
    BY <2>1, <2>3 DEF SolanaCalled, BothIdle, Moves
<1>3. CASE SolayerActs
  <2>1. SP!Idle
    BY <1>3 DEF SolayerActs, solanaVars, solanaProgram, SP!Idle
  <2>2. CASE \E p : LP!Paid(p)
    <3>1. PICK p : LP!Paid(p)
      BY <2>2
    <3>2. lay_payouts \in Seq(AnyCall) /\ p \in AnyCall /\ lay_payouts' = Append(lay_payouts, p)
      BY <3>1, LogTypes DEF Programs, LP!Paid
    <3>3. Len(lay_payouts) \in Nat /\ Len(lay_payouts') = Len(lay_payouts) + 1
      BY <3>2
    <3>4. Answers
      BY <1>3, <3>3 DEF SolayerActs
    <3>5. /\ \E n \in DOMAIN sol_requests : p = PayoutOf(sol_requests[n])
          /\ \A k \in DOMAIN lay_payouts : lay_payouts[k] # p
      BY <3>1, <3>4, AnswersAreFirst
    <3>6. \E r : SolayerPaid(r)
      BY <2>1, <3>1, <3>5 DEF SolayerPaid
    <3>7. QED
      BY <3>6 DEF Moves
  <2>3. CASE ~ \E p : LP!Paid(p)
    <3>1. (\E r, fee : LP!Called(r, fee)) \/ LP!Idle
      BY <1>3, <2>3, SolayerProved DEF Programs, SolayerActs
    <3>2. QED
      BY <2>1, <3>1 DEF SolayerCalled, BothIdle, Moves
  <2>4. QED
    BY <2>2, <2>3
<1>4. QED
  BY <1>1, <1>2, <1>3

\* No step takes a lamport to the vault update_fee_vault passes through.
LEMMA FeesStayAway ==
    ASSUME Programs, Moves, FeesReachVault, sol_handler.fee_vault = FEE_VAULT
    PROVE  FeesReachVault'
<1> DEFINE h == SOLANA_MINT_FOR_DELETE
<1>1. /\ h \in SP!SolHolder /\ h \notin User /\ h # "handler" /\ h # FEE_VAULT
      /\ sol_lamports[h] = 0
  BY ScriptAssumption, DeploymentAssumption
     DEF Solana!KeyAssumption, Solana!HANDLER, SP!SolHolder, FeesReachVault
<1> HIDE DEF h
<1>2. CASE \E r, fee : SolanaCalled(r, fee)
  <2>1. PICK r, fee : SP!Called(r, fee)
    BY <1>2 DEF SolanaCalled
  <2>2. r.sender \in User
    <3>1. r \in LoggedCall
      BY <2>1, RequestTypes DEF SP!Called
    <3>2. QED
      BY <3>1 DEF LoggedCall
  <2>3. h # r.sender /\ h # sol_handler.fee_vault
    BY <1>1, <2>2
  <2>4. sol_lamports'[h] = sol_lamports[h] - (IF h = r.sender THEN fee + SP!SolOf(r) ELSE 0)
                               + (IF h = sol_handler.fee_vault THEN fee ELSE 0)
                               + (IF h = "handler" THEN SP!SolOf(r) ELSE 0)
    BY <1>1, <2>1 DEF SP!Called, SP!HANDLER
  <2>5. sol_lamports'[h] = 0 - 0 + 0 + 0
    BY <1>1, <2>3, <2>4
  <2>6. QED
    BY <2>5 DEF FeesReachVault, h
<1>3. CASE \E r : SolanaPaid(r)
  <2>1. PICK r : SP!Paid(PayoutOf(r))
    BY <1>3 DEF SolanaPaid
  <2> DEFINE p == PayoutOf(r)
  <2>2. SP!Paid(p)
    BY <2>1
  <2> HIDE DEF p
  <2>3. p.recipient \in User
    BY <2>2 DEF SP!Paid, AnyCall, TokenCall, SolCall
  <2>4. sol_lamports'[h] = sol_lamports[h] + 0 - 0
    BY <1>1, <2>2, <2>3 DEF SP!Paid, SP!HANDLER
  <2>5. QED
    BY <1>1, <2>4 DEF FeesReachVault, h
<1>4. CASE SP!Idle
  BY <1>4 DEF SP!Idle, FeesReachVault
<1>5. QED
  BY <1>2, <1>3, <1>4 DEF Moves, SolayerCalled, SolayerPaid, BothIdle

\* The calls a script can be about are never taken back.
LEMMA TransactionsStay ==
    ASSUME Programs, Moves PROVE Transactions \subseteq Transactions'
<1>1. /\ \A n \in DOMAIN sol_requests :
             n \in DOMAIN sol_requests' /\ sol_requests'[n] = sol_requests[n]
      /\ \A n \in DOMAIN lay_requests :
             n \in DOMAIN lay_requests' /\ lay_requests'[n] = lay_requests[n]
  BY LogsGrow, GrownLog
<1>2. ASSUME NEW s \in CallScript PROVE CallsOf(s) \subseteq CallsOf(s)'
  <2>1. CASE s = "solana/verify_signature"
    BY <1>1, <2>1 DEF CallsOf
  <2>2. CASE s \in {"solayer/verify_signature", "solayer/bridge_asset_target_chain"}
    BY <1>1, <2>2 DEF CallsOf
  <2>3. CASE s \notin {"solana/verify_signature", "solayer/verify_signature",
                       "solayer/bridge_asset_target_chain"}
    BY <1>1, <2>3 DEF CallsOf
  <2>4. QED
    BY <2>1, <2>2, <2>3
<1>3. CallTx \subseteq CallTx'
  <2>1. ASSUME NEW tx \in CallTx PROVE tx \in CallTx'
    <3>1. PICK s \in Script \cap CallScript : tx \in {Tx(s, <<n>>) : n \in CallsOf(s)}
      BY DEF CallTx
    <3>2. PICK n \in CallsOf(s) : tx = Tx(s, <<n>>)
      BY <3>1
    <3>3. n \in CallsOf(s)'
      BY <1>2, <3>1, <3>2
    <3>4. tx \in {Tx(s, <<k>>) : k \in CallsOf(s)'}
      BY <3>2, <3>3
    <3>5. QED
      BY <3>1, <3>4 DEF CallTx
  <2>2. QED
    BY <2>1
<1>4. Transactions = OperatorTx \cup TokenTx \cup SolTx \cup CallTx
  BY DEF Transactions, OperatorTx, TokenTx, SolTx, CallTx
<1>5. Transactions' = OperatorTx \cup TokenTx \cup SolTx \cup CallTx'
  BY DEF Transactions, OperatorTx, TokenTx, SolTx, CallTx
<1>6. QED
  BY <1>3, <1>4, <1>5

\* A step of the scripts is of one transaction: sent, dropped or executed.
LEMMA ScriptsStepKinds ==
    ASSUME ScriptsInv, [ScriptsNext]_scriptsVars
    PROVE  /\ (Quiet /\ UNCHANGED <<sol_guardians, lay_guardians>>) \/ ScriptStep
           /\ sent' \subseteq Transactions
<1>1. sent \subseteq Transactions
  BY DEF ScriptsInv
<1>2. CASE AnyRun
  <2>1. PICK tx \in Transactions : Run(tx)
    BY <1>2 DEF AnyRun
  <2>2. QED
    BY <1>1, <2>1 DEF Run, Quiet
<1>3. CASE AnyLand
  <2>1. PICK tx \in sent : Land(tx)
    BY <1>3 DEF AnyLand
  <2>2. ScriptStep
    BY <1>1, <2>1, ExecutesStep DEF Land
  <2>3. QED
    BY <1>1, <2>1, <2>2 DEF Land
<1>4. CASE AnyDrop
  BY <1>1, <1>4 DEF AnyDrop, Drop, bridgeVars, solanaVars, solayerVars, Quiet
<1>5. CASE UNCHANGED scriptsVars
  BY <1>1, <1>5 DEF scriptsVars, bridgeVars, solanaVars, solayerVars, Quiet
<1>6. QED
  BY <1>2, <1>3, <1>4, <1>5 DEF ScriptsNext

\* Every step keeps the invariant, and is a call, the first payout of one, or
\* moves nothing.
LEMMA ScriptsInvariant ==
    ASSUME ScriptsInv, [ScriptsNext]_scriptsVars
    PROVE  ScriptsInv' /\ Moves
<1>1. /\ Quiet \/ SolanaActs \/ SolayerActs
      /\ Lists' /\ sol_handler'.fee_vault = FEE_VAULT
  <2>1. CASE Quiet /\ UNCHANGED <<sol_guardians, lay_guardians>>
    BY <2>1 DEF ScriptsInv, Quiet, Lists, Scripted, solanaProgram
  <2>2. CASE ScriptStep
    BY <2>2, StepActs
  <2>3. QED
    BY <2>1, <2>2, ScriptsStepKinds
<1>2. Programs /\ FeesReachVault /\ sol_handler.fee_vault = FEE_VAULT
  BY DEF ScriptsInv
<1>3. SP!DInv' /\ LP!DInv'
  BY <1>1, <1>2, ActsKeepDeployments
<1>4. Moves
  BY <1>1, <1>2, <1>3, ActsMove
<1>5. Programs'
  BY <1>2, <1>3, <1>4, ProgramsStep
<1>6. FeesReachVault'
  BY <1>2, <1>4, FeesStayAway
<1>7. sent' \subseteq Transactions'
  BY <1>2, <1>4, ScriptsStepKinds, TransactionsStay
<1>8. QED
  BY <1>1, <1>4, <1>5, <1>6, <1>7 DEF ScriptsInv

\* It holds when nobody has run a script yet.
LEMMA ScriptsInitInvariant == ASSUME ScriptsInit PROVE ScriptsInv
<1>1. SP!ProgramInit /\ LP!ProgramInit
  BY SolanaInit, SolayerInit DEF ScriptsInit, Solana!Init, Solayer!Init
<1>2. SP!DInv /\ LP!DInv
  BY <1>1, SolanaProved, SolayerProved
<1>3. PaidFor(sol_requests, lay_payouts) /\ PaidFor(lay_requests, sol_payouts)
  BY <1>1 DEF SP!ProgramInit, LP!ProgramInit, PaidFor
<1>4. sol_guardians = <<>> /\ lay_guardians = <<>>
  BY DEF ScriptsInit, Solana!Init, Solayer!Init, Solana!GuardiansInit, Solayer!GuardiansInit
<1>5. Lists
  BY <1>4 DEF Lists, Scripted
<1>6. FeesReachVault
  <2>1. SOLANA_MINT_FOR_DELETE \in FeeVault /\ SOLANA_MINT_FOR_DELETE \notin User
    BY ScriptAssumption, DeploymentAssumption DEF Solana!KeyAssumption
  <2>2. QED
    BY <1>1, <2>1 DEF SP!ProgramInit, FeesReachVault
<1>7. QED
  BY <1>2, <1>3, <1>5, <1>6 DEF ScriptsInv, Programs, ScriptsInit

\* So it always holds.
LEMMA ScriptsInvariance == ScriptsSpec => []ScriptsInv
<1>1. ScriptsInit => ScriptsInv
  BY ScriptsInitInvariant
<1>2. ScriptsInv /\ [ScriptsNext]_scriptsVars => ScriptsInv'
  BY ScriptsInvariant
<1>3. QED
  BY <1>1, <1>2, PTL DEF ScriptsSpec

-----------------------------------------------------------------------------
\* A guardian list is always one the scripts are to make: empty, with the keys
\* of add_guardian in their order, or that without those of remove_guardian.
THEOREM ScriptsKeepLists == ScriptsSpec => []ListsAsScripted
<1>1. ScriptsInv => ListsAsScripted
  BY DEF ScriptsInv, Lists, Scripted, ListsAsScripted
<1>2. QED
  BY <1>1, ScriptsInvariance, PTL

\* No user pays a fee to the vault update_fee_vault passes through.
THEOREM ScriptsPayFeesToVault == ScriptsSpec => []FeesReachVault
<1>1. ScriptsInv => FeesReachVault
  BY DEF ScriptsInv
<1>2. QED
  BY <1>1, ScriptsInvariance, PTL

\* Payouts of calls of the other chain are what OnlyRequested asks for.
LEMMA ProgramsPayOnlyRequested == ASSUME Programs PROVE OnlyRequested
<1>1. IsInjective(lay_payouts) /\ IsInjective(sol_payouts)
  BY DEF Programs, LP!DInv, LP!PaidOncePerTransaction, SP!DInv, SP!PaidOncePerTransaction,
         IsInjective
<1>2. /\ \A i \in DOMAIN sol_requests :
             \E j \in DOMAIN AllRequests : sol_requests[i] = AllRequests[j]
      /\ \A i \in DOMAIN lay_requests :
             \E j \in DOMAIN AllRequests : lay_requests[i] = AllRequests[j]
  BY AskedCalls DEF Programs
<1>3. AnswersCalls(lay_payouts) /\ AnswersCalls(sol_payouts)
  BY <1>2 DEF Programs, PaidFor, AnswersCalls
<1>4. QED
  BY <1>1, <1>3 DEF OnlyRequested

\* What the scripts pay out was called for, once.
THEOREM ScriptsPayOnlyRequested == ScriptsSpec => []OnlyRequested
<1>1. ScriptsInv => OnlyRequested
  BY ProgramsPayOnlyRequested DEF ScriptsInv
<1>2. QED
  BY <1>1, ScriptsInvariance, PTL

\* Scripts run in any order leave neither chain unable to pay.
THEOREM ScriptsKeepBacked == ScriptsSpec => []Backed
<1>1. ScriptsInit => Backed
  BY InitBacked DEF ScriptsInit, Solana!Init, Solayer!Init
<1>2. ScriptsInv /\ Backed /\ [ScriptsNext]_scriptsVars => Backed'
  BY ScriptsInvariant, BackedStep DEF ScriptsInv
<1>3. QED
  BY <1>1, <1>2, ScriptsInvariance, PTL DEF ScriptsSpec

\* The scripts move assets as BridgeTransfer promises.
THEOREM ScriptsImplementTransfer == ScriptsSpec => ImplementsTransfer
<1>1. ScriptsInit => Promise!TransferInit
  BY TransferInit DEF ScriptsInit, Solana!Init, Solayer!Init
<1>2. ScriptsInv /\ [ScriptsNext]_scriptsVars =>
          [Promise!TransferNext]_<<Holding, Transit>>
  BY ScriptsInvariant, TransferStep DEF ScriptsInv
<1>3. QED
  BY <1>1, <1>2, ScriptsInvariance, PTL
     DEF ScriptsSpec, ImplementsTransfer, Promise!TransferSpec

=============================================================================
