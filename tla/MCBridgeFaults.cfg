\* A call in SOL or in a token t of Solana with gas, a faulty guardian, and pauses
\* on Solayer while the call is on its way.
CONSTANTS
    t = t
    g1 = g1
    g2 = g2
    g3 = g3
    u1 = u1
    u2 = u2
    a1 = a1
    v1 = v1
    SOL = SOL
    User = {u1, u2}
    Authority = {a1}
    FeeVault = {v1}
    Guardian = {g1, g2, g3}
    SolanaMint = {t}
    SolayerMint = {}
    InitialTokens = 1
    SolanaLamports = 2
    DEFAULT_BRIDGE_ASSET_FEE = 1
    BridgeAssetFee = {1}
    MIN_SOL_BRIDGE_AMOUNT = 1
    MAX_ADDITIONAL_SOL_GAS = 1
    METADATA_CREATION_FEE = 1
    LAMPORTS_PER_SOL = 2
    SOLANA_DOLLAR_VALUE = 2
    SOLANA_DOLLAR_CAP_PER_EPOCH = 20
    SOLANA_POST_INSTANT_CAP_AWAITING_TIME_SECONDS = 2
    SOLANA_WHITELISTED_TOKENS <- NoPrices
    TokenUnit = 1
    BridgeProofNonce = {0}
    Amount = {1}
    Gas = {1}
    InstructionIndex = {"this"}
    MaxInstructions = 1
    MaxStray = 0
    MaxNonce = 1
    Faulty = {g3}
    GuardianThreshold = 2
SPECIFICATION FaultsFairSpec
INVARIANTS
    OnlyRequested
PROPERTIES
    EveryRequestPaid
CHECK_DEADLOCK FALSE
