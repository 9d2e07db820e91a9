\* One user, who may make two calls in one transaction; nothing at home on Solayer.
CONSTANTS
    t = t
    l = l
    g1 = g1
    u1 = u1
    a1 = a1
    v1 = v1
    SOL = SOL
    User = {u1}
    Authority = {a1}
    FeeVault = {v1}
    Guardian = {g1}
    SolanaMint = {t}
    SolayerMint = {}
    InitialTokens = 1
    SolanaLamports = 5
    DEFAULT_BRIDGE_ASSET_FEE = 1
    BridgeAssetFee = {1}
    MIN_SOL_BRIDGE_AMOUNT = 1
    MAX_ADDITIONAL_SOL_GAS = 1
    METADATA_CREATION_FEE = 1
    LAMPORTS_PER_SOL = 2
    SOLANA_DOLLAR_VALUE = 2
    SOLANA_DOLLAR_CAP_PER_EPOCH = 20
    SOLANA_POST_INSTANT_CAP_AWAITING_TIME_SECONDS = 2
    SOLANA_WHITELISTED_TOKENS <- NoPrices
    TokenUnit = 1
    BridgeProofNonce = {0, 1}
    Amount = {1}
    Gas = {0, 1}
    InstructionIndex = {"this"}
    MaxInstructions = 2
    MaxStray = 0
    MaxNonce = 2
SPECIFICATION BridgeFairSpec
PROPERTIES
    EveryRequestPaid
CHECK_DEADLOCK FALSE
