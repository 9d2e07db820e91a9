\* Solana: a token is paused between two calls.
CONSTANTS
    g1 = g1
    g2 = g2
    u1 = u1
    t = t
    w = w
    a1 = a1
    a2 = a2
    v1 = v1
    v2 = v2
    Guardian = {g1, g2}
    Message <- MCMessage
    MAX_GUARDIAN_COUNT = 2
    MAX_GUARDIAN_SIGNATURES = 2
    InstructionIndex = {"this"}
    MaxTime = 0
    SOL = SOL
    chain = "Solana"
    User = {u1}
    Authority = {a1, a2}
    FeeVault = {v1, v2}
    LocalMint = {t}
    RemoteMint = {w}
    InitialTokens = 2
    InitialLamports = 1
    Payout <- OnePayout
    DEFAULT_BRIDGE_ASSET_FEE = 0
    BridgeAssetFee = {1}
    MIN_SOL_BRIDGE_AMOUNT = 1
    MAX_ADDITIONAL_SOL_GAS = 1
    METADATA_CREATION_FEE = 1
    LAMPORTS_PER_SOL = 2
    SOLANA_DOLLAR_VALUE = 2
    SOLANA_DOLLAR_CAP_PER_EPOCH = 9
    SOLANA_POST_INSTANT_CAP_AWAITING_TIME_SECONDS = 2
    SOLANA_WHITELISTED_TOKENS <- CapPrices
    TokenUnit = 1
    BridgeProofNonce = {0, 1}
    Amount = {1}
    Gas = {0}
    InstantBridgeCap = {1}
    MaxInstructions = 1
    MaxNonce = 2
    MaxEpoch = 0
SPECIFICATION Spec
PROPERTIES
    PausedTokenStays
CHECK_DEADLOCK FALSE
