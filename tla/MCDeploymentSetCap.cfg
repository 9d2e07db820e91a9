\* As MCDeploymentCap: the manager lowers the allowance of $2 to $1 in a new epoch.
CONSTANTS
    g1 = g1
    g2 = g2
    u1 = u1
    t = t
    w = w
    a1 = a1
    v1 = v1
    Guardian = {g1, g2}
    Message <- MCMessage
    MAX_GUARDIAN_COUNT = 2
    MAX_GUARDIAN_SIGNATURES = 2
    InstructionIndex = {"this"}
    MaxTime = 2
    SOL = SOL
    chain = "Solana"
    User = {u1}
    Authority = {a1}
    FeeVault = {v1}
    LocalMint = {}
    RemoteMint = {w}
    InitialTokens = 0
    InitialLamports = 4
    Payout <- CapPayouts
    DEFAULT_BRIDGE_ASSET_FEE = 0
    BridgeAssetFee = {0}
    MIN_SOL_BRIDGE_AMOUNT = 1
    MAX_ADDITIONAL_SOL_GAS = 1
    METADATA_CREATION_FEE = 1
    LAMPORTS_PER_SOL = 2
    SOLANA_DOLLAR_VALUE = 2
    SOLANA_DOLLAR_CAP_PER_EPOCH = 2
    SOLANA_POST_INSTANT_CAP_AWAITING_TIME_SECONDS = 2
    SOLANA_WHITELISTED_TOKENS <- CapPrices
    TokenUnit = 1
    BridgeProofNonce = {0}
    Amount = {4}
    Gas = {0}
    InstantBridgeCap = {1}
    MaxInstructions = 1
    MaxNonce = 1
    MaxEpoch = 1
SPECIFICATION CapSpec
INVARIANTS
    ManagersCapHolds
CHECK_DEADLOCK FALSE
