\* All scripts, from two accounts nobody has initialised; two transactions under way.
CONSTANTS
    t = t
    l = l
    g1 = g1
    g2 = g2
    g3 = g3
    u1 = u1
    u2 = u2
    a1 = a1
    v1 = v1
    d1 = d1
    SOL = SOL
    User = {u1, u2}
    Authority = {a1}
    FeeVault = {v1, d1}
    Guardian = {g1, g2, g3}
    SolanaMint = {t}
    SolayerMint = {l}
    InitialTokens = 2
    SolanaLamports = 6
    DEFAULT_BRIDGE_ASSET_FEE = 1
    BridgeAssetFee = {1}
    MIN_SOL_BRIDGE_AMOUNT = 1
    MAX_ADDITIONAL_SOL_GAS = 1
    METADATA_CREATION_FEE = 1
    LAMPORTS_PER_SOL = 2
    SOLANA_DOLLAR_VALUE = 2
    SOLANA_DOLLAR_CAP_PER_EPOCH = 20
    SOLANA_POST_INSTANT_CAP_AWAITING_TIME_SECONDS = 2
    SOLANA_WHITELISTED_TOKENS <- NoPrices
    TokenUnit = 1
    BridgeProofNonce = {0}
    Amount = {1, 2}
    Gas = {0, 1}
    InstructionIndex = {"this"}
    MaxInstructions = 1
    MaxStray = 0
    MaxNonce = 1
    Script <- AllScript
    GUARDIAN_KEYPAIRS <- ToAdd
    RemovedKeypairs <- ToRemove
    GUARDIAN_THRESHOLD = 2
    InputSigs <- ToSign
    SENDER = u1
    RECIPIENT = u2
    SOLANA_MINT = t
    SOLAYER_MINT = l
    BRIDGE_AMOUNT <- BridgeAmount
    ADDITIONAL_SOL_GAS = 1
    FEE_VAULT = v1
    SOLANA_MINT_FOR_DELETE = d1
    Repeated <- SolAnswers
    MaxSent = 2
SPECIFICATION ScriptsFairSpec
INVARIANTS
    ListsAsScripted
    Backed
    FeesReachVault
PROPERTIES
    ImplementsTransfer
    SolFlowPaid
CHECK_DEADLOCK FALSE
