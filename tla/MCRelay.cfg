\* Up to two transactions under way, with sizes that make offsets exceed one byte.
CONSTANTS
    g1 = g1
    g2 = g2
    m1 = m1
    Guardian = {g1, g2}
    Message = {m1}
    MAX_GUARDIAN_COUNT = 2
    MAX_GUARDIAN_SIGNATURES = 2
    MaxTime = 0
    MaxSent = 2
    InstructionIndex = {"this", "other"}
    ClientData <- OneSignature
    PUBKEY_SERIALIZED_SIZE = 100
    SIGNATURE_SERIALIZED_SIZE = 200
    MESSAGE_DATA_SIZE = 100
SPECIFICATION RelayFairSpec
INVARIANTS
    SentTypeOK
    SignaturesReadBack
PROPERTIES
    GuardiansSpec
    IndexesNameTheSigners
    CollectableReachesQuorum
