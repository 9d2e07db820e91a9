\* Three guardians, lists of up to three, records of up to two signatures.
CONSTANTS
    g1 = g1
    g2 = g2
    g3 = g3
    m1 = m1
    m2 = m2
    Guardian = {g1, g2, g3}
    Message = {m1, m2}
    MAX_GUARDIAN_COUNT = 3
    MAX_GUARDIAN_SIGNATURES = 2
    MaxTime = 1
    InstructionIndex = {"this", "other"}
SPECIFICATION GuardiansSpec
SYMMETRY Symmetry
INVARIANTS
    TypeOK
    ThresholdWithinList
    RecordsNameSigners
PROPERTIES
    QuorumBacksPayout
    MajorityLostByAddingOnly
    RestartsBringNewSigner
