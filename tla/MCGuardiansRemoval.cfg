\* A guardian is removed while a record is open: three guardians, threshold 2.
CONSTANTS
    g1 = g1
    g2 = g2
    g3 = g3
    m1 = m1
    Guardian = {g1, g2, g3}
    Message = {m1}
    MAX_GUARDIAN_COUNT = 3
    MAX_GUARDIAN_SIGNATURES = 3
    MaxTime = 0
    InstructionIndex = {"this"}
SPECIFICATION GuardiansSpec
PROPERTIES
    ThresholdOfGuardians
