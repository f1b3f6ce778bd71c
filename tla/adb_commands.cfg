SPECIFICATION AdbSpec
CONSTANTS
    Timeout = 6
    CommandTimeout = 6
INVARIANTS
    AdbTypeOK
PROPERTIES
    RunReturns
    SuccessStands
    CommandReturns
