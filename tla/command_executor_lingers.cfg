SPECIFICATION CommandSpec
CONSTANTS
    CommandTimeout = 10
INVARIANTS
    NothingWaitsAfterExit
