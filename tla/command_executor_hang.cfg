SPECIFICATION CommandSpec
CONSTANTS
    CommandTimeout = 10
PROPERTIES
    CommandReturns
