CONSTANTS
    Files <- MCFiles
    Dict <- MCDict
    Selectors <- MCSelectors
    ReadMax = 512
SPECIFICATION Spec
CHECK_DEADLOCK FALSE
INVARIANT TypeOK
INVARIANT OutputIsSelection
INVARIANT ElementReadIsWritten
INVARIANT ExitStatusReportsTag
PROPERTY Termination
