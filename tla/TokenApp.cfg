SPECIFICATION Spec
CONSTANTS
    Requests = {r1, r2, r3}
    Startup = startup
    None = none
    Error = error
    MaxTokens = 4
INVARIANTS
    TypeOK
    OwnToken
    ErrorsJustified
PROPERTY
    Answered
CHECK_DEADLOCK FALSE
