CONSTANTS
    MaxRetry = 10
    DhcpAnswers = TRUE
SPECIFICATION FairSpec
INVARIANTS
    TypeOK
    NeverForgotten
    FailedIsFinal
PROPERTIES
    InitReturns
    JoinsSteadyAp
