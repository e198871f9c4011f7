CONSTANTS
    MaxRetry = 2
    DhcpAnswers = TRUE
SPECIFICATION FairSpec
PROPERTY ReconnectsAfterOutage
