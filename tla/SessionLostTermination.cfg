SPECIFICATION FairSpec
CONSTANTS
    NumSessions = 1
    MaxAttempts = 2
PROPERTIES
    DeadStreamEnds
