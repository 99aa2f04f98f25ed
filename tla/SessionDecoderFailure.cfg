SPECIFICATION Spec
CONSTANTS
    NumSessions = 1
    MaxAttempts = 1
PROPERTIES
    DecoderFailureKeepsHost
