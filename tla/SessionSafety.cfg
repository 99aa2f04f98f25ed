SPECIFICATION Spec
CONSTANTS
    NumSessions = 2
    MaxAttempts = 2
INVARIANTS
    SlotExclusive
    NoUseAfterDelete
    RecoveryOfferValid
    RecoverySnapshotFresh
PROPERTIES
    ImplementsStreamTurns
    TerminationKeepsHost
    ReplaceKeepsHost
