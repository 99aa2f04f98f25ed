SPECIFICATION FairSpec
CONSTANTS
    MAX_QUEUED_FRAMES = 3
    DisplayFps = 2
    MaxVideoFps = 2
    NumFrames = 4
INVARIANTS
    FrameOwnership
    ContextSafe
    NoLostWakeup
    EveryFrameHasEvent
PROPERTIES
    ImplementsChannel
    DestructorReturns
    EveryFrameReleased
