CONSTANTS
    NumReleases = 2
    MaxJobs = 2
    MaxRestarts = 1
SPECIFICATION Spec
INVARIANTS NothingToOverwrite DurableDownload FaithfulUnlessClobbered NoCheckStuck
CHECK_DEADLOCK FALSE
PROPERTY ImplementsSharedCheck
