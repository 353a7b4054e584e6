SPECIFICATION JobQueueFairSpec
CONSTANTS
    p1 = p1
    p2 = p2
    Nobody = Nobody
    Publishers = {p1, p2}
    MaxJobs = 4
    MaxProcessing = 2
    MaxSearchAhead = 3
    MaxRestarts = 1
    MaxFailures = 1
INVARIANTS
    LimitsHold
    OneGoroutinePerJob
PROPERTIES
    NoJobIsSkipped
    JobsAreProcessedUnlessSkipped
CHECK_DEADLOCK FALSE
