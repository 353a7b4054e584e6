SPECIFICATION JobQueueFairSpec
CONSTANTS
    p1 = p1
    p2 = p2
    Nobody = Nobody
    Publishers = {p1, p2}
    MaxJobs = 3
    MaxProcessing = 2
    MaxSearchAhead = 3
    MaxRestarts = 0
    MaxFailures = 0
PROPERTY
    JobsAreProcessed
CHECK_DEADLOCK FALSE
