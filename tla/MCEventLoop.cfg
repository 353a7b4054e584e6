SPECIFICATION EventLoopFairSpec
CONSTANTS
    Replicas <- MCReplicas
    Byzantine = {}
    Weight <- MCWeight
    Nil = Nil
    Blocks = {0, 1, 2}
    Root = 0
    Views <- MCViews
    TimeoutViews = {1, 2}
    BlockView <- MCBlockView
    BlockQC <- MCBlockQC
    BlockTC <- MCBlockTC
    LeaderForView <- MCLeaderForView
    MinReplicaTimeout = 10
    MaxReplicaTimeout = 11
    TimeoutAdjustmentFactor <- MCFactor
    HappyPathMaxRoundFailures = 0
    Submissions <- MCSubmissions
    QueueCapacity = 1
    MaxConcurrent = 2
    MaxTicks <- MCMaxTicks
INVARIANTS
    NoEarlyTimeout
    TimeoutsHavePriority
    BackoffIsTruncated
PROPERTIES
    TrackersAreRegisters
    EventsTakeEffect
CHECK_DEADLOCK FALSE
