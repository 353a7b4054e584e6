SPECIFICATION FollowerFairSpec
CONSTANTS
    Replicas = {"a"}
    Byzantine = {}
    Weight <- MCWeight
    Nil = Nil
    Blocks <- MCBlocks
    Root = 0
    Views = {0, 1, 2, 3, 4, 5}
    TimeoutViews = {}
    BlockView <- MCBlockView
    BlockQC <- MCBlockQC
    BlockTC <- MCBlockTC
    LeaderForView <- MCLeader
    Batches <- MCBatches
    RangesCapacity = 1
    FinalizedCapacity = 1
    FollowerCapacity = 1
    MaxCrashes = 1
INVARIANTS
    NoFollowerException
CHECK_DEADLOCK FALSE
PROPERTIES
    CertifiedBlocksReachForks
    FinalityReachesCore
