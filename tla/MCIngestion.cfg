SPECIFICATION IngestionFairSpec
CONSTANTS
    c1 = c1
    NoBlock = NoBlock
    Blocks <- MCBlocks
    Root = "root"
    Parent <- MCParent
    Height <- MCHeight
    Guarantees <- MCGuarantees
    Collections = {c1}
    MaxConcurrentBlockExecutor = 3
    CatchUpThreshold = 1
    MaxCrashes = 1
INVARIANTS
    OnlyOrphansStopTheNode
    QueueIsConsistent
    ExecutablesAreDispatched
    ExecutedOnce
PROPERTY
    EveryBlockIsExecuted
CHECK_DEADLOCK FALSE
