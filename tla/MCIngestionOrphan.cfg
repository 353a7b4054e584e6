SPECIFICATION IngestionSpec
CONSTANTS
    c1 = c1
    NoBlock = NoBlock
    Blocks <- MCBlocks
    Root = "root"
    Parent <- MCParent
    Height <- MCHeight
    Guarantees <- MCGuarantees
    Collections = {c1}
    MaxConcurrentBlockExecutor = 2
    CatchUpThreshold = 1
    MaxCrashes = 0
INVARIANT
    MissingParentIsExecuted
CHECK_DEADLOCK FALSE
