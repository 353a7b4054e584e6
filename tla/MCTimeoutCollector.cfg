SPECIFICATION TimeoutCollectorFairSpec
CONSTANTS
    r1 = r1
    r2 = r2
    r3 = r3
    byz = byz
    Nil = Nil
    Replicas <- MCReplicas
    Byzantine = {byz}
    Weight <- MCWeight
    View = 4
    Timeouts <- MCTimeouts
INVARIANTS
    TCsAreValid
    PartialTCsAreJustified
    OneTimeEvents
    NoInternalError
PROPERTIES
    TCIsCreated
CHECK_DEADLOCK FALSE
