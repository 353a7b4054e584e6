SPECIFICATION VoteCollectorFairSpec
CONSTANTS
    leader = leader
    r1 = r1
    r2 = r2
    r3 = r3
    p1 = p1
    p2 = p2
    NoVote = NoVote
    Replicas <- MCReplicas
    Byzantine = {leader}
    Weight <- MCWeight
    Leader = leader
    Votes <- MCVotes
    Received <- MCReceived
    Deliveries = 1
    Proposals = {p1, p2}
    ProposerVote <- MCProposerVote
    Scenarios <- MCScenarios
    MinShares = 2
INVARIANTS
    QCsAreValid
    AtMostOneQC
    EquivocationIsReported
PROPERTIES
    QCIsCreated
CHECK_DEADLOCK FALSE
