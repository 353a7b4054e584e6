SPECIFICATION Spec
CONSTANTS
    h1 = h1
    h2 = h2
    byz = byz
    Nil = Nil
    MaxView = 3
    TwoTags = {3}
    MaxRestarts = 2
    Participants = {h1}
    NonMembers <- JoinsInView2
    Ejected <- EjectedAtTag
    TimeoutViews = {1, 2}
    Leaders <- OneLeader
    Replicas = {h1, h2, byz}
    Byzantine = {byz}
    Weight <- MCWeight
    Views <- MCViews
    Blocks <- MCBlocks
    Root <- MCRoot
    BlockView <- MCBlockView
    BlockQC <- MCBlockQC
    BlockTC <- MCBlockTC
    LeaderForView <- MCLeaderForView
INVARIANTS
    NoException
    SafetyDataWithinLivenessData
    NoProposalEquivocation
    EvidenceForCurrentView
    ForksFinalizesAgreedBlocks
PROPERTIES
    NothingMovesBackwards
CHECK_DEADLOCK FALSE
