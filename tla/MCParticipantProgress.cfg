SPECIFICATION FairSpec
CONSTANTS
    h1 = h1
    h2 = h2
    byz = byz
    Nil = Nil
    MaxView = 2
    TwoTags = {}
    MaxRestarts = 1
    Participants = {h1, h2}
    NonMembers = {}
    Ejected = {}
    TimeoutViews = {1, 2}
    Leaders <- TwoLeaders
    Replicas = {h1, h2, byz}
    Byzantine = {byz}
    Weight <- BothNeeded
    Views <- MCViews
    Blocks <- MCBlocks
    Root <- MCRoot
    BlockView <- MCBlockView
    BlockQC <- MCBlockQC
    BlockTC <- MCBlockTC
    LeaderForView <- MCLeaderForView
PROPERTIES
    SafetyRulesSpec
    EveryViewEnds
CHECK_DEADLOCK FALSE
