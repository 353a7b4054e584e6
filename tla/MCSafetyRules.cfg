SPECIFICATION SafetyRulesSpec
CONSTANTS
    h1 = h1
    h2 = h2
    h3 = h3
    byz = byz
    Nil = Nil
    MaxView = 3
    TwoTags = {1}
    NonMembers = {}
    Ejected = {}
    TimeoutViews = {1, 2}
    Replicas <- MCReplicas
    Byzantine <- MCByzantine
    Weight <- MCWeight
    Views <- MCViews
    Blocks <- MCBlocks
    Root <- MCRoot
    BlockView <- MCBlockView
    BlockQC <- MCBlockQC
    BlockTC <- MCBlockTC
    LeaderForView <- MCLeaderForView
INVARIANTS
    AtMostOneCertifiedBlockPerView
    CertifiedExtendsFinalized
    TimeoutsRespectLock
CHECK_DEADLOCK FALSE
SYMMETRY MCSymmetry
