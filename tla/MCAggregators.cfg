SPECIFICATION MCSpec
CONSTANTS
    block1 = block1
    vote1 = vote1
    vote2 = vote2
    to1 = to1
    to2 = to2
    to3 = to3
    w1 = w1
    w2 = w2
    Nil = Nil
    Votes = {vote1, vote2}
    Proposals = {block1}
    View <- MCView
    Timeouts = {to1, to2, to3}
    TimeoutView <- MCTimeoutView
    KnownViews = {0, 1}
    Workers = {w1, w2}
    QueueCapacity = 1
    Views <- MCViews
INVARIANTS
    MessagesMeetInOneCollector
PROPERTIES
    QueuedMessagesAreProcessed
    PruningsCatchUp
CHECK_DEADLOCK FALSE
