---------------------------- MODULE MCFollower ----------------------------
EXTENDS Follower, TLC

\* 0 <- 1 <- 2 <- 9 and 1 <- 3 <- 4 <- 5: block 9 is proposed in the view of
\* block 3, block 2 is certified (by 9) and orphaned.
MCBlockView == (0 :> 0) @@ (1 :> 1) @@ (2 :> 2) @@ (9 :> 3) @@ (3 :> 3) @@ (4 :> 4)
               @@ (5 :> 5)
MCBlockQC == (0 :> 0) @@ (1 :> 0) @@ (2 :> 1) @@ (9 :> 2) @@ (3 :> 1) @@ (4 :> 3)
             @@ (5 :> 4)
MCBlocks == DOMAIN MCBlockView
MCBlockTC == [b \in MCBlocks |-> Nil]
MCLeader == [v \in 0 .. 5 |-> "a"]
MCWeight == [x \in {"a"} |-> 1]
MCBatches == {<<1, 2>>, <<9>>, <<1, 3>>, <<4>>, <<3, 4, 5>>}

\* These blocks are what a committee below the fault threshold can certify.
ASSUME MCConsensusIsSafe == ConsensusIsSafe
=============================================================================
