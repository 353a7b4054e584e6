-------------------------- MODULE MCVoteCollector --------------------------
(***************************************************************************)
(* Four replicas, and two views: one of the main consensus and one of a    *)
(* cluster with an equivocating leader.                                    *)
(***************************************************************************)
EXTENDS VoteCollector, TLC

CONSTANTS leader, r1, r2, r3, p1, p2

MCReplicas == {leader, r1, r2, r3}
MCWeight == (leader :> 2) @@ (r1 :> 4) @@ (r2 :> 1) @@ (r3 :> 1)

Vote(r, b, sig) == [SignerID |-> r, BlockID |-> b, Sig |-> sig]

MCProposerVote == (p1 :> Vote(leader, "b1", "staking")) @@ (p2 :> Vote(leader, "b2", "staking"))

\* Main consensus, with one proposal: a QC needs the weight of the leader and
\* r1, and the beacon shares of r1 and r2.  The signature of r3 is invalid.
VotesForOne ==
    {Vote(r1, "b1", "staking+beacon"), Vote(r2, "b1", "staking+beacon"), Vote(r3, "b1", "invalid")}

\* A cluster, whose leader proposes two blocks and votes for one of them with
\* a message of its own; the votes of leader and r1 make a quorum.
VotesForTwo ==
    {Vote(leader, "b2", "staking"), Vote(r1, "b1", "staking")}

MCReceived == VotesForOne \cup VotesForTwo
MCVotes == MCReceived \cup {MCProposerVote[p1]}

MCScenarios ==
    {[combined |-> TRUE, inputs |-> (VotesForOne \X {1}) \cup {p1}],
     [combined |-> FALSE, inputs |-> (VotesForTwo \X {1}) \cup {p1, p2}]}
=============================================================================
