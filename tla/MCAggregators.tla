--------------------------- MODULE MCAggregators ---------------------------
(***************************************************************************)
(* As the two aggregators share nothing, a behaviour of theirs is checked  *)
(* with one of them running.  Votes: two workers; a block and a vote for   *)
(* view 1, and a vote for view 2.  Timeouts: two workers; two timeouts for *)
(* view 1, and one for view 2, which is beyond the known epochs.           *)
(***************************************************************************)
EXTENDS Aggregators, TLC

CONSTANTS block1, vote1, vote2, to1, to2, to3, w1, w2

MCViews == 0 .. 2
MCView == (block1 :> 1) @@ (vote1 :> 1) @@ (vote2 :> 2)
MCTimeoutView == (to1 :> 1) @@ (to2 :> 1) @@ (to3 :> 2)

VARIABLE subject    \* the aggregator that runs: "votes" or "timeouts"

MCInit == AggregatorsInit /\ subject \in {"votes", "timeouts"}

MCNext ==
    /\ \/ subject = "votes" /\ VotesStep
       \/ subject = "timeouts" /\ TimeoutsStep
    /\ UNCHANGED subject

MCSpec ==
    /\ MCInit /\ [][MCNext]_<<subject, vaVars, toVars>>
    /\ VoteAggregatorFairness
    /\ TA!TimeoutAggregatorFairness
=============================================================================
