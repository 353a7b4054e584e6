---------------------------- MODULE MCEventLoop ----------------------------
(***************************************************************************)
(* Certificates for views 1 to 3 that are submitted concurrently, in any   *)
(* order: two TCs for one view, one with an older and one with a newer QC, *)
(* that QC itself, a proposal that carries a QC and a TC, a partial TC.    *)
(***************************************************************************)
EXTENDS EventLoop, TLC

\* Block 2 of view 2 extends the root with a TC for view 1.
MCBlockView == [b \in 0 .. 2 |-> b]
MCBlockQC == [b \in 0 .. 2 |-> 0]
MCBlockTC == [b \in 0 .. 2 |-> IF b = 2 THEN [View |-> 1, NewestQC |-> 0] ELSE Nil]
MCViews == 0 .. 3
MCLeaderForView == [v \in MCViews |-> "r"]
MCReplicas == {"r"}
MCWeight == [x \in MCReplicas |-> 1]

\* The timer of view 1 may expire while its last tick is still buffered.
MCMaxTicks == [v \in MCViews |-> IF v = 1 THEN 2 ELSE 1]

\* The factor of NewDefaultConfig, 1.2
MCFactor == <<6, 5>>

TC(view, qc) == [View |-> view, NewestQC |-> qc]

MCSubmissions ==
    {[kind |-> "qc", item |-> 1],
     [kind |-> "tc", item |-> TC(2, 0)], [kind |-> "tc", item |-> TC(2, 1)],
     [kind |-> "partial", item |-> [View |-> 2, NewestQC |-> 1, LastViewTC |-> Nil]],
     [kind |-> "proposal", item |-> 2]}
=============================================================================
