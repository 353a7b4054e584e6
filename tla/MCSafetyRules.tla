--------------------------- MODULE MCSafetyRules ---------------------------
(***************************************************************************)
(* A small universe of blocks for model checking SafetyRules.  A block is  *)
(* identified by its content: view, parent, TC and a tag that tells two    *)
(* payloads apart.                                                         *)
(***************************************************************************)
EXTENDS SafetyRules, Sequences, TLC

CONSTANTS MaxView,    \* views are 0 (the root's) to MaxView
          TwoTags,    \* views in which two payloads are considered
          h1, h2, h3, byz

MCReplicas == {h1, h2, h3, byz}
MCByzantine == {byz}
MCWeight == [r \in MCReplicas |-> 1]
MCViews == 0 .. MaxView

\* The blocks of view v: one per older block and tag.
RECURSIVE BlocksUpTo(_)
BlocksUpTo(v) ==
    IF v = 0 THEN <<[view |-> 0, qc |-> 1, tag |-> 1]>>
    ELSE LET older == BlocksUpTo(v - 1)
             tags  == IF v \in TwoTags THEN 2 ELSE 1
             block(k) == [view |-> v, qc |-> ((k - 1) \div tags) + 1, tag |-> k % tags]
         IN  older \o [k \in 1 .. tags * Len(older) |-> block(k)]

BlockTable == BlocksUpTo(MaxView)

MCBlocks == DOMAIN BlockTable
MCRoot == 1
MCBlockView == [i \in MCBlocks |-> BlockTable[i].view]
MCBlockQC == [i \in MCBlocks |-> BlockTable[i].qc]

\* A block that skips views carries the TC that is easiest to come by: one
\* whose newest QC is the block's own.
MCBlockTC ==
    [i \in MCBlocks |->
        IF MCBlockView[i] <= MCBlockView[MCBlockQC[i]] + 1
           THEN Nil
           ELSE [View |-> MCBlockView[i] - 1, NewestQC |-> MCBlockQC[i]]]

\* View 2 has an honest leader, the other views a Byzantine one.
MCLeaderForView == [v \in MCViews |-> IF v = 2 THEN h1 ELSE byz]

MCSymmetry == Permutations({h2, h3})
=============================================================================
