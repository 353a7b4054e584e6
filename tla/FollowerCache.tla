--------------------------- MODULE FollowerCache ---------------------------
(***************************************************************************)
(* engine/common/follower/cache: the cache of blocks that are not known to *)
(* be certified yet.  The cache is a record of the blocks in it (backend   *)
(* with its indices byView and byParent, which always agree) and the       *)
(* pruning threshold lowestView.  A block is certified once the cache has  *)
(* seen one of its children, because the child carries the QC.             *)
(***************************************************************************)
EXTENDS BlockTree, Sequences, Functions

NewCache == [blocks |-> {}, lowestView |-> 0]

\* Only the blocks at the beginning of the batch are dropped.
trimLeadingBlocksBelowPruningThreshold(c, batch) ==
    LET above == {i \in DOMAIN batch : BlockView[batch[i]] >= c.lowestView}
        first == CHOOSE i \in above : \A j \in above : i <= j
    IN  IF above = {} THEN <<>> ELSE SubSeq(batch, first, Len(batch))

\* The batch with the parent of its first block and a child of its last block,
\* where they were in the cache.
Extended(c, batch, child) ==
    (IF BlockQC[Head(batch)] \in c.blocks THEN <<BlockQC[Head(batch)]>> ELSE <<>>)
        \o batch \o child

\* Mutant: children received before their parent are not looked for.
noBatchChildren(c, batch) == {<<>>}

\* Any one cached child of the last block, as a list of at most one block.
batchChildren(c, batch) ==
    LET children == {b \in c.blocks \ {Root} : BlockQC[b] = batch[Len(batch)]}
    IN  IF children = {} THEN {<<>>} ELSE {<<b>> : b \in children}

\* The cache after unsafeAtomicAdd, and what AddBlocks returns: all blocks of
\* the extended batch but the last are certified by their successor; nothing is
\* returned if all blocks were known.
unsafeAtomicAdd(c, batch) ==
    [c EXCEPT !.blocks = @ \cup Range(batch)]

certifiedBatch(c, batch, child) ==
    LET extended == Extended(c, batch, child)
    IN  IF Range(batch) \subseteq c.blocks THEN <<>>
        ELSE SubSeq(extended, 1, Len(extended) - 1)

\* The cache removes the views from the previous threshold on, or looks at all
\* views it holds if those are fewer.
PruneUpToView(c, view) ==
    LET views   == {BlockView[b] : b \in c.blocks}
        visited == IF Cardinality(views) < view - c.lowestView
                      THEN {v \in views : v < view}
                      ELSE {v \in views : c.lowestView <= v /\ v < view}
    IN  IF c.lowestView >= view THEN c
        ELSE [blocks |-> {b \in c.blocks : BlockView[b] \notin visited},
              lowestView |-> view]
=============================================================================
