---------------------------- MODULE PendingTree ----------------------------
(***************************************************************************)
(* engine/common/follower/pending_tree: the certified blocks above the     *)
(* latest finalized block, and which of them are connected to it.  The     *)
(* tree is a record of the blocks in the levelled forest (vertices), those *)
(* marked connectedToFinalized, lastFinalizedID and the forest's           *)
(* LowestLevel.  An operation also yields the newly connected blocks       *)
(* (output) and whether it has returned an error (failed).                 *)
(***************************************************************************)
EXTENDS BlockTree, Sequences

NewPendingTree(finalized) ==
    [vertices |-> {}, connected |-> {}, lastFinalized |-> finalized,
     LowestLevel |-> BlockView[finalized], output |-> {}, failed |-> FALSE]

connectsToFinalizedBlock(t, b) ==
    BlockQC[b] = t.lastFinalized \/ BlockQC[b] \in t.connected

\* The descendants of b that hang on it by vertices of the tree, and b.
Subtree(t, b) ==
    {v \in t.vertices : b \in Ancestors[v]
                        /\ Ancestors[v] \ Ancestors[b] \subseteq t.vertices}

\* Mutant: only the block itself is connected, not the blocks waiting for it.
updateWithoutDescendants(t, b) ==
    [t EXCEPT !.connected = @ \cup {b}, !.output = @ \cup {b}]

\* Mark the subtree of b as connected; the blocks that were not are the output.
updateAndCollectFork(t, b) ==
    IF b \in t.connected THEN t
    ELSE [t EXCEPT !.connected = @ \cup Subtree(t, b),
                   !.output = @ \cup (Subtree(t, b) \ t.connected)]

\* One iteration of AddBlocks.
AddBlock(t, b) ==
    LET sameView == {v \in t.vertices : BlockView[v] = BlockView[b]}
        added    == [t EXCEPT !.vertices = @ \cup {b}]
    IN  CASE t.failed \/ BlockView[b] <= t.LowestLevel \/ b \in sameView -> t
          [] ~t.failed /\ BlockView[b] > t.LowestLevel /\ sameView \ {b} # {} ->
                [t EXCEPT !.failed = TRUE]
          [] OTHER -> IF connectsToFinalizedBlock(added, b)
                         THEN updateAndCollectFork(added, b)
                         ELSE added

\* PendingTree.AddBlocks: the output is a list in which parents come before
\* their children, here the set of the blocks in it.
AddCertifiedBlocks(t, certifiedBlocks) ==
    LET added[i \in 0 .. Len(certifiedBlocks)] ==
            IF i = 0 THEN [t EXCEPT !.output = {}]
                     ELSE AddBlock(added[i - 1], certifiedBlocks[i])
    IN  added[Len(certifiedBlocks)]

\* The subtrees of two children have no block in common, so the order in which
\* the loop visits the children makes no difference.
FinalizeFork(t, finalized) ==
    LET keep   == {v \in t.vertices : BlockView[v] >= BlockView[finalized]}
        pruned == [t EXCEPT !.vertices = keep, !.connected = @ \cap keep,
                            !.lastFinalized = finalized,
                            !.LowestLevel = BlockView[finalized], !.output = {}]
        children == {v \in keep : BlockQC[v] = finalized}
        visited  == {updateAndCollectFork(pruned, v) : v \in children}
    IN  IF BlockView[finalized] < t.LowestLevel THEN [t EXCEPT !.output = {}]
        ELSE [pruned EXCEPT !.connected = @ \cup UNION {u.connected : u \in visited},
                            !.output = UNION {u.output : u \in visited}]
=============================================================================
