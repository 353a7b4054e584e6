------------------------------- MODULE Forks -------------------------------
(***************************************************************************)
(* consensus/hotstuff/forks/forks.go: the tree of pending blocks above the *)
(* latest finalized block, and Jolteon's finalization rule.  The state of  *)
(* Forks is a record of the blocks in the levelled forest, the latest      *)
(* finalized block, and whether an operation has ended in an exception     *)
(* (missing parent, Byzantine threshold exceeded, corrupted state).        *)
(***************************************************************************)
EXTENDS BlockTree

ForksType == [blocks : SUBSET Blocks, finalized : Blocks, failed : BOOLEAN]

NewForks(trustedRoot) ==
    [blocks |-> {trustedRoot}, finalized |-> trustedRoot, failed |-> FALSE]

FinalizedView(f) == BlockView[f.finalized]

IsProcessingNeeded(f, b) == BlockView[b] >= FinalizedView(f) /\ b \notin f.blocks

\* Condition 3 with its exclusions (ii) and (iii); conditions 1 and 2 hold of
\* every block by its constant content.
EnsureBlockIsValidExtension(f, b) ==
    \/ BlockView[b] <= FinalizedView(f)
    \/ BlockView[BlockQC[b]] < FinalizedView(f)
    \/ BlockQC[b] \in f.blocks

\* A known child of another block of the QC's view carries a conflicting QC.
checkForConflictingQCs(f, qc) ==
    ~ \E child \in f.blocks \ {Root} :
        /\ BlockQC[child] \in f.blocks
        /\ BlockView[BlockQC[child]] = BlockView[qc]
        /\ BlockQC[child] # qc

checkForByzantineEvidence(f, b) ==
    /\ EnsureBlockIsValidExtension(f, b)
    /\ checkForConflictingQCs(f, BlockQC[b])

\* The blocks on the path from the block of the given QC down to the latest
\* finalized view are known and the path ends in the latest finalized block.
collectBlocksForFinalization(f, qc) ==
    \/ BlockView[qc] = FinalizedView(f)
    \/ /\ BlockView[qc] > FinalizedView(f)
       /\ {a \in Ancestors[qc] : BlockView[a] > FinalizedView(f)} \subseteq f.blocks
       /\ f.finalized \in Ancestors[qc]

\* Mutant: the certified block itself is finalized.
FinalizeCertified(f, certifiedBlock) ==
    IF BlockView[certifiedBlock] <= FinalizedView(f) THEN f
    ELSE [f EXCEPT !.blocks = {b \in @ : BlockView[b] >= BlockView[certifiedBlock]},
                   !.finalized = certifiedBlock]

\* Finalize the parent of a certified block of the next view, and prune.
checkForAdvancingFinalization(f, certifiedBlock) ==
    LET parent   == BlockQC[certifiedBlock]
        relevant == /\ BlockView[certifiedBlock] > FinalizedView(f)
                    /\ BlockView[parent] >= FinalizedView(f)
        direct   == BlockView[parent] + 1 = BlockView[certifiedBlock]
        corrupt  == \/ parent \notin f.blocks
                    \/ direct /\ ~collectBlocksForFinalization(f, parent)
        pruned   == {b \in f.blocks : BlockView[b] >= BlockView[parent]}
    IN  CASE relevant /\ corrupt -> [f EXCEPT !.failed = TRUE]
          [] relevant /\ ~corrupt /\ direct ->
                [f EXCEPT !.blocks = pruned, !.finalized = parent]
          [] OTHER -> f

\* A proposal certifies its parent.
AddValidatedBlock(f, b) ==
    LET g == [f EXCEPT !.blocks = @ \cup {b}]
    IN  CASE ~IsProcessingNeeded(f, b) -> f
          [] IsProcessingNeeded(f, b) /\ ~checkForByzantineEvidence(f, b) ->
                [f EXCEPT !.failed = TRUE]
          [] OTHER -> IF BlockQC[b] \in g.blocks
                         THEN checkForAdvancingFinalization(g, BlockQC[b])
                         ELSE g

\* A block together with the QC that certifies it.
AddCertifiedBlock(f, b) ==
    CASE ~IsProcessingNeeded(f, b) -> f
      [] /\ IsProcessingNeeded(f, b)
         /\ ~checkForByzantineEvidence(f, b) \/ ~checkForConflictingQCs(f, b) ->
            [f EXCEPT !.failed = TRUE]
      [] OTHER -> checkForAdvancingFinalization([f EXCEPT !.blocks = @ \cup {b}], b)

\* recovery.ForksState: ingest all pending blocks, older views first.
RecoverForks(trustedRoot, pending) ==
    LET ingest[S \in SUBSET pending] ==
            IF S = {} THEN NewForks(trustedRoot)
                      ELSE AddValidatedBlock(ingest[S \ {NewestOf(S)}], NewestOf(S))
    IN  ingest[pending]
=============================================================================
