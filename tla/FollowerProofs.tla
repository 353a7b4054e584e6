--------------------------- MODULE FollowerProofs ---------------------------
(***************************************************************************)
(* Proofs about the consensus follower, for every committee, tree of       *)
(* blocks, set of received batches, capacity of the channels and number of *)
(* crashes: no goroutine of the follower throws, as long as the received   *)
(* certificates are those of a committee that follows SafetyRules.         *)
(***************************************************************************)
EXTENDS Follower, SafetyRulesProofs

(***************************************************************************)
(* The follower: blocks, certificates and the state of each goroutine.     *)
(***************************************************************************)
Certified == CertifiedByChild \cup {Root}

\* What the cache hands on: delivered blocks with a QC.
CertifiedDelivered == Delivered \cap Certified

\* A batch in which every block is the parent of the next one.
IsChain(blocks) ==
    /\ blocks \in Seq(Delivered) /\ blocks # <<>>
    /\ \A i \in 2 .. Len(blocks) : BlockQC[blocks[i]] = blocks[i - 1]

(* Delivered and certified blocks are blocks; only the root has no parent. *)
LEMMA DeliveredBlocks ==
    /\ Delivered \subseteq Blocks \ {Root}
    /\ Certified \subseteq Blocks /\ Root \in Certified
    /\ \A b \in Delivered : BlockQC[b] \in Certified
    /\ FinalizedByChild \subseteq Certified
    /\ \A b \in Blocks : BlockView[b] \in Nat /\ BlockQC[b] \in Blocks
<1>1. \A b \in Blocks : BlockView[b] \in Nat /\ BlockQC[b] \in Blocks
  BY Zenon, BlockTreeAssumption
<1>2. Delivered \subseteq Blocks \ {Root}
  <2> SUFFICES ASSUME NEW s \in Batches, NEW i \in DOMAIN s
               PROVE  s[i] \in Blocks \ {Root}
    BY DEF Delivered, Range
  <2>1. s \in Seq(Blocks \ {Root})
    BY Zenon, BatchesAssumption
  <2> QED
    BY <2>1
<1>3. \A b \in Delivered : BlockQC[b] \in CertifiedByChild
  BY Zenon DEF CertifiedByChild
<1>4. CertifiedByChild \subseteq Blocks
  BY Zenon, <1>1, <1>2 DEF CertifiedByChild
<1>5. FinalizedByChild \subseteq Certified
  BY Zenon, <1>3 DEF FinalizedByChild, Certified
<1> QED
  BY Zenon, <1>1, <1>2, <1>3, <1>4, <1>5, BlockTreeAssumption DEF Certified

(* Ancestors of ancestors are ancestors.                                   *)
LEMMA AncestorsTransitive ==
    ASSUME NEW c \in Blocks, NEW b \in Ancestors[c]
    PROVE  Ancestors[b] \subseteq Ancestors[c]
<1> DEFINE ok(x) == \A y \in Ancestors[x] : Ancestors[y] \subseteq Ancestors[x]
           Bad == {BlockView[x] : x \in {y \in Blocks : ~ok(y)}}
<1>1. SUFFICES ASSUME Bad # {} PROVE FALSE
  BY Zenon
<1>2. \A x \in Blocks : BlockView[x] \in Nat /\ BlockQC[x] \in Blocks
  BY Zenon, BlockTreeAssumption
<1>3. Bad \in SUBSET Nat
  BY Zenon, <1>2
<1>4. PICK n \in Bad : \A m \in Bad : n <= m
  <2> HIDE DEF Bad
  <2> QED
    BY Zenon, <1>1, <1>3, SmallestView
<1>5. PICK x \in Blocks : ~ok(x) /\ BlockView[x] = n
  BY Zenon, <1>4
<1>6. x # Root
  BY Zenon, <1>5, AncestorsEquation
<1>7. /\ BlockQC[x] \in Blocks /\ BlockView[BlockQC[x]] < BlockView[x]
      /\ Ancestors[x] = {x} \cup Ancestors[BlockQC[x]]
  BY Zenon, <1>2, <1>6, AncestorsEquation, BlockTreeAssumption
<1>8. ok(BlockQC[x])
  <2>1. BlockView[BlockQC[x]] \notin Bad
    <3> HIDE DEF Bad
    <3> QED
      BY <1>2, <1>4, <1>5, <1>7
  <2> HIDE DEF ok
  <2> QED
    BY Zenon, <1>7, <2>1
<1> QED
  BY Zenon, <1>5, <1>7, <1>8

(* A proper ancestor is an ancestor of the parent, and is older.           *)
LEMMA ProperAncestors ==
    ASSUME NEW c \in Blocks, NEW b \in Ancestors[c], b # c
    PROVE  c # Root /\ b \in Ancestors[BlockQC[c]] /\ c \notin Ancestors[b]
<1>1. \A x \in Blocks : BlockView[x] \in Nat /\ BlockQC[x] \in Blocks
  BY Zenon, BlockTreeAssumption
<1>2. c # Root /\ b \in Ancestors[BlockQC[c]]
  BY Zenon, AncestorsEquation
<1>3. b \in Blocks /\ BlockView[b] <= BlockView[BlockQC[c]]
  BY Zenon, <1>1, <1>2, AncestorsAreOlder
<1>4. BlockView[BlockQC[c]] < BlockView[c]
  BY Zenon, <1>2, BlockTreeAssumption
<1>5. c \in Ancestors[b] => BlockView[c] <= BlockView[b]
  BY Zenon, <1>3, AncestorsAreOlder
<1> QED
  BY <1>1, <1>2, <1>3, <1>4, <1>5
-----------------------------------------------------------------------------
(***************************************************************************)
(* Forks of a follower.  After a restart Forks may start from a block that *)
(* is finalized only because a descendant is (finalization is persisted    *)
(* block by block): blocks certified in later views need not descend from  *)
(* it, but only its descendants are given to Forks.                        *)
(***************************************************************************)
DescendantsOf(base, blocks) == {b \in blocks : base \in Ancestors[b]}

\* Certified blocks that are no evidence against base.
Agreeing(base) == {c \in Certified : base \in Ancestors[c] \/ BlockView[c] < BlockView[base]}

Trusted(base) == FinalizedByChild \cup {base}

\* The blocks of the protocol state.
SoundStore(blocks) ==
    /\ Root \in blocks /\ blocks \subseteq CertifiedDelivered \cup {Root}
    /\ \A b \in blocks \ {Root} : BlockQC[b] \in blocks
    /\ IsFiniteSet(blocks)

(* The descendants of a certified block satisfy what Forks relies on.      *)
LEMMA FollowerAgreement ==
    ASSUME ConsensusIsSafe, NEW blocks, SoundStore(blocks), NEW base \in blocks
    PROVE  /\ Agreement(DescendantsOf(base, blocks), Agreeing(base), Trusted(base))
           /\ DescendantsOf(base, blocks) \subseteq Agreeing(base)
<1> DEFINE known == DescendantsOf(base, blocks)
           certified == Agreeing(base)
           final == Trusted(base)
<1>1. /\ blocks \subseteq Certified /\ Certified \subseteq Blocks /\ base \in Certified
      /\ blocks \ {Root} \subseteq Delivered
      /\ \A b \in Blocks : BlockView[b] \in Nat /\ BlockQC[b] \in Blocks
      /\ \A b \in blocks \ {Root} : BlockQC[b] \in Certified
  BY Zenon, DeliveredBlocks DEF SoundStore, CertifiedDelivered
<1>2. known \subseteq certified
  BY Zenon, <1>1 DEF DescendantsOf, Agreeing
<1>3. known \subseteq Blocks /\ certified \subseteq Blocks
  BY Zenon, <1>1 DEF DescendantsOf, Agreeing
<1>4. ASSUME NEW b \in known \ {Root} PROVE BlockQC[b] \in certified
  <2>1. b \in Blocks /\ base \in Ancestors[b] /\ BlockQC[b] \in Certified
    BY Zenon, <1>1 DEF DescendantsOf
  <2>2. CASE b = base
    <3>1. BlockView[BlockQC[b]] < BlockView[base]
      BY Zenon, <2>1, <2>2, BlockTreeAssumption
    <3> QED
      BY Zenon, <2>1, <3>1 DEF Agreeing
  <2>3. CASE b # base
    BY Zenon, <2>1, <2>3, ProperAncestors DEF Agreeing
  <2> QED
    BY Zenon, <2>2, <2>3
<1>5. ASSUME NEW c \in (known \cap certified) \ {Root}, BlockView[c] = BlockView[BlockQC[c]] + 1
      PROVE  BlockQC[c] \in final
  <2>1. c \in Delivered \cap CertifiedByChild
    BY Zenon, <1>1 DEF DescendantsOf, Certified
  <2> QED
    BY Zenon, <1>5, <2>1 DEF Trusted, FinalizedByChild
<1>6. \A b, c \in certified : BlockView[b] = BlockView[c] => b = c
  BY Zenon DEF Agreeing, Certified, ConsensusIsSafe
<1>7. ASSUME NEW b \in final, NEW c \in certified, BlockView[b] <= BlockView[c]
      PROVE  b \in Ancestors[c]
  <2>1. c \in Certified /\ (base \in Ancestors[c] \/ BlockView[c] < BlockView[base])
    BY Zenon DEF Agreeing
  <2>2. CASE b \in FinalizedByChild
    BY Zenon, <1>7, <2>1, <2>2 DEF Certified, ConsensusIsSafe
  <2>3. CASE b = base
    BY <1>1, <1>7, <2>1, <2>3
  <2> QED
    BY Zenon, <2>2, <2>3 DEF Trusted
<1> HIDE DEF known, certified, final
<1>8. Agreement(known, certified, final)
  BY Zenon, <1>3, <1>4, <1>5, <1>6, <1>7 DEF Agreement
<1> QED
  BY Zenon, <1>2, <1>8 DEF known, certified, final

(* A certified block whose parent is known, or below the finalized view,   *)
(* can be added to Forks in any state; it finalizes its parent or nothing  *)
(* (AddCertifiedBlock).                                                    *)
LEMMA AddCertifiedBlockIsSound ==
    ASSUME NEW known, NEW certified, NEW final, Agreement(known, certified, final),
           NEW f, SoundForks(f, known, final),
           NEW b \in (known \cap certified) \ {Root}, Has(f, BlockQC[b])
    PROVE  LET g == AddCertifiedBlock(f, b)
           IN  /\ SoundForks(g, known, final)
               /\ Extends(f, g)
               /\ Has(g, b)
               /\ g.finalized # f.finalized =>
                     /\ g.finalized = BlockQC[b]
                     /\ BlockView[b] > FinalizedView(f)
<1> DEFINE g == AddCertifiedBlock(f, b)
           h == [f EXCEPT !.blocks = @ \cup {b}]
<1>1. \A x \in Blocks : BlockView[x] \in Nat /\ BlockQC[x] \in Blocks
  BY Zenon, BlockTreeAssumption
<1>2. /\ f \in ForksType /\ f.failed = FALSE /\ f.blocks \subseteq known /\ IsFiniteSet(f.blocks)
      /\ f.finalized \in f.blocks /\ f.finalized \in final
      /\ \A x \in f.blocks \ {Root} : Has(f, BlockQC[x])
      /\ known \subseteq Blocks /\ b \in Blocks /\ BlockQC[b] \in certified
      /\ FinalizedView(f) \in Nat
  BY Zenon, <1>1 DEF SoundForks, Agreement, FinalizedView
<1>3. CASE ~IsProcessingNeeded(f, b)
  <2>1. g = f
    BY Zenon, <1>3 DEF AddCertifiedBlock
  <2>2. Has(f, b)
    BY <1>1, <1>2, <1>3 DEF IsProcessingNeeded, Has
  <2>3. Extends(f, f)
    BY <1>2 DEF Extends
  <2> QED
    BY Zenon, <2>1, <2>2, <2>3
<1>4. CASE IsProcessingNeeded(f, b)
  <2>1. checkForByzantineEvidence(f, b)
    <3>1. EnsureBlockIsValidExtension(f, b)
      BY Zenon DEF EnsureBlockIsValidExtension, Has
    <3>2. checkForConflictingQCs(f, BlockQC[b])
      BY Zenon, <1>2 DEF checkForConflictingQCs, Agreement
    <3> QED
      BY Zenon, <3>1, <3>2 DEF checkForByzantineEvidence
  <2>2. checkForConflictingQCs(f, b)
    BY Zenon, <1>2 DEF checkForConflictingQCs, Agreement
  <2>3. g = checkForAdvancingFinalization(h, b)
    BY Zenon, <1>4, <2>1, <2>2 DEF AddCertifiedBlock
  <2>4. /\ h \in ForksType /\ h.failed = FALSE /\ h.finalized = f.finalized
        /\ h.blocks = f.blocks \cup {b} /\ IsFiniteSet(h.blocks)
    BY Zenon, <1>2, FS_AddElement DEF ForksType
  <2> HIDE DEF h
  <2>5. FinalizedView(h) = FinalizedView(f)
    BY Zenon, <2>4 DEF FinalizedView
  <2>6. Extends(f, h) /\ Has(h, b)
    BY <1>2, <2>4, <2>5 DEF Extends, Has
  <2>7. SoundForks(h, known, final)
    <3>1. \A x \in h.blocks \ {Root} : Has(h, BlockQC[x])
      BY Zenon, <1>1, <1>2, <2>4, <2>6 DEF Extends
    <3> QED
      BY Zenon, <1>2, <2>4, <3>1 DEF SoundForks
  <2> HIDE DEF g
  <2>8. SoundForks(g, known, final) /\ Extends(h, g)
    <3>1. b \in h.blocks \cap certified
      BY Zenon, <2>4
    <3> QED
      BY Zenon, <2>3, <2>7, <3>1, FinalizationIsSound
  <2>9. g.finalized # f.finalized =>
           g.finalized = BlockQC[b] /\ BlockView[b] > FinalizedView(f)
    BY Zenon, <2>3, <2>4, <2>5 DEF checkForAdvancingFinalization, ForksType
  <2>10. Extends(f, g) /\ Has(g, b)
    <3>1. g \in ForksType
      BY Zenon, <2>8 DEF SoundForks
    <3>2. FinalizedView(g) \in Nat
      BY Zenon, <1>1, <3>1 DEF ForksType, FinalizedView
    <3> QED
      BY Zenon, <1>2, <2>5, <2>6, <2>8, <3>2 DEF Extends
  <2> QED
    BY Zenon, <2>8, <2>9, <2>10 DEF g
<1> QED
  BY Zenon, <1>3, <1>4
-----------------------------------------------------------------------------
(***************************************************************************)
(* The pending tree: `known' are the blocks of the protocol state, `out'   *)
(* those the tree has connected and that are still to be stored.           *)
(***************************************************************************)
TreeType == [vertices : SUBSET CertifiedDelivered, connected : SUBSET CertifiedDelivered,
             lastFinalized : Blocks, LowestLevel : Nat, output : SUBSET CertifiedDelivered,
             failed : BOOLEAN]

SoundTree(t, known, out, base) ==
    /\ t \in TreeType /\ t.failed = FALSE
    /\ t.connected \subseteq t.vertices
    /\ out \subseteq t.connected /\ t.connected \subseteq known \cup out
    /\ t.lastFinalized \in known /\ t.LowestLevel = BlockView[t.lastFinalized]
    /\ base \in Ancestors[t.lastFinalized]
    \* exactly the vertices that hang on the finalized block are connected
    /\ \A v \in t.vertices : connectsToFinalizedBlock(t, v) => v \in t.connected
    /\ \A v \in t.connected :
         /\ connectsToFinalizedBlock(t, v) \/ BlockView[BlockQC[v]] < t.LowestLevel
         /\ BlockQC[v] \in known \cup out
         /\ base \in Ancestors[BlockQC[v]]

(* A subtree contains its root, with every block its parent up to the      *)
(* root, and with every block its children in the tree.                    *)
LEMMA SubtreeIsClosed ==
    ASSUME NEW t, t.vertices \subseteq Blocks \ {Root}, NEW b \in t.vertices
    PROVE  /\ b \in Subtree(t, b) /\ Subtree(t, b) \subseteq t.vertices
           /\ \A v \in Subtree(t, b) : v # b => BlockQC[v] \in Subtree(t, b)
           /\ \A v \in t.vertices : BlockQC[v] \in Subtree(t, b) => v \in Subtree(t, b)
           /\ \A v \in Subtree(t, b) : v # b => b \in Ancestors[BlockQC[v]]
<1> DEFINE hangs(v) == b \in Ancestors[v] /\ Ancestors[v] \ Ancestors[b] \subseteq t.vertices
<1>1. \A v : v \in Subtree(t, b) <=> v \in t.vertices /\ hangs(v)
  BY Zenon DEF Subtree
<1>2. \A v \in t.vertices : v \in Blocks /\ v # Root /\ BlockQC[v] \in Blocks
                            /\ Ancestors[v] = {v} \cup Ancestors[BlockQC[v]]
  BY Zenon, AncestorsEquation, BlockTreeAssumption
<1>3. b \in Subtree(t, b)
  BY Zenon, <1>1, <1>2, AncestorsEquation
<1>4. ASSUME NEW v \in Subtree(t, b), v # b
      PROVE  BlockQC[v] \in Subtree(t, b) /\ b \in Ancestors[BlockQC[v]]
  <2>1. v \in t.vertices /\ hangs(v)
    BY Zenon, <1>1
  <2>2. b \in Ancestors[BlockQC[v]]
    BY Zenon, <1>2, <1>4, <2>1
  <2>3. hangs(BlockQC[v])
    BY <1>2, <2>1, <2>2
  <2>4. BlockQC[v] \in t.vertices
    <3>1. CASE BlockQC[v] = b
      BY Zenon, <3>1
    <3>2. CASE BlockQC[v] # b
      <4>1. BlockQC[v] \notin Ancestors[b]
        BY Zenon, <1>2, <2>1, <2>2, <3>2, ProperAncestors
      <4>2. BlockQC[v] \in Ancestors[v]
        BY ZenonT(60), <1>2, <2>1, AncestorsEquation
      <4> QED
        BY Zenon, <2>1, <4>1, <4>2
    <3> QED
      BY Zenon, <3>1, <3>2
  <2> QED
    BY Zenon, <1>1, <2>2, <2>3, <2>4
<1>5. ASSUME NEW v \in t.vertices, BlockQC[v] \in Subtree(t, b) PROVE v \in Subtree(t, b)
  BY Zenon, <1>1, <1>2, <1>5
<1> QED
  BY Zenon, <1>1, <1>3, <1>4, <1>5

(* Adding one certified block keeps the tree sound: no other certified     *)
(* block has its view, and exactly the blocks that now hang on the         *)
(* finalized block become connected (an iteration of AddBlocks).           *)
LEMMA AddBlockIsSound ==
    ASSUME ConsensusIsSafe, NEW known, known \subseteq Blocks, NEW base \in Blocks,
           NEW t, SoundTree(t, known, t.output, base), NEW b \in CertifiedDelivered
    PROVE  LET g == AddBlock(t, b)
           IN  /\ SoundTree(g, known, g.output, base)
               /\ g.lastFinalized = t.lastFinalized /\ g.LowestLevel = t.LowestLevel
               /\ t.connected \subseteq g.connected
<1> DEFINE g == AddBlock(t, b)
           sameView == {v \in t.vertices : BlockView[v] = BlockView[b]}
           added == [t EXCEPT !.vertices = @ \cup {b}]
           sub == Subtree(added, b)
<1>1. /\ t \in TreeType /\ t.failed = FALSE /\ t.connected \subseteq t.vertices
      /\ t.output \subseteq t.connected /\ t.connected \subseteq known \cup t.output
      /\ t.lastFinalized \in known /\ t.LowestLevel = BlockView[t.lastFinalized]
      /\ base \in Ancestors[t.lastFinalized]
      /\ \A v \in t.vertices : connectsToFinalizedBlock(t, v) => v \in t.connected
      /\ \A v \in t.connected :
           /\ connectsToFinalizedBlock(t, v) \/ BlockView[BlockQC[v]] < t.LowestLevel
           /\ BlockQC[v] \in known \cup t.output
           /\ base \in Ancestors[BlockQC[v]]
  BY Zenon DEF SoundTree
<1>2. /\ CertifiedDelivered \subseteq Blocks \ {Root} /\ CertifiedDelivered \subseteq Certified
      /\ t.vertices \subseteq CertifiedDelivered
      /\ \A x \in Blocks : BlockView[x] \in Nat /\ BlockQC[x] \in Blocks
  BY Zenon, <1>1, DeliveredBlocks DEF CertifiedDelivered, TreeType
<1>3. sameView \subseteq {b}
  BY Zenon, <1>2 DEF Certified, ConsensusIsSafe
<1>4. CASE BlockView[b] <= t.LowestLevel \/ b \in sameView
  <2>1. g = t
    <3>1. sameView \ {b} = {}
      BY Zenon, <1>3
    <3> QED
      BY Zenon, <1>4, <3>1 DEF AddBlock
  <2> QED
    BY Zenon, <2>1
<1>5. CASE ~(BlockView[b] <= t.LowestLevel \/ b \in sameView)
  <2>1. b \notin t.vertices /\ BlockView[b] > t.LowestLevel
    BY <1>1, <1>2, <1>5 DEF TreeType
  <2>2. g = IF connectsToFinalizedBlock(added, b) THEN updateAndCollectFork(added, b) ELSE added
    <3>1. /\ ~(t.failed \/ BlockView[b] <= t.LowestLevel \/ b \in sameView)
          /\ sameView \ {b} = {}
      BY Zenon, <1>1, <1>3, <1>5
    <3> QED
      BY Zenon, <3>1 DEF AddBlock
  <2>3. /\ added \in TreeType /\ added.failed = FALSE /\ added.vertices = t.vertices \cup {b}
        /\ added.connected = t.connected /\ added.output = t.output
        /\ added.lastFinalized = t.lastFinalized /\ added.LowestLevel = t.LowestLevel
    BY Zenon, <1>1 DEF TreeType
  <2>4. \A v : connectsToFinalizedBlock(added, v) <=> connectsToFinalizedBlock(t, v)
    BY Zenon, <2>3 DEF connectsToFinalizedBlock
  <2> HIDE DEF added, g
  <2>5. CASE ~connectsToFinalizedBlock(added, b)
    <3>1. g = added
      BY Zenon, <2>2, <2>5
    <3> QED
      BY Zenon, <1>1, <2>3, <2>4, <2>5, <3>1 DEF SoundTree, g
  <2>6. CASE connectsToFinalizedBlock(added, b)
    <3>1. g = [added EXCEPT !.connected = @ \cup sub, !.output = @ \cup (sub \ added.connected)]
      BY Zenon, <1>1, <2>1, <2>2, <2>3, <2>6 DEF updateAndCollectFork
    <3>2. /\ b \in sub /\ sub \subseteq added.vertices
          /\ \A v \in sub : v # b => BlockQC[v] \in sub
          /\ \A v \in added.vertices : BlockQC[v] \in sub => v \in sub
          /\ \A v \in sub : v # b => b \in Ancestors[BlockQC[v]]
      BY ZenonT(60), <1>2, <2>3, SubtreeIsClosed
    <3> HIDE DEF sub
    <3>3. /\ g \in TreeType /\ g.failed = FALSE /\ g.vertices = added.vertices
          /\ g.connected = t.connected \cup sub /\ g.output = t.output \cup (sub \ t.connected)
          /\ g.lastFinalized = t.lastFinalized /\ g.LowestLevel = t.LowestLevel
      BY Zenon, <2>3, <3>1, <3>2 DEF TreeType
    <3>4. \A v : connectsToFinalizedBlock(g, v) <=> connectsToFinalizedBlock(t, v) \/ BlockQC[v] \in sub
      BY Zenon, <3>3 DEF connectsToFinalizedBlock
    <3>5. /\ BlockQC[b] \in known \cup t.output /\ base \in Ancestors[BlockQC[b]]
          /\ BlockQC[b] = t.lastFinalized \/ BlockQC[b] \in t.connected
      <4>1. BlockQC[b] = t.lastFinalized \/ BlockQC[b] \in t.connected
        BY Zenon, <2>4, <2>6 DEF connectsToFinalizedBlock
      <4>2. CASE BlockQC[b] = t.lastFinalized
        BY Zenon, <1>1, <4>2
      <4>3. CASE BlockQC[b] \in t.connected
        <5>1. /\ BlockQC[b] \in Blocks \ {Root} /\ base \in Ancestors[BlockQC[BlockQC[b]]]
          BY Zenon, <1>1, <1>2, <4>3
        <5>2. base \in Ancestors[BlockQC[b]]
          BY ZenonT(60), <5>1, AncestorsEquation
        <5> QED
          BY Zenon, <1>1, <4>3, <5>2
      <4> QED
        BY Zenon, <4>1, <4>2, <4>3
    <3>6. \A v \in g.vertices : connectsToFinalizedBlock(g, v) => v \in g.connected
      BY <1>1, <2>3, <3>2, <3>3, <3>4
    <3>7. ASSUME NEW v \in g.connected
          PROVE  /\ connectsToFinalizedBlock(g, v) \/ BlockView[BlockQC[v]] < g.LowestLevel
                 /\ BlockQC[v] \in known \cup g.output
                 /\ base \in Ancestors[BlockQC[v]]
      <4>1. CASE v \in t.connected
        BY Zenon, <1>1, <3>3, <3>4, <4>1
      <4>2. CASE v = b
        BY Zenon, <2>4, <2>6, <3>3, <3>4, <3>5, <4>2
      <4>3. CASE v \in sub /\ v # b
        <5>1. BlockQC[v] \in sub /\ b \in Ancestors[BlockQC[v]]
          BY Zenon, <3>2, <4>3
        <5>2. BlockQC[v] \in known \cup g.output
          BY Zenon, <1>1, <3>3, <5>1
        <5>3. base \in Ancestors[b]
          BY ZenonT(60), <1>2, <3>5, AncestorsEquation
        <5>4. base \in Ancestors[BlockQC[v]]
          <6>1. v \in Blocks /\ BlockQC[v] \in Blocks
            BY Zenon, <1>2, <2>3, <3>2, <4>3
          <6> QED
            BY Zenon, <5>1, <5>3, <6>1, AncestorsTransitive
        <5> QED
          BY Zenon, <3>4, <5>1, <5>2, <5>4
      <4> QED
        BY Zenon, <3>3, <4>1, <4>2, <4>3
    <3>8. g.connected \subseteq g.vertices /\ g.output \subseteq g.connected
          /\ g.connected \subseteq known \cup g.output
      BY Zenon, <1>1, <2>3, <3>2, <3>3
    <3> QED
      BY Zenon, <1>1, <3>3, <3>6, <3>7, <3>8 DEF SoundTree, g
  <2> QED
    BY Zenon, <2>5, <2>6
<1> QED
  BY Zenon, <1>4, <1>5

(* AddBlocks adds the blocks one by one: the recursion in it has a         *)
(* solution, built up along the list.                                      *)
LEMMA AddCertifiedBlocksEquation ==
    ASSUME NEW t, NEW list, Len(list) \in Nat
    PROVE  \E a : /\ a = [i \in 0 .. Len(list) |->
                            IF i = 0 THEN [t EXCEPT !.output = {}] ELSE AddBlock(a[i - 1], list[i])]
                  /\ AddCertifiedBlocks(t, list) = a[Len(list)]
<1> DEFINE body(a, i) == IF i = 0 THEN [t EXCEPT !.output = {}] ELSE AddBlock(a[i - 1], list[i])
           solution(n) == \E a : a = [i \in 0 .. n |-> body(a, i)]
           Bad == {n \in Nat : ~solution(n)}
<1> HIDE DEF body
<1>1. Bad = {}
  <2>1. SUFFICES ASSUME Bad # {} PROVE FALSE
    BY Zenon
  <2>2. PICK n \in Bad : \A m \in Bad : n <= m
    <3>1. Bad \in SUBSET Nat
      BY Zenon
    <3> HIDE DEF Bad
    <3> QED
      BY Zenon, <2>1, <3>1, SmallestView
  <2>3. n \in Nat /\ ~solution(n)
    BY Zenon, <2>2
  <2>4. CASE n = 0
    <3> DEFINE a == [i \in 0 .. 0 |-> [t EXCEPT !.output = {}]]
    <3>1. \A i \in 0 .. 0 : body(a, i) = [t EXCEPT !.output = {}]
      BY DEF body
    <3>2. a = [i \in 0 .. 0 |-> body(a, i)]
      BY Zenon, <3>1
    <3> HIDE DEF a
    <3>3. solution(0)
      BY Zenon, <3>2
    <3> QED
      BY Zenon, <2>3, <2>4, <3>3
  <2>5. CASE n # 0
    <3>1. n - 1 \in Nat /\ n - 1 \notin Bad
      <4>1. n - 1 \in Nat /\ ~(n <= n - 1)
        BY <2>3, <2>5
      <4> HIDE DEF Bad
      <4> QED
        BY Zenon, <2>2, <4>1
    <3>2. PICK a : a = [i \in 0 .. n - 1 |-> body(a, i)]
      <4>1. solution(n - 1)
        <5> HIDE DEF solution
        <5> QED
          BY Zenon, <3>1
      <4> QED
        BY Zenon, <4>1
    <3> DEFINE h == [i \in 0 .. n |-> body(a, i)]
    <3>3. ASSUME NEW i \in 0 .. n PROVE body(a, i) = body(h, i)
      <4>1. CASE i = 0
        BY Zenon, <4>1 DEF body
      <4>2. CASE i # 0
        <5>1. i - 1 \in 0 .. n - 1 /\ i - 1 \in 0 .. n
          BY <2>3, <4>2
        <5>2. a[i - 1] = body(a, i - 1) /\ h[i - 1] = body(a, i - 1)
          BY Zenon, <3>2, <5>1
        <5> HIDE DEF h
        <5> QED
          BY Zenon, <5>2 DEF body
      <4> QED
        BY Zenon, <4>1, <4>2
    <3>4. h = [i \in 0 .. n |-> body(h, i)]
      BY Zenon, <3>3
    <3> HIDE DEF h
    <3>5. solution(n)
      BY Zenon, <3>4
    <3> QED
      BY Zenon, <2>3, <3>5
  <2> QED
    BY Zenon, <2>4, <2>5
<1>2. \E a : a = [i \in 0 .. Len(list) |-> body(a, i)]
  BY Zenon, <1>1
<1> DEFINE added == CHOOSE a : a = [i \in 0 .. Len(list) |-> body(a, i)]
<1>3. added = [i \in 0 .. Len(list) |-> body(added, i)]
  BY Zenon, <1>2
<1>4. AddCertifiedBlocks(t, list) = added[Len(list)]
  BY Zenon DEF AddCertifiedBlocks, body
<1> HIDE DEF added
<1> QED
  BY Zenon, <1>3, <1>4 DEF body

(* A range of certified blocks can be added to the tree in any state; the  *)
(* output is what the range has connected (AddBlocks).                     *)
LEMMA AddCertifiedBlocksIsSound ==
    ASSUME ConsensusIsSafe, NEW known, known \subseteq Blocks, NEW base \in Blocks,
           NEW t, SoundTree(t, known, {}, base), NEW list \in Seq(CertifiedDelivered)
    PROVE  LET g == AddCertifiedBlocks(t, list)
           IN  /\ SoundTree(g, known, g.output, base)
               /\ g.lastFinalized = t.lastFinalized /\ g.LowestLevel = t.LowestLevel
               /\ t.connected \subseteq g.connected
<1> DEFINE start == [t EXCEPT !.output = {}]
           Added(g) == /\ SoundTree(g, known, g.output, base)
                       /\ g.lastFinalized = t.lastFinalized /\ g.LowestLevel = t.LowestLevel
                       /\ t.connected \subseteq g.connected
<1>1. Len(list) \in Nat /\ \A i \in 1 .. Len(list) : list[i] \in CertifiedDelivered
  OBVIOUS
<1>2. PICK a : /\ a = [i \in 0 .. Len(list) |-> IF i = 0 THEN start ELSE AddBlock(a[i - 1], list[i])]
               /\ AddCertifiedBlocks(t, list) = a[Len(list)]
  BY Zenon, <1>1, AddCertifiedBlocksEquation
<1>3. \A i \in 0 .. Len(list) : a[i] = IF i = 0 THEN start ELSE AddBlock(a[i - 1], list[i])
  BY Zenon, <1>2
<1>4. Added(start)
  <2>1. /\ start \in TreeType /\ start.failed = FALSE /\ start.vertices = t.vertices
        /\ start.connected = t.connected /\ start.output = {}
        /\ start.lastFinalized = t.lastFinalized /\ start.LowestLevel = t.LowestLevel
    BY Zenon DEF SoundTree, TreeType
  <2> HIDE DEF start
  <2> QED
    BY Zenon, <2>1 DEF SoundTree, connectsToFinalizedBlock
<1>5. ASSUME NEW g, Added(g), NEW b \in CertifiedDelivered PROVE Added(AddBlock(g, b))
  BY ZenonT(60), <1>5, AddBlockIsSound
<1> DEFINE Bad == {i \in 0 .. Len(list) : ~Added(a[i])}
<1>6. SUFFICES ASSUME Bad # {} PROVE FALSE
  <2>1. CASE Bad = {}
    <3>1. Added(a[Len(list)])
      <4> HIDE DEF Added
      <4> QED
        BY <1>1, <2>1
    <3> QED
      BY Zenon, <1>2, <3>1
  <2> QED
    BY Zenon, <2>1
<1> HIDE DEF Added, start
<1>7. PICK n \in Bad : \A m \in Bad : n <= m
  <2>1. Bad \in SUBSET Nat
    OBVIOUS
  <2> HIDE DEF Bad
  <2> QED
    BY Zenon, <1>6, <2>1, SmallestView
<1>8. n \in 0 .. Len(list) /\ n # 0
  BY Zenon, <1>1, <1>3, <1>4, <1>7
<1>9. n - 1 \in 0 .. Len(list) /\ n \in 1 .. Len(list) /\ ~(n <= n - 1)
  BY <1>1, <1>8
<1>10. Added(a[n - 1])
  BY Zenon, <1>7, <1>9
<1>11. a[n] = AddBlock(a[n - 1], list[n])
  BY Zenon, <1>3, <1>8
<1> QED
  BY Zenon, <1>1, <1>5, <1>7, <1>9, <1>10, <1>11

(* Finalizing a connected block, or the latest finalized one again, never  *)
(* connects further blocks, and prunes only blocks of older views.  An     *)
(* older block changes nothing (FinalizeFork).                             *)
LEMMA FinalizeForkIsSound ==
    ASSUME ConsensusIsSafe, NEW known, known \subseteq Certified, NEW base \in Blocks,
           NEW t, SoundTree(t, known, {}, base), NEW f \in known,
           f = t.lastFinalized \/ f \in t.connected \/ BlockView[f] < t.LowestLevel
    PROVE  LET g == FinalizeFork(t, f)
           IN  /\ SoundTree(g, known, {}, base) /\ g.output = {}
               /\ g.LowestLevel = BlockView[f] \/ g.LowestLevel = t.LowestLevel
               /\ \A b \in known :
                     b = t.lastFinalized \/ b \in t.connected \/ BlockView[b] < t.LowestLevel
                  => b = g.lastFinalized \/ b \in g.connected \/ BlockView[b] < g.LowestLevel
<1> DEFINE g == FinalizeFork(t, f)
           keep == {v \in t.vertices : BlockView[v] >= BlockView[f]}
           pruned == [t EXCEPT !.vertices = keep, !.connected = @ \cap keep,
                               !.lastFinalized = f, !.LowestLevel = BlockView[f], !.output = {}]
           children == {v \in keep : BlockQC[v] = f}
           visited == {updateAndCollectFork(pruned, v) : v \in children}
<1>1. /\ t \in TreeType /\ t.failed = FALSE /\ t.connected \subseteq t.vertices
      /\ t.connected \subseteq known
      /\ t.lastFinalized \in known /\ t.LowestLevel = BlockView[t.lastFinalized]
      /\ base \in Ancestors[t.lastFinalized]
      /\ \A v \in t.vertices : connectsToFinalizedBlock(t, v) => v \in t.connected
      /\ \A v \in t.connected :
           /\ connectsToFinalizedBlock(t, v) \/ BlockView[BlockQC[v]] < t.LowestLevel
           /\ BlockQC[v] \in known
           /\ base \in Ancestors[BlockQC[v]]
  BY Zenon DEF SoundTree
<1>2. /\ Certified \subseteq Blocks /\ f \in Blocks
      /\ CertifiedDelivered \subseteq Blocks \ {Root}
      /\ t.vertices \subseteq CertifiedDelivered
      /\ \A x \in Blocks : BlockView[x] \in Nat /\ BlockQC[x] \in Blocks
  BY Zenon, <1>1, DeliveredBlocks DEF CertifiedDelivered, TreeType
<1>3. \A b, c \in Certified : BlockView[b] = BlockView[c] => b = c
  BY Zenon DEF Certified, ConsensusIsSafe
<1>4. CASE BlockView[f] < t.LowestLevel
  <2>1. g = [t EXCEPT !.output = {}]
    BY Zenon, <1>4 DEF FinalizeFork
  <2>2. /\ g \in TreeType /\ g.failed = FALSE /\ g.vertices = t.vertices
        /\ g.connected = t.connected /\ g.output = {}
        /\ g.lastFinalized = t.lastFinalized /\ g.LowestLevel = t.LowestLevel
    BY Zenon, <1>1, <2>1 DEF TreeType
  <2> HIDE DEF g
  <2> QED
    BY Zenon, <1>1, <2>2 DEF SoundTree, connectsToFinalizedBlock, g
<1>5. CASE ~(BlockView[f] < t.LowestLevel)
  <2>1. g = [pruned EXCEPT !.connected = @ \cup UNION {u.connected : u \in visited},
                           !.output = UNION {u.output : u \in visited}]
    BY Zenon, <1>5 DEF FinalizeFork
  <2>2. /\ pruned \in TreeType /\ pruned.failed = FALSE /\ pruned.vertices = keep
        /\ pruned.connected = t.connected \cap keep /\ pruned.output = {}
        /\ pruned.lastFinalized = f /\ pruned.LowestLevel = BlockView[f]
    BY Zenon, <1>1, <1>2 DEF TreeType
  <2> HIDE DEF pruned
  <2>3. children \subseteq pruned.connected
    BY Zenon, <1>1, <1>2, <1>5, <2>2 DEF connectsToFinalizedBlock
  <2>4. visited \subseteq {pruned}
    BY Zenon, <2>3 DEF updateAndCollectFork
  <2> HIDE DEF visited
  <2>5. /\ UNION {u.connected : u \in visited} \subseteq pruned.connected
        /\ UNION {u.output : u \in visited} = {}
    BY Zenon, <2>2, <2>4
  <2>6. /\ g \in TreeType /\ g.failed = FALSE /\ g.vertices = keep
        /\ g.connected = t.connected \cap keep /\ g.output = {}
        /\ g.lastFinalized = f /\ g.LowestLevel = BlockView[f]
    <3>1. g = [pruned EXCEPT !.connected = pruned.connected, !.output = {}]
      BY Zenon, <2>1, <2>5
    <3> HIDE DEF g
    <3> QED
      BY Zenon, <2>2, <3>1 DEF TreeType
  <2> HIDE DEF g
  <2>7. f = t.lastFinalized \/ f \in t.connected
    BY Zenon, <1>1, <1>2, <1>5
  <2>8. ASSUME NEW b \in known,
               b = t.lastFinalized \/ b \in t.connected \/ BlockView[b] < t.LowestLevel
        PROVE  b = f \/ b \in g.connected \/ BlockView[b] < g.LowestLevel
    <3>1. CASE b \in t.connected
      BY SMTT(30), <1>1, <1>2, <2>6, <3>1
    <3>2. CASE b = t.lastFinalized \/ BlockView[b] < t.LowestLevel
      <4>1. BlockView[b] <= BlockView[f] /\ b \in Certified /\ f \in Certified
        BY <1>1, <1>2, <1>5, <3>2
      <4> QED
        BY SMTT(30), <1>2, <1>3, <2>6, <4>1
    <3> QED
      BY Zenon, <2>8, <3>1, <3>2
  <2>9. base \in Ancestors[f]
    BY ZenonT(60), <1>1, <1>2, <2>7, AncestorsEquation
  <2>10. \A v \in g.vertices : connectsToFinalizedBlock(g, v) => v \in g.connected
    BY Zenon, <1>1, <2>3, <2>2, <2>6 DEF connectsToFinalizedBlock
  <2>11. ASSUME NEW v \in g.connected
         PROVE  /\ connectsToFinalizedBlock(g, v) \/ BlockView[BlockQC[v]] < g.LowestLevel
                /\ BlockQC[v] \in known
                /\ base \in Ancestors[BlockQC[v]]
    <3>1. v \in t.connected /\ BlockQC[v] \in known /\ base \in Ancestors[BlockQC[v]]
      BY Zenon, <1>1, <2>6
    <3>2. \/ BlockQC[v] = t.lastFinalized \/ BlockQC[v] \in t.connected
          \/ BlockView[BlockQC[v]] < t.LowestLevel
      BY Zenon, <1>1, <3>1 DEF connectsToFinalizedBlock
    <3>3. BlockQC[v] = f \/ BlockQC[v] \in g.connected \/ BlockView[BlockQC[v]] < g.LowestLevel
      BY Zenon, <2>8, <3>1, <3>2
    <3> QED
      BY Zenon, <2>6, <3>1, <3>3 DEF connectsToFinalizedBlock
  <2>12. g.connected \subseteq g.vertices /\ g.connected \subseteq known
    BY Zenon, <1>1, <2>6
  <2>13. SoundTree(g, known, {}, base)
    BY Zenon, <2>6, <2>9, <2>10, <2>11, <2>12 DEF SoundTree
  <2> QED
    BY Zenon, <2>6, <2>8, <2>13 DEF g
<1> QED
  BY Zenon, <1>4, <1>5
-----------------------------------------------------------------------------

(* Dropping the blocks below the pruning threshold at the beginning of a   *)
(* batch leaves a connected range (trimLeadingBlocksBelowPruningThreshold). *)
LEMMA TrimmedChain ==
    ASSUME NEW c, NEW blocks, IsChain(blocks)
    PROVE  LET rest == trimLeadingBlocksBelowPruningThreshold(c, blocks)
           IN  rest = <<>> \/ IsChain(rest)
<1> DEFINE above == {i \in DOMAIN blocks : BlockView[blocks[i]] >= c.lowestView}
           first == CHOOSE i \in above : \A j \in above : i <= j
           rest == trimLeadingBlocksBelowPruningThreshold(c, blocks)
<1>1. /\ blocks \in Seq(Delivered) /\ Len(blocks) \in Nat /\ DOMAIN blocks = 1 .. Len(blocks)
      /\ \A i \in 1 .. Len(blocks) : blocks[i] \in Delivered
      /\ \A i \in 2 .. Len(blocks) : BlockQC[blocks[i]] = blocks[i - 1]
  BY DEF IsChain
<1>2. CASE above = {}
  BY Zenon, <1>2 DEF trimLeadingBlocksBelowPruningThreshold
<1>3. CASE above # {}
  <2>1. first \in 1 .. Len(blocks)
    <3>1. above \in SUBSET Nat /\ above \subseteq 1 .. Len(blocks)
      BY <1>1
    <3> HIDE DEF above
    <3>2. \E i \in above : \A j \in above : i <= j
      BY Zenon, <1>3, <3>1, SmallestView
    <3>3. first \in above
      BY Zenon, <3>2
    <3> QED
      BY Zenon, <3>1, <3>3
  <2>2. rest = SubSeq(blocks, first, Len(blocks))
    BY Zenon, <1>3 DEF trimLeadingBlocksBelowPruningThreshold
  <2> HIDE DEF above, first, rest
  <2>3. /\ rest \in Seq(Delivered) /\ Len(rest) = Len(blocks) - first + 1
        /\ \A i \in 1 .. Len(rest) : rest[i] = blocks[i + first - 1]
    BY <1>1, <2>1, <2>2
  <2>4. ASSUME NEW i \in 2 .. Len(rest) PROVE BlockQC[rest[i]] = rest[i - 1]
    <3> DEFINE k == i + first - 1
    <3>1. /\ i \in 1 .. Len(rest) /\ i - 1 \in 1 .. Len(rest)
          /\ k \in 2 .. Len(blocks) /\ (i - 1) + first - 1 = k - 1
      BY <1>1, <2>1, <2>3
    <3>2. rest[i] = blocks[k] /\ rest[i - 1] = blocks[k - 1]
      BY Zenon, <2>3, <3>1
    <3> HIDE DEF k
    <3> QED
      BY Zenon, <1>1, <3>1, <3>2
  <2>5. Len(rest) # 0
    BY <1>1, <2>1, <2>3
  <2> QED
    BY Zenon, <2>3, <2>4, <2>5 DEF IsChain, rest
<1> QED
  BY Zenon, <1>2, <1>3

(* What the cache returns for a connected range are blocks whose child has *)
(* been delivered: each is followed by one, or by a cached child           *)
(* (AddBlocks).                                                            *)
LEMMA CertifiedBatchIsCertified ==
    ASSUME NEW c, c.blocks \subseteq Delivered, NEW blocks, IsChain(blocks),
           NEW child \in batchChildren(c, blocks)
    PROVE  certifiedBatch(c, blocks, child) \in Seq(CertifiedDelivered)
<1> DEFINE prefix == IF BlockQC[Head(blocks)] \in c.blocks THEN <<BlockQC[Head(blocks)]>> ELSE <<>>
           extended == prefix \o blocks \o child
           Connected(s) == /\ s \in Seq(Delivered)
                           /\ \A i \in 2 .. Len(s) : BlockQC[s[i]] = s[i - 1]
<1>1. /\ blocks \in Seq(Delivered) /\ Len(blocks) \in Nat \ {0} /\ Head(blocks) = blocks[1]
      /\ \A i \in 2 .. Len(blocks) : BlockQC[blocks[i]] = blocks[i - 1]
  BY DEF IsChain
<1>2. CASE Range(blocks) \subseteq c.blocks
  <2>1. certifiedBatch(c, blocks, child) = <<>>
    BY Zenon, <1>2 DEF certifiedBatch
  <2> QED
    BY <2>1
<1>3. CASE ~(Range(blocks) \subseteq c.blocks)
  <2>1. certifiedBatch(c, blocks, child) = SubSeq(extended, 1, Len(extended) - 1)
    BY Zenon, <1>3 DEF certifiedBatch, Extended
  <2>2. Connected(prefix \o blocks) /\ Len(prefix \o blocks) \in Nat \ {0}
        /\ (prefix \o blocks)[Len(prefix \o blocks)] = blocks[Len(blocks)]
    <3>1. CASE BlockQC[Head(blocks)] \in c.blocks
      <4>1. prefix = <<BlockQC[blocks[1]]>> /\ BlockQC[blocks[1]] \in Delivered
        BY Zenon, <1>1, <3>1
      <4> HIDE DEF prefix
      <4>2. /\ prefix \o blocks \in Seq(Delivered) /\ Len(prefix \o blocks) = Len(blocks) + 1
            /\ (prefix \o blocks)[1] = BlockQC[blocks[1]]
            /\ \A i \in 2 .. Len(blocks) + 1 : (prefix \o blocks)[i] = blocks[i - 1]
        BY <1>1, <4>1
      <4> DEFINE whole == prefix \o blocks
      <4> HIDE DEF whole
      <4>3. ASSUME NEW i \in 2 .. Len(whole) PROVE BlockQC[whole[i]] = whole[i - 1]
        <5>1. CASE i = 2
          BY SMTT(30), <1>1, <4>2, <5>1 DEF whole
        <5>2. CASE i # 2
          <6>1. i - 1 \in 2 .. Len(blocks) /\ i \in 2 .. Len(blocks) + 1
                /\ i - 1 \in 2 .. Len(blocks) + 1
            BY SMTT(30), <1>1, <4>2, <5>2 DEF whole
          <6>2. whole[i] = blocks[i - 1] /\ whole[i - 1] = blocks[(i - 1) - 1]
            BY Zenon, <4>2, <6>1 DEF whole
          <6> QED
            BY Zenon, <1>1, <6>1, <6>2
        <5> QED
          BY Zenon, <5>1, <5>2
      <4>4. /\ Len(whole) \in Nat \ {0} /\ whole[Len(whole)] = blocks[Len(blocks)]
        BY <1>1, <4>2 DEF whole
      <4> QED
        BY Zenon, <4>2, <4>3, <4>4 DEF whole
    <3>2. CASE BlockQC[Head(blocks)] \notin c.blocks
      <4>1. prefix \o blocks = blocks
        BY <1>1, <3>2
      <4> QED
        BY Zenon, <1>1, <4>1
    <3> QED
      BY Zenon, <3>1, <3>2
  <2> DEFINE front == prefix \o blocks
  <2>3. extended = front \o child
    BY Zenon
  <2> HIDE DEF front, extended, prefix
  <2>4. Connected(extended) /\ Len(extended) \in Nat \ {0}
    <3>1. CASE child = <<>>
      <4>1. extended = front
        BY <2>2, <2>3, <3>1 DEF front
      <4> QED
        BY Zenon, <2>2, <4>1 DEF front
    <3>2. CASE child # <<>>
      <4>1. PICK b \in Delivered : child = <<b>> /\ BlockQC[b] = blocks[Len(blocks)]
        BY Zenon, <3>2 DEF batchChildren
      <4>2. /\ extended \in Seq(Delivered) /\ Len(extended) = Len(front) + 1
            /\ extended[Len(front) + 1] = b
            /\ \A i \in 1 .. Len(front) : extended[i] = front[i]
        BY <2>2, <2>3, <4>1 DEF front
      <4>3. ASSUME NEW i \in 2 .. Len(extended) PROVE BlockQC[extended[i]] = extended[i - 1]
        <5>1. CASE i = Len(front) + 1
          <6>1. i - 1 = Len(front) /\ i - 1 \in 1 .. Len(front)
            BY <2>2, <5>1 DEF front
          <6> QED
            BY Zenon, <2>2, <4>1, <4>2, <5>1, <6>1 DEF front
        <5>2. CASE i # Len(front) + 1
          <6>1. i \in 2 .. Len(front) /\ i \in 1 .. Len(front) /\ i - 1 \in 1 .. Len(front)
            BY <2>2, <4>2, <5>2 DEF front
          <6> QED
            BY Zenon, <2>2, <4>2, <6>1 DEF front
        <5> QED
          BY Zenon, <5>1, <5>2
      <4> QED
        BY <2>2, <4>2, <4>3 DEF front
    <3> QED
      BY Zenon, <3>1, <3>2
  <2>5. ASSUME NEW i \in 1 .. Len(extended) - 1 PROVE extended[i] \in CertifiedDelivered
    <3>1. i \in 1 .. Len(extended) /\ i + 1 \in 2 .. Len(extended) /\ i + 1 \in 1 .. Len(extended)
      BY <2>4
    <3>2. extended[i] \in Delivered /\ extended[i + 1] \in Delivered
      BY <2>4, <3>1
    <3>3. BlockQC[extended[i + 1]] = extended[i]
      BY <2>4, <3>1
    <3> QED
      BY Zenon, <3>2, <3>3, DeliveredBlocks DEF CertifiedDelivered
  <2>6. SubSeq(extended, 1, Len(extended) - 1) \in Seq(CertifiedDelivered)
    BY <2>4, <2>5
  <2> QED
    BY Zenon, <2>1, <2>6
<1> QED
  BY Zenon, <1>2, <1>3

(* Whatever is pruned or added, the cache holds delivered blocks only.     *)
CacheType == [blocks : SUBSET Delivered, lowestView : Nat]

LEMMA CacheHoldsDelivered ==
    /\ \A c \in CacheType, view \in Nat : PruneUpToView(c, view) \in CacheType
    /\ NewCache \in CacheType
    /\ \A c \in CacheType : \A blocks : IsChain(blocks) => unsafeAtomicAdd(c, blocks) \in CacheType
<1>1. ASSUME NEW c \in CacheType, NEW view \in Nat PROVE PruneUpToView(c, view) \in CacheType
  <2> DEFINE gone == IF Cardinality({BlockView[b] : b \in c.blocks}) < view - c.lowestView
                        THEN {v \in {BlockView[b] : b \in c.blocks} : v < view}
                        ELSE {v \in {BlockView[b] : b \in c.blocks} : c.lowestView <= v /\ v < view}
  <2>1. \/ PruneUpToView(c, view) = c
        \/ PruneUpToView(c, view) = [blocks |-> {b \in c.blocks : BlockView[b] \notin gone},
                                     lowestView |-> view]
    BY Zenon DEF PruneUpToView
  <2> HIDE DEF gone
  <2> QED
    BY <2>1 DEF CacheType
<1>2. NewCache \in CacheType
  BY Zenon DEF NewCache, CacheType
<1>3. ASSUME NEW c \in CacheType, NEW blocks, IsChain(blocks)
      PROVE  unsafeAtomicAdd(c, blocks) \in CacheType
  <2>1. Range(blocks) \subseteq Delivered
    BY <1>3 DEF IsChain, Range
  <2> QED
    BY Zenon, <2>1 DEF unsafeAtomicAdd, CacheType
<1> QED
  BY Zenon, <1>1, <1>2, <1>3
-----------------------------------------------------------------------------
(***************************************************************************)
(* The inductive invariant of the follower.                                *)
(***************************************************************************)

\* The workers: what is left of a batch is a connected range, then a list of
\* certified blocks, and only those are sent to the core.
BatchType ==
    {r \in [step : {"network", "submitted", "trimmed", "certified", "done"}, blocks : Seq(Delivered)] :
        /\ r.step \in {"submitted", "trimmed"} => IsChain(r.blocks)
        /\ r.step = "certified" => r.blocks \in Seq(CertifiedDelivered)}

SoundBatches ==
    /\ cache \in CacheType
    /\ batch \in [Batches -> BatchType]
    /\ ranges \in Seq(Seq(CertifiedDelivered))

\* The tree has connected the block, or has no need of it any more.
InTree(t, b) == b = t.lastFinalized \/ b \in t.connected \/ BlockView[b] < t.LowestLevel

\* Blocks in the follower loop's channel come after their parents, and those
\* stored above base that Forks does not have are in the channel.
SoundIncoming(base) ==
    /\ incoming \in Seq(DescendantsOf(base, stored) \ {Root})
    /\ \A i \in 1 .. Len(incoming) :
         /\ InTree(tree, incoming[i])
         /\ \/ Has(forks, BlockQC[incoming[i]])
            \/ \E j \in 1 .. Len(incoming) : j < i /\ incoming[j] = BlockQC[incoming[i]]
    /\ \A b \in DescendantsOf(base, stored) :
         Has(forks, b) \/ \E i \in 1 .. Len(incoming) : incoming[i] = b

\* base is the block Forks has started from.
SoundAbove(base) ==
    /\ SoundForks(forks, DescendantsOf(base, stored), Trusted(base))
    /\ SoundTree(tree, stored, connected, base)
    /\ SoundIncoming(base)

\* A finalized block that is announced to the tree is connected there.
SoundFinal(f) == f \in stored /\ InTree(tree, f) /\ BlockView[f] <= FinalizedView(forks)

SoundCore ==
    /\ exception = FALSE
    /\ SoundStore(stored)
    /\ SoundFinal(forks.finalized)
    /\ announcing # Nil => SoundFinal(announcing)
    /\ finalizedCh \in Seq(stored)
    /\ \A i \in 1 .. Len(finalizedCh) : SoundFinal(finalizedCh[i])
    /\ tree.LowestLevel <= FinalizedView(forks)
    /\ \E base \in stored : SoundAbove(base)

FollowerInvariant == SoundBatches /\ SoundCore

(* The protocol state holds with a block all its ancestors.                *)
LEMMA StoreHasAncestors ==
    ASSUME NEW blocks, SoundStore(blocks), NEW c \in blocks
    PROVE  Ancestors[c] \subseteq blocks
<1> DEFINE Bad == {BlockView[x] : x \in {y \in blocks : ~(Ancestors[y] \subseteq blocks)}}
<1>1. SUFFICES ASSUME Bad # {} PROVE FALSE
  BY Zenon
<1>2. /\ blocks \subseteq Blocks /\ \A x \in Blocks : BlockView[x] \in Nat /\ BlockQC[x] \in Blocks
      /\ Root \in blocks /\ \A x \in blocks \ {Root} : BlockQC[x] \in blocks
  BY Zenon, DeliveredBlocks DEF SoundStore, CertifiedDelivered
<1>3. Bad \in SUBSET Nat
  BY Zenon, <1>2
<1>4. PICK n \in Bad : \A m \in Bad : n <= m
  <2> HIDE DEF Bad
  <2> QED
    BY Zenon, <1>1, <1>3, SmallestView
<1>5. PICK x \in blocks : ~(Ancestors[x] \subseteq blocks) /\ BlockView[x] = n
  BY Zenon, <1>4
<1>6. x # Root
  BY Zenon, <1>2, <1>5, AncestorsEquation
<1>7. /\ BlockQC[x] \in blocks /\ BlockView[BlockQC[x]] < BlockView[x]
      /\ Ancestors[x] = {x} \cup Ancestors[BlockQC[x]]
  BY Zenon, <1>2, <1>5, <1>6, AncestorsEquation, BlockTreeAssumption
<1>8. BlockView[BlockQC[x]] \notin Bad
  <2>1. BlockView[BlockQC[x]] \in Nat /\ BlockView[x] \in Nat
    BY Zenon, <1>2, <1>7
  <2> HIDE DEF Bad
  <2> QED
    BY <1>4, <1>5, <1>7, <2>1
<1> QED
  BY Zenon, <1>5, <1>7, <1>8

(* The initial state.                                                      *)
LEMMA FollowerInitIsSound == FollowerInit => FollowerInvariant
<1> SUFFICES ASSUME FollowerInit PROVE FollowerInvariant
  BY Zenon
<1>1. /\ Root \in Blocks /\ Ancestors[Root] = {Root} /\ BlockView[Root] \in Nat
  BY Zenon, AncestorsEquation, BlockTreeAssumption
<1>2. SoundBatches
  <2>1. cache \in CacheType
    BY Zenon, <1>1, CacheHoldsDelivered DEF FollowerInit, PrunedCache
  <2>2. [step |-> "network", blocks |-> <<>>] \in BatchType
    BY DEF BatchType
  <2>3. batch \in [Batches -> BatchType]
    BY Zenon, <2>2 DEF FollowerInit, AllInNetwork
  <2> QED
    BY <2>1, <2>3 DEF FollowerInit, SoundBatches
<1>3. /\ forks \in ForksType /\ forks.blocks = {Root} /\ forks.finalized = Root /\ forks.failed = FALSE
  BY Zenon, <1>1 DEF FollowerInit, NewForks, ForksType
<1>4. /\ tree \in TreeType /\ tree.vertices = {} /\ tree.connected = {} /\ tree.failed = FALSE
      /\ tree.lastFinalized = Root /\ tree.LowestLevel = BlockView[Root]
  BY Zenon, <1>1 DEF FollowerInit, NewPendingTree, TreeType
<1>5. stored = {Root} /\ connected = {} /\ incoming = <<>> /\ finalizedCh = <<>>
      /\ announcing = Nil /\ exception = FALSE
  BY Zenon DEF FollowerInit
<1>6. SoundStore(stored) /\ DescendantsOf(Root, stored) = {Root}
  BY Zenon, <1>1, <1>5, FS_Singleton DEF SoundStore, DescendantsOf
<1>7. SoundForks(forks, DescendantsOf(Root, stored), Trusted(Root))
  BY <1>3, <1>6, FS_Singleton DEF SoundForks, Trusted
<1>8. SoundTree(tree, stored, connected, Root)
  BY Zenon, <1>1, <1>4, <1>5 DEF SoundTree
<1>9. SoundIncoming(Root)
  <2>1. incoming \in Seq(DescendantsOf(Root, stored) \ {Root}) /\ Len(incoming) = 0
    BY <1>5
  <2>2. \A b \in DescendantsOf(Root, stored) : Has(forks, b)
    BY Zenon, <1>3, <1>6 DEF Has
  <2> QED
    BY <2>1, <2>2 DEF SoundIncoming
<1>10. SoundFinal(forks.finalized) /\ tree.LowestLevel <= FinalizedView(forks)
  BY SMTT(30), <1>1, <1>3, <1>4, <1>5 DEF SoundFinal, InTree, FinalizedView
<1>11. SoundCore
  BY SMTT(30), <1>5, <1>6, <1>7, <1>8, <1>9, <1>10 DEF SoundCore, SoundAbove
<1> QED
  BY Zenon, <1>2, <1>11 DEF FollowerInvariant

(* What the workers do concerns neither the core nor the follower loop.    *)
coreVars == <<finalizedCh, tree, connected, stored, incoming, forks, announcing, exception>>

LEMMA SoundCoreUnchanged == SoundCore /\ UNCHANGED coreVars => SoundCore'
BY DEF SoundCore, coreVars, SoundFinal, SoundAbove, SoundIncoming

(* Each step of a worker on its batch.                                     *)
LEMMA BatchStepIsSound ==
    ASSUME FollowerInvariant, NEW s \in Batches,
           submitConnectedBatch(s) \/ TrimBatch(s) \/ AddToCache(s) \/ SendRange(s)
    PROVE  FollowerInvariant'
<1>1. cache \in CacheType /\ batch \in [Batches -> BatchType] /\ ranges \in Seq(Seq(CertifiedDelivered))
  BY Zenon DEF FollowerInvariant, SoundBatches
<1>2. SoundCore'
  <2>1. UNCHANGED coreVars
    BY Zenon DEF coreVars, submitConnectedBatch, TrimBatch, AddToCache, SendRange
  <2> QED
    BY Zenon, <2>1, SoundCoreUnchanged DEF FollowerInvariant
<1>3. batch[s] \in BatchType
  BY Zenon, <1>1
<1>4. [step |-> "done", blocks |-> <<>>] \in BatchType
  BY DEF BatchType
<1>5. ASSUME NEW step, NEW blocks, At(s, step, blocks), [step |-> step, blocks |-> blocks] \in BatchType
      PROVE  batch' \in [Batches -> BatchType]
  BY Zenon, <1>1, <1>5 DEF At
<1>6. ASSUME NEW step \in {"submitted", "trimmed"}, NEW blocks, IsChain(blocks)
      PROVE  [step |-> step, blocks |-> blocks] \in BatchType
  BY Zenon, <1>6 DEF BatchType, IsChain
<1>7. SoundBatches'
  <2>1. CASE submitConnectedBatch(s)
    <3>1. IsChain(s)
      <4>1. s \in Seq(Blocks \ {Root}) /\ s # <<>> /\ \A i \in 2 .. Len(s) : BlockQC[s[i]] = s[i - 1]
        BY Zenon, BatchesAssumption
      <4>2. \A i \in DOMAIN s : s[i] \in Delivered
        BY DEF Delivered, Range
      <4>3. s \in Seq(Delivered)
        BY <4>1, <4>2
      <4> QED
        BY Zenon, <4>1, <4>3 DEF IsChain
    <3>2. At(s, "done", <<>>) \/ At(s, "submitted", s)
      BY Zenon, <2>1 DEF submitConnectedBatch
    <3>3. batch' \in [Batches -> BatchType]
      BY Zenon, <1>4, <1>5, <1>6, <3>1, <3>2
    <3> QED
      BY Zenon, <1>1, <2>1, <3>3 DEF submitConnectedBatch, SoundBatches
  <2>2. CASE TrimBatch(s)
    <3> DEFINE rest == trimLeadingBlocksBelowPruningThreshold(cache, batch[s].blocks)
    <3>1. IsChain(batch[s].blocks)
      BY Zenon, <1>3, <2>2 DEF TrimBatch, BatchType
    <3>2. rest = <<>> \/ IsChain(rest)
      BY Zenon, <3>1, TrimmedChain
    <3>3. At(s, IF rest = <<>> THEN "done" ELSE "trimmed", rest)
      BY Zenon, <2>2 DEF TrimBatch
    <3> HIDE DEF rest
    <3>4. batch' \in [Batches -> BatchType]
      <4>1. CASE rest = <<>>
        BY Zenon, <1>4, <1>5, <3>3, <4>1
      <4>2. CASE rest # <<>>
        BY ZenonT(60), <1>5, <1>6, <3>2, <3>3, <4>2
      <4> QED
        BY Zenon, <4>1, <4>2
    <3> QED
      BY Zenon, <1>1, <2>2, <3>4 DEF TrimBatch, SoundBatches
  <2>3. CASE AddToCache(s)
    <3>1. IsChain(batch[s].blocks)
      BY Zenon, <1>3, <2>3 DEF AddToCache, BatchType
    <3>2. PICK child \in batchChildren(cache, batch[s].blocks) :
             LET certified == certifiedBatch(cache, batch[s].blocks, child)
             IN  At(s, IF certified = <<>> THEN "done" ELSE "certified", certified)
      BY Zenon, <2>3 DEF AddToCache
    <3> DEFINE certified == certifiedBatch(cache, batch[s].blocks, child)
    <3>3. certified \in Seq(CertifiedDelivered)
      BY Zenon, <1>1, <3>1, CertifiedBatchIsCertified DEF CacheType
    <3>4. At(s, IF certified = <<>> THEN "done" ELSE "certified", certified)
      BY Zenon, <3>2
    <3> HIDE DEF certified
    <3>5. batch' \in [Batches -> BatchType]
      <4>1. CASE certified = <<>>
        BY Zenon, <1>4, <1>5, <3>4, <4>1
      <4>2. CASE certified # <<>>
        <5>1. certified \in Seq(Delivered)
          BY <3>3 DEF CertifiedDelivered
        <5>2. [step |-> "certified", blocks |-> certified] \in BatchType
          BY Zenon, <3>3, <5>1 DEF BatchType
        <5> QED
          BY Zenon, <1>5, <3>4, <4>2, <5>2
      <4> QED
        BY Zenon, <4>1, <4>2
    <3>6. cache' \in CacheType
      BY ZenonT(60), <1>1, <2>3, <3>1, CacheHoldsDelivered DEF AddToCache
    <3> QED
      BY Zenon, <1>1, <2>3, <3>5, <3>6 DEF AddToCache, SoundBatches
  <2>4. CASE SendRange(s)
    <3>1. batch[s].blocks \in Seq(CertifiedDelivered)
      BY ZenonT(60), <1>3, <2>4 DEF SendRange, BatchType
    <3>2. ranges' \in Seq(Seq(CertifiedDelivered))
      BY <1>1, <2>4, <3>1 DEF SendRange
    <3>3. batch' \in [Batches -> BatchType]
      BY Zenon, <1>4, <1>5, <2>4 DEF SendRange
    <3> QED
      BY ZenonT(60), <1>1, <2>4, <3>2, <3>3 DEF SendRange, SoundBatches
  <2> QED
    BY Zenon, <2>1, <2>2, <2>3, <2>4
<1> QED
  BY Zenon, <1>2, <1>7 DEF FollowerInvariant

(* The core's goroutine adds a range to the tree.                          *)
LEMMA ProcessCertifiedBlocksIsSound ==
    ASSUME ConsensusIsSafe, FollowerInvariant, processCertifiedBlocks PROVE FollowerInvariant'
<1> DEFINE t == AddCertifiedBlocks(tree, Head(ranges))
<1>1. /\ connected = {} /\ ranges # <<>> /\ tree' = [t EXCEPT !.output = {}]
      /\ connected' = (IF t.failed THEN {} ELSE t.output) /\ exception' = (exception \/ t.failed)
      /\ ranges' = Tail(ranges)
      /\ UNCHANGED <<batch, cache, finalizedCh, stored, incoming, forks, announcing>>
  BY Zenon DEF processCertifiedBlocks
<1>2. ranges \in Seq(Seq(CertifiedDelivered)) /\ SoundBatches /\ SoundCore
  BY Zenon DEF FollowerInvariant, SoundBatches
<1>3. SoundBatches'
  BY <1>1, <1>2 DEF SoundBatches
<1>4. PICK base \in stored : SoundAbove(base)
  BY Zenon, <1>2 DEF SoundCore
<1>5. stored \subseteq Blocks
  BY Zenon, <1>2, DeliveredBlocks DEF SoundCore, SoundStore, CertifiedDelivered
<1>6. /\ SoundTree(t, stored, t.output, base)
      /\ t.lastFinalized = tree.lastFinalized /\ t.LowestLevel = tree.LowestLevel
      /\ tree.connected \subseteq t.connected
  <2>1. Head(ranges) \in Seq(CertifiedDelivered)
    BY <1>1, <1>2
  <2>2. SoundTree(tree, stored, {}, base)
    BY Zenon, <1>1, <1>4 DEF SoundAbove
  <2> QED
    BY ZenonT(60), <1>4, <1>5, <2>1, <2>2, AddCertifiedBlocksIsSound
<1> HIDE DEF t
<1>7. t \in TreeType /\ t.failed = FALSE
  BY Zenon, <1>6 DEF SoundTree
<1>8. /\ tree' \in TreeType /\ tree'.failed = FALSE /\ tree'.vertices = t.vertices
      /\ tree'.connected = t.connected /\ tree'.lastFinalized = tree.lastFinalized
      /\ tree'.LowestLevel = tree.LowestLevel /\ connected' = t.output /\ exception' = exception
  BY ZenonT(60), <1>1, <1>2, <1>6, <1>7 DEF TreeType, SoundCore
<1>9. SoundTree(tree', stored, connected', base)
  BY Zenon, <1>6, <1>8 DEF SoundTree, connectsToFinalizedBlock
<1>10. \A b : InTree(tree, b) => InTree(tree', b)
  BY Zenon, <1>6, <1>8 DEF InTree
<1>11. SoundAbove(base)'
  BY Zenon, <1>1, <1>4, <1>9, <1>10 DEF SoundAbove, SoundIncoming
<1>12. SoundCore'
  BY ZenonT(60), <1>1, <1>2, <1>4, <1>8, <1>10, <1>11 DEF SoundCore, SoundFinal
<1> QED
  BY Zenon, <1>3, <1>12 DEF FollowerInvariant

(* The parent of a connected block that is not to be forwarded itself is   *)
(* stored already, so ExtendCertified succeeds; the block is appended to   *)
(* the follower loop's channel after its parent.                           *)
LEMMA ForwardBlockIsSound ==
    ASSUME FollowerInvariant, NEW b \in Blocks, ForwardBlock(b) PROVE FollowerInvariant'
<1>1. SoundBatches' /\ SoundCore
  BY Zenon DEF FollowerInvariant, ForwardBlock, SoundBatches
<1>2. PICK base \in stored : SoundAbove(base)
  BY Zenon, <1>1 DEF SoundCore
<1>3. /\ SoundStore(stored) /\ SoundTree(tree, stored, connected, base)
      /\ SoundForks(forks, DescendantsOf(base, stored), Trusted(base)) /\ SoundIncoming(base)
  BY Zenon, <1>1, <1>2 DEF SoundCore, SoundAbove
<1>4. /\ b \in connected /\ BlockQC[b] \notin connected /\ b \in tree.connected
      /\ BlockQC[b] \in stored /\ b \in CertifiedDelivered /\ base \in Ancestors[BlockQC[b]]
  BY Zenon, <1>3 DEF ForwardBlock, SoundTree, TreeType
<1>5. b \in Blocks \ {Root} /\ stored \subseteq Blocks /\ base \in Ancestors[b]
  BY ZenonT(60), <1>3, <1>4, DeliveredBlocks, AncestorsEquation DEF SoundStore, CertifiedDelivered
<1>6. /\ stored' = stored \cup {b} /\ incoming' = Append(incoming, b)
      /\ connected' = connected \ {b}
      /\ UNCHANGED <<finalizedCh, tree, forks, announcing, exception>>
  BY Zenon, <1>4 DEF ForwardBlock
<1>7. SoundStore(stored')
  BY Zenon, <1>3, <1>4, <1>6, FS_AddElement DEF SoundStore
<1>8. /\ DescendantsOf(base, stored') = DescendantsOf(base, stored) \cup {b}
      /\ BlockQC[b] \in DescendantsOf(base, stored)
  BY Zenon, <1>4, <1>5, <1>6 DEF DescendantsOf
<1>9. SoundForks(forks, DescendantsOf(base, stored'), Trusted(base))
  BY Zenon, <1>3, <1>8 DEF SoundForks
<1>10. SoundTree(tree, stored', connected', base)
  BY Zenon, <1>3, <1>6 DEF SoundTree
<1>11. SoundIncoming(base)'
  <2> DEFINE known == DescendantsOf(base, stored)
             known2 == DescendantsOf(base, stored')
             n == Len(incoming)
  <2>1. /\ incoming \in Seq(known \ {Root}) /\ n \in Nat
        /\ \A i \in 1 .. n : /\ InTree(tree, incoming[i])
                             /\ \/ Has(forks, BlockQC[incoming[i]])
                                \/ \E j \in 1 .. n : j < i /\ incoming[j] = BlockQC[incoming[i]]
        /\ \A x \in known : Has(forks, x) \/ \E i \in 1 .. n : incoming[i] = x
    BY <1>3 DEF SoundIncoming
  <2>2. known2 = known \cup {b} /\ BlockQC[b] \in known
    BY Zenon, <1>8
  <2> HIDE DEF known, known2
  <2>3. /\ incoming' \in Seq(known2 \ {Root}) /\ Len(incoming') = n + 1 /\ incoming'[n + 1] = b
        /\ \A i \in 1 .. n : incoming'[i] = incoming[i]
    <3>1. b \in known2 \ {Root} /\ incoming \in Seq(known2 \ {Root})
      BY <1>5, <2>1, <2>2
    <3> QED
      BY SMTT(30), <1>6, <3>1
  <2>4. ASSUME NEW i \in 1 .. Len(incoming')
        PROVE  /\ InTree(tree, incoming'[i])
               /\ \/ Has(forks, BlockQC[incoming'[i]])
                  \/ \E j \in 1 .. Len(incoming') : j < i /\ incoming'[j] = BlockQC[incoming'[i]]
    <3>1. CASE i = n + 1
      <4>1. InTree(tree, b)
        BY Zenon, <1>4 DEF InTree
      <4>2. Has(forks, BlockQC[b]) \/ \E j \in 1 .. n : incoming[j] = BlockQC[b]
        BY ZenonT(60), <2>1, <2>2
      <4> QED
        BY SMTT(30), <2>1, <2>3, <3>1, <4>1, <4>2
    <3>2. CASE i # n + 1
      <4>1. i \in 1 .. n
        BY <2>1, <2>3, <3>2
      <4> QED
        BY SMTT(30), <2>1, <2>3, <4>1
    <3> QED
      BY Zenon, <3>1, <3>2
  <2>5. \A x \in known2 : Has(forks, x) \/ \E i \in 1 .. Len(incoming') : incoming'[i] = x
    BY SMTT(30), <2>1, <2>2, <2>3
  <2> QED
    BY ZenonT(60), <1>6, <2>3, <2>4, <2>5 DEF SoundIncoming, known2
<1>12. SoundAbove(base)'
  BY Zenon, <1>6, <1>9, <1>10, <1>11 DEF SoundAbove
<1>13. \A f : SoundFinal(f) => SoundFinal(f)'
  BY Zenon, <1>6 DEF SoundFinal
<1>14. SoundCore'
  <2>1. finalizedCh' \in Seq(stored')
    BY <1>1, <1>6 DEF SoundCore
  <2> QED
    BY ZenonT(60), <1>1, <1>6, <1>7, <1>12, <1>13, <2>1 DEF SoundCore
<1> QED
  BY Zenon, <1>1, <1>14 DEF FollowerInvariant

(* The announced block is connected in the tree, so finalizing it connects *)
(* no further blocks.                                                      *)
LEMMA ProcessFinalizedBlockIsSound ==
    ASSUME ConsensusIsSafe, FollowerInvariant, processFinalizedBlock PROVE FollowerInvariant'
<1> DEFINE f == Head(finalizedCh)
           t == FinalizeFork(tree, f)
<1>1. SoundBatches' /\ SoundCore
  BY Zenon DEF FollowerInvariant, processFinalizedBlock, SoundBatches
<1>2. PICK base \in stored : SoundAbove(base)
  BY Zenon, <1>1 DEF SoundCore
<1>3. /\ connected = {} /\ finalizedCh # <<>> /\ tree' = [t EXCEPT !.output = {}]
      /\ exception' = (exception \/ t.output # {}) /\ finalizedCh' = Tail(finalizedCh)
      /\ UNCHANGED <<connected, stored, incoming, forks, announcing>>
  BY Zenon DEF processFinalizedBlock
<1>4. /\ stored \subseteq Certified /\ base \in Blocks
  BY Zenon, <1>1, <1>2, DeliveredBlocks DEF SoundCore, SoundStore, CertifiedDelivered
<1>5. finalizedCh \in Seq(stored) /\ \A i \in 1 .. Len(finalizedCh) : SoundFinal(finalizedCh[i])
  BY Zenon, <1>1 DEF SoundCore
<1>6. SoundFinal(f)
  BY <1>3, <1>5
<1>7. f \in stored /\ InTree(tree, f) /\ BlockView[f] <= FinalizedView(forks)
  BY Zenon, <1>6 DEF SoundFinal
<1>8. SoundTree(tree, stored, {}, base)
  BY Zenon, <1>2, <1>3 DEF SoundAbove
<1>9. /\ SoundTree(t, stored, {}, base) /\ t.output = {}
      /\ t.LowestLevel = BlockView[f] \/ t.LowestLevel = tree.LowestLevel
      /\ \A b \in stored : InTree(tree, b) => InTree(t, b)
  <2> HIDE DEF f
  <2> QED
    BY Zenon, <1>4, <1>7, <1>8, FinalizeForkIsSound DEF InTree
<1> HIDE DEF f, t
<1>10. t \in TreeType /\ t.failed = FALSE
  BY Zenon, <1>9 DEF SoundTree
<1>11. /\ tree' \in TreeType /\ tree'.failed = FALSE /\ tree'.vertices = t.vertices
       /\ tree'.connected = t.connected /\ tree'.lastFinalized = t.lastFinalized
       /\ tree'.LowestLevel = t.LowestLevel
  BY Zenon, <1>3, <1>10 DEF TreeType
<1>12. SoundTree(tree', stored, {}, base)
  BY Zenon, <1>9, <1>11 DEF SoundTree, connectsToFinalizedBlock
<1>13. \A b \in stored : InTree(tree, b) => InTree(tree', b)
  BY Zenon, <1>9, <1>11 DEF InTree
<1>14. SoundAbove(base)'
  <2>1. \A i \in 1 .. Len(incoming) : incoming[i] \in stored
    BY <1>2 DEF SoundAbove, SoundIncoming, DescendantsOf
  <2> QED
    BY ZenonT(60), <1>2, <1>3, <1>12, <1>13, <2>1 DEF SoundAbove, SoundIncoming
<1>15. \A b : SoundFinal(b) => SoundFinal(b)'
  BY Zenon, <1>3, <1>13 DEF SoundFinal
<1>16. /\ finalizedCh' \in Seq(stored)
       /\ \A i \in 1 .. Len(finalizedCh') : SoundFinal(finalizedCh'[i])
  BY <1>3, <1>5
<1>17. tree'.LowestLevel <= FinalizedView(forks)
  BY Zenon, <1>1, <1>7, <1>9, <1>11 DEF SoundCore
<1>18. exception' = FALSE
  BY Zenon, <1>1, <1>3, <1>9 DEF SoundCore
<1>19. SoundCore'
  BY ZenonT(60), <1>1, <1>2, <1>3, <1>14, <1>15, <1>16, <1>17, <1>18 DEF SoundCore
<1> QED
  BY Zenon, <1>1, <1>19 DEF FollowerInvariant

(* The finalization of Head(incoming), if any, is of a stored block that   *)
(* is connected in the tree.                                               *)
LEMMA LoopStepIsSound ==
    ASSUME ConsensusIsSafe, SoundCore, NEW base \in stored, SoundAbove(base), incoming # <<>>
    PROVE  LET b == Head(incoming)
               g == AddCertifiedBlock(forks, b)
           IN  /\ SoundForks(g, DescendantsOf(base, stored), Trusted(base))
               /\ Extends(forks, g) /\ Has(g, b)
               /\ g.finalized \in stored /\ InTree(tree, g.finalized)
<1> DEFINE b == Head(incoming)
           g == AddCertifiedBlock(forks, b)
           known == DescendantsOf(base, stored)
<1>1. /\ SoundStore(stored) /\ SoundFinal(forks.finalized) /\ tree.LowestLevel <= FinalizedView(forks)
      /\ SoundForks(forks, known, Trusted(base)) /\ SoundTree(tree, stored, connected, base)
      /\ SoundIncoming(base)
  BY Zenon DEF SoundCore, SoundAbove
<1>2. b \in known \ {Root} /\ InTree(tree, b) /\ Has(forks, BlockQC[b])
  <2>1. /\ incoming \in Seq(known \ {Root}) /\ 1 \in 1 .. Len(incoming) /\ b = incoming[1]
    BY <1>1 DEF SoundIncoming
  <2>2. ~ \E j \in 1 .. Len(incoming) : j < 1
    BY <2>1
  <2> HIDE DEF b, known
  <2>3. b \in known \ {Root}
    BY <2>1
  <2>4. InTree(tree, incoming[1]) /\ Has(forks, BlockQC[incoming[1]])
    BY Zenon, <1>1, <2>1, <2>2 DEF SoundIncoming
  <2> QED
    BY Zenon, <2>1, <2>3, <2>4
<1>3. Agreement(known, Agreeing(base), Trusted(base)) /\ known \subseteq Agreeing(base)
  BY Zenon, <1>1, FollowerAgreement
<1>4. b \in (known \cap Agreeing(base)) \ {Root}
  BY Zenon, <1>2, <1>3
<1> HIDE DEF known
<1>5. /\ SoundForks(g, known, Trusted(base)) /\ Extends(forks, g) /\ Has(g, b)
      /\ g.finalized # forks.finalized =>
            g.finalized = BlockQC[b] /\ BlockView[b] > FinalizedView(forks)
  <2> HIDE DEF b
  <2> QED
    BY Zenon, <1>1, <1>2, <1>3, <1>4, AddCertifiedBlockIsSound
<1> HIDE DEF b, g
<1>6. CASE g.finalized = forks.finalized
  BY Zenon, <1>1, <1>5, <1>6 DEF SoundFinal, b, g, known
<1>7. CASE g.finalized # forks.finalized
  <2>1. b \in stored \ {Root} /\ BlockQC[b] \in stored
    BY Zenon, <1>1, <1>2 DEF SoundStore, DescendantsOf, known
  <2>2. /\ BlockView[b] \in Nat /\ FinalizedView(forks) \in Nat
        /\ tree.LowestLevel = BlockView[tree.lastFinalized] /\ tree.LowestLevel \in Nat
    <3>1. stored \subseteq Blocks /\ forks.finalized \in Blocks
      BY ZenonT(60), <1>1, DeliveredBlocks DEF SoundStore, CertifiedDelivered, SoundFinal
    <3> QED
      BY Zenon, <1>1, <2>1, <3>1, DeliveredBlocks DEF SoundTree, FinalizedView
  <2>3. b \in tree.connected
    BY SMTT(30), <1>1, <1>2, <1>5, <1>7, <2>2 DEF InTree
  <2>4. InTree(tree, BlockQC[b])
    BY Zenon, <1>1, <2>3 DEF SoundTree, connectsToFinalizedBlock, InTree
  <2> QED
    BY ZenonT(60), <1>5, <1>7, <2>1, <2>4 DEF b, g, known
<1> QED
  BY Zenon, <1>6, <1>7

(* The follower loop adds the next block to Forks.                         *)
LEMMA LoopIsSound == ASSUME ConsensusIsSafe, FollowerInvariant, loop PROVE FollowerInvariant'
<1> DEFINE b == Head(incoming)
           known(base) == DescendantsOf(base, stored)
<1>1. SoundBatches' /\ SoundCore
  BY Zenon DEF FollowerInvariant, loop, SoundBatches
<1>2. PICK base \in stored : SoundAbove(base)
  BY <1>1 DEF SoundCore
<1>3. /\ incoming # <<>> /\ forks' = AddCertifiedBlock(forks, b) /\ incoming' = Tail(incoming)
      /\ exception' = (exception \/ forks'.failed)
      /\ UNCHANGED <<finalizedCh, tree, connected, stored, announcing>>
  BY Zenon DEF loop
<1>4. /\ SoundForks(forks', known(base), Trusted(base)) /\ Extends(forks, forks') /\ Has(forks', b)
      /\ forks'.finalized \in stored /\ InTree(tree, forks'.finalized)
  BY Zenon, <1>1, <1>2, <1>3, LoopStepIsSound
<1>5. /\ stored \subseteq Blocks /\ forks.finalized \in Blocks
      /\ \A x \in Blocks : BlockView[x] \in Nat /\ BlockQC[x] \in Blocks
  BY Zenon, <1>1, DeliveredBlocks DEF SoundCore, SoundStore, CertifiedDelivered, SoundFinal
<1>6. FinalizedView(forks) <= FinalizedView(forks') /\ \A x \in Blocks : Has(forks, x) => Has(forks', x)
  BY Zenon, <1>4 DEF Extends
<1>7. SoundIncoming(base)'
  <2> DEFINE n == Len(incoming)
             k == known(base)
  <2>1. /\ incoming \in Seq(k \ {Root}) /\ n \in Nat \ {0} /\ b = incoming[1]
        /\ \A i \in 1 .. n : /\ InTree(tree, incoming[i])
                             /\ \/ Has(forks, BlockQC[incoming[i]])
                                \/ \E j \in 1 .. n : j < i /\ incoming[j] = BlockQC[incoming[i]]
        /\ \A x \in k : Has(forks, x) \/ \E i \in 1 .. n : incoming[i] = x
    BY <1>2, <1>3 DEF SoundAbove, SoundIncoming
  <2>2. k \subseteq Blocks
    BY Zenon, <1>5 DEF DescendantsOf
  <2>3. k = DescendantsOf(base, stored)'
    BY Zenon, <1>3 DEF DescendantsOf
  <2> HIDE DEF k, b, known
  <2>4. /\ incoming' \in Seq(k \ {Root}) /\ Len(incoming') = n - 1
        /\ \A i \in 1 .. n - 1 : incoming'[i] = incoming[i + 1]
    BY SMTT(30), <1>3, <2>1
  <2>5. ASSUME NEW i \in 1 .. n, i # 1 PROVE i - 1 \in 1 .. Len(incoming') /\ incoming'[i - 1] = incoming[i]
    BY SMTT(30), <2>1, <2>4, <2>5
  <2>6. ASSUME NEW i \in 1 .. Len(incoming')
        PROVE  /\ InTree(tree, incoming'[i])
               /\ \/ Has(forks', BlockQC[incoming'[i]])
                  \/ \E j \in 1 .. Len(incoming') : j < i /\ incoming'[j] = BlockQC[incoming'[i]]
    <3>1. i + 1 \in 1 .. n /\ incoming'[i] = incoming[i + 1]
      BY SMTT(30), <2>1, <2>4
    <3>2. BlockQC[incoming[i + 1]] \in Blocks
      BY SMTT(30), <1>5, <2>1, <2>2, <3>1
    <3>3. CASE Has(forks, BlockQC[incoming[i + 1]])
      BY ZenonT(60), <1>6, <2>1, <3>1, <3>2, <3>3
    <3>4. ASSUME NEW j \in 1 .. n, j < i + 1, incoming[j] = BlockQC[incoming[i + 1]]
          PROVE  \/ Has(forks', BlockQC[incoming'[i]])
                 \/ \E m \in 1 .. Len(incoming') : m < i /\ incoming'[m] = BlockQC[incoming'[i]]
      <4>1. CASE j = 1
        BY Zenon, <1>4, <2>1, <3>1, <3>4, <4>1
      <4>2. CASE j # 1
        <5>1. j - 1 \in 1 .. Len(incoming') /\ incoming'[j - 1] = incoming[j]
          BY ZenonT(60), <2>5, <4>2
        <5>2. j - 1 < i
          BY <3>4
        <5> QED
          BY ZenonT(60), <3>1, <3>4, <5>1, <5>2
      <4> QED
        BY Zenon, <4>1, <4>2
    <3> QED
      BY ZenonT(60), <2>1, <3>1, <3>3, <3>4
  <2>7. ASSUME NEW x \in k
        PROVE  Has(forks', x) \/ \E i \in 1 .. Len(incoming') : incoming'[i] = x
    <3>1. CASE Has(forks, x)
      BY ZenonT(60), <1>6, <2>2, <3>1
    <3>2. ASSUME NEW i \in 1 .. n, incoming[i] = x
          PROVE  Has(forks', x) \/ \E j \in 1 .. Len(incoming') : incoming'[j] = x
      <4>1. CASE i = 1
        BY ZenonT(60), <1>4, <2>1, <3>2, <4>1
      <4>2. CASE i # 1
        BY Zenon, <2>5, <3>2, <4>2
      <4> QED
        BY Zenon, <4>1, <4>2
    <3> QED
      BY Zenon, <2>1, <3>1, <3>2
  <2> QED
    BY ZenonT(60), <1>3, <2>3, <2>4, <2>6, <2>7 DEF SoundIncoming
<1>8. SoundAbove(base)'
  BY ZenonT(60), <1>2, <1>3, <1>4, <1>7 DEF SoundAbove
<1>9. ASSUME NEW f, SoundFinal(f) PROVE SoundFinal(f)'
  <2>1. f \in Blocks /\ f \in stored /\ InTree(tree, f) /\ BlockView[f] <= FinalizedView(forks)
    BY Zenon, <1>5, <1>9 DEF SoundFinal
  <2>2. BlockView[f] \in Nat /\ FinalizedView(forks) \in Nat /\ FinalizedView(forks') \in Nat
    BY Zenon, <1>4, <1>5, <2>1 DEF FinalizedView
  <2>3. BlockView[f] <= FinalizedView(forks')
    BY <1>6, <2>1, <2>2
  <2> QED
    BY Zenon, <1>3, <2>1, <2>3 DEF SoundFinal
<1>10. SoundFinal(forks.finalized)'
  <2>1. BlockView[forks'.finalized] <= FinalizedView(forks')
    BY SMTT(30), <1>4, <1>5 DEF FinalizedView
  <2> QED
    BY ZenonT(60), <1>3, <1>4, <2>1 DEF SoundFinal
<1>11. exception' = FALSE
  BY ZenonT(60), <1>1, <1>3, <1>4 DEF SoundCore, SoundForks
<1>12. tree'.LowestLevel <= FinalizedView(forks')
  <2>1. /\ tree.LowestLevel \in Nat /\ tree.LowestLevel <= FinalizedView(forks)
        /\ FinalizedView(forks) \in Nat /\ FinalizedView(forks') \in Nat
    BY Zenon, <1>1, <1>2, <1>4, <1>5 DEF SoundCore, SoundAbove, SoundTree, TreeType, FinalizedView
  <2> QED
    BY SMTT(30), <1>3, <1>6, <2>1
<1>13. SoundCore'
  BY ZenonT(60), <1>1, <1>2, <1>3, <1>8, <1>9, <1>10, <1>11, <1>12 DEF SoundCore
<1> QED
  BY <1>1, <1>13 DEF FollowerInvariant

(* The goroutine that announces finalization reads the latest finalized    *)
(* block of Forks, and sends it to the core later.                         *)
LEMMA AnnouncementIsSound ==
    ASSUME FollowerInvariant, finalizationProcessingLoop \/ SendFinalized PROVE FollowerInvariant'
<1>1. SoundBatches /\ SoundCore
  BY Zenon DEF FollowerInvariant
<1>2. UNCHANGED <<tree, connected, stored, incoming, forks, exception, batch, ranges>>
  BY Zenon DEF finalizationProcessingLoop, SendFinalized
<1>3. \A f : SoundFinal(f) <=> SoundFinal(f)'
  BY Zenon, <1>2 DEF SoundFinal
<1>4. (\E base \in stored : SoundAbove(base))'
  BY ZenonT(60), <1>1, <1>2 DEF SoundCore, SoundAbove, SoundIncoming
<1>5. CASE finalizationProcessingLoop
  <2>1. announcing' = forks.finalized /\ finalizedCh' = finalizedCh
        /\ cache' = PruneUpToView(cache, FinalizedView(forks))
    BY Zenon, <1>5 DEF finalizationProcessingLoop
  <2>2. SoundCore'
    BY ZenonT(60), <1>1, <1>2, <1>3, <1>4, <2>1 DEF SoundCore
  <2>3. FinalizedView(forks) \in Nat
    <3>1. forks.finalized \in Blocks
      BY Zenon, <1>1, DeliveredBlocks DEF SoundCore, SoundFinal, SoundStore, CertifiedDelivered
    <3> QED
      BY Zenon, <3>1, DeliveredBlocks DEF FinalizedView
  <2>4. SoundBatches'
    BY ZenonT(60), <1>1, <1>2, <2>1, <2>3, CacheHoldsDelivered DEF SoundBatches
  <2> QED
    BY Zenon, <2>2, <2>4 DEF FollowerInvariant
<1>6. CASE SendFinalized
  <2>1. /\ announcing # Nil /\ announcing' = Nil /\ finalizedCh' = Append(finalizedCh, announcing)
        /\ cache' = cache
    BY Zenon, <1>6 DEF SendFinalized
  <2>2. /\ SoundFinal(announcing) /\ announcing \in stored /\ finalizedCh \in Seq(stored)
        /\ \A i \in 1 .. Len(finalizedCh) : SoundFinal(finalizedCh[i])
    BY ZenonT(60), <1>1, <2>1 DEF SoundCore, SoundFinal
  <2>3. /\ finalizedCh' \in Seq(stored)
        /\ \A i \in 1 .. Len(finalizedCh') : SoundFinal(finalizedCh'[i])
    BY SMTT(30), <2>1, <2>2
  <2>4. SoundCore'
    BY ZenonT(60), <1>1, <1>2, <1>3, <1>4, <2>1, <2>3 DEF SoundCore
  <2>5. SoundBatches'
    BY Zenon, <1>1, <1>2, <2>1 DEF SoundBatches
  <2> QED
    BY SMTT(30), <2>4, <2>5 DEF FollowerInvariant
<1> QED
  BY Zenon, <1>5, <1>6

(* A restart, also one that finds some but not all blocks finalized that   *)
(* Forks was finalizing: the pending blocks are exactly the stored         *)
(* descendants of the persisted finalized block, and recovery gives them   *)
(* to Forks parents first (consensus.NewFollower, ForksState).             *)
LEMMA CrashAndRestartIsSound ==
    ASSUME ConsensusIsSafe, FollowerInvariant, NEW final \in Blocks, CrashAndRestart(final)
    PROVE  FollowerInvariant'
<1> DEFINE known == DescendantsOf(final, stored)
           pending == {b \in stored \ {final} : final \in Ancestors[b]}
<1>1. SoundCore /\ SoundStore(stored)
  BY Zenon DEF FollowerInvariant, SoundCore
<1>2. stored \subseteq Blocks /\ \A b \in Blocks : BlockView[b] \in Nat /\ b \in Ancestors[b]
  BY ZenonT(60), <1>1, DeliveredBlocks, AncestorsEquation DEF SoundStore, CertifiedDelivered
<1>3. final \in stored
  <2>1. final \in PersistedFinal
    BY Zenon DEF CrashAndRestart
  <2>2. CASE final = forks.finalized
    BY Zenon, <1>1, <2>2 DEF SoundCore, SoundFinal
  <2>3. CASE final # forks.finalized
    <3>1. incoming # <<>> /\ final \in Ancestors[AddCertifiedBlock(forks, Head(incoming)).finalized]
      BY Zenon, <2>1, <2>3 DEF PersistedFinal
    <3>2. PICK base \in stored : SoundAbove(base)
      BY Zenon, <1>1 DEF SoundCore
    <3>3. AddCertifiedBlock(forks, Head(incoming)).finalized \in stored
      BY Zenon, <1>1, <3>1, <3>2, LoopStepIsSound
    <3> QED
      BY Zenon, <1>1, <3>1, <3>3, StoreHasAncestors
  <2> QED
    BY Zenon, <2>2, <2>3
<1>4. Agreement(known, Agreeing(final), Trusted(final)) /\ final \in known \cap Trusted(final)
  <2>1. Agreement(known, Agreeing(final), Trusted(final))
    BY Zenon, <1>1, <1>3, FollowerAgreement
  <2> QED
    BY Zenon, <1>2, <1>3, <2>1 DEF DescendantsOf, Trusted
<1>5. pending \in SUBSET (known \ {Root}) /\ IsFiniteSet(pending) /\ known = pending \cup {final}
  <2>1. Root \notin pending
    BY Zenon, AncestorsEquation
  <2>2. IsFiniteSet(pending)
    BY Zenon, <1>1, FS_Subset DEF SoundStore
  <2> QED
    BY Zenon, <1>2, <1>3, <2>1, <2>2 DEF DescendantsOf
<1>6. ASSUME NEW b \in pending PROVE BlockQC[b] \in pending \cup {final}
  <2>1. b \in Blocks /\ b \in stored \ {Root} /\ final \in Ancestors[b] /\ final # b
    BY Zenon, <1>2, <1>5
  <2>2. final \in Ancestors[BlockQC[b]]
    BY Zenon, <2>1, ProperAncestors
  <2>3. BlockQC[b] \in stored
    BY Zenon, <1>1, <2>1 DEF SoundStore
  <2> QED
    BY Zenon, <2>2, <2>3
<1>7. /\ forks' = RecoverForks(final, pending) /\ exception' = (exception \/ forks'.failed)
      /\ tree' = NewPendingTree(forks'.finalized) /\ cache' = PrunedCache(forks'.finalized)
      /\ batch' = AllInNetwork /\ ranges' = <<>> /\ finalizedCh' = <<>> /\ incoming' = <<>>
      /\ connected' = {} /\ announcing' = Nil /\ stored' = stored
  BY Zenon DEF CrashAndRestart
<1>8. SoundForks(forks', known, Trusted(final)) /\ \A b \in known : Has(forks', b)
  <2> HIDE DEF known, pending
  <2>1. /\ SoundForks(RecoverForks(final, pending), known, Trusted(final))
        /\ \A b \in pending \cup {final} : Has(RecoverForks(final, pending), b)
    BY ZenonT(60), <1>4, <1>5, <1>6, RecoverForksIsSound
  <2> QED
    BY Zenon, <1>5, <1>7, <2>1
<1> DEFINE latest == forks'.finalized
<1>9. latest \in stored /\ final \in Ancestors[latest] /\ latest \in Blocks /\ BlockView[latest] \in Nat
  BY Zenon, <1>2, <1>8 DEF SoundForks, DescendantsOf
<1>10. /\ tree' \in TreeType /\ tree'.vertices = {} /\ tree'.connected = {} /\ tree'.failed = FALSE
       /\ tree'.lastFinalized = latest /\ tree'.LowestLevel = BlockView[latest]
  BY Zenon, <1>7, <1>9 DEF NewPendingTree, TreeType
<1>11. known = DescendantsOf(final, stored)'
  BY Zenon, <1>7 DEF DescendantsOf
<1> HIDE DEF known, pending
<1>12. SoundTree(tree', stored', connected', final)
  BY Zenon, <1>7, <1>9, <1>10 DEF SoundTree
<1>13. SoundIncoming(final)'
  <2>1. incoming' \in Seq(known \ {Root}) /\ Len(incoming') = 0
    BY <1>7
  <2> QED
    BY <1>8, <1>11, <2>1 DEF SoundIncoming
<1>14. SoundAbove(final)'
  BY ZenonT(60), <1>8, <1>11, <1>12, <1>13 DEF SoundAbove
<1>15. SoundFinal(forks.finalized)' /\ tree'.LowestLevel <= FinalizedView(forks')
  BY <1>7, <1>9, <1>10 DEF SoundFinal, InTree, FinalizedView
<1>16. exception' = FALSE
  BY ZenonT(60), <1>1, <1>7, <1>8 DEF SoundCore, SoundForks
<1>17. SoundCore'
  <2>1. finalizedCh' \in Seq(stored') /\ Len(finalizedCh') = 0
    BY <1>7
  <2> QED
    BY SMTT(30), <1>1, <1>3, <1>7, <1>14, <1>15, <1>16, <2>1 DEF SoundCore
<1>18. SoundBatches'
  <2>1. cache' \in CacheType
    BY Zenon, <1>7, <1>9, CacheHoldsDelivered DEF PrunedCache
  <2>2. [step |-> "network", blocks |-> <<>>] \in BatchType
    BY DEF BatchType
  <2>3. batch' \in [Batches -> BatchType]
    BY Zenon, <1>7, <2>2 DEF AllInNetwork
  <2> QED
    BY <1>7, <2>1, <2>3 DEF SoundBatches
<1> QED
  BY Zenon, <1>17, <1>18 DEF FollowerInvariant

(* Every step of the follower preserves the invariant.                     *)
LEMMA FollowerStepIsSound ==
    ASSUME ConsensusIsSafe, FollowerInvariant, [FollowerNext]_folVars PROVE FollowerInvariant'
<1>1. CASE Work
  BY Zenon, <1>1, BatchStepIsSound, ProcessCertifiedBlocksIsSound, ForwardBlockIsSound,
     ProcessFinalizedBlockIsSound, LoopIsSound, AnnouncementIsSound DEF Work
<1>2. CASE \E final \in Blocks : CrashAndRestart(final)
  BY Zenon, <1>2, CrashAndRestartIsSound
<1>3. CASE UNCHANGED folVars
  <2>1. SoundBatches' /\ UNCHANGED coreVars
    BY Zenon, <1>3 DEF FollowerInvariant, SoundBatches, folVars, coreVars
  <2> QED
    BY Zenon, <2>1, SoundCoreUnchanged DEF FollowerInvariant
<1> QED
  BY Zenon, <1>1, <1>2, <1>3 DEF FollowerNext

(* No goroutine of the follower throws (NoFollowerException), whatever     *)
(* ranges of blocks are received, in whatever order the workers, the core, *)
(* the follower loop and the announcement of finality take turns, with     *)
(* channels of any capacity and any number of crashes, as long as the      *)
(* certificates received are those of a safe committee.                    *)
THEOREM FollowerNeverThrows ==
    ASSUME ConsensusIsSafe PROVE FollowerSpec => []NoFollowerException
<1>1. FollowerInit => FollowerInvariant
  BY Zenon, FollowerInitIsSound
<1>2. FollowerInvariant /\ [FollowerNext]_folVars => FollowerInvariant'
  BY Zenon, FollowerStepIsSound
<1>3. FollowerInvariant => NoFollowerException
  BY Zenon DEF FollowerInvariant, SoundCore, NoFollowerException
<1> QED
  BY <1>1, <1>2, <1>3, PTL DEF FollowerSpec

(* A committee whose replicas follow SafetyRules, with less than a third   *)
(* of Byzantine weight, makes the certificates that a follower relies on:  *)
(* votes for all blocks that the received ones certify imply that these    *)
(* do not conflict.                                                        *)
THEOREM CommitteeMakesFollowerSafe ==
    SafetyRulesSpec => [](CertifiedByChild \subseteq CertifiedBlocks => ConsensusIsSafe)
<1>1. ASSUME SafetyInvariant, CertifiedByChild \subseteq CertifiedBlocks PROVE ConsensusIsSafe
  <2>1. CertifiedByChild \cup {Root} \subseteq CertifiedBlocks
    BY Zenon, <1>1, BlockTreeAssumption DEF CertifiedBlocks, ValidQCs, ValidateQC
  <2>2. AtMostOneCertifiedBlockPerView /\ CertifiedExtendsFinalized
    BY Zenon, <1>1, InvariantImpliesUniqueCertificates, InvariantImpliesFinality
  <2>3. FinalizedByChild \subseteq FinalizedBlocks
    <3>1. ASSUME NEW c \in Delivered \cap CertifiedByChild, BlockView[BlockQC[c]] + 1 = BlockView[c]
          PROVE  BlockQC[c] \in FinalizedBlocks
      <4>1. c # Root /\ BlockQC[c] \in CertifiedByChild
        BY Zenon, DeliveredBlocks DEF CertifiedByChild
      <4> QED
        BY Zenon, <2>1, <3>1, <4>1 DEF FinalizedBlocks
    <3> QED
      BY Zenon, <3>1 DEF FinalizedByChild, FinalizedBlocks
  <2> QED
    BY Zenon, <2>1, <2>2, <2>3 DEF ConsensusIsSafe, AtMostOneCertifiedBlockPerView, CertifiedExtendsFinalized
<1> QED
  BY <1>1, SafetyInvariantHolds, PTL

(* The committee and the follower together: once the certificates that a   *)
(* follower receives are backed by votes of a committee that follows       *)
(* SafetyRules, the follower has not thrown.                               *)
THEOREM FollowerOfSafeCommittee ==
    SafetyRulesSpec /\ FollowerSpec
        => [](CertifiedByChild \subseteq CertifiedBlocks => NoFollowerException)
<1>1. CASE ConsensusIsSafe
  BY <1>1, FollowerNeverThrows, PTL
<1>2. CASE ~ConsensusIsSafe
  BY <1>2, CommitteeMakesFollowerSafe, PTL
<1> QED
  BY Zenon, <1>1, <1>2
=============================================================================
