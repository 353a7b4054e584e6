------------------------------ MODULE Follower ------------------------------
(***************************************************************************)
(* The consensus follower of the nodes that do not vote: the compliance    *)
(* engine and core of engine/common/follower, which turn the blocks        *)
(* received from the network into certified blocks connected to the        *)
(* finalized ones, and the follower loop of consensus/hotstuff, which      *)
(* gives them to Forks.  Goroutines: workers that process batches          *)
(* concurrently (processConnectedBatch), the core's own                    *)
(* (processCoreSeqEvents), the follower loop, and the one that announces   *)
(* finalization back to cache and tree (finalizationProcessingLoop).       *)
(***************************************************************************)
EXTENDS Forks, PendingTree, FollowerCache

CONSTANTS Batches,           \* connected ranges of blocks the network delivers
          RangesCapacity,    \* defaultCertifiedRangeChannelCapacity
          FinalizedCapacity, \* defaultFinalizedBlocksChannelCapacity
          FollowerCapacity,  \* capacity of FollowerLoop.certifiedBlocks
          MaxCrashes         \* bound on the number of crashes

\* The blocks that may be received, and those that one of them certifies: it
\* carries the QC for its parent, which the validator has checked.
Delivered == UNION {Range(s) : s \in Batches}

CertifiedByChild == {BlockQC[b] : b \in Delivered}

\* A certified block whose certified child is of the next view finalizes.
FinalizedByChild ==
    {Root} \cup {BlockQC[b] : b \in {c \in Delivered \cap CertifiedByChild :
                                        BlockView[BlockQC[c]] + 1 = BlockView[c]}}

\* Only batches in which every block is the parent of the next one are submitted.
ASSUME BatchesAssumption ==
    /\ Batches \subseteq Seq(Blocks \ {Root}) \ {<<>>}
    /\ \A s \in Batches : \A i \in 2 .. Len(s) : BlockQC[s[i]] = s[i - 1]

\* What the consensus committee promises (AtMostOneCertifiedBlockPerView and
\* CertifiedExtendsFinalized of SafetyRules) about the blocks with a QC.
ConsensusIsSafe ==
    /\ \A b, c \in CertifiedByChild \cup {Root} : BlockView[b] = BlockView[c] => b = c
    /\ \A b \in FinalizedByChild, c \in CertifiedByChild \cup {Root} :
          BlockView[b] <= BlockView[c] => b \in Ancestors[c]

VARIABLES batch,       \* for each batch, the step it waits for and what is left of it
          cache,       \* ComplianceCore.pendingCache
          ranges,      \* certifiedRangesChan
          finalizedCh, \* finalizedBlocksChan
          tree,        \* ComplianceCore.pendingTree
          connected,   \* the core's goroutine: blocks it still has to forward
          stored,      \* blocks of the protocol state (persistent)
          incoming,    \* FollowerLoop.certifiedBlocks
          forks,       \* Forks; its finalized block is also the protocol state's
          notified,    \* finalizedBlockNotifier
          announcing,  \* the finalization goroutine's header to send, or Nil
          exception,   \* some goroutine has called ctx.Throw
          crashes

folVars == <<batch, cache, ranges, finalizedCh, tree, connected, stored, incoming,
             forks, notified, announcing, exception, crashes>>

\* What the compliance layer starts with, given the latest finalized block.
AllInNetwork == [s \in Batches |-> [step |-> "network", blocks |-> <<>>]]

PrunedCache(finalized) == PruneUpToView(NewCache, BlockView[finalized])

FollowerInit ==
    /\ forks = NewForks(Root)
    /\ tree = NewPendingTree(Root)
    /\ cache = PrunedCache(Root)
    /\ batch = AllInNetwork
    /\ ranges = <<>> /\ finalizedCh = <<>> /\ incoming = <<>>
    /\ connected = {}
    /\ notified = FALSE
    /\ announcing = Nil
    /\ stored = {Root}
    /\ exception = FALSE
    /\ crashes = 0

-----------------------------------------------------------------------------
(* The workers that process batches. *)

At(s, step, blocks) == batch' = [batch EXCEPT ![s] = [step |-> step, blocks |-> blocks]]

\* processQueuedBlocks and submitConnectedBatch: batches below the latest
\* finalized view are dropped.
submitConnectedBatch(s) ==
    /\ batch[s].step = "network"
    /\ IF BlockView[s[Len(s)]] < FinalizedView(forks) THEN At(s, "done", <<>>)
       ELSE At(s, "submitted", s)
    /\ UNCHANGED <<cache, ranges, finalizedCh, tree, connected, stored, incoming,
                   forks, notified, announcing, exception, crashes>>

\* OnBlockRange up to the cache's lock; lowestView is read without it.
TrimBatch(s) ==
    LET rest == trimLeadingBlocksBelowPruningThreshold(cache, batch[s].blocks)
    IN  /\ batch[s].step = "submitted"
        /\ At(s, IF rest = <<>> THEN "done" ELSE "trimmed", rest)
        /\ UNCHANGED <<cache, ranges, finalizedCh, tree, connected, stored, incoming,
                       forks, notified, announcing, exception, crashes>>

AddToCache(s) ==
    /\ batch[s].step = "trimmed"
    /\ \E child \in batchChildren(cache, batch[s].blocks) :
         LET certified == certifiedBatch(cache, batch[s].blocks, child)
         IN  At(s, IF certified = <<>> THEN "done" ELSE "certified", certified)
    /\ cache' = unsafeAtomicAdd(cache, batch[s].blocks)
    /\ UNCHANGED <<ranges, finalizedCh, tree, connected, stored, incoming, forks,
                   notified, announcing, exception, crashes>>

\* The end of OnBlockRange: the worker blocks while the channel is full.
SendRange(s) ==
    /\ batch[s].step = "certified"
    /\ Len(ranges) < RangesCapacity
    /\ ranges' = Append(ranges, batch[s].blocks)
    /\ At(s, "done", <<>>)
    /\ UNCHANGED <<cache, finalizedCh, tree, connected, stored, incoming, forks,
                   notified, announcing, exception, crashes>>

-----------------------------------------------------------------------------
(* The core's goroutine. *)

processCertifiedBlocks ==
    /\ connected = {} /\ ranges # <<>>
    /\ LET t == AddCertifiedBlocks(tree, Head(ranges))
       IN  /\ tree' = [t EXCEPT !.output = {}]
           /\ connected' = IF t.failed THEN {} ELSE t.output
           /\ exception' = (exception \/ t.failed)
    /\ ranges' = Tail(ranges)
    /\ UNCHANGED <<batch, cache, finalizedCh, stored, incoming, forks, notified,
                   announcing, crashes>>

\* The loop of processCertifiedBlocks, for a block whose parent was forwarded:
\* ExtendCertified fails if the parent is not in the protocol state; then the
\* block is sent to the follower loop.
ForwardBlock(b) ==
    /\ b \in connected /\ BlockQC[b] \notin connected
    /\ Len(incoming) < FollowerCapacity
    /\ connected' = connected \ {b}
    /\ IF BlockQC[b] \in stored
          THEN /\ stored' = stored \cup {b}
               /\ incoming' = Append(incoming, b)
               /\ UNCHANGED exception
          ELSE exception' = TRUE /\ UNCHANGED <<stored, incoming>>
    /\ UNCHANGED <<batch, cache, ranges, finalizedCh, tree, forks, notified, announcing,
                   crashes>>

\* It is an exception if the tree connects further blocks.
processFinalizedBlock ==
    /\ connected = {} /\ finalizedCh # <<>>
    /\ LET t == FinalizeFork(tree, Head(finalizedCh))
       IN  /\ tree' = [t EXCEPT !.output = {}]
           /\ exception' = (exception \/ t.output # {})
    /\ finalizedCh' = Tail(finalizedCh)
    /\ UNCHANGED <<batch, cache, ranges, connected, stored, incoming, forks, notified,
                   announcing, crashes>>

-----------------------------------------------------------------------------
(* The follower loop, and the goroutine that announces finalization. *)

\* Mutant: a finalization is dropped while the previous one is being announced.
loopUnlessAnnouncing ==
    /\ incoming # <<>>
    /\ forks' = AddCertifiedBlock(forks, Head(incoming))
    /\ incoming' = Tail(incoming)
    /\ exception' = (exception \/ forks'.failed)
    /\ notified' = (notified \/ (announcing = Nil /\ forks'.finalized # forks.finalized))
    /\ UNCHANGED <<batch, cache, ranges, finalizedCh, tree, connected, stored,
                   announcing, crashes>>

\* FollowerLoop.loop, with the callback onFinalizedBlock if Forks finalizes.
loop ==
    /\ incoming # <<>>
    /\ forks' = AddCertifiedBlock(forks, Head(incoming))
    /\ incoming' = Tail(incoming)
    /\ exception' = (exception \/ forks'.failed)
    /\ notified' = (notified \/ forks'.finalized # forks.finalized)
    /\ UNCHANGED <<batch, cache, ranges, finalizedCh, tree, connected, stored,
                   announcing, crashes>>

\* finalizationProcessingLoop up to the send in ComplianceCore.OnFinalizedBlock.
finalizationProcessingLoop ==
    /\ notified /\ announcing = Nil
    /\ notified' = FALSE
    /\ cache' = PruneUpToView(cache, FinalizedView(forks))
    /\ announcing' = forks.finalized
    /\ UNCHANGED <<batch, ranges, finalizedCh, tree, connected, stored, incoming, forks,
                   exception, crashes>>

SendFinalized ==
    /\ announcing # Nil
    /\ Len(finalizedCh) < FinalizedCapacity
    /\ finalizedCh' = Append(finalizedCh, announcing)
    /\ announcing' = Nil
    /\ UNCHANGED <<batch, cache, ranges, tree, connected, stored, incoming, forks,
                   notified, exception, crashes>>

-----------------------------------------------------------------------------
(* Crash and recovery. *)

\* Blocks are finalized one by one in the protocol state, so a process may end
\* with some of the blocks finalized that Forks is finalizing.
PersistedFinal ==
    {forks.finalized} \cup
        (IF incoming = <<>> THEN {}
         ELSE LET f == AddCertifiedBlock(forks, Head(incoming))
              IN  {b \in Ancestors[f.finalized] : BlockView[b] > FinalizedView(forks)})

\* consensus.NewFollower recovers Forks from the stored descendants of the
\* finalized block; then the compliance core is created.  All batches may be
\* received again (synchronization).
CrashAndRestart(final) ==
    /\ crashes < MaxCrashes
    /\ final \in PersistedFinal
    /\ forks' = RecoverForks(final, {b \in stored \ {final} : final \in Ancestors[b]})
    /\ exception' = (exception \/ forks'.failed)
    /\ tree' = NewPendingTree(forks'.finalized)
    /\ cache' = PrunedCache(forks'.finalized)
    /\ batch' = AllInNetwork
    /\ ranges' = <<>> /\ finalizedCh' = <<>> /\ incoming' = <<>>
    /\ connected' = {}
    /\ notified' = FALSE
    /\ announcing' = Nil
    /\ crashes' = crashes + 1
    /\ UNCHANGED stored

\* One step of some goroutine.
Work ==
    \/ \E s \in Batches : submitConnectedBatch(s) \/ TrimBatch(s) \/ AddToCache(s)
                          \/ SendRange(s)
    \/ processCertifiedBlocks
    \/ \E b \in Blocks : ForwardBlock(b)
    \/ processFinalizedBlock
    \/ loop
    \/ finalizationProcessingLoop
    \/ SendFinalized

FollowerNext == Work \/ \E final \in Blocks : CrashAndRestart(final)

FollowerSpec == FollowerInit /\ [][FollowerNext]_folVars

\* Every goroutine that can take a step does so eventually, and every batch is
\* delivered (again) by the synchronization protocol.
FollowerFairSpec == FollowerSpec /\ WF_folVars(Work)

-----------------------------------------------------------------------------
(* Properties. *)

\* No goroutine of the follower throws: whatever the order in which workers
\* finish their batches and finalization is announced, also after a crash
\* between storing and finalizing, blocks reach the protocol state and Forks
\* after their parents, and finalization never connects further blocks.
NoFollowerException == ~exception

\* Every block that is certified by a received child reaches Forks in the end,
\* unless finalization has passed it: no worker, queue or pruning loses it.
CertifiedBlocksReachForks ==
    <>[](\A b \in Delivered \cap CertifiedByChild :
            b \in forks.blocks \/ BlockView[b] < FinalizedView(forks))

\* The latest finalized block reaches the cache and the tree in the end,
\* although notifications are coalesced and channels are bounded.
FinalityReachesCore ==
    <>[](/\ cache.lowestView = FinalizedView(forks)
         /\ tree.lastFinalized = forks.finalized)
=============================================================================
