----------------------------- MODULE Ingestion -----------------------------
(***************************************************************************)
(* engine/execution/ingestion/core.go and machine.go: an execution node    *)
(* receives blocks from the protocol state and collections from the        *)
(* network, and executes every block once its parent is executed and its   *)
(* collections are there.  The threads are the protocol state's two        *)
(* callbacks, the goroutine that consumes the processable blocks, the      *)
(* workers that execute blocks, and one goroutine per received collection. *)
(* A ready block is handed to an idle worker over an unbuffered channel.   *)
(***************************************************************************)
EXTENDS Throttle, Bags

CONSTANTS MaxConcurrentBlockExecutor,
          MaxCrashes,     \* bound: number of crashes
          NoBlock

ASSUME IngestionAssumption ==
    /\ {MaxConcurrentBlockExecutor, MaxCrashes} \subseteq Nat
    /\ NoBlock \notin Blocks

Senders == {"consumer"} \cup Collections

\* A worker that executes a block, with the executables it has to hand over.
WorkerType == [block : Blocks, pc : {"execute", "saved", "throttle"}, executables : SUBSET Blocks]

VARIABLES known, final,       \* the protocol state: blocks and latest finalized block
          results,            \* the blocks whose execution results are saved
          lastExecuted,       \* the last executed block, recorded after its results
          stored,             \* storage.Collections
          extended,           \* a block whose BlockProcessable callback is under way
          finalizing,         \* a block whose BlockFinalized callback is under way
          throttle, processables, queue,
          step,               \* what the consumer does next
          block,              \* what the consumer is processing
          parentExecuted,     \* whether the consumer has seen the parent's commitment
          missing,            \* the collections the consumer has still to look up
          requested,          \* the collections requested from the network
          handler,            \* the goroutine of each collection
          sending,            \* the executables these goroutines have still to hand over
          working,            \* the bag of workers that are not idle
          failed,             \* whether a thread has thrown an exception
          repeated,           \* history: the blocks that were executed again
          loads,              \* history: the blocks loaded since the start of the process
          reloads,            \* history: the blocks loaded again, without a crash in between
          crashes

persisted == <<known, final, results, lastExecuted, stored, crashes, repeated>>
loader == <<throttle, processables, loads, reloads>>
callbacks == <<extended, finalizing>>
consumerVars == <<step, block, parentExecuted, missing>>
network == <<requested, handler>>
ingestionVars == <<persisted, callbacks, loader, queue, consumerVars, network,
                   sending, working, failed>>

\* GetHighestFinalizedExecuted (without storehouse) takes the lower height of
\* the latest finalized and the last executed block, and returns an error,
\* with which the node does not start, if the finalized block there is not
\* executed.
HighestFinalizedExecuted ==
    IF Height[final] < Height[lastExecuted] THEN Height[final] ELSE Height[lastExecuted]

CanStart == FinalizedAt(final, HighestFinalizedExecuted) \in results

\* NewMachine and NewCore
NewCore ==
    LET init == InitThrottle(final, known, HighestFinalizedExecuted)
    IN  /\ throttle = init.throttle /\ processables = init.blocks /\ loads = Range(init.blocks)
        /\ queue = NewBlockQueue
        /\ step = "idle" /\ block = NoBlock /\ parentExecuted = FALSE /\ missing = {}
        /\ extended = NoBlock /\ finalizing = NoBlock
        /\ requested = {} /\ handler = [c \in Collections |-> "idle"]
        /\ working = EmptyBag
        /\ sending = [t \in Senders |-> {}]

\* The node has executed the root, and may be any number of blocks behind.
IngestionInit ==
    /\ known \in {K \in SUBSET Blocks : Root \in K /\ \A b \in K : Ancestry[b] \subseteq K}
    /\ final \in known
    /\ results = {Root} /\ lastExecuted = Root /\ stored = {} /\ crashes = 0
    /\ repeated = {} /\ reloads = {}
    /\ failed = FALSE
    /\ NewCore
-----------------------------------------------------------------------------
(***************************************************************************)
(* The protocol state.  Its callbacks run after the block is stored, in a  *)
(* thread of their own each; BlockProcessable is emitted once per block.   *)
(***************************************************************************)
\* the throttle sends blocks to processables
Load(load) ==
    /\ throttle' = load.throttle
    /\ processables' = processables \o load.blocks
    /\ loads' = loads \cup Range(load.blocks)
    /\ reloads' = reloads \cup (loads \cap Range(load.blocks))

\* FollowerState.ExtendCertified, which accepts orphaned blocks
Extend(b) ==
    /\ extended = NoBlock
    /\ b \notin known /\ Parent[b] \in known
    /\ known' = known \cup {b} /\ extended' = b
    /\ UNCHANGED <<final, results, lastExecuted, stored, crashes, repeated, finalizing, loader, queue,
                   consumerVars, network, sending, working, failed>>

BlockProcessable ==
    LET load == ThrottleOnBlock(throttle, extended)
    IN  /\ extended # NoBlock
        /\ Load(load)
        /\ extended' = NoBlock
        /\ UNCHANGED <<persisted, finalizing, queue, consumerVars, network, sending, working,
                       failed>>

\* FollowerState.Finalize
Finalize(b) ==
    /\ finalizing = NoBlock
    /\ b \in known \ {Root} /\ Parent[b] = final
    /\ final' = b /\ finalizing' = b
    /\ UNCHANGED <<known, results, lastExecuted, stored, crashes, repeated, extended, loader, queue,
                   consumerVars, network, sending, working, failed>>

BlockFinalized ==
    /\ finalizing # NoBlock
    /\ throttle' = ThrottleOnBlockFinalized(throttle, Height[finalizing])
    /\ finalizing' = NoBlock
    /\ UNCHANGED <<persisted, extended, processables, loads, reloads, queue, consumerVars, network,
                   working, sending, failed>>
-----------------------------------------------------------------------------
(***************************************************************************)
(* launchWorkerToConsumeThrottledBlocks and onProcessableBlock             *)
(***************************************************************************)
\* Mutant: a block is taken although it is executed.
TakeProcessableUnchecked ==
    /\ step = "idle" /\ processables # <<>>
    /\ processables' = Tail(processables)
    /\ step' = "parent" /\ block' = Head(processables)
    /\ UNCHANGED <<persisted, callbacks, throttle, loads, reloads, queue, parentExecuted, missing,
                   network, working, sending, failed>>

\* take a block, unless it is executed already
TakeProcessable ==
    LET b == Head(processables)
    IN  /\ step = "idle" /\ processables # <<>>
        /\ processables' = Tail(processables)
        /\ IF b \in results THEN UNCHANGED <<step, block>>
                            ELSE step' = "parent" /\ block' = b
        /\ UNCHANGED <<persisted, callbacks, throttle, loads, reloads, queue, parentExecuted,
                       missing, network, working, sending, failed>>

\* enqueuBlock: StateCommitmentByBlockID of the parent
ReadParent ==
    /\ step = "parent"
    /\ parentExecuted' = (Parent[block] \in results)
    /\ step' = "enqueue"
    /\ UNCHANGED <<persisted, callbacks, loader, queue, block, missing, network, working, sending,
                   failed>>

\* Mutant: a missing parent is an exception at once.
EnqueueOnce ==
    LET r == HandleBlock(queue, block, parentExecuted)
    IN  /\ step = "enqueue"
        /\ queue' = r.queue /\ missing' = r.missing
        /\ sending' = [sending EXCEPT !["consumer"] = r.executables]
        /\ step' = "fetch"
        /\ failed' = (r.err # "none")
        /\ UNCHANGED <<persisted, callbacks, loader, block, parentExecuted, network, working>>

\* enqueuBlock: HandleBlock
Enqueue ==
    LET r == HandleBlock(queue, block, parentExecuted)
    IN  /\ step = "enqueue"
        /\ queue' = r.queue /\ missing' = r.missing
        /\ sending' = [sending EXCEPT !["consumer"] = r.executables]
        /\ step' = IF r.err = "missing parent" THEN "reread" ELSE "fetch"
        /\ failed' = (r.err = "parent in queue")
        /\ UNCHANGED <<persisted, callbacks, loader, block, parentExecuted, network, working>>

\* enqueuBlock: the parent must have been executed since
RereadParent ==
    /\ step = "reread"
    /\ IF Parent[block] \in results
          THEN step' = "enqueue" /\ parentExecuted' = TRUE /\ UNCHANGED failed
          ELSE failed' = TRUE /\ UNCHANGED <<step, parentExecuted>>
    /\ UNCHANGED <<persisted, callbacks, loader, queue, block, missing, network, working, sending>>

\* Mutant: a collection that is stored is neither requested nor handled.
FetchSkippingStored(c) ==
    /\ step = "fetch" /\ sending["consumer"] = {} /\ c \in missing
    /\ missing' = missing \ {c}
    /\ requested' = requested \cup ({c} \ stored)
    /\ UNCHANGED <<persisted, callbacks, loader, queue, step, block, parentExecuted, handler,
                   sending, working, failed>>

\* fetch, one collection, after the executables were handed over
Fetch(c) ==
    LET r == HandleCollection(queue, c)
    IN  /\ step = "fetch" /\ sending["consumer"] = {} /\ c \in missing
        /\ missing' = missing \ {c}
        /\ IF c \in stored
              THEN /\ queue' = r.queue
                   /\ sending' = [sending EXCEPT !["consumer"] = r.executables]
                   /\ UNCHANGED requested
              ELSE requested' = requested \cup {c} /\ UNCHANGED <<queue, sending>>
        /\ UNCHANGED <<persisted, callbacks, loader, step, block, parentExecuted, handler, working,
                       failed>>

Processed ==
    /\ step = "fetch" /\ sending["consumer"] = {} /\ missing = {}
    /\ step' = "idle" /\ block' = NoBlock
    /\ UNCHANGED <<persisted, callbacks, loader, queue, parentExecuted, missing, network, sending,
                   working, failed>>
-----------------------------------------------------------------------------
(***************************************************************************)
(* onCollection: the collection is stored, then given to the queue.  A     *)
(* collection that was requested may arrive more than once.                *)
(***************************************************************************)
StoreCollection(c) ==
    /\ c \in requested /\ handler[c] = "idle"
    /\ stored' = stored \cup {c}
    /\ handler' = [handler EXCEPT ![c] = "handle"]
    /\ UNCHANGED <<known, final, results, lastExecuted, crashes, repeated, callbacks, loader, queue,
                   consumerVars, requested, sending, working, failed>>

OnCollection(c) ==
    LET r == HandleCollection(queue, c)
    IN  /\ handler[c] = "handle" /\ sending[c] = {}
        /\ queue' = r.queue
        /\ sending' = [sending EXCEPT ![c] = r.executables]
        /\ handler' = [handler EXCEPT ![c] = "idle"]
        /\ UNCHANGED <<persisted, callbacks, loader, consumerVars, requested, working, failed>>
-----------------------------------------------------------------------------
(***************************************************************************)
(* executeConcurrently and launchWorkerToExecuteBlocks                     *)
(***************************************************************************)
SomeWorkerIsIdle == BagCardinality(working) < MaxConcurrentBlockExecutor

Started(b) == [block |-> b, pc |-> "execute", executables |-> {}]

\* a worker joins or leaves those that are not idle
Joined(workers, w) == workers (+) SetToBag({w})
Left(workers, w) == workers (-) SetToBag({w})

\* the consumer or the goroutine of a collection hands a block over
Hand(t, b) ==
    /\ SomeWorkerIsIdle /\ b \in sending[t]
    /\ sending' = [sending EXCEPT ![t] = @ \ {b}]
    /\ working' = Joined(working, Started(b))
    /\ UNCHANGED <<persisted, callbacks, loader, queue, consumerVars, network, failed>>

Replaced(w, next) == Joined(Left(working, w), next)

\* onBlockExecuted: a worker hands over
HandFrom(w, b) ==
    /\ SomeWorkerIsIdle /\ b \in w.executables
    /\ working' = Joined(Replaced(w, [w EXCEPT !.executables = @ \ {b}]), Started(b))
    /\ UNCHANGED <<persisted, callbacks, loader, queue, consumerVars, network, sending, failed>>

\* ExecuteBlock, which needs the parent's result, and saveExecutionResults
Execute(w) ==
    /\ w.pc = "execute"
    /\ failed' = (Parent[w.block] \notin results)
    /\ results' = results \cup {w.block}
    /\ repeated' = repeated \cup ({w.block} \cap results)
    /\ working' = Replaced(w, [w EXCEPT !.pc = "saved"])
    /\ UNCHANGED <<known, final, lastExecuted, stored, crashes, callbacks, loader, queue,
                   consumerVars, network, sending>>

\* UpdateLastExecutedBlock, which only the next process reads, and
\* onBlockExecuted: the queue
MarkExecuted(w) ==
    LET r == OnBlockExecuted(queue, w.block)
    IN  /\ w.pc = "saved"
        /\ lastExecuted' = w.block
        /\ queue' = r.queue
        /\ failed' = (r.err # "none")
        /\ working' = Replaced(w, [w EXCEPT !.pc = "throttle", !.executables = r.executables])
        /\ UNCHANGED <<known, final, results, stored, crashes, repeated, callbacks, loader,
                       consumerVars, network, sending>>

\* onBlockExecuted: the throttle, once all executables are handed over
LoadNext(w) ==
    /\ w.pc = "throttle" /\ w.executables = {}
    /\ Load(ThrottleOnBlockExecuted(throttle, final, known))
    /\ working' = Left(working, w)
    /\ UNCHANGED <<persisted, callbacks, queue, consumerVars, network, sending, failed>>
-----------------------------------------------------------------------------
\* The process ends at any point; a new one starts from what is stored, if
\* it can.
Crash ==
    /\ crashes < MaxCrashes
    /\ UNCHANGED <<known, final, results, lastExecuted, stored, repeated, reloads>>
    /\ failed' = ~CanStart
    /\ crashes' = crashes + 1
    /\ LET init == InitThrottle(final, known, HighestFinalizedExecuted)
       IN  /\ throttle' = init.throttle /\ processables' = init.blocks
           /\ loads' = Range(init.blocks)
    /\ queue' = NewBlockQueue
    /\ step' = IF CanStart THEN "idle" ELSE "down"
    /\ block' = NoBlock /\ parentExecuted' = FALSE /\ missing' = {}
    /\ extended' = NoBlock /\ finalizing' = NoBlock
    /\ requested' = {} /\ handler' = [c \in Collections |-> "idle"]
    /\ working' = EmptyBag
    /\ sending' = [t \in Senders |-> {}]

consume == TakeProcessable \/ ReadParent \/ Enqueue \/ RereadParent
              \/ (\E c \in Collections : Fetch(c)) \/ Processed

execute ==
    \/ \E b \in Blocks : \E t \in Senders : Hand(t, b)
    \/ \E w \in BagToSet(working) : \/ \E b \in Blocks : HandFrom(w, b)
                          \/ Execute(w) \/ MarkExecuted(w) \/ LoadNext(w)

\* The steps of the node's own goroutines and of the callbacks.
advance == BlockProcessable \/ BlockFinalized \/ consume \/ execute

receive(c) == StoreCollection(c) \/ OnCollection(c)

IngestionNext ==
    /\ ~failed
    /\ \/ \E b \in Blocks \ {Root} : Extend(b) \/ Finalize(b)
       \/ advance
       \/ \E c \in Collections : receive(c)
       \/ Crash

IngestionSpec == IngestionInit /\ [][IngestionNext]_ingestionVars

\* Requests are answered, and as long as goroutines can do something, some of
\* them do.  Blocks need not come, nor be finalized.
IngestionFairSpec ==
    /\ IngestionSpec
    /\ WF_ingestionVars(~failed /\ advance)
    /\ \A c \in Collections : WF_ingestionVars(~failed /\ receive(c))
-----------------------------------------------------------------------------
\* Neither finalized nor extending the latest finalized block.
Orphaned(b) == b \notin Ancestry[final] /\ final \notin Ancestry[b]

(***************************************************************************)
(* On account of the chain that is being finalized, no goroutine throws: a *)
(* block whose parent is in neither the queue nor the execution state, a   *)
(* block that is executed before its parent, or a parent that is still     *)
(* queued when its child is executed would stop the node.  Orphaned blocks *)
(* do stop it in two ways: a child of a fork that the throttle has passed  *)
(* over has no parent in the queue, and a node whose last executed block   *)
(* is orphaned may not be able to start again.                             *)
(***************************************************************************)
OnlyOrphansStopTheNode ==
    failed => \/ step = "reread" /\ Orphaned(block)
              \/ step = "down" /\ Orphaned(lastExecuted)

(***************************************************************************)
(* What the comment in enqueuBlock says of a parent that is in neither:    *)
(* "parent was enqueued, but it has been executed and removed from the     *)
(* block queue" is "the only possible case here".  Not so for a child of a *)
(* fork that the throttle has passed over while it was catching up.        *)
(***************************************************************************)
MissingParentIsExecuted == step = "reread" => Parent[block] \in results

(***************************************************************************)
(* Half of the consistency checks listed at BlockQueue.blocks: a queued    *)
(* block has its start state or waits for a parent in the queue, and the   *)
(* parent of a block with a start state is executed, although results are  *)
(* saved, the queue is told and children are enqueued in separate steps of *)
(* different goroutines.  No block waits for a parent that has gone.       *)
(***************************************************************************)
NothingIsStranded ==
    /\ \A b \in queue.blocks : b \in queue.started \/ Parent[b] \in queue.blocks
    /\ \A b \in queue.started : Parent[b] \in results
    /\ queue.received \subseteq Included(queue.blocks)

(***************************************************************************)
(* All of them: in addition, a block has no start state as long as its     *)
(* parent is queued, although a block may be loaded a second time.         *)
(***************************************************************************)
QueueIsConsistent ==
    /\ NothingIsStranded
    /\ queue.started \subseteq queue.blocks
    /\ \A b \in queue.started : Parent[b] \notin queue.blocks

WorkersWith(P(_)) == BagCardinality([w \in {v \in BagToSet(working) : P(v)} |-> working[w]])

\* How many goroutines are going to execute a block.
Dispatched(b) ==
    Cardinality({t \in Senders : b \in sending[t]})
      + WorkersWith(LAMBDA w : b \in w.executables)
      + WorkersWith(LAMBDA w : w.block = b /\ w.pc = "execute")

(***************************************************************************)
(* A block that has become executable is returned by exactly one of the    *)
(* queue's operations (a new block, its last collection, its parent's      *)
(* result), whichever happens last in whichever goroutine: until it is     *)
(* executed it is on its way to one worker, neither forgotten nor handed   *)
(* to two, and no other block is.                                          *)
(***************************************************************************)
ExecutablesAreDispatched ==
    \A b \in Blocks :
        LET executable == b \in queue.blocks /\ IsComplete(queue, b)
        IN  /\ executable /\ b \notin results => Dispatched(b) = 1
            /\ ~executable => Dispatched(b) = 0

(***************************************************************************)
(* A block is executed once ("both A and B will be executed only once",    *)
(* HandleBlock), after crashes as well, unless the throttle has loaded it  *)
(* twice: while execution catches up, a block may be stored, loaded as a   *)
(* pending block, and then be announced by BlockProcessable.               *)
(***************************************************************************)
ExecutedOnce == repeated \subseteq reloads

\* A restart went back to a last executed block so far behind that all the
\* blocks the throttle has loaded were executed before: as the next one is
\* loaded when one has been executed, none will be.
Stalled ==
    /\ crashes > 0
    /\ ~caughtUp(throttle)
    /\ \A b \in Ancestry[final] : Height[b] <= throttle.loaded => b \in results

(***************************************************************************)
(* Every block that is not orphaned is executed in the end, as long as the *)
(* node runs: none is lost between the throttle, the queue, the            *)
(* collections that arrive while they are looked up, and crashes.          *)
(***************************************************************************)
EveryBlockIsExecuted ==
    <>[](failed \/ Stalled \/ \A b \in known : Orphaned(b) \/ b \in results)
=============================================================================
