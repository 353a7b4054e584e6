----------------------------- MODULE BlockQueue ----------------------------
(***************************************************************************)
(* engine/execution/ingestion/block_queue: the blocks an execution node    *)
(* has received and not executed yet, and the collections they wait for.   *)
(* The queue is a record of                                                *)
(*   blocks    the queued blocks                                           *)
(*   started   those whose StartState is known: the parent is executed     *)
(*   received  the indexed collections that have been received             *)
(* A collection is indexed as long as a queued block includes it.  The     *)
(* state commitment is a function of the block, so that of a commitment    *)
(* only its presence is kept.  Every operation holds the queue's mutex and *)
(* returns the queue, the missing collections, the executable blocks and   *)
(* an error.                                                               *)
(***************************************************************************)
EXTENDS Integers

CONSTANTS Blocks, Root,       \* the root block has been executed
          Parent,             \* the parent of every other block
          Collections,
          Guarantees          \* the collections included in each block

ASSUME BlockQueueAssumption ==
    /\ Root \in Blocks
    /\ Parent \in [Blocks \ {Root} -> Blocks]
    /\ \A b \in Blocks \ {Root} : Parent[b] # b
    /\ Guarantees \in [Blocks -> SUBSET Collections]

QueueType == [blocks : SUBSET Blocks, started : SUBSET Blocks, received : SUBSET Collections]

NewBlockQueue == [blocks |-> {}, started |-> {}, received |-> {}]

Included(blocks) == UNION {Guarantees[b] : b \in blocks}

IsComplete(q, b) == b \in q.started /\ Guarantees[b] \subseteq q.received

Result(q, missing, executables, err) ==
    [queue |-> q, missing |-> missing, executables |-> executables, err |-> err]

\* onBlockExecuted and checkIfChildBlockBecomeExecutable
OnBlockExecuted(q, b) ==
    LET rest     == q.blocks \ {b}
        children == {c \in rest : Parent[c] = b}
        new      == [blocks   |-> rest,
                     started  |-> (q.started \cup children) \ {b},
                     received |-> q.received \cap Included(rest)]
    IN  CASE b \notin q.blocks -> Result(q, {}, {}, "none")
          [] b \in q.blocks /\ Parent[b] \in q.blocks -> Result(q, {}, {}, "parent in queue")
          [] OTHER -> Result(new, {}, {c \in children : IsComplete(new, c)}, "none")

\* A block is queued a second time: only news of its parent matter.
handleKnownBlock(q, b, parentExecuted) ==
    IF b \notin q.started /\ parentExecuted THEN OnBlockExecuted(q, Parent[b])
                                            ELSE Result(q, {}, {}, "none")

\* Mutant: a commitment is believed although the parent is still queued.
HandleBlockStarted(q, b, parentExecuted) ==
    LET new == [q EXCEPT !.blocks = @ \cup {b},
                         !.started = IF parentExecuted THEN @ \cup {b} ELSE @]
    IN  CASE b \in q.blocks -> handleKnownBlock(q, b, parentExecuted)
          [] b \notin q.blocks /\ ~parentExecuted /\ Parent[b] \notin q.blocks ->
                Result(q, {}, {}, "missing parent")
          [] OTHER -> Result(new, Guarantees[b] \ Included(q.blocks),
                             {c \in {b} : IsComplete(new, c)}, "none")

\* While the parent is in the queue its commitment is ignored, so that the
\* block is started by OnBlockExecuted of the parent only.
HandleBlock(q, b, parentExecuted) ==
    LET start == parentExecuted /\ Parent[b] \notin q.blocks
        new   == [q EXCEPT !.blocks = @ \cup {b},
                           !.started = IF start THEN @ \cup {b} ELSE @]
    IN  CASE b \in q.blocks -> handleKnownBlock(q, b, parentExecuted)
          [] b \notin q.blocks /\ ~parentExecuted /\ Parent[b] \notin q.blocks ->
                Result(q, {}, {}, "missing parent")
          [] OTHER -> Result(new, Guarantees[b] \ Included(q.blocks),
                             {c \in {b} : IsComplete(new, c)}, "none")

\* Mutant: a collection that was received before is handled again.
HandleCollectionAgain(q, c) ==
    LET new == [q EXCEPT !.received = @ \cup {c}]
    IN  IF c \in Included(q.blocks)
           THEN Result(new, {}, {b \in q.blocks : c \in Guarantees[b] /\ IsComplete(new, b)}, "none")
           ELSE Result(q, {}, {}, "none")

\* A collection is given to the queue at most once.
HandleCollection(q, c) ==
    LET new == [q EXCEPT !.received = @ \cup {c}]
    IN  IF c \in Included(q.blocks) \ q.received
           THEN Result(new, {}, {b \in q.blocks : c \in Guarantees[b] /\ IsComplete(new, b)}, "none")
           ELSE Result(q, {}, {}, "none")
=============================================================================
