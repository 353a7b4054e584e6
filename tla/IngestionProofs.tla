--------------------------- MODULE IngestionProofs ---------------------------
(***************************************************************************)
(* Proofs, for every tree of blocks and set of collections, that the block *)
(* queue of the execution node returns every block that becomes            *)
(* executable, once, and that a node which crashes and restarts at any     *)
(* time executes no block before its parent.                               *)
(***************************************************************************)
EXTENDS Ingestion, TLAPS

-----------------------------------------------------------------------------
(***************************************************************************)
(* The block queue of the execution node.                                  *)
(***************************************************************************)
Executable(q) == {b \in q.blocks : IsComplete(q, b)}

\* The consistency checks listed at BlockQueue.blocks, of the queue alone.
Consistent(q) ==
    /\ q \in QueueType /\ Root \notin q.blocks
    /\ q.started \subseteq q.blocks /\ q.received \subseteq Included(q.blocks)
    /\ \A b \in q.blocks : b \in q.started <=> Parent[b] \notin q.blocks

\* The answer r of an operation on q is exact: the executables returned are
\* the blocks that the operation has made executable, and a block that was
\* executable remains so while it is in the queue.
Exact(q, r) ==
    /\ Consistent(r.queue)
    /\ r.executables = Executable(r.queue) \ Executable(q)
    /\ Executable(q) \cap r.queue.blocks \subseteq Executable(r.queue)

(* The queue of NewBlockQueue is consistent.                               *)
LEMMA NewQueueIsConsistent == Consistent(NewBlockQueue)
  BY Zenon DEF Consistent, NewBlockQueue, QueueType

(* The fields of an answer.                                                *)
LEMMA ResultFields ==
    ASSUME NEW q, NEW missed, NEW executables, NEW err
    PROVE  /\ Result(q, missed, executables, err).queue = q
           /\ Result(q, missed, executables, err).executables = executables
           /\ Result(q, missed, executables, err).missing = missed
           /\ Result(q, missed, executables, err).err = err
  BY Zenon DEF Result

(* Nothing happens: a block that is not queued was executed, a known block *)
(* or collection arrives again, a parent is missing.                       *)
LEMMA NothingIsExact ==
    ASSUME NEW q, Consistent(q), NEW err PROVE Exact(q, Result(q, {}, {}, err))
  BY SMTT(30), ResultFields DEF Exact, Executable

(* onBlockExecuted: the children of the block get their start state.       *)
LEMMA OnBlockExecutedIsExact ==
    ASSUME NEW q, Consistent(q), NEW b
    PROVE  Exact(q, OnBlockExecuted(q, b))
<1> DEFINE rest     == q.blocks \ {b}
           children == {c \in rest : Parent[c] = b}
           new      == [blocks   |-> rest,
                        started  |-> (q.started \cup children) \ {b},
                        received |-> q.received \cap Included(rest)]
           ready    == {c \in children : IsComplete(new, c)}
<1>1. CASE b \in q.blocks /\ Parent[b] \notin q.blocks
  <2>1. OnBlockExecuted(q, b) = Result(new, {}, ready, "none")
    BY Zenon, <1>1 DEF OnBlockExecuted
  <2>2. /\ new.blocks = rest /\ new.started = (q.started \cup children) \ {b}
        /\ new.received = q.received \cap Included(rest)
    BY Zenon
  <2>3. /\ q.blocks \subseteq Blocks /\ q.started \subseteq q.blocks
        /\ q.received \subseteq Collections
        /\ \A c \in q.blocks : c \in q.started <=> Parent[c] \notin q.blocks
    BY Zenon DEF Consistent, QueueType
  <2>4. \A c \in rest : c \in new.started <=> c \in q.started \/ Parent[c] = b
    BY Zenon, <2>2
  <2>5. Consistent(new)
    <3>1. new \in QueueType
      BY ZenonT(30), <2>2, <2>3 DEF QueueType
    <3>2. \A c \in rest : c \in new.started <=> Parent[c] \notin rest
      BY ZenonT(30), <1>1, <2>3, <2>4
    <3>. QED BY ZenonT(30), <2>2, <2>3, <3>1, <3>2 DEF Consistent
  <2>6. \A c \in rest : Guarantees[c] \subseteq new.received <=> Guarantees[c] \subseteq q.received
    BY ZenonT(30), <2>2 DEF Included
  <2>7. \A c \in rest : IsComplete(new, c) <=>
                           /\ Guarantees[c] \subseteq q.received
                           /\ c \in q.started \/ Parent[c] = b
    BY Zenon, <2>4, <2>6 DEF IsComplete
  <2>8. \A c \in children : c \notin q.started
    BY Zenon, <1>1, <2>3
  <2>. HIDE DEF new
  <2>9. ready = Executable(new) \ Executable(q)
    BY ZenonT(60), <2>2, <2>7, <2>8 DEF Executable, IsComplete
  <2>10. Executable(q) \cap new.blocks \subseteq Executable(new)
    BY ZenonT(60), <2>2, <2>7 DEF Executable, IsComplete
  <2>. QED BY SMTT(30), <2>1, <2>5, <2>9, <2>10, ResultFields DEF Exact
<1>2. CASE b \notin q.blocks
  BY Zenon, <1>2, NothingIsExact DEF OnBlockExecuted
<1>3. CASE b \in q.blocks /\ Parent[b] \in q.blocks
  BY Zenon, <1>3, NothingIsExact DEF OnBlockExecuted
<1>. QED BY Zenon, <1>1, <1>2, <1>3

(* HandleBlock, of a block none of whose children is queued.               *)
LEMMA HandleBlockIsExact ==
    ASSUME NEW q, Consistent(q), NEW b \in Blocks \ {Root}, NEW parentDone \in BOOLEAN,
           b \notin q.blocks => \A c \in q.blocks : Parent[c] # b
    PROVE  Exact(q, HandleBlock(q, b, parentDone))
<1> DEFINE start == parentDone /\ Parent[b] \notin q.blocks
           new   == [q EXCEPT !.blocks = @ \cup {b},
                              !.started = IF start THEN @ \cup {b} ELSE @]
           ready == {c \in {b} : IsComplete(new, c)}
<1>1. CASE b \in q.blocks
  <2>1. HandleBlock(q, b, parentDone) = handleKnownBlock(q, b, parentDone)
    BY Zenon, <1>1 DEF HandleBlock
  <2>. QED BY Zenon, <2>1, OnBlockExecutedIsExact, NothingIsExact DEF handleKnownBlock
<1>2. CASE b \notin q.blocks /\ ~parentDone /\ Parent[b] \notin q.blocks
  BY ZenonT(30), <1>2, NothingIsExact DEF HandleBlock
<1>3. CASE b \notin q.blocks /\ (parentDone \/ Parent[b] \in q.blocks)
  <2>1. HandleBlock(q, b, parentDone)
           = Result(new, Guarantees[b] \ Included(q.blocks), ready, "none")
    BY Zenon, <1>3 DEF HandleBlock
  <2>2. /\ q \in QueueType /\ q.started \subseteq q.blocks
        /\ q.received \subseteq Included(q.blocks) /\ Root \notin q.blocks
        /\ \A c \in q.blocks : c \in q.started <=> Parent[c] \notin q.blocks
    BY Zenon DEF Consistent
  <2>3. /\ new \in QueueType /\ new.blocks = q.blocks \cup {b} /\ new.received = q.received
        /\ new.started = IF start THEN q.started \cup {b} ELSE q.started
    BY Zenon, <2>2 DEF QueueType
  <2>. HIDE DEF new
  <2>4. Parent[b] # b
    BY Zenon, BlockQueueAssumption
  <2>5. Consistent(new)
    <3>1. \A c \in new.blocks : c \in new.started <=> Parent[c] \notin new.blocks
      BY ZenonT(60), <1>3, <2>2, <2>3, <2>4
    <3>2. new.started \subseteq new.blocks /\ Root \notin new.blocks
      BY ZenonT(60), <2>2, <2>3
    <3>3. new.received \subseteq Included(new.blocks)
      BY ZenonT(60), <2>2, <2>3 DEF Included
    <3>. QED BY Zenon, <2>3, <3>1, <3>2, <3>3 DEF Consistent
  <2>6. \A c \in q.blocks : IsComplete(new, c) <=> IsComplete(q, c)
    BY Zenon, <1>3, <2>3 DEF IsComplete
  <2>7. ready = Executable(new) \ Executable(q)
    BY ZenonT(60), <1>3, <2>3, <2>6 DEF Executable
  <2>8. Executable(q) \cap new.blocks \subseteq Executable(new)
    BY Zenon, <2>3, <2>6 DEF Executable
  <2>. QED BY SMTT(30), <2>1, <2>5, <2>7, <2>8, ResultFields DEF Exact
<1>. QED BY ZenonT(30), <1>1, <1>2, <1>3

(* HandleCollection.                                                       *)
LEMMA HandleCollectionIsExact ==
    ASSUME NEW q, Consistent(q), NEW c \in Collections
    PROVE  Exact(q, HandleCollection(q, c))
<1> DEFINE new   == [q EXCEPT !.received = @ \cup {c}]
           ready == {b \in q.blocks : c \in Guarantees[b] /\ IsComplete(new, b)}
<1>1. CASE c \in Included(q.blocks) \ q.received
  <2>1. HandleCollection(q, c) = Result(new, {}, ready, "none")
    BY Zenon, <1>1 DEF HandleCollection
  <2>2. q \in QueueType
    BY Zenon DEF Consistent
  <2>3. /\ new \in QueueType /\ new.blocks = q.blocks /\ new.started = q.started
        /\ new.received = q.received \cup {c}
    BY Zenon, <2>2 DEF QueueType
  <2>. HIDE DEF new
  <2>4. Consistent(new)
    BY Zenon, <1>1, <2>3 DEF Consistent
  <2>5. ready = Executable(new) \ Executable(q)
    BY Zenon, <1>1, <2>3 DEF Executable, IsComplete
  <2>6. Executable(q) \cap new.blocks \subseteq Executable(new)
    BY Zenon, <2>3 DEF Executable, IsComplete
  <2>. QED BY SMTT(30), <2>1, <2>4, <2>5, <2>6, ResultFields DEF Exact
<1>2. CASE c \notin Included(q.blocks) \ q.received
  BY Zenon, <1>2, NothingIsExact DEF HandleCollection
<1>. QED BY ZenonT(60), <1>1, <1>2

(***************************************************************************)
(* The answers of the block queue are exact, for every set of blocks and   *)
(* collections: a new block, the last collection of a block, or the result *)
(* of its parent makes a block executable, and that very operation returns *)
(* it, once; no other block is returned.  The queue stays consistent, if a *)
(* new block is given to it before its children ("both A and B will be     *)
(* executed only once", HandleBlock).                                      *)
(***************************************************************************)
THEOREM QueueAnswersExactly ==
    ASSUME NEW q, Consistent(q), NEW b \in Blocks \ {Root}, NEW parentDone \in BOOLEAN,
           NEW c \in Collections
    PROVE  /\ Consistent(NewBlockQueue)
           /\ (b \notin q.blocks => \A d \in q.blocks : Parent[d] # b)
                 => Exact(q, HandleBlock(q, b, parentDone))
           /\ Exact(q, HandleCollection(q, c))
           /\ Exact(q, OnBlockExecuted(q, b))
  BY Zenon, NewQueueIsConsistent, HandleBlockIsExact, HandleCollectionIsExact, OnBlockExecutedIsExact

-----------------------------------------------------------------------------
(***************************************************************************)
(* The queue among the goroutines of the node, which may load a block more *)
(* than once: what survives without the order that Consistent asks for.    *)
(***************************************************************************)
\* NothingIsStranded of a queue, with the blocks that are executed.
Unstranded(q, executed) ==
    /\ q = [blocks |-> q.blocks, started |-> q.started, received |-> q.received]
    /\ \A b \in q.blocks : b \in q.started \/ Parent[b] \in q.blocks
    /\ \A b \in q.started : Parent[b] \in executed
    /\ q.received \subseteq Included(q.blocks)

\* The blocks that may be handed to a worker.
AreReady(blocks, executed) == \A b \in blocks : Parent[b] \in executed

\* What a worker executes is ready, and what it has executed is saved.
WorkerIsSound(w, executed) ==
    /\ w = [block |-> w.block, pc |-> w.pc, executables |-> w.executables]
    /\ AreReady(w.executables, executed)
    /\ w.pc = "execute" => Parent[w.block] \in executed
    /\ w.pc \in {"saved", "throttle"} => w.block \in executed

(* OnBlockExecuted, of a block whose result is saved.                      *)
LEMMA OnBlockExecutedStrandsNothing ==
    ASSUME NEW q, NEW executed, Unstranded(q, executed), NEW b \in executed
    PROVE  /\ Unstranded(OnBlockExecuted(q, b).queue, executed)
           /\ AreReady(OnBlockExecuted(q, b).executables, executed)
<1> DEFINE rest     == q.blocks \ {b}
           children == {c \in rest : Parent[c] = b}
           new      == [blocks   |-> rest,
                        started  |-> (q.started \cup children) \ {b},
                        received |-> q.received \cap Included(rest)]
<1>1. CASE b \notin q.blocks \/ Parent[b] \in q.blocks
  <2>1. OnBlockExecuted(q, b).queue = q /\ OnBlockExecuted(q, b).executables = {}
    BY Zenon, <1>1 DEF OnBlockExecuted, Result
  <2>. QED BY Zenon, <2>1 DEF AreReady
<1>2. CASE b \in q.blocks /\ Parent[b] \notin q.blocks
  <2>1. /\ OnBlockExecuted(q, b).queue = new
        /\ OnBlockExecuted(q, b).executables \subseteq children
    BY Zenon, <1>2 DEF OnBlockExecuted, Result
  <2>2. Unstranded(new, executed)
    BY Zenon DEF Unstranded
  <2>. QED BY Zenon, <2>1, <2>2 DEF AreReady
<1>. QED BY Zenon, <1>1, <1>2

LEMMA UpdatedQueue ==
    ASSUME NEW q, q = [blocks |-> q.blocks, started |-> q.started, received |-> q.received],
           NEW blocks, NEW started
    PROVE  [q EXCEPT !.blocks = blocks, !.started = started]
              = [blocks |-> blocks, started |-> started, received |-> q.received]
<1> DEFINE between == [q EXCEPT !.blocks = blocks]
<1>1. between = [blocks |-> blocks, started |-> q.started, received |-> q.received]
  OBVIOUS
<1>. HIDE DEF between
<1>2. [between EXCEPT !.started = started]
         = [blocks |-> blocks, started |-> started, received |-> q.received]
  BY <1>1
<1>3. [q EXCEPT !.blocks = blocks, !.started = started] = [between EXCEPT !.started = started]
  BY Zenon DEF between
<1>. QED BY Zenon, <1>2, <1>3

(* HandleBlock, with what was seen of the parent's result before.          *)
LEMMA HandleBlockStrandsNothing ==
    ASSUME NEW q, NEW executed, Unstranded(q, executed), NEW b, NEW parentDone \in BOOLEAN,
           parentDone => Parent[b] \in executed
    PROVE  /\ Unstranded(HandleBlock(q, b, parentDone).queue, executed)
           /\ AreReady(HandleBlock(q, b, parentDone).executables, executed)
<1> DEFINE r     == HandleBlock(q, b, parentDone)
           start == parentDone /\ Parent[b] \notin q.blocks
           new   == [blocks   |-> q.blocks \cup {b},
                     started  |-> IF start THEN q.started \cup {b} ELSE q.started,
                     received |-> q.received]
<1>1. CASE b \in q.blocks
  <2>1. CASE b \notin q.started /\ parentDone
    <3>1. r = OnBlockExecuted(q, Parent[b])
      BY Zenon, <1>1, <2>1 DEF HandleBlock, handleKnownBlock
    <3>. QED BY ZenonT(60), <2>1, <3>1, OnBlockExecutedStrandsNothing
  <2>2. CASE ~(b \notin q.started /\ parentDone)
    <3>1. r.queue = q /\ r.executables = {}
      BY Zenon, <1>1, <2>2 DEF HandleBlock, handleKnownBlock, Result
    <3>. QED BY Zenon, <3>1 DEF AreReady
  <2>. QED BY Zenon, <2>1, <2>2
<1>2. CASE b \notin q.blocks /\ ~parentDone /\ Parent[b] \notin q.blocks
  <2>1. r.queue = q /\ r.executables = {}
    BY Zenon, <1>2 DEF HandleBlock, Result
  <2>. QED BY <2>1 DEF AreReady
<1>3. CASE b \notin q.blocks /\ (parentDone \/ Parent[b] \in q.blocks)
  <2>1. q = [blocks |-> q.blocks, started |-> q.started, received |-> q.received]
    BY Zenon DEF Unstranded
  <2>2. [q EXCEPT !.blocks = q.blocks \cup {b}, !.started = new.started] = new
    BY Zenon, <2>1, UpdatedQueue
  <2>3. r.queue = new /\ r.executables \subseteq {c \in {b} : IsComplete(new, c)}
    BY ZenonT(60), <1>3, <2>2 DEF HandleBlock, Result
  <2>4. Unstranded(new, executed)
    BY Zenon, <1>3 DEF Unstranded, Included
  <2>. QED BY Zenon, <2>3, <2>4 DEF AreReady, IsComplete, Unstranded
<1>. QED BY Zenon, <1>1, <1>2, <1>3

(* HandleCollection.                                                       *)
LEMMA HandleCollectionStrandsNothing ==
    ASSUME NEW q, NEW executed, Unstranded(q, executed), NEW c
    PROVE  /\ Unstranded(HandleCollection(q, c).queue, executed)
           /\ AreReady(HandleCollection(q, c).executables, executed)
<1> DEFINE r   == HandleCollection(q, c)
           new == [blocks |-> q.blocks, started |-> q.started, received |-> q.received \cup {c}]
<1>1. CASE c \in Included(q.blocks) \ q.received
  <2>1. [q EXCEPT !.received = @ \cup {c}] = new
    BY DEF Unstranded
  <2>2. r.queue = new /\ r.executables \subseteq {b \in q.blocks : IsComplete(new, b)}
    BY Zenon, <1>1, <2>1 DEF HandleCollection, Result
  <2>3. Unstranded(new, executed)
    BY Zenon, <1>1 DEF Unstranded
  <2>. QED BY Zenon, <2>2, <2>3 DEF AreReady, IsComplete, Unstranded
<1>2. CASE c \notin Included(q.blocks) \ q.received
  <2>1. r.queue = q /\ r.executables = {}
    BY Zenon, <1>2 DEF HandleCollection, Result
  <2>. QED BY Zenon, <2>1 DEF AreReady
<1>. QED BY Zenon, <1>1, <1>2

(* Results are added: what was ready stays ready.                          *)
LEMMA ResultsGrow ==
    ASSUME NEW executed, NEW more, executed \subseteq more
    PROVE  /\ \A q : Unstranded(q, executed) => Unstranded(q, more)
           /\ \A blocks : AreReady(blocks, executed) => AreReady(blocks, more)
           /\ \A w : WorkerIsSound(w, executed) => WorkerIsSound(w, more)
<1>1. \A q : Unstranded(q, executed) => Unstranded(q, more)
  BY Zenon DEF Unstranded
<1>2. \A blocks : AreReady(blocks, executed) => AreReady(blocks, more)
  BY Zenon DEF AreReady
<1>3. \A w : WorkerIsSound(w, executed) => WorkerIsSound(w, more)
  BY Zenon, <1>2 DEF WorkerIsSound
<1>. QED BY ZenonT(60), <1>1, <1>2, <1>3

(* A worker goes on: the record it is, with the new field.                 *)
LEMMA WorkerGoesOn ==
    ASSUME NEW w, NEW executed, WorkerIsSound(w, executed), NEW left, NEW at
    PROVE  /\ [w EXCEPT !.executables = left]
                = [block |-> w.block, pc |-> w.pc, executables |-> left]
           /\ [w EXCEPT !.pc = at]
                = [block |-> w.block, pc |-> at, executables |-> w.executables]
<1>1. [w EXCEPT !.executables = left] = [block |-> w.block, pc |-> w.pc, executables |-> left]
  BY DEF WorkerIsSound
<1>2. [w EXCEPT !.pc = at] = [block |-> w.block, pc |-> at, executables |-> w.executables]
  BY DEF WorkerIsSound
<1>. QED BY Zenon, <1>1, <1>2

(* A test whose outcome is kept in a variable is TRUE or FALSE.            *)
LEMMA TestIsBoolean ==
    ASSUME NEW b, NEW executed PROVE (b \in executed) \in BOOLEAN
  OBVIOUS

-----------------------------------------------------------------------------
(***************************************************************************)
(* The node itself, whatever the throttle loads and in whichever order.    *)
(***************************************************************************)
\* Whatever has a result, its parent has one.
ParentsAreExecuted == Root \in results /\ \A b \in results \ {Root} : Parent[b] \in results

\* What a worker is about to execute has its start state.
WorkersHaveStartStates ==
    \A w \in DOMAIN working : w.pc = "execute" => Parent[w.block] \in results

(***************************************************************************)
(* The inductive invariant: what the consumer has seen of the parent, and  *)
(* what the goroutines have still to hand over and to execute, stays true  *)
(* between their steps, since results are only ever added.                 *)
(***************************************************************************)
ConsumerIsSound ==
    /\ parentExecuted \in BOOLEAN
    /\ step \in {"enqueue", "reread"} /\ parentExecuted => Parent[block] \in results

SendersAreSound ==
    /\ sending = [t \in Senders |-> sending[t]]
    /\ \A t \in Senders : AreReady(sending[t], results)

WorkersAreSound == \A w \in DOMAIN working : WorkerIsSound(w, results)

NodeInvariant ==
    /\ ParentsAreExecuted /\ Unstranded(queue, results)
    /\ ConsumerIsSound /\ SendersAreSound /\ WorkersAreSound

(* The bag of workers: a worker starts or goes on, or becomes idle.        *)
LEMMA WorkersAfter ==
    ASSUME NEW bag, NEW w, NEW next
    PROVE  /\ DOMAIN Joined(bag, next) = DOMAIN bag \cup {next}
           /\ DOMAIN Left(bag, w) \subseteq DOMAIN bag
  BY ZenonT(60) DEF Joined, Left, (+), (-), SetToBag

(* IngestionInit, and Crash: a node whose goroutines have just started.    *)
LEMMA NewNodeIsSound ==
    ASSUME queue = NewBlockQueue, step = "idle", parentExecuted = FALSE,
           sending = [t \in Senders |-> {}], DOMAIN working = {}, ParentsAreExecuted
    PROVE  NodeInvariant
<1>1. Unstranded(queue, results)
  BY Zenon DEF NewBlockQueue, Unstranded
<1>2. SendersAreSound
  BY Zenon DEF SendersAreSound, AreReady
<1>. QED BY ZenonT(60), <1>1, <1>2 DEF NodeInvariant, ConsumerIsSound, WorkersAreSound

LEMMA NodeStarts == IngestionInit => NodeInvariant
<1>. SUFFICES ASSUME IngestionInit PROVE NodeInvariant
  BY Zenon
<1>1. /\ results = {Root} /\ queue = NewBlockQueue /\ step = "idle" /\ parentExecuted = FALSE
      /\ sending = [t \in Senders |-> {}] /\ working = EmptyBag
  BY ZenonT(60) DEF IngestionInit, NewCore
<1>2. DOMAIN working = {} /\ ParentsAreExecuted
  BY ZenonT(60), <1>1 DEF ParentsAreExecuted, EmptyBag, SetToBag
<1>. QED BY ZenonT(60), <1>1, <1>2, NewNodeIsSound

LEMMA CrashIsNodeStep == NodeInvariant /\ Crash => NodeInvariant'
<1>. SUFFICES ASSUME NodeInvariant, Crash PROVE NodeInvariant'
  BY ZenonT(60)
<1>1. /\ results' = results /\ queue' = NewBlockQueue /\ parentExecuted' = FALSE
      /\ sending' = [t \in Senders |-> {}] /\ working' = EmptyBag
  BY ZenonT(60) DEF Crash
<1>2. Unstranded(queue', results')
  BY ZenonT(60), <1>1 DEF NewBlockQueue, Unstranded
<1>3. SendersAreSound'
  BY ZenonT(60), <1>1 DEF SendersAreSound, AreReady, Senders
<1>4. DOMAIN working' = {}
  BY ZenonT(60), <1>1 DEF EmptyBag, SetToBag
<1>. QED BY ZenonT(60), <1>1, <1>2, <1>3, <1>4 DEF NodeInvariant, ParentsAreExecuted, ConsumerIsSound,
            WorkersAreSound

(* The steps that leave the queue and the goroutines that use it alone.    *)
LEMMA OtherNodeSteps ==
    ASSUME NodeInvariant,
           UNCHANGED <<results, queue, step, block, parentExecuted, sending, working>>
    PROVE  NodeInvariant'
  BY Zenon DEF NodeInvariant, ParentsAreExecuted, ConsumerIsSound, SendersAreSound, WorkersAreSound,
         Unstranded, Included, AreReady, WorkerIsSound, Senders

(* The steps of the consumer that only look up results.                    *)
LEMMA LookUpIsNodeStep ==
    ASSUME NodeInvariant,
           TakeProcessable \/ ReadParent \/ RereadParent \/ Processed
    PROVE  NodeInvariant'
<1>1. UNCHANGED <<results, queue, sending, working>>
  BY ZenonT(60) DEF TakeProcessable, ReadParent, RereadParent, Processed, persisted
<1>2. ConsumerIsSound
  BY ZenonT(60) DEF NodeInvariant
<1>3. ASSUME TakeProcessable \/ Processed PROVE ConsumerIsSound'
  <2>1. parentExecuted' = parentExecuted /\ (UNCHANGED <<step, block>> \/ step' \in {"parent", "idle"})
    BY ZenonT(60), <1>3 DEF TakeProcessable, Processed
  <2>. QED BY ZenonT(60), <1>1, <1>2, <2>1 DEF ConsumerIsSound
<1>4. ASSUME ReadParent PROVE ConsumerIsSound'
  <2>1. block' = block /\ parentExecuted' = (Parent[block] \in results)
    BY ZenonT(60), <1>4 DEF ReadParent
  <2>2. parentExecuted' \in BOOLEAN
    BY ZenonT(60), <2>1, TestIsBoolean
  <2>3. parentExecuted' => Parent[block] \in results
    BY ZenonT(60), <2>1
  <2>. QED BY ZenonT(60), <1>1, <2>1, <2>2, <2>3 DEF ConsumerIsSound
<1>5. ASSUME RereadParent PROVE ConsumerIsSound'
  <2>1. /\ block' = block /\ step = "reread"
        /\ \/ Parent[block] \in results /\ parentExecuted' = TRUE
           \/ step' = step /\ parentExecuted' = parentExecuted
    BY ZenonT(60), <1>5 DEF RereadParent
  <2>2. parentExecuted' \in BOOLEAN /\ (parentExecuted' => Parent[block] \in results)
    <3>1. CASE Parent[block] \in results /\ parentExecuted' = TRUE
      BY ZenonT(60), <3>1
    <3>2. CASE parentExecuted' = parentExecuted
      BY ZenonT(60), <1>2, <2>1, <3>2 DEF ConsumerIsSound
    <3>. QED BY ZenonT(60), <2>1, <3>1, <3>2
  <2>. QED BY ZenonT(60), <1>1, <2>1, <2>2 DEF ConsumerIsSound
<1>6. ConsumerIsSound'
  BY ZenonT(60), <1>3, <1>4, <1>5
<1>. QED BY ZenonT(60), <1>1, <1>6 DEF NodeInvariant, ParentsAreExecuted, SendersAreSound, WorkersAreSound,
            Unstranded, Included, AreReady, WorkerIsSound, Senders

(* The queue returns executables to the consumer or to the goroutine of a  *)
(* collection: Enqueue, Fetch and OnCollection.                            *)
LEMMA QueueAnswerIsNodeStep ==
    ASSUME NodeInvariant, ConsumerIsSound', UNCHANGED <<results, working>>,
           NEW t \in Senders, NEW r,
           Unstranded(r.queue, results), AreReady(r.executables, results),
           queue' = r.queue, sending' = [sending EXCEPT ![t] = r.executables]
    PROVE  NodeInvariant'
<1>1. SendersAreSound'
  BY Zenon DEF NodeInvariant, SendersAreSound, Senders
<1>2. Unstranded(queue', results') /\ ParentsAreExecuted' /\ WorkersAreSound'
  BY ZenonT(60) DEF NodeInvariant, ParentsAreExecuted, WorkersAreSound
<1>. QED BY ZenonT(60), <1>1, <1>2 DEF NodeInvariant

LEMMA EnqueueIsNodeStep == NodeInvariant /\ Enqueue => NodeInvariant'
<1>. SUFFICES ASSUME NodeInvariant, Enqueue PROVE NodeInvariant'
  BY Zenon
<1> DEFINE r == HandleBlock(queue, block, parentExecuted)
<1>1. /\ queue' = r.queue /\ sending' = [sending EXCEPT !["consumer"] = r.executables]
      /\ step = "enqueue" /\ UNCHANGED <<results, block, parentExecuted, working>>
  BY ZenonT(60) DEF Enqueue, persisted
<1>2. ConsumerIsSound'
  BY ZenonT(60), <1>1 DEF NodeInvariant, ConsumerIsSound
<1>3. Unstranded(r.queue, results) /\ AreReady(r.executables, results)
  BY ZenonT(60), <1>1, HandleBlockStrandsNothing DEF NodeInvariant, ConsumerIsSound
<1>. HIDE DEF r
<1>. QED BY ZenonT(60), <1>1, <1>2, <1>3, QueueAnswerIsNodeStep DEF Senders

LEMMA FetchIsNodeStep ==
    ASSUME NodeInvariant, NEW c \in Collections, Fetch(c) PROVE NodeInvariant'
<1> DEFINE r == HandleCollection(queue, c)
<1>1. UNCHANGED <<results, step, block, parentExecuted, working>>
  BY ZenonT(60) DEF Fetch, persisted
<1>2. \/ queue' = r.queue /\ sending' = [sending EXCEPT !["consumer"] = r.executables]
      \/ UNCHANGED <<queue, sending>>
  BY ZenonT(60) DEF Fetch
<1>3. ConsumerIsSound'
  BY ZenonT(60), <1>1 DEF NodeInvariant, ConsumerIsSound
<1>4. Unstranded(r.queue, results) /\ AreReady(r.executables, results)
  BY ZenonT(60), HandleCollectionStrandsNothing DEF NodeInvariant
<1>. HIDE DEF r
<1>. QED BY ZenonT(60), <1>1, <1>2, <1>3, <1>4, QueueAnswerIsNodeStep, OtherNodeSteps DEF Senders

LEMMA OnCollectionIsNodeStep ==
    ASSUME NodeInvariant, NEW c \in Collections, OnCollection(c) PROVE NodeInvariant'
<1> DEFINE r == HandleCollection(queue, c)
<1>1. UNCHANGED <<results, step, block, parentExecuted, working>>
  BY ZenonT(60) DEF OnCollection, persisted, consumerVars
<1>2. queue' = r.queue /\ sending' = [sending EXCEPT ![c] = r.executables]
  BY ZenonT(60) DEF OnCollection
<1>3. ConsumerIsSound'
  BY ZenonT(60), <1>1 DEF NodeInvariant, ConsumerIsSound
<1>4. Unstranded(r.queue, results) /\ AreReady(r.executables, results)
  BY ZenonT(60), HandleCollectionStrandsNothing DEF NodeInvariant
<1>. HIDE DEF r
<1>. QED BY ZenonT(60), <1>1, <1>2, <1>3, <1>4, QueueAnswerIsNodeStep DEF Senders

(* The steps of the workers leave the consumer alone; all of them together *)
(* with the handing over: whatever joins the workers is sound.             *)
LEMMA WorkersStep ==
    ASSUME NodeInvariant, UNCHANGED <<step, block, parentExecuted>>,
           ParentsAreExecuted', results \subseteq results', Unstranded(queue', results'),
           SendersAreSound',
           \A w \in DOMAIN working' : w \in DOMAIN working \/ WorkerIsSound(w, results')
    PROVE  NodeInvariant'
<1>1. ConsumerIsSound'
  BY ZenonT(60) DEF NodeInvariant, ConsumerIsSound
<1>2. WorkersAreSound'
  BY ZenonT(60), ResultsGrow DEF NodeInvariant, WorkersAreSound
<1>. QED BY ZenonT(60), <1>1, <1>2 DEF NodeInvariant

LEMMA StartedIsSound ==
    ASSUME NEW executed, NEW b, Parent[b] \in executed
    PROVE  WorkerIsSound(Started(b), executed)
  BY ZenonT(60) DEF WorkerIsSound, AreReady, Started

(* A worker goes on, and what is left of its executables.                  *)
LEMMA WorkersReplaced ==
    ASSUME NEW w, NEW next
    PROVE  DOMAIN Replaced(w, next) \subseteq DOMAIN working \cup {next}
<1>1. DOMAIN Replaced(w, next) = DOMAIN Left(working, w) \cup {next}
  BY ZenonT(60), WorkersAfter DEF Replaced
<1>. QED BY ZenonT(60), <1>1, WorkersAfter

LEMMA HandIsNodeStep ==
    ASSUME NodeInvariant, NEW t \in Senders, NEW b, Hand(t, b) PROVE NodeInvariant'
<1>1. /\ b \in sending[t] /\ sending' = [sending EXCEPT ![t] = @ \ {b}]
      /\ working' = Joined(working, Started(b))
      /\ UNCHANGED <<results, queue, step, block, parentExecuted>>
  BY ZenonT(60) DEF Hand, persisted, consumerVars
<1>2. Parent[b] \in results
  BY ZenonT(60), <1>1 DEF NodeInvariant, SendersAreSound, AreReady
<1>3. SendersAreSound'
  BY ZenonT(60), <1>1 DEF NodeInvariant, SendersAreSound, AreReady, Senders
<1>4. DOMAIN working' = DOMAIN working \cup {Started(b)} /\ WorkerIsSound(Started(b), results)
  BY ZenonT(60), <1>1, <1>2, WorkersAfter, StartedIsSound
<1>5. ParentsAreExecuted' /\ Unstranded(queue', results') /\ results \subseteq results'
  BY ZenonT(60), <1>1 DEF NodeInvariant, ParentsAreExecuted
<1>. QED BY ZenonT(60), <1>1, <1>3, <1>4, <1>5, WorkersStep

LEMMA HandFromIsNodeStep ==
    ASSUME NodeInvariant, NEW w \in DOMAIN working, NEW b, HandFrom(w, b)
    PROVE  NodeInvariant'
<1> DEFINE next == [w EXCEPT !.executables = @ \ {b}]
<1>1. /\ b \in w.executables
      /\ working' = Joined(Replaced(w, next), Started(b))
      /\ UNCHANGED <<results, queue, step, block, parentExecuted, sending>>
  BY ZenonT(60) DEF HandFrom, persisted, consumerVars
<1>2. WorkerIsSound(w, results)
  BY ZenonT(60) DEF NodeInvariant, WorkersAreSound
<1>3. next = [block |-> w.block, pc |-> w.pc, executables |-> w.executables \ {b}]
  BY ZenonT(60), <1>2, WorkerGoesOn
<1>4. WorkerIsSound(next, results) /\ Parent[b] \in results
  BY ZenonT(60), <1>1, <1>2, <1>3 DEF WorkerIsSound, AreReady
<1>. HIDE DEF next
<1>5. /\ DOMAIN working' = DOMAIN Replaced(w, next) \cup {Started(b)}
      /\ DOMAIN Replaced(w, next) \subseteq DOMAIN working \cup {next}
  BY ZenonT(60), <1>1, WorkersAfter, WorkersReplaced
<1>6. \A x \in DOMAIN working' : x \in DOMAIN working \/ WorkerIsSound(x, results')
  BY ZenonT(60), <1>1, <1>4, <1>5, StartedIsSound
<1>7. /\ ParentsAreExecuted' /\ Unstranded(queue', results') /\ results \subseteq results'
      /\ SendersAreSound'
  BY ZenonT(60), <1>1 DEF NodeInvariant, ParentsAreExecuted, SendersAreSound, Senders
<1>. QED BY ZenonT(60), <1>1, <1>6, <1>7, WorkersStep

LEMMA ExecuteIsNodeStep ==
    ASSUME NodeInvariant, NEW w \in DOMAIN working, Execute(w) PROVE NodeInvariant'
<1> DEFINE next == [w EXCEPT !.pc = "saved"]
<1>1. /\ w.pc = "execute" /\ results' = results \cup {w.block}
      /\ working' = Replaced(w, next)
      /\ UNCHANGED <<queue, step, block, parentExecuted, sending>>
  BY ZenonT(60) DEF Execute, consumerVars
<1>2. WorkerIsSound(w, results)
  BY ZenonT(60) DEF NodeInvariant, WorkersAreSound
<1>3. next = [block |-> w.block, pc |-> "saved", executables |-> w.executables]
  BY ZenonT(60), <1>2, WorkerGoesOn
<1>4. WorkerIsSound(next, results') /\ Parent[w.block] \in results /\ results \subseteq results'
  BY ZenonT(60), <1>1, <1>2, <1>3 DEF WorkerIsSound, AreReady
<1>. HIDE DEF next
<1>5. DOMAIN working' \subseteq DOMAIN working \cup {next}
  BY ZenonT(60), <1>1, WorkersReplaced
<1>6. ParentsAreExecuted'
  BY ZenonT(60), <1>1, <1>4 DEF NodeInvariant, ParentsAreExecuted
<1>7. Unstranded(queue', results')
  BY ZenonT(60), <1>1, <1>4, ResultsGrow DEF NodeInvariant
<1>8. SendersAreSound'
  BY ZenonT(60), <1>1, <1>4, ResultsGrow DEF NodeInvariant, SendersAreSound, Senders
<1>. QED BY ZenonT(60), <1>1, <1>4, <1>5, <1>6, <1>7, <1>8, WorkersStep

LEMMA MarkExecutedIsNodeStep ==
    ASSUME NodeInvariant, NEW w \in DOMAIN working, MarkExecuted(w) PROVE NodeInvariant'
<1> DEFINE r    == OnBlockExecuted(queue, w.block)
           next == [w EXCEPT !.pc = "throttle", !.executables = r.executables]
<1>1. /\ w.pc = "saved" /\ queue' = r.queue /\ working' = Replaced(w, next)
      /\ UNCHANGED <<results, step, block, parentExecuted, sending>>
  BY ZenonT(60) DEF MarkExecuted, consumerVars
<1>2. WorkerIsSound(w, results) /\ w.block \in results
  BY ZenonT(60), <1>1 DEF NodeInvariant, WorkersAreSound, WorkerIsSound
<1>3. Unstranded(r.queue, results) /\ AreReady(r.executables, results)
  BY ZenonT(60), <1>2, OnBlockExecutedStrandsNothing DEF NodeInvariant
<1>. HIDE DEF r
<1>4. next = [block |-> w.block, pc |-> "throttle", executables |-> r.executables]
  <2> DEFINE between == [w EXCEPT !.pc = "throttle"]
  <2>1. between = [block |-> w.block, pc |-> "throttle", executables |-> w.executables]
    BY ZenonT(60), <1>2, WorkerGoesOn
  <2>2. next = [between EXCEPT !.executables = r.executables]
    BY ZenonT(60), <1>2 DEF WorkerIsSound
  <2>. HIDE DEF between, next
  <2>. QED BY ZenonT(60), <2>1, <2>2
<1>. HIDE DEF next
<1>5. WorkerIsSound(next, results)
  BY ZenonT(60), <1>2, <1>3, <1>4 DEF WorkerIsSound
<1>6. DOMAIN working' \subseteq DOMAIN working \cup {next}
  BY ZenonT(60), <1>1, WorkersReplaced
<1>7. /\ ParentsAreExecuted' /\ Unstranded(queue', results') /\ results \subseteq results'
      /\ SendersAreSound'
  BY ZenonT(60), <1>1, <1>3 DEF NodeInvariant, ParentsAreExecuted, SendersAreSound, Senders
<1>. QED BY ZenonT(60), <1>1, <1>5, <1>6, <1>7, WorkersStep

LEMMA LoadNextIsNodeStep ==
    ASSUME NodeInvariant, NEW w \in DOMAIN working, LoadNext(w) PROVE NodeInvariant'
<1>1. /\ working' = Left(working, w)
      /\ UNCHANGED <<results, queue, step, block, parentExecuted, sending>>
  BY ZenonT(60) DEF LoadNext, persisted, consumerVars
<1>2. \A x \in DOMAIN working' : x \in DOMAIN working \/ WorkerIsSound(x, results')
  BY ZenonT(60), <1>1, WorkersAfter
<1>3. /\ ParentsAreExecuted' /\ Unstranded(queue', results') /\ results \subseteq results'
      /\ SendersAreSound'
  BY ZenonT(60), <1>1 DEF NodeInvariant, ParentsAreExecuted, SendersAreSound, Senders
<1>. QED BY ZenonT(60), <1>1, <1>2, <1>3, WorkersStep

LEMMA NodeStep == NodeInvariant /\ [IngestionNext]_(ingestionVars) => NodeInvariant'
<1>. SUFFICES ASSUME NodeInvariant, [IngestionNext]_(ingestionVars) PROVE NodeInvariant'
  BY Zenon
<1> DEFINE other == UNCHANGED <<results, queue, step, block, parentExecuted, sending, working>>
<1>1. ASSUME NEW b \in Blocks, Extend(b) \/ Finalize(b) PROVE other
  BY ZenonT(60), <1>1 DEF Extend, Finalize, consumerVars
<1>2. ASSUME BlockProcessable \/ BlockFinalized PROVE other
  BY ZenonT(60), <1>2 DEF BlockProcessable, BlockFinalized, persisted, consumerVars
<1>3. ASSUME NEW c \in Collections, StoreCollection(c) PROVE other
  BY ZenonT(60), <1>3 DEF StoreCollection, consumerVars
<1>4. ASSUME UNCHANGED ingestionVars PROVE other
  BY ZenonT(60), <1>4 DEF ingestionVars, persisted, consumerVars
<1>5. ASSUME other PROVE NodeInvariant'
  BY ZenonT(60), <1>5, OtherNodeSteps
<1>. HIDE DEF other
<1>6. ASSUME consume PROVE NodeInvariant'
  BY ZenonT(60), <1>6, LookUpIsNodeStep, EnqueueIsNodeStep, FetchIsNodeStep DEF consume
<1>7. ASSUME execute PROVE NodeInvariant'
  BY ZenonT(60), <1>7, HandIsNodeStep, HandFromIsNodeStep, ExecuteIsNodeStep, MarkExecutedIsNodeStep,
     LoadNextIsNodeStep DEF execute, BagToSet
<1>8. ASSUME NEW c \in Collections, receive(c) PROVE NodeInvariant'
  BY ZenonT(60), <1>3, <1>5, <1>8, OnCollectionIsNodeStep DEF receive
<1>. QED BY ZenonT(60), <1>1, <1>2, <1>4, <1>5, <1>6, <1>7, <1>8, CrashIsNodeStep
       DEF IngestionNext, advance

(***************************************************************************)
(* Whatever the throttle loads, in whichever order and however often, and  *)
(* wherever the process crashes: no queued block waits for a parent that   *)
(* has gone (half of the checks listed at BlockQueue.blocks), every result *)
(* is saved after the parent's, and ExecuteBlock finds the parent's        *)
(* commitment.  The consumer's view of the parent may be out of date when  *)
(* HandleBlock uses it, and the queue is told of a result in a later step  *)
(* than the one that saves it.                                             *)
(***************************************************************************)
THEOREM BlocksAreExecutedInOrder ==
    IngestionSpec => [](NothingIsStranded /\ ParentsAreExecuted /\ WorkersHaveStartStates)
<1>1. NodeInvariant => NothingIsStranded /\ ParentsAreExecuted /\ WorkersHaveStartStates
  <2>1. NodeInvariant => NothingIsStranded
    BY ZenonT(60) DEF NodeInvariant, Unstranded, NothingIsStranded, Included
  <2>2. NodeInvariant => ParentsAreExecuted /\ WorkersHaveStartStates
    BY Zenon DEF NodeInvariant, WorkersAreSound, WorkerIsSound, WorkersHaveStartStates
  <2>. QED BY ZenonT(60), <2>1, <2>2
<1>. QED BY <1>1, NodeStarts, NodeStep, PTL DEF IngestionSpec
=============================================================================
