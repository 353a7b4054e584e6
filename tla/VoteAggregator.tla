-------------------------- MODULE VoteAggregator ---------------------------
(***************************************************************************)
(* The VoteAggregator and its VoteCollectors                               *)
(* (consensus/hotstuff/voteaggregator): votes and blocks are put into      *)
(* bounded queues, workers take them out and hand them to the collector of *)
(* their view, and collectors below the finalized view are pruned.  The    *)
(* threads are the senders (one per message), the workers, the thread that *)
(* delivers finalization events, and the pruning loop.                     *)
(***************************************************************************)
EXTENDS Integers, Sequences, FiniteSets

CONSTANTS Votes, Proposals,   \* the messages
          View,               \* the view of each message
          Workers,            \* the worker goroutines
          QueueCapacity,      \* of each of the two queues
          Views,              \* views considered, starting with the initial lowestRetainedView
          Nil

Messages == Votes \cup Proposals
Threads == Messages \cup Workers \cup {"finalizer", "pruner"}

ASSUME VoteAggregatorAssumption ==
    /\ Votes \cap Proposals = {}
    /\ Views \subseteq Nat /\ 0 \in Views
    /\ View \in [Messages -> Views]
    /\ QueueCapacity \in Nat \ {0}
    /\ {Nil, "pruned"} \cap Messages = {}
    /\ Messages \cap (Workers \cup {"finalizer", "pruner"}) = {}

VARIABLES queuedVotes, queuedBlocks,
          queuedMessagesNotifier,      \* Notifiers hold at most one notification
          finalizationEventsNotifier,
          finalizedView,
          lowestRetainedView,          \* VoteAggregator.lowestRetainedView
          lowestRetained,              \* VoteCollectors.lowestRetainedView
          collectors,                  \* the collector of each view, named after the
                                       \* message for which it was created
          pc,                          \* what each thread does next
          current,                     \* the message each worker is processing
          handedTo                     \* the collector each message was handed to, or "pruned"

queues == <<queuedVotes, queuedBlocks>>
pruning == <<finalizationEventsNotifier, finalizedView, lowestRetainedView, lowestRetained>>
vaVars == <<queues, queuedMessagesNotifier, pruning, collectors, pc, current, handedTo>>

VoteAggregatorInit ==
    /\ queuedVotes = <<>> /\ queuedBlocks = <<>>
    /\ queuedMessagesNotifier = FALSE /\ finalizationEventsNotifier = FALSE
    /\ finalizedView = 0 /\ lowestRetainedView = 0 /\ lowestRetained = 0
    /\ collectors = [v \in Views |-> Nil]
    /\ pc = [t \in Threads |-> IF t \in Workers \cup {"pruner"} THEN "wait" ELSE "idle"]
    /\ current = [w \in Workers |-> Nil]
    /\ handedTo = [m \in Messages |-> Nil]

Goto(t, label) == pc' = [pc EXCEPT ![t] = label]
-----------------------------------------------------------------------------
(***************************************************************************)
(* AddVote and AddBlock.  A full queue drops the message.                  *)
(***************************************************************************)
AddVote(m) ==
    LET pushed == View[m] >= lowestRetainedView /\ Len(queuedVotes) < QueueCapacity
    IN  /\ pc[m] = "idle"
        /\ queuedVotes' = IF pushed THEN Append(queuedVotes, m) ELSE queuedVotes
        /\ Goto(m, IF pushed THEN "notify" ELSE "dropped")
        /\ UNCHANGED <<queuedBlocks, queuedMessagesNotifier, pruning, collectors, current, handedTo>>

AddBlock(m) ==
    LET pushed == Len(queuedBlocks) < QueueCapacity
    IN  /\ pc[m] = "idle"
        /\ queuedBlocks' = IF pushed THEN Append(queuedBlocks, m) ELSE queuedBlocks
        /\ Goto(m, IF pushed THEN "notify" ELSE "dropped")
        /\ UNCHANGED <<queuedVotes, queuedMessagesNotifier, pruning, collectors, current, handedTo>>

\* queuedMessagesNotifier.Notify
Notify(m) ==
    /\ pc[m] = "notify"
    /\ queuedMessagesNotifier' = TRUE
    /\ Goto(m, "sent")
    /\ UNCHANGED <<queues, pruning, collectors, current, handedTo>>
-----------------------------------------------------------------------------
(***************************************************************************)
(* The workers: queuedMessagesProcessingLoop and processQueuedMessages.    *)
(* Blocks have priority; a worker waits again once both queues were empty. *)
(***************************************************************************)
WakeUp(w) ==
    /\ pc[w] = "wait"
    /\ queuedMessagesNotifier
    /\ queuedMessagesNotifier' = FALSE
    /\ Goto(w, "popBlock")
    /\ UNCHANGED <<queues, pruning, collectors, current, handedTo>>

PopBlock(w) ==
    /\ pc[w] = "popBlock"
    /\ IF queuedBlocks = <<>>
          THEN Goto(w, "popVote") /\ UNCHANGED <<queuedBlocks, current>>
          ELSE /\ current' = [current EXCEPT ![w] = Head(queuedBlocks)]
               /\ queuedBlocks' = Tail(queuedBlocks)
               /\ Goto(w, "get")
    /\ UNCHANGED <<queuedVotes, queuedMessagesNotifier, pruning, collectors, handedTo>>

PopVote(w) ==
    /\ pc[w] = "popVote"
    /\ IF queuedVotes = <<>>
          THEN Goto(w, "wait") /\ UNCHANGED <<queuedVotes, current>>
          ELSE /\ current' = [current EXCEPT ![w] = Head(queuedVotes)]
               /\ queuedVotes' = Tail(queuedVotes)
               /\ Goto(w, "get")
    /\ UNCHANGED <<queuedBlocks, queuedMessagesNotifier, pruning, collectors, handedTo>>

\* Mutant: one message is processed per notification.
HandToAndWait(w, collector) ==
    /\ handedTo' = [handedTo EXCEPT ![current[w]] = collector]
    /\ current' = [current EXCEPT ![w] = Nil]
    /\ Goto(w, "wait")

HandTo(w, collector) ==
    /\ handedTo' = [handedTo EXCEPT ![current[w]] = collector]
    /\ current' = [current EXCEPT ![w] = Nil]
    /\ Goto(w, "popBlock")

\* getCollector, under the read lock; blocks are checked against the
\* aggregator's own lowestRetainedView just before.
getCollector(w) ==
    LET m     == current[w]
        stale == \/ View[m] < lowestRetained
                 \/ m \in Proposals /\ View[m] < lowestRetainedView
        found == collectors[View[m]]
    IN  /\ pc[w] = "get"
        /\ \/ stale /\ HandTo(w, "pruned")
           \/ ~stale /\ found # Nil /\ HandTo(w, found)
           \/ ~stale /\ found = Nil /\ Goto(w, "create") /\ UNCHANGED <<current, handedTo>>
        /\ UNCHANGED <<queues, queuedMessagesNotifier, pruning, collectors>>

\* The rest of GetOrCreateCollector: the new collector is stored under the
\* write lock, unless another worker has been faster.
createCollector(w) ==
    LET m     == current[w]
        found == collectors[View[m]]
    IN  /\ pc[w] = "create"
        /\ collectors' = IF found = Nil THEN [collectors EXCEPT ![View[m]] = m] ELSE collectors
        /\ HandTo(w, IF found = Nil THEN m ELSE found)
        /\ UNCHANGED <<queues, queuedMessagesNotifier, pruning>>
-----------------------------------------------------------------------------
(***************************************************************************)
(* OnFinalizedBlock, finalizationProcessingLoop and PruneUpToView          *)
(***************************************************************************)
OnFinalizedBlock(v) ==
    /\ pc["finalizer"] = "idle"
    /\ v > finalizedView
    /\ finalizedView' = v
    /\ Goto("finalizer", "notify")
    /\ UNCHANGED <<queues, queuedMessagesNotifier, finalizationEventsNotifier,
                   lowestRetainedView, lowestRetained, collectors, current, handedTo>>

NotifyFinalized ==
    /\ pc["finalizer"] = "notify"
    /\ finalizationEventsNotifier' = TRUE
    /\ Goto("finalizer", "idle")
    /\ UNCHANGED <<queues, queuedMessagesNotifier, finalizedView, lowestRetainedView,
                   lowestRetained, collectors, current, handedTo>>

WakeUpPruning ==
    /\ pc["pruner"] = "wait"
    /\ finalizationEventsNotifier
    /\ finalizationEventsNotifier' = FALSE
    /\ Goto("pruner", "set")
    /\ UNCHANGED <<queues, queuedMessagesNotifier, finalizedView, lowestRetainedView,
                   lowestRetained, collectors, current, handedTo>>

SetLowestRetainedView ==
    /\ pc["pruner"] = "set"
    /\ lowestRetainedView' = IF finalizedView > lowestRetainedView THEN finalizedView
                                                                   ELSE lowestRetainedView
    /\ Goto("pruner", IF finalizedView > lowestRetainedView THEN "prune" ELSE "wait")
    /\ UNCHANGED <<queues, queuedMessagesNotifier, finalizationEventsNotifier, finalizedView,
                   lowestRetained, collectors, current, handedTo>>

\* Mutant: notifications that arrive during pruning are discarded.
PruneUpToViewDraining ==
    LET size  == Cardinality({v \in Views : collectors[v] # Nil})
        first == IF size < lowestRetainedView - lowestRetained THEN 0 ELSE lowestRetained
    IN  /\ pc["pruner"] = "prune"
        /\ collectors' = [v \in Views |-> IF v \in first .. lowestRetainedView - 1
                                             THEN Nil ELSE collectors[v]]
        /\ lowestRetained' = lowestRetainedView
        /\ finalizationEventsNotifier' = FALSE
        /\ Goto("pruner", "wait")
        /\ UNCHANGED <<queues, queuedMessagesNotifier, finalizedView,
                       lowestRetainedView, current, handedTo>>

\* VoteCollectors.PruneUpToView: iterates over the collectors or over the
\* views to be pruned, whichever are fewer
PruneUpToView ==
    LET size  == Cardinality({v \in Views : collectors[v] # Nil})
        first == IF size < lowestRetainedView - lowestRetained THEN 0 ELSE lowestRetained
    IN  /\ pc["pruner"] = "prune"
        /\ collectors' = [v \in Views |-> IF v \in first .. lowestRetainedView - 1
                                             THEN Nil ELSE collectors[v]]
        /\ lowestRetained' = lowestRetainedView
        /\ Goto("pruner", "wait")
        /\ UNCHANGED <<queues, queuedMessagesNotifier, finalizationEventsNotifier, finalizedView,
                       lowestRetainedView, current, handedTo>>
-----------------------------------------------------------------------------
work(w) == WakeUp(w) \/ PopBlock(w) \/ PopVote(w) \/ getCollector(w) \/ createCollector(w)

prune == WakeUpPruning \/ SetLowestRetainedView \/ PruneUpToView

VoteAggregatorNext ==
    \/ \E m \in Votes : AddVote(m)
    \/ \E m \in Proposals : AddBlock(m)
    \/ \E m \in Messages : Notify(m)
    \/ \E w \in Workers : work(w)
    \/ \E v \in Views : OnFinalizedBlock(v)
    \/ NotifyFinalized
    \/ prune

\* All goroutines are scheduled; messages and finalization events need not occur.
VoteAggregatorFairness ==
    /\ \A m \in Messages : WF_vaVars(Notify(m))
    /\ \A w \in Workers : WF_vaVars(work(w))
    /\ WF_vaVars(NotifyFinalized)
    /\ WF_vaVars(prune)
-----------------------------------------------------------------------------
(***************************************************************************)
(* A block and the votes for it meet in one collector, no matter which     *)
(* workers create it at the same time (GetOrCreateCollector), as long as   *)
(* the view is not pruned.                                                 *)
(***************************************************************************)
OneCollectorPerView ==
    \A m \in Messages :
        handedTo[m] \in Messages /\ View[m] >= lowestRetained
            => collectors[View[m]] = handedTo[m]

(***************************************************************************)
(* No wake-up is lost: every message that was put into a queue is          *)
(* processed, although notifications are coalesced and workers go back to  *)
(* waiting while senders are between Push and Notify.                      *)
(***************************************************************************)
QueuedIsProcessed ==
    \A m \in Messages : pc[m] = "notify" ~> handedTo[m] # Nil

(***************************************************************************)
(* Finalization events that arrive while the collectors are being pruned   *)
(* are not forgotten.                                                      *)
(***************************************************************************)
PruningCatchesUp ==
    \A v \in Views : finalizedView = v ~> lowestRetained >= v
=============================================================================
