------------------------- MODULE TimeoutAggregator -------------------------
(***************************************************************************)
(* The TimeoutAggregator and its TimeoutCollectors                         *)
(* (consensus/hotstuff/timeoutaggregator): timeouts are put into a bounded *)
(* queue, workers hand them to the collector of their view, and collectors *)
(* below the current view are pruned.  The threads are the senders (one    *)
(* per timeout), the workers, the event handler which reports view         *)
(* changes, and the pruning loop.                                          *)
(***************************************************************************)
EXTENDS Integers, Sequences, FiniteSets

CONSTANTS Timeouts,           \* the messages
          View,               \* the view of each message
          KnownViews,         \* the views of epochs that the node knows
          Workers,            \* the worker goroutines
          QueueCapacity,
          Views,              \* views considered, starting with the initial lowestRetainedView
          Nil

Threads == Timeouts \cup Workers \cup {"eventHandler", "pruner"}

VARIABLES queuedTimeouts,
          queuedTimeoutsNotifier, enteringViewNotifier,
          lowestRetainedView,          \* TimeoutAggregator.lowestRetainedView
          lowestRetained,              \* TimeoutCollectors.lowestRetainedView
          collectors,                  \* the collector of each view, named after the
                                       \* timeout for which it was created
          pc,                          \* what each thread does next
          current,                     \* the timeout each worker is processing
          pruneTo,                     \* the argument of PruneUpToView
          handedTo                     \* the collector each timeout was handed to, or "discarded"

pruning == <<enteringViewNotifier, lowestRetainedView, lowestRetained, pruneTo>>
taVars == <<queuedTimeouts, queuedTimeoutsNotifier, pruning, collectors, pc, current, handedTo>>

TimeoutAggregatorInit ==
    /\ queuedTimeouts = <<>>
    /\ queuedTimeoutsNotifier = FALSE /\ enteringViewNotifier = FALSE
    /\ lowestRetainedView = 0 /\ lowestRetained = 0 /\ pruneTo = 0
    /\ collectors = [v \in Views |-> Nil]
    /\ pc = [t \in Threads |-> IF t \in Workers \cup {"pruner"} THEN "wait" ELSE "idle"]
    /\ current = [w \in Workers |-> Nil]
    /\ handedTo = [m \in Timeouts |-> Nil]

Goto(t, label) == pc' = [pc EXCEPT ![t] = label]
-----------------------------------------------------------------------------
(***************************************************************************)
(* AddTimeout: stale timeouts are dropped, and so are those that find the  *)
(* queue full.                                                             *)
(***************************************************************************)
AddTimeout(m) ==
    LET pushed == View[m] >= lowestRetainedView /\ Len(queuedTimeouts) < QueueCapacity
    IN  /\ pc[m] = "idle"
        /\ queuedTimeouts' = IF pushed THEN Append(queuedTimeouts, m) ELSE queuedTimeouts
        /\ Goto(m, IF pushed THEN "notify" ELSE "dropped")
        /\ UNCHANGED <<queuedTimeoutsNotifier, pruning, collectors, current, handedTo>>

\* queuedTimeoutsNotifier.Notify
NotifyTimeout(m) ==
    /\ pc[m] = "notify"
    /\ queuedTimeoutsNotifier' = TRUE
    /\ Goto(m, "sent")
    /\ UNCHANGED <<queuedTimeouts, pruning, collectors, current, handedTo>>
-----------------------------------------------------------------------------
(***************************************************************************)
(* The workers: queuedTimeoutsProcessingLoop, processQueuedTimeoutObjects  *)
(* and processQueuedTimeout.                                               *)
(***************************************************************************)
WakeUp(w) ==
    /\ pc[w] = "wait"
    /\ queuedTimeoutsNotifier
    /\ queuedTimeoutsNotifier' = FALSE
    /\ Goto(w, "pop")
    /\ UNCHANGED <<queuedTimeouts, pruning, collectors, current, handedTo>>

Pop(w) ==
    /\ pc[w] = "pop"
    /\ IF queuedTimeouts = <<>>
          THEN Goto(w, "wait") /\ UNCHANGED <<queuedTimeouts, current>>
          ELSE /\ current' = [current EXCEPT ![w] = Head(queuedTimeouts)]
               /\ queuedTimeouts' = Tail(queuedTimeouts)
               /\ Goto(w, "get")
    /\ UNCHANGED <<queuedTimeoutsNotifier, pruning, collectors, handedTo>>

HandTo(w, collector) ==
    /\ handedTo' = [handedTo EXCEPT ![current[w]] = collector]
    /\ current' = [current EXCEPT ![w] = Nil]
    /\ Goto(w, "pop")

\* getCollector, under the read lock
getCollector(w) ==
    LET v == View[current[w]]
    IN  /\ pc[w] = "get"
        /\ \/ v < lowestRetained /\ HandTo(w, "discarded")
           \/ v >= lowestRetained /\ collectors[v] # Nil /\ HandTo(w, collectors[v])
           \/ /\ v >= lowestRetained /\ collectors[v] = Nil
              /\ Goto(w, "create")
              /\ UNCHANGED <<current, handedTo>>
        /\ UNCHANGED <<queuedTimeouts, queuedTimeoutsNotifier, pruning, collectors>>

\* Mutant: the new collector replaces one that was created meanwhile.
createCollectorUnchecked(w) ==
    LET m == current[w]
    IN  /\ pc[w] = "create"
        /\ \/ View[m] \notin KnownViews /\ HandTo(w, "discarded") /\ UNCHANGED collectors
           \/ /\ View[m] \in KnownViews
              /\ collectors' = [collectors EXCEPT ![View[m]] = m]
              /\ HandTo(w, m)
        /\ UNCHANGED <<queuedTimeouts, queuedTimeoutsNotifier, pruning>>

\* The rest of GetOrCreateCollector: the factory does not know views beyond
\* the epochs known (ErrViewForUnknownEpoch); the new collector is stored
\* under the write lock, unless another worker has been faster.
createCollector(w) ==
    LET m     == current[w]
        found == collectors[View[m]]
    IN  /\ pc[w] = "create"
        /\ \/ View[m] \notin KnownViews /\ HandTo(w, "discarded") /\ UNCHANGED collectors
           \/ /\ View[m] \in KnownViews /\ found = Nil
              /\ collectors' = [collectors EXCEPT ![View[m]] = m]
              /\ HandTo(w, m)
           \/ View[m] \in KnownViews /\ found # Nil /\ HandTo(w, found) /\ UNCHANGED collectors
        /\ UNCHANGED <<queuedTimeouts, queuedTimeoutsNotifier, pruning>>
-----------------------------------------------------------------------------
(***************************************************************************)
(* OnViewChange, enteringViewProcessingLoop and PruneUpToView              *)
(***************************************************************************)
OnViewChange(v) ==
    /\ pc["eventHandler"] = "idle"
    /\ v > lowestRetainedView
    /\ lowestRetainedView' = v
    /\ Goto("eventHandler", "notify")
    /\ UNCHANGED <<queuedTimeouts, queuedTimeoutsNotifier, enteringViewNotifier,
                   lowestRetained, pruneTo, collectors, current, handedTo>>

NotifyEnteringView ==
    /\ pc["eventHandler"] = "notify"
    /\ enteringViewNotifier' = TRUE
    /\ Goto("eventHandler", "idle")
    /\ UNCHANGED <<queuedTimeouts, queuedTimeoutsNotifier, lowestRetainedView, lowestRetained,
                   pruneTo, collectors, current, handedTo>>

WakeUpPruning ==
    /\ pc["pruner"] = "wait"
    /\ enteringViewNotifier
    /\ enteringViewNotifier' = FALSE
    /\ Goto("pruner", "read")
    /\ UNCHANGED <<queuedTimeouts, queuedTimeoutsNotifier, lowestRetainedView, lowestRetained,
                   pruneTo, collectors, current, handedTo>>

ReadLowestRetainedView ==
    /\ pc["pruner"] = "read"
    /\ pruneTo' = lowestRetainedView
    /\ Goto("pruner", "prune")
    /\ UNCHANGED <<queuedTimeouts, queuedTimeoutsNotifier, enteringViewNotifier,
                   lowestRetainedView, lowestRetained, collectors, current, handedTo>>

\* TimeoutCollectors.PruneUpToView: iterates over the collectors or over the
\* views to be pruned, whichever are fewer; a view that is pruned is skipped.
PruneUpToView ==
    LET size  == Cardinality({v \in Views : collectors[v] # Nil})
        first == IF size < pruneTo - lowestRetained THEN 0 ELSE lowestRetained
    IN  /\ pc["pruner"] = "prune"
        /\ collectors' = [v \in Views |-> IF v \in first .. pruneTo - 1 THEN Nil ELSE collectors[v]]
        /\ lowestRetained' = IF pruneTo > lowestRetained THEN pruneTo ELSE lowestRetained
        /\ Goto("pruner", "wait")
        /\ UNCHANGED <<queuedTimeouts, queuedTimeoutsNotifier, enteringViewNotifier,
                       lowestRetainedView, pruneTo, current, handedTo>>
-----------------------------------------------------------------------------
work(w) == WakeUp(w) \/ Pop(w) \/ getCollector(w) \/ createCollector(w)

prune == WakeUpPruning \/ ReadLowestRetainedView \/ PruneUpToView

TimeoutAggregatorNext ==
    \/ \E m \in Timeouts : AddTimeout(m) \/ NotifyTimeout(m)
    \/ \E w \in Workers : work(w)
    \/ \E v \in Views : OnViewChange(v)
    \/ NotifyEnteringView
    \/ prune

\* All goroutines are scheduled; timeouts and view changes need not occur.
TimeoutAggregatorFairness ==
    /\ \A m \in Timeouts : WF_taVars(NotifyTimeout(m))
    /\ \A w \in Workers : WF_taVars(work(w))
    /\ WF_taVars(NotifyEnteringView)
    /\ WF_taVars(prune)
-----------------------------------------------------------------------------
(***************************************************************************)
(* All timeouts of a view meet in one collector, no matter which workers   *)
(* create it at the same time (GetOrCreateCollector), as long as the view  *)
(* is not pruned: timeouts scattered over two collectors make no TC.       *)
(***************************************************************************)
OneTimeoutCollectorPerView ==
    \A m \in Timeouts :
        handedTo[m] \in Timeouts /\ View[m] >= lowestRetained
            => collectors[View[m]] = handedTo[m]

(***************************************************************************)
(* No wake-up is lost: every timeout that was put into the queue is        *)
(* processed, although notifications are coalesced.                        *)
(***************************************************************************)
QueuedTimeoutIsProcessed ==
    \A m \in Timeouts : pc[m] = "notify" ~> handedTo[m] # Nil

(***************************************************************************)
(* View changes that happen while the collectors are being pruned are not  *)
(* forgotten.                                                              *)
(***************************************************************************)
PruningReachesView ==
    \A v \in Views : lowestRetainedView = v ~> lowestRetained >= v
=============================================================================
