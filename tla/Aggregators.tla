---------------------------- MODULE Aggregators ----------------------------
(***************************************************************************)
(* The two aggregators of a consensus node, side by side: they run         *)
(* concurrently and share nothing.                                         *)
(***************************************************************************)
EXTENDS VoteAggregator

CONSTANTS Timeouts, TimeoutView,
          KnownViews          \* the views of epochs that the node knows

ASSUME AggregatorsAssumption ==
    /\ TimeoutView \in [Timeouts -> Views]
    /\ {Nil, "discarded"} \cap Timeouts = {}
    /\ Timeouts \cap (Workers \cup {"eventHandler", "pruner"}) = {}
    /\ Workers \cap {"finalizer", "eventHandler", "pruner"} = {}

VARIABLES toQueue, toNotifier, toEnteringView, toRetainedView, toRetained,
          toCollectors, toPc, toCurrent, toPruneTo, toHandedTo

toVars == <<toQueue, toNotifier, toEnteringView, toRetainedView, toRetained,
            toCollectors, toPc, toCurrent, toPruneTo, toHandedTo>>

TA == INSTANCE TimeoutAggregator WITH
         View <- TimeoutView,
         queuedTimeouts <- toQueue, queuedTimeoutsNotifier <- toNotifier,
         enteringViewNotifier <- toEnteringView, lowestRetainedView <- toRetainedView,
         lowestRetained <- toRetained, collectors <- toCollectors, pc <- toPc,
         current <- toCurrent, pruneTo <- toPruneTo, handedTo <- toHandedTo

AggregatorsInit == VoteAggregatorInit /\ TA!TimeoutAggregatorInit

VotesStep == VoteAggregatorNext /\ UNCHANGED toVars

TimeoutsStep == TA!TimeoutAggregatorNext /\ UNCHANGED vaVars

AggregatorsSpec ==
    /\ AggregatorsInit /\ [][VotesStep \/ TimeoutsStep]_<<vaVars, toVars>>
    /\ VoteAggregatorFairness
    /\ TA!TimeoutAggregatorFairness

(***************************************************************************)
(* The messages of a retained view meet in one collector, in VoteCollectors*)
(* and in TimeoutCollectors (GetOrCreateCollector).                        *)
(***************************************************************************)
MessagesMeetInOneCollector == OneCollectorPerView /\ TA!OneTimeoutCollectorPerView

(***************************************************************************)
(* Every block, vote or timeout that is queued is processed                *)
(* (queuedMessagesProcessingLoop, queuedTimeoutsProcessingLoop).           *)
(***************************************************************************)
QueuedMessagesAreProcessed == QueuedIsProcessed /\ TA!QueuedTimeoutIsProcessed

(***************************************************************************)
(* Pruning catches up with finalization (finalizationProcessingLoop) and   *)
(* with the current view (enteringViewProcessingLoop).                     *)
(***************************************************************************)
PruningsCatchUp == PruningCatchesUp /\ TA!PruningReachesView
=============================================================================
