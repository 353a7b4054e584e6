# A TLA+ verification of Flow's consensus

This directory holds TLA+ models of the consensus algorithm of flow-go
(`src/consensus/hotstuff` and the code around it), of the follower that nodes
without a vote run, and of two consumers of finalized blocks: the job queue and
the ingestion of execution nodes. TLC checks them on small instances. TLAPS
proves the safety theorems for instances of every size. `PROJECT.json` lists
components, runs, hazards and theorems, and maps every definition to the lines
it models.

Flow nodes agree on blocks with Jolteon, a HotStuff variant. In every view a
leader proposes a block that carries a quorum certificate (QC) for its parent.
Replicas vote for at most one block per view; votes of more than two thirds of
the weight make a QC. A replica that waits too long in a view signs a timeout
object instead; timeouts of more than two thirds of the weight make a timeout
certificate (TC), which ends the view. A block is final once its child in the
very next view is certified.

## 1. The parts of the system and how they interact

Paths are relative to `src/consensus/hotstuff` unless they start with `src/`.

| Part | Code | State | Operations | Talks to |
|---|---|---|---|---|
| Committee | `committees/` | weights, leaders | thresholds, leader selection | everything |
| Validator | `validator/` | none | ValidateProposal, ValidateQC, ValidateTC | compliance, timeout collector |
| SafetyRules | `safetyrules/` | SafetyData (persisted) | ProduceVote, SignOwnProposal, ProduceTimeout | event handler, block producer |
| PaceMaker | `pacemaker/` | LivenessData (persisted), timer | ProcessQC, ProcessTC, timeouts | event handler, event loop |
| Forks | `forks/`, `src/module/forest` | tree of pending blocks, finalized block | AddValidatedBlock, AddCertifiedBlock | event handler, follower |
| Event handler | `eventhandler/` | none of its own | one handler per event | all of the above |
| Event loop | `eventloop/`, `tracker/` | trackers, channels | coalesce and dispatch events | event handler |
| Vote aggregation | `voteaggregator/`, `votecollector/` | queues, cached votes, processors | AddVote, AddBlock, pruning | event loop (QCs) |
| Timeout aggregation | `timeoutaggregator/`, `timeoutcollector/` | queue, cached timeouts | AddTimeout, pruning | event loop (TCs, partial TCs) |
| Recovery | `src/consensus/participant.go`, `src/consensus/recovery` | none | rebuild Forks and PaceMaker | at start-up |
| Compliance, message hub | `src/engine/consensus/` | pending blocks | validate, order and route messages | event loop, aggregators |
| Follower | `src/engine/common/follower`, `follower_loop.go` | cache, pending tree, channels | certify, connect and finalize received blocks | Forks, protocol state |
| Job queue | `src/module/jobqueue` | processed index (persisted), running jobs | Check, NotifyJobIsDone | verification and access nodes |
| Ingestion | `src/engine/execution/ingestion` | throttle, block queue | load, enqueue, fetch, execute | protocol state, network |

The event loop is a single goroutine that runs one handler at a time. Nearly
everything else is the opposite: many goroutines that share queues, caches and
trees. The two halves are hard for different reasons. In the first, the order of
events is arbitrary and a crash may fall between any two of them; in the second,
steps of several goroutines interleave inside one operation. The models follow
this division: a handler is one step of `Participant`, and a step of the other
modules is what the code does under one lock, in one atomic operation, or with
one receive from a channel.

What makes this code hard to test, and what the properties are aimed at, is
listed line by line under "hazards" in `PROJECT.json`: conflicting signatures
across crashes, locks that matter only views later, certificates arriving out of
order, votes lost while a processor is swapped, one-time events
raced for by goroutines, lost wake-ups, stale timers, pruning under the feet of a
worker, indices persisted ahead of the work, and blocks lost or executed twice
while a node catches up.

## 2. Modules

| Module | Models | State and actions |
|---|---|---|
| `Committee` | `committees/`, `threshold.go` | constants only: weights, the QC and timeout thresholds, the fault assumption |
| `BlockTree` | the data of blocks, QCs and TCs | constants only: the tree of all blocks considered |
| `SafetyRules` | `safetyrules/safety_rules.go`, `validator/validator.go` | `safetyData` per honest replica, everything signed so far (`votes`, `timeouts`); one action per signing operation |
| `PaceMaker` | `pacemaker/view_tracker.go`, recovery options of `pacemaker.go` | operators on a LivenessData record |
| `Forks` | `forks/forks.go`, `recovery/recover.go` | operators on a record of known blocks, finalized block and failure |
| `Participant` | `eventhandler/event_handler.go`, `participant.go` | composes the three above; one action per handler, and `Restart` |
| `TimeoutController` | `pacemaker/timeout/controller.go` | operators: the truncated exponential backoff |
| `NewestRegister` | what `tracker/` promises | abstract specification: an atomic register of the newest item |
| `EventLoop` | `eventloop/`, `tracker/`, timers of `pacemaker/` | one goroutine per submission, the loop, one goroutine per timer |
| `VoteCollector` | `votecollector/` | the state machine of a view, the votes cache, both vote processors; one goroutine per vote, proposal and replayed vote |
| `TimeoutCollector` | `timeoutcollector/` | cache, trackers and aggregator of a view; one goroutine per timeout |
| `VoteAggregator` | `voteaggregator/` | queues, notifiers, workers, the map of collectors and the pruning loop |
| `TimeoutAggregator` | `timeoutaggregator/` | the same for timeouts, pruned by the current view |
| `Aggregators` | `src/consensus/aggregators.go` | composes the two aggregators, which share nothing |
| `FollowerCache`, `PendingTree` | `cache/`, `pending_tree/` of the follower | operators on records of blocks |
| `Follower` | compliance engine, core and follower loop | composes both with `Forks`; workers, core, loop, finalization, bounded channels, `CrashAndRestart` |
| `AtLeastOnce` | what `jobqueue/README.md` promises | abstract specification of the job queue |
| `JobQueue` | `jobqueue/consumer.go` | publishers that call Check, one goroutine per job, stops, crashes, failing storage |
| `BlockQueue`, `Throttle` | `block_queue/`, `throttle.go` | operators on records |
| `Ingestion` | `ingestion/core.go`, `machine.go` | callbacks, consumer, collections, executors, `Crash` |
| `SafetyRulesProofs`, `ParticipantProofs` | - | theorems about consensus, the second on top of the first; `SafetyRulesProofs` also has the lemmas about weights and about `Forks` |
| `FollowerProofs` | - | theorems about the follower, on top of `SafetyRulesProofs` |
| `VoteCollectorProofs`, `AggregatorsProofs`, `EventLoopProofs` | - | theorems about the vote collector, the aggregators, and the event loop with its trackers, timers and backoff |
| `TimeoutsAndJobsProofs` | - | theorems about the timeout collector and about the job queue |
| `IngestionProofs` | - | theorems about the block queue and about the execution node that uses it |
| `MC*` | - | instances for TLC |

Definitions that begin with the comment "Mutant" are not part of the models.
Each is a plausible mistake in the definition that follows it, kept to show that
the property it is paired with in `PROJECT.json` would notice.

### How the models abstract

*Blocks and certificates.* A block's ID is the hash of its content, so the
content (view, parent QC, TC) is a constant function of the block. A QC is
represented by the block it certifies and a TC by its view and newest QC: that
is all that any rule looks at. There is no variable for the certificates in
existence. A QC or TC is valid if the honest signatures it needs exist, with all
Byzantine replicas assumed to sign everything (`ValidateQC`, `ValidateTC`). A
valid certificate may reach a replica at any time, any number of times, or never;
this covers loss, duplication, reordering and delay.

That the certificates which reach event loop and event handlers are valid is an
*assumption* of `EventLoop` and `Participant`, not a result. The event loop demands
it of its callers ("which MUST be validated"). All of them but one establish it, and
for QCs and TCs that the collectors build it is proved (`QCsAreValid`, `TCsAreValid`).
The exception are certificates that come with late timeouts (section 6). Everything
said of participants is said for runs in which those are valid, too.

*Signatures* are abstracted to the fact of having signed. In the collectors a
vote or timeout is marked as carrying a valid signature or not, since
the code meets unvalidated ones there.

*Membership.* `NonMembers` and `Ejected` are the replicas that IdentityByEpoch
(for timeouts) and IdentityByBlock (for votes) do not accept, by view and by block:
an ejection is recorded in the chain, so it may exist on one fork only.

*Time.* In `Participant`, `OnLocalTimeout` may happen at any moment. `EventLoop`
says when it may: a timer has a goroutine that sends ticks to a channel with one
slot, and expires at any time. Durations only appear in the backoff, as exact fractions
of milliseconds; the code computes with floating point numbers and starts timers with
whole milliseconds.

*Crashes of participants.* `Restart` keeps the persisted SafetyData and
LivenessData and rebuilds the rest as `NewParticipant` does. SafetyData is
persisted before a signature leaves `produceVote` and `ProduceTimeout`; a crash
after that, but before the signature is sent, is the case of a signature that is
never delivered. A crash in the middle of a handler is covered by the parameters
of `Restart(r, {b}, ld)`: the proposal `b` was stored by the compliance layer, but
Forks had not added it, and `ld` is the LivenessData the handler had persisted
(`PersistedBefore`) when it was interrupted, before it signed anything. The blocks
in `forks[r].blocks` stand for what the compliance layer has stored, together with
the replica's own proposals, which are stored as they are built.

*Stale proposals.* The second disjunct of `PassesCompliance` is a proposal whose
parent has been pruned while it waited in the event loop's queue.

*Event loop.* The event handler is reduced to what it does to the PaceMaker and
its timers. Submissions of a certificate go through the tracker's read and
compare-and-swap in separate steps; the notifier is a slot for one notification.
Consuming a notification and reading the tracker are one step, since trackers are
updated before they notify. `bypassed` is a history variable.

*Collectors.* In `VoteCollector`, the flag `done` is read several times by the
code and once by the model: signatures added after the QC was built change
nothing. The leader alone is assumed not to be a quorum: `VoteProcessorFactory.Create`
processes the proposer's vote (`factory.go:54`), so in a cluster of a single collection
node it would build the QC before the processor is installed. Such committees are left
out. The weight of signatures is the weight of the set of their signers, as a signer is
counted once by the signature aggregator; that a vote is not counted twice is thus part
of the model and not shown. In `TimeoutCollector` the counter of reported
views and the notification are one step; the code documents that notifications
may be reordered. Repeated delivery of a timeout is `AddTimeout` of the same
timeout again.

*Aggregators.* Collectors are identities: which one a message is handed to is all
that is kept of processing it. A message stands for one submission; a vote that is
sent twice is two messages. Finding a collector and creating one are separate
steps, as they hold the lock separately.

*Follower.* Batches arrive already split into connected ranges of validly signed
blocks, as `submitConnectedBatch` gets them. The pruning threshold is read in a
step of its own, because the code reads it outside of the lock. A crash loses
everything but the stored blocks and the finalized block of the protocol state,
and `PersistedFinal` lets it fall between two blocks of one finalization.
Synchronization delivers all batches again.

*Job queue.* The mutex matters where a step ends while it is held (`mu`). Storage
operations fail at most `MaxFailures` times. `finished` and `skipped` are history
variables.

*Ingestion.* A state commitment is a function of the block, so only its presence
is kept. Saving a result, telling the queue and handing over the next blocks are
separate steps of a worker; an idle worker receives a block over an unbuffered
channel. Of the protocol state, known blocks and the latest finalized one are kept, and
its two callbacks. A node starts from the height that `GetHighestFinalizedExecuted`
returns without storehouse: the lower one of the finalized height and that of the block
executed last, provided that the finalized block there is executed. Recording the last
executed block is one step with telling the queue, as only the next process reads it.
`repeated`, `loads` and `reloads` are history variables.

Left out everywhere: log messages, metrics, tracing, the timeout tick of a
repeated timeout, and notifications nobody in the model acts on.

## 3. What the runs check

`tlc -workers 2 -config X.cfg M` runs one of them; each takes at most a few
minutes. CHECK_DEADLOCK is off throughout: a bounded system ends when its views,
blocks, jobs or messages are used up. That nothing stops earlier is what the
liveness properties say.

| Run | Config | Question | Distinct states |
|---|---|---|---|
| `safety_rules` | `MCSafetyRules` | Are certificates unique per view, and does every certified block extend the finalized chain, whatever honest replicas are asked to sign? | 137,645 |
| `participant` | `MCParticipant` | Can a participant that handles events in any order, and crashes twice at any point, run into an exception, sign twice, be without the evidence for its view, finalize a wrong block or move backwards? It joins the committee after the first view and is ejected on one fork. | 23,669 |
| `participant_progress` | `MCParticipantProgress` | Do two event handlers implement `SafetyRulesSpec`, and does every view end? | 9,501 |
| `vote_collector` | `MCVoteCollector` | Is exactly one valid QC made of votes that race with one proposal, or with two of an equivocating leader? | 260,263 |
| `timeout_collector` | `MCTimeoutCollector` | Are the partial TC and the TC valid, unique and certain to be created? | 89,578 |
| `aggregators` | `MCAggregators` | Are queued votes, blocks and timeouts processed, in one collector per view, while old views are pruned? | 119,912 |
| `event_loop` | `MCEventLoop` | Are timeouts neither early nor starved, and does every submitted certificate take effect? | 635,546 |
| `follower` | `MCFollower` | Do concurrently processed batches reach Forks in order, with finalization fed back and a crash? | 181,157 |
| `job_queue` | `MCJobQueue` | Is the consumer an at-least-once queue within its limits? | 14,611 |
| `ingestion` | `MCIngestion` | Is every block that is not orphaned executed, once, and can other blocks than orphaned ones stop the node? | 409,694 |
| `job_queue_concurrent_checks` | `MCJobQueueConcurrentChecks` | A finding, see section 6. | |
| `ingestion_orphan` | `MCIngestionOrphan` | A finding, see section 6. | |

Three runs check an implementation against an abstract specification.
`participant_progress` has `SafetyRulesSpec` as a PROPERTY: `Participant` extends
`SafetyRules` and keeps its variables, so this says that every step of every
handler is a step the signing rules allow or leaves everything signed unchanged.
In particular `ProduceVote` only sees validated proposals, and timeouts carry valid
certificates, given that the PaceMaker receives valid ones. `event_loop` shows that each
tracker, read and swapped in separate steps by concurrent goroutines, implements the atomic
`NewestRegister` (`TrackersAreRegisters`). `job_queue` shows that the consumer
implements `AtLeastOnce` (`NoJobIsSkipped`).

The run `participant` has one participant, whose Forks is compared with what the
committee has certified. That two participants finalize blocks of one chain, the other
half of `ForksFinalizesAgreedBlocks`, is shown by the theorem `ParticipantsAgree` only.

### Bounds

* `MaxView = 3` (2 in the liveness run): the shortest chains in which the rules
  matter. Finalization takes two consecutive certified views, and a fork below a
  finalized block needs a third view with a TC. The universe has every block up to
  that view (every parent, and in `MCParticipant` every TC a leader may have entered
  with), not a choice of interesting ones. `TwoTags` gives two payloads to blocks of
  one view, so that a leader can equivocate with otherwise equal blocks.
* `TimeoutViews = {1, 2}`: timeouts in the last view have no successor to matter for.
* Committees: three honest replicas and a Byzantine one of equal weight, or two
  weighted ones such that the participant is, or is not, needed for a quorum.
* `MaxRestarts`: two crashes in `participant`, so that recovery meets a state
  that was recovered before; one in the liveness run.
* `MCVoteCollector`: the weights 2, 4, 1, 1 give a threshold of 6, reached by leader
  and `r1`; in the main consensus a QC also takes the beacon shares of `r1` and `r2`.
  The signature of `r3` is invalid. Every vote is a goroutine on arrival and possibly
  one more when replayed. The cluster of the second scenario has a leader with two
  proposals and a vote of its own besides.
* `MCTimeoutCollector`: timeouts with three different newest QCs, with and without
  TC, an invalid signature, an invalid QC, and an equivocation.
* `MCAggregators`: a block and a vote for one view and a vote for another; two
  timeouts for one view and one for a view beyond the known epochs; queues with room
  for one message, two workers. Smaller queues or fewer workers leave out the races.
  The aggregators share nothing, so each behaviour runs one of them.
* `MCEventLoop`: the adjustment factor of `NewDefaultConfig`, two TCs for the same view
  with an older and a newer QC, that QC by itself, a proposal with a TC, a partial TC, at
  most two goroutines submitting at once, and a timer that expires again while its last
  tick is buffered.
* `MCFollower`: two forks above the root, five overlapping batches, channels of
  capacity one, one crash. Block 9 certifies the fork that is orphaned.
* `MCJobQueue`: four jobs, two workers, search-ahead three, one restart, one storage
  failure: jobs finish out of order around a slow one, and a job is out of reach.
* `MCIngestion`: root <- a with children b and x, and r on x; a collection shared by a
  and x, a catch-up threshold of one, and a node that starts up to three blocks
  behind, so that all three modes of the throttle occur. Either branch may be finalized,
  and the other one is orphaned then. One crash. Three workers, more than there are
  branches. `MCIngestionOrphan` has the same blocks, two workers and no crash.

Symmetry is used in `MCSafetyRules` only (two replicas that are never leaders).

### Fairness

* `Participant`: weak fairness of starting, of the local timeout and of receiving
  an existing QC or TC. A started event loop keeps taking events and the timer of
  a view fires; timeouts are broadcast again with every tick and carry the newest
  QC and TC, so a certificate that exists is eventually received. Proposals need
  not arrive, and Byzantine replicas need not do anything.
* Collectors and aggregators: weak fairness of each goroutine that has begun.
  Nothing is assumed to arrive.
* `EventLoop`, `Follower`: weak fairness of the disjunction of all steps that a
  goroutine which has begun can take: the Go scheduler does not stop while something
  can run. Nobody has to submit anything to the event loop; the follower's batches are
  delivered, since synchronization requests missing blocks again.
* `JobQueue`: goroutines are scheduled, workers complete their jobs, a stopped
  process ends, and one that ended is started again. Publishers need not publish.
* `Ingestion`: weak fairness of the node's own steps as a whole and of each requested
  collection, which the requester asks for until it arrives. Blocks need not come, nor
  be finalized.

## 4. What is proved

All theorems hold for every value of the constants: every committee, every
distribution of weights with less than a third of it Byzantine, every tree of
blocks, any number of views, participants, crashes, votes, timeouts, submissions,
received ranges, jobs, workers and goroutines, any configuration of queues, channels
and timers.

| Theorem | Statement |
|---|---|
| `QuorumsShareHonestReplica` | two quorums have an honest replica in common |
| `SafetyRulesTypeCorrect`, `SafetyInvariantHolds` | the inductive invariant of SafetyRules |
| `UniqueCertificates` | at most one certified block per view |
| `LockRespected` | no timeout supports a TC older than what its signer voted on |
| `Finality` | every block certified at or above the view of a finalized block descends from it |
| `ParticipantInvariantHolds` | the inductive invariant of the event handlers |
| `ParticipantsFollowSafetyRules` | `Spec => SafetyRulesSpec`: event handlers with PaceMaker, Forks, crashes and recovery implement SafetyRules |
| `ParticipantsNeverFail` | no handler runs into an error that stops the node |
| `ParticipantsSignWithinLivenessData` | nothing is signed beyond the current view and the newest QC |
| `ParticipantsHaveEvidence` | a participant holds the QC, or the TC with a new enough QC, that its current view requires |
| `ParticipantsNeverEquivocate` | one own proposal per view, across crashes |
| `ParticipantsAgree` | what the Forks of any two participants finalize lies on one chain |
| `ParticipantsNeverMoveBackwards` | finalization, view, newest QC and SafetyData are monotone, across crashes |
| `CollectorCreatesValidQCs`, `CollectorCreatesOneQC`, `CollectorReportsEquivocation` | the vote collector |
| `CollectorCreatesValidTCs`, `CollectorJustifiesPartialTCs`, `CollectorEventsHappenOnce`, `CollectorNeverFails` | the timeout collector |
| `EventLoopInvariantHolds` | the inductive invariant of the event loop |
| `TimeoutsAreNotEarly` | a timeout is only handled after the timer of the current view has expired |
| `TimeoutsComeFirst` | at most one other event is handled while a timeout or a partial TC is pending |
| `BackoffStaysTruncated` | timeouts stay within their bounds, and the first progress shortens them |
| `TrackersImplementRegisters` | each tracker implements `NewestRegister` |
| `CollectorsAreUnique` | the messages of a view that is not pruned meet in one collector |
| `MessagesAreHandedOnce` | an action property: no step hands a message over again, or to another collector |
| `FollowerNeverThrows` | given `ConsensusIsSafe`, no goroutine of the follower throws |
| `CommitteeMakesFollowerSafe`, `FollowerOfSafeCommittee` | certificates signed by replicas that follow SafetyRules satisfy `ConsensusIsSafe`, so a follower that receives those has not thrown |
| `QueueAnswersExactly` | each operation of the block queue returns exactly the blocks it makes executable |
| `BlocksAreExecutedInOrder` | no queued block waits for a parent that has gone, results are saved after the parent's, and workers find their start states |
| `ConsumerIsAtLeastOnce` | the job consumer implements `AtLeastOnce` |
| `JobsRunInOneGoroutine`, `ConsumerKeepsLimits` | no job is started twice at a time; the limits hold |

*Assumptions.* `CommitteeAssumption` and `FaultAssumption` (finite committee,
natural weights, Byzantine weight below a third), `BlockTreeAssumption` (typing,
and parents have smaller views than their children), `ParticipantAssumption`
(participants are honest; that received certificates are valid is a guard of `Next`,
section 2), `VotesAssumption`, `TasksAssumption`,
`ScenariosAssumption` and `TimeoutsAssumption` (typing, the leader alone is no
quorum, a timeout's newest QC is older than its view), `JobQueueAssumption`
(typing), `ConfigAssumption` (what `timeout.NewConfig` checks, with a minimum of at
least one millisecond; the adjustment factor is any fraction above one), `EventLoopAssumption` (typing, and there is a view after
that of each certificate), `VoteAggregatorAssumption` and `AggregatorsAssumption`
(typing, and distinct names for goroutines), `BatchesAssumption` (a received range
is not empty, and every block in it is the parent of the next), `BlockQueueAssumption`
(typing, and no block is its own parent). TLC evaluates all of them on every run that
extends the modules. `ConsensusIsSafe` is no assumption but the hypothesis of
`FollowerNeverThrows`, which `CommitteeMakesFollowerSafe` discharges; `MCFollower`
has TLC evaluate that its blocks satisfy it.

*Recursion and induction.* The provers do no induction over data. The recursive
functions are shown to satisfy their equations instead (`AncestorsEquation`,
`RecoverForksEquation`, and that of `Backoff`), and statements about all blocks are
proved on a counterexample of smallest view (`SmallestView`). That the backoff grows
with its exponent is proved on a smallest exponent where it does not
(`SmallestExponent`).

*Quorums.* The weight of a set is the cardinality of a set of weight units, so
additivity is a fact about disjoint finite sets. `QuorumThresholdProperty` derives
from the integer arithmetic of `WeightThresholdToBuildQC` that three times the
threshold exceeds twice the total weight; two quorums that share Byzantine replicas
only would weigh too much.

*SafetyRules.* Uniqueness of certificates is not inductive: it does
not say why a replica that has voted in a view cannot vote there again.
`SafetyInvariant` adds that every signed vote and timeout is bounded by the
persisted SafetyData (its view by `HighestAcknowledgedView`, the QC it builds on by
`LockedOneChainView`), that the timeout to be repeated has been signed before, and
that a vote is only given for blocks with valid certificates. The last conjunct
needs that certificates stay valid (`CertificatesStayValid`), as signatures only
accumulate. *Finality* follows without further temporal reasoning. Take a
counterexample of smallest view. Its parent is certified
and not below the finalized block (`ParentNotBelowFinalized`): if the block skips
views, its TC was signed by a quorum, which shares an honest replica with the
quorum that certified the finalized block's child. That replica had locked on the
finalized block, so its timeout, and hence the TC and the block's QC, are at least
as new. So the parent is a smaller counterexample, or has the view of the finalized
block and is that block by uniqueness.

*Event handlers.* `ParticipantInvariant` says of each participant what its parts,
which are updated and persisted separately, know of each other:
- the current view was entered with a QC or TC for the view before, which is the
  evidence SafetyRules demands, and is valid as long as received certificates are
  (`SoundLivenessData`);
- `HighestAcknowledgedView` is at most the current view and `LockedOneChainView` at
  most the view of the newest QC, so that timing out never fails;
- Forks holds valid blocks only, has not failed, and what it has finalized is
  finalized by the committee (`SoundForks`); it cannot meet a conflicting block
  because of `Finality`;
- the parents of all signed blocks are known to Forks, and the newest QC is ahead of
  finalization, so that no parent is missing when a proposal is built or recovered.

The first half of `ParticipantProofs` states what a step has to do in order to preserve
this, for the participant that takes it (`ParticipantStepIsSound`) and for all others,
whose certificates can only become more (`OtherStepIsSound`). The second half
shows that every handler, and `Restart` from any set of pending blocks and any
LivenessData an interrupted handler may have left, does just that. The invariant
was checked with TLC on the instance of `participant` before it was proved.

*Follower.* That nothing is thrown is not inductive: the core throws if a block it
forwards has no stored parent, if two certified blocks in the pending tree share a view,
or if the tree connects further blocks when it learns of finalization; the follower loop
throws if Forks does not know a parent or meets a conflict. `FollowerInvariant` says why
none of this happens:
- a batch is a connected range until the cache has certified it, and from then on a list
  of blocks that a received block certifies (`SoundBatches`), whatever `lowestView` the
  worker has trimmed it with;
- the protocol state holds with a block its parent (`SoundStore`), and the connected
  blocks of the pending tree are stored or among those the core has still to forward;
  the vertices that hang on the finalized block are connected, all of them (`SoundTree`);
- there is a stored block `base` from which Forks has started in this process. What is
  stored above it is in Forks or in the loop's channel, after its parent (`SoundIncoming`);
- a finalized block that is announced to the tree is connected there, or the tree has
  passed it (`SoundFinal`), so that what hangs on it is connected already.

`base` is needed because finalization is persisted block by block. A crash may leave a
finalized block whose finality shows in a descendant only, and Forks then starts from
it: blocks certified in later views need not descend from that block by the rule, but
only its descendants are given to Forks (`FollowerAgreement`). The lemmas about
`Forks` are those of the event handlers, with the certificates of the committee replaced by
the ones received. That `AddCertifiedBlocks` preserves what is said of the tree is
proved on a smallest prefix for which it is not preserved.

*Vote collector.* `VoteCollectorInvariant`: one processor is ever installed, a
processor aggregates signers of its own block, one goroutine at most is building a
QC, and once there is a QC the installed processor is done. Equivocation has an
invariant of its own, `FirstOrReported`.

*Timeout collector.* `TimeoutCollectorInvariant`: the tracker of the newest QC is
ahead of the aggregated signatures (QCs are tracked before signatures are added);
weights read earlier are lower bounds, so a goroutine that saw a threshold reached is
right about it later; the one-time flags separate the goroutines that cross it.

*Event loop.* `EventLoopInvariant` has four parts, one for each thing that is shared.
`Submitted`: a goroutine that is about to swap holds a snapshot older than its item,
and only notifies about a tracker that holds something. So a swap that succeeds makes
the tracker newer, and one that fails is repeated: each step maps to one of
`NewestRegister` or a stutter. `Timed`: the loop listens to the timer of its current
view; if that timer's goroutine is sending, or its channel holds a tick, it has
expired; later views have no timer. `NoEarlyTimeout` alone is not inductive, as it says
nothing of ticks that are on their way. `BackedOff`: failed rounds are counted up to
the first exponent that reaches the maximum. This is stronger than the bound on the
duration, which a counter that runs away would satisfy too. `Prioritised`: when the loop
waits in its second select, nothing has been bypassed.

*Aggregators.* `VotesInvariant` and `TimeoutsInvariant`: a collector is stored under
the view of the message it was created for, the pruning of the collectors follows the
aggregator's own threshold, and a message is in one place (`InOnePlace`): once in
a queue, with one worker, or handed over. `MessagesMeetInOneCollector` needs that the
lowest view the map retains is never ahead of the aggregator's, so that a collector
that messages were handed to is removed only with its view.

*Block queue.* The operations are functions, and the theorem says what they
return for every queue that passes the consistency checks listed at
`BlockQueue.blocks` (`Consistent`). Its one hypothesis is that a block which is new to
the queue has no child in it. The code relies on that, too: a child that is enqueued
before its parent is taken for one whose parent has been executed. That the ingestion
respects it is the throttle's order of loading; `QueueIsConsistent` has TLC check it.

*Execution node.* What remains without that hypothesis is proved of the node with all
its goroutines. `NodeInvariant`: whatever has a result, its parent has one
(`ParentsAreExecuted`); the queue strands no block (`Unstranded`); once the consumer has
seen the parent's commitment it is there (`ConsumerIsSound`); and everything that a
goroutine has still to hand over, or a worker is about to execute, has its start state
(`SendersAreSound`, `WorkersAreSound`). It is preserved between the steps of different
goroutines because results are only added. So the start state of a block is never
missing, even if the parent is loaded a second time or the node crashes between saving
a result and telling the queue.

*Job queue.* `JobQueueInvariant`: what is done or covered by the index is finished,
and fewer than `MaxProcessing` jobs that are not done precede a running one. The
limit itself is not inductive: the scan counts jobs, not goroutines.

### What is only model-checked

Liveness (`EveryViewEnds`, `QCIsCreated`, `TCIsCreated`,
`QueuedMessagesAreProcessed`, `PruningsCatchUp`, `EventsTakeEffect`,
`CertifiedBlocksReachForks`, `FinalityReachesCore`, `JobsAreProcessedUnlessSkipped`,
`EveryBlockIsExecuted`): the prover does not handle fairness and ENABLED.

The ingestion (`OnlyOrphansStopTheNode`, `QueueIsConsistent`, `ExecutablesAreDispatched`,
`ExecutedOnce`): all four depend on the order in which the throttle loads a block and
its descendants, which is a recursion over the tree of blocks. A block that is enqueued
again after its child would have a started child while it is queued, for instance, and
only the order of loading rules that out. `ExecutablesAreDispatched` also counts
workers in a bag. What is proved is the part that holds for any order of loading.

The recursive operators that build block
universes are confined to `MC` modules, which the proofs do not use.

## 5. What is not modelled

Within the modelled parts:
- cryptography, encodings and the random beacon beyond the count of shares; leader
  selection; epochs (one fixed committee, with replicas that join and are ejected);
- the block rate controller (wall-clock time), the payload builder (a choice of
  block), `InvalidBlock` of the vote aggregator and other reports to be slashed;
- shutdown, except of the job queue;
- the compliance engine's cache of pending blocks and the message hub: proposals
  reach participants validated and after their parents;
- of the follower: the inbound queues and `SkipNewProposalsThreshold`, which drop
  blocks that are then delivered again; ejection from a full cache; the report of
  equivocation;
- of the ingestion: the stop control and the requester of collections;
- the levelled forest behind `Forks` and `PendingTree`, which are sets of blocks here;
- the composition of collectors, event loop and event handlers in one state space:
  each is checked against what its neighbours may do (any valid certificate, in any
  order, repeated or lost), which is what the collectors' theorems provide.

Outside of them: the protocol state, mempools, collections, computation and
verification of chunks, sealing, the virtual machine, the ledger, access nodes, state
synchronization, DKG and networking. They are most of the repository's lines.
`PROJECT.json` gives the reason for each.

## 6. Where code and comments differ

Two runs end in a violation.

1. `job_queue_concurrent_checks`: the package says it will "guarantee each job (i.e.
   finalized block) will be processed eventually" (`src/module/jobqueue/README.md:10`),
   and `Check` returns if another one is running, in order to "rely on that process to
   check processable jobs" (`consumer.go:160-161`). That process may have scanned the
   jobs already. The last job is then not started until another job is added or done.
   `JobsAreProcessedUnlessSkipped` says that nothing else delays a job forever.
2. `ingestion_orphan`: `enqueuBlock` takes it for granted that a parent which is not in
   the queue has been executed (`core.go:287-289`). A parent that the throttle ignored
   while catching up, and that was orphaned since, is in neither; if its child is
   announced after the throttle has caught up, the node throws.
   `OnlyOrphansStopTheNode` says that this, and the restart described below, are all
   that stops the node.

Further observations, met while modelling, which have no run of their own. The one
about late timeouts limits what is said of participants.

*SafetyRules and collectors.*
- The SafetyRules interface promises that ProduceVote returns its cached vote for
  identical inputs (`safety_rules.go:38-39`). The implementation keeps no vote and
  answers with a NoVoteError.
- StakingVoteProcessor expects no error from adding a verified signature
  (`staking_vote_processor.go:145-146`). The proposer's own vote is counted on
  creation and replayed from the cache, so there is one for every proposal; it is
  ignored by the caller.
- processVote calls repeating the processing after a status change "REQUIRED for
  LIVENESS". `QCIsCreated` also holds without the repetition: a vote is cached before
  the processor is loaded, so the replay that follows a swap finds it. What liveness
  does require is that replay.
- Timeouts that arrive after the TC is complete are not validated
  (`timeout_processor.go:116-118`), but their QC and TC are reported like those of
  validated ones (`timeout_collector.go:118-126`) and reach the PaceMaker as trusted
  certificates (`event_loop.go:314-320`). The theorems about participants, and the runs
  `participant` and `participant_progress`, assume that they are valid (section 2).
- A collector created while pruning runs may be inserted below the lowest retained view
  and stay there (`vote_collectors.go:87`, `timeout_collectors.go:76`), although only
  views from that one on are said to be retained.

*Event loop.*
- The ticker's goroutine sends outside of its select (`controller.go:104`, `115`). If the
  view changes while the slot is taken, it stays blocked, although "when cancelling
  `ctx`, all timing logic stops". A tick that waits is not dropped either.
- A local timeout does not start a new timer or channel, contrary to
  `event_loop.go:147-149`; the loop has to begin again for other reasons.
- A TC that is superseded in its tracker takes its newest QC with it. The node gets the
  QC with a later certificate.

*Forks and follower.*
- After a restart, Forks recovers pending blocks with AddValidatedBlock. The certificate
  of the tip is forgotten, and finalization waits for the next certified block.
- A batch trimmed with an old threshold (`cache.go:380`) may put blocks below the
  threshold into the follower's cache after pruning has passed, where only ejection
  removes them. They do no harm.

*Ingestion.*
- A block that is stored and not announced yet is loaded as a pending block when the
  throttle catches up, and again when it is announced, although loading happens once so
  as not to "load the same block twice" (`throttle.go:318-320`); `loadedAll` is only set
  at initialization. `ExecutedOnce` allows a second execution for such blocks only.
- Workers hand over blocks through an unbuffered channel before they become idle. If
  all `MaxConcurrentBlockExecutor` workers (5 in the code) do so at once, they wait for
  each other. Two workers and blocks p, q on b, and r on p, are enough; the run
  `ingestion` has more workers than branches and does not reach this.
- A node whose last executed block has been orphaned does not start again as long as the
  finalized block of that height is not executed (`state.go:644-646`), which it cannot
  be before the node starts. This concerns nodes without storehouse.
- The last executed block is the one whose results were saved last, not the highest one.
  If it is `CatchUpThreshold` blocks (500 in the code, 1 in the run) or more behind the
  executed and finalized ones when the node restarts, the throttle loads executed blocks
  only. They are skipped, and as the next block is loaded when one has been executed,
  none ever is. `EveryBlockIsExecuted` excepts this case (`Stalled`).
