--------------------------- MODULE VoteCollector ---------------------------
(***************************************************************************)
(* The VoteCollector of one view (consensus/hotstuff/votecollector): a     *)
(* cache of first votes, and a vote processor that is swapped atomically,  *)
(* used by many goroutines at once.  A goroutine works on one task: adding *)
(* a vote, processing a proposal, or replaying a cached vote.  A step is   *)
(* what happens under one lock or in one atomic operation.                 *)
(*                                                                         *)
(* A combined collector processes votes with CombinedVoteProcessorV2 (main *)
(* consensus: a staking signature and optionally a random beacon share),   *)
(* the others with StakingVoteProcessor (collector clusters).              *)
(***************************************************************************)
EXTENDS Committee, Sequences

CONSTANTS Votes,         \* all votes considered
          Received,      \* the votes that may arrive as messages of their own
          Deliveries,    \* how often each of them may be received (a bound)
          Proposals,     \* calls of ProcessBlock
          ProposerVote,  \* the vote embedded in each proposal
          Leader,        \* the leader of the view
          Scenarios,     \* which collector is used, and what may arrive at it
          MinShares,     \* beacon shares needed to reconstruct a signature
          NoVote

\* The last conjunct leaves out committees in which the leader alone is a quorum
\* (a cluster of one collection node): there Create, which processes the
\* proposer's vote, would build the QC before the processor is installed.
ASSUME VotesAssumption ==
    /\ \A v \in Votes : /\ v.SignerID \in Replicas
                        /\ v.Sig \in {"staking", "staking+beacon", "invalid"}
    /\ NoVote \notin Votes
    /\ Received \subseteq Votes
    /\ ProposerVote \in [Proposals -> Votes]
    /\ \A p \in Proposals : ProposerVote[p].SignerID = Leader /\ ProposerVote[p].Sig # "invalid"
    /\ Proposals \cap {"caching", "invalid"} = {}
    /\ Deliveries \in Nat /\ MinShares \in Nat
    /\ ~IsQuorum({Leader})

\* Task <<v, 0>> replays the cached vote v, the others receive v.
VoteTasks == (Votes \X {0}) \cup (Received \X (1 .. Deliveries))
Tasks == VoteTasks \cup Proposals

ASSUME TasksAssumption == VoteTasks \cap Proposals = {}

ASSUME ScenariosAssumption ==
    \A s \in Scenarios : /\ s.combined \in BOOLEAN
                         /\ s.inputs \subseteq (Received \X (1 .. Deliveries)) \cup Proposals

VARIABLES combined,        \* the kind of vote processor, chosen once
          votesCache,      \* first vote of each signer
          votesProcessor,  \* "caching", "invalid", or the proposal whose
                           \* verifying processor is installed
          verifiers,       \* state of each proposal's verifying processor
          pc,              \* what each task does next
          processor,       \* the processor each vote task has loaded
          qcs,             \* QCs handed to onQCCreated
          equivocators     \* signers named to OnDoubleVotingDetected

vcVars == <<combined, votesCache, votesProcessor, verifiers, pc, processor, qcs, equivocators>>

Block(p) == ProposerVote[p].BlockID

Status(proc) == IF proc \in Proposals THEN "verifying" ELSE proc

\* Signers seen (CombinedVoteProcessorV2.votesCache), signatures aggregated,
\* beacon shares collected, and whether a QC is built.
NewVerifier == [votesCache |-> {}, signers |-> {}, shares |-> {}, done |-> FALSE]

\* VoteProcessorFactory.Create: the proposer's vote is processed first.
CreateVerifier(v) ==
    [votesCache |-> {v.SignerID}, signers |-> {v.SignerID},
     shares |-> IF v.Sig = "staking+beacon" THEN {v.SignerID} ELSE {}, done |-> FALSE]

VoteCollectorInit ==
    /\ votesCache = [r \in Replicas |-> NoVote]
    /\ votesProcessor = "caching"
    /\ verifiers = [p \in Proposals |-> NewVerifier]
    /\ \E s \in Scenarios :
          /\ combined = s.combined
          /\ pc = [t \in Tasks |-> IF t \in s.inputs \cup (Votes \X {0}) THEN "idle" ELSE "absent"]
    /\ processor = [t \in VoteTasks |-> "caching"]
    /\ qcs = <<>>
    /\ equivocators = {}

Goto(t, label) == pc' = [pc EXCEPT ![t] = label]
-----------------------------------------------------------------------------
(***************************************************************************)
(* ensureVoteUnique and VotesCache.AddVote                                 *)
(***************************************************************************)
Cache(v) ==
    LET first == votesCache[v.SignerID]
    IN  /\ votesCache' = IF first = NoVote THEN [votesCache EXCEPT ![v.SignerID] = v]
                                           ELSE votesCache
        /\ equivocators' = IF first \in {NoVote, v} THEN equivocators
                                                    ELSE equivocators \cup {v.SignerID}

\* AddVote, up to processVote
AddVote(t) ==
    /\ t[2] > 0
    /\ pc[t] = "idle"
    /\ Cache(t[1])
    /\ Goto(t, IF votesCache[t[1].SignerID] = NoVote THEN "load" ELSE "end")
    /\ UNCHANGED <<votesProcessor, verifiers, processor, qcs>>

\* processVote: load the processor; NoopProcessor.Process does nothing
LoadProcessor(t) ==
    /\ pc[t] = "load"
    /\ processor' = [processor EXCEPT ![t] = votesProcessor]
    /\ Goto(t, IF votesProcessor \in Proposals THEN "process" ELSE "compare")
    /\ UNCHANGED <<votesCache, votesProcessor, verifiers, qcs, equivocators>>

\* Mutant: votes for other blocks are accepted.
ProcessAnyBlock(t) ==
    LET p        == processor[t]
        signer   == t[1].SignerID
        rejected == combined /\ signer \in verifiers[p].votesCache
    IN  /\ pc[t] = "process"
        /\ Goto(t, CASE rejected -> "end"
                     [] ~rejected /\ verifiers[p].done -> "compare"
                     [] ~rejected /\ ~verifiers[p].done /\ t[1].Sig = "invalid" -> "end"
                     [] OTHER -> "add")
        /\ verifiers' = IF combined /\ ~rejected
                           THEN [verifiers EXCEPT ![p].votesCache = @ \cup {signer}]
                           ELSE verifiers
        /\ UNCHANGED <<votesCache, votesProcessor, processor, qcs, equivocators>>

Process(t) ==
    LET p        == processor[t]
        signer   == t[1].SignerID
        rejected == \/ t[1].BlockID # Block(p)
                    \/ combined /\ signer \in verifiers[p].votesCache
    IN  /\ pc[t] = "process"
        /\ Goto(t, CASE rejected -> "end"
                     [] ~rejected /\ verifiers[p].done -> "compare"
                     [] ~rejected /\ ~verifiers[p].done /\ t[1].Sig = "invalid" -> "end"
                     [] OTHER -> "add")
        /\ verifiers' = IF combined /\ ~rejected
                           THEN [verifiers EXCEPT ![p].votesCache = @ \cup {signer}]
                           ELSE verifiers
        /\ UNCHANGED <<votesCache, votesProcessor, processor, qcs, equivocators>>

EnoughSignatures(verifier) ==
    /\ IsQuorum(verifier.signers)
    /\ combined => Cardinality(verifier.shares) >= MinShares

\* Mutant: done is set, but not with a compare-and-swap.
StartBuildingAgain(t, verifier) ==
    /\ verifiers' = [verifiers EXCEPT ![processor[t]] =
                        [verifier EXCEPT !.done = @ \/ EnoughSignatures(verifier)]]
    /\ Goto(t, IF EnoughSignatures(verifier) THEN "build" ELSE "compare")

\* Only one of the tasks that find enough signatures passes.
StartBuilding(t, verifier) ==
    LET passes == EnoughSignatures(verifier) /\ ~verifier.done
    IN  /\ verifiers' = [verifiers EXCEPT ![processor[t]] =
                            [verifier EXCEPT !.done = @ \/ passes]]
        /\ Goto(t, IF passes THEN "build" ELSE "compare")

\* stakingSigAggtor.TrustedAdd.  A signature of the same signer is refused
\* with a DuplicatedSignerError, which processVote ignores.
AddSignature(t) ==
    LET p        == processor[t]
        signer   == t[1].SignerID
        verifier == [verifiers[p] EXCEPT !.signers = @ \cup {signer}]
    IN  /\ pc[t] = "add"
        /\ \/ /\ signer \in verifiers[p].signers
              /\ Goto(t, "end")
              /\ UNCHANGED verifiers
           \/ /\ signer \notin verifiers[p].signers
              /\ combined
              /\ verifiers' = [verifiers EXCEPT ![p] = verifier]
              /\ Goto(t, IF t[1].Sig = "staking+beacon" THEN "share" ELSE "count")
           \/ /\ signer \notin verifiers[p].signers
              /\ ~combined
              /\ StartBuilding(t, verifier)
        /\ UNCHANGED <<votesCache, votesProcessor, processor, qcs, equivocators>>

\* rbRector.TrustedAdd
AddShare(t) ==
    /\ pc[t] = "share"
    /\ verifiers' = [verifiers EXCEPT ![processor[t]].shares = @ \cup {t[1].SignerID}]
    /\ Goto(t, "count")
    /\ UNCHANGED <<votesCache, votesProcessor, processor, qcs, equivocators>>

\* TotalWeight, EnoughShares and the compare-and-swap of done
Count(t) ==
    /\ pc[t] = "count"
    /\ StartBuilding(t, verifiers[processor[t]])
    /\ UNCHANGED <<votesCache, votesProcessor, processor, qcs, equivocators>>

\* buildQC and onQCCreated
BuildQC(t) ==
    LET p == processor[t]
    IN  /\ pc[t] = "build"
        /\ qcs' = Append(qcs, [BlockID |-> Block(p), SignerIDs |-> verifiers[p].signers])
        /\ Goto(t, "compare")
        /\ UNCHANGED <<votesCache, votesProcessor, verifiers, processor, equivocators>>

\* processVote starts over if the status has changed in the meantime.  (The
\* vote was cached before the processor was loaded, so that it is replayed in
\* this case anyway; QCIsCreated does not depend on this step.)
Compare(t) ==
    /\ pc[t] = "compare"
    /\ Goto(t, IF Status(processor[t]) # Status(votesProcessor) THEN "load" ELSE "end")
    /\ UNCHANGED <<votesCache, votesProcessor, verifiers, processor, qcs, equivocators>>
-----------------------------------------------------------------------------
(***************************************************************************)
(* ProcessBlock                                                            *)
(***************************************************************************)
\* Mutant: the proposer's vote bypasses the cache.
ProcessBlockUncached(p) ==
    /\ pc[p] = "idle"
    /\ Goto(p, "load")
    /\ UNCHANGED <<votesCache, votesProcessor, verifiers, processor, qcs, equivocators>>

\* The proposer's vote is cached; the proposal is processed in any case.
ProcessBlock(p) ==
    /\ pc[p] = "idle"
    /\ Cache(ProposerVote[p])
    /\ Goto(p, "load")
    /\ UNCHANGED <<votesProcessor, verifiers, processor, qcs>>

\* Without a block, a verifying processor is created but not yet installed.
\* Another block with the same view ends vote processing.
LoadStatus(p) ==
    LET creates == votesProcessor = "caching"
        differs == votesProcessor \in Proposals /\ Block(votesProcessor) # Block(p)
    IN  /\ pc[p] = "load"
        /\ verifiers' = IF creates
                           THEN [verifiers EXCEPT ![p] = CreateVerifier(ProposerVote[p])]
                           ELSE verifiers
        /\ Goto(p, CASE creates -> "swap"
                     [] differs -> "terminate"
                     [] OTHER -> "end")
        /\ UNCHANGED <<votesCache, votesProcessor, processor, qcs, equivocators>>

\* Mutant: the processor is stored without comparing the current status.
caching2VerifyingUnchecked(p) ==
    /\ pc[p] = "swap"
    /\ votesProcessor' = p
    /\ Goto(p, "replay")
    /\ UNCHANGED <<votesCache, verifiers, processor, qcs, equivocators>>

\* caching2Verifying
caching2Verifying(p) ==
    /\ pc[p] = "swap"
    /\ votesProcessor' = IF votesProcessor = "caching" THEN p ELSE votesProcessor
    /\ Goto(p, IF votesProcessor = "caching" THEN "replay" ELSE "load")
    /\ UNCHANGED <<votesCache, verifiers, processor, qcs, equivocators>>

\* processCachedVotes: the cached votes for the block are submitted to workers
processCachedVotes(p) ==
    LET replays == {<<v, 0>> : v \in {votesCache[r] : r \in Replicas} \ {NoVote}}
    IN  /\ pc[p] = "replay"
        /\ pc' = [t \in Tasks |-> CASE t = p -> "end"
                                    [] t \in replays /\ t[1].BlockID = Block(p) -> "load"
                                    [] OTHER -> pc[t]]
        /\ UNCHANGED <<votesCache, votesProcessor, verifiers, processor, qcs, equivocators>>

\* terminateVoteProcessing: its loop ends with the status being invalid
terminateVoteProcessing(p) ==
    /\ pc[p] = "terminate"
    /\ votesProcessor' = "invalid"
    /\ Goto(p, "end")
    /\ UNCHANGED <<votesCache, verifiers, processor, qcs, equivocators>>
-----------------------------------------------------------------------------
processVote(t) ==
    /\ UNCHANGED combined
    /\ \/ LoadProcessor(t) \/ Process(t) \/ AddSignature(t)
       \/ AddShare(t) \/ Count(t) \/ BuildQC(t) \/ Compare(t)

continueProcessBlock(p) ==
    /\ UNCHANGED combined
    /\ \/ LoadStatus(p) \/ caching2Verifying(p)
       \/ processCachedVotes(p) \/ terminateVoteProcessing(p)

Arrive ==
    /\ UNCHANGED combined
    /\ \/ \E t \in VoteTasks : AddVote(t)
       \/ \E p \in Proposals : ProcessBlock(p)

VoteCollectorNext ==
    \/ Arrive
    \/ \E t \in VoteTasks : processVote(t)
    \/ \E p \in Proposals : continueProcessBlock(p)

VoteCollectorSpec == VoteCollectorInit /\ [][VoteCollectorNext]_vcVars

\* Goroutines that have begun are scheduled; nothing needs to arrive.
VoteCollectorFairSpec ==
    /\ VoteCollectorSpec
    /\ \A t \in VoteTasks : WF_vcVars(processVote(t))
    /\ \A p \in Proposals : WF_vcVars(continueProcessBlock(p))
-----------------------------------------------------------------------------
VerifierType ==
    [votesCache : SUBSET Replicas, signers : SUBSET Replicas,
     shares : SUBSET Replicas, done : BOOLEAN]

Labels == {"absent", "idle", "load", "process", "add", "share", "count", "build",
           "compare", "swap", "replay", "terminate", "end"}

(***************************************************************************)
(* The collector and its goroutines are in a well-formed state.            *)
(***************************************************************************)
VoteCollectorTypeOK ==
    /\ combined \in BOOLEAN
    /\ votesCache \in [Replicas -> Votes \cup {NoVote}]
    /\ votesProcessor \in Proposals \cup {"caching", "invalid"}
    /\ verifiers \in [Proposals -> VerifierType]
    /\ pc \in [Tasks -> Labels]
    /\ processor \in [VoteTasks -> Proposals \cup {"caching", "invalid"}]
    /\ equivocators \subseteq Replicas

\* Replicas that have signed the block, with the proposal or a received vote.
SignersOf(b) ==
    {v.SignerID : v \in {w \in Votes : w.BlockID = b /\ w.Sig # "invalid"}}

(***************************************************************************)
(* Every QC is made of valid votes for its block, from a quorum of         *)
(* different signers, although votes are repeated, replayed from the cache *)
(* and equivocating ("the final defense against any double-counting").     *)
(***************************************************************************)
QCsAreValid ==
    \A i \in DOMAIN qcs :
        /\ IsQuorum(qcs[i].SignerIDs)
        /\ qcs[i].SignerIDs \subseteq SignersOf(qcs[i].BlockID)

(***************************************************************************)
(* A collector never creates a second QC, neither for the same block by    *)
(* two goroutines that both see enough votes, nor for a conflicting        *)
(* proposal.                                                               *)
(***************************************************************************)
AtMostOneQC == Len(qcs) <= 1

(***************************************************************************)
(* Whatever reaches the collector, two different votes of one signer do    *)
(* not go unnoticed, even if one of them is embedded in a proposal         *)
(* (ensureVoteUnique, OnDoubleVotingDetected).                             *)
(***************************************************************************)
Ingested ==
    {t[1] : t \in {u \in VoteTasks : u[2] > 0 /\ pc[u] \notin {"absent", "idle"}}}
      \cup {ProposerVote[p] : p \in {q \in Proposals : pc[q] \notin {"absent", "idle"}}}

EquivocationIsReported ==
    \A v, w \in Ingested : v # w /\ v.SignerID = w.SignerID => v.SignerID \in equivocators

(***************************************************************************)
(* The liveness claim proved informally at processVote: no vote is lost    *)
(* while the processor is swapped.  Once a proposal's processor is         *)
(* installed and enough valid first votes for it have been cached, a QC is *)
(* created, unless the leader equivocates.                                 *)
(***************************************************************************)
CollectedVotes(p) ==
    {ProposerVote[p]} \cup
    {v \in {votesCache[r] : r \in Replicas \ {Leader}} \ {NoVote} :
        v.BlockID = Block(p) /\ v.Sig # "invalid"}

EnoughVotes(p) ==
    EnoughSignatures(
        [signers |-> {v.SignerID : v \in CollectedVotes(p)},
         shares  |-> {v.SignerID : v \in {w \in CollectedVotes(p) : w.Sig = "staking+beacon"}}])

QCIsCreated ==
    \A p \in Proposals :
        votesProcessor = p /\ EnoughVotes(p) ~> qcs # <<>> \/ votesProcessor = "invalid"
=============================================================================
