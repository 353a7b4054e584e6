------------------------ MODULE VoteCollectorProofs ------------------------
(***************************************************************************)
(* Proofs, for any committee, votes, proposals and number of goroutines,   *)
(* that a vote collector creates at most one QC, that the QC is valid, and *)
(* that equivocation is reported.                                          *)
(***************************************************************************)
EXTENDS VoteCollector, FiniteSetTheorems, TLAPS

(***************************************************************************)
(* Weights.                                                                *)
(***************************************************************************)
(* The units of weight of any set of replicas are finitely many.           *)
LEMMA WeightUnitsFinite ==
    ASSUME NEW S \in SUBSET Replicas
    PROVE  IsFiniteSet(WeightUnits(S))
<1> DEFINE units(r) == {r} \X (1 .. Weight[r])
           pieces == {units(r) : r \in S}
<1>1. IsFiniteSet(S)
  BY Zenon, CommitteeAssumption, FS_Subset
<1>2. IsFiniteSet(pieces)
  <2> DEFINE g == [r \in S |-> units(r)]
  <2>1. g \in Surjection(S, pieces)
    BY Zenon DEF Surjection
  <2>. QED BY Zenon, <1>1, <2>1, FS_Surjection
<1>3. ASSUME NEW r \in S PROVE IsFiniteSet(units(r))
  <2>1. IsFiniteSet({r})
    BY Zenon, FS_Singleton
  <2>2. Weight[r] \in Nat
    BY Zenon, CommitteeAssumption
  <2>3. IsFiniteSet(1 .. Weight[r])
    BY <2>2, FS_Interval
  <2>. QED BY Zenon, <2>1, <2>3, FS_Product
<1>4. \A p \in pieces : IsFiniteSet(p)
  BY Zenon, <1>3
<1>5. IsFiniteSet(UNION pieces)
  <2>. HIDE DEF pieces
  <2>. QED BY Zenon, <1>2, <1>4, FS_UNION
<1>. QED BY Zenon, <1>5 DEF WeightUnits

(* Total weight is a natural number, and monotone.                         *)
LEMMA TotalWeightProperties ==
    ASSUME NEW S \in SUBSET Replicas, NEW T \in SUBSET Replicas
    PROVE  /\ TotalWeight(S) \in Nat
           /\ S \subseteq T => TotalWeight(S) <= TotalWeight(T)
<1>1. IsFiniteSet(WeightUnits(S)) /\ IsFiniteSet(WeightUnits(T))
  BY Zenon, WeightUnitsFinite
<1>2. S \subseteq T => WeightUnits(S) \subseteq WeightUnits(T)
  BY Zenon DEF WeightUnits
<1>3. S \subseteq T => Cardinality(WeightUnits(S)) <= Cardinality(WeightUnits(T))
  BY Zenon, <1>1, <1>2, FS_Subset
<1>4. Cardinality(WeightUnits(S)) \in Nat
  BY Zenon, <1>1, FS_CardinalityType
<1> QED
  BY Zenon, <1>3, <1>4 DEF TotalWeight

(* The threshold for a QC exceeds two thirds of the total weight           *)
(* (WeightThresholdToBuildQC).                                             *)
LEMMA QuorumThresholdProperty ==
    ASSUME NEW w \in Nat
    PROVE  /\ WeightThresholdToBuildQC(w) \in Nat
           /\ 3 * WeightThresholdToBuildQC(w) > 2 * w
<1>1. /\ w \div 3 \in Nat
      /\ w % 3 \in 0 .. 2
      /\ w = 3 * (w \div 3) + (w % 3)
  OBVIOUS
<1>. QED BY <1>1 DEF WeightThresholdToBuildQC

(* More signers never invalidate a quorum.                                 *)
LEMMA QuorumMonotone ==
    ASSUME NEW S \in SUBSET Replicas, NEW T \in SUBSET Replicas, S \subseteq T, IsQuorum(S)
    PROVE  IsQuorum(T)
<1>1. Replicas \in SUBSET Replicas
  BY Zenon
<1>2. TotalWeight(Replicas) \in Nat
  BY Zenon, <1>1, TotalWeightProperties
<1>3. QuorumThreshold \in Nat
  BY Zenon, <1>2, QuorumThresholdProperty DEF QuorumThreshold
<1>4. /\ TotalWeight(S) \in Nat
      /\ TotalWeight(T) \in Nat
      /\ TotalWeight(S) <= TotalWeight(T)
  BY Zenon, TotalWeightProperties
<1>. QED BY <1>3, <1>4 DEF IsQuorum

\* Proposals whose processor is installed or still used by a goroutine.
Installed ==
    {p \in Proposals : votesProcessor = p \/ \E t \in VoteTasks : processor[t] = p}

\* At most one proposal's processor is ever installed.
OneProcessor ==
    /\ \A p, q \in Installed : p = q
    /\ votesProcessor = "caching" => Installed = {}

\* A processor aggregates signatures of its own block only.
SignersAreVoters ==
    \A p \in Proposals : verifiers[p].signers \subseteq SignersOf(Block(p))

\* What a goroutine has established when it has come to a label.
TaskOK(t) ==
    /\ pc[t] \in {"process", "add", "share", "count", "build"} => processor[t] \in Proposals
    /\ pc[t] = "add" => t[1].BlockID = Block(processor[t]) /\ t[1].Sig # "invalid"
    /\ pc[t] = "build" => /\ qcs = <<>>
                          /\ verifiers[processor[t]].done
                          /\ IsQuorum(verifiers[processor[t]].signers)

OneBuilder ==
    \A t, u \in VoteTasks : pc[t] = "build" /\ pc[u] = "build" => t = u

ValidQCs ==
    {qc \in [BlockID : {Block(p) : p \in Proposals}, SignerIDs : SUBSET Replicas] :
        IsQuorum(qc.SignerIDs) /\ qc.SignerIDs \subseteq SignersOf(qc.BlockID)}

\* Once there is a QC, nobody can start to build another one.
NoneOrOneQC ==
    \/ qcs = <<>>
    \/ /\ votesProcessor # "caching"
       /\ \A p \in Installed : verifiers[p].done
       /\ \E qc \in ValidQCs : qcs = <<qc>>

(***************************************************************************)
(* The inductive invariant behind the properties of QCs.                   *)
(***************************************************************************)
VoteCollectorInvariant ==
    /\ VoteCollectorTypeOK
    /\ OneProcessor
    /\ SignersAreVoters
    /\ \A t \in VoteTasks : TaskOK(t)
    /\ OneBuilder
    /\ NoneOrOneQC

(***************************************************************************)
(* The inductive invariant behind the reports of equivocation: a vote that *)
(* has come in is the signer's first one, or its signer is reported.       *)
(***************************************************************************)
FirstOrReported ==
    \A v \in Ingested : /\ votesCache[v.SignerID] # NoVote
                        /\ votesCache[v.SignerID] = v \/ v.SignerID \in equivocators
-----------------------------------------------------------------------------
(* A vote task is about a vote of some replica.                            *)
LEMMA VoteTaskIsTask ==
    ASSUME NEW t \in VoteTasks
    PROVE  t \in Tasks /\ t[1] \in Votes /\ t[1].SignerID \in Replicas
BY Zenon, VotesAssumption DEF VoteTasks, Tasks

(* A new collector is well formed.                                         *)
LEMMA VoteCollectorTypeInit == VoteCollectorInit => VoteCollectorTypeOK
BY VotesAssumption, ScenariosAssumption
   DEF VoteCollectorInit, VoteCollectorTypeOK, NewVerifier, VerifierType, Labels

(* The state of the collector stays well formed.                           *)
LEMMA VoteCollectorTypeStep ==
    ASSUME VoteCollectorTypeOK, [VoteCollectorNext]_vcVars
    PROVE  VoteCollectorTypeOK'
<1> USE DEF Goto, Labels
<1>1. CASE UNCHANGED vcVars
  BY Zenon, <1>1 DEF vcVars, VoteCollectorTypeOK
<1>2. ASSUME NEW v \in Votes, Cache(v)
      PROVE  /\ votesCache' \in [Replicas -> Votes \cup {NoVote}]
             /\ equivocators' \subseteq Replicas
  BY Zenon, <1>2, VotesAssumption DEF Cache, VoteCollectorTypeOK
<1>3. ASSUME Arrive PROVE VoteCollectorTypeOK'
  <2>1. ASSUME NEW t \in VoteTasks, AddVote(t) PROVE VoteCollectorTypeOK'
    BY Zenon, <1>2, <1>3, <2>1, VoteTaskIsTask DEF AddVote, Arrive, VoteCollectorTypeOK
  <2>2. ASSUME NEW p \in Proposals, ProcessBlock(p) PROVE VoteCollectorTypeOK'
    <3>1. ProposerVote[p] \in Votes /\ p \in Tasks
      BY Zenon, VotesAssumption DEF Tasks
    <3> QED
      BY Zenon, <1>2, <1>3, <2>2, <3>1 DEF ProcessBlock, Arrive, VoteCollectorTypeOK
  <2> QED
    BY Zenon, <1>3, <2>1, <2>2 DEF Arrive
<1>4. ASSUME NEW t \in VoteTasks, processVote(t) PROVE VoteCollectorTypeOK'
  <2>0. t \in Tasks /\ t[1].SignerID \in Replicas /\ combined' = combined
    BY Zenon, <1>4, VoteTaskIsTask DEF processVote
  <2> USE <2>0 DEF VoteCollectorTypeOK
  <2>1. ASSUME LoadProcessor(t) PROVE VoteCollectorTypeOK'
    BY Zenon, <2>1 DEF LoadProcessor
  <2>2. ASSUME Process(t) PROVE VoteCollectorTypeOK'
    <3>1. pc' \in [Tasks -> Labels]
      BY Zenon, <2>2 DEF Process
    <3>2. \A p \in Proposals : [verifiers[p] EXCEPT !.votesCache = @ \cup {t[1].SignerID}] \in VerifierType
      BY ZenonT(60) DEF VerifierType
    <3>3. verifiers' \in [Proposals -> VerifierType]
      BY Zenon, <2>2, <3>2 DEF Process
    <3> QED
      BY Zenon, <2>2, <3>1, <3>3 DEF Process
  <2>3. ASSUME NEW verifier \in VerifierType, StartBuilding(t, verifier)
        PROVE  verifiers' \in [Proposals -> VerifierType] /\ pc' \in [Tasks -> Labels]
    <3>1. [verifier EXCEPT !.done = @ \/ (EnoughSignatures(verifier) /\ ~verifier.done)] \in VerifierType
      BY Zenon, <2>3 DEF VerifierType, EnoughSignatures
    <3> QED
      BY Zenon, <2>3, <3>1 DEF StartBuilding
  <2>4. ASSUME AddSignature(t) PROVE VoteCollectorTypeOK'
    <3>1. CASE processor[t] \in Proposals
      <4>1. [verifiers[processor[t]] EXCEPT !.signers = @ \cup {t[1].SignerID}] \in VerifierType
        BY ZenonT(60), <3>1 DEF VerifierType
      <4>2. verifiers' \in [Proposals -> VerifierType] /\ pc' \in [Tasks -> Labels]
        <5> DEFINE verifier == [verifiers[processor[t]] EXCEPT !.signers = @ \cup {t[1].SignerID}]
        <5>1. CASE Goto(t, "end") /\ UNCHANGED verifiers
          BY Zenon, <5>1
        <5>2. CASE /\ verifiers' = [verifiers EXCEPT ![processor[t]] = verifier]
                   /\ Goto(t, IF t[1].Sig = "staking+beacon" THEN "share" ELSE "count")
          BY Zenon, <4>1, <5>2
        <5>3. CASE StartBuilding(t, verifier)
          BY Zenon, <2>3, <4>1, <5>3
        <5> QED
          BY Zenon, <2>4, <5>1, <5>2, <5>3 DEF AddSignature
      <4> QED
        BY Zenon, <2>4, <4>2 DEF AddSignature
    <3>2. CASE processor[t] \notin Proposals
      BY ZenonT(60), <2>4, <3>2 DEF AddSignature, StartBuilding
    <3> QED
      BY Zenon, <3>1, <3>2
  <2>5. ASSUME AddShare(t) PROVE VoteCollectorTypeOK'
    BY ZenonT(60), <2>5 DEF AddShare, VerifierType
  <2>6. ASSUME Count(t) PROVE VoteCollectorTypeOK'
    <3>1. CASE processor[t] \in Proposals
      BY Zenon, <2>3, <2>6, <3>1 DEF Count
    <3>2. CASE processor[t] \notin Proposals
      BY Zenon, <2>6, <3>2 DEF Count, StartBuilding
    <3> QED
      BY <3>1, <3>2
  <2>7. ASSUME BuildQC(t) \/ Compare(t) PROVE VoteCollectorTypeOK'
    BY Zenon, <2>7 DEF BuildQC, Compare
  <2> QED
    BY Zenon, <1>4, <2>1, <2>2, <2>4, <2>5, <2>6, <2>7 DEF processVote
<1>5. ASSUME NEW p \in Proposals, continueProcessBlock(p) PROVE VoteCollectorTypeOK'
  <2>1. p \in Tasks /\ ProposerVote[p].SignerID \in Replicas
    BY Zenon, VotesAssumption DEF Tasks
  <2>2. CreateVerifier(ProposerVote[p]) \in VerifierType
    BY Zenon, <2>1 DEF CreateVerifier, VerifierType
  <2> QED
    BY Zenon, <1>5, <2>1, <2>2
       DEF continueProcessBlock, LoadStatus, caching2Verifying, processCachedVotes,
           terminateVoteProcessing, VoteCollectorTypeOK
<1> QED
  BY Zenon, <1>1, <1>3, <1>4, <1>5 DEF VoteCollectorNext

(* The compare-and-swap of done (Count and, in clusters, AddSignature)     *)
(* admits one goroutine to building a QC, and no other one is building.    *)
LEMMA StartBuildingKeepsInvariant ==
    ASSUME VoteCollectorInvariant, VoteCollectorTypeOK',
           NEW t \in VoteTasks, NEW p \in Proposals, p = processor[t],
           NEW verifier \in VerifierType,
           verifiers[p].signers \subseteq verifier.signers,
           verifier.signers \subseteq SignersOf(Block(p)),
           verifier.done = verifiers[p].done,
           StartBuilding(t, verifier),
           UNCHANGED <<votesCache, votesProcessor, processor, qcs, equivocators>>
    PROVE  VoteCollectorInvariant'
<1> DEFINE passes == EnoughSignatures(verifier) /\ ~verifier.done
<1>1. /\ \A q \in Proposals \ {p} : verifiers'[q] = verifiers[q]
      /\ verifiers'[p].signers = verifier.signers
      /\ verifiers'[p].done = (verifiers[p].done \/ passes)
  BY Zenon DEF StartBuilding, VerifierType, VoteCollectorInvariant, VoteCollectorTypeOK
<1>2. /\ \A u \in VoteTasks \ {t} : pc'[u] = pc[u]
      /\ pc'[t] = IF passes THEN "build" ELSE "compare"
  BY Zenon, VoteTaskIsTask DEF StartBuilding, Goto, VoteCollectorInvariant, VoteCollectorTypeOK
<1>3. p \in Installed
  BY Zenon DEF Installed
<1>4. OneProcessor' /\ Installed' = Installed
  BY Zenon DEF VoteCollectorInvariant, OneProcessor, Installed
<1>5. SignersAreVoters'
  BY Zenon, <1>1 DEF VoteCollectorInvariant, SignersAreVoters, Block, SignersOf
<1>6. passes => qcs = <<>>
  BY Zenon, <1>3 DEF VoteCollectorInvariant, NoneOrOneQC
<1>7. passes => \A u \in VoteTasks : pc[u] # "build"
  <2> SUFFICES ASSUME passes, NEW u \in VoteTasks, pc[u] = "build" PROVE FALSE
    BY Zenon
  <2>1. processor[u] \in Installed /\ verifiers[processor[u]].done
    BY Zenon DEF VoteCollectorInvariant, TaskOK, Installed
  <2>2. processor[u] = p
    BY Zenon, <1>3, <2>1 DEF VoteCollectorInvariant, OneProcessor
  <2> QED
    BY Zenon, <2>1, <2>2
<1>8. ASSUME NEW u \in VoteTasks PROVE TaskOK(u)'
  <2>1. CASE u = t
    <3>1. passes => IsQuorum(verifier.signers)
      BY Zenon DEF EnoughSignatures
    <3> QED
      BY Zenon, <1>1, <1>2, <1>6, <2>1, <3>1 DEF TaskOK, IsQuorum, TotalWeight, WeightUnits
  <2>2. CASE u # t
    <3>1. TaskOK(u) /\ pc'[u] = pc[u]
      BY Zenon, <1>2, <2>2 DEF VoteCollectorInvariant
    <3>2. ASSUME pc[u] = "build"
          PROVE  /\ qcs' = <<>>
                 /\ verifiers'[processor[u]].done
                 /\ IsQuorum(verifiers'[processor[u]].signers)
      <4>1. CASE processor[u] = p
        <5>1. IsQuorum(verifier.signers)
          BY Zenon, <3>1, <3>2, <4>1, QuorumMonotone DEF TaskOK, VerifierType, VoteCollectorInvariant, VoteCollectorTypeOK
        <5> QED
          BY Zenon, <1>1, <3>1, <3>2, <4>1, <5>1 DEF TaskOK
      <4>2. CASE processor[u] # p
        BY Zenon, <1>1, <3>1, <3>2, <4>2 DEF TaskOK
      <4> QED
        BY Zenon, <4>1, <4>2
    <3> QED
      BY Zenon, <3>1, <3>2 DEF TaskOK, IsQuorum, TotalWeight, WeightUnits, Block
  <2> QED
    BY Zenon, <2>1, <2>2
<1>9. OneBuilder'
  BY Zenon, <1>2, <1>7 DEF VoteCollectorInvariant, OneBuilder
<1>10. NoneOrOneQC'
  <2>1. \A q \in Proposals : verifiers[q].done => verifiers'[q].done
    BY Zenon, <1>1
  <2>2. CASE qcs = <<>>
    BY Zenon, <2>2 DEF NoneOrOneQC
  <2>3. CASE qcs # <<>>
    BY Zenon, <1>4, <2>1, <2>3 DEF VoteCollectorInvariant, NoneOrOneQC, Installed
  <2> QED
    BY Zenon, <2>2, <2>3
<1> QED
  BY Zenon, <1>4, <1>5, <1>8, <1>9, <1>10 DEF VoteCollectorInvariant

(* Steps that keep the signers and done of all verifiers, install nothing  *)
(* and create no QC keep the invariant, unless a goroutine gets to a label *)
(* without having established what the label stands for.                   *)
LEMMA OtherStepsKeepInvariant ==
    ASSUME VoteCollectorInvariant, VoteCollectorTypeOK',
           \A p \in Proposals : /\ verifiers'[p].signers = verifiers[p].signers
                                /\ verifiers'[p].done = verifiers[p].done,
           UNCHANGED <<votesProcessor, processor, qcs>>,
           \A t \in VoteTasks :
               \/ pc'[t] = pc[t]
               \/ pc'[t] \in {"load", "compare", "swap", "replay", "terminate", "end"}
               \/ pc'[t] \in {"share", "count"} /\ processor[t] \in Proposals
               \/ /\ pc'[t] = "add"
                  /\ processor[t] \in Proposals
                  /\ t[1].BlockID = Block(processor[t]) /\ t[1].Sig # "invalid"
    PROVE  VoteCollectorInvariant'
<1>1. OneProcessor' /\ Installed' = Installed
  BY Zenon DEF VoteCollectorInvariant, OneProcessor, Installed
<1>2. SignersAreVoters'
  BY Zenon DEF VoteCollectorInvariant, SignersAreVoters, Block, SignersOf
<1>3. ASSUME NEW t \in VoteTasks PROVE TaskOK(t)'
  <2>1. TaskOK(t)
    BY Zenon DEF VoteCollectorInvariant
  <2> QED
    BY Zenon, <2>1 DEF TaskOK, Block, IsQuorum, TotalWeight, WeightUnits
<1>4. OneBuilder'
  BY Zenon DEF VoteCollectorInvariant, OneBuilder
<1>5. NoneOrOneQC'
  BY Zenon, <1>1 DEF VoteCollectorInvariant, NoneOrOneQC, Installed
<1> QED
  BY Zenon, <1>1, <1>2, <1>3, <1>4, <1>5 DEF VoteCollectorInvariant
(* Every step of the goroutines keeps the invariant.                       *)
LEMMA VoteCollectorInvariantStep ==
    ASSUME VoteCollectorInvariant, [VoteCollectorNext]_vcVars
    PROVE  VoteCollectorInvariant'
<1>1. VoteCollectorTypeOK
  BY Zenon DEF VoteCollectorInvariant
<1>2. VoteCollectorTypeOK'
  BY Zenon, <1>1, VoteCollectorTypeStep
<1>3. CASE UNCHANGED vcVars
  BY Zenon, <1>2, <1>3, OtherStepsKeepInvariant DEF vcVars
<1>4. ASSUME Arrive PROVE VoteCollectorInvariant'
  <2>1. \A t \in VoteTasks : pc'[t] = pc[t] \/ pc'[t] \in {"load", "end"}
    BY Zenon, <1>1, <1>4 DEF Arrive, AddVote, ProcessBlock, Goto, VoteCollectorTypeOK, Tasks
  <2> QED
    BY Zenon, <1>2, <1>4, <2>1, OtherStepsKeepInvariant DEF Arrive, AddVote, ProcessBlock
<1>5. ASSUME NEW t \in VoteTasks, processVote(t) PROVE VoteCollectorInvariant'
  <2>1. /\ t \in Tasks /\ t[1] \in Votes /\ t[1].SignerID \in Replicas
        /\ TaskOK(t)
    BY Zenon, VoteTaskIsTask DEF VoteCollectorInvariant
  <2>2. ASSUME NEW label, Goto(t, label)
        PROVE  \A u \in VoteTasks : pc'[u] = IF u = t THEN label ELSE pc[u]
    BY Zenon, <1>1, <2>2 DEF Goto, VoteCollectorTypeOK, Tasks
  <2>3. CASE LoadProcessor(t)
    <3>1. \A u \in VoteTasks : processor'[u] = IF u = t THEN votesProcessor ELSE processor[u]
      BY Zenon, <1>1, <2>3 DEF LoadProcessor, VoteCollectorTypeOK
    <3>2. \A u \in VoteTasks :
             pc'[u] = IF u = t THEN IF votesProcessor \in Proposals THEN "process" ELSE "compare"
                               ELSE pc[u]
      BY Zenon, <2>2, <2>3 DEF LoadProcessor
    <3>3. Installed' \subseteq Installed /\ votesProcessor' = votesProcessor
      BY Zenon, <2>3, <3>1 DEF Installed, LoadProcessor
    <3>4. OneProcessor'
      BY Zenon, <3>3 DEF VoteCollectorInvariant, OneProcessor
    <3>5. SignersAreVoters'
      BY Zenon, <2>3 DEF VoteCollectorInvariant, SignersAreVoters, Block, SignersOf, LoadProcessor
    <3>6. ASSUME NEW u \in VoteTasks PROVE TaskOK(u)'
      <4>1. TaskOK(u) /\ verifiers' = verifiers /\ qcs' = qcs
        BY Zenon, <2>3 DEF VoteCollectorInvariant, LoadProcessor
      <4> QED
        BY Zenon, <3>1, <3>2, <4>1 DEF TaskOK, Block, IsQuorum, TotalWeight, WeightUnits
    <3>7. OneBuilder'
      BY Zenon, <3>2 DEF VoteCollectorInvariant, OneBuilder
    <3>8. NoneOrOneQC'
      BY Zenon, <2>3, <3>3 DEF VoteCollectorInvariant, NoneOrOneQC, LoadProcessor
    <3> QED
      BY Zenon, <1>2, <3>4, <3>5, <3>6, <3>7, <3>8 DEF VoteCollectorInvariant
  <2>4. CASE Process(t)
    <3>1. processor[t] \in Proposals
      BY Zenon, <2>1, <2>4 DEF TaskOK, Process
    <3>2. \A p \in Proposals : /\ verifiers'[p].signers = verifiers[p].signers
                               /\ verifiers'[p].done = verifiers[p].done
      BY ZenonT(60), <1>1, <2>4 DEF Process, VoteCollectorTypeOK, VerifierType
    <3>3. \/ pc'[t] \in {"end", "compare"}
          \/ /\ pc'[t] = "add"
             /\ t[1].BlockID = Block(processor[t]) /\ t[1].Sig # "invalid"
      BY Zenon, <1>1, <2>1, <2>4 DEF Process, Goto, VoteCollectorTypeOK
    <3>4. \A u \in VoteTasks \ {t} : pc'[u] = pc[u]
      BY Zenon, <2>2, <2>4 DEF Process
    <3> QED
      BY Zenon, <1>2, <2>4, <3>1, <3>2, <3>3, <3>4, OtherStepsKeepInvariant DEF Process
  <2>5. CASE AddSignature(t)
    <3> DEFINE p == processor[t]
               verifier == [verifiers[p] EXCEPT !.signers = @ \cup {t[1].SignerID}]
    <3>1. /\ p \in Proposals /\ t[1].BlockID = Block(p) /\ t[1].Sig # "invalid"
          /\ UNCHANGED <<votesCache, votesProcessor, processor, qcs, equivocators>>
      BY Zenon, <2>1, <2>5 DEF TaskOK, AddSignature
    <3>2. t[1].SignerID \in SignersOf(Block(p))
      BY Zenon, <2>1, <3>1 DEF SignersOf
    <3>3. /\ verifier \in VerifierType
          /\ verifier.signers = verifiers[p].signers \cup {t[1].SignerID}
          /\ verifier.done = verifiers[p].done
      BY ZenonT(60), <1>1, <2>1, <3>1 DEF VoteCollectorTypeOK, VerifierType
    <3>4. verifier.signers \subseteq SignersOf(Block(p))
      BY Zenon, <3>1, <3>2, <3>3 DEF VoteCollectorInvariant, SignersAreVoters
    <3>5. CASE Goto(t, "end") /\ UNCHANGED verifiers
      BY Zenon, <1>2, <2>2, <3>1, <3>5, OtherStepsKeepInvariant
    <3>6. CASE StartBuilding(t, verifier)
      BY Zenon, <1>2, <3>1, <3>3, <3>4, <3>6, StartBuildingKeepsInvariant
    <3>7. CASE /\ verifiers' = [verifiers EXCEPT ![p] = verifier]
               /\ Goto(t, IF t[1].Sig = "staking+beacon" THEN "share" ELSE "count")
      <4>1. \A q \in Proposals : verifiers'[q] = IF q = p THEN verifier ELSE verifiers[q]
        BY Zenon, <1>1, <3>7 DEF VoteCollectorTypeOK
      <4>2. \A u \in VoteTasks :
               pc'[u] = IF u = t THEN IF t[1].Sig = "staking+beacon" THEN "share" ELSE "count"
                                 ELSE pc[u]
        BY <2>2, <3>7
      <4> HIDE DEF p, verifier
      <4>3. OneProcessor' /\ Installed' = Installed
        BY Zenon, <3>1 DEF VoteCollectorInvariant, OneProcessor, Installed
      <4>4. SignersAreVoters'
        BY Zenon, <3>4, <4>1 DEF VoteCollectorInvariant, SignersAreVoters, Block, SignersOf
      <4>5. ASSUME NEW u \in VoteTasks PROVE TaskOK(u)'
        <5>1. TaskOK(u)
          BY Zenon DEF VoteCollectorInvariant
        <5>2. CASE u = t
          BY Zenon, <3>1, <4>2, <5>2 DEF TaskOK, p
        <5>3. CASE u # t
          <6>1. pc[u] = "build" => IsQuorum(verifiers'[processor[u]].signers)
            <7> SUFFICES ASSUME pc[u] = "build" PROVE IsQuorum(verifiers'[processor[u]].signers)
              BY Zenon
            <7>1. CASE processor[u] = p
              <8>1. /\ IsQuorum(verifiers[p].signers)
                    /\ verifiers[p].signers \in SUBSET Replicas
                BY Zenon, <1>1, <3>1, <5>1, <7>1 DEF TaskOK, VoteCollectorTypeOK, VerifierType
              <8>2. verifier.signers \in SUBSET Replicas
                BY Zenon, <3>3 DEF VerifierType
              <8> QED
                BY <3>1, <3>3, <4>1, <7>1, <8>1, <8>2, QuorumMonotone
            <7>2. CASE processor[u] # p
              BY Zenon, <4>1, <5>1, <7>2 DEF TaskOK
            <7> QED
              BY Zenon, <7>1, <7>2
          <6> QED
            BY Zenon, <3>1, <3>3, <4>1, <4>2, <5>1, <5>3, <6>1
               DEF TaskOK, Block, IsQuorum, TotalWeight, WeightUnits
        <5> QED
          BY Zenon, <5>2, <5>3
      <4>6. OneBuilder'
        BY Zenon, <4>2 DEF VoteCollectorInvariant, OneBuilder
      <4>7. NoneOrOneQC'
        BY Zenon, <3>1, <3>3, <4>1, <4>3 DEF VoteCollectorInvariant, NoneOrOneQC, Installed
      <4> QED
        BY Zenon, <1>2, <4>3, <4>4, <4>5, <4>6, <4>7 DEF VoteCollectorInvariant
    <3> QED
      BY Zenon, <2>5, <3>5, <3>6, <3>7 DEF AddSignature
  <2>6. CASE AddShare(t)
    <3>1. processor[t] \in Proposals
      BY Zenon, <2>1, <2>6 DEF TaskOK, AddShare
    <3>2. \A p \in Proposals : /\ verifiers'[p].signers = verifiers[p].signers
                               /\ verifiers'[p].done = verifiers[p].done
      BY Zenon, <1>1, <2>6 DEF AddShare, VoteCollectorTypeOK, VerifierType
    <3> QED
      BY Zenon, <1>2, <2>2, <2>6, <3>1, <3>2, OtherStepsKeepInvariant DEF AddShare
  <2>7. CASE Count(t)
    <3> DEFINE p == processor[t]
    <3>1. p \in Proposals
      BY Zenon, <2>1, <2>7 DEF TaskOK, Count
    <3>2. /\ verifiers[p] \in VerifierType
          /\ verifiers[p].signers \subseteq SignersOf(Block(p))
      BY Zenon, <1>1, <3>1 DEF VoteCollectorInvariant, VoteCollectorTypeOK, SignersAreVoters
    <3> QED
      BY Zenon, <1>2, <2>7, <3>1, <3>2, StartBuildingKeepsInvariant DEF Count
  <2>8. CASE BuildQC(t)
    <3> DEFINE p  == processor[t]
               qc == [BlockID |-> Block(p), SignerIDs |-> verifiers[p].signers]
    <3>1. /\ p \in Proposals /\ qcs = <<>> /\ pc[t] = "build"
          /\ verifiers[p].done /\ IsQuorum(verifiers[p].signers)
      BY Zenon, <2>1, <2>8 DEF TaskOK, BuildQC
    <3>2. p \in Installed
      BY Zenon, <3>1 DEF Installed
    <3>3. qc \in ValidQCs
      BY Zenon, <1>1, <3>1 DEF VoteCollectorInvariant, SignersAreVoters, ValidQCs, VoteCollectorTypeOK, VerifierType
    <3>4. qcs' = <<qc>> /\ UNCHANGED <<votesProcessor, verifiers, processor>>
      BY <2>8, <3>1 DEF BuildQC
    <3>5. \A u \in VoteTasks : pc'[u] = IF u = t THEN "compare" ELSE pc[u]
      BY Zenon, <2>2, <2>8 DEF BuildQC
    <3> HIDE DEF p, qc
    <3>6. OneProcessor' /\ Installed' = Installed
      BY Zenon, <3>4 DEF VoteCollectorInvariant, OneProcessor, Installed
    <3>7. SignersAreVoters'
      BY Zenon, <3>4 DEF VoteCollectorInvariant, SignersAreVoters, Block, SignersOf
    <3>8. \A u \in VoteTasks : pc'[u] # "build"
      BY Zenon, <3>1, <3>5 DEF VoteCollectorInvariant, OneBuilder
    <3>9. ASSUME NEW u \in VoteTasks PROVE TaskOK(u)'
      <4>1. TaskOK(u)
        BY DEF VoteCollectorInvariant
      <4> QED
        BY Zenon, <3>4, <3>5, <3>8, <4>1 DEF TaskOK, Block
    <3>10. OneBuilder'
      BY Zenon, <3>8 DEF OneBuilder
    <3>11. NoneOrOneQC'
      <4>1. \A q \in Installed : q = p
        BY Zenon, <3>2 DEF VoteCollectorInvariant, OneProcessor
      <4>2. votesProcessor # "caching"
        BY Zenon, <3>2 DEF VoteCollectorInvariant, OneProcessor
      <4> QED
        BY Zenon, <3>1, <3>3, <3>4, <3>6, <4>1, <4>2 DEF NoneOrOneQC
    <3> QED
      BY <1>2, <3>6, <3>7, <3>9, <3>10, <3>11 DEF VoteCollectorInvariant
  <2>9. CASE Compare(t)
    BY Zenon, <1>2, <2>2, <2>9, OtherStepsKeepInvariant DEF Compare
  <2> QED
    BY Zenon, <1>5, <2>3, <2>4, <2>5, <2>6, <2>7, <2>8, <2>9 DEF processVote
<1>6. ASSUME NEW p \in Proposals, continueProcessBlock(p) PROVE VoteCollectorInvariant'
  <2>1. ASSUME NEW label, Goto(p, label)
        PROVE  \A u \in VoteTasks : pc'[u] = pc[u]
    BY Zenon, <1>1, <2>1, TasksAssumption DEF Goto, VoteCollectorTypeOK, Tasks
  <2>2. votesProcessor = "caching" =>
          /\ Installed = {} /\ qcs = <<>>
          /\ \A u \in VoteTasks :
                pc[u] \notin {"process", "add", "share", "count", "build"}
    BY Zenon DEF VoteCollectorInvariant, OneProcessor, NoneOrOneQC, TaskOK, Installed
  <2>3. CASE LoadStatus(p)
    <3>1. /\ \A u \in VoteTasks : pc'[u] = pc[u]
          /\ UNCHANGED <<votesProcessor, processor, qcs>>
      BY Zenon, <2>1, <2>3 DEF LoadStatus
    <3>2. CASE votesProcessor # "caching"
      BY Zenon, <1>2, <2>3, <3>1, <3>2, OtherStepsKeepInvariant DEF LoadStatus
    <3>3. CASE votesProcessor = "caching"
      <4>1. verifiers' = [verifiers EXCEPT ![p] = CreateVerifier(ProposerVote[p])]
        BY Zenon, <2>3, <3>3 DEF LoadStatus
      <4>2. OneProcessor' /\ Installed' = Installed
        BY Zenon, <3>1 DEF VoteCollectorInvariant, OneProcessor, Installed
      <4>3. SignersAreVoters'
        <5>1. CreateVerifier(ProposerVote[p]).signers \subseteq SignersOf(Block(p))
          BY Zenon, VotesAssumption DEF CreateVerifier, SignersOf, Block
        <5>2. \A q \in Proposals : verifiers'[q] = IF q = p THEN CreateVerifier(ProposerVote[p])
                                                            ELSE verifiers[q]
          BY Zenon, <1>1, <4>1 DEF VoteCollectorTypeOK
        <5> QED
          BY Zenon, <5>1, <5>2 DEF VoteCollectorInvariant, SignersAreVoters, Block, SignersOf
      <4> QED
        BY Zenon, <1>2, <2>2, <3>1, <3>3, <4>2, <4>3
           DEF VoteCollectorInvariant, TaskOK, OneBuilder, NoneOrOneQC
    <3> QED
      BY Zenon, <3>2, <3>3
  <2>4. CASE caching2Verifying(p)
    <3>1. /\ \A u \in VoteTasks : pc'[u] = pc[u]
          /\ UNCHANGED <<verifiers, processor, qcs>>
      BY Zenon, <2>1, <2>4 DEF caching2Verifying
    <3>2. CASE votesProcessor # "caching"
      BY Zenon, <1>2, <2>4, <3>1, <3>2, OtherStepsKeepInvariant DEF caching2Verifying
    <3>3. CASE votesProcessor = "caching"
      <4>1. votesProcessor' = p
        BY Zenon, <2>4, <3>3 DEF caching2Verifying
      <4>2. Installed' = {p}
        BY Zenon, <2>2, <3>1, <3>3, <4>1 DEF Installed
      <4>3. OneProcessor'
        BY Zenon, <4>1, <4>2, VotesAssumption DEF OneProcessor
      <4>4. SignersAreVoters'
        BY Zenon, <3>1 DEF VoteCollectorInvariant, SignersAreVoters, Block, SignersOf
      <4> QED
        BY Zenon, <1>2, <2>2, <3>1, <3>3, <4>3, <4>4
           DEF VoteCollectorInvariant, TaskOK, OneBuilder, NoneOrOneQC
    <3> QED
      BY <3>2, <3>3
  <2>5. CASE processCachedVotes(p)
    <3>1. \A u \in VoteTasks : pc'[u] = pc[u] \/ pc'[u] \in {"load", "end"}
      BY Zenon, <2>5 DEF processCachedVotes, Tasks
    <3> QED
      BY Zenon, <1>2, <2>5, <3>1, OtherStepsKeepInvariant DEF processCachedVotes
  <2>6. CASE terminateVoteProcessing(p)
    <3>1. /\ \A u \in VoteTasks : pc'[u] = pc[u]
          /\ UNCHANGED <<verifiers, processor, qcs>>
          /\ votesProcessor' = "invalid"
      BY Zenon, <2>1, <2>6 DEF terminateVoteProcessing
    <3>2. Installed' \subseteq Installed
      BY Zenon, <3>1, VotesAssumption DEF Installed
    <3>3. OneProcessor'
      BY Zenon, <3>1, <3>2 DEF VoteCollectorInvariant, OneProcessor
    <3>4. SignersAreVoters'
      BY Zenon, <3>1 DEF VoteCollectorInvariant, SignersAreVoters, Block, SignersOf
    <3>5. ASSUME NEW u \in VoteTasks PROVE TaskOK(u)'
      <4>1. TaskOK(u)
        BY Zenon DEF VoteCollectorInvariant
      <4> QED
        BY Zenon, <3>1, <4>1 DEF TaskOK, Block, IsQuorum, TotalWeight, WeightUnits
    <3>6. OneBuilder'
      BY Zenon, <3>1 DEF VoteCollectorInvariant, OneBuilder
    <3>7. NoneOrOneQC'
      BY Zenon, <3>1, <3>2 DEF VoteCollectorInvariant, NoneOrOneQC
    <3> QED
      BY Zenon, <1>2, <3>3, <3>4, <3>5, <3>6, <3>7 DEF VoteCollectorInvariant
  <2> QED
    BY Zenon, <1>6, <2>3, <2>4, <2>5, <2>6 DEF continueProcessBlock
<1> QED
  BY <1>3, <1>4, <1>5, <1>6 DEF VoteCollectorNext

(***************************************************************************)
(* The inductive invariant holds in all reachable states.                  *)
(***************************************************************************)
THEOREM VoteCollectorInvariantHolds == VoteCollectorSpec => []VoteCollectorInvariant
<1>1. VoteCollectorInit => VoteCollectorInvariant
  <2> SUFFICES ASSUME VoteCollectorInit PROVE VoteCollectorInvariant
    BY Zenon
  <2>1. VoteCollectorTypeOK
    BY Zenon, VoteCollectorTypeInit
  <2>2. Installed = {}
    BY Zenon, VotesAssumption DEF VoteCollectorInit, Installed
  <2>3. \A t \in VoteTasks : pc[t] \in {"idle", "absent"}
    BY Zenon DEF VoteCollectorInit, Tasks
  <2> QED
    BY Zenon, <2>1, <2>2, <2>3
       DEF VoteCollectorInvariant, VoteCollectorInit, OneProcessor, SignersAreVoters, NewVerifier,
           TaskOK, OneBuilder, NoneOrOneQC
<1>2. VoteCollectorInvariant /\ [VoteCollectorNext]_vcVars => VoteCollectorInvariant'
  BY Zenon, VoteCollectorInvariantStep
<1> QED
  BY <1>1, <1>2, PTL DEF VoteCollectorSpec

(***************************************************************************)
(* Every QC that a collector creates is made of valid votes for its block, *)
(* from a quorum of different signers (QCsAreValid), whatever votes and    *)
(* proposals arrive and however the goroutines interleave.                 *)
(***************************************************************************)
THEOREM CollectorCreatesValidQCs == VoteCollectorSpec => []QCsAreValid
<1>1. VoteCollectorInvariant => QCsAreValid
  <2> SUFFICES ASSUME VoteCollectorInvariant, NEW i \in DOMAIN qcs
               PROVE  IsQuorum(qcs[i].SignerIDs) /\ qcs[i].SignerIDs \subseteq SignersOf(qcs[i].BlockID)
    BY Zenon DEF QCsAreValid
  <2>1. qcs # <<>>
    OBVIOUS
  <2>2. PICK qc \in ValidQCs : qcs = <<qc>>
    BY Zenon, <2>1 DEF VoteCollectorInvariant, NoneOrOneQC
  <2> QED
    BY <2>2 DEF ValidQCs
<1> QED
  BY <1>1, VoteCollectorInvariantHolds, PTL

(***************************************************************************)
(* A collector creates at most one QC (AtMostOneQC): at most one processor *)
(* is ever installed, and one goroutine wins its compare-and-swap.         *)
(***************************************************************************)
THEOREM CollectorCreatesOneQC == VoteCollectorSpec => []AtMostOneQC
<1>1. VoteCollectorInvariant => AtMostOneQC
  <2> SUFFICES ASSUME VoteCollectorInvariant PROVE Len(qcs) <= 1
    BY Zenon DEF AtMostOneQC
  <2>1. CASE qcs = <<>>
    BY <2>1
  <2>2. CASE qcs # <<>>
    <3>1. PICK qc \in ValidQCs : qcs = <<qc>>
      BY Zenon, <2>2 DEF VoteCollectorInvariant, NoneOrOneQC
    <3> QED
      BY <3>1
  <2> QED
    BY Zenon, <2>1, <2>2
<1> QED
  BY <1>1, VoteCollectorInvariantHolds, PTL

(***************************************************************************)
(* Two different votes of a signer do not go unnoticed                     *)
(* (EquivocationIsReported), for any number of votes and proposals.        *)
(***************************************************************************)
THEOREM CollectorReportsEquivocation == VoteCollectorSpec => []EquivocationIsReported
<1> DEFINE Inv == VoteCollectorTypeOK /\ FirstOrReported
<1>1. VoteCollectorInit => Inv
  <2> SUFFICES ASSUME VoteCollectorInit PROVE FirstOrReported
    BY Zenon, VoteCollectorTypeInit
  <2>1. \A t \in Tasks : pc[t] \in {"idle", "absent"}
    BY Zenon DEF VoteCollectorInit
  <2>2. Ingested = {}
    BY Zenon, <2>1 DEF Ingested, Tasks
  <2> QED
    BY Zenon, <2>2 DEF FirstOrReported
<1>2. Inv /\ [VoteCollectorNext]_vcVars => Inv'
  <2> SUFFICES ASSUME VoteCollectorTypeOK, FirstOrReported, [VoteCollectorNext]_vcVars
               PROVE  FirstOrReported'
    BY Zenon, VoteCollectorTypeStep
  <2>1. ASSUME NEW v \in Votes, Cache(v),
               Ingested' \subseteq Ingested \cup {v}, \A w \in Ingested : w \in Votes
        PROVE  FirstOrReported'
    <3>1. ASSUME NEW w \in Ingested'
          PROVE  /\ votesCache'[w.SignerID] # NoVote
                 /\ votesCache'[w.SignerID] = w \/ w.SignerID \in equivocators'
      <4>1. w \in Votes /\ v.SignerID \in Replicas /\ w.SignerID \in Replicas /\ v # NoVote
        BY Zenon, <2>1, <3>1, VotesAssumption
      <4>2. \A r \in Replicas : votesCache'[r] = IF r = v.SignerID /\ votesCache[r] = NoVote
                                                   THEN v ELSE votesCache[r]
        BY Zenon, <2>1, <4>1 DEF Cache, VoteCollectorTypeOK
      <4>3. CASE w = v
        BY <2>1, <4>1, <4>2, <4>3 DEF Cache
      <4>4. CASE w # v
        <5>1. /\ votesCache[w.SignerID] # NoVote
              /\ votesCache[w.SignerID] = w \/ w.SignerID \in equivocators
          BY Zenon, <2>1, <3>1, <4>4 DEF FirstOrReported
        <5> QED
          BY Zenon, <2>1, <4>1, <4>2, <5>1 DEF Cache
      <4> QED
        BY Zenon, <4>3, <4>4
    <3> QED
      BY Zenon, <3>1 DEF FirstOrReported
  <2>2. \A w \in Ingested : w \in Votes
    BY Zenon, VoteTaskIsTask, VotesAssumption DEF Ingested
  <2>3. ASSUME Ingested' \subseteq Ingested, UNCHANGED <<votesCache, equivocators>>
        PROVE  FirstOrReported'
    BY Zenon, <2>3 DEF FirstOrReported
  <2>4. CASE UNCHANGED vcVars
    BY Zenon, <2>3, <2>4 DEF vcVars, Ingested
  <2>5. ASSUME NEW t \in VoteTasks, AddVote(t) PROVE FirstOrReported'
    <3>1. \A u \in Tasks \ {t} : pc'[u] = pc[u]
      BY Zenon, <2>5 DEF AddVote, Goto, VoteCollectorTypeOK
    <3>2. Ingested' \subseteq Ingested \cup {t[1]}
      BY ZenonT(60), <3>1, TasksAssumption DEF Ingested, Tasks
    <3> QED
      BY Zenon, <2>1, <2>2, <2>5, <3>2, VoteTaskIsTask DEF AddVote
  <2>6. ASSUME NEW p \in Proposals, ProcessBlock(p) PROVE FirstOrReported'
    <3>1. \A u \in Tasks \ {p} : pc'[u] = pc[u]
      BY Zenon, <2>6 DEF ProcessBlock, Goto, VoteCollectorTypeOK
    <3>2. Ingested' \subseteq Ingested \cup {ProposerVote[p]}
      BY Zenon, <3>1, TasksAssumption DEF Ingested, Tasks
    <3> QED
      BY Zenon, <2>1, <2>2, <2>6, <3>2, VotesAssumption DEF ProcessBlock
  <2>7. ASSUME UNCHANGED <<votesCache, equivocators>>,
               \A u \in Tasks : \/ pc'[u] = pc[u]
                                \/ pc[u] \notin {"absent", "idle"}
                                \/ u \in Votes \X {0}
        PROVE  FirstOrReported'
    <3>1. Ingested' \subseteq Ingested
      BY <2>7, TasksAssumption DEF Ingested, Tasks, VoteTasks
    <3> QED
      BY Zenon, <2>3, <2>7, <3>1
  <2>8. ASSUME NEW t \in VoteTasks, processVote(t) PROVE FirstOrReported'
    <3>1. pc[t] \notin {"absent", "idle"} /\ UNCHANGED <<votesCache, equivocators>>
      BY Zenon, <2>8 DEF processVote, LoadProcessor, Process, AddSignature, AddShare, Count, BuildQC, Compare
    <3>2. \A u \in Tasks \ {t} : pc'[u] = pc[u]
      BY Zenon, <2>8 DEF processVote, LoadProcessor, Process, AddSignature, AddShare, Count, BuildQC,
                  Compare, StartBuilding, Goto, VoteCollectorTypeOK
    <3> QED
      BY Zenon, <2>7, <3>1, <3>2
  <2>9. ASSUME NEW p \in Proposals, continueProcessBlock(p) PROVE FirstOrReported'
    <3>1. pc[p] \notin {"absent", "idle"} /\ UNCHANGED <<votesCache, equivocators>>
      BY Zenon, <2>9 DEF continueProcessBlock, LoadStatus, caching2Verifying, processCachedVotes,
                  terminateVoteProcessing
    <3>2. \A u \in Tasks \ {p} : pc'[u] = pc[u] \/ u \in Votes \X {0}
      <4>1. CASE processCachedVotes(p)
        <5>1. \A r \in Replicas : votesCache[r] # NoVote => votesCache[r] \in Votes
          BY Zenon DEF VoteCollectorTypeOK
        <5> QED
          BY <4>1, <5>1 DEF processCachedVotes
      <4>2. CASE LoadStatus(p) \/ caching2Verifying(p) \/ terminateVoteProcessing(p)
        BY Zenon, <4>2 DEF LoadStatus, caching2Verifying, terminateVoteProcessing, Goto, VoteCollectorTypeOK
      <4> QED
        BY Zenon, <2>9, <4>1, <4>2 DEF continueProcessBlock
    <3> QED
      BY Zenon, <2>7, <3>1, <3>2
  <2> QED
    BY Zenon, <2>4, <2>5, <2>6, <2>8, <2>9 DEF VoteCollectorNext, Arrive
<1>3. Inv => EquivocationIsReported
  BY Zenon DEF FirstOrReported, EquivocationIsReported
<1> QED
  BY <1>1, <1>2, <1>3, PTL DEF VoteCollectorSpec
=============================================================================
