---------------------------- MODULE SafetyRules ----------------------------
(***************************************************************************)
(* The signing rules of consensus/hotstuff/safetyrules/safety_rules.go,    *)
(* run by every honest replica of a committee, together with the rules of  *)
(* consensus/hotstuff/validator/validator.go that decide which proposals,  *)
(* QCs and TCs may reach a replica at all.                                 *)
(*                                                                         *)
(* The environment is the worst one possible: a replica may be asked to    *)
(* vote, to sign its own proposal or to time out in any view and with any  *)
(* valid certificates, and a certificate exists as soon as the signatures  *)
(* of honest replicas that it needs exist (Byzantine replicas sign         *)
(* everything).  The signatures produced are never lost from this model's  *)
(* state; whether they are delivered is up to the recipient's actions.     *)
(***************************************************************************)
EXTENDS BlockTree

CONSTANTS NonMembers,   \* <<replica, view>>: not in the committee of the view's
                        \* epoch (IdentityByEpoch: InvalidSignerError)
          Ejected       \* <<replica, block>>: without a valid identity as of that
                        \* block, by epoch or ejection (IdentityByBlock likewise)

VARIABLES safetyData,   \* hotstuff.SafetyData of each honest replica
          votes,        \* <<replica, block>>: signed votes and own proposals
          timeouts      \* signed timeout objects

srVars == <<safetyData, votes, timeouts>>

\* The TC a timeout object may carry is not recorded: it is valid when it is
\* signed, and every valid TC is available to every replica anyway.
TimeoutObjects == [View : Views, NewestQC : Blocks, SignerID : Honest]

SafetyDataType ==
    [HighestAcknowledgedView : Views, LockedOneChainView : Views,
     LastTimeout : TimeoutObjects \cup {Nil}]

(***************************************************************************)
(* Certificates that can exist, given what honest replicas have signed.    *)
(***************************************************************************)
Voters(b) == {r \in Honest : <<r, b>> \in votes}

\* ValidateQC: signers are committee members with a quorum of the weight.
ValidateQC(b) == b = Root \/ IsQuorum(Voters(b) \cup Byzantine)

\* Honest replicas whose timeout object can be part of the given TC.
TimedOut(tc) ==
    {r \in Honest : \E to \in timeouts :
        /\ to.SignerID = r
        /\ to.View = tc.View
        /\ BlockView[to.NewestQC] <= BlockView[tc.NewestQC]}

\* ValidateTC
ValidateTC(tc) ==
    /\ BlockView[tc.NewestQC] <= tc.View
    /\ IsQuorum(TimedOut(tc) \cup Byzantine)
    /\ ValidateQC(tc.NewestQC)

\* A proposal carries its proposer's vote.
SignedByLeader(b) ==
    LET leader == LeaderForView[BlockView[b]]
    IN  leader \in Byzantine \/ <<leader, b>> \in votes

\* ValidateProposal, without the proposer's signature
ValidCertificates(b) ==
    /\ \/ /\ BlockView[b] = BlockView[BlockQC[b]] + 1
          /\ BlockTC[b] = Nil
       \/ /\ BlockView[b] # BlockView[BlockQC[b]] + 1
          /\ BlockTC[b] # Nil
          /\ BlockView[b] = BlockTC[b].View + 1
          /\ BlockView[BlockQC[b]] >= BlockView[BlockTC[b].NewestQC]
          /\ ValidateTC(BlockTC[b])
    /\ ValidateQC(BlockQC[b])

ValidateProposal(b) ==
    /\ b # Root
    /\ SignedByLeader(b)
    /\ ValidCertificates(b)
-----------------------------------------------------------------------------
(***************************************************************************)
(* The safety rules themselves.                                            *)
(***************************************************************************)
validateEvidenceForEnteringView(view, newestQC, lastViewTC) ==
    \/ /\ BlockView[newestQC] + 1 = view
       /\ lastViewTC = Nil
    \/ /\ BlockView[newestQC] + 1 # view
       /\ lastViewTC # Nil
       /\ lastViewTC.View + 1 = view
       /\ BlockView[newestQC] < view
       /\ BlockView[newestQC] >= BlockView[lastViewTC.NewestQC]

\* Mutant: a second vote in an acknowledged view is let through.
isSafeToVoteAgain(sd, b) ==
    /\ validateEvidenceForEnteringView(BlockView[b], BlockQC[b], BlockTC[b])
    /\ BlockView[b] >= sd.HighestAcknowledgedView

\* isSafeToVote returns nil
isSafeToVote(sd, b) ==
    /\ validateEvidenceForEnteringView(BlockView[b], BlockQC[b], BlockTC[b])
    /\ BlockView[b] > sd.HighestAcknowledgedView

\* produceVote: the leader's own authority follows from leader selection,
\* everybody else needs a valid proposer and a valid own identity.
AuthorizedToVote(r, b) ==
    LET leader == LeaderForView[BlockView[b]]
    IN  leader # r => <<leader, b>> \notin Ejected /\ <<r, b>> \notin Ejected

\* produceVote returns a NoVoteError: expected, nothing is signed
NoVote(sd, r, b) ==
    /\ validateEvidenceForEnteringView(BlockView[b], BlockQC[b], BlockTC[b])
    /\ BlockView[b] >= sd.HighestAcknowledgedView
    /\ BlockView[b] > sd.HighestAcknowledgedView => ~AuthorizedToVote(r, b)

\* Mutant: the lock is not updated.
AfterVoteUnlocked(sd, b) == [sd EXCEPT !.HighestAcknowledgedView = BlockView[b]]

AfterVote(sd, b) ==
    [sd EXCEPT !.HighestAcknowledgedView = BlockView[b],
               !.LockedOneChainView = IF BlockView[BlockQC[b]] > @
                                         THEN BlockView[BlockQC[b]] ELSE @]

\* Mutant: the lock is ignored.
IsSafeToTimeoutUnlocked(sd, curView, newestQC, lastViewTC) ==
    /\ validateEvidenceForEnteringView(curView, newestQC, lastViewTC)
    /\ curView + 1 > sd.HighestAcknowledgedView

\* IsSafeToTimeout returns nil
IsSafeToTimeout(sd, curView, newestQC, lastViewTC) ==
    /\ validateEvidenceForEnteringView(curView, newestQC, lastViewTC)
    /\ BlockView[newestQC] >= sd.LockedOneChainView
    /\ curView + 1 > sd.HighestAcknowledgedView

RepeatsTimeout(sd, curView) ==
    sd.LastTimeout # Nil /\ sd.LastTimeout.View = curView

AfterTimeout(sd, to) ==
    [sd EXCEPT !.HighestAcknowledgedView = to.View, !.LastTimeout = to]
-----------------------------------------------------------------------------
SafetyRulesInit ==
    /\ safetyData = [r \in Honest |->
                       [HighestAcknowledgedView |-> BlockView[Root],
                        LockedOneChainView |-> BlockView[Root],
                        LastTimeout |-> Nil]]
    /\ votes = {}
    /\ timeouts = {}

\* produceVote up to and including PutSafetyData
SignVote(r, b) ==
    /\ isSafeToVote(safetyData[r], b)
    /\ AuthorizedToVote(r, b)
    /\ safetyData' = [safetyData EXCEPT ![r] = AfterVote(@, b)]
    /\ votes' = votes \cup {<<r, b>>}
    /\ UNCHANGED timeouts

\* ProduceVote on a validated proposal, in the proposal's view
ProduceVote(r, b) ==
    /\ SignVote(r, b)
    /\ ValidateProposal(b)

\* SignOwnProposal, on a block built from certificates the leader validated
SignOwnProposal(r, b) ==
    /\ b # Root
    /\ LeaderForView[BlockView[b]] = r
    /\ SignVote(r, b)
    /\ ValidCertificates(b)

\* ProduceTimeout in a view that has already timed out: the same timeout
\* object is emitted again (with another tick)
RepeatTimeout(r, curView) ==
    /\ RepeatsTimeout(safetyData[r], curView)
    /\ timeouts' = timeouts \cup {safetyData[r].LastTimeout}
    /\ UNCHANGED <<safetyData, votes>>

\* ProduceTimeout otherwise
ProduceTimeout(r, curView, newestQC, lastViewTC) ==
    LET to == [View |-> curView, NewestQC |-> newestQC, SignerID |-> r]
    IN  /\ ~RepeatsTimeout(safetyData[r], curView)
        /\ IsSafeToTimeout(safetyData[r], curView, newestQC, lastViewTC)
        /\ <<r, curView>> \notin NonMembers
        /\ safetyData' = [safetyData EXCEPT ![r] = AfterTimeout(@, to)]
        /\ timeouts' = timeouts \cup {to}
        /\ UNCHANGED votes

ValidQCs == {b \in Blocks : ValidateQC(b)}

ValidTCs == {tc \in TimeoutCertificates : ValidateTC(tc)}

\* One of the given replicas signs something.
SafetyRulesStep(signers) ==
    LET qcs == ValidQCs
        tcs == ValidTCs \cup {Nil}
    IN  \E r \in signers :
            \/ \E b \in Blocks : ProduceVote(r, b)
            \/ \E b \in Blocks : SignOwnProposal(r, b)
            \/ \E v \in TimeoutViews : RepeatTimeout(r, v)
            \/ \E v \in TimeoutViews, qc \in qcs, tc \in tcs : ProduceTimeout(r, v, qc, tc)

SafetyRulesNext == SafetyRulesStep(Honest)

SafetyRulesSpec == SafetyRulesInit /\ [][SafetyRulesNext]_srVars
-----------------------------------------------------------------------------
(***************************************************************************)
(* The persisted SafetyData and everything signed are well formed.         *)
(***************************************************************************)
SafetyRulesTypeOK ==
    /\ safetyData \in [Honest -> SafetyDataType]
    /\ votes \subseteq Honest \X Blocks
    /\ timeouts \subseteq TimeoutObjects

\* The blocks for which a QC can exist, and those finalized by a certified
\* child in the next view.
CertifiedBlocks == ValidQCs

FinalizedBlocks ==
    {Root} \cup {BlockQC[c] : c \in {d \in CertifiedBlocks \ {Root} :
                     /\ BlockView[d] = BlockView[BlockQC[d]] + 1
                     /\ BlockQC[d] \in CertifiedBlocks}}

(***************************************************************************)
(* The theorem documented at SafetyRules (safety_rules.go): "For each      *)
(* view, there can be at most 1 certified block."                          *)
(***************************************************************************)
AtMostOneCertifiedBlockPerView ==
    \A b, c \in CertifiedBlocks : BlockView[b] = BlockView[c] => b = c

(***************************************************************************)
(* Once a block is finalized, every block certified in its view or later   *)
(* descends from it: what LockedOneChainView is kept for ("the replica     *)
(* will not sign a TimeoutObject that would allow a malicious leader to    *)
(* fork below the latest finalized block").                                *)
(***************************************************************************)
CertifiedExtendsFinalized ==
    \A b \in FinalizedBlocks, c \in CertifiedBlocks :
        BlockView[b] <= BlockView[c] => b \in Ancestors[c]

(***************************************************************************)
(* A replica that has voted for a block never supports, in that view or    *)
(* later, a TC whose newest QC is older than the QC it voted on, however   *)
(* often its timeout is repeated (ProduceTimeout, IsSafeToTimeout).        *)
(***************************************************************************)
TimeoutsRespectLock ==
    \A r \in Honest, b \in Blocks, to \in timeouts :
        /\ <<r, b>> \in votes
        /\ to.SignerID = r
        /\ BlockView[b] <= to.View
        => BlockView[BlockQC[b]] <= BlockView[to.NewestQC]

(***************************************************************************)
(* The inductive invariant behind the three properties above.  What a      *)
(* replica has signed is bounded by its persisted SafetyData, a vote is    *)
(* only given for a block with valid certificates, at most one per view,   *)
(* and the timeout to be repeated has been signed before.                  *)
(***************************************************************************)
SafetyInvariant ==
    /\ SafetyRulesTypeOK
    /\ \A r \in Honest, b \in Blocks : <<r, b>> \in votes =>
          /\ b # Root
          /\ ValidCertificates(b)
          /\ BlockView[b] <= safetyData[r].HighestAcknowledgedView
          /\ BlockView[BlockQC[b]] <= safetyData[r].LockedOneChainView
    /\ \A r \in Honest, b, c \in Blocks :
          <<r, b>> \in votes /\ <<r, c>> \in votes /\ BlockView[b] = BlockView[c] => b = c
    /\ \A to \in timeouts : to.View <= safetyData[to.SignerID].HighestAcknowledgedView
    /\ \A r \in Honest : safetyData[r].LastTimeout # Nil => safetyData[r].LastTimeout \in timeouts
    /\ TimeoutsRespectLock
=============================================================================
