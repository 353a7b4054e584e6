---------------------------- MODULE Participant ----------------------------
(***************************************************************************)
(* Consensus participants: the event handler                               *)
(* (consensus/hotstuff/eventhandler/event_handler.go) driving SafetyRules, *)
(* PaceMaker and Forks, and the recovery of a participant after a crash    *)
(* (consensus/participant.go, consensus/recovery).                         *)
(*                                                                         *)
(* The replicas in Participants run the event handler.  Other honest       *)
(* replicas are only held to SafetyRules and may sign at any time.  The    *)
(* event loop is single threaded, so every handler is one step; it may be  *)
(* handed any valid proposal, QC or TC, in any order and any number of     *)
(* times, or never.  That certificates are valid is an assumption on what  *)
(* surrounds the event handler (see Next).                                 *)
(***************************************************************************)
EXTENDS SafetyRules, PaceMaker, Forks

CONSTANTS Participants,   \* honest replicas that run the event handler
          MaxRestarts     \* bound on the number of crashes

ASSUME ParticipantAssumption ==
    Participants \subseteq Honest /\ MaxRestarts \in Nat

VARIABLES livenessData,   \* LivenessData of each participant (persisted)
          forks,          \* Forks of each participant (in memory)
          running,        \* participants whose event loop has been started
          exceptions,     \* participants stopped by an unexpected error
          restarts        \* number of crashes so far

localVars == <<livenessData, forks, running, exceptions, restarts>>
vars == <<srVars, localVars>>

Init ==
    /\ SafetyRulesInit
    /\ livenessData = [r \in Participants |-> InitialLivenessData]
    /\ forks = [r \in Participants |-> NewForks(Root)]
    /\ running = {}
    /\ exceptions = {}
    /\ restarts = 0
-----------------------------------------------------------------------------
(***************************************************************************)
(* What handlers have in common.                                           *)
(***************************************************************************)
\* An unexpected error ends the event loop; nothing is signed.
Exception(r) ==
    /\ exceptions' = exceptions \cup {r}
    /\ UNCHANGED srVars

SignsNothing == UNCHANGED <<srVars, exceptions>>

\* Mutant: the TC is shown even if there is a QC for the previous view.
EvidenceTCAlways(ld) == ld.LastViewTC

\* The TC shown as evidence for the current view: none if there is a QC for
\* the previous view, even if the view was entered through a TC.
EvidenceTC(ld) ==
    IF BlockView[ld.NewestQC] + 1 = ld.CurrentView THEN Nil ELSE ld.LastViewTC

\* The blocks the leader of the current view can build on its newest QC.
OwnProposals(ld) ==
    {b \in Blocks \ {Root} :
        /\ BlockView[b] = ld.CurrentView
        /\ BlockQC[b] = ld.NewestQC
        /\ BlockTC[b] = EvidenceTC(ld)}

\* proposeForNewViewIfPrimary and MakeBlockProposal.  (With finitely many
\* blocks, there is none to propose in the last view considered.)
proposeForNewViewIfPrimary(r, ld, f) ==
    LET mayPropose == /\ LeaderForView[ld.CurrentView] = r
                      /\ ld.NewestQC \in f.blocks
        corrupted  == /\ BlockView[ld.NewestQC] + 1 # ld.CurrentView
                      /\ \/ ld.LastViewTC = Nil
                         \/ ld.LastViewTC # Nil /\ ld.LastViewTC.View + 1 # ld.CurrentView
        proposals  == OwnProposals(ld)
        sd         == safetyData[r]
    IN  \/ /\ ~mayPropose \/ (~corrupted /\ proposals = {})
           /\ SignsNothing
        \/ /\ mayPropose /\ corrupted
           /\ Exception(r)
        \/ /\ mayPropose /\ ~corrupted
           /\ \E b \in proposals :
                \/ SignVote(r, b) /\ UNCHANGED exceptions
                \/ NoVote(sd, r, b) /\ SignsNothing
                \/ /\ ~isSafeToVote(sd, b) /\ ~NoVote(sd, r, b)
                   /\ Exception(r)

\* processBlockForCurrentView and ownVote
ownVote(r, b, f) ==
    LET sd == safetyData[r]
    IN  \/ BlockQC[b] \in f.blocks /\ SignVote(r, b) /\ UNCHANGED exceptions
        \/ BlockQC[b] \in f.blocks /\ NoVote(sd, r, b) /\ SignsNothing
        \/ /\ BlockQC[b] \notin f.blocks \/ (~isSafeToVote(sd, b) /\ ~NoVote(sd, r, b))
           /\ Exception(r)

\* Mutant: a replica that has voted in the view does not time out.
broadcastTimeoutObjectUnlessVoted(r, ld) ==
    LET sd == safetyData[r]
    IN  \/ /\ \/ RepeatTimeout(r, ld.CurrentView)
              \/ /\ sd.HighestAcknowledgedView < ld.CurrentView
                 /\ ProduceTimeout(r, ld.CurrentView, ld.NewestQC, EvidenceTC(ld))
           /\ UNCHANGED exceptions
        \/ /\ ~RepeatsTimeout(sd, ld.CurrentView)
           /\ sd.HighestAcknowledgedView >= ld.CurrentView
           /\ SignsNothing

\* broadcastTimeoutObjectIfAuthorized
broadcastTimeoutObjectIfAuthorized(r, ld) ==
    LET sd   == safetyData[r]
        safe == IsSafeToTimeout(sd, ld.CurrentView, ld.NewestQC, EvidenceTC(ld))
    IN  \/ /\ \/ RepeatTimeout(r, ld.CurrentView)
              \/ ProduceTimeout(r, ld.CurrentView, ld.NewestQC, EvidenceTC(ld))
           /\ UNCHANGED exceptions
        \/ /\ ~RepeatsTimeout(sd, ld.CurrentView) /\ safe
           /\ <<r, ld.CurrentView>> \in NonMembers
           /\ SignsNothing
        \/ /\ ~RepeatsTimeout(sd, ld.CurrentView) /\ ~safe
           /\ Exception(r)

Ready(r) == r \in running \ exceptions
-----------------------------------------------------------------------------
(***************************************************************************)
(* The event handler.                                                      *)
(***************************************************************************)
\* Start
Start(r) ==
    /\ r \notin running \cup exceptions
    /\ running' = running \cup {r}
    /\ proposeForNewViewIfPrimary(r, livenessData[r], forks[r])
    /\ UNCHANGED <<livenessData, forks, restarts>>

\* Mutant: proposals are passed on without validation.
PassesUnvalidated(r, b) ==
    /\ b # Root
    /\ BlockQC[b] \in forks[r].blocks

\* The compliance layer passes on valid proposals, strictly after their parent.
PassesCompliance(r, b) ==
    /\ ValidateProposal(b)
    /\ \/ BlockQC[b] \in forks[r].blocks
       \/ BlockView[BlockQC[b]] < FinalizedView(forks[r])

\* OnReceiveProposal
OnReceiveProposal(r, b) ==
    LET f  == AddValidatedBlock(forks[r], b)
        ld == ProcessTC(ProcessQC(livenessData[r], BlockQC[b]), BlockTC[b])
    IN  /\ Ready(r)
        /\ PassesCompliance(r, b)
        /\ BlockView[b] >= FinalizedView(forks[r])    \* stale proposals are ignored
        /\ forks' = [forks EXCEPT ![r] = f]
        /\ \/ f.failed /\ Exception(r) /\ UNCHANGED livenessData
           \/ /\ ~f.failed
              /\ livenessData' = [livenessData EXCEPT ![r] = ld]
              /\ IF BlockView[b] = ld.CurrentView
                    THEN ownVote(r, b, f)
                    ELSE proposeForNewViewIfPrimary(r, ld, f)
        /\ UNCHANGED <<running, restarts>>

\* OnReceiveQc and OnReceiveTc, after the PaceMaker has processed the certificate
EnterView(r, ld) ==
    /\ Ready(r)
    /\ livenessData' = [livenessData EXCEPT ![r] = ld]
    /\ IF ld.CurrentView = livenessData[r].CurrentView
          THEN SignsNothing
          ELSE proposeForNewViewIfPrimary(r, ld, forks[r])
    /\ UNCHANGED <<forks, running, restarts>>

OnReceiveQc(r, qc) == EnterView(r, ProcessQC(livenessData[r], qc))

OnReceiveTc(r, tc) == EnterView(r, ProcessTC(livenessData[r], tc))

\* OnLocalTimeout
OnLocalTimeout(r) ==
    /\ Ready(r)
    /\ livenessData[r].CurrentView \in TimeoutViews
    /\ broadcastTimeoutObjectIfAuthorized(r, livenessData[r])
    /\ UNCHANGED <<livenessData, forks, running, restarts>>

\* The timeout aggregator has seen timeouts for the view from an honest
\* replica: the evidence of one of them, and the newest QC of all of them.
PartialTC(view, qc, tc) ==
    /\ BlockView[qc] < view
    /\ IF tc = Nil THEN BlockView[qc] + 1 = view
                   ELSE /\ tc.View + 1 = view
                        /\ BlockView[tc.NewestQC] <= BlockView[qc]
    /\ CanTimeout({to.SignerID : to \in {t \in timeouts : t.View = view}} \cup Byzantine)

\* OnPartialTcCreated: joins the timeout, but never proposes
OnPartialTcCreated(r, view, qc, tc) ==
    LET ld == ProcessTC(ProcessQC(livenessData[r], qc), tc)
    IN  /\ Ready(r)
        /\ PartialTC(view, qc, tc)
        /\ livenessData' = [livenessData EXCEPT ![r] = ld]
        /\ IF ld.CurrentView = view
              THEN broadcastTimeoutObjectIfAuthorized(r, ld)
              ELSE SignsNothing
        /\ UNCHANGED <<forks, running, restarts>>
-----------------------------------------------------------------------------
(***************************************************************************)
(* A crash and the construction of a new participant from persistent       *)
(* state (NewParticipant).  The protocol state holds the blocks Forks has  *)
(* seen, the replica's own proposals (stored when they were built), and    *)
(* possibly one more block that had passed the compliance layer but was    *)
(* not, or not completely, processed when the node crashed.  The handler   *)
(* that was interrupted may have persisted the LivenessData for a QC and a *)
(* TC without getting to sign anything.                                    *)
(***************************************************************************)
PendingBlocks(r, unprocessed) ==
    LET own == {b \in Blocks : <<r, b>> \in votes /\ LeaderForView[BlockView[b]] = r}
        final == forks[r].finalized
    IN  {b \in (forks[r].blocks \cup own \cup unprocessed) \ {final} : final \in Ancestors[b]}

PersistedBefore(r, qcs, tcs) ==
    {livenessData[r]} \cup {ProcessTC(ProcessQC(livenessData[r], qc), tc) :
                              qc \in qcs, tc \in tcs \cup {Nil}}

Restart(r, unprocessed, ld) ==
    LET pending == PendingBlocks(r, unprocessed)
        f       == RecoverForks(forks[r].finalized, pending)
        qcs     == {BlockQC[b] : b \in pending}
        tcs     == {BlockTC[b] : b \in pending} \ {Nil}
    IN  /\ Ready(r)
        /\ restarts < MaxRestarts
        /\ restarts' = restarts + 1
        /\ \A b \in unprocessed : b \notin forks[r].blocks /\ PassesCompliance(r, b)
        /\ running' = running \ {r}
        /\ forks' = [forks EXCEPT ![r] = f]
        /\ livenessData' = [livenessData EXCEPT ![r] = WithTCs(WithQCs(ld, qcs), tcs)]
        /\ exceptions' = IF f.failed THEN exceptions \cup {r} ELSE exceptions
        /\ UNCHANGED srVars

(***************************************************************************)
(* The environment hands over valid certificates only.  The event loop     *)
(* demands it ("which MUST be validated", onTrustedQC and onTrustedTC) and *)
(* all of its callers but one establish it: of a timeout that arrives when *)
(* the TC is complete, TimeoutProcessor.Process validates nothing, and the *)
(* TimeoutCollector reports its QC and TC all the same.  Such certificates *)
(* are not modelled; what is said of participants is said under this       *)
(* assumption.                                                             *)
(***************************************************************************)
Next ==
    LET qcs == ValidQCs
        tcs == ValidTCs
    IN  \/ \E r \in Participants :
              \/ Start(r)
              \/ OnLocalTimeout(r)
              \/ \E b \in Blocks : OnReceiveProposal(r, b)
              \/ \E qc \in qcs : OnReceiveQc(r, qc)
              \/ \E tc \in tcs : OnReceiveTc(r, tc)
              \/ \E v \in TimeoutViews, qc \in qcs, tc \in tcs \cup {Nil} :
                    OnPartialTcCreated(r, v, qc, tc)
              \/ restarts < MaxRestarts /\ \E ld \in PersistedBefore(r, qcs, tcs) :
                    Restart(r, {}, ld) \/ \E b \in Blocks : Restart(r, {b}, ld)
        \/ SafetyRulesStep(Honest \ Participants) /\ UNCHANGED localVars

Spec == Init /\ [][Next]_vars

(***************************************************************************)
(* What the code's scheduling justifies: a started event loop keeps taking *)
(* events, the timer of the current view fires, and certificates that      *)
(* exist are eventually received (timeouts are broadcast again with every  *)
(* tick and carry the newest QC and TC).  Proposals need not arrive.       *)
(***************************************************************************)
Fairness ==
    \A r \in Participants :
        /\ WF_vars(Start(r))
        /\ WF_vars(OnLocalTimeout(r))
        /\ WF_vars(\E qc \in ValidQCs : OnReceiveQc(r, qc))
        /\ WF_vars(\E tc \in ValidTCs : OnReceiveTc(r, tc))

FairSpec == Spec /\ Fairness
-----------------------------------------------------------------------------
(***************************************************************************)
(* "No errors are expected during normal operation" (every handler of      *)
(* event_handler.go): whatever valid inputs arrive in whatever order, and  *)
(* after any crash, no handler runs into SafetyRules' evidence and past    *)
(* view errors, the PaceMaker's state corruption checks, a missing parent, *)
(* or ByzantineThresholdExceeded in Forks.                                 *)
(***************************************************************************)
NoException == exceptions = {}

(***************************************************************************)
(* Nothing is signed beyond what the PaceMaker knows: SafetyRules never    *)
(* acknowledged a view after the current one and never locked on a QC      *)
(* newer than the newest QC.  The two are persisted separately; a restart  *)
(* that lost liveness data could never time out again (IsSafeToTimeout).   *)
(***************************************************************************)
SafetyDataWithinLivenessData ==
    \A r \in Participants :
        /\ safetyData[r].HighestAcknowledgedView <= livenessData[r].CurrentView
        /\ safetyData[r].LockedOneChainView <= BlockView[livenessData[r].NewestQC]

(***************************************************************************)
(* The invariant documented at proposeForNewViewIfPrimary: a replica emits *)
(* at most one own proposal per view, "irrespective of restarts".          *)
(***************************************************************************)
NoProposalEquivocation ==
    \A r \in Participants : \A b, c \in Blocks :
        /\ <<r, b>> \in votes /\ <<r, c>> \in votes
        /\ BlockView[b] = BlockView[c]
        /\ LeaderForView[BlockView[b]] = r
        => b = c

(***************************************************************************)
(* The evidence for having entered the current view, on which a leader's   *)
(* proposal and everybody's timeout depend, is always at hand and passes   *)
(* SafetyRules' checks: a QC for the previous view and no TC, or a TC for  *)
(* it together with an older QC that is at least as new as the TC's own.   *)
(* View, QC and TC are updated by separate certificates in any order, kept *)
(* across crashes, and restored from pending blocks.                       *)
(***************************************************************************)
EvidenceForCurrentView ==
    \A r \in Participants :
        LET ld == livenessData[r]
        IN  validateEvidenceForEnteringView(ld.CurrentView, ld.NewestQC, EvidenceTC(ld))

(***************************************************************************)
(* Forks finalizes only blocks that the committee has finalized, hence all *)
(* participants agree on one chain.                                        *)
(***************************************************************************)
ForksFinalizesAgreedBlocks ==
    \A r \in Participants :
        /\ forks[r].finalized \in FinalizedBlocks
        /\ \A s \in Participants : \/ forks[s].finalized \in Ancestors[forks[r].finalized]
                                    \/ forks[r].finalized \in Ancestors[forks[s].finalized]

\* A step that takes nothing back.
MovesForward ==
    \A r \in Participants :
        /\ forks[r].finalized \in Ancestors[forks'[r].finalized]
        /\ livenessData[r].CurrentView <= livenessData'[r].CurrentView
        /\ BlockView[livenessData[r].NewestQC] <= BlockView[livenessData'[r].NewestQC]
        /\ safetyData[r].LockedOneChainView <= safetyData'[r].LockedOneChainView
        /\ safetyData[r].HighestAcknowledgedView <= safetyData'[r].HighestAcknowledgedView

(***************************************************************************)
(* Finalization, the current view, the newest QC, the lock and the highest *)
(* acknowledged view never move backwards, not even across a crash: each   *)
(* of them is either persisted or recovered from pending blocks.           *)
(***************************************************************************)
NothingMovesBackwards == [][MovesForward]_vars

(***************************************************************************)
(* No participant is stuck in a view: having voted, having been restarted, *)
(* or knowing a newer QC than its peers never keeps a replica from timing  *)
(* out (ProduceTimeout) and moving on with the resulting TC, as long as    *)
(* all honest replicas take part.                                          *)
(***************************************************************************)
EveryViewEnds ==
    \A r \in Participants, v \in TimeoutViews :
        livenessData[r].CurrentView = v ~> livenessData[r].CurrentView > v
=============================================================================
