------------------------- MODULE TimeoutCollector --------------------------
(***************************************************************************)
(* The TimeoutCollector of one view and its TimeoutProcessor               *)
(* (consensus/hotstuff/timeoutcollector), used by many goroutines at once. *)
(* There is one task per timeout object; receiving it again is a repeated  *)
(* AddTimeout.  A step is what happens under one lock or in one atomic     *)
(* operation.                                                              *)
(*                                                                         *)
(* A timeout carries its signer's newest QC and, if that QC is not for the *)
(* previous view, the TC for the previous view.  NewTimeoutObject has      *)
(* checked their views before the timeout gets here, but no signature.     *)
(***************************************************************************)
EXTENDS Committee, Sequences

CONSTANTS View,       \* the view of the collector
          Timeouts,   \* the timeout objects that may be received
          Nil         \* Go's nil

QCs == [View : 0 .. View - 1, Valid : BOOLEAN]

TCs == [NewestQC : QCs, Valid : BOOLEAN]    \* TCs for the previous view

ASSUME TimeoutsAssumption ==
    /\ View \in Nat \ {0}
    /\ Nil \notin TCs \cup Timeouts \cup QCs \cup Nat
    /\ \A t \in Timeouts :
          /\ t.SignerID \in Replicas
          /\ t.NewestQC \in QCs
          /\ t.SigValid \in BOOLEAN
          /\ t.LastViewTC \in TCs \cup {Nil}
          /\ t.LastViewTC = Nil => t.NewestQC.View + 1 = View
          /\ t.LastViewTC # Nil => t.LastViewTC.NewestQC.View <= t.NewestQC.View

VARIABLES timeoutsCache,     \* first timeout of each signer
          newestQC,          \* newestQCTracker
          signatures,        \* sigAggregator: the signers' newest QC views
          totalWeight,       \* the weight returned to each task by VerifyAndAdd
          partialDone,       \* partialTCTracker.done
          tcDone,            \* tcTracker.done
          signersData,       \* what the task that builds the TC has aggregated
          pc,                \* what each task does next
          partialTCs,        \* OnPartialTcCreated
          tcs,               \* OnTcConstructedFromTimeouts
          newestReportedQC,  \* views of the certificates last reported
          newestReportedTC,
          discovered,        \* certificates reported with OnNewQcDiscovered, OnNewTcDiscovered
          equivocators       \* signers named to OnDoubleTimeoutDetected

processorVars == <<newestQC, signatures, totalWeight, partialDone, tcDone, signersData>>
reportVars == <<newestReportedQC, newestReportedTC, discovered>>
tocVars == <<timeoutsCache, processorVars, pc, partialTCs, tcs, reportVars, equivocators>>

TimeoutCollectorInit ==
    /\ timeoutsCache = [r \in Replicas |-> Nil]
    /\ newestQC = Nil
    /\ signatures = [r \in Replicas |-> Nil]
    /\ totalWeight = [t \in Timeouts |-> 0]
    /\ partialDone = FALSE
    /\ tcDone = FALSE
    /\ signersData = Nil
    /\ pc = [t \in Timeouts |-> "idle"]
    /\ partialTCs = <<>>
    /\ tcs = <<>>
    /\ newestReportedQC = 0
    /\ newestReportedTC = 0
    /\ discovered = {}
    /\ equivocators = {}

Goto(t, label) == pc' = [pc EXCEPT ![t] = label]

Signers == {r \in Replicas : signatures[r] # Nil}
-----------------------------------------------------------------------------
AddTimeout(t) ==
    LET first == timeoutsCache[t.SignerID]
    IN  /\ pc[t] \in {"idle", "end"}
        /\ timeoutsCache' = IF first = Nil THEN [timeoutsCache EXCEPT ![t.SignerID] = t]
                                           ELSE timeoutsCache
        /\ equivocators' = IF first \in {Nil, t} THEN equivocators
                                                 ELSE equivocators \cup {t.SignerID}
        /\ Goto(t, IF first = Nil THEN "process" ELSE "end")
        /\ UNCHANGED <<processorVars, partialTCs, tcs, reportVars>>
-----------------------------------------------------------------------------
(***************************************************************************)
(* TimeoutProcessor.Process                                                *)
(***************************************************************************)
\* validateTimeout
validateTimeout(t) ==
    /\ t.NewestQC.Valid
    /\ t.LastViewTC # Nil => t.LastViewTC.Valid

\* Mutant: timeouts are not validated.
ProcessUnvalidated(t) ==
    /\ pc[t] = "process"
    /\ Goto(t, CASE tcDone -> "reportQC"
                 [] OTHER -> "track")
    /\ UNCHANGED <<timeoutsCache, processorVars, partialTCs, tcs, reportVars, equivocators>>

\* Nothing is validated any more once the TC is complete.
Process(t) ==
    /\ pc[t] = "process"
    /\ Goto(t, CASE tcDone -> "reportQC"
                 [] ~tcDone /\ validateTimeout(t) -> "track"
                 [] OTHER -> "end")
    /\ UNCHANGED <<timeoutsCache, processorVars, partialTCs, tcs, reportVars, equivocators>>

\* The second look at tcTracker.Done finds the TC complete.
SkipCompleted(t) ==
    /\ pc[t] = "track"
    /\ tcDone
    /\ Goto(t, "reportQC")
    /\ UNCHANGED <<timeoutsCache, processorVars, partialTCs, tcs, reportVars, equivocators>>

\* Mutant: the tracker is overwritten with an older QC.
TrackLastQC(t) ==
    /\ pc[t] = "track"
    /\ newestQC' = t.NewestQC
    /\ Goto(t, "verify")
    /\ UNCHANGED <<timeoutsCache, signatures, totalWeight, partialDone, tcDone, signersData,
                   partialTCs, tcs, reportVars, equivocators>>

\* newestQCTracker.Track.  The TC may have been completed since the second
\* look at tcTracker.Done.
TrackNewestQC(t) ==
    /\ pc[t] = "track"
    /\ newestQC' = IF newestQC = Nil \/ newestQC.View < t.NewestQC.View
                      THEN t.NewestQC ELSE newestQC
    /\ Goto(t, "verify")
    /\ UNCHANGED <<timeoutsCache, signatures, totalWeight, partialDone, tcDone, signersData,
                   partialTCs, tcs, reportVars, equivocators>>

\* Mutant: the weight is read before the signature is added.
VerifyAndAddStaleWeight(t) ==
    LET adds == t.SigValid /\ t.SignerID \notin Signers
    IN  /\ pc[t] = "verify"
        /\ signatures' = IF adds THEN [signatures EXCEPT ![t.SignerID] = t.NewestQC.View]
                                 ELSE signatures
        /\ totalWeight' = IF adds
                             THEN [totalWeight EXCEPT ![t] = TotalWeight(Signers)]
                             ELSE totalWeight
        /\ Goto(t, CASE t.SignerID \in Signers -> "exception"
                     [] t.SignerID \notin Signers /\ ~t.SigValid -> "end"
                     [] OTHER -> "partial")
        /\ UNCHANGED <<timeoutsCache, newestQC, partialDone, tcDone, signersData,
                       partialTCs, tcs, reportVars, equivocators>>

\* sigAggregator.VerifyAndAdd.  processTimeout takes a DuplicatedSignerError
\* for an internal error.
VerifyAndAdd(t) ==
    LET adds == t.SigValid /\ t.SignerID \notin Signers
    IN  /\ pc[t] = "verify"
        /\ signatures' = IF adds THEN [signatures EXCEPT ![t.SignerID] = t.NewestQC.View]
                                 ELSE signatures
        /\ totalWeight' = IF adds
                             THEN [totalWeight EXCEPT ![t] = TotalWeight(Signers \cup {t.SignerID})]
                             ELSE totalWeight
        /\ Goto(t, CASE t.SignerID \in Signers -> "exception"
                     [] t.SignerID \notin Signers /\ ~t.SigValid -> "end"
                     [] OTHER -> "partial")
        /\ UNCHANGED <<timeoutsCache, newestQC, partialDone, tcDone, signersData,
                       partialTCs, tcs, reportVars, equivocators>>

\* Mutant: the threshold is off by one.
TrackPartialTCEarly(t) ==
    LET first == totalWeight[t] + 1 >= TimeoutThreshold /\ ~partialDone
    IN  /\ pc[t] = "partial"
        /\ partialDone' = (partialDone \/ first)
        /\ Goto(t, IF first THEN "notify" ELSE "tc")
        /\ UNCHANGED <<timeoutsCache, newestQC, signatures, totalWeight, tcDone, signersData,
                       partialTCs, tcs, reportVars, equivocators>>

\* Mutant: done is set without a compare-and-swap.
TrackPartialTCAgain(t) ==
    LET first == totalWeight[t] >= TimeoutThreshold
    IN  /\ pc[t] = "partial"
        /\ partialDone' = (partialDone \/ first)
        /\ Goto(t, IF first THEN "notify" ELSE "tc")
        /\ UNCHANGED <<timeoutsCache, newestQC, signatures, totalWeight, tcDone, signersData,
                       partialTCs, tcs, reportVars, equivocators>>

\* partialTCTracker.Track
TrackPartialTC(t) ==
    LET first == totalWeight[t] >= TimeoutThreshold /\ ~partialDone
    IN  /\ pc[t] = "partial"
        /\ partialDone' = (partialDone \/ first)
        /\ Goto(t, IF first THEN "notify" ELSE "tc")
        /\ UNCHANGED <<timeoutsCache, newestQC, signatures, totalWeight, tcDone, signersData,
                       partialTCs, tcs, reportVars, equivocators>>

\* OnPartialTcCreated: the newest QC of all timeouts, and this timeout's TC
NotifyPartialTC(t) ==
    /\ pc[t] = "notify"
    /\ partialTCs' = Append(partialTCs, [NewestQC |-> newestQC, LastViewTC |-> t.LastViewTC])
    /\ Goto(t, "tc")
    /\ UNCHANGED <<timeoutsCache, processorVars, tcs, reportVars, equivocators>>

\* tcTracker.Track
TrackTC(t) ==
    LET first == totalWeight[t] >= QuorumThreshold /\ ~tcDone
    IN  /\ pc[t] = "tc"
        /\ tcDone' = (tcDone \/ first)
        /\ Goto(t, IF first THEN "aggregate" ELSE "reportQC")
        /\ UNCHANGED <<timeoutsCache, newestQC, signatures, totalWeight, partialDone, signersData,
                       partialTCs, tcs, reportVars, equivocators>>

\* buildTC: sigAggregator.Aggregate
Aggregate(t) ==
    /\ pc[t] = "aggregate"
    /\ signersData' = [r \in Signers |-> signatures[r]]
    /\ Goto(t, "build")
    /\ UNCHANGED <<timeoutsCache, newestQC, signatures, totalWeight, partialDone, tcDone,
                   partialTCs, tcs, reportVars, equivocators>>

\* buildTC: reading the newest QC, NewTimeoutCertificate and OnTcConstructedFromTimeouts
BuildTC(t) ==
    LET valid == \A r \in DOMAIN signersData : signersData[r] <= newestQC.View
    IN  /\ pc[t] = "build"
        /\ tcs' = IF valid THEN Append(tcs, [NewestQC |-> newestQC, NewestQCViews |-> signersData])
                           ELSE tcs
        /\ Goto(t, IF valid THEN "reportQC" ELSE "exception")
        /\ UNCHANGED <<timeoutsCache, processorVars, partialTCs, reportVars, equivocators>>
-----------------------------------------------------------------------------
(***************************************************************************)
(* TimeoutCollector.processTimeout, after Process has returned no error.   *)
(* Only the order of notifications depends on whether they follow the      *)
(* updates of the monotonic counters at once.                              *)
(***************************************************************************)
ReportQC(t) ==
    LET newer == t.NewestQC.View > newestReportedQC
    IN  /\ pc[t] = "reportQC"
        /\ newestReportedQC' = IF newer THEN t.NewestQC.View ELSE newestReportedQC
        /\ discovered' = IF newer THEN discovered \cup {t.NewestQC} ELSE discovered
        /\ Goto(t, "reportTC")
        /\ UNCHANGED <<timeoutsCache, processorVars, partialTCs, tcs, newestReportedTC, equivocators>>

ReportTC(t) ==
    LET newer == t.LastViewTC # Nil /\ View - 1 > newestReportedTC
    IN  /\ pc[t] = "reportTC"
        /\ newestReportedTC' = IF newer THEN View - 1 ELSE newestReportedTC
        /\ discovered' = IF newer THEN discovered \cup {t.LastViewTC} ELSE discovered
        /\ Goto(t, "end")
        /\ UNCHANGED <<timeoutsCache, processorVars, partialTCs, tcs, newestReportedQC, equivocators>>
-----------------------------------------------------------------------------
processTimeout(t) ==
    \/ Process(t) \/ SkipCompleted(t) \/ TrackNewestQC(t) \/ VerifyAndAdd(t)
    \/ TrackPartialTC(t) \/ NotifyPartialTC(t) \/ TrackTC(t) \/ Aggregate(t) \/ BuildTC(t)
    \/ ReportQC(t) \/ ReportTC(t)

TimeoutCollectorNext == \E t \in Timeouts : AddTimeout(t) \/ processTimeout(t)

TimeoutCollectorSpec == TimeoutCollectorInit /\ [][TimeoutCollectorNext]_tocVars

\* A worker that has taken a timeout from the queue finishes processing it.
TimeoutCollectorFairSpec ==
    TimeoutCollectorSpec /\ \A t \in Timeouts : WF_tocVars(processTimeout(t))
-----------------------------------------------------------------------------
(***************************************************************************)
(* The collector and its goroutines are in a well-formed state.            *)
(***************************************************************************)
TimeoutCollectorTypeOK ==
    /\ timeoutsCache \in [Replicas -> Timeouts \cup {Nil}]
    /\ newestQC \in QCs \cup {Nil}
    /\ signatures \in [Replicas -> (0 .. View - 1) \cup {Nil}]
    /\ totalWeight \in [Timeouts -> 0 .. TotalWeight(Replicas)]
    /\ partialDone \in BOOLEAN /\ tcDone \in BOOLEAN
    /\ pc \in [Timeouts -> {"idle", "process", "track", "verify", "partial", "notify", "tc",
                            "aggregate", "build", "reportQC", "reportTC", "end", "exception"}]
    /\ newestReportedQC \in 0 .. View - 1 /\ newestReportedTC \in 0 .. View - 1
    /\ discovered \subseteq QCs \cup TCs
    /\ equivocators \subseteq Replicas

(***************************************************************************)
(* Every TC is one that ValidateTC accepts: a quorum of signers, each with *)
(* the newest QC view it has really signed, and a valid QC at least as new *)
(* as all of them (the CAUTION at newestQCTracker.Track), although         *)
(* timeouts are tracked, aggregated and read in separate steps.            *)
(***************************************************************************)
TCsAreValid ==
    \A i \in DOMAIN tcs :
        LET tc == tcs[i]
        IN  /\ IsQuorum(DOMAIN tc.NewestQCViews)
            /\ tc.NewestQC.Valid
            /\ \A r \in DOMAIN tc.NewestQCViews :
                  /\ tc.NewestQCViews[r] <= tc.NewestQC.View
                  /\ \E t \in Timeouts : /\ t.SignerID = r /\ t.SigValid /\ validateTimeout(t)
                                         /\ t.NewestQC.View = tc.NewestQCViews[r]

(***************************************************************************)
(* OnPartialTcCreated passes on what an event handler needs to enter the   *)
(* view and join the timeout: valid evidence for the view, although the    *)
(* QC and the TC may come from different timeouts, after timeouts of an    *)
(* honest replica.                                                         *)
(***************************************************************************)
PartialTCsAreJustified ==
    \A i \in DOMAIN partialTCs :
        LET qc == partialTCs[i].NewestQC
            tc == partialTCs[i].LastViewTC
        IN  /\ qc # Nil /\ qc.Valid
            /\ IF tc = Nil THEN qc.View + 1 = View
                           ELSE tc.Valid /\ tc.NewestQC.View <= qc.View
            /\ CanTimeout(Signers)

(***************************************************************************)
(* accumulatedWeightTracker "tracks one-time event": at most one partial   *)
(* TC and one TC, whoever crosses the thresholds concurrently.             *)
(***************************************************************************)
OneTimeEvents == Len(partialTCs) <= 1 /\ Len(tcs) <= 1

(***************************************************************************)
(* processTimeout: "No errors are expected during normal flow of           *)
(* operations".  A DuplicatedSignerError or a TC refused by                *)
(* NewTimeoutCertificate would stop the node.                              *)
(***************************************************************************)
NoInternalError == \A t \in Timeouts : pc[t] # "exception"

\* The signers whose cached timeouts are valid.
ValidSigners ==
    {r \in Replicas : LET t == timeoutsCache[r]
                      IN  t # Nil /\ t.SigValid /\ validateTimeout(t)}

(***************************************************************************)
(* Enough valid timeouts always yield a partial TC and a TC: no timeout is *)
(* lost between the concurrent goroutines.                                 *)
(***************************************************************************)
TCIsCreated ==
    /\ CanTimeout(ValidSigners) ~> partialTCs # <<>>
    /\ IsQuorum(ValidSigners) ~> tcs # <<>>
=============================================================================
