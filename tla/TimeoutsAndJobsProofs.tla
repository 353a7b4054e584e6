----------------------- MODULE TimeoutsAndJobsProofs -----------------------
(***************************************************************************)
(* Proofs about two components whose goroutines share their state.  For    *)
(* every committee, weight distribution and interleaving of the timeouts,  *)
(* the timeout collector never fails, and the TC and the partial TC of its *)
(* view are valid and built at most once.  For every number of jobs,       *)
(* publishers, workers, restarts and failures, the consumer of             *)
(* module/jobqueue runs every job in one goroutine at a time, keeps its    *)
(* limits, and implements AtLeastOnce.                                     *)
(***************************************************************************)
EXTENDS TimeoutCollector, JobQueue, FiniteSetTheorems, TLAPS

(***************************************************************************)
(* Weights.                                                                *)
(***************************************************************************)
(* The units of weight of any set of replicas are finitely many.           *)
LEMMA WeightUnitsFinite ==
    ASSUME NEW S \in SUBSET Replicas
    PROVE  IsFiniteSet(WeightUnits(S))
<1> DEFINE units(r) == {r} \X (1 .. Weight[r])
           pieces == {units(r) : r \in S}
<1>1. IsFiniteSet(S)
  BY Zenon, CommitteeAssumption, FS_Subset
<1>2. IsFiniteSet(pieces)
  <2> DEFINE g == [r \in S |-> units(r)]
  <2>1. g \in Surjection(S, pieces)
    BY Zenon DEF Surjection
  <2>. QED BY Zenon, <1>1, <2>1, FS_Surjection
<1>3. ASSUME NEW r \in S PROVE IsFiniteSet(units(r))
  <2>1. IsFiniteSet({r})
    BY Zenon, FS_Singleton
  <2>2. Weight[r] \in Nat
    BY Zenon, CommitteeAssumption
  <2>3. IsFiniteSet(1 .. Weight[r])
    BY <2>2, FS_Interval
  <2>. QED BY Zenon, <2>1, <2>3, FS_Product
<1>4. \A p \in pieces : IsFiniteSet(p)
  BY Zenon, <1>3
<1>5. IsFiniteSet(UNION pieces)
  <2>. HIDE DEF pieces
  <2>. QED BY Zenon, <1>2, <1>4, FS_UNION
<1>. QED BY Zenon, <1>5 DEF WeightUnits

(* Total weight is a natural number, and monotone.                         *)
LEMMA TotalWeightProperties ==
    ASSUME NEW S \in SUBSET Replicas, NEW T \in SUBSET Replicas
    PROVE  /\ TotalWeight(S) \in Nat
           /\ S \subseteq T => TotalWeight(S) <= TotalWeight(T)
<1>1. IsFiniteSet(WeightUnits(S)) /\ IsFiniteSet(WeightUnits(T))
  BY Zenon, WeightUnitsFinite
<1>2. S \subseteq T => WeightUnits(S) \subseteq WeightUnits(T)
  BY Zenon DEF WeightUnits
<1>3. S \subseteq T => Cardinality(WeightUnits(S)) <= Cardinality(WeightUnits(T))
  BY Zenon, <1>1, <1>2, FS_Subset
<1>4. Cardinality(WeightUnits(S)) \in Nat
  BY Zenon, <1>1, FS_CardinalityType
<1> QED
  BY Zenon, <1>3, <1>4 DEF TotalWeight

(* The threshold for a QC exceeds two thirds of the total weight           *)
(* (WeightThresholdToBuildQC).                                             *)
LEMMA QuorumThresholdProperty ==
    ASSUME NEW w \in Nat
    PROVE  /\ WeightThresholdToBuildQC(w) \in Nat
           /\ 3 * WeightThresholdToBuildQC(w) > 2 * w
<1>1. /\ w \div 3 \in Nat
      /\ w % 3 \in 0 .. 2
      /\ w = 3 * (w \div 3) + (w % 3)
  OBVIOUS
<1>. QED BY <1>1 DEF WeightThresholdToBuildQC

\* The labels of tasks whose signature is in the aggregator, and so on back.
Added     == {"partial", "notify", "tc", "aggregate", "build"}
Tracked   == {"verify"} \cup Added
Validated == {"track"} \cup Tracked

\* r has signed a valid timeout with a newest QC of view v.
Attested(r, v) ==
    \E t \in Timeouts : /\ t.SignerID = r /\ t.SigValid /\ validateTimeout(t)
                        /\ t.NewestQC.View = v

\* Tasks are the first ones of their signers, and add their signatures once.
NoDuplicates ==
    /\ \A r \in Signers : timeoutsCache[r] # Nil
    /\ \A t \in Timeouts : /\ pc[t] # "exception"
                           /\ pc[t] \notin {"idle", "end"} => timeoutsCache[t.SignerID] = t
                           /\ pc[t] \in {"process", "track", "verify"} => t.SignerID \notin Signers

\* The tracker is ahead of the signatures in the aggregator.
NewestQCIsTracked ==
    /\ newestQC # Nil => newestQC.Valid
    /\ \A t \in Timeouts :
          /\ pc[t] \in Validated => validateTimeout(t)
          /\ pc[t] \in Tracked => newestQC # Nil /\ t.NewestQC.View <= newestQC.View
    /\ \A r \in Signers : /\ newestQC # Nil /\ signatures[r] <= newestQC.View
                          /\ Attested(r, signatures[r])

\* Weights read earlier are lower bounds.
WeightsAreBounds ==
    \A t \in Timeouts : pc[t] \in Added => totalWeight[t] <= TotalWeight(Signers)

Justified(ptc) ==
    LET qc == ptc.NewestQC
        tc == ptc.LastViewTC
    IN  /\ qc # Nil /\ qc.Valid
        /\ IF tc = Nil THEN qc.View + 1 = View
                       ELSE tc.Valid /\ tc.NewestQC.View <= qc.View

OnePartialTC ==
    /\ \A t \in Timeouts : pc[t] = "notify" => partialTCs = <<>>
    /\ \A t, u \in Timeouts : pc[t] = "notify" /\ pc[u] = "notify" => t = u
    /\ (\E t \in Timeouts : pc[t] = "notify") \/ partialTCs # <<>> =>
          partialDone /\ CanTimeout(Signers)
    /\ partialTCs # <<>> => partialTCs = <<partialTCs[1]>> /\ Justified(partialTCs[1])

\* What the views that a TC attests have to be like.
SoundViews(views, qc) ==
    /\ DOMAIN views \subseteq Replicas
    /\ IsQuorum(DOMAIN views)
    /\ \A r \in DOMAIN views : views[r] <= qc.View /\ Attested(r, views[r])

OneTC ==
    /\ \A t \in Timeouts : pc[t] \in {"aggregate", "build"} => tcs = <<>>
    /\ \A t, u \in Timeouts :
          pc[t] \in {"aggregate", "build"} /\ pc[u] \in {"aggregate", "build"} => t = u
    /\ (\E t \in Timeouts : pc[t] \in {"aggregate", "build"}) \/ tcs # <<>> =>
          tcDone /\ IsQuorum(Signers)
    /\ (\E t \in Timeouts : pc[t] = "build") => SoundViews(signersData, newestQC)
    /\ tcs # <<>> => /\ tcs = <<tcs[1]>>
                     /\ tcs[1].NewestQC.Valid
                     /\ SoundViews(tcs[1].NewestQCViews, tcs[1].NewestQC)

(***************************************************************************)
(* The inductive invariant.                                                *)
(***************************************************************************)
TimeoutCollectorInvariant ==
    /\ TimeoutCollectorTypeOK
    /\ NoDuplicates
    /\ NewestQCIsTracked
    /\ WeightsAreBounds
    /\ OnePartialTC
    /\ OneTC
-----------------------------------------------------------------------------
(* What is known of every timeout.                                         *)
LEMMA TimeoutFacts ==
    ASSUME NEW t \in Timeouts
    PROVE  /\ t.SignerID \in Replicas
           /\ t.NewestQC \in QCs /\ t.NewestQC.View \in 0 .. View - 1
           /\ t.LastViewTC \in TCs \cup {Nil}
           /\ t # Nil
BY Zenon, TimeoutsAssumption DEF QCs

(* Each step changes the label of one task only.                           *)
LEMMA OtherTasksWait ==
    ASSUME TimeoutCollectorTypeOK, NEW t \in Timeouts, AddTimeout(t) \/ processTimeout(t),
           NEW u \in Timeouts, u # t
    PROVE  pc'[u] = pc[u]
BY Zenon DEF TimeoutCollectorTypeOK, AddTimeout, processTimeout, Process, SkipCompleted, TrackNewestQC, VerifyAndAdd,
       TrackPartialTC, NotifyPartialTC, TrackTC, Aggregate, BuildTC, ReportQC, ReportTC, Goto

(* The state of the collector stays well formed.                           *)
LEMMA TimeoutCollectorTypeStep ==
    ASSUME TimeoutCollectorTypeOK, NEW t \in Timeouts, AddTimeout(t) \/ processTimeout(t)
    PROVE  TimeoutCollectorTypeOK'
<1> USE TimeoutFacts DEF TimeoutCollectorTypeOK, Goto, processorVars, reportVars
<1>1. CASE AddTimeout(t)
  BY Zenon, <1>1 DEF AddTimeout
<1>2. CASE Process(t) \/ SkipCompleted(t)
  BY Zenon, <1>2 DEF Process, SkipCompleted
<1>3. CASE TrackNewestQC(t)
  BY Zenon, <1>3 DEF TrackNewestQC
<1>4. CASE VerifyAndAdd(t)
  <2>1. TotalWeight(Signers \cup {t.SignerID}) \in 0 .. TotalWeight(Replicas)
    <3>1. Signers \cup {t.SignerID} \in SUBSET Replicas /\ Replicas \in SUBSET Replicas
      BY Zenon DEF Signers
    <3>2. /\ TotalWeight(Signers \cup {t.SignerID}) \in Nat /\ TotalWeight(Replicas) \in Nat
          /\ TotalWeight(Signers \cup {t.SignerID}) <= TotalWeight(Replicas)
      BY Zenon, <3>1, TotalWeightProperties
    <3> QED
      BY <3>2
  <2> QED
    BY Zenon, <1>4, <2>1 DEF VerifyAndAdd
<1>5. CASE TrackPartialTC(t) \/ TrackTC(t)
  BY Zenon, <1>5 DEF TrackPartialTC, TrackTC
<1>6. CASE NotifyPartialTC(t) \/ Aggregate(t) \/ BuildTC(t)
  BY Zenon, <1>6 DEF NotifyPartialTC, Aggregate, BuildTC
<1>7. CASE ReportQC(t)
  BY Zenon, <1>7 DEF ReportQC
<1>8. CASE ReportTC(t)
  BY <1>8, TimeoutsAssumption DEF ReportTC
<1> QED
  BY Zenon, <1>1, <1>2, <1>3, <1>4, <1>5, <1>6, <1>7, <1>8 DEF processTimeout
(* Signatures are only added, and one by one.                              *)
LEMMA SignersGrow ==
    ASSUME TimeoutCollectorTypeOK, NEW t \in Timeouts, AddTimeout(t) \/ processTimeout(t)
    PROVE  /\ Signers \in SUBSET Replicas /\ Signers' \in SUBSET Replicas
           /\ Signers \subseteq Signers'
           /\ \A r \in Signers : signatures'[r] = signatures[r]
           /\ ~VerifyAndAdd(t) => Signers' = Signers /\ signatures' = signatures
           /\ TotalWeight(Signers) <= TotalWeight(Signers')
<1>1. CASE VerifyAndAdd(t)
  <2>1. \A r \in Replicas :
          signatures'[r] = IF t.SigValid /\ t.SignerID \notin Signers /\ r = t.SignerID
                              THEN t.NewestQC.View ELSE signatures[r]
    BY Zenon, <1>1 DEF VerifyAndAdd, TimeoutCollectorTypeOK
  <2>2. t.NewestQC.View # Nil
    BY TimeoutFacts, TimeoutsAssumption
  <2>3. Signers \subseteq Signers' /\ \A r \in Signers : signatures'[r] = signatures[r]
    BY Zenon, <2>1, <2>2 DEF Signers
  <2> QED
    BY Zenon, <1>1, <2>3, TotalWeightProperties DEF Signers
<1>2. CASE ~VerifyAndAdd(t)
  <2>1. signatures' = signatures
    BY Zenon, <1>2 DEF AddTimeout, processTimeout, Process, SkipCompleted, TrackNewestQC, TrackPartialTC, NotifyPartialTC,
                TrackTC, Aggregate, BuildTC, ReportQC, ReportTC, processorVars
  <2>2. Signers' = Signers /\ Signers \in SUBSET Replicas
    BY Zenon, <2>1 DEF Signers
  <2> QED
    BY Zenon, <1>2, <2>1, <2>2, TotalWeightProperties
<1> QED
  BY Zenon, <1>1, <1>2

(* The QC tracker never moves back to an older QC.                         *)
LEMMA TrackerGrows ==
    ASSUME TimeoutCollectorTypeOK, NEW t \in Timeouts, AddTimeout(t) \/ processTimeout(t)
    PROVE  /\ newestQC' \in QCs \cup {Nil}
           /\ newestQC # Nil => newestQC' # Nil /\ newestQC.View <= newestQC'.View
           /\ ~TrackNewestQC(t) => newestQC' = newestQC
<1>1. newestQC # Nil => newestQC.View \in Int
  BY DEF TimeoutCollectorTypeOK, QCs
<1>2. CASE TrackNewestQC(t)
  <2>1. t.NewestQC \in QCs /\ t.NewestQC # Nil /\ t.NewestQC.View \in Int
    BY TimeoutFacts, TimeoutsAssumption
  <2> QED
    BY <1>1, <1>2, <2>1 DEF TrackNewestQC, TimeoutCollectorTypeOK
<1>3. CASE ~TrackNewestQC(t)
  <2>1. newestQC' = newestQC
    BY Zenon, <1>3 DEF AddTimeout, processTimeout, Process, SkipCompleted, VerifyAndAdd, TrackPartialTC, NotifyPartialTC,
                TrackTC, Aggregate, BuildTC, ReportQC, ReportTC, processorVars
  <2> QED
    BY <1>1, <1>3, <2>1 DEF TimeoutCollectorTypeOK
<1> QED
  BY Zenon, <1>2, <1>3

(* The cache lets one timeout of every signer pass, so that the aggregator *)
(* never sees a signer twice.                                              *)
LEMMA NoDuplicatesStep ==
    ASSUME TimeoutCollectorInvariant, NEW t \in Timeouts, AddTimeout(t) \/ processTimeout(t)
    PROVE  NoDuplicates'
<1>1. TimeoutCollectorTypeOK /\ NoDuplicates /\ t.SignerID \in Replicas
  BY Zenon, TimeoutFacts DEF TimeoutCollectorInvariant
<1>2. \A u \in Timeouts \ {t} : pc'[u] = pc[u]
  BY Zenon, <1>1, OtherTasksWait
<1>3. CASE AddTimeout(t)
  <2>1. Signers' = Signers
    BY Zenon, <1>3 DEF AddTimeout, processorVars, Signers
  <2>2. \A r \in Replicas : timeoutsCache[r] # Nil => timeoutsCache'[r] = timeoutsCache[r]
    BY Zenon, <1>1, <1>3 DEF AddTimeout, TimeoutCollectorTypeOK
  <2>3. timeoutsCache[t.SignerID] = Nil => timeoutsCache'[t.SignerID] = t
    BY Zenon, <1>1, <1>3 DEF AddTimeout, TimeoutCollectorTypeOK
  <2>4. pc'[t] = IF timeoutsCache[t.SignerID] = Nil THEN "process" ELSE "end"
    BY Zenon, <1>1, <1>3 DEF AddTimeout, TimeoutCollectorTypeOK, Goto
  <2> QED
    BY ZenonT(60), <1>1, <1>2, <2>1, <2>2, <2>3, <2>4, TimeoutFacts DEF NoDuplicates, Signers
<1>4. CASE VerifyAndAdd(t)
  <2>1. timeoutsCache' = timeoutsCache /\ pc[t] = "verify"
    BY Zenon, <1>4 DEF VerifyAndAdd
  <2>2. Signers' \subseteq Signers \cup {t.SignerID}
    BY Zenon, <1>1, <1>4 DEF VerifyAndAdd, Signers, TimeoutCollectorTypeOK
  <2>3. pc'[t] \in {"end", "partial"}
    <3>1. t.SignerID \notin Signers
      BY Zenon, <1>1, <2>1 DEF NoDuplicates
    <3> QED
      BY Zenon, <1>1, <1>4, <3>1 DEF VerifyAndAdd, TimeoutCollectorTypeOK, Goto
  <2>4. timeoutsCache[t.SignerID] = t
    BY Zenon, <1>1, <2>1 DEF NoDuplicates
  <2> QED
    BY <1>1, <1>2, <2>1, <2>2, <2>3, <2>4, TimeoutFacts DEF NoDuplicates
<1>5. CASE BuildTC(t)
  <2>1. SoundViews(signersData, newestQC) /\ UNCHANGED <<timeoutsCache, Signers>>
    BY Zenon, <1>5 DEF TimeoutCollectorInvariant, OneTC, BuildTC, processorVars, Signers
  <2>2. pc'[t] = "reportQC" /\ pc[t] = "build"
    BY Zenon, <1>1, <1>5, <2>1 DEF BuildTC, SoundViews, TimeoutCollectorTypeOK, Goto
  <2> QED
    BY Zenon, <1>1, <1>2, <2>1, <2>2 DEF NoDuplicates
<1>6. CASE \/ Process(t) \/ SkipCompleted(t) \/ TrackNewestQC(t)
           \/ TrackPartialTC(t) \/ NotifyPartialTC(t) \/ TrackTC(t) \/ Aggregate(t) \/ ReportQC(t) \/ ReportTC(t)
  <2>1. UNCHANGED <<timeoutsCache, Signers>>
    BY Zenon, <1>6 DEF Process, SkipCompleted, TrackNewestQC, TrackPartialTC, NotifyPartialTC, TrackTC, Aggregate,
                ReportQC, ReportTC, processorVars, Signers
  <2>2. /\ pc[t] \notin {"idle", "end"}
        /\ pc'[t] # "exception"
        /\ pc'[t] \in {"process", "track", "verify"} => pc[t] \in {"process", "track"}
    BY Zenon, <1>1, <1>6
       DEF Process, SkipCompleted, TrackNewestQC, TrackPartialTC, NotifyPartialTC, TrackTC, Aggregate,
           ReportQC, ReportTC, Goto, TimeoutCollectorTypeOK
  <2> QED
    BY Zenon, <1>1, <1>2, <2>1, <2>2 DEF NoDuplicates
<1> QED
  BY Zenon, <1>3, <1>4, <1>5, <1>6 DEF processTimeout

(* The newest QC is tracked before the signature is added, so that no      *)
(* added timeout is newer than it.                                         *)
LEMMA NewestQCIsTrackedStep ==
    ASSUME TimeoutCollectorInvariant, NEW t \in Timeouts, AddTimeout(t) \/ processTimeout(t)
    PROVE  NewestQCIsTracked'
<1> USE DEF Added, Tracked, Validated
<1>1. TimeoutCollectorTypeOK /\ NewestQCIsTracked
  BY Zenon DEF TimeoutCollectorInvariant
<1>2. \A u \in Timeouts \ {t} : pc'[u] = pc[u]
  BY Zenon, <1>1, OtherTasksWait
<1>3. \A u \in Timeouts : u.NewestQC.View \in Int
  BY TimeoutFacts
<1>4. /\ newestQC # Nil => newestQC.View \in Int
      /\ newestQC' # Nil => newestQC'.View \in Int
  BY <1>1, TrackerGrows DEF TimeoutCollectorTypeOK, QCs
<1>5. newestQC' # Nil => newestQC'.Valid
  <2>1. CASE TrackNewestQC(t)
    BY Zenon, <1>1, <2>1 DEF NewestQCIsTracked, TrackNewestQC, validateTimeout
  <2>2. CASE ~TrackNewestQC(t)
    BY Zenon, <1>1, <2>2, TrackerGrows DEF NewestQCIsTracked
  <2> QED
    BY Zenon, <2>1, <2>2
<1>6. /\ pc'[t] \in Validated => validateTimeout(t)
      /\ pc'[t] \in Tracked => newestQC' # Nil /\ t.NewestQC.View <= newestQC'.View
  <2>1. CASE TrackNewestQC(t)
    <3>1. pc[t] = "track" /\ t.NewestQC # Nil
      BY Zenon, <2>1, TimeoutFacts, TimeoutsAssumption DEF TrackNewestQC
    <3>2. validateTimeout(t)
      BY Zenon, <1>1, <3>1 DEF NewestQCIsTracked
    <3>3. newestQC' = IF newestQC = Nil \/ newestQC.View < t.NewestQC.View
                         THEN t.NewestQC ELSE newestQC
      BY Zenon, <2>1 DEF TrackNewestQC
    <3> QED
      BY <1>3, <1>4, <3>1, <3>2, <3>3
  <2>2. CASE ~TrackNewestQC(t)
    <3>1. newestQC' = newestQC
      BY Zenon, <1>1, <2>2, TrackerGrows
    <3>2. /\ pc'[t] \in Validated => pc[t] \in Validated \/ validateTimeout(t)
          /\ pc'[t] \in Tracked => pc[t] \in Tracked
      BY Zenon, <1>1, <2>2
         DEF AddTimeout, processTimeout, Process, SkipCompleted, VerifyAndAdd, TrackPartialTC, NotifyPartialTC,
             TrackTC, Aggregate, BuildTC, ReportQC, ReportTC, Goto, TimeoutCollectorTypeOK
    <3> QED
      BY Zenon, <1>1, <3>1, <3>2 DEF NewestQCIsTracked
  <2> QED
    BY Zenon, <2>1, <2>2
<1>7. ASSUME NEW u \in Timeouts
      PROVE  /\ pc'[u] \in Validated => validateTimeout(u)
             /\ pc'[u] \in Tracked => newestQC' # Nil /\ u.NewestQC.View <= newestQC'.View
  <2>1. CASE u = t
    BY Zenon, <1>6, <2>1
  <2>2. CASE u # t
    <3>1. /\ pc'[u] = pc[u]
          /\ pc[u] \in Validated => validateTimeout(u)
          /\ pc[u] \in Tracked => newestQC # Nil /\ u.NewestQC.View <= newestQC.View
          /\ newestQC # Nil => newestQC' # Nil /\ newestQC.View <= newestQC'.View
      BY Zenon, <1>1, <1>2, <2>2, TrackerGrows DEF NewestQCIsTracked
    <3> QED
      BY <1>3, <1>4, <3>1
  <2> QED
    BY Zenon, <2>1, <2>2
<1>8. ASSUME NEW r \in Signers'
      PROVE  /\ newestQC' # Nil /\ signatures'[r] <= newestQC'.View
             /\ Attested(r, signatures'[r])
  <2>1. CASE r \in Signers
    <3>1. /\ signatures'[r] = signatures[r] /\ signatures[r] \in Int
          /\ newestQC # Nil => newestQC' # Nil /\ newestQC.View <= newestQC'.View
      <4>1. signatures[r] \in Int
        BY <1>1, <2>1 DEF Signers, TimeoutCollectorTypeOK
      <4> QED
        BY Zenon, <1>1, <2>1, <4>1, SignersGrow, TrackerGrows
    <3>2. newestQC # Nil /\ signatures[r] <= newestQC.View /\ Attested(r, signatures[r])
      BY Zenon, <1>1, <2>1 DEF NewestQCIsTracked
    <3> QED
      BY <1>4, <3>1, <3>2
  <2>2. CASE r \notin Signers
    <3>1. VerifyAndAdd(t)
      BY Zenon, <1>1, <2>2, SignersGrow
    <3>2. /\ t.SigValid /\ r = t.SignerID /\ signatures'[r] = t.NewestQC.View
      BY Zenon, <1>1, <2>2, <3>1 DEF VerifyAndAdd, Signers, TimeoutCollectorTypeOK
    <3>3. validateTimeout(t) /\ newestQC # Nil /\ t.NewestQC.View <= newestQC.View
      BY Zenon, <1>1, <3>1 DEF NewestQCIsTracked, VerifyAndAdd
    <3>4. newestQC' = newestQC
      BY Zenon, <3>1 DEF VerifyAndAdd
    <3> QED
      BY Zenon, <3>2, <3>3, <3>4 DEF Attested
  <2> QED
    BY Zenon, <2>1, <2>2
<1> QED
  BY Zenon, <1>5, <1>7, <1>8 DEF NewestQCIsTracked, validateTimeout, Attested
(* The weights that goroutines have read never exceed the weight of the    *)
(* signatures added so far.                                                *)
LEMMA WeightsAreBoundsStep ==
    ASSUME TimeoutCollectorInvariant, NEW t \in Timeouts, AddTimeout(t) \/ processTimeout(t)
    PROVE  WeightsAreBounds'
<1> USE DEF Added
<1>1. TimeoutCollectorTypeOK /\ WeightsAreBounds
  BY Zenon DEF TimeoutCollectorInvariant
<1>2. \A u \in Timeouts \ {t} : pc'[u] = pc[u]
  BY <1>1, OtherTasksWait
<1>3. /\ TotalWeight(Signers) \in Nat /\ TotalWeight(Signers') \in Nat
      /\ TotalWeight(Signers) <= TotalWeight(Signers')
  BY Zenon, <1>1, SignersGrow, TotalWeightProperties
<1>4. \A u \in Timeouts : totalWeight[u] \in Int
  BY <1>1 DEF TimeoutCollectorTypeOK
<1>5. CASE VerifyAndAdd(t)
  <2>1. \A u \in Timeouts \ {t} : totalWeight'[u] = totalWeight[u]
    BY Zenon, <1>1, <1>5 DEF VerifyAndAdd, TimeoutCollectorTypeOK
  <2>2. ASSUME pc'[t] \in Added PROVE totalWeight'[t] = TotalWeight(Signers')
    <3>1. t.SigValid /\ t.SignerID \notin Signers
      BY Zenon, <1>1, <1>5, <2>2 DEF VerifyAndAdd, TimeoutCollectorTypeOK, Goto
    <3>2. t.NewestQC.View # Nil /\ t.SignerID \in Replicas
      BY TimeoutFacts, TimeoutsAssumption
    <3>3. Signers' = Signers \cup {t.SignerID}
      BY Zenon, <1>1, <1>5, <3>1, <3>2 DEF VerifyAndAdd, TimeoutCollectorTypeOK, Signers
    <3> QED
      BY Zenon, <1>1, <1>5, <3>1, <3>3 DEF VerifyAndAdd, TimeoutCollectorTypeOK
  <2>3. ASSUME NEW u \in Timeouts, pc'[u] \in Added
        PROVE  totalWeight'[u] <= TotalWeight(Signers')
    BY <1>1, <1>2, <1>3, <1>4, <2>1, <2>2, <2>3 DEF WeightsAreBounds
  <2> QED
    BY Zenon, <2>3 DEF WeightsAreBounds, TotalWeight, WeightUnits
<1>6. CASE ~VerifyAndAdd(t)
  <2>1. totalWeight' = totalWeight
    BY Zenon, <1>6 DEF AddTimeout, processTimeout, Process, SkipCompleted, TrackNewestQC, TrackPartialTC, NotifyPartialTC,
                TrackTC, Aggregate, BuildTC, ReportQC, ReportTC, processorVars
  <2>2. pc'[t] \in Added => pc[t] \in Added
    BY Zenon, <1>1, <1>6
       DEF AddTimeout, processTimeout, Process, SkipCompleted, TrackNewestQC, TrackPartialTC, NotifyPartialTC,
           TrackTC, Aggregate, BuildTC, ReportQC, ReportTC, Goto, TimeoutCollectorTypeOK
  <2>3. ASSUME NEW u \in Timeouts, pc'[u] \in Added
        PROVE  totalWeight'[u] <= TotalWeight(Signers')
    BY <1>1, <1>2, <1>3, <1>4, <2>1, <2>2, <2>3 DEF WeightsAreBounds
  <2> QED
    BY <2>3 DEF WeightsAreBounds, TotalWeight, WeightUnits
<1> QED
  BY Zenon, <1>5, <1>6

(* Thresholds are numbers.                                                 *)
LEMMA ThresholdsAreNumbers == QuorumThreshold \in Int /\ TimeoutThreshold \in Int
<1>1. TotalWeight(Replicas) \in Nat
  BY Zenon, TotalWeightProperties
<1> QED
  BY <1>1, QuorumThresholdProperty DEF QuorumThreshold, TimeoutThreshold, WeightThresholdToTimeout

(* Thresholds that have been reached stay reached.                         *)
LEMMA ThresholdsStayReached ==
    ASSUME NEW S \in SUBSET Replicas, NEW T \in SUBSET Replicas, TotalWeight(S) <= TotalWeight(T)
    PROVE  /\ IsQuorum(S) => IsQuorum(T)
           /\ CanTimeout(S) => CanTimeout(T)
<1>1. TotalWeight(S) \in Nat /\ TotalWeight(T) \in Nat
  BY Zenon, TotalWeightProperties
<1> QED
  BY <1>1, ThresholdsAreNumbers DEF IsQuorum, CanTimeout

(* A weight read earlier that reaches a threshold is enough.               *)
LEMMA WeightReachesThreshold ==
    ASSUME NEW S \in SUBSET Replicas, NEW w \in Nat, w <= TotalWeight(S)
    PROVE  /\ w >= QuorumThreshold => IsQuorum(S)
           /\ w >= TimeoutThreshold => CanTimeout(S)
<1>1. TotalWeight(S) \in Nat
  BY Zenon, TotalWeightProperties
<1> QED
  BY <1>1, ThresholdsAreNumbers DEF IsQuorum, CanTimeout

(* The partial TC is created by the one goroutine that flips its flag,     *)
(* with enough weight for it.                                              *)
LEMMA OnePartialTCStep ==
    ASSUME TimeoutCollectorInvariant, NEW t \in Timeouts, AddTimeout(t) \/ processTimeout(t)
    PROVE  OnePartialTC'
<1>1. /\ TimeoutCollectorTypeOK /\ OnePartialTC /\ WeightsAreBounds /\ NewestQCIsTracked
  BY Zenon DEF TimeoutCollectorInvariant
<1>2. \A u \in Timeouts \ {t} : pc'[u] = pc[u]
  BY Zenon, <1>1, OtherTasksWait
<1>3. /\ Signers \in SUBSET Replicas
      /\ CanTimeout(Signers) => CanTimeout(Signers')
  BY Zenon, <1>1, SignersGrow, ThresholdsStayReached
<1> DEFINE Reached == CanTimeout(Signers')
<1>4. Reached => CanTimeout(Signers)'
  BY Zenon DEF CanTimeout, TotalWeight, WeightUnits
<1> HIDE DEF Reached
<1>5. CASE TrackPartialTC(t)
  <2> DEFINE first == totalWeight[t] >= TimeoutThreshold /\ ~partialDone
  <2>1. /\ pc[t] = "partial" /\ partialTCs' = partialTCs
        /\ partialDone' = (partialDone \/ first)
        /\ pc'[t] = IF first THEN "notify" ELSE "tc"
    BY Zenon, <1>1, <1>5 DEF TrackPartialTC, Goto, TimeoutCollectorTypeOK
  <2>2. first => CanTimeout(Signers)
    <3>1. totalWeight[t] <= TotalWeight(Signers) /\ totalWeight[t] \in Nat
      BY <1>1, <2>1 DEF WeightsAreBounds, TimeoutCollectorTypeOK, Added
    <3> QED
      BY Zenon, <1>3, <3>1, WeightReachesThreshold
  <2>3. CASE first
    <3>1. partialTCs = <<>> /\ \A u \in Timeouts : pc[u] # "notify"
      BY Zenon, <1>1, <2>3 DEF OnePartialTC
    <3>2. pc'[t] = "notify" /\ partialDone' /\ Reached
      BY Zenon, <1>3, <2>1, <2>2, <2>3 DEF Reached
    <3> QED
      BY Zenon, <1>2, <1>4, <2>1, <3>1, <3>2 DEF OnePartialTC
  <2>4. CASE ~first
    <3>1. pc'[t] = "tc" /\ (partialDone => partialDone')
      BY Zenon, <2>1, <2>4
    <3>2. (\E u \in Timeouts : pc'[u] = "notify") => \E u \in Timeouts : pc[u] = "notify"
      BY Zenon, <1>2, <3>1
    <3> QED
      BY Zenon, <1>1, <1>2, <1>3, <1>4, <2>1, <3>1, <3>2 DEF OnePartialTC, Justified, Reached
  <2> QED
    BY Zenon, <2>3, <2>4
<1>6. CASE NotifyPartialTC(t)
  <2> DEFINE ptc == [NewestQC |-> newestQC, LastViewTC |-> t.LastViewTC]
  <2>1. /\ pc[t] = "notify" /\ partialTCs = <<>> /\ partialTCs' = Append(partialTCs, ptc)
        /\ partialDone' = partialDone
        /\ pc'[t] = "tc"
    BY Zenon, <1>1, <1>6 DEF NotifyPartialTC, Goto, TimeoutCollectorTypeOK, OnePartialTC, processorVars
  <2>2. partialTCs' = <<ptc>>
    BY <2>1
  <2>3. \A u \in Timeouts : pc'[u] # "notify"
    BY Zenon, <1>1, <1>2, <2>1 DEF OnePartialTC
  <2>4. partialDone /\ Reached
    BY Zenon, <1>1, <1>3, <2>1 DEF OnePartialTC, Reached
  <2>5. Justified(ptc)
    <3>1. /\ newestQC # Nil /\ newestQC.Valid /\ t.NewestQC.View <= newestQC.View
          /\ validateTimeout(t)
      BY Zenon, <1>1, <2>1 DEF NewestQCIsTracked, Validated, Tracked, Added
    <3>2. newestQC.View \in 0 .. View - 1 /\ t.NewestQC.View \in 0 .. View - 1 /\ View \in Nat
      BY Zenon, <1>1, <3>1, TimeoutFacts, TimeoutsAssumption DEF TimeoutCollectorTypeOK, QCs
    <3>3. CASE t.LastViewTC = Nil
      <4>1. t.NewestQC.View + 1 = View
        BY Zenon, <3>3, TimeoutsAssumption
      <4>2. newestQC.View + 1 = View
        BY <3>1, <3>2, <4>1
      <4> QED
        BY Zenon, <3>1, <3>3, <4>2 DEF Justified
    <3>4. CASE t.LastViewTC # Nil
      <4>1. t.LastViewTC.NewestQC.View <= t.NewestQC.View /\ t.LastViewTC.Valid
        BY Zenon, <3>1, <3>4, TimeoutsAssumption DEF validateTimeout
      <4>2. t.LastViewTC.NewestQC.View \in Int
        BY <3>4, TimeoutFacts DEF TCs, QCs
      <4>3. t.LastViewTC.NewestQC.View <= newestQC.View
        BY <3>1, <3>2, <4>1, <4>2
      <4> QED
        BY Zenon, <3>1, <3>4, <4>1, <4>3 DEF Justified
    <3> QED
      BY Zenon, <3>3, <3>4
  <2> HIDE DEF ptc
  <2>6. partialTCs'[1] = ptc
    BY Zenon, <2>2
  <2> QED
    BY Zenon, <1>4, <2>1, <2>2, <2>3, <2>4, <2>5, <2>6 DEF OnePartialTC, Justified
<1>7. CASE ~TrackPartialTC(t) /\ ~NotifyPartialTC(t)
  <2>1. UNCHANGED <<partialTCs, partialDone>>
    BY Zenon, <1>7 DEF AddTimeout, processTimeout, Process, SkipCompleted, TrackNewestQC, VerifyAndAdd, TrackTC,
                Aggregate, BuildTC, ReportQC, ReportTC, processorVars
  <2>2. pc'[t] # "notify"
    BY Zenon, <1>1, <1>7
       DEF AddTimeout, processTimeout, Process, SkipCompleted, TrackNewestQC, VerifyAndAdd, TrackTC,
           Aggregate, BuildTC, ReportQC, ReportTC, Goto, TimeoutCollectorTypeOK
  <2>3. (\E u \in Timeouts : pc'[u] = "notify") => \E u \in Timeouts : pc[u] = "notify"
    BY Zenon, <1>2, <2>2
  <2> QED
    BY Zenon, <1>1, <1>2, <1>3, <1>4, <2>1, <2>2, <2>3 DEF OnePartialTC, Justified, Reached
<1> QED
  BY Zenon, <1>5, <1>6, <1>7
(* The TC is created by the one goroutine that flips its flag, with enough *)
(* weight and the newest QC of all timeouts added.                         *)
LEMMA OneTCStep ==
    ASSUME TimeoutCollectorInvariant, NEW t \in Timeouts, AddTimeout(t) \/ processTimeout(t)
    PROVE  OneTC'
<1> DEFINE Building == {"aggregate", "build"}
<1>1. /\ TimeoutCollectorTypeOK /\ OneTC /\ WeightsAreBounds /\ NewestQCIsTracked
  BY Zenon DEF TimeoutCollectorInvariant
<1>2. \A u \in Timeouts \ {t} : pc'[u] = pc[u]
  BY <1>1, OtherTasksWait
<1>3. /\ Signers \in SUBSET Replicas
      /\ IsQuorum(Signers) => IsQuorum(Signers')
  BY Zenon, <1>1, SignersGrow, ThresholdsStayReached
<1> DEFINE Reached == IsQuorum(Signers')
<1>4. Reached => IsQuorum(Signers)'
  BY DEF IsQuorum, TotalWeight, WeightUnits
<1> DEFINE Sound == SoundViews(signersData', newestQC')
           SoundTC == tcs'[1].NewestQC.Valid /\ SoundViews(tcs'[1].NewestQCViews, tcs'[1].NewestQC)
<1>5. Sound => SoundViews(signersData, newestQC)'
  BY Zenon DEF SoundViews, IsQuorum, TotalWeight, WeightUnits, Attested, validateTimeout
<1>6. SoundTC => (tcs[1].NewestQC.Valid /\ SoundViews(tcs[1].NewestQCViews, tcs[1].NewestQC))'
  BY Zenon DEF SoundViews, IsQuorum, TotalWeight, WeightUnits, Attested, validateTimeout
<1> HIDE DEF Reached, Sound, SoundTC
<1>7. SUFFICES /\ \A u \in Timeouts : pc'[u] \in Building => tcs' = <<>>
               /\ \A u, w \in Timeouts : pc'[u] \in Building /\ pc'[w] \in Building => u = w
               /\ (\E u \in Timeouts : pc'[u] \in Building) \/ tcs' # <<>> => tcDone' /\ Reached
               /\ (\E u \in Timeouts : pc'[u] = "build") => Sound
               /\ tcs' # <<>> => tcs' = <<tcs'[1]>> /\ SoundTC
  BY Zenon, <1>4, <1>5, <1>6 DEF OneTC
<1>8. CASE TrackTC(t)
  <2> DEFINE first == totalWeight[t] >= QuorumThreshold /\ ~tcDone
  <2>1. /\ pc[t] = "tc" /\ UNCHANGED <<tcs, signersData, newestQC>>
        /\ tcDone' = (tcDone \/ first)
        /\ pc'[t] = IF first THEN "aggregate" ELSE "reportQC"
    BY Zenon, <1>1, <1>8 DEF TrackTC, Goto, TimeoutCollectorTypeOK
  <2>2. first => IsQuorum(Signers)
    <3>1. totalWeight[t] <= TotalWeight(Signers) /\ totalWeight[t] \in Nat
      BY <1>1, <2>1 DEF WeightsAreBounds, TimeoutCollectorTypeOK, Added
    <3> QED
      BY Zenon, <1>3, <3>1, WeightReachesThreshold
  <2>3. CASE first
    <3>1. tcs = <<>> /\ \A u \in Timeouts : pc[u] \notin Building
      BY Zenon, <1>1, <2>3 DEF OneTC
    <3>2. pc'[t] = "aggregate" /\ tcDone' /\ Reached
      BY Zenon, <1>3, <2>1, <2>2, <2>3 DEF Reached
    <3> QED
      BY Zenon, <1>2, <2>1, <3>1, <3>2
  <2>4. CASE ~first
    <3>1. pc'[t] = "reportQC" /\ (tcDone => tcDone')
      BY Zenon, <2>1, <2>4
    <3>2. /\ (\E u \in Timeouts : pc'[u] \in Building) => \E u \in Timeouts : pc[u] \in Building
          /\ (\E u \in Timeouts : pc'[u] = "build") => \E u \in Timeouts : pc[u] = "build"
      BY Zenon, <1>2, <3>1
    <3> QED
      BY Zenon, <1>1, <1>2, <1>3, <2>1, <3>1, <3>2 DEF OneTC, Reached, Sound, SoundTC
  <2> QED
    BY Zenon, <2>3, <2>4
<1>9. CASE Aggregate(t)
  <2>1. /\ pc[t] = "aggregate" /\ pc'[t] = "build" /\ UNCHANGED <<tcs, tcDone, newestQC>>
        /\ signersData' = [r \in Signers |-> signatures[r]]
    BY Zenon, <1>1, <1>9 DEF Aggregate, Goto, TimeoutCollectorTypeOK
  <2>2. tcs = <<>> /\ tcDone /\ IsQuorum(Signers)
    BY Zenon, <1>1, <2>1 DEF OneTC
  <2>3. DOMAIN signersData' = Signers /\ \A r \in Signers : signersData'[r] = signatures[r]
    BY Zenon, <2>1
  <2>4. Sound
    BY Zenon, <1>1, <1>3, <2>1, <2>2, <2>3 DEF Sound, SoundViews, NewestQCIsTracked
  <2>5. \A u, w \in Timeouts : pc'[u] \in Building /\ pc'[w] \in Building => u = w
    BY Zenon, <1>1, <1>2, <2>1 DEF OneTC
  <2> QED
    BY Zenon, <1>3, <2>1, <2>2, <2>4, <2>5 DEF Reached
<1>10. CASE BuildTC(t)
  <2> DEFINE tc == [NewestQC |-> newestQC, NewestQCViews |-> signersData]
  <2>1. /\ pc[t] = "build" /\ tcs = <<>> /\ tcDone /\ IsQuorum(Signers)
        /\ SoundViews(signersData, newestQC)
    BY Zenon, <1>1, <1>10 DEF OneTC, BuildTC
  <2>2. tcs' = Append(tcs, tc) /\ pc'[t] = "reportQC" /\ tcDone' = tcDone
    BY Zenon, <1>1, <1>10, <2>1 DEF BuildTC, SoundViews, Goto, TimeoutCollectorTypeOK, processorVars
  <2>3. newestQC.Valid
    BY Zenon, <1>1, <2>1 DEF NewestQCIsTracked, Tracked, Added
  <2>4. tc.NewestQC.Valid /\ SoundViews(tc.NewestQCViews, tc.NewestQC)
    BY Zenon, <2>1, <2>3
  <2>5. \A u \in Timeouts : pc'[u] \notin Building
    BY Zenon, <1>1, <1>2, <2>1, <2>2 DEF OneTC
  <2> HIDE DEF tc
  <2>6. tcs' = <<tc>> /\ tcs'[1] = tc
    BY <2>1, <2>2
  <2> QED
    BY Zenon, <1>3, <2>1, <2>2, <2>4, <2>5, <2>6 DEF Reached, SoundTC
<1>11. CASE ~TrackTC(t) /\ ~Aggregate(t) /\ ~BuildTC(t)
  <2>1. UNCHANGED <<tcs, tcDone, signersData>>
    BY Zenon, <1>11 DEF AddTimeout, processTimeout, Process, SkipCompleted, TrackNewestQC, VerifyAndAdd, TrackPartialTC,
                 NotifyPartialTC, ReportQC, ReportTC, processorVars
  <2>2. pc'[t] \notin Building
    BY Zenon, <1>1, <1>11
       DEF AddTimeout, processTimeout, Process, SkipCompleted, TrackNewestQC, VerifyAndAdd, TrackPartialTC,
           NotifyPartialTC, ReportQC, ReportTC, Goto, TimeoutCollectorTypeOK
  <2>3. /\ (\E u \in Timeouts : pc'[u] \in Building) => \E u \in Timeouts : pc[u] \in Building
        /\ (\E u \in Timeouts : pc'[u] = "build") => \E u \in Timeouts : pc[u] = "build"
    BY Zenon, <1>2, <2>2
  <2>4. (\E u \in Timeouts : pc[u] = "build") => Sound
    <3> SUFFICES ASSUME NEW u \in Timeouts, pc[u] = "build" PROVE Sound
      BY Zenon
    <3>1. SoundViews(signersData, newestQC)
      BY Zenon, <1>1 DEF OneTC
    <3>2. newestQC # Nil
      BY Zenon, <1>1 DEF NewestQCIsTracked, Tracked, Added
    <3>3. /\ newestQC.View \in Int /\ newestQC'.View \in Int
          /\ newestQC.View <= newestQC'.View
      BY <1>1, <3>2, TrackerGrows DEF TimeoutCollectorTypeOK, QCs
    <3>4. ASSUME NEW r \in DOMAIN signersData PROVE signersData[r] <= newestQC'.View
      <4>1. signersData[r] <= newestQC.View /\ signersData[r] \in Int
        BY <3>1, TimeoutFacts DEF SoundViews, Attested
      <4> QED
        BY <3>3, <4>1
    <3> QED
      BY Zenon, <2>1, <3>1, <3>4 DEF Sound, SoundViews
  <2> QED
    BY Zenon, <1>1, <1>2, <1>3, <2>1, <2>2, <2>3, <2>4 DEF OneTC, Reached, SoundTC
<1> QED
  BY Zenon, <1>8, <1>9, <1>10, <1>11

(***************************************************************************)
(* The inductive invariant holds in all reachable states.                  *)
(***************************************************************************)
THEOREM TimeoutCollectorInvariantHolds ==
    TimeoutCollectorSpec => []TimeoutCollectorInvariant
<1>1. TimeoutCollectorInit => TimeoutCollectorInvariant
  <2> SUFFICES ASSUME TimeoutCollectorInit PROVE TimeoutCollectorInvariant
    BY Zenon
  <2>1. Signers = {}
    BY Zenon DEF TimeoutCollectorInit, Signers
  <2>2. TimeoutCollectorTypeOK
    <3>1. TotalWeight(Replicas) \in Nat
      BY Zenon, TotalWeightProperties
    <3>2. 0 \in 0 .. TotalWeight(Replicas) /\ 0 \in 0 .. View - 1
      BY <3>1, TimeoutsAssumption
    <3> QED
      BY Zenon, <3>2 DEF TimeoutCollectorInit, TimeoutCollectorTypeOK
  <2> QED
    BY Zenon, <2>1, <2>2
       DEF TimeoutCollectorInit, TimeoutCollectorInvariant, NoDuplicates, NewestQCIsTracked,
           WeightsAreBounds, OnePartialTC, OneTC, Validated, Tracked, Added
<1>2. TimeoutCollectorInvariant /\ [TimeoutCollectorNext]_tocVars => TimeoutCollectorInvariant'
  <2>1. ASSUME TimeoutCollectorInvariant, NEW t \in Timeouts, AddTimeout(t) \/ processTimeout(t)
        PROVE  TimeoutCollectorInvariant'
    BY Zenon, <2>1, TimeoutCollectorTypeStep, NoDuplicatesStep, NewestQCIsTrackedStep,
       WeightsAreBoundsStep, OnePartialTCStep, OneTCStep
       DEF TimeoutCollectorInvariant
  <2>2. ASSUME TimeoutCollectorInvariant, UNCHANGED tocVars
        PROVE  TimeoutCollectorInvariant'
    BY Zenon, <2>2
       DEF tocVars, processorVars, reportVars, TimeoutCollectorInvariant, TimeoutCollectorTypeOK,
           NoDuplicates, NewestQCIsTracked, WeightsAreBounds, OnePartialTC, OneTC, Signers,
           Validated, Tracked, Added
  <2> QED
    BY Zenon, <2>1, <2>2 DEF TimeoutCollectorNext
<1> QED
  BY <1>1, <1>2, PTL DEF TimeoutCollectorSpec

(***************************************************************************)
(* Every TC has a quorum of signers, attests the views they signed and     *)
(* carries a valid QC as new as all of them (TCsAreValid).                 *)
(***************************************************************************)
THEOREM CollectorCreatesValidTCs == TimeoutCollectorSpec => []TCsAreValid
<1>1. TimeoutCollectorInvariant => TCsAreValid
  <2> SUFFICES ASSUME TimeoutCollectorInvariant PROVE TCsAreValid
    BY Zenon
  <2>1. CASE tcs = <<>>
    BY <2>1 DEF TCsAreValid
  <2>2. CASE tcs # <<>>
    <3>1. /\ tcs = <<tcs[1]>> /\ tcs[1].NewestQC.Valid
          /\ SoundViews(tcs[1].NewestQCViews, tcs[1].NewestQC)
      BY Zenon, <2>2 DEF TimeoutCollectorInvariant, OneTC
    <3>2. DOMAIN tcs = {1}
      BY <3>1
    <3> QED
      BY <3>1, <3>2 DEF TCsAreValid, SoundViews, Attested
  <2> QED
    BY Zenon, <2>1, <2>2
<1> QED
  BY <1>1, TimeoutCollectorInvariantHolds, PTL

(***************************************************************************)
(* A partial TC hands over valid evidence for the view, after timeouts of  *)
(* enough weight (PartialTCsAreJustified).                                 *)
(***************************************************************************)
THEOREM CollectorJustifiesPartialTCs == TimeoutCollectorSpec => []PartialTCsAreJustified
<1>1. TimeoutCollectorInvariant => PartialTCsAreJustified
  <2> SUFFICES ASSUME TimeoutCollectorInvariant PROVE PartialTCsAreJustified
    OBVIOUS
  <2>1. CASE partialTCs = <<>>
    BY <2>1 DEF PartialTCsAreJustified
  <2>2. CASE partialTCs # <<>>
    <3>1. /\ partialTCs = <<partialTCs[1]>> /\ Justified(partialTCs[1])
          /\ CanTimeout(Signers)
      BY Zenon, <2>2 DEF TimeoutCollectorInvariant, OnePartialTC
    <3>2. DOMAIN partialTCs = {1}
      BY <3>1
    <3> QED
      BY Zenon, <3>1, <3>2 DEF PartialTCsAreJustified, Justified
  <2> QED
    BY <2>1, <2>2
<1> QED
  BY <1>1, TimeoutCollectorInvariantHolds, PTL

(***************************************************************************)
(* The partial TC and the TC are created at most once (OneTimeEvents).     *)
(***************************************************************************)
THEOREM CollectorEventsHappenOnce == TimeoutCollectorSpec => []OneTimeEvents
<1>1. TimeoutCollectorInvariant => OneTimeEvents
  <2> SUFFICES ASSUME TimeoutCollectorInvariant PROVE Len(partialTCs) <= 1 /\ Len(tcs) <= 1
    BY Zenon DEF OneTimeEvents
  <2>1. Len(partialTCs) <= 1
    <3>1. partialTCs = <<>> \/ partialTCs = <<partialTCs[1]>>
      BY Zenon DEF TimeoutCollectorInvariant, OnePartialTC
    <3> QED
      BY <3>1
  <2>2. Len(tcs) <= 1
    <3>1. tcs = <<>> \/ tcs = <<tcs[1]>>
      BY Zenon DEF TimeoutCollectorInvariant, OneTC
    <3> QED
      BY <3>1
  <2> QED
    BY Zenon, <2>1, <2>2
<1> QED
  BY <1>1, TimeoutCollectorInvariantHolds, PTL

(***************************************************************************)
(* Processing timeouts never fails with a DuplicatedSignerError or a TC    *)
(* that NewTimeoutCertificate refuses (NoInternalError).                   *)
(***************************************************************************)
THEOREM CollectorNeverFails == TimeoutCollectorSpec => []NoInternalError
<1>1. TimeoutCollectorInvariant => NoInternalError
  BY Zenon DEF TimeoutCollectorInvariant, NoDuplicates, NoInternalError
<1> QED
  BY <1>1, TimeoutCollectorInvariantHolds, PTL

-----------------------------------------------------------------------------
(***************************************************************************)
(* The job consumer.                                                       *)
(***************************************************************************)
JobStatus == {"absent", "processing", "done"}
GoroutineStatus == {"none", "working", "notifying"}

(* A nonempty set of natural numbers has a smallest element.               *)
LEMMA SmallestElement ==
    ASSUME NEW S \in SUBSET Nat, S # {}
    PROVE  \E n \in S : \A k \in S : n <= k
<1>1. PICK n \in S : \A k \in S : ~(<<k, n>> \in OpToRel(<, Nat))
  BY Zenon, NatLessThanWellFounded, WFMin
<1>2. ASSUME NEW k \in S PROVE n <= k
  <2>1. ~(k < n)
    BY Zenon, <1>1 DEF OpToRel
  <2>. QED BY <2>1
<1>. QED BY Zenon, <1>1, <1>2

\* All jobs after index from up to n are done, and the next one is not.
IsProcessedTo(status, from, n) ==
    /\ n \in from .. MaxJobs
    /\ \A k \in from + 1 .. n : status[k] = "done"
    /\ n + 1 \in Jobs => status[n + 1] # "done"

(* processableJobs finds such an index.                                    *)
LEMMA ProcessedToIsDefined ==
    ASSUME processedIndex \in 0 .. MaxJobs, NEW status
    PROVE  IsProcessedTo(status, processedIndex, processedTo(status))
<1> DEFINE S == {n \in processedIndex .. MaxJobs : n + 1 \in Jobs => status[n + 1] # "done"}
<1>1. MaxJobs \in Nat /\ processedIndex \in Nat /\ processedIndex <= MaxJobs
  BY JobQueueAssumption
<1>2. S \in SUBSET Nat
  BY <1>1
<1>3. MaxJobs \in S
  BY <1>1 DEF Jobs
<1>4. PICK n \in S : \A k \in S : n <= k
  <2>. HIDE DEF S
  <2>. QED BY Zenon, <1>2, <1>3, SmallestElement
<1>5. ASSUME NEW k \in processedIndex + 1 .. n PROVE status[k] = "done"
  <2>1. k - 1 \notin S
    BY <1>1, <1>4
  <2>2. k - 1 \in processedIndex .. MaxJobs /\ (k - 1) + 1 = k
    BY <1>1, <1>4
  <2>. QED BY Zenon, <2>1, <2>2
<1>6. IsProcessedTo(status, processedIndex, n)
  BY Zenon, <1>1, <1>4, <1>5 DEF IsProcessedTo
<1>. QED BY Zenon, <1>6 DEF IsProcessedTo, processedTo

(* There is only one such index.                                           *)
LEMMA ProcessedToIsUnique ==
    ASSUME NEW from \in 0 .. MaxJobs, NEW status, NEW m, NEW n,
           IsProcessedTo(status, from, m), IsProcessedTo(status, from, n)
    PROVE  m = n
<1>1. MaxJobs \in Nat /\ from \in Nat
  BY JobQueueAssumption
<1>2. m \in Nat /\ n \in Nat /\ m <= MaxJobs /\ n <= MaxJobs /\ from <= m /\ from <= n
  BY <1>1 DEF IsProcessedTo
<1>3. ASSUME m < n PROVE FALSE
  <2>1. m + 1 \in from + 1 .. n /\ m + 1 \in Jobs
    BY <1>1, <1>2, <1>3 DEF Jobs
  <2>. QED BY Zenon, <2>1 DEF IsProcessedTo
<1>4. ASSUME n < m PROVE FALSE
  <2>1. n + 1 \in from + 1 .. m /\ n + 1 \in Jobs
    BY <1>1, <1>2, <1>4 DEF Jobs
  <2>. QED BY Zenon, <2>1 DEF IsProcessedTo
<1>. QED BY <1>2, <1>3, <1>4

(* The more jobs are done, the higher is the index.                        *)
LEMMA ProcessedToIsMonotone ==
    ASSUME NEW from \in 0 .. MaxJobs, NEW s, NEW t, NEW m, NEW n,
           \A k \in Jobs : s[k] = "done" => t[k] = "done",
           IsProcessedTo(s, from, m), IsProcessedTo(t, from, n)
    PROVE  m <= n
<1>1. MaxJobs \in Nat /\ from \in Nat
  BY JobQueueAssumption
<1>2. m \in Nat /\ n \in Nat /\ m <= MaxJobs /\ n <= MaxJobs /\ from <= m /\ from <= n
  BY <1>1 DEF IsProcessedTo
<1>3. ASSUME n < m PROVE FALSE
  <2>1. n + 1 \in from + 1 .. m /\ n + 1 \in Jobs
    BY <1>1, <1>2, <1>3 DEF Jobs
  <2>. QED BY Zenon, <2>1 DEF IsProcessedTo
<1>. QED BY <1>2, <1>3

(***************************************************************************)
(* The inductive invariant, as a predicate on the status of the jobs, the  *)
(* status of their goroutines, the processed index, the number of jobs and *)
(* the finished jobs.  It adds to the properties: what is done or covered  *)
(* by the index is finished; and at most MaxProcessing - 1 jobs that are   *)
(* not done precede a running one, from which the limit follows because    *)
(* all other running jobs precede the last running one.                    *)
(***************************************************************************)
NotDoneBefore(status, index, i) == {k \in index + 1 .. i - 1 : status[k] # "done"}

WellFormed(status, goroutines, index, jobs, fin) ==
    /\ index \in 0 .. jobs /\ jobs \in 0 .. MaxJobs
    /\ status \in [Jobs -> JobStatus]
    /\ goroutines \in [Jobs -> GoroutineStatus]
    /\ fin \subseteq 1 .. jobs
    /\ 1 .. index \subseteq fin
    /\ \A i \in Jobs :
         /\ status[i] # "absent" => i \in index + 1 .. jobs
         /\ status[i] = "processing" <=> goroutines[i] # "none"
         /\ status[i] = "done" => i \in fin
         /\ goroutines[i] = "notifying" => i \in fin

WithinLimits(status, goroutines, index) ==
    \A i \in Jobs : goroutines[i] # "none" =>
        /\ Cardinality(NotDoneBefore(status, index, i)) < MaxProcessing
        /\ \A n : IsProcessedTo(status, index, n) => ~shouldPause(i, n)

JobQueueInvariant ==
    /\ WellFormed(processings, job, processedIndex, head, finished)
    /\ WithinLimits(processings, job, processedIndex)
    /\ progress = processedIndex
    /\ started \in BOOLEAN /\ running \in BOOLEAN /\ isChecking \in BOOLEAN
    /\ skipped \in BOOLEAN
    /\ mu \in Publishers \cup {Nobody}
    /\ publisher \in [Publishers -> {"idle", "check", "lock", "unlock"}]

(* checkProcessable keeps the status of the jobs and their goroutines well *)
(* formed and within the limits, whether it succeeds, fails to read a job  *)
(* or fails to persist the index, and moves the index over finished jobs.  *)
LEMMA CheckProcessableIsSafe ==
    ASSUME NEW status, NEW goroutines, NEW isRunning, NEW fin,
           WellFormed(status, goroutines, processedIndex, head, fin),
           WithinLimits(status, goroutines, processedIndex),
           progress = processedIndex,
           checkProcessable(status, goroutines, isRunning)
    PROVE  /\ WellFormed(processings', job', processedIndex', head, fin)
           /\ WithinLimits(processings', job', processedIndex')
           /\ progress' = processedIndex'
           /\ progress' \in progress .. head
           /\ 1 .. progress' \subseteq fin
           /\ skipped' \in BOOLEAN
<1> DEFINE index == processedTo(status)
           new   == IF isRunning THEN processable(status) ELSE {}
           added == [i \in Jobs |-> IF i \in new THEN "processing" ELSE status[i]]
           startedJobs == [i \in Jobs |-> IF i \in new THEN "working" ELSE goroutines[i]]
<1>1. /\ MaxJobs \in Nat /\ processedIndex \in Nat /\ head \in Nat
      /\ processedIndex <= head /\ head <= MaxJobs
      /\ processedIndex \in 0 .. MaxJobs
  BY JobQueueAssumption DEF WellFormed
<1>2. IsProcessedTo(status, processedIndex, index)
  BY Zenon, <1>1, ProcessedToIsDefined
<1>3. /\ index \in Nat /\ processedIndex <= index /\ index <= head
      /\ \A k \in processedIndex + 1 .. index : status[k] = "done" /\ k \in fin
      /\ index + 1 \in Jobs => status[index + 1] # "done"
  <2>1. index \in Nat /\ processedIndex <= index /\ index <= MaxJobs
    BY <1>1, <1>2 DEF IsProcessedTo
  <2>2. \A k \in processedIndex + 1 .. index : k \in Jobs /\ status[k] = "done"
    BY <1>1, <1>2, <2>1 DEF IsProcessedTo, Jobs
  <2>3. index + 1 \in Jobs => status[index + 1] # "done"
    BY Zenon, <1>2 DEF IsProcessedTo
  <2>4. \A k \in processedIndex + 1 .. index : k \in fin
    BY Zenon, <2>2 DEF WellFormed
  <2>5. index <= head
    <3>1. CASE index = processedIndex
      BY Zenon, <1>1, <3>1
    <3>2. CASE index # processedIndex
      <4>1. index \in processedIndex + 1 .. index
        BY <1>1, <2>1, <3>2
      <4>2. index \in fin
        BY Zenon, <4>1, <2>4
      <4>3. fin \subseteq 1 .. head
        BY Zenon DEF WellFormed
      <4>. QED BY <4>2, <4>3, <1>1, <2>1
    <3>. QED BY Zenon, <3>1, <3>2
  <2>. QED BY Zenon, <2>1, <2>2, <2>3, <2>4, <2>5
<1>4. 1 .. index \subseteq fin
  <2>1. ASSUME NEW k \in 1 .. index PROVE k \in fin
    <3>1. CASE k <= processedIndex
      BY <1>1, <1>3, <3>1 DEF WellFormed
    <3>2. CASE k > processedIndex
      <4>1. k \in processedIndex + 1 .. index
        BY <1>1, <1>3, <3>2
      <4>. QED BY Zenon, <4>1, <1>3
    <3>. QED BY SMTT(30), <1>1, <1>3, <3>1, <3>2
  <2>. QED BY Zenon, <2>1
<1>5. \A i \in new : /\ i \in Jobs /\ i \in index + 1 .. head /\ status[i] = "absent"
                     /\ ~shouldPause(i, index)
                     /\ Cardinality(NotDoneBefore(status, index, i)) < MaxProcessing
  BY <1>1, <1>3 DEF processable, NotDoneBefore, Jobs
<1>6. /\ added \in [Jobs -> JobStatus] /\ startedJobs \in [Jobs -> GoroutineStatus]
      /\ \A k \in Jobs : added[k] = "done" <=> status[k] = "done"
  BY Zenon, <1>5 DEF WellFormed, JobStatus, GoroutineStatus
<1>7. WellFormed(added, startedJobs, processedIndex, head, fin)
  <2>1. ASSUME NEW i \in Jobs
        PROVE  /\ added[i] # "absent" => i \in processedIndex + 1 .. head
               /\ added[i] = "processing" <=> startedJobs[i] # "none"
               /\ added[i] = "done" => i \in fin
               /\ startedJobs[i] = "notifying" => i \in fin
    <3>1. CASE i \in new
      <4>1. i \in processedIndex + 1 .. head
        BY <1>1, <1>3, <1>5, <3>1
      <4>. QED BY Zenon, <3>1, <4>1
    <3>2. CASE i \notin new
      BY Zenon, <3>2 DEF WellFormed
    <3>. QED BY Zenon, <3>1, <3>2
  <2>. QED BY Zenon, <2>1, <1>6 DEF WellFormed
<1>8. ASSUME NEW i \in Jobs, startedJobs[i] # "none"
      PROVE  /\ ~shouldPause(i, index)
             /\ Cardinality(NotDoneBefore(status, index, i)) < MaxProcessing
  <2>1. CASE i \in new
    BY Zenon, <1>5, <2>1
  <2>2. CASE i \notin new
    <3>1. goroutines[i] # "none"
      BY Zenon, <1>8, <2>2
    <3>2. NotDoneBefore(status, processedIndex, i) = NotDoneBefore(status, index, i)
      BY SMTT(30), <1>1, <1>3 DEF NotDoneBefore, Jobs
    <3>. QED BY Zenon, <1>2, <3>1, <3>2 DEF WithinLimits
  <2>. QED BY Zenon, <2>1, <2>2
<1>9. WithinLimits(added, startedJobs, processedIndex)
  <2>1. IsProcessedTo(added, processedIndex, index)
    <3>1. \A k \in processedIndex + 1 .. index : k \in Jobs
      BY <1>1, <1>3 DEF Jobs
    <3>. QED BY Zenon, <1>1, <1>2, <1>6, <3>1 DEF IsProcessedTo
  <2>2. ASSUME NEW i \in Jobs
        PROVE  NotDoneBefore(added, processedIndex, i) = NotDoneBefore(status, index, i)
    <3>1. \A k \in processedIndex + 1 .. i - 1 : k \in Jobs
      BY <1>1 DEF Jobs
    <3>. QED BY <1>1, <1>3, <1>6, <3>1 DEF NotDoneBefore, Jobs
  <2>3. \A n : IsProcessedTo(added, processedIndex, n) => n = index
    BY Zenon, <1>1, <2>1, ProcessedToIsUnique
  <2>. HIDE DEF added, startedJobs, index
  <2>. QED BY Zenon, <1>8, <2>2, <2>3 DEF WithinLimits
<1> DEFINE cleared == Cleared(added, index)
<1>10. /\ cleared \in [Jobs -> JobStatus]
       /\ \A k \in Jobs : cleared[k] = IF k <= index THEN "absent" ELSE added[k]
  <2>1. cleared = [k \in Jobs |-> IF k \in processedIndex + 1 .. index THEN "absent"
                                                                     ELSE added[k]]
    BY Zenon DEF Cleared
  <2>2. ASSUME NEW k \in Jobs, k <= processedIndex PROVE added[k] = "absent"
    <3>1. k \notin processedIndex + 1 .. head
      BY <1>1, <2>2 DEF Jobs
    <3>. QED BY Zenon, <1>7, <3>1 DEF WellFormed
  <2>3. \A k \in Jobs : k <= index /\ k \notin processedIndex + 1 .. index => k <= processedIndex
    BY <1>1, <1>3 DEF Jobs
  <2>4. \A k \in Jobs : k \in processedIndex + 1 .. index => k <= index
    BY <1>1, <1>3 DEF Jobs
  <2>. HIDE DEF added, index
  <2>. QED BY Zenon, <1>6, <2>1, <2>2, <2>3, <2>4 DEF JobStatus
<1>11. WellFormed(cleared, startedJobs, index, head, fin)
  <2>1. ASSUME NEW i \in Jobs
        PROVE  /\ cleared[i] # "absent" => i \in index + 1 .. head
               /\ cleared[i] = "processing" <=> startedJobs[i] # "none"
               /\ cleared[i] = "done" => i \in fin
               /\ startedJobs[i] = "notifying" => i \in fin
    <3>1. CASE i <= index
      <4>1. startedJobs[i] = "none"
        <5>1. status[i] # "processing"
          <6>1. CASE i \in processedIndex + 1 .. index
            BY Zenon, <1>3, <6>1
          <6>2. CASE i \notin processedIndex + 1 .. index
            <7>1. i \notin processedIndex + 1 .. head
              BY SMTT(30), <1>1, <1>3, <3>1, <6>2 DEF Jobs
            <7>. QED BY Zenon, <7>1 DEF WellFormed
          <6>. QED BY Zenon, <6>1, <6>2
        <5>2. i \notin new
          BY SMTT(30), <1>1, <1>3, <1>5, <3>1 DEF Jobs
        <5>. QED BY Zenon, <5>1, <5>2 DEF WellFormed
      <4>. QED BY Zenon, <1>10, <3>1, <4>1
    <3>2. CASE ~(i <= index)
      <4>1. cleared[i] = added[i]
        BY Zenon, <1>10, <3>2
      <4>2. added[i] # "absent" => i \in index + 1 .. head
        <5>1. added[i] # "absent" => i \in processedIndex + 1 .. head
          BY Zenon, <1>7 DEF WellFormed
        <5>. QED BY SMTT(30), <1>1, <1>3, <3>2, <5>1 DEF Jobs
      <4>. QED BY Zenon, <1>7, <4>1, <4>2 DEF WellFormed
    <3>. QED BY Zenon, <3>1, <3>2
  <2>2. /\ index \in 0 .. head /\ head \in 0 .. MaxJobs
        /\ fin \subseteq 1 .. head
    BY SMTT(30), <1>1, <1>3 DEF WellFormed
  <2>. HIDE DEF cleared, startedJobs, index
  <2>. QED BY Zenon, <1>4, <1>6, <1>10, <2>1, <2>2 DEF WellFormed
<1>12. WithinLimits(cleared, startedJobs, index)
  <2>1. ASSUME NEW i \in Jobs
        PROVE  NotDoneBefore(cleared, index, i) = NotDoneBefore(status, index, i)
    <3>1. \A k \in index + 1 .. i - 1 : k \in Jobs /\ ~(k <= index)
      BY <1>1, <1>3 DEF Jobs
    <3>2. \A k \in index + 1 .. i - 1 : cleared[k] = "done" <=> status[k] = "done"
      BY Zenon, <1>6, <1>10, <3>1
    <3>. HIDE DEF cleared, index
    <3>. QED BY Zenon, <3>2 DEF NotDoneBefore
  <2>2. IsProcessedTo(cleared, index, index)
    <3>1. index + 1 \in Jobs => cleared[index + 1] # "done"
      <4>1. index + 1 \in Jobs => ~(index + 1 <= index)
        BY <1>3
      <4>. QED BY Zenon, <1>3, <1>6, <1>10, <4>1
    <3>2. index \in index .. MaxJobs /\ index + 1 .. index = {}
      BY <1>1, <1>3
    <3>. HIDE DEF cleared, index
    <3>. QED BY Zenon, <3>1, <3>2 DEF IsProcessedTo
  <2>3. \A n : IsProcessedTo(cleared, index, n) => n = index
    <3>1. index \in 0 .. MaxJobs
      BY <1>1, <1>3
    <3>. HIDE DEF cleared, index
    <3>. QED BY Zenon, <2>2, <3>1, ProcessedToIsUnique
  <2>. HIDE DEF cleared, startedJobs, index
  <2>. QED BY Zenon, <1>8, <2>1, <2>3 DEF WithinLimits
<1>13. \/ /\ job' = startedJobs /\ processings' = cleared
          /\ progress' = index /\ processedIndex' = index /\ skipped' = FALSE
       \/ /\ job' = startedJobs /\ processings' = added
          /\ progress' = progress /\ processedIndex' = processedIndex /\ skipped' = FALSE
       \/ /\ job' = goroutines /\ processings' = status
          /\ progress' = progress /\ processedIndex' = processedIndex /\ skipped' = TRUE
  BY Zenon DEF checkProcessable
<1>14. /\ progress \in progress .. head /\ index \in progress .. head
       /\ 1 .. progress \subseteq fin
  BY <1>1, <1>3 DEF WellFormed
<1>. HIDE DEF cleared, startedJobs, index, added
<1>. QED BY ZenonT(60), <1>4, <1>7, <1>9, <1>11, <1>12, <1>13, <1>14

(* A worker that reports its job keeps the limits: fewer jobs are not      *)
(* done, and the index does not move back.                                 *)
LEMMA DoneJobKeepsLimits ==
    ASSUME NEW i \in Jobs, job[i] = "notifying",
           WellFormed(processings, job, processedIndex, head, finished),
           WithinLimits(processings, job, processedIndex)
    PROVE  LET status     == [processings EXCEPT ![i] = "done"]
               goroutines == [job EXCEPT ![i] = "none"]
           IN  /\ WellFormed(status, goroutines, processedIndex, head, finished)
               /\ WithinLimits(status, goroutines, processedIndex)
<1> DEFINE status     == [processings EXCEPT ![i] = "done"]
           goroutines == [job EXCEPT ![i] = "none"]
<1>1. /\ MaxJobs \in Nat /\ MaxSearchAhead \in Nat /\ MaxProcessing \in Nat
      /\ processedIndex \in 0 .. MaxJobs
  BY JobQueueAssumption DEF WellFormed
<1>2. WellFormed(status, goroutines, processedIndex, head, finished)
  BY Zenon DEF WellFormed, JobStatus, GoroutineStatus
<1>3. ASSUME NEW j \in Jobs, goroutines[j] # "none"
      PROVE  Cardinality(NotDoneBefore(status, processedIndex, j)) < MaxProcessing
  <2>1. Cardinality(NotDoneBefore(processings, processedIndex, j)) < MaxProcessing
    BY Zenon, <1>3 DEF WithinLimits, WellFormed
  <2>2. NotDoneBefore(status, processedIndex, j)
           \subseteq NotDoneBefore(processings, processedIndex, j)
    <3>1. \A k \in processedIndex + 1 .. j - 1 : k \in Jobs
      BY <1>1 DEF Jobs
    <3>. QED BY Zenon, <3>1 DEF NotDoneBefore, WellFormed
  <2>3. IsFiniteSet(NotDoneBefore(processings, processedIndex, j))
    <3>1. IsFiniteSet(processedIndex + 1 .. j - 1)
      BY <1>1, FS_Interval DEF Jobs
    <3>2. NotDoneBefore(processings, processedIndex, j)
             \in SUBSET (processedIndex + 1 .. j - 1)
      BY Zenon DEF NotDoneBefore
    <3>. QED BY Zenon, <3>1, <3>2, FS_Subset
  <2>4. /\ IsFiniteSet(NotDoneBefore(status, processedIndex, j))
        /\ Cardinality(NotDoneBefore(status, processedIndex, j))
             <= Cardinality(NotDoneBefore(processings, processedIndex, j))
    BY Zenon, <2>2, <2>3, FS_Subset
  <2>5. /\ Cardinality(NotDoneBefore(processings, processedIndex, j)) \in Nat
        /\ Cardinality(NotDoneBefore(status, processedIndex, j)) \in Nat
    BY Zenon, <2>3, <2>4, FS_CardinalityType
  <2>. QED BY <1>1, <2>1, <2>4, <2>5
<1>4. ASSUME NEW j \in Jobs, goroutines[j] # "none",
             NEW n, IsProcessedTo(status, processedIndex, n)
      PROVE  ~shouldPause(j, n)
  <2> DEFINE m == processedTo(processings)
  <2>1. IsProcessedTo(processings, processedIndex, m)
    BY Zenon, <1>1, ProcessedToIsDefined
  <2>2. ~shouldPause(j, m)
    BY Zenon, <1>4, <2>1 DEF WithinLimits, WellFormed
  <2>3. \A k \in Jobs : processings[k] = "done" => status[k] = "done"
    BY Zenon DEF WellFormed
  <2>4. m <= n
    <3>. HIDE DEF m, status
    <3>. QED BY Zenon, <1>1, <1>4, <2>1, <2>3, ProcessedToIsMonotone
  <2>5. m \in Nat /\ n \in Nat /\ j \in Nat
    BY SMTT(30), <1>1, <1>4, <2>1 DEF IsProcessedTo, Jobs
  <2>. QED BY <1>1, <2>2, <2>4, <2>5 DEF shouldPause
<1>5. WithinLimits(status, goroutines, processedIndex)
  <2>. HIDE DEF status, goroutines
  <2>. QED BY Zenon, <1>3, <1>4 DEF WithinLimits
<1>. QED BY Zenon, <1>2, <1>5

(* The invariant holds initially.                                          *)
LEMMA JobQueueInvariantInit == JobQueueInit => JobQueueInvariant
<1>. SUFFICES ASSUME JobQueueInit PROVE JobQueueInvariant
  OBVIOUS
<1>1. WellFormed(processings, job, processedIndex, head, finished)
  BY JobQueueAssumption DEF JobQueueInit, WellFormed, NoProcessings, NoGoroutines,
     JobStatus, GoroutineStatus, Jobs
<1>2. WithinLimits(processings, job, processedIndex)
  BY Zenon DEF JobQueueInit, WithinLimits, NoGoroutines
<1>. QED BY Zenon, <1>1, <1>2 DEF JobQueueInit, JobQueueInvariant, Idle

(* Every step preserves the invariant, and is a step of AtLeastOnce.       *)
LEMMA JobQueueInvariantStep ==
    ASSUME JobQueueInvariant, JobQueueNext
    PROVE  /\ JobQueueInvariant'
           /\ [ALO!NewJob \/ ALO!FinishJob \/ ALO!Progress]_(ALO!aloVars)
<1> DEFINE AloStep == [ALO!NewJob \/ ALO!FinishJob \/ ALO!Progress]_(ALO!aloVars)
<1> USE DEF JobQueueInvariant
\* a step in which checkProcessable is called, with unchanged jobs and finished jobs
<1>1. ASSUME NEW status, NEW goroutines, NEW isRunning,
             WellFormed(status, goroutines, processedIndex, head, finished),
             WithinLimits(status, goroutines, processedIndex),
             checkProcessable(status, goroutines, isRunning),
             head' = head, finished' = finished
      PROVE  /\ WellFormed(processings', job', processedIndex', head', finished')
             /\ WithinLimits(processings', job', processedIndex')
             /\ progress' = processedIndex'
             /\ skipped' \in BOOLEAN
             /\ AloStep
  <2>1. /\ WellFormed(processings', job', processedIndex', head, finished)
        /\ WithinLimits(processings', job', processedIndex')
        /\ progress' = processedIndex'
        /\ progress' \in progress .. head
        /\ 1 .. progress' \subseteq finished
        /\ skipped' \in BOOLEAN
    BY Zenon, <1>1, CheckProcessableIsSafe
  <2>2. AloStep
    BY Zenon, <1>1, <2>1 DEF ALO!Progress
  <2>. QED BY Zenon, <1>1, <2>1, <2>2
\* a step that touches neither the jobs nor their status
<1>2. ASSUME UNCHANGED <<head, progress, processedIndex, processings, job, finished>>
      PROVE  /\ WellFormed(processings', job', processedIndex', head', finished')
             /\ WithinLimits(processings', job', processedIndex')
             /\ progress' = processedIndex'
             /\ AloStep
  BY Zenon, <1>2 DEF ALO!aloVars
<1>3. CASE Start
  <2>1. checkProcessable(processings, job, TRUE) /\ head' = head /\ finished' = finished
    BY Zenon, <1>3 DEF Start
  <2>. QED BY Zenon, <1>1, <1>3, <2>1 DEF Start
<1>4. CASE Stop
  BY Zenon, <1>2, <1>4 DEF Stop, disk
<1>5. CASE Down
  <2>1. /\ processings' = NoProcessings /\ job' = NoGoroutines
        /\ processedIndex' = progress /\ progress' = progress
        /\ head' = head /\ finished' = finished
    BY Zenon, <1>5 DEF Down, disk
  <2>2. WellFormed(processings', job', processedIndex', head', finished')
    BY Zenon, <2>1 DEF WellFormed, NoProcessings, NoGoroutines, JobStatus, GoroutineStatus
  <2>3. WithinLimits(processings', job', processedIndex')
    BY Zenon, <2>1 DEF WithinLimits, NoGoroutines
  <2>4. AloStep
    BY Zenon, <2>1 DEF ALO!aloVars
  <2>. QED BY Zenon, <1>5, <2>1, <2>2, <2>3, <2>4 DEF Down, Idle
<1>6. ASSUME NEW p \in Publishers, Publish(p)
      PROVE  JobQueueInvariant' /\ AloStep
  <2>1. /\ head' = head + 1 /\ head < MaxJobs
        /\ UNCHANGED <<progress, processedIndex, processings, job, finished>>
    BY Zenon, <1>6 DEF Publish, consumer
  <2>2. WellFormed(processings', job', processedIndex', head', finished')
    <3>1. MaxJobs \in Nat /\ head \in Nat /\ processedIndex \in Nat
      BY JobQueueAssumption DEF WellFormed
    <3>2. /\ head' \in 0 .. MaxJobs /\ 1 .. head \subseteq 1 .. head'
          /\ processedIndex + 1 .. head \subseteq processedIndex + 1 .. head'
          /\ processedIndex \in 0 .. head'
      BY <2>1, <3>1 DEF WellFormed
    <3>. QED BY Zenon, <2>1, <3>2 DEF WellFormed
  <2>3. AloStep
    BY Zenon, <2>1 DEF ALO!NewJob
  <2>. QED BY ZenonT(60), <1>6, <2>1, <2>2, <2>3 DEF Publish, consumer
<1>7. ASSUME NEW p \in Publishers, Check(p)
      PROVE  JobQueueInvariant' /\ AloStep
  <2>1. UNCHANGED <<head, progress, processedIndex, processings, job, finished>>
    BY Zenon, <1>7 DEF Check, disk
  <2>2. /\ UNCHANGED <<started, running, mu>> /\ isChecking' \in BOOLEAN
        /\ skipped' \in BOOLEAN
        /\ publisher' \in [Publishers -> {"idle", "check", "lock", "unlock"}]
    BY Zenon, <1>7 DEF Check
  <2>. QED BY Zenon, <1>2, <2>1, <2>2
<1>8. ASSUME NEW p \in Publishers, CheckLocked(p)
      PROVE  JobQueueInvariant' /\ AloStep
  <2>1. /\ checkProcessable(processings, job, running)
        /\ head' = head /\ finished' = finished
    BY Zenon, <1>8 DEF CheckLocked
  <2>2. /\ UNCHANGED <<started, running, isChecking>> /\ mu' = p
        /\ publisher' \in [Publishers -> {"idle", "check", "lock", "unlock"}]
    BY Zenon, <1>8 DEF CheckLocked
  <2>. QED BY Zenon, <1>1, <2>1, <2>2
<1>9. ASSUME NEW p \in Publishers, CheckUnlock(p)
      PROVE  JobQueueInvariant' /\ AloStep
  <2>1. UNCHANGED <<head, progress, processedIndex, processings, job, finished>>
    BY Zenon, <1>9 DEF CheckUnlock, disk
  <2>2. /\ UNCHANGED <<started, running, skipped>> /\ isChecking' = FALSE /\ mu' = Nobody
        /\ publisher' \in [Publishers -> {"idle", "check", "lock", "unlock"}]
    BY Zenon, <1>9 DEF CheckUnlock
  <2>. QED BY Zenon, <1>2, <2>1, <2>2
<1>10. ASSUME NEW i \in Jobs, FinishJob(i)
       PROVE  JobQueueInvariant' /\ AloStep
  <2>1. /\ job[i] = "working" /\ job' = [job EXCEPT ![i] = "notifying"]
        /\ finished' = finished \cup {i}
        /\ UNCHANGED <<head, progress, processedIndex, processings>>
    BY Zenon, <1>10 DEF FinishJob, disk, consumer
  <2>2. i \in 1 .. head
    <3>1. i \in processedIndex + 1 .. head
      BY Zenon, <2>1 DEF WellFormed
    <3>2. processedIndex \in Nat /\ head \in Nat
      BY JobQueueAssumption DEF WellFormed
    <3>. QED BY <3>1, <3>2
  <2>3. WellFormed(processings', job', processedIndex', head', finished')
    BY ZenonT(60), <2>1, <2>2 DEF WellFormed, GoroutineStatus
  <2>4. WithinLimits(processings', job', processedIndex')
    BY Zenon, <2>1 DEF WithinLimits, WellFormed
  <2>5. AloStep
    BY Zenon, <2>1, <2>2 DEF ALO!FinishJob
  <2>. QED BY Zenon, <1>10, <2>1, <2>3, <2>4, <2>5 DEF FinishJob, disk, consumer
<1>11. ASSUME NEW i \in Jobs, NotifyJobIsDone(i)
       PROVE  JobQueueInvariant' /\ AloStep
  <2> DEFINE status     == [processings EXCEPT ![i] = "done"]
             goroutines == [job EXCEPT ![i] = "none"]
  <2>1. /\ WellFormed(status, goroutines, processedIndex, head, finished)
        /\ WithinLimits(status, goroutines, processedIndex)
    BY Zenon, <1>11, DoneJobKeepsLimits DEF NotifyJobIsDone
  <2>2. /\ checkProcessable(status, goroutines, running)
        /\ head' = head /\ finished' = finished
        /\ UNCHANGED <<started, running, isChecking, mu, publisher>>
    BY Zenon, <1>11 DEF NotifyJobIsDone
  <2>. HIDE DEF status, goroutines
  <2>. QED BY Zenon, <1>1, <2>1, <2>2
<1>. QED BY ZenonT(60), <1>3, <1>4, <1>5, <1>6, <1>7, <1>8, <1>9, <1>10, <1>11
         DEF JobQueueNext, Callers

(* The inductive invariant holds in every reachable state.                 *)
THEOREM JobQueueInvariantHolds == JobQueueSpec => []JobQueueInvariant
<1>1. JobQueueInvariant /\ UNCHANGED jqVars => JobQueueInvariant'
  BY Zenon DEF JobQueueInvariant, jqVars, disk, consumer
<1>2. JobQueueInvariant /\ [JobQueueNext]_jqVars => JobQueueInvariant'
  BY Zenon, <1>1, JobQueueInvariantStep
<1>. QED BY <1>2, JobQueueInvariantInit, PTL DEF JobQueueSpec

(* The consumer implements AtLeastOnce: through crashes, stops and failing *)
(* storage, the persisted index covers finished jobs only, and never moves *)
(* back (checkProcessable, run, NewConsumer).                              *)
THEOREM ConsumerIsAtLeastOnce == JobQueueSpec => NoJobIsSkipped
<1>1. JobQueueInit => ALO!ALOInit
  BY Zenon DEF JobQueueInit, ALO!ALOInit
<1>2. ASSUME JobQueueInvariant, [JobQueueNext]_jqVars
      PROVE  [ALO!NewJob \/ ALO!FinishJob \/ ALO!Progress]_(ALO!aloVars)
  <2>1. CASE JobQueueNext
    BY Zenon, <1>2, <2>1, JobQueueInvariantStep
  <2>2. CASE UNCHANGED jqVars
    BY ZenonT(60), <2>2 DEF jqVars, disk, ALO!aloVars
  <2>. QED BY Zenon, <1>2, <2>1, <2>2
<1>. QED BY <1>1, <1>2, JobQueueInvariantHolds, PTL
         DEF JobQueueSpec, NoJobIsSkipped, ALO!ALOSpec

(* A job has a goroutine exactly as long as it counts as being processed,  *)
(* so it is never run twice at a time (run, doneJob).                      *)
THEOREM JobsRunInOneGoroutine == JobQueueSpec => []OneGoroutinePerJob
<1>1. JobQueueInvariant => OneGoroutinePerJob
  BY Zenon DEF JobQueueInvariant, WellFormed, OneGoroutinePerJob
<1>. QED BY <1>1, JobQueueInvariantHolds, PTL

(* At most MaxProcessing jobs run at a time, none of them more than        *)
(* MaxSearchAhead jobs ahead of the first unfinished one (processableJobs, *)
(* shouldPause).                                                           *)
THEOREM ConsumerKeepsLimits == JobQueueSpec => []LimitsHold
<1>1. ASSUME JobQueueInvariant PROVE LimitsHold
  <2> DEFINE active == {i \in Jobs : job[i] # "none"}
  <2>1. /\ MaxJobs \in Nat /\ MaxProcessing \in Nat \ {0}
        /\ processedIndex \in 0 .. MaxJobs /\ active \in SUBSET Nat
    BY <1>1, JobQueueAssumption DEF JobQueueInvariant, WellFormed, Jobs
  <2>2. IsProcessedTo(processings, processedIndex, processedTo(processings))
    BY Zenon, <2>1, ProcessedToIsDefined
  <2>3. \A i \in active : ~shouldPause(i, processedTo(processings))
    BY Zenon, <1>1, <2>2 DEF JobQueueInvariant, WithinLimits
  <2>4. Cardinality(active) <= MaxProcessing
    <3>1. CASE active = {}
      BY <2>1, <3>1, FS_EmptySet
    <3>2. CASE active # {}
      <4> DEFINE fromLast == {MaxJobs - i : i \in active}
      <4>1. fromLast \in SUBSET Nat /\ fromLast # {}
        BY <2>1, <3>2 DEF Jobs
      <4>2. PICK n \in fromLast : \A k \in fromLast : n <= k
        <5>. HIDE DEF fromLast
        <5>. QED BY Zenon, <4>1, SmallestElement
      <4>3. PICK last \in active : \A i \in active : i <= last
        <5>1. PICK last \in active : n = MaxJobs - last
          BY Zenon, <4>2
        <5>2. ASSUME NEW i \in active PROVE i <= last
          <6>1. MaxJobs - last <= MaxJobs - i
            BY Zenon, <4>2, <5>1
          <6>. QED BY <2>1, <6>1
        <5>. QED BY Zenon, <5>1, <5>2
      <4> DEFINE before == NotDoneBefore(processings, processedIndex, last)
      <4>4. Cardinality(before) < MaxProcessing
        BY Zenon, <1>1, <4>3 DEF JobQueueInvariant, WithinLimits
      <4>5. active \subseteq before \cup {last}
        <5>1. ASSUME NEW i \in active, i # last PROVE i \in before
          <6>1. processings[i] = "processing" /\ i \in processedIndex + 1 .. head
            BY Zenon, <1>1 DEF JobQueueInvariant, WellFormed
          <6>2. i <= last /\ last \in Nat /\ i \in Nat /\ processedIndex \in Nat /\ head \in Nat
            BY SMTT(30), <1>1, <2>1, <4>3 DEF JobQueueInvariant, WellFormed, Jobs
          <6>3. i \in processedIndex + 1 .. last - 1
            BY SMTT(30), <5>1, <6>1, <6>2
          <6>. QED BY Zenon, <6>1, <6>3 DEF NotDoneBefore
        <5>. QED BY Zenon, <5>1
      <4>6. IsFiniteSet(before)
        <5>1. last \in Nat /\ processedIndex \in Nat
          BY SMTT(30), <2>1, <4>3
        <5>2. processedIndex + 1 \in Int /\ last - 1 \in Int
          BY <5>1
        <5>3. IsFiniteSet(processedIndex + 1 .. last - 1)
          BY Zenon, <5>2, FS_Interval
        <5>4. before \in SUBSET (processedIndex + 1 .. last - 1)
          BY Zenon DEF NotDoneBefore
        <5>. QED BY Zenon, <5>3, <5>4, FS_Subset
      <4>7. /\ IsFiniteSet(before \cup {last})
            /\ Cardinality(before \cup {last}) <= Cardinality(before) + 1
            /\ Cardinality(before) \in Nat
        <5>1. Cardinality(before) \in Nat
          BY Zenon, <4>6, FS_CardinalityType
        <5>2. /\ IsFiniteSet(before \cup {last})
              /\ Cardinality(before \cup {last}) =
                   IF last \in before THEN Cardinality(before) ELSE Cardinality(before) + 1
          <6>. HIDE DEF before
          <6>. QED BY Zenon, <4>6, FS_AddElement
        <5>. QED BY <5>1, <5>2
      <4>8. /\ Cardinality(active) <= Cardinality(before \cup {last})
            /\ Cardinality(active) \in Nat /\ Cardinality(before \cup {last}) \in Nat
        <5>. HIDE DEF before, active
        <5>. QED BY Zenon, <4>5, <4>7, FS_Subset, FS_CardinalityType
      <4>. HIDE DEF before, active
      <4>. QED BY SMTT(30), <2>1, <4>4, <4>7, <4>8
    <3>. QED BY Zenon, <3>1, <3>2
  <2>. QED BY Zenon, <2>3, <2>4 DEF LimitsHold
<1>. QED BY <1>1, JobQueueInvariantHolds, PTL
=============================================================================
