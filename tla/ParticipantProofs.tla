-------------------------- MODULE ParticipantProofs --------------------------
(***************************************************************************)
(* Proofs, for every committee, tree of blocks and set of participants,    *)
(* that event handlers which crash and recover at any time only do what    *)
(* SafetyRules allow, never run into an error, and finalize one chain.     *)
(* First the invariant and what a step has to do in order to preserve it,  *)
(* then that the handlers do just that.                                    *)
(***************************************************************************)
EXTENDS Participant, SafetyRulesProofs

(***************************************************************************)
(* The PaceMaker: LivenessData given valid QCs and TCs.                    *)
(***************************************************************************)
Certificates(qcs, tcs) ==
    /\ qcs \subseteq Blocks
    /\ tcs \subseteq TimeoutCertificates
    /\ \A tc \in tcs : tc.NewestQC \in qcs /\ BlockView[tc.NewestQC] <= tc.View

\* The current view was entered with a QC or a TC for the previous view.
SoundLivenessData(ld, qcs, tcs) ==
    /\ ld \in [CurrentView : Nat, NewestQC : qcs, LastViewTC : tcs \cup {Nil}]
    /\ BlockView[ld.NewestQC] < ld.CurrentView
    /\ IF ld.LastViewTC = Nil
          THEN BlockView[ld.NewestQC] + 1 = ld.CurrentView
          ELSE /\ ld.LastViewTC.View + 1 = ld.CurrentView
               /\ BlockView[ld.LastViewTC.NewestQC] <= BlockView[ld.NewestQC]

\* Neither the view nor the newest QC of ld is ahead of new's.
NotAhead(ld, new) ==
    /\ ld.CurrentView <= new.CurrentView
    /\ BlockView[ld.NewestQC] <= BlockView[new.NewestQC]

(* Views are natural numbers; a certificate is not Nil.                    *)
LEMMA CertificateTypes ==
    ASSUME NEW qcs, NEW tcs, Certificates(qcs, tcs)
    PROVE  /\ \A qc \in qcs : qc \in Blocks /\ BlockView[qc] \in Nat
           /\ \A tc \in tcs : /\ tc # Nil /\ tc.View \in Nat /\ tc.NewestQC \in qcs
                              /\ BlockView[tc.NewestQC] <= tc.View
<1>1. \A b \in Blocks : BlockView[b] \in Nat
  BY Zenon, BlockTreeAssumption
<1>2. \A tc \in TimeoutCertificates : tc # Nil /\ tc.View \in Nat
  BY Zenon, BlockTreeAssumption DEF TimeoutCertificates
<1> QED
  BY Zenon, <1>1, <1>2 DEF Certificates

(* A QC takes the PaceMaker forward or leaves it where it is (ProcessQC).  *)
LEMMA ProcessQCIsSound ==
    ASSUME NEW qcs, NEW tcs, Certificates(qcs, tcs), NEW ld, SoundLivenessData(ld, qcs, tcs),
           NEW qc \in qcs
    PROVE  LET new == ProcessQC(ld, qc)
           IN  /\ SoundLivenessData(new, qcs, tcs)
               /\ NotAhead(ld, new)
               /\ BlockView[qc] <= BlockView[new.NewestQC]
<1> DEFINE new == ProcessQC(ld, qc)
<1>1. /\ \A q \in qcs : BlockView[q] \in Nat
      /\ \A tc \in tcs : tc # Nil /\ tc.View \in Nat /\ BlockView[tc.NewestQC] \in Nat
  BY Zenon, CertificateTypes
<1>2. /\ ld \in [CurrentView : Nat, NewestQC : qcs, LastViewTC : tcs \cup {Nil}]
      /\ ld.CurrentView \in Nat /\ ld.NewestQC \in qcs /\ ld.LastViewTC \in tcs \cup {Nil}
      /\ BlockView[ld.NewestQC] < ld.CurrentView
  BY Zenon DEF SoundLivenessData
<1>3. CASE BlockView[qc] < ld.CurrentView
  <2>1. new = [ld EXCEPT !.NewestQC = NewerQC(ld.NewestQC, qc)]
    BY Zenon, <1>3 DEF ProcessQC, updateNewestQC
  <2>2. /\ NewerQC(ld.NewestQC, qc) \in qcs
        /\ BlockView[qc] <= BlockView[NewerQC(ld.NewestQC, qc)]
        /\ BlockView[ld.NewestQC] <= BlockView[NewerQC(ld.NewestQC, qc)]
        /\ BlockView[NewerQC(ld.NewestQC, qc)] < ld.CurrentView
    BY <1>1, <1>2, <1>3 DEF NewerQC
  <2>3. /\ new \in [CurrentView : Nat, NewestQC : qcs, LastViewTC : tcs \cup {Nil}]
        /\ new.CurrentView = ld.CurrentView
        /\ new.NewestQC = NewerQC(ld.NewestQC, qc)
        /\ new.LastViewTC = ld.LastViewTC
    BY Zenon, <1>2, <2>1, <2>2
  <2> HIDE DEF new
  <2>4. BlockView[new.NewestQC] \in Nat /\ BlockView[ld.NewestQC] \in Nat
    BY Zenon, <1>1, <1>2, <2>2, <2>3
  <2>5. CASE ld.LastViewTC = Nil
    <3>1. BlockView[ld.NewestQC] + 1 = ld.CurrentView
      BY Zenon, <2>5 DEF SoundLivenessData
    <3>2. BlockView[new.NewestQC] + 1 = new.CurrentView
      BY <1>2, <2>2, <2>3, <2>4, <3>1
    <3> QED
      BY <1>2, <2>2, <2>3, <2>5, <3>2 DEF SoundLivenessData, NotAhead, new
  <2>6. CASE ld.LastViewTC # Nil
    <3>1. /\ ld.LastViewTC.View + 1 = ld.CurrentView
          /\ BlockView[ld.LastViewTC.NewestQC] <= BlockView[ld.NewestQC]
      BY Zenon, <2>6 DEF SoundLivenessData
    <3>2. BlockView[ld.LastViewTC.NewestQC] \in Nat
      BY Zenon, <1>1, <1>2, <2>6
    <3>3. BlockView[new.LastViewTC.NewestQC] <= BlockView[new.NewestQC]
      BY <2>2, <2>3, <2>4, <3>1, <3>2
    <3> QED
      BY <1>2, <2>2, <2>3, <2>6, <3>1, <3>3 DEF SoundLivenessData, NotAhead, new
  <2> QED
    BY Zenon, <2>5, <2>6
<1>4. CASE ~(BlockView[qc] < ld.CurrentView)
  <2>1. BlockView[ld.NewestQC] < BlockView[qc] /\ ld.CurrentView <= BlockView[qc] + 1
    BY <1>1, <1>2, <1>4
  <2>2. new = [CurrentView |-> BlockView[qc] + 1, NewestQC |-> qc, LastViewTC |-> Nil]
    BY Zenon, <1>4, <2>1 DEF ProcessQC, updateLivenessData, NewerQC
  <2>3. /\ new.CurrentView = BlockView[qc] + 1 /\ new.NewestQC = qc /\ new.LastViewTC = Nil
        /\ new \in [CurrentView : Nat, NewestQC : qcs, LastViewTC : tcs \cup {Nil}]
    BY <1>1, <2>2
  <2>4. BlockView[qc] \in Nat /\ BlockView[ld.NewestQC] \in Nat
    BY Zenon, <1>1, <1>2
  <2> HIDE DEF new
  <2> QED
    BY <2>1, <2>3, <2>4 DEF SoundLivenessData, NotAhead, new
<1> QED
  BY Zenon, <1>3, <1>4

(* A TC takes the PaceMaker forward or leaves it where it is, and so does  *)
(* the absence of one (ProcessTC).                                         *)
LEMMA ProcessTCIsSound ==
    ASSUME NEW qcs, NEW tcs, Certificates(qcs, tcs), NEW ld, SoundLivenessData(ld, qcs, tcs),
           NEW tc \in tcs \cup {Nil}
    PROVE  /\ SoundLivenessData(ProcessTC(ld, tc), qcs, tcs)
           /\ NotAhead(ld, ProcessTC(ld, tc))
<1> DEFINE new == ProcessTC(ld, tc)
<1>1. /\ \A q \in qcs : BlockView[q] \in Nat
      /\ \A t \in tcs : /\ t # Nil /\ t.View \in Nat /\ t.NewestQC \in qcs
                        /\ BlockView[t.NewestQC] \in Nat /\ BlockView[t.NewestQC] <= t.View
  BY Zenon, CertificateTypes
<1>2. /\ ld \in [CurrentView : Nat, NewestQC : qcs, LastViewTC : tcs \cup {Nil}]
      /\ ld.CurrentView \in Nat /\ ld.NewestQC \in qcs /\ BlockView[ld.NewestQC] \in Nat
      /\ BlockView[ld.NewestQC] < ld.CurrentView
  BY Zenon, <1>1 DEF SoundLivenessData
<1>3. CASE tc = Nil
  <2>1. new = ld
    BY Zenon, <1>3 DEF ProcessTC
  <2> QED
    BY <1>2, <2>1 DEF NotAhead
<1>4. CASE tc # Nil /\ tc.View < ld.CurrentView
  <2>1. new = updateNewestQC(ld, tc.NewestQC)
    BY Zenon, <1>4 DEF ProcessTC
  <2>2. tc.NewestQC \in qcs /\ BlockView[tc.NewestQC] < ld.CurrentView
    BY <1>1, <1>2, <1>4
  <2>3. new = ProcessQC(ld, tc.NewestQC)
    BY Zenon, <2>1, <2>2 DEF ProcessQC
  <2> QED
    BY Zenon, <2>2, <2>3, ProcessQCIsSound
<1>5. CASE tc # Nil /\ ~(tc.View < ld.CurrentView)
  <2> DEFINE qc == NewerQC(ld.NewestQC, tc.NewestQC)
  <2>1. new = updateLivenessData(ld, tc.View + 1, tc.NewestQC, tc)
    BY Zenon, <1>5 DEF ProcessTC
  <2>2. /\ tc.View \in Nat /\ ld.CurrentView <= tc.View /\ tc.NewestQC \in qcs /\ tc \in tcs
        /\ BlockView[tc.NewestQC] \in Nat /\ BlockView[tc.NewestQC] <= tc.View
    BY <1>1, <1>2, <1>5
  <2>3. /\ qc \in qcs /\ BlockView[qc] \in Nat
        /\ BlockView[ld.NewestQC] <= BlockView[qc]
        /\ BlockView[tc.NewestQC] <= BlockView[qc]
        /\ BlockView[qc] < tc.View + 1
    BY <1>1, <1>2, <2>2 DEF NewerQC
  <2> HIDE DEF qc
  <2>4. /\ new.CurrentView = tc.View + 1 /\ new.NewestQC = qc /\ new.LastViewTC = tc
        /\ new \in [CurrentView : Nat, NewestQC : qcs, LastViewTC : tcs \cup {Nil}]
    BY <2>1, <2>2, <2>3 DEF updateLivenessData, qc
  <2>5. ld.CurrentView <= tc.View + 1
    BY <1>2, <2>2
  <2> HIDE DEF new
  <2> QED
    BY Zenon, <1>5, <2>3, <2>4, <2>5 DEF SoundLivenessData, NotAhead, new
<1> QED
  BY Zenon, <1>3, <1>4, <1>5

(* NotAhead is transitive on sound LivenessData.                           *)
LEMMA NotAheadTransitive ==
    ASSUME NEW qcs, NEW tcs, Certificates(qcs, tcs),
           NEW a, NEW b, NEW c, SoundLivenessData(a, qcs, tcs),
           SoundLivenessData(b, qcs, tcs), SoundLivenessData(c, qcs, tcs),
           NotAhead(a, b), NotAhead(b, c)
    PROVE  NotAhead(a, c)
<1>1. \A ld \in {a, b, c} : ld.CurrentView \in Nat /\ BlockView[ld.NewestQC] \in Nat
  BY Zenon, CertificateTypes DEF SoundLivenessData
<1> QED
  BY <1>1 DEF NotAhead

(* The certificates found in pending blocks take the PaceMaker forward     *)
(* when it is recovered, past all of the QCs (WithQCs, WithTCs).           *)
LEMMA RecoveryIsSound ==
    ASSUME NEW qcs, NEW tcs, Certificates(qcs, tcs), NEW ld, SoundLivenessData(ld, qcs, tcs),
           NEW Q \in SUBSET qcs, IsFiniteSet(Q), NEW T \in SUBSET tcs, IsFiniteSet(T)
    PROVE  LET new == WithTCs(WithQCs(ld, Q), T)
           IN  /\ SoundLivenessData(new, qcs, tcs)
               /\ NotAhead(ld, new)
               /\ \A qc \in Q : BlockView[qc] <= BlockView[new.NewestQC]
<1> DEFINE mid == WithQCs(ld, Q)
           new == WithTCs(mid, T)
<1>1. /\ \A qc \in qcs : qc \in Blocks /\ BlockView[qc] \in Nat
      /\ \A tc \in tcs : tc # Nil /\ tc.View \in Nat /\ tc.NewestQC \in qcs
  BY Zenon, CertificateTypes
<1>2. \A x : SoundLivenessData(x, qcs, tcs) =>
         /\ x.CurrentView \in Nat /\ BlockView[x.NewestQC] \in Nat
         /\ NotAhead(x, x)
  BY <1>1 DEF SoundLivenessData, NotAhead
<1>3. /\ SoundLivenessData(mid, qcs, tcs) /\ NotAhead(ld, mid)
      /\ \A qc \in Q : BlockView[qc] <= BlockView[mid.NewestQC]
  <2>1. CASE Q = {}
    BY Zenon, <1>2, <2>1 DEF WithQCs
  <2>2. CASE Q # {}
    <3> DEFINE q == NewestOf(Q)
    <3>1. q \in Q /\ \A qc \in Q : BlockView[qc] <= BlockView[q]
      BY Zenon, <1>1, <2>2, NewestIsElement
    <3> HIDE DEF q
    <3>2. mid = ProcessQC(ld, q)
      BY Zenon, <2>2 DEF WithQCs, q
    <3>3. /\ SoundLivenessData(mid, qcs, tcs) /\ NotAhead(ld, mid)
          /\ BlockView[q] <= BlockView[mid.NewestQC]
      BY Zenon, <3>1, <3>2, ProcessQCIsSound
    <3> HIDE DEF mid
    <3>4. BlockView[mid.NewestQC] \in Nat
      BY Zenon, <1>2, <3>3
    <3> QED
      BY <1>1, <3>1, <3>3, <3>4
  <2> QED
    BY Zenon, <2>1, <2>2
<1> HIDE DEF mid
<1>4. SoundLivenessData(new, qcs, tcs) /\ NotAhead(mid, new)
  <2>1. CASE T = {}
    BY Zenon, <1>2, <1>3, <2>1 DEF WithTCs
  <2>2. CASE T # {}
    <3> DEFINE tc == NewestTCOf(T)
               N == {t.NewestQC : t \in T}
               q == NewestOf(N)
               after == ProcessTC(mid, tc)
    <3>1. tc \in T
      <4> DEFINE f == [t \in T |-> t.View]
      <4>1. f \in [T -> Nat]
        BY Zenon, <1>1
      <4>2. \E t \in T : \A u \in T : f[u] <= f[t]
        <5> HIDE DEF f
        <5> QED
          BY Zenon, <2>2, <4>1, MaximumExists
      <4>3. \E t \in T : \A u \in T : u.View <= t.View
        BY Zenon, <4>2
      <4> QED
        BY Zenon, <4>3 DEF NewestTCOf
    <3>2. q \in qcs
      <4>1. N \in SUBSET qcs /\ N \in SUBSET Blocks /\ N # {}
        BY Zenon, <1>1, <2>2
      <4>2. IsFiniteSet(N)
        <5> DEFINE f == [t \in T |-> t.NewestQC]
        <5>1. N = {f[t] : t \in T}
          BY Zenon
        <5>2. f \in Surjection(T, N)
          BY Zenon, <5>1 DEF Surjection
        <5> HIDE DEF f, N
        <5> QED
          BY Zenon, <5>2, FS_Surjection
      <4> HIDE DEF N
      <4>3. q \in N
        BY Zenon, <4>1, <4>2, NewestIsElement
      <4> QED
        BY Zenon, <4>1, <4>3
    <3> HIDE DEF tc, q
    <3>3. SoundLivenessData(after, qcs, tcs) /\ NotAhead(mid, after)
      BY Zenon, <1>3, <3>1, ProcessTCIsSound
    <3> HIDE DEF after
    <3>4. new = ProcessQC(after, q)
      BY Zenon, <2>2 DEF WithTCs, after, tc, q
    <3>5. SoundLivenessData(new, qcs, tcs) /\ NotAhead(after, new)
      BY Zenon, <3>2, <3>3, <3>4, ProcessQCIsSound
    <3> HIDE DEF new
    <3> QED
      BY Zenon, <1>3, <3>3, <3>5, NotAheadTransitive
  <2> QED
    BY Zenon, <2>1, <2>2
<1> HIDE DEF new
<1>5. NotAhead(ld, new)
  BY Zenon, <1>3, <1>4, NotAheadTransitive
<1>6. \A qc \in Q : BlockView[qc] <= BlockView[new.NewestQC]
  <2>1. BlockView[mid.NewestQC] \in Nat /\ BlockView[new.NewestQC] \in Nat
    BY Zenon, <1>2, <1>3, <1>4
  <2>2. BlockView[mid.NewestQC] <= BlockView[new.NewestQC]
    BY Zenon, <1>4 DEF NotAhead
  <2> QED
    BY <1>1, <1>3, <2>1, <2>2
<1> QED
  BY Zenon, <1>4, <1>5, <1>6 DEF new, mid
-----------------------------------------------------------------------------
(***************************************************************************)
(* What the committee has signed, seen by a participant.                   *)
(***************************************************************************)
ValidBlocks == {Root} \cup {b \in Blocks : ValidCertificates(b)}

(* SafetyRules make the committee agree.                                   *)
LEMMA CommitteeAgrees ==
    SafetyInvariant => /\ Agreement(ValidBlocks, ValidQCs, FinalizedBlocks)
                       /\ FinalizedBlocks \subseteq ValidQCs
                       /\ Certificates(ValidQCs, ValidTCs)
<1> SUFFICES ASSUME SafetyInvariant
             PROVE  /\ Agreement(ValidBlocks, ValidQCs, FinalizedBlocks)
                    /\ FinalizedBlocks \subseteq ValidQCs
                    /\ Certificates(ValidQCs, ValidTCs)
  BY Zenon
<1>1. ValidBlocks \subseteq Blocks /\ ValidQCs \subseteq Blocks /\ Root \in ValidQCs
  BY Zenon, BlockTreeAssumption DEF ValidBlocks, ValidQCs, ValidateQC
<1>2. \A b \in ValidBlocks \ {Root} : BlockQC[b] \in ValidQCs
  BY Zenon, BlockTreeAssumption DEF ValidBlocks, ValidQCs, ValidCertificates
<1>3. \A c \in (ValidBlocks \cap ValidQCs) \ {Root} :
         BlockView[c] = BlockView[BlockQC[c]] + 1 => BlockQC[c] \in FinalizedBlocks
  BY Zenon, <1>2 DEF FinalizedBlocks, CertifiedBlocks
<1>4. \A b, c \in ValidQCs : BlockView[b] = BlockView[c] => b = c
  BY Zenon, InvariantImpliesUniqueCertificates DEF AtMostOneCertifiedBlockPerView, CertifiedBlocks
<1>5. \A b \in FinalizedBlocks, c \in ValidQCs : BlockView[b] <= BlockView[c] => b \in Ancestors[c]
  BY Zenon, InvariantImpliesFinality DEF CertifiedExtendsFinalized, CertifiedBlocks
<1>6. FinalizedBlocks \subseteq ValidQCs
  BY Zenon, <1>1 DEF FinalizedBlocks, CertifiedBlocks
<1>7. Certificates(ValidQCs, ValidTCs)
  BY Zenon DEF Certificates, ValidQCs, ValidTCs, ValidateTC, TimeoutCertificates
<1> QED
  BY Zenon, <1>1, <1>2, <1>3, <1>4, <1>5, <1>6, <1>7 DEF Agreement

(* The committee agrees after a step as well.                              *)
LEMMA CommitteeWillAgree ==
    SafetyInvariant' => /\ Agreement(ValidBlocks', ValidQCs', FinalizedBlocks')
                        /\ FinalizedBlocks' \subseteq ValidQCs'
<1>1. (SafetyInvariant => /\ Agreement(ValidBlocks, ValidQCs, FinalizedBlocks)
                          /\ FinalizedBlocks \subseteq ValidQCs
                          /\ Certificates(ValidQCs, ValidTCs))'
  BY CommitteeAgrees, PTL
<1> QED
  BY Zenon, <1>1 DEF Agreement

(* Signatures only add certificates and finalized blocks.                  *)
LEMMA CertificatesGrow ==
    ASSUME votes \subseteq votes', timeouts \subseteq timeouts'
    PROVE  /\ ValidBlocks \subseteq ValidBlocks' /\ ValidQCs \subseteq ValidQCs'
           /\ ValidTCs \subseteq ValidTCs' /\ FinalizedBlocks \subseteq FinalizedBlocks'
<1>1. ValidBlocks \subseteq ValidBlocks' /\ ValidQCs \subseteq ValidQCs' /\ ValidTCs \subseteq ValidTCs'
  BY Zenon, CertificatesStayValid DEF ValidBlocks, ValidQCs, ValidTCs
<1>2. FinalizedBlocks \subseteq FinalizedBlocks'
  BY Zenon, <1>1 DEF FinalizedBlocks, CertifiedBlocks
<1> QED
  BY Zenon, <1>1, <1>2

\* The blocks the replica has signed.
Signed(r) == {b \in Blocks : <<r, b>> \in votes}

(***************************************************************************)
(* What one replica may sign: nothing, a vote, or a timeout, of which the  *)
(* latter two are within the view and the newest QC given.                 *)
(***************************************************************************)
SignsVote(r, b, view, qc) ==
    /\ ProduceVote(r, b) \/ SignOwnProposal(r, b)
    /\ BlockView[b] <= view
    /\ BlockView[BlockQC[b]] <= BlockView[qc]

SignsTimeout(r, v, qc, tc) ==
    \/ RepeatTimeout(r, v)
    \/ qc \in ValidQCs /\ tc \in ValidTCs \cup {Nil} /\ ProduceTimeout(r, v, qc, tc)

(* A vote of one replica, as seen by all of them.                          *)
LEMMA VoteIsWithin ==
    ASSUME SafetyInvariant, NEW r \in Honest, NEW b \in Blocks, NEW view \in Nat,
           NEW qc \in Blocks, SignsVote(r, b, view, qc),
           safetyData[r].LockedOneChainView <= BlockView[qc]
    PROVE  /\ SafetyRulesNext
           /\ votes \subseteq votes' /\ timeouts \subseteq timeouts'
           /\ \A s \in Honest \ {r} : safetyData'[s] = safetyData[s] /\ Signed(s)' = Signed(s)
           /\ Signed(r)' = Signed(r) \cup {b}
           /\ safetyData'[r].HighestAcknowledgedView <= view
           /\ safetyData'[r].LockedOneChainView <= BlockView[qc]
           /\ safetyData[r].HighestAcknowledgedView <= safetyData'[r].HighestAcknowledgedView
           /\ safetyData[r].LockedOneChainView <= safetyData'[r].LockedOneChainView
<1>1. SignVote(r, b)
  BY Zenon DEF SignsVote, ProduceVote, SignOwnProposal
<1>2. /\ safetyData' = [safetyData EXCEPT ![r] = AfterVote(@, b)]
      /\ votes' = votes \cup {<<r, b>>}
      /\ timeouts' = timeouts
      /\ BlockView[b] > safetyData[r].HighestAcknowledgedView
  BY Zenon, <1>1 DEF SignVote, isSafeToVote
<1>3. /\ safetyData \in [Honest -> SafetyDataType] /\ safetyData[r] \in SafetyDataType
      /\ safetyData[r].HighestAcknowledgedView \in Nat /\ safetyData[r].LockedOneChainView \in Nat
      /\ BlockView[b] \in Nat /\ BlockView[BlockQC[b]] \in Nat /\ BlockView[qc] \in Nat
  BY Zenon, BlockTreeAssumption DEF SafetyInvariant, SafetyRulesTypeOK, SafetyDataType
<1>4. /\ safetyData'[r].HighestAcknowledgedView = BlockView[b]
      /\ safetyData'[r].LockedOneChainView =
           IF BlockView[BlockQC[b]] > safetyData[r].LockedOneChainView
              THEN BlockView[BlockQC[b]] ELSE safetyData[r].LockedOneChainView
  BY Zenon, <1>2, <1>3 DEF AfterVote, SafetyDataType
<1>5. BlockView[b] <= view /\ BlockView[BlockQC[b]] <= BlockView[qc]
  BY Zenon DEF SignsVote
<1>6. SafetyRulesNext
  BY Zenon DEF SignsVote, SafetyRulesNext, SafetyRulesStep
<1>7. \A s \in Honest \ {r} : safetyData'[s] = safetyData[s] /\ Signed(s)' = Signed(s)
  BY Zenon, <1>2, <1>3 DEF Signed
<1>8. Signed(r)' = Signed(r) \cup {b}
  BY Zenon, <1>2 DEF Signed
<1> QED
  BY <1>2, <1>3, <1>4, <1>5, <1>6, <1>7, <1>8

(* A timeout of one replica, as seen by all of them.                       *)
LEMMA TimeoutIsWithin ==
    ASSUME SafetyInvariant, NEW r \in Honest, NEW v \in TimeoutViews, NEW qc \in Blocks, NEW tc,
           SignsTimeout(r, v, qc, tc)
    PROVE  /\ SafetyRulesNext
           /\ votes \subseteq votes' /\ timeouts \subseteq timeouts'
           /\ \A s \in Honest \ {r} : safetyData'[s] = safetyData[s]
           /\ \A s \in Honest : Signed(s)' = Signed(s)
           /\ \/ safetyData' = safetyData
              \/ safetyData'[r].HighestAcknowledgedView = v
           /\ safetyData[r].HighestAcknowledgedView <= safetyData'[r].HighestAcknowledgedView
           /\ safetyData'[r].LockedOneChainView = safetyData[r].LockedOneChainView
<1>1. /\ safetyData \in [Honest -> SafetyDataType] /\ safetyData[r] \in SafetyDataType
      /\ safetyData[r].HighestAcknowledgedView \in Nat /\ v \in Nat
  BY Zenon, BlockTreeAssumption DEF SafetyInvariant, SafetyRulesTypeOK, SafetyDataType
<1>2. CASE RepeatTimeout(r, v)
  <2>1. /\ safetyData' = safetyData /\ votes' = votes /\ timeouts \subseteq timeouts'
    BY Zenon, <1>2 DEF RepeatTimeout
  <2>2. SafetyRulesNext
    BY Zenon, <1>2 DEF SafetyRulesNext, SafetyRulesStep
  <2> QED
    BY <1>1, <2>1, <2>2 DEF Signed
<1>3. CASE qc \in ValidQCs /\ tc \in ValidTCs \cup {Nil} /\ ProduceTimeout(r, v, qc, tc)
  <2> DEFINE to == [View |-> v, NewestQC |-> qc, SignerID |-> r]
  <2>1. /\ safetyData' = [safetyData EXCEPT ![r] = AfterTimeout(@, to)]
        /\ votes' = votes /\ timeouts' = timeouts \cup {to}
        /\ v + 1 > safetyData[r].HighestAcknowledgedView
    BY Zenon, <1>3 DEF ProduceTimeout, IsSafeToTimeout
  <2>2. to.View = v
    BY Zenon
  <2> HIDE DEF to
  <2>3. /\ safetyData'[r].HighestAcknowledgedView = v
        /\ safetyData'[r].LockedOneChainView = safetyData[r].LockedOneChainView
        /\ \A s \in Honest \ {r} : safetyData'[s] = safetyData[s]
    BY Zenon, <1>1, <2>1, <2>2 DEF AfterTimeout, SafetyDataType
  <2>4. SafetyRulesNext
    BY Zenon, <1>3 DEF SafetyRulesNext, SafetyRulesStep
  <2> QED
    BY <1>1, <2>1, <2>3, <2>4 DEF Signed
<1> QED
  BY Zenon, <1>2, <1>3 DEF SignsTimeout
-----------------------------------------------------------------------------
(***************************************************************************)
(* The inductive invariant.  For each participant: the view was entered    *)
(* with valid certificates (so that it can propose and time out), Forks    *)
(* is sound and has, or no longer needs, the parents of all blocks the     *)
(* participant signed (so that it can be recovered), nothing is signed     *)
(* beyond the current view and the newest QC, and the newest QC is newer   *)
(* than the finalized block (so that no proposal of the current view can   *)
(* fork off below it).                                                     *)
(***************************************************************************)
SoundParticipant(sd, signed, ld, f, qcs, tcs, known, final) ==
    /\ SoundLivenessData(ld, qcs, tcs)
    /\ SoundForks(f, known, final)
    /\ sd.HighestAcknowledgedView <= ld.CurrentView
    /\ sd.LockedOneChainView <= BlockView[ld.NewestQC]
    /\ IsFiniteSet(signed)
    /\ \A b \in signed : Has(f, BlockQC[b])
    /\ f.finalized = Root \/ FinalizedView(f) + 1 <= BlockView[ld.NewestQC]

ParticipantInvariant ==
    /\ SafetyInvariant
    /\ livenessData \in [Participants -> LivenessDataType]
    /\ forks \in [Participants -> ForksType]
    /\ \A r \in Participants :
          SoundParticipant(safetyData[r], Signed(r), livenessData[r], forks[r],
                           ValidQCs, ValidTCs, ValidBlocks, FinalizedBlocks)
    /\ exceptions = {}

\* A replica in the state given signs something, or nothing.
Signs(r, ld, f) ==
    \/ UNCHANGED srVars
    \/ \E b \in Blocks : SignsVote(r, b, ld.CurrentView, ld.NewestQC) /\ BlockQC[b] \in f.blocks
    \/ ld.CurrentView \in TimeoutViews /\ \E tc : SignsTimeout(r, ld.CurrentView, ld.NewestQC, tc)

\* What all handlers have in common: r moves to LivenessData ld and Forks f.
ParticipantStep(r, ld, f) ==
    /\ livenessData' = [livenessData EXCEPT ![r] = ld]
    /\ forks' = [forks EXCEPT ![r] = f]
    /\ exceptions' = exceptions
    /\ Signs(r, ld, f)
    /\ SoundLivenessData(ld, ValidQCs, ValidTCs)
    /\ NotAhead(livenessData[r], ld)
    /\ SoundForks(f, ValidBlocks, FinalizedBlocks)
    /\ FinalizedView(forks[r]) <= FinalizedView(f)
    /\ \A b \in Signed(r) : Has(f, BlockQC[b])
    /\ f.finalized = Root \/ FinalizedView(f) + 1 <= BlockView[ld.NewestQC]

(* What is sound stays sound when there are more certificates.             *)
LEMMA SoundnessGrows ==
    ASSUME NEW sd, NEW signed, NEW ld, NEW f, NEW qcs, NEW tcs, NEW known, NEW final,
           NEW qcs2, NEW tcs2, NEW known2, NEW final2,
           qcs \subseteq qcs2, tcs \subseteq tcs2, known \subseteq known2, final \subseteq final2,
           SoundParticipant(sd, signed, ld, f, qcs, tcs, known, final)
    PROVE  SoundParticipant(sd, signed, ld, f, qcs2, tcs2, known2, final2)
<1>1. SoundLivenessData(ld, qcs2, tcs2)
  <2>1. ld \in [CurrentView : Nat, NewestQC : qcs2, LastViewTC : tcs2 \cup {Nil}]
    BY Zenon DEF SoundParticipant, SoundLivenessData
  <2> QED
    BY Zenon, <2>1 DEF SoundParticipant, SoundLivenessData
<1>2. SoundForks(f, known2, final2)
  BY Zenon DEF SoundParticipant, SoundForks
<1> QED
  BY Zenon, <1>1, <1>2 DEF SoundParticipant

(* Whatever a handler signs is a step of SafetyRules, stays within the     *)
(* LivenessData, and does not concern other replicas.                      *)
LEMMA SigningIsWithin ==
    ASSUME ParticipantInvariant, NEW r \in Participants, NEW ld, NEW f, ParticipantStep(r, ld, f)
    PROVE  /\ [SafetyRulesNext]_srVars
           /\ votes \subseteq votes' /\ timeouts \subseteq timeouts'
           /\ \A s \in Honest \ {r} : safetyData'[s] = safetyData[s] /\ Signed(s)' = Signed(s)
           /\ safetyData'[r].HighestAcknowledgedView <= ld.CurrentView
           /\ safetyData'[r].LockedOneChainView <= BlockView[ld.NewestQC]
           /\ safetyData[r].HighestAcknowledgedView <= safetyData'[r].HighestAcknowledgedView
           /\ safetyData[r].LockedOneChainView <= safetyData'[r].LockedOneChainView
           /\ IsFiniteSet(Signed(r)')
           /\ \A b \in Signed(r)' : Has(f, BlockQC[b])
<1>1. /\ SafetyInvariant /\ r \in Honest
      /\ SoundParticipant(safetyData[r], Signed(r), livenessData[r], forks[r],
                          ValidQCs, ValidTCs, ValidBlocks, FinalizedBlocks)
  BY Zenon, ParticipantAssumption DEF ParticipantInvariant
<1>2. /\ ld.CurrentView \in Nat /\ ld.NewestQC \in Blocks /\ BlockView[ld.NewestQC] \in Nat
      /\ livenessData[r].CurrentView \in Nat /\ BlockView[livenessData[r].NewestQC] \in Nat
      /\ safetyData[r].HighestAcknowledgedView \in Nat /\ safetyData[r].LockedOneChainView \in Nat
  <2>1. ld.CurrentView \in Nat /\ ld.NewestQC \in Blocks
    BY Zenon DEF ParticipantStep, SoundLivenessData, ValidQCs
  <2>2. livenessData[r].CurrentView \in Nat /\ livenessData[r].NewestQC \in Blocks
    BY Zenon, <1>1 DEF SoundParticipant, SoundLivenessData, ValidQCs
  <2>3. safetyData[r].HighestAcknowledgedView \in Nat /\ safetyData[r].LockedOneChainView \in Nat
    BY Zenon, <1>1, BlockTreeAssumption DEF SafetyInvariant, SafetyRulesTypeOK, SafetyDataType
  <2> QED
    BY Zenon, <2>1, <2>2, <2>3, BlockTreeAssumption
<1>3. /\ safetyData[r].HighestAcknowledgedView <= ld.CurrentView
      /\ safetyData[r].LockedOneChainView <= BlockView[ld.NewestQC]
  <2>1. /\ safetyData[r].HighestAcknowledgedView <= livenessData[r].CurrentView
        /\ safetyData[r].LockedOneChainView <= BlockView[livenessData[r].NewestQC]
    BY Zenon, <1>1 DEF SoundParticipant
  <2>2. /\ livenessData[r].CurrentView <= ld.CurrentView
        /\ BlockView[livenessData[r].NewestQC] <= BlockView[ld.NewestQC]
    BY Zenon DEF ParticipantStep, NotAhead
  <2> QED
    BY <1>2, <2>1, <2>2
<1>4. IsFiniteSet(Signed(r)) /\ \A b \in Signed(r) : Has(f, BlockQC[b])
  BY Zenon, <1>1 DEF SoundParticipant, ParticipantStep
<1>5. CASE UNCHANGED srVars
  <2>1. safetyData' = safetyData /\ votes' = votes /\ timeouts' = timeouts
    BY Zenon, <1>5 DEF srVars
  <2>2. \A s : Signed(s)' = Signed(s)
    BY Zenon, <2>1 DEF Signed
  <2> QED
    BY SMTT(30), <1>2, <1>3, <1>4, <1>5, <2>1, <2>2
<1>6. CASE \E b \in Blocks : /\ SignsVote(r, b, ld.CurrentView, ld.NewestQC)
                             /\ BlockQC[b] \in f.blocks
  <2>1. PICK b \in Blocks : /\ SignsVote(r, b, ld.CurrentView, ld.NewestQC)
                            /\ BlockQC[b] \in f.blocks
    BY Zenon, <1>6
  <2>2. /\ SafetyRulesNext
        /\ votes \subseteq votes' /\ timeouts \subseteq timeouts'
        /\ \A s \in Honest \ {r} : safetyData'[s] = safetyData[s] /\ Signed(s)' = Signed(s)
        /\ Signed(r)' = Signed(r) \cup {b}
        /\ safetyData'[r].HighestAcknowledgedView <= ld.CurrentView
        /\ safetyData'[r].LockedOneChainView <= BlockView[ld.NewestQC]
        /\ safetyData[r].HighestAcknowledgedView <= safetyData'[r].HighestAcknowledgedView
        /\ safetyData[r].LockedOneChainView <= safetyData'[r].LockedOneChainView
    BY Zenon, <1>1, <1>2, <1>3, <2>1, VoteIsWithin
  <2>3. IsFiniteSet(Signed(r)')
    BY ZenonT(60), <1>4, <2>2, FS_AddElement
  <2>4. \A c \in Signed(r)' : Has(f, BlockQC[c])
    BY Zenon, <1>4, <2>1, <2>2 DEF Has
  <2> QED
    BY Zenon, <2>2, <2>3, <2>4
<1>7. CASE ld.CurrentView \in TimeoutViews /\ \E tc : SignsTimeout(r, ld.CurrentView, ld.NewestQC, tc)
  <2>1. PICK tc : SignsTimeout(r, ld.CurrentView, ld.NewestQC, tc)
    BY Zenon, <1>7
  <2>2. /\ SafetyRulesNext
        /\ votes \subseteq votes' /\ timeouts \subseteq timeouts'
        /\ \A s \in Honest \ {r} : safetyData'[s] = safetyData[s]
        /\ \A s \in Honest : Signed(s)' = Signed(s)
        /\ \/ safetyData' = safetyData
           \/ safetyData'[r].HighestAcknowledgedView = ld.CurrentView
        /\ safetyData[r].HighestAcknowledgedView <= safetyData'[r].HighestAcknowledgedView
        /\ safetyData'[r].LockedOneChainView = safetyData[r].LockedOneChainView
    BY Zenon, <1>1, <1>2, <1>7, <2>1, TimeoutIsWithin
  <2> QED
    BY SMTT(30), <1>1, <1>2, <1>3, <1>4, <2>2
<1> QED
  BY Zenon, <1>5, <1>6, <1>7 DEF ParticipantStep, Signs

(* A step of a participant preserves the invariant and takes nothing back. *)
LEMMA ParticipantStepIsSound ==
    ASSUME ParticipantInvariant, NEW r \in Participants, NEW ld, NEW f, ParticipantStep(r, ld, f)
    PROVE  /\ ParticipantInvariant'
           /\ [SafetyRulesNext]_srVars
           /\ MovesForward
<1>1. /\ SafetyInvariant /\ Participants \subseteq Honest
      /\ livenessData \in [Participants -> LivenessDataType]
      /\ forks \in [Participants -> ForksType]
      /\ \A s \in Participants :
            SoundParticipant(safetyData[s], Signed(s), livenessData[s], forks[s],
                             ValidQCs, ValidTCs, ValidBlocks, FinalizedBlocks)
      /\ exceptions = {}
  BY Zenon, ParticipantAssumption DEF ParticipantInvariant
<1>2. /\ livenessData' = [livenessData EXCEPT ![r] = ld]
      /\ forks' = [forks EXCEPT ![r] = f]
      /\ exceptions' = exceptions
      /\ SoundLivenessData(ld, ValidQCs, ValidTCs)
      /\ NotAhead(livenessData[r], ld)
      /\ SoundForks(f, ValidBlocks, FinalizedBlocks)
      /\ FinalizedView(forks[r]) <= FinalizedView(f)
      /\ f.finalized = Root \/ FinalizedView(f) + 1 <= BlockView[ld.NewestQC]
  BY Zenon DEF ParticipantStep
<1>3. /\ [SafetyRulesNext]_srVars
      /\ votes \subseteq votes' /\ timeouts \subseteq timeouts'
      /\ \A s \in Honest \ {r} : safetyData'[s] = safetyData[s] /\ Signed(s)' = Signed(s)
      /\ safetyData'[r].HighestAcknowledgedView <= ld.CurrentView
      /\ safetyData'[r].LockedOneChainView <= BlockView[ld.NewestQC]
      /\ safetyData[r].HighestAcknowledgedView <= safetyData'[r].HighestAcknowledgedView
      /\ safetyData[r].LockedOneChainView <= safetyData'[r].LockedOneChainView
      /\ IsFiniteSet(Signed(r)')
      /\ \A b \in Signed(r)' : Has(f, BlockQC[b])
  BY Zenon, SigningIsWithin
<1>4. SafetyInvariant'
  BY Zenon, <1>1, <1>3, SafetyInvariantStep
<1>5. /\ ValidBlocks \subseteq ValidBlocks' /\ ValidQCs \subseteq ValidQCs'
      /\ ValidTCs \subseteq ValidTCs' /\ FinalizedBlocks \subseteq FinalizedBlocks'
  BY Zenon, <1>3, CertificatesGrow
<1>6. ld \in LivenessDataType /\ f \in ForksType
  BY Zenon, <1>2 DEF SoundLivenessData, SoundForks, LivenessDataType, OptionalTC, ValidQCs, ValidTCs
<1>7. /\ livenessData' \in [Participants -> LivenessDataType] /\ forks' \in [Participants -> ForksType]
      /\ livenessData'[r] = ld /\ forks'[r] = f
      /\ \A s \in Participants \ {r} : livenessData'[s] = livenessData[s] /\ forks'[s] = forks[s]
  BY Zenon, <1>1, <1>2, <1>6
<1>8. SoundParticipant(safetyData'[r], Signed(r)', ld, f, ValidQCs, ValidTCs, ValidBlocks, FinalizedBlocks)
  BY Zenon, <1>2, <1>3 DEF SoundParticipant
<1>9. ASSUME NEW s \in Participants
      PROVE  SoundParticipant(safetyData'[s], Signed(s)', livenessData'[s], forks'[s],
                              ValidQCs', ValidTCs', ValidBlocks', FinalizedBlocks')
  <2>1. SoundParticipant(safetyData'[s], Signed(s)', livenessData'[s], forks'[s],
                         ValidQCs, ValidTCs, ValidBlocks, FinalizedBlocks)
    <3>1. CASE s = r
      BY Zenon, <1>7, <1>8, <3>1
    <3>2. CASE s # r
      BY Zenon, <1>1, <1>3, <1>7, <3>2
    <3> QED
      BY Zenon, <3>1, <3>2
  <2> QED
    BY Zenon, <1>5, <2>1, SoundnessGrows
<1>10. ParticipantInvariant'
  <2>1. \A s \in Participants :
           SoundParticipant(safetyData[s], Signed(s), livenessData[s], forks[s],
                            ValidQCs, ValidTCs, ValidBlocks, FinalizedBlocks)'
    BY ZenonT(30), <1>9 DEF SoundParticipant, SoundLivenessData, SoundForks, Has, FinalizedView
  <2> QED
    BY Zenon, <1>1, <1>2, <1>4, <1>7, <2>1 DEF ParticipantInvariant
<1>11. MovesForward
  <2> SUFFICES ASSUME NEW s \in Participants
               PROVE  /\ forks[s].finalized \in Ancestors[forks'[s].finalized]
                      /\ livenessData[s].CurrentView <= livenessData'[s].CurrentView
                      /\ BlockView[livenessData[s].NewestQC] <= BlockView[livenessData'[s].NewestQC]
                      /\ safetyData[s].LockedOneChainView <= safetyData'[s].LockedOneChainView
                      /\ safetyData[s].HighestAcknowledgedView <= safetyData'[s].HighestAcknowledgedView
    BY Zenon DEF MovesForward
  <2>1. CASE s = r
    <3>1. /\ FinalizedView(forks[r]) = BlockView[forks[r].finalized]
          /\ FinalizedView(f) = BlockView[f.finalized]
      BY Zenon DEF FinalizedView
    <3>2. forks[r].finalized \in FinalizedBlocks' /\ f.finalized \in FinalizedBlocks'
      BY Zenon, <1>1, <1>2, <1>5 DEF SoundParticipant, SoundForks
    <3>3. forks[r].finalized \in Ancestors[f.finalized]
      BY Zenon, <1>2, <1>4, <3>1, <3>2, CommitteeWillAgree DEF Agreement
    <3> QED
      BY Zenon, <1>2, <1>3, <1>7, <2>1, <3>3 DEF NotAhead
  <2>2. CASE s # r
    <3>1. livenessData'[s] = livenessData[s] /\ forks'[s] = forks[s] /\ safetyData'[s] = safetyData[s]
      BY Zenon, <1>1, <1>3, <1>7, <2>2
    <3>2. /\ livenessData[s].CurrentView \in Nat /\ livenessData[s].NewestQC \in Blocks
          /\ forks[s].finalized \in Blocks
          /\ safetyData[s].LockedOneChainView \in Nat /\ safetyData[s].HighestAcknowledgedView \in Nat
      BY Zenon, <1>1, BlockTreeAssumption
         DEF LivenessDataType, ForksType, SafetyInvariant, SafetyRulesTypeOK, SafetyDataType
    <3>3. BlockView[livenessData[s].NewestQC] \in Nat /\ forks[s].finalized \in Ancestors[forks[s].finalized]
      BY Zenon, <3>2, BlockTreeAssumption, AncestorsEquation
    <3> QED
      BY <3>1, <3>2, <3>3
  <2> QED
    BY Zenon, <2>1, <2>2
<1> QED
  BY Zenon, <1>3, <1>10, <1>11

(* A step of honest replicas that are not modelled as participants, or no  *)
(* step at all, preserves the invariant and takes nothing back.            *)
LEMMA OtherStepIsSound ==
    ASSUME ParticipantInvariant, UNCHANGED localVars,
           SafetyRulesStep(Honest \ Participants) \/ UNCHANGED srVars
    PROVE  /\ ParticipantInvariant'
           /\ [SafetyRulesNext]_srVars
           /\ MovesForward
<1>1. /\ SafetyInvariant /\ Participants \subseteq Honest
      /\ livenessData \in [Participants -> LivenessDataType]
      /\ forks \in [Participants -> ForksType]
      /\ \A s \in Participants :
            SoundParticipant(safetyData[s], Signed(s), livenessData[s], forks[s],
                             ValidQCs, ValidTCs, ValidBlocks, FinalizedBlocks)
      /\ exceptions = {}
  BY Zenon, ParticipantAssumption DEF ParticipantInvariant
<1>2. livenessData' = livenessData /\ forks' = forks /\ exceptions' = exceptions
  BY Zenon DEF localVars
<1>3. safetyData \in [Honest -> SafetyDataType]
  BY Zenon, <1>1 DEF SafetyInvariant, SafetyRulesTypeOK
<1>4. /\ votes \subseteq votes' /\ timeouts \subseteq timeouts'
      /\ \A s \in Participants : safetyData'[s] = safetyData[s] /\ Signed(s)' = Signed(s)
  <2>1. CASE UNCHANGED srVars
    BY Zenon, <2>1 DEF srVars, Signed
  <2>2. CASE SafetyRulesStep(Honest \ Participants)
    <3>1. PICK q \in Honest \ Participants :
             \/ \E b \in Blocks : SignVote(q, b)
             \/ \E v \in TimeoutViews : RepeatTimeout(q, v)
             \/ \E v \in TimeoutViews, qc \in ValidQCs, tc \in ValidTCs \cup {Nil} :
                   ProduceTimeout(q, v, qc, tc)
      BY Zenon, <2>2 DEF SafetyRulesStep, ProduceVote, SignOwnProposal
    <3>2. ASSUME NEW b \in Blocks, SignVote(q, b)
          PROVE  /\ votes \subseteq votes' /\ timeouts \subseteq timeouts'
                 /\ \A s \in Participants : safetyData'[s] = safetyData[s] /\ Signed(s)' = Signed(s)
      BY Zenon, <1>1, <1>3, <3>2 DEF SignVote, Signed
    <3>3. ASSUME NEW v \in TimeoutViews, RepeatTimeout(q, v)
          PROVE  /\ votes \subseteq votes' /\ timeouts \subseteq timeouts'
                 /\ \A s \in Participants : safetyData'[s] = safetyData[s] /\ Signed(s)' = Signed(s)
      BY Zenon, <3>3 DEF RepeatTimeout, Signed
    <3>4. ASSUME NEW v, NEW qc, NEW tc, ProduceTimeout(q, v, qc, tc)
          PROVE  /\ votes \subseteq votes' /\ timeouts \subseteq timeouts'
                 /\ \A s \in Participants : safetyData'[s] = safetyData[s] /\ Signed(s)' = Signed(s)
      BY Zenon, <1>1, <1>3, <3>4 DEF ProduceTimeout, Signed
    <3> QED
      BY Zenon, <3>1, <3>2, <3>3, <3>4
  <2> QED
    BY Zenon, <2>1, <2>2
<1>5. [SafetyRulesNext]_srVars
  BY Zenon DEF SafetyRulesNext, SafetyRulesStep
<1>6. SafetyInvariant'
  BY Zenon, <1>1, <1>5, SafetyInvariantStep
<1>7. /\ ValidBlocks \subseteq ValidBlocks' /\ ValidQCs \subseteq ValidQCs'
      /\ ValidTCs \subseteq ValidTCs' /\ FinalizedBlocks \subseteq FinalizedBlocks'
  BY Zenon, <1>4, CertificatesGrow
<1>8. ParticipantInvariant'
  <2>1. ASSUME NEW s \in Participants
        PROVE  SoundParticipant(safetyData'[s], Signed(s)', livenessData'[s], forks'[s],
                                ValidQCs', ValidTCs', ValidBlocks', FinalizedBlocks')
    <3>1. SoundParticipant(safetyData'[s], Signed(s)', livenessData'[s], forks'[s],
                           ValidQCs, ValidTCs, ValidBlocks, FinalizedBlocks)
      BY Zenon, <1>1, <1>2, <1>4
    <3> QED
      BY Zenon, <1>7, <3>1, SoundnessGrows
  <2>2. \A s \in Participants :
           SoundParticipant(safetyData[s], Signed(s), livenessData[s], forks[s],
                            ValidQCs, ValidTCs, ValidBlocks, FinalizedBlocks)'
    BY ZenonT(30), <2>1 DEF SoundParticipant, SoundLivenessData, SoundForks, Has, FinalizedView
  <2> QED
    BY Zenon, <1>1, <1>2, <1>6, <2>2 DEF ParticipantInvariant
<1>9. MovesForward
  <2>1. ASSUME NEW s \in Participants
        PROVE  /\ livenessData[s].CurrentView \in Nat /\ livenessData[s].NewestQC \in Blocks
               /\ forks[s].finalized \in Blocks
               /\ safetyData[s].LockedOneChainView \in Nat /\ safetyData[s].HighestAcknowledgedView \in Nat
    BY Zenon, <1>1, <1>3, BlockTreeAssumption DEF LivenessDataType, ForksType, SafetyDataType
  <2>2. \A s \in Participants : /\ BlockView[livenessData[s].NewestQC] \in Nat
                                /\ forks[s].finalized \in Ancestors[forks[s].finalized]
    BY Zenon, <2>1, BlockTreeAssumption, AncestorsEquation
  <2> QED
    BY <1>2, <1>4, <2>1, <2>2 DEF MovesForward
<1> QED
  BY Zenon, <1>5, <1>8, <1>9

-----------------------------------------------------------------------------

(***************************************************************************)
(* What the handlers sign.                                                 *)
(***************************************************************************)
(* The evidence for the current view passes SafetyRules' checks.           *)
LEMMA EvidenceIsValid ==
    ASSUME NEW qcs, NEW tcs, Certificates(qcs, tcs), NEW ld, SoundLivenessData(ld, qcs, tcs)
    PROVE  /\ validateEvidenceForEnteringView(ld.CurrentView, ld.NewestQC, EvidenceTC(ld))
           /\ EvidenceTC(ld) \in tcs \cup {Nil}
           /\ EvidenceTC(ld) = Nil <=> BlockView[ld.NewestQC] + 1 = ld.CurrentView
           /\ EvidenceTC(ld) # Nil => EvidenceTC(ld) = ld.LastViewTC
<1>1. /\ ld.CurrentView \in Nat /\ ld.NewestQC \in qcs /\ ld.LastViewTC \in tcs \cup {Nil}
      /\ BlockView[ld.NewestQC] \in Nat /\ BlockView[ld.NewestQC] < ld.CurrentView
  BY Zenon, CertificateTypes DEF SoundLivenessData
<1>2. CASE BlockView[ld.NewestQC] + 1 = ld.CurrentView
  <2>1. EvidenceTC(ld) = Nil
    BY Zenon, <1>2 DEF EvidenceTC
  <2> QED
    BY Zenon, <1>2, <2>1 DEF validateEvidenceForEnteringView
<1>3. CASE BlockView[ld.NewestQC] + 1 # ld.CurrentView
  <2>1. EvidenceTC(ld) = ld.LastViewTC
    BY Zenon, <1>3 DEF EvidenceTC
  <2>2. /\ ld.LastViewTC # Nil /\ ld.LastViewTC \in tcs
        /\ ld.LastViewTC.View + 1 = ld.CurrentView
        /\ BlockView[ld.LastViewTC.NewestQC] <= BlockView[ld.NewestQC]
    BY Zenon, <1>1, <1>3 DEF SoundLivenessData
  <2>3. BlockView[ld.LastViewTC.NewestQC] \in Nat
    BY Zenon, <2>2, CertificateTypes
  <2>4. BlockView[ld.NewestQC] >= BlockView[ld.LastViewTC.NewestQC]
    BY Zenon, <1>1, <2>2, <2>3
  <2> QED
    BY Zenon, <1>1, <1>3, <2>1, <2>2, <2>4 DEF validateEvidenceForEnteringView
<1> QED
  BY Zenon, <1>2, <1>3

(* A leader that enters its view proposes a valid block, or nothing; its   *)
(* PaceMaker and its SafetyRules raise no error                            *)
(* (proposeForNewViewIfPrimary).                                           *)
LEMMA ProposingIsSound ==
    ASSUME SafetyInvariant, NEW r \in Honest, NEW ld, NEW f,
           SoundLivenessData(ld, ValidQCs, ValidTCs),
           safetyData[r].HighestAcknowledgedView <= ld.CurrentView,
           proposeForNewViewIfPrimary(r, ld, f)
    PROVE  Signs(r, ld, f) /\ exceptions' = exceptions
<1> DEFINE mayPropose == LeaderForView[ld.CurrentView] = r /\ ld.NewestQC \in f.blocks
           corrupted  == /\ BlockView[ld.NewestQC] + 1 # ld.CurrentView
                         /\ \/ ld.LastViewTC = Nil
                            \/ ld.LastViewTC # Nil /\ ld.LastViewTC.View + 1 # ld.CurrentView
<1>1. Certificates(ValidQCs, ValidTCs)
  BY Zenon, CommitteeAgrees
<1>2. ~corrupted
  BY Zenon DEF SoundLivenessData
<1>3. /\ ld.CurrentView \in Nat /\ ld.NewestQC \in ValidQCs /\ ld.NewestQC \in Blocks
      /\ BlockView[ld.NewestQC] \in Nat /\ safetyData[r].HighestAcknowledgedView \in Nat
  BY ZenonT(60), <1>1, CertificateTypes, BlockTreeAssumption
     DEF SoundLivenessData, SafetyInvariant, SafetyRulesTypeOK, SafetyDataType
<1>4. SignsNothing => Signs(r, ld, f) /\ exceptions' = exceptions
  BY Zenon DEF SignsNothing, Signs
<1>5. ASSUME NEW b \in OwnProposals(ld)
      PROVE  /\ b \in Blocks \ {Root} /\ BlockView[b] = ld.CurrentView /\ BlockQC[b] = ld.NewestQC
             /\ validateEvidenceForEnteringView(BlockView[b], BlockQC[b], BlockTC[b])
             /\ ValidCertificates(b)
  <2>1. /\ b \in Blocks \ {Root} /\ BlockView[b] = ld.CurrentView /\ BlockQC[b] = ld.NewestQC
        /\ BlockTC[b] = EvidenceTC(ld)
    BY Zenon DEF OwnProposals
  <2>2. /\ validateEvidenceForEnteringView(ld.CurrentView, ld.NewestQC, EvidenceTC(ld))
        /\ EvidenceTC(ld) \in ValidTCs \cup {Nil}
    BY Zenon, <1>1, EvidenceIsValid
  <2>3. ValidateQC(BlockQC[b]) /\ (BlockTC[b] # Nil => ValidateTC(BlockTC[b]))
    BY Zenon, <1>3, <2>1, <2>2 DEF ValidQCs, ValidTCs
  <2>4. validateEvidenceForEnteringView(BlockView[b], BlockQC[b], BlockTC[b])
    BY Zenon, <2>1, <2>2
  <2>5. ValidCertificates(b)
    BY Zenon, <2>3, <2>4 DEF validateEvidenceForEnteringView, ValidCertificates
  <2> QED
    BY Zenon, <2>1, <2>4, <2>5
<1>6. ASSUME NEW b \in OwnProposals(ld), mayPropose, SignVote(r, b)
      PROVE  Signs(r, ld, f)
  <2>1. SignOwnProposal(r, b)
    BY Zenon, <1>5, <1>6 DEF SignOwnProposal
  <2>2. BlockView[b] <= ld.CurrentView /\ BlockView[BlockQC[b]] <= BlockView[ld.NewestQC]
    BY <1>3, <1>5
  <2> QED
    BY Zenon, <1>5, <1>6, <2>1, <2>2 DEF Signs, SignsVote
<1>7. ASSUME NEW b \in OwnProposals(ld)
      PROVE  isSafeToVote(safetyData[r], b) \/ NoVote(safetyData[r], r, b)
  <2>1. BlockView[b] >= safetyData[r].HighestAcknowledgedView
    BY Zenon, <1>3, <1>5
  <2> QED
    BY Zenon, <1>5, <2>1 DEF isSafeToVote, NoVote
<1> QED
  BY Zenon, <1>2, <1>4, <1>6, <1>7 DEF proposeForNewViewIfPrimary

(* A replica votes for a valid proposal of the current view whose parent   *)
(* it knows, or has a reason not to; SafetyRules raise no error (ownVote). *)
LEMMA VotingIsSound ==
    ASSUME SafetyInvariant, NEW r \in Honest, NEW ld, NEW f, NEW b \in Blocks,
           SoundLivenessData(ld, ValidQCs, ValidTCs),
           safetyData[r].HighestAcknowledgedView <= ld.CurrentView,
           ValidateProposal(b), BlockView[b] = ld.CurrentView, BlockQC[b] \in f.blocks,
           BlockView[BlockQC[b]] <= BlockView[ld.NewestQC],
           ownVote(r, b, f)
    PROVE  Signs(r, ld, f) /\ exceptions' = exceptions
<1>1. SignsNothing => Signs(r, ld, f) /\ exceptions' = exceptions
  BY Zenon DEF SignsNothing, Signs
<1>2. /\ BlockView[b] \in Nat /\ BlockView[BlockQC[b]] \in Nat
      /\ BlockTC[b] \in OptionalTC /\ BlockView[BlockQC[b]] < BlockView[b]
      /\ safetyData[r].HighestAcknowledgedView \in Nat
  BY Zenon, BlockTreeAssumption
     DEF ValidateProposal, SafetyInvariant, SafetyRulesTypeOK, SafetyDataType
<1>3. ValidCertificates(b)
  BY Zenon DEF ValidateProposal
<1>4. validateEvidenceForEnteringView(BlockView[b], BlockQC[b], BlockTC[b])
  BY Zenon, <1>2, <1>3 DEF ValidCertificates, validateEvidenceForEnteringView
<1>5. BlockView[b] >= safetyData[r].HighestAcknowledgedView
  BY Zenon, <1>2
<1>6. isSafeToVote(safetyData[r], b) \/ NoVote(safetyData[r], r, b)
  BY Zenon, <1>4, <1>5 DEF isSafeToVote, NoVote
<1>7. ASSUME SignVote(r, b) PROVE Signs(r, ld, f)
  <2>1. BlockView[b] <= ld.CurrentView
    BY <1>2
  <2> QED
    BY Zenon, <1>7, <2>1 DEF Signs, SignsVote, ProduceVote
<1> QED
  BY Zenon, <1>1, <1>6, <1>7 DEF ownVote

(* A replica can time out in its current view, or is not a member of the   *)
(* committee; SafetyRules raise no error                                   *)
(* (broadcastTimeoutObjectIfAuthorized).                                   *)
LEMMA TimingOutIsSound ==
    ASSUME SafetyInvariant, NEW r \in Honest, NEW ld, NEW f,
           SoundLivenessData(ld, ValidQCs, ValidTCs), ld.CurrentView \in TimeoutViews,
           safetyData[r].HighestAcknowledgedView <= ld.CurrentView,
           safetyData[r].LockedOneChainView <= BlockView[ld.NewestQC],
           broadcastTimeoutObjectIfAuthorized(r, ld)
    PROVE  Signs(r, ld, f) /\ exceptions' = exceptions
<1>1. SignsNothing => Signs(r, ld, f) /\ exceptions' = exceptions
  BY Zenon DEF SignsNothing, Signs
<1>2. Certificates(ValidQCs, ValidTCs)
  BY Zenon, CommitteeAgrees
<1>3. /\ ld.CurrentView \in Nat /\ ld.NewestQC \in ValidQCs /\ BlockView[ld.NewestQC] \in Nat
      /\ safetyData[r].HighestAcknowledgedView \in Nat /\ safetyData[r].LockedOneChainView \in Nat
  BY ZenonT(60), <1>2, CertificateTypes, BlockTreeAssumption
     DEF SoundLivenessData, SafetyInvariant, SafetyRulesTypeOK, SafetyDataType
<1>4. /\ validateEvidenceForEnteringView(ld.CurrentView, ld.NewestQC, EvidenceTC(ld))
      /\ EvidenceTC(ld) \in ValidTCs \cup {Nil}
  BY Zenon, <1>2, EvidenceIsValid
<1>5. /\ BlockView[ld.NewestQC] >= safetyData[r].LockedOneChainView
      /\ ld.CurrentView + 1 > safetyData[r].HighestAcknowledgedView
  BY <1>3
<1>6. IsSafeToTimeout(safetyData[r], ld.CurrentView, ld.NewestQC, EvidenceTC(ld))
  BY Zenon, <1>4, <1>5 DEF IsSafeToTimeout
<1>7. RepeatTimeout(r, ld.CurrentView) => Signs(r, ld, f)
  BY Zenon DEF Signs, SignsTimeout
<1>8. ProduceTimeout(r, ld.CurrentView, ld.NewestQC, EvidenceTC(ld)) => Signs(r, ld, f)
  BY Zenon, <1>3, <1>4 DEF Signs, SignsTimeout
<1> QED
  BY Zenon, <1>1, <1>6, <1>7, <1>8 DEF broadcastTimeoutObjectIfAuthorized

(* A valid proposal of the current view never forks off below the          *)
(* finalized block, so that Forks still has its parent.                    *)
LEMMA ParentIsKnown ==
    ASSUME SafetyInvariant, NEW ld, NEW f, NEW b \in Blocks,
           SoundLivenessData(ld, ValidQCs, ValidTCs),
           SoundForks(f, ValidBlocks, FinalizedBlocks),
           f.finalized = Root \/ FinalizedView(f) + 1 <= BlockView[ld.NewestQC],
           ValidateProposal(b), BlockView[b] = ld.CurrentView, Has(f, BlockQC[b])
    PROVE  BlockQC[b] \in f.blocks
<1>1. /\ b # Root /\ ValidCertificates(b)
      /\ \A x \in Blocks : BlockView[x] \in Nat /\ BlockQC[x] \in Blocks
  BY Zenon, BlockTreeAssumption DEF ValidateProposal
<1>2. f.finalized \in Blocks /\ FinalizedView(f) = BlockView[f.finalized]
  BY Zenon DEF SoundForks, ForksType, FinalizedView
<1>3. SUFFICES ASSUME BlockView[BlockQC[b]] < BlockView[f.finalized] PROVE FALSE
  BY Zenon, <1>2 DEF Has
<1>4. f.finalized # Root
  <2>1. BlockQC[b] = Root \/ BlockView[Root] < BlockView[BlockQC[b]]
    BY Zenon, <1>1, BlockTreeAssumption
  <2> QED
    BY <1>1, <1>2, <1>3, <2>1, BlockTreeAssumption
<1>5. PICK d \in ValidQCs \ {Root} : BlockQC[d] = f.finalized /\ BlockView[d] = BlockView[BlockQC[d]] + 1
  BY Zenon, <1>4 DEF SoundForks, FinalizedBlocks, CertifiedBlocks
<1>6. d \in Blocks /\ d # Root /\ ValidateQC(d)
  BY Zenon, <1>5 DEF ValidQCs
<1>7. BlockView[d] < BlockView[b]
  <2>1. BlockView[ld.NewestQC] < BlockView[b] /\ ld.NewestQC \in Blocks
    BY Zenon DEF SoundLivenessData, ValidQCs
  <2>2. BlockView[d] <= BlockView[ld.NewestQC]
    BY Zenon, <1>2, <1>4, <1>5
  <2> QED
    BY <1>1, <1>6, <2>1, <2>2
<1>8. BlockView[f.finalized] <= BlockView[BlockQC[b]]
  BY Zenon, <1>1, <1>2, <1>5, <1>6, <1>7, ParentNotBelowFinalized
<1> QED
  BY <1>1, <1>2, <1>3, <1>8
-----------------------------------------------------------------------------
(***************************************************************************)
(* The handlers.                                                           *)
(***************************************************************************)
(* What a handler can rely on when it is called.                           *)
LEMMA HandlerContext ==
    ASSUME ParticipantInvariant, NEW r \in Participants
    PROVE  /\ SafetyInvariant /\ r \in Honest /\ exceptions = {}
           /\ Agreement(ValidBlocks, ValidQCs, FinalizedBlocks)
           /\ FinalizedBlocks \subseteq ValidQCs
           /\ Certificates(ValidQCs, ValidTCs)
           /\ livenessData \in [Participants -> LivenessDataType]
           /\ forks \in [Participants -> ForksType]
           /\ SoundLivenessData(livenessData[r], ValidQCs, ValidTCs)
           /\ NotAhead(livenessData[r], livenessData[r])
           /\ SoundForks(forks[r], ValidBlocks, FinalizedBlocks)
           /\ IsFiniteSet(Signed(r))
           /\ \A b \in Signed(r) : Has(forks[r], BlockQC[b])
           /\ \/ forks[r].finalized = Root
              \/ FinalizedView(forks[r]) + 1 <= BlockView[livenessData[r].NewestQC]
           /\ FinalizedView(forks[r]) \in Nat
<1>1. /\ SafetyInvariant /\ r \in Honest
      /\ livenessData \in [Participants -> LivenessDataType] /\ forks \in [Participants -> ForksType]
      /\ SoundParticipant(safetyData[r], Signed(r), livenessData[r], forks[r],
                          ValidQCs, ValidTCs, ValidBlocks, FinalizedBlocks)
      /\ exceptions = {}
  BY Zenon, ParticipantAssumption DEF ParticipantInvariant
<1>2. NotAhead(livenessData[r], livenessData[r])
  <2>1. livenessData[r].CurrentView \in Nat /\ livenessData[r].NewestQC \in Blocks
    BY Zenon, <1>1 DEF LivenessDataType
  <2>2. BlockView[livenessData[r].NewestQC] \in Nat
    BY Zenon, <2>1, BlockTreeAssumption
  <2> QED
    BY <2>1, <2>2 DEF NotAhead
<1>3. FinalizedView(forks[r]) \in Nat
  BY Zenon, <1>1, BlockTreeAssumption DEF ForksType, FinalizedView
<1> QED
  BY Zenon, <1>1, <1>2, <1>3, CommitteeAgrees DEF SoundParticipant

(* SafetyData stays within LivenessData that moves forward.                *)
LEMMA SafetyDataIsWithin ==
    ASSUME ParticipantInvariant, NEW r \in Participants,
           NEW ld, SoundLivenessData(ld, ValidQCs, ValidTCs), NotAhead(livenessData[r], ld)
    PROVE  /\ safetyData[r].HighestAcknowledgedView <= ld.CurrentView
           /\ safetyData[r].LockedOneChainView <= BlockView[ld.NewestQC]
           /\ \/ forks[r].finalized = Root
              \/ FinalizedView(forks[r]) + 1 <= BlockView[ld.NewestQC]
<1>1. /\ SafetyInvariant /\ r \in Honest /\ Certificates(ValidQCs, ValidTCs)
      /\ SoundLivenessData(livenessData[r], ValidQCs, ValidTCs)
      /\ FinalizedView(forks[r]) \in Nat
  BY Zenon, HandlerContext
<1>2. /\ ld.CurrentView \in Nat /\ BlockView[ld.NewestQC] \in Nat
      /\ livenessData[r].CurrentView \in Nat /\ BlockView[livenessData[r].NewestQC] \in Nat
  BY Zenon, <1>1, CertificateTypes DEF SoundLivenessData
<1>3. safetyData[r].HighestAcknowledgedView \in Nat /\ safetyData[r].LockedOneChainView \in Nat
  BY Zenon, <1>1, BlockTreeAssumption DEF SafetyInvariant, SafetyRulesTypeOK, SafetyDataType
<1>4. /\ safetyData[r].HighestAcknowledgedView <= livenessData[r].CurrentView
      /\ safetyData[r].LockedOneChainView <= BlockView[livenessData[r].NewestQC]
      /\ \/ forks[r].finalized = Root
         \/ FinalizedView(forks[r]) + 1 <= BlockView[livenessData[r].NewestQC]
  BY Zenon DEF ParticipantInvariant, SoundParticipant
<1>5. /\ livenessData[r].CurrentView <= ld.CurrentView
      /\ BlockView[livenessData[r].NewestQC] <= BlockView[ld.NewestQC]
  BY Zenon DEF NotAhead
<1> QED
  BY SMTT(30), <1>1, <1>2, <1>3, <1>4, <1>5

(* A handler that leaves Forks alone.                                      *)
LEMMA HandlerWithoutForks ==
    ASSUME ParticipantInvariant, NEW r \in Participants,
           NEW ld, SoundLivenessData(ld, ValidQCs, ValidTCs), NotAhead(livenessData[r], ld),
           livenessData' = [livenessData EXCEPT ![r] = ld], forks' = forks,
           Signs(r, ld, forks[r]), exceptions' = exceptions
    PROVE  ParticipantStep(r, ld, forks[r])
<1>1. /\ forks \in [Participants -> ForksType]
      /\ SoundForks(forks[r], ValidBlocks, FinalizedBlocks)
      /\ \A b \in Signed(r) : Has(forks[r], BlockQC[b])
      /\ FinalizedView(forks[r]) \in Nat
  BY Zenon, HandlerContext
<1>2. forks' = [forks EXCEPT ![r] = forks[r]]
  BY Zenon, <1>1
<1>3. FinalizedView(forks[r]) <= FinalizedView(forks[r])
  BY <1>1
<1> QED
  BY Zenon, <1>1, <1>2, <1>3, SafetyDataIsWithin DEF ParticipantStep

(* Start                                                                   *)
LEMMA StartIsSound ==
    ASSUME ParticipantInvariant, NEW r \in Participants, Start(r)
    PROVE  \E ld, f : ParticipantStep(r, ld, f)
<1>1. /\ SafetyInvariant /\ r \in Honest
      /\ livenessData \in [Participants -> LivenessDataType]
      /\ SoundLivenessData(livenessData[r], ValidQCs, ValidTCs)
      /\ NotAhead(livenessData[r], livenessData[r])
  BY Zenon, HandlerContext
<1>2. /\ livenessData' = [livenessData EXCEPT ![r] = livenessData[r]] /\ forks' = forks
      /\ proposeForNewViewIfPrimary(r, livenessData[r], forks[r])
  BY Zenon, <1>1 DEF Start
<1>3. Signs(r, livenessData[r], forks[r]) /\ exceptions' = exceptions
  BY Zenon, <1>1, <1>2, ProposingIsSound, SafetyDataIsWithin
<1> QED
  BY Zenon, <1>1, <1>2, <1>3, HandlerWithoutForks

(* OnLocalTimeout                                                          *)
LEMMA OnLocalTimeoutIsSound ==
    ASSUME ParticipantInvariant, NEW r \in Participants, OnLocalTimeout(r)
    PROVE  \E ld, f : ParticipantStep(r, ld, f)
<1>1. /\ SafetyInvariant /\ r \in Honest
      /\ livenessData \in [Participants -> LivenessDataType]
      /\ SoundLivenessData(livenessData[r], ValidQCs, ValidTCs)
      /\ NotAhead(livenessData[r], livenessData[r])
  BY Zenon, HandlerContext
<1>2. /\ livenessData' = [livenessData EXCEPT ![r] = livenessData[r]] /\ forks' = forks
      /\ livenessData[r].CurrentView \in TimeoutViews
      /\ broadcastTimeoutObjectIfAuthorized(r, livenessData[r])
  BY Zenon, <1>1 DEF OnLocalTimeout
<1>3. Signs(r, livenessData[r], forks[r]) /\ exceptions' = exceptions
  BY Zenon, <1>1, <1>2, TimingOutIsSound, SafetyDataIsWithin
<1> QED
  BY Zenon, <1>1, <1>2, <1>3, HandlerWithoutForks

(* OnReceiveQc and OnReceiveTc                                             *)
LEMMA EnterViewIsSound ==
    ASSUME ParticipantInvariant, NEW r \in Participants,
           NEW ld, SoundLivenessData(ld, ValidQCs, ValidTCs), NotAhead(livenessData[r], ld),
           EnterView(r, ld)
    PROVE  \E new, f : ParticipantStep(r, new, f)
<1>1. SafetyInvariant /\ r \in Honest
  BY Zenon, HandlerContext
<1>2. /\ livenessData' = [livenessData EXCEPT ![r] = ld] /\ forks' = forks
      /\ SignsNothing \/ proposeForNewViewIfPrimary(r, ld, forks[r])
  BY Zenon DEF EnterView
<1>3. Signs(r, ld, forks[r]) /\ exceptions' = exceptions
  <2>1. CASE SignsNothing
    BY Zenon, <2>1 DEF SignsNothing, Signs
  <2>2. CASE proposeForNewViewIfPrimary(r, ld, forks[r])
    BY Zenon, <1>1, <2>2, ProposingIsSound, SafetyDataIsWithin
  <2> QED
    BY Zenon, <1>2, <2>1, <2>2
<1> QED
  BY Zenon, <1>2, <1>3, HandlerWithoutForks

(* The PaceMaker processes a QC and possibly a TC.                         *)
LEMMA ProcessBothIsSound ==
    ASSUME ParticipantInvariant, NEW r \in Participants,
           NEW qc \in ValidQCs, NEW tc \in ValidTCs \cup {Nil}
    PROVE  LET ld == ProcessTC(ProcessQC(livenessData[r], qc), tc)
           IN  /\ SoundLivenessData(ld, ValidQCs, ValidTCs)
               /\ NotAhead(livenessData[r], ld)
               /\ BlockView[qc] <= BlockView[ld.NewestQC]
<1> DEFINE mid == ProcessQC(livenessData[r], qc)
           ld == ProcessTC(mid, tc)
<1>1. Certificates(ValidQCs, ValidTCs) /\ SoundLivenessData(livenessData[r], ValidQCs, ValidTCs)
  BY Zenon, HandlerContext
<1>2. /\ SoundLivenessData(mid, ValidQCs, ValidTCs) /\ NotAhead(livenessData[r], mid)
      /\ BlockView[qc] <= BlockView[mid.NewestQC]
  BY Zenon, <1>1, ProcessQCIsSound
<1> HIDE DEF mid
<1>3. SoundLivenessData(ld, ValidQCs, ValidTCs) /\ NotAhead(mid, ld)
  BY Zenon, <1>1, <1>2, ProcessTCIsSound
<1> HIDE DEF ld
<1>4. NotAhead(livenessData[r], ld)
  BY Zenon, <1>1, <1>2, <1>3, NotAheadTransitive
<1>5. BlockView[qc] <= BlockView[ld.NewestQC]
  <2>1. BlockView[qc] \in Nat /\ BlockView[mid.NewestQC] \in Nat /\ BlockView[ld.NewestQC] \in Nat
    BY Zenon, <1>1, <1>2, <1>3, CertificateTypes DEF SoundLivenessData
  <2>2. BlockView[mid.NewestQC] <= BlockView[ld.NewestQC]
    BY Zenon, <1>3 DEF NotAhead
  <2> QED
    BY <1>2, <2>1, <2>2
<1> QED
  BY Zenon, <1>3, <1>4, <1>5 DEF ld, mid

(* OnPartialTcCreated                                                      *)
LEMMA OnPartialTcCreatedIsSound ==
    ASSUME ParticipantInvariant, NEW r \in Participants, NEW view \in TimeoutViews,
           NEW qc \in ValidQCs, NEW tc \in ValidTCs \cup {Nil}, OnPartialTcCreated(r, view, qc, tc)
    PROVE  \E ld, f : ParticipantStep(r, ld, f)
<1> DEFINE ld == ProcessTC(ProcessQC(livenessData[r], qc), tc)
<1>1. SafetyInvariant /\ r \in Honest
  BY Zenon, HandlerContext
<1>2. SoundLivenessData(ld, ValidQCs, ValidTCs) /\ NotAhead(livenessData[r], ld)
  BY Zenon, ProcessBothIsSound
<1>3. /\ livenessData' = [livenessData EXCEPT ![r] = ld] /\ forks' = forks
      /\ SignsNothing \/ (ld.CurrentView = view /\ broadcastTimeoutObjectIfAuthorized(r, ld))
  BY Zenon DEF OnPartialTcCreated
<1> HIDE DEF ld
<1>4. Signs(r, ld, forks[r]) /\ exceptions' = exceptions
  <2>1. CASE SignsNothing
    BY Zenon, <2>1 DEF SignsNothing, Signs
  <2>2. CASE ld.CurrentView = view /\ broadcastTimeoutObjectIfAuthorized(r, ld)
    BY Zenon, <1>1, <1>2, <2>2, TimingOutIsSound, SafetyDataIsWithin
  <2> QED
    BY Zenon, <1>3, <2>1, <2>2
<1> QED
  BY Zenon, <1>2, <1>3, <1>4, HandlerWithoutForks

(* OnReceiveProposal                                                       *)
LEMMA OnReceiveProposalIsSound ==
    ASSUME ParticipantInvariant, NEW r \in Participants, NEW b \in Blocks, OnReceiveProposal(r, b)
    PROVE  \E ld, f : ParticipantStep(r, ld, f)
<1> DEFINE f == AddValidatedBlock(forks[r], b)
           ld == ProcessTC(ProcessQC(livenessData[r], BlockQC[b]), BlockTC[b])
<1>1. /\ SafetyInvariant /\ r \in Honest
      /\ Agreement(ValidBlocks, ValidQCs, FinalizedBlocks)
      /\ SoundForks(forks[r], ValidBlocks, FinalizedBlocks)
      /\ \A c \in Signed(r) : Has(forks[r], BlockQC[c])
      /\ FinalizedView(forks[r]) \in Nat
  BY Zenon, HandlerContext
<1>2. ValidateProposal(b) /\ Has(forks[r], BlockQC[b])
  BY Zenon DEF OnReceiveProposal, PassesCompliance, Has
<1>3. /\ b \in ValidBlocks \ {Root} /\ BlockQC[b] \in ValidQCs /\ BlockTC[b] \in ValidTCs \cup {Nil}
      /\ BlockQC[b] \in Blocks /\ BlockView[BlockQC[b]] \in Nat
  BY ZenonT(60), <1>2, BlockTreeAssumption
     DEF ValidateProposal, ValidCertificates, ValidBlocks, ValidQCs, ValidTCs, OptionalTC
<1>4. /\ SoundLivenessData(ld, ValidQCs, ValidTCs)
      /\ NotAhead(livenessData[r], ld)
      /\ BlockView[BlockQC[b]] <= BlockView[ld.NewestQC]
  BY ZenonT(60), <1>3, ProcessBothIsSound
<1>5. /\ SoundForks(f, ValidBlocks, FinalizedBlocks)
      /\ Extends(forks[r], f)
      /\ BlockQC[b] \in forks[r].blocks => BlockQC[b] \in f.blocks
      /\ \/ f.finalized = forks[r].finalized
         \/ BlockView[f.finalized] + 1 = BlockView[BlockQC[b]]
  BY SMTT(30), <1>1, <1>2, <1>3, AddValidatedBlockIsSound
<1>6. /\ livenessData' = [livenessData EXCEPT ![r] = ld]
      /\ forks' = [forks EXCEPT ![r] = f]
      /\ \/ BlockView[b] = ld.CurrentView /\ ownVote(r, b, f)
         \/ proposeForNewViewIfPrimary(r, ld, f)
  BY Zenon, <1>5 DEF OnReceiveProposal, SoundForks
<1> HIDE DEF ld, f
<1>7. /\ safetyData[r].HighestAcknowledgedView <= ld.CurrentView
      /\ forks[r].finalized = Root \/ FinalizedView(forks[r]) + 1 <= BlockView[ld.NewestQC]
  BY Zenon, <1>4, SafetyDataIsWithin
<1>8. Signs(r, ld, f) /\ exceptions' = exceptions
  <2>1. CASE BlockView[b] = ld.CurrentView /\ ownVote(r, b, f)
    <3>1. BlockQC[b] \in f.blocks
      BY ZenonT(60), <1>1, <1>2, <1>4, <1>5, <1>7, <2>1, ParentIsKnown
    <3> QED
      BY ZenonT(60), <1>1, <1>2, <1>4, <1>7, <2>1, <3>1, VotingIsSound
  <2>2. CASE proposeForNewViewIfPrimary(r, ld, f)
    BY Zenon, <1>1, <1>4, <1>7, <2>2, ProposingIsSound
  <2> QED
    BY Zenon, <1>6, <2>1, <2>2
<1>9. \A c \in Signed(r) : Has(f, BlockQC[c])
  BY Zenon, <1>1, <1>5, BlockTreeAssumption DEF Extends, Signed
<1>10. f.finalized = Root \/ FinalizedView(f) + 1 <= BlockView[ld.NewestQC]
  BY Zenon, <1>4, <1>5, <1>7 DEF FinalizedView
<1> QED
  BY ZenonT(60), <1>4, <1>5, <1>6, <1>8, <1>9, <1>10 DEF ParticipantStep, Extends

(* The blocks from which Forks is recovered are valid, finitely many, and  *)
(* include their ancestors above the finalized block (PendingBlocks).      *)
LEMMA PendingBlocksAreSound ==
    ASSUME ParticipantInvariant, NEW r \in Participants, NEW U \in SUBSET Blocks, IsFiniteSet(U),
           \A b \in U : PassesCompliance(r, b)
    PROVE  LET pending == PendingBlocks(r, U)
               final == forks[r].finalized
           IN  /\ pending \in SUBSET (ValidBlocks \ {Root})
               /\ IsFiniteSet(pending)
               /\ \A b \in pending : BlockQC[b] \in pending \cup {final}
               /\ \A b \in Signed(r) : BlockQC[b] \in pending \cup {final}
                                       \/ BlockView[BlockQC[b]] < BlockView[final]
<1> DEFINE pending == PendingBlocks(r, U)
           final == forks[r].finalized
           own == {b \in Blocks : <<r, b>> \in votes /\ LeaderForView[BlockView[b]] = r}
           all == forks[r].blocks \cup own \cup U
<1>1. /\ SafetyInvariant /\ r \in Honest
      /\ Agreement(ValidBlocks, ValidQCs, FinalizedBlocks)
      /\ SoundForks(forks[r], ValidBlocks, FinalizedBlocks)
      /\ IsFiniteSet(Signed(r))
      /\ \A b \in Signed(r) : Has(forks[r], BlockQC[b])
  BY Zenon, HandlerContext
<1>2. \A x \in Blocks : BlockView[x] \in Nat /\ BlockQC[x] \in Blocks
  BY Zenon, BlockTreeAssumption
<1>3. /\ final \in Blocks /\ final \in FinalizedBlocks /\ final \in forks[r].blocks
      /\ forks[r].blocks \subseteq ValidBlocks /\ IsFiniteSet(forks[r].blocks)
      /\ ValidBlocks \subseteq Blocks
      /\ FinalizedView(forks[r]) = BlockView[final]
  BY Zenon, <1>1 DEF SoundForks, ForksType, Agreement, FinalizedView
<1>4. Signed(r) \subseteq ValidBlocks \ {Root} /\ own \subseteq Signed(r)
  BY Zenon, <1>1 DEF SafetyInvariant, Signed, ValidBlocks
<1>5. U \subseteq ValidBlocks \ {Root}
  BY Zenon DEF PassesCompliance, ValidateProposal, ValidBlocks
<1>6. \A b \in all \ {Root} : Has(forks[r], BlockQC[b])
  <2>1. \A b \in forks[r].blocks \ {Root} : Has(forks[r], BlockQC[b])
    BY Zenon, <1>1 DEF SoundForks
  <2>2. \A b \in U : Has(forks[r], BlockQC[b])
    BY Zenon DEF PassesCompliance, Has
  <2> QED
    BY ZenonT(60), <1>1, <1>4, <2>1, <2>2
<1>7. pending = {b \in all \ {final} : final \in Ancestors[b]}
  BY Zenon DEF PendingBlocks
<1>8. all \subseteq ValidBlocks
  BY ZenonT(60), <1>3, <1>4, <1>5
<1>9. IsFiniteSet(all)
  <2>1. IsFiniteSet(own)
    BY ZenonT(60), <1>1, <1>4, FS_Subset
  <2> HIDE DEF own
  <2> QED
    BY Zenon, <1>3, <2>1, FS_Union
<1> HIDE DEF pending, all, own
<1>10. pending \in SUBSET (ValidBlocks \ {Root})
  <2>1. Root \notin pending
    BY Zenon, <1>7, AncestorsEquation
  <2> QED
    BY Zenon, <1>7, <1>8, <2>1
<1>11. IsFiniteSet(pending)
  <2>1. pending \subseteq all
    BY Zenon, <1>7
  <2> QED
    BY Zenon, <1>9, <2>1, FS_Subset
<1>12. ASSUME NEW c \in forks[r].blocks, c # final, final \in Ancestors[c]
       PROVE  c \in pending
  BY Zenon, <1>7, <1>12 DEF all
<1>13. ASSUME NEW b \in pending PROVE BlockQC[b] \in pending \cup {final}
  <2>1. /\ b \in Blocks \ {Root} /\ b # final /\ final \in Ancestors[b] /\ b \in all
        /\ BlockQC[b] \in Blocks
    BY ZenonT(60), <1>2, <1>3, <1>7, <1>10
  <2>2. final \in Ancestors[BlockQC[b]]
    BY Zenon, <2>1, AncestorsEquation
  <2>3. BlockView[final] <= BlockView[BlockQC[b]]
    BY ZenonT(60), <2>1, <2>2, AncestorsAreOlder
  <2>4. BlockQC[b] \in forks[r].blocks
    BY SMTT(30), <1>2, <1>3, <1>6, <2>1, <2>3 DEF Has
  <2> QED
    BY Zenon, <1>12, <2>2, <2>4
<1>14. ASSUME NEW b \in Signed(r), ~(BlockView[BlockQC[b]] < BlockView[final])
       PROVE  BlockQC[b] \in pending \cup {final}
  <2>1. /\ b \in ValidBlocks \ {Root} /\ b \in Blocks /\ BlockQC[b] \in Blocks
        /\ BlockQC[b] \in ValidQCs
    BY Zenon, <1>1, <1>2, <1>3, <1>4 DEF Agreement
  <2>2. BlockQC[b] \in forks[r].blocks
    BY ZenonT(60), <1>1, <1>3, <1>14 DEF Has
  <2>3. BlockView[final] <= BlockView[BlockQC[b]]
    BY SMTT(30), <1>2, <1>3, <1>14, <2>1
  <2>4. final \in Ancestors[BlockQC[b]]
    BY Zenon, <1>1, <1>3, <2>1, <2>3 DEF Agreement
  <2> QED
    BY Zenon, <1>12, <2>2, <2>4
<1> QED
  BY Zenon, <1>10, <1>11, <1>13, <1>14 DEF pending

(* Restart                                                                 *)
LEMMA RestartIsSound ==
    ASSUME ParticipantInvariant, NEW r \in Participants, NEW U \in SUBSET Blocks, IsFiniteSet(U),
           NEW ld \in PersistedBefore(r, ValidQCs, ValidTCs), Restart(r, U, ld)
    PROVE  \E new, f : ParticipantStep(r, new, f)
<1> DEFINE pending == PendingBlocks(r, U)
           final == forks[r].finalized
           f == RecoverForks(final, pending)
           Q == {BlockQC[b] : b \in pending}
           T == {BlockTC[b] : b \in pending} \ {Nil}
           new == WithTCs(WithQCs(ld, Q), T)
<1>1. /\ SafetyInvariant /\ r \in Honest
      /\ Agreement(ValidBlocks, ValidQCs, FinalizedBlocks)
      /\ Certificates(ValidQCs, ValidTCs)
      /\ SoundLivenessData(livenessData[r], ValidQCs, ValidTCs)
      /\ NotAhead(livenessData[r], livenessData[r])
      /\ SoundForks(forks[r], ValidBlocks, FinalizedBlocks)
  BY Zenon, HandlerContext
<1>2. /\ \A b \in U : PassesCompliance(r, b)
      /\ livenessData' = [livenessData EXCEPT ![r] = new]
      /\ forks' = [forks EXCEPT ![r] = f]
      /\ exceptions' = IF f.failed THEN exceptions \cup {r} ELSE exceptions
      /\ UNCHANGED srVars
  BY Zenon DEF Restart
<1>3. /\ pending \in SUBSET (ValidBlocks \ {Root}) /\ IsFiniteSet(pending)
      /\ \A b \in pending : BlockQC[b] \in pending \cup {final}
      /\ \A b \in Signed(r) : BlockQC[b] \in pending \cup {final}
                              \/ BlockView[BlockQC[b]] < BlockView[final]
  BY ZenonT(60), <1>2, PendingBlocksAreSound
<1> HIDE DEF pending
<1>4. SoundLivenessData(ld, ValidQCs, ValidTCs) /\ NotAhead(livenessData[r], ld)
  BY <1>1, ProcessBothIsSound DEF PersistedBefore
<1>5. Q \in SUBSET ValidQCs /\ IsFiniteSet(Q)
  <2>1. Q \in SUBSET ValidQCs
    BY ZenonT(60), <1>1, <1>3 DEF Agreement
  <2> DEFINE g == [b \in pending |-> BlockQC[b]]
  <2>2. g \in Surjection(pending, Q)
    BY Zenon DEF Surjection
  <2> HIDE DEF g, Q
  <2> QED
    BY Zenon, <1>3, <2>1, <2>2, FS_Surjection
<1>6. T \in SUBSET ValidTCs /\ IsFiniteSet(T)
  <2>1. T \in SUBSET ValidTCs
    BY <1>3, BlockTreeAssumption DEF ValidBlocks, ValidCertificates, ValidTCs, OptionalTC
  <2> DEFINE A == {BlockTC[b] : b \in pending}
             g == [b \in pending |-> BlockTC[b]]
  <2>2. g \in Surjection(pending, A)
    BY DEF Surjection
  <2>3. T \subseteq A
    BY Zenon
  <2> HIDE DEF g, A, T
  <2>4. IsFiniteSet(A)
    BY Zenon, <1>3, <2>2, FS_Surjection
  <2> QED
    BY Zenon, <2>1, <2>3, <2>4, FS_Subset
<1>7. /\ SoundLivenessData(new, ValidQCs, ValidTCs)
      /\ NotAhead(ld, new)
      /\ \A qc \in Q : BlockView[qc] <= BlockView[new.NewestQC]
  <2> HIDE DEF Q, T
  <2> QED
    BY ZenonT(30), <1>1, <1>4, <1>5, <1>6, RecoveryIsSound
<1>8. final \in ValidBlocks \cap FinalizedBlocks
  BY ZenonT(60), <1>1 DEF SoundForks
<1>9. /\ SoundForks(f, ValidBlocks, FinalizedBlocks)
      /\ BlockView[final] <= FinalizedView(f)
      /\ \A b \in pending \cup {final} : Has(f, b)
      /\ \/ f.finalized = final
         \/ \E e \in pending : BlockView[f.finalized] + 1 = BlockView[BlockQC[e]]
  BY SMTT(30), <1>1, <1>3, <1>8, RecoverForksIsSound
<1> HIDE DEF f, new
<1>10. NotAhead(livenessData[r], new)
  BY Zenon, <1>1, <1>4, <1>7, NotAheadTransitive
<1>11. exceptions' = exceptions
  BY ZenonT(30), <1>2, <1>9 DEF SoundForks
<1>12. FinalizedView(forks[r]) <= FinalizedView(f)
  BY Zenon, <1>9 DEF FinalizedView
<1>13. ASSUME NEW b \in Signed(r) PROVE Has(f, BlockQC[b])
  <2>1. CASE BlockQC[b] \in pending \cup {final}
    BY ZenonT(60), <1>9, <2>1
  <2>2. CASE BlockView[BlockQC[b]] < BlockView[final]
    <3>1. /\ BlockView[BlockQC[b]] \in Nat /\ BlockView[final] \in Nat /\ FinalizedView(f) \in Nat
      BY Zenon, <1>1, <1>9, BlockTreeAssumption DEF Signed, SoundForks, ForksType, FinalizedView
    <3> QED
      BY <1>9, <2>2, <3>1 DEF Has
  <2> QED
    BY Zenon, <1>3, <2>1, <2>2
<1>14. f.finalized = Root \/ FinalizedView(f) + 1 <= BlockView[new.NewestQC]
  <2>1. CASE f.finalized = final
    BY Zenon, <1>7, <1>10, <2>1, SafetyDataIsWithin DEF FinalizedView
  <2>2. CASE \E e \in pending : BlockView[f.finalized] + 1 = BlockView[BlockQC[e]]
    BY Zenon, <1>7, <2>2 DEF FinalizedView
  <2> QED
    BY Zenon, <1>9, <2>1, <2>2
<1>15. Signs(r, new, f)
  BY Zenon, <1>2 DEF Signs
<1> QED
  BY ZenonT(60), <1>2, <1>7, <1>9, <1>10, <1>11, <1>12, <1>13, <1>14, <1>15 DEF ParticipantStep
-----------------------------------------------------------------------------
(***************************************************************************)
(* The theorems.                                                           *)
(***************************************************************************)
(* The participants start in a state that satisfies the invariant.         *)
LEMMA ParticipantsStartSound == Init => ParticipantInvariant
<1> SUFFICES ASSUME Init PROVE ParticipantInvariant
  BY Zenon
<1>1. SafetyInvariant
  <2>1. SafetyRulesTypeOK
    BY Zenon, BlockTreeAssumption DEF Init, SafetyRulesInit, SafetyRulesTypeOK, SafetyDataType
  <2> QED
    BY Zenon, <2>1 DEF Init, SafetyRulesInit, SafetyInvariant, TimeoutsRespectLock
<1>2. /\ livenessData = [r \in Participants |-> InitialLivenessData]
      /\ forks = [r \in Participants |-> NewForks(Root)]
      /\ exceptions = {} /\ votes = {}
      /\ \A r \in Honest : safetyData[r].HighestAcknowledgedView = BlockView[Root]
      /\ \A r \in Honest : safetyData[r].LockedOneChainView = BlockView[Root]
  BY Zenon DEF Init, SafetyRulesInit
<1>3. Root \in Blocks /\ BlockView[Root] \in Nat /\ Root \in ValidQCs /\ Root \in ValidBlocks
      /\ Root \in FinalizedBlocks
  BY Zenon, BlockTreeAssumption DEF ValidQCs, ValidateQC, ValidBlocks, FinalizedBlocks
<1> DEFINE ld == InitialLivenessData
           f == NewForks(Root)
<1>4. /\ ld.CurrentView = BlockView[Root] + 1 /\ ld.NewestQC = Root /\ ld.LastViewTC = Nil
      /\ ld \in [CurrentView : Nat, NewestQC : ValidQCs, LastViewTC : ValidTCs \cup {Nil}]
      /\ ld \in LivenessDataType
  BY <1>3 DEF InitialLivenessData, LivenessDataType, OptionalTC
<1>5. /\ f \in ForksType /\ f.blocks = {Root} /\ f.finalized = Root /\ f.failed = FALSE
  BY Zenon, <1>3 DEF NewForks, ForksType
<1> HIDE DEF ld, f
<1>6. SoundLivenessData(ld, ValidQCs, ValidTCs)
  BY <1>3, <1>4 DEF SoundLivenessData
<1>7. SoundForks(f, ValidBlocks, FinalizedBlocks)
  BY ZenonT(60), <1>3, <1>5, FS_Singleton DEF SoundForks
<1>8. ASSUME NEW r \in Participants
      PROVE  SoundParticipant(safetyData[r], Signed(r), ld, f,
                              ValidQCs, ValidTCs, ValidBlocks, FinalizedBlocks)
  <2>1. Signed(r) = {}
    BY Zenon, <1>2 DEF Signed
  <2>2. r \in Honest
    BY Zenon, ParticipantAssumption
  <2> QED
    BY <1>2, <1>3, <1>4, <1>5, <1>6, <1>7, <2>1, <2>2, FS_EmptySet DEF SoundParticipant
<1> QED
  BY ZenonT(60), <1>1, <1>2, <1>4, <1>5, <1>8 DEF ParticipantInvariant, ld, f

(* Every step preserves the invariant, is a step of SafetyRules or signs   *)
(* nothing, and takes nothing back.                                        *)
LEMMA ParticipantInvariantStep ==
    ParticipantInvariant /\ [Next]_vars =>
       ParticipantInvariant' /\ [SafetyRulesNext]_srVars /\ MovesForward
<1> SUFFICES ASSUME ParticipantInvariant, [Next]_vars
             PROVE  ParticipantInvariant' /\ [SafetyRulesNext]_srVars /\ MovesForward
  BY Zenon
<1>1. CASE UNCHANGED vars
  BY Zenon, <1>1, OtherStepIsSound DEF vars
<1>2. CASE SafetyRulesStep(Honest \ Participants) /\ UNCHANGED localVars
  BY Zenon, <1>2, OtherStepIsSound
<1>3. ASSUME NEW r \in Participants, \E ld, f : ParticipantStep(r, ld, f)
      PROVE  ParticipantInvariant' /\ [SafetyRulesNext]_srVars /\ MovesForward
  BY Zenon, <1>3, ParticipantStepIsSound
<1>4. ASSUME NEW r \in Participants, Start(r)
      PROVE  \E ld, f : ParticipantStep(r, ld, f)
  BY Zenon, <1>4, StartIsSound
<1>5. ASSUME NEW r \in Participants, OnLocalTimeout(r)
      PROVE  \E ld, f : ParticipantStep(r, ld, f)
  BY Zenon, <1>5, OnLocalTimeoutIsSound
<1>6. ASSUME NEW r \in Participants, NEW b \in Blocks, OnReceiveProposal(r, b)
      PROVE  \E ld, f : ParticipantStep(r, ld, f)
  BY Zenon, <1>6, OnReceiveProposalIsSound
<1>7. ASSUME NEW r \in Participants, NEW qc \in ValidQCs, OnReceiveQc(r, qc)
      PROVE  \E ld, f : ParticipantStep(r, ld, f)
  <2>1. Certificates(ValidQCs, ValidTCs) /\ SoundLivenessData(livenessData[r], ValidQCs, ValidTCs)
    BY Zenon, HandlerContext
  <2> QED
    BY Zenon, <1>7, <2>1, ProcessQCIsSound, EnterViewIsSound DEF OnReceiveQc
<1>8. ASSUME NEW r \in Participants, NEW tc \in ValidTCs, OnReceiveTc(r, tc)
      PROVE  \E ld, f : ParticipantStep(r, ld, f)
  <2>1. Certificates(ValidQCs, ValidTCs) /\ SoundLivenessData(livenessData[r], ValidQCs, ValidTCs)
    BY Zenon, HandlerContext
  <2> QED
    BY ZenonT(60), <1>8, <2>1, ProcessTCIsSound, EnterViewIsSound DEF OnReceiveTc
<1>9. ASSUME NEW r \in Participants, NEW v \in TimeoutViews, NEW qc \in ValidQCs,
             NEW tc \in ValidTCs \cup {Nil}, OnPartialTcCreated(r, v, qc, tc)
      PROVE  \E ld, f : ParticipantStep(r, ld, f)
  BY Zenon, <1>9, OnPartialTcCreatedIsSound
<1>10. ASSUME NEW r \in Participants, NEW ld \in PersistedBefore(r, ValidQCs, ValidTCs),
              Restart(r, {}, ld) \/ \E b \in Blocks : Restart(r, {b}, ld)
       PROVE  \E new, f : ParticipantStep(r, new, f)
  <2>1. CASE Restart(r, {}, ld)
    BY Zenon, <2>1, RestartIsSound, FS_EmptySet
  <2>2. ASSUME NEW b \in Blocks, Restart(r, {b}, ld)
        PROVE  \E new, f : ParticipantStep(r, new, f)
    <3>1. {b} \in SUBSET Blocks /\ IsFiniteSet({b})
      BY Zenon, FS_Singleton
    <3> QED
      BY ZenonT(60), <2>2, <3>1, RestartIsSound
  <2> QED
    BY Zenon, <1>10, <2>1, <2>2
<1> QED
  BY Zenon, <1>1, <1>2, <1>3, <1>4, <1>5, <1>6, <1>7, <1>8, <1>9, <1>10 DEF Next

(* ParticipantInvariant is an invariant of the participants.               *)
THEOREM ParticipantInvariantHolds == Spec => []ParticipantInvariant
BY ParticipantsStartSound, ParticipantInvariantStep, PTL DEF Spec

(* The event handlers of participants, with all their crashes, implement   *)
(* SafetyRules: what the committee certifies and finalizes is safe.        *)
THEOREM ParticipantsFollowSafetyRules == Spec => SafetyRulesSpec
<1>1. Init => SafetyRulesInit
  BY Zenon DEF Init
<1> QED
  BY <1>1, ParticipantInvariantHolds, ParticipantInvariantStep, PTL DEF Spec, SafetyRulesSpec

(* No handler ever runs into an error, in whatever order valid proposals,  *)
(* certificates, timeouts and crashes arrive.                              *)
THEOREM ParticipantsNeverFail == Spec => []NoException
<1>1. ParticipantInvariant => NoException
  BY Zenon DEF ParticipantInvariant, NoException
<1> QED
  BY <1>1, ParticipantInvariantHolds, PTL

(* Nothing is signed beyond the current view and the newest QC.            *)
THEOREM ParticipantsSignWithinLivenessData == Spec => []SafetyDataWithinLivenessData
<1>1. ParticipantInvariant => SafetyDataWithinLivenessData
  BY Zenon DEF ParticipantInvariant, SoundParticipant, SafetyDataWithinLivenessData
<1> QED
  BY <1>1, ParticipantInvariantHolds, PTL

(* The view, newest QC and TC of a participant always fit together as the  *)
(* evidence for having entered the view that SafetyRules asks for, after   *)
(* whatever sequence of certificates, proposals and crashes.               *)
THEOREM ParticipantsHaveEvidence == Spec => []EvidenceForCurrentView
<1>1. ParticipantInvariant => EvidenceForCurrentView
  <2> SUFFICES ASSUME ParticipantInvariant, NEW r \in Participants
               PROVE  validateEvidenceForEnteringView(livenessData[r].CurrentView,
                          livenessData[r].NewestQC, EvidenceTC(livenessData[r]))
    BY Zenon DEF EvidenceForCurrentView
  <2>1. Certificates(ValidQCs, ValidTCs) /\ SoundLivenessData(livenessData[r], ValidQCs, ValidTCs)
    BY Zenon, HandlerContext
  <2> QED
    BY ZenonT(60), <2>1, EvidenceIsValid
<1> QED
  BY <1>1, ParticipantInvariantHolds, PTL

(* A participant emits at most one own proposal per view, across crashes.  *)
THEOREM ParticipantsNeverEquivocate == Spec => []NoProposalEquivocation
<1>1. ParticipantInvariant => NoProposalEquivocation
  BY ZenonT(30), ParticipantAssumption DEF ParticipantInvariant, SafetyInvariant, NoProposalEquivocation
<1> QED
  BY <1>1, ParticipantInvariantHolds, PTL

(* All participants finalize blocks of one chain, the one the committee    *)
(* has finalized.                                                          *)
THEOREM ParticipantsAgree == Spec => []ForksFinalizesAgreedBlocks
<1>1. ParticipantInvariant => ForksFinalizesAgreedBlocks
  <2> SUFFICES ASSUME ParticipantInvariant, NEW r \in Participants, NEW s \in Participants
               PROVE  /\ forks[r].finalized \in FinalizedBlocks
                      /\ \/ forks[s].finalized \in Ancestors[forks[r].finalized]
                         \/ forks[r].finalized \in Ancestors[forks[s].finalized]
    BY Zenon DEF ForksFinalizesAgreedBlocks
  <2>1. /\ Agreement(ValidBlocks, ValidQCs, FinalizedBlocks) /\ FinalizedBlocks \subseteq ValidQCs
        /\ SoundForks(forks[r], ValidBlocks, FinalizedBlocks)
        /\ SoundForks(forks[s], ValidBlocks, FinalizedBlocks)
    BY Zenon, HandlerContext
  <2>2. /\ forks[r].finalized \in FinalizedBlocks /\ forks[s].finalized \in FinalizedBlocks
        /\ BlockView[forks[r].finalized] \in Nat /\ BlockView[forks[s].finalized] \in Nat
    BY ZenonT(60), <2>1, BlockTreeAssumption DEF SoundForks, ForksType
  <2>3. \/ BlockView[forks[r].finalized] <= BlockView[forks[s].finalized]
        \/ BlockView[forks[s].finalized] <= BlockView[forks[r].finalized]
    BY <2>2
  <2> QED
    BY Zenon, <2>1, <2>2, <2>3 DEF Agreement
<1> QED
  BY <1>1, ParticipantInvariantHolds, PTL

(* Finalization, view, newest QC, lock and highest acknowledged view never *)
(* move backwards, across all crashes.                                     *)
THEOREM ParticipantsNeverMoveBackwards == Spec => NothingMovesBackwards
<1>1. ParticipantInvariant /\ [Next]_vars => [MovesForward]_vars
  BY Zenon, ParticipantInvariantStep
<1> QED
  BY <1>1, ParticipantInvariantHolds, PTL DEF Spec, NothingMovesBackwards
=============================================================================
