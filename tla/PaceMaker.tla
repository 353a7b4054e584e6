----------------------------- MODULE PaceMaker -----------------------------
(***************************************************************************)
(* The view tracker of consensus/hotstuff/pacemaker: how QCs and TCs move  *)
(* a replica's LivenessData, and how the PaceMaker is recovered from the   *)
(* certificates of pending blocks.  Timers and metrics are left out.       *)
(***************************************************************************)
EXTENDS BlockTree

LivenessDataType ==
    [CurrentView : Nat, NewestQC : Blocks, LastViewTC : OptionalTC]

\* The data a node is bootstrapped with: it starts in the view after the root.
InitialLivenessData ==
    [CurrentView |-> BlockView[Root] + 1, NewestQC |-> Root, LastViewTC |-> Nil]

NewerQC(qc, other) == IF BlockView[qc] < BlockView[other] THEN other ELSE qc

updateNewestQC(ld, qc) == [ld EXCEPT !.NewestQC = NewerQC(@, qc)]

updateLivenessData(ld, newView, qc, tc) ==
    [CurrentView |-> newView, NewestQC |-> NewerQC(ld.NewestQC, qc), LastViewTC |-> tc]

\* Mutant: a QC for a past view is dropped.
ProcessQCDroppingOld(ld, qc) ==
    IF BlockView[qc] < ld.CurrentView
       THEN ld
       ELSE updateLivenessData(ld, BlockView[qc] + 1, qc, Nil)

ProcessQC(ld, qc) ==
    IF BlockView[qc] < ld.CurrentView
       THEN updateNewestQC(ld, qc)
       ELSE updateLivenessData(ld, BlockView[qc] + 1, qc, Nil)

\* Mutants: TCs for past views move the view back; a TC's QC is not tracked.
ProcessTCBackwards(ld, tc) ==
    IF tc = Nil THEN ld ELSE updateLivenessData(ld, tc.View + 1, tc.NewestQC, tc)

ProcessTCIgnoringQC(ld, tc) ==
    IF tc = Nil \/ (tc # Nil /\ tc.View < ld.CurrentView)
       THEN ld
       ELSE [ld EXCEPT !.CurrentView = tc.View + 1, !.LastViewTC = tc]

ProcessTC(ld, tc) ==
    CASE tc = Nil -> ld
      [] tc # Nil /\ tc.View < ld.CurrentView -> updateNewestQC(ld, tc.NewestQC)
      [] OTHER -> updateLivenessData(ld, tc.View + 1, tc.NewestQC, tc)

\* The TC with the highest view (NewestTCTracker).
NewestTCOf(tcs) == CHOOSE tc \in tcs : \A other \in tcs : other.View <= tc.View

WithQCs(ld, qcs) == IF qcs = {} THEN ld ELSE ProcessQC(ld, NewestOf(qcs))

WithTCs(ld, tcs) ==
    IF tcs = {} THEN ld
    ELSE ProcessQC(ProcessTC(ld, NewestTCOf(tcs)), NewestOf({tc.NewestQC : tc \in tcs}))
=============================================================================
