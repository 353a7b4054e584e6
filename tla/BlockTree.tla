----------------------------- MODULE BlockTree -----------------------------
(***************************************************************************)
(* The universe of blocks.  A block's ID is a hash of its content, so the  *)
(* content never changes and is a constant function of the ID: the view    *)
(* (model.Block.View), the QC that names the parent (model.Block.QC) and   *)
(* the TC for the previous view (Proposal.LastViewTC), or Nil.  A QC is    *)
(* represented by the block it certifies: its view is that block's view.   *)
(* A TC is represented by its view and the newest QC it carries.           *)
(***************************************************************************)
EXTENDS Committee

CONSTANTS Blocks,         \* block IDs
          Root,           \* the trusted root (spork root block)
          Views,          \* views considered
          TimeoutViews,   \* the views in which replicas may time out (a bound)
          BlockView,      \* Block.View
          BlockQC,        \* Block.QC, as the block the QC certifies
          BlockTC,        \* LastViewTC of the proposal, or Nil
          LeaderForView,  \* DynamicCommittee.LeaderForView
          Nil             \* Go's nil

TimeoutCertificates == [View : TimeoutViews, NewestQC : Blocks]

OptionalTC == TimeoutCertificates \cup {Nil}

ASSUME BlockTreeAssumption ==
    /\ Views \subseteq Nat
    /\ TimeoutViews \subseteq Views
    /\ Nil \notin TimeoutCertificates
    /\ Root \in Blocks
    /\ BlockView \in [Blocks -> Views]
    /\ BlockQC \in [Blocks -> Blocks]
    /\ BlockTC \in [Blocks -> OptionalTC]
    /\ LeaderForView \in [Views -> Replicas]
    \* model/flow/header.go: a header's ParentView is smaller than its View
    /\ \A b \in Blocks \ {Root} : BlockView[BlockQC[b]] < BlockView[b]
    /\ \A b \in Blocks \ {Root} : BlockView[Root] < BlockView[b]

(***************************************************************************)
(* A block, its parent, and so on down to the root.                        *)
(***************************************************************************)
Ancestors[b \in Blocks] ==
    {b} \cup (IF b = Root THEN {} ELSE Ancestors[BlockQC[b]])

\* A block with the highest view, or the QC with the highest view (NewestQCTracker).
NewestOf(S) == CHOOSE b \in S : \A c \in S : BlockView[c] <= BlockView[b]
=============================================================================
