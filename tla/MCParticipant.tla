--------------------------- MODULE MCParticipant ---------------------------
(***************************************************************************)
(* A small universe of blocks for model checking Participant: all blocks   *)
(* up to view MaxView with every TC a leader may have entered its view     *)
(* with.                                                                   *)
(***************************************************************************)
EXTENDS Participant, Sequences, TLC

CONSTANTS MaxView,    \* blocks have views 0 (the root's) to MaxView
          TwoTags,    \* views in which two payloads are considered
          Leaders,    \* the leaders of views 1, 2, ...
          h1, h2, byz

\* h2 stands for the rest of the committee: its signature and that of the
\* Byzantine replica make a quorum, with or without h1.
MCWeight == (h1 :> 1) @@ (h2 :> 2) @@ (byz :> 1)
MCViews == 0 .. MaxView + 1

\* The content of blocks of view v on top of block qc: a TC for the previous
\* view unless the QC is, carrying a QC that is not newer than the block's.
Contents(table, v, qc) ==
    LET tcs == IF table[qc].view = v - 1 THEN <<Nil>>
               ELSE SelectSeq([i \in 1 .. Len(table) |-> [View |-> v - 1, NewestQC |-> i]],
                              LAMBDA tc : table[tc.NewestQC].view <= table[qc].view)
        tags == IF v \in TwoTags THEN 2 ELSE 1
    IN  [k \in 1 .. tags * Len(tcs) |->
           [view |-> v, qc |-> qc, tc |-> tcs[((k - 1) \div tags) + 1], tag |-> k % tags]]

RECURSIVE Blocks4View(_, _, _)
Blocks4View(table, v, qc) ==
    IF qc > Len(table) THEN <<>>
    ELSE Contents(table, v, qc) \o Blocks4View(table, v, qc + 1)

RECURSIVE BlocksUpTo(_)
BlocksUpTo(v) ==
    IF v = 0 THEN <<[view |-> 0, qc |-> 1, tc |-> Nil, tag |-> 0]>>
    ELSE LET older == BlocksUpTo(v - 1) IN older \o Blocks4View(older, v, 1)

BlockTable == BlocksUpTo(MaxView)

MCBlocks == DOMAIN BlockTable
MCRoot == 1
MCBlockView == [i \in MCBlocks |-> BlockTable[i].view]
MCBlockQC == [i \in MCBlocks |-> BlockTable[i].qc]
MCBlockTC == [i \in MCBlocks |-> BlockTable[i].tc]

\* h1 joins the committee with view 2, and is ejected in one of two payloads
\* of the view it leads.
JoinsInView2 == {<<h1, 1>>}

EjectedAtTag ==
    {h1} \X {i \in MCBlocks : LET b == BlockTable[i]
                              IN  b.view = 1 \/ (b.view \in TwoTags /\ b.tag = 0)}

MCLeaderForView == [v \in MCViews |-> IF v \in DOMAIN Leaders THEN Leaders[v] ELSE byz]

\* Two participants that are both needed for a quorum.
BothNeeded == (h1 :> 2) @@ (h2 :> 2) @@ (byz :> 1)

TwoLeaders == <<h1, h2, byz>>

OneLeader == <<byz, byz, h1>>
=============================================================================
