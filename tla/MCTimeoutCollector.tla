------------------------- MODULE MCTimeoutCollector ------------------------
(***************************************************************************)
(* Three honest replicas, each with a newest QC of its own, and a          *)
(* Byzantine one with a third of a regular replica's weight.               *)
(***************************************************************************)
EXTENDS TimeoutCollector, TLC

CONSTANTS r1, r2, r3, byz

MCReplicas == {r1, r2, r3, byz}
MCWeight == (r1 :> 2) @@ (r2 :> 2) @@ (r3 :> 2) @@ (byz :> 1)

ValidQC(v) == [View |-> v, Valid |-> TRUE]
Timeout(r, qc, tc, sigValid) ==
    [SignerID |-> r, NewestQC |-> qc, LastViewTC |-> tc, SigValid |-> sigValid]
TCWith(v) == [NewestQC |-> ValidQC(v), Valid |-> TRUE]

HonestTimeouts ==
    {Timeout(r1, ValidQC(1), TCWith(1), TRUE),
     Timeout(r2, ValidQC(2), TCWith(1), TRUE),
     Timeout(r3, ValidQC(3), Nil, TRUE)}

\* One with a valid QC but an invalid signature, one with an invalid QC.
ByzantineTimeouts ==
    {Timeout(byz, ValidQC(2), TCWith(2), FALSE),
     Timeout(byz, [View |-> 3, Valid |-> FALSE], Nil, TRUE)}

MCTimeouts == HonestTimeouts \cup ByzantineTimeouts
=============================================================================
