------------------------------ MODULE Throttle -----------------------------
(***************************************************************************)
(* engine/execution/ingestion/throttle.go: which blocks are loaded while   *)
(* execution is behind finalization.  The throttle is a record of          *)
(*   loaded     the height of the last block that was loaded               *)
(*   finalized  the last finalized height it has been told of              *)
(*   loadedAll  whether everything was loaded at initialization            *)
(* Its operations hold its mutex; they return the throttle and the blocks  *)
(* to be sent to processables, in order.                                   *)
(***************************************************************************)
EXTENDS BlockQueue, SequencesExt

CONSTANTS Height,
          CatchUpThreshold    \* DefaultCatchUpThreshold

ASSUME ThrottleAssumption ==
    /\ Height \in [Blocks -> Nat]
    /\ \A b \in Blocks \ {Root} : Height[b] = Height[Parent[b]] + 1
    /\ CatchUpThreshold \in Nat \ {0}

Ancestry[b \in Blocks] == {b} \cup IF b = Root THEN {} ELSE Ancestry[Parent[b]]

\* headers.BlockIDByHeight, on the chain that ends in the latest finalized block
FinalizedAt(final, height) == CHOOSE b \in Ancestry[final] : Height[b] = height

\* findFinalized: the finalized blocks above one height, up to another
findFinalized(final, above, height) ==
    [i \in 1 .. height - above |-> FinalizedAt(final, above + i)]

\* findAllPendingBlocks, with Snapshot.Descendants: the known children of a
\* block, followed by the descendants of each
findAllPendingBlocks(final, known, height) ==
    LET Children(b) == SetToSeq({c \in known \ {Root} : Parent[c] = b})
        descendants[b \in Blocks] ==
            Children(b) \o FlattenSeq([i \in DOMAIN Children(b) |-> descendants[Children(b)[i]]])
    IN  descendants[FinalizedAt(final, height)]

Loaded(throttle, blocks) ==
    [throttle |-> IF blocks = <<>> THEN throttle
                                   ELSE [throttle EXCEPT !.loaded = Height[Last(blocks)]],
     blocks   |-> blocks]

\* NewBlockThrottle and Init, given the highest finalized and executed height
InitThrottle(final, known, executed) ==
    LET upTo == IF executed + CatchUpThreshold < Height[final] THEN executed + CatchUpThreshold
                                                               ELSE Height[final]
        all  == upTo = Height[final]
    IN  Loaded([loaded |-> executed, finalized |-> Height[final], loadedAll |-> all],
               findFinalized(final, executed, upTo)
                  \o IF all THEN findAllPendingBlocks(final, known, upTo) ELSE <<>>)

caughtUp(throttle) == throttle.loadedAll \/ throttle.loaded >= throttle.finalized

\* OnBlock
ThrottleOnBlock(throttle, b) ==
    Loaded(throttle, IF caughtUp(throttle) THEN <<b>> ELSE <<>>)

\* OnBlockExecuted with loadNextBlock
ThrottleOnBlockExecuted(throttle, final, known) ==
    LET next == FinalizedAt(final, throttle.loaded + 1)
        one  == [throttle EXCEPT !.loaded = Height[next]]
    IN  CASE caughtUp(throttle) -> Loaded(throttle, <<>>)
          [] ~caughtUp(throttle) /\ ~caughtUp(one) -> Loaded(throttle, <<next>>)
          [] OTHER -> Loaded(throttle,
                             <<next>> \o findAllPendingBlocks(final, known, throttle.finalized))

ThrottleOnBlockFinalized(throttle, height) ==
    IF ~caughtUp(throttle) /\ height > throttle.finalized
       THEN [throttle EXCEPT !.finalized = height] ELSE throttle
=============================================================================
