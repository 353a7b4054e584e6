---------------------------- MODULE AtLeastOnce ----------------------------
(***************************************************************************)
(* What the job queue promises (module/jobqueue/README.md): jobs 1, 2, ... *)
(* are finished at least once each, in any order, and the progress on disk *)
(* only ever moves up, over jobs that are finished.                        *)
(***************************************************************************)
EXTENDS Integers

VARIABLES available,   \* jobs 1 .. available exist
          finished,    \* the jobs that a worker has finished
          progress     \* the persisted processed index

aloVars == <<available, finished, progress>>

ALOInit == available = 0 /\ finished = {} /\ progress = 0

NewJob == available' = available + 1 /\ UNCHANGED <<finished, progress>>

FinishJob ==
    /\ \E i \in 1 .. available : finished' = finished \cup {i}
    /\ UNCHANGED <<available, progress>>

Progress ==
    /\ \E n \in progress .. available : 1 .. n \subseteq finished /\ progress' = n
    /\ UNCHANGED <<available, finished>>

ALOSpec == ALOInit /\ [][NewJob \/ FinishJob \/ Progress]_aloVars
=============================================================================
