------------------------------ MODULE JobQueue -----------------------------
(***************************************************************************)
(* module/jobqueue: a Consumer reads jobs by index, runs a limited number  *)
(* of them concurrently and persists the index up to which all are done.   *)
(* The threads are the callers of Check (one per publisher of jobs), one   *)
(* goroutine per running job, and the process itself, which may be stopped *)
(* or may crash at any time and starts again.                              *)
(***************************************************************************)
EXTENDS Integers, FiniteSets

CONSTANTS Publishers,       \* goroutines that add a job and then call Check
          MaxJobs,          \* bound: number of jobs that are ever added
          MaxProcessing, MaxSearchAhead,
          MaxRestarts,      \* bound: number of stops and crashes
          MaxFailures,      \* bound: number of failing storage operations
          Nobody

ASSUME JobQueueAssumption ==
    /\ {MaxJobs, MaxSearchAhead, MaxRestarts, MaxFailures} \subseteq Nat
    /\ MaxProcessing \in Nat \ {0}
    /\ Nobody \notin Publishers

Jobs == 1 .. MaxJobs

VARIABLES head,             \* module.Jobs: jobs 1 .. head exist
          progress,         \* storage.ConsumerProgress
          started, running, isChecking,
          mu,               \* the publisher that holds the mutex between two of its steps
          processedIndex,
          processings,      \* "absent", "processing" or "done"
          job,              \* the goroutine of each job: "none", "working" or "notifying"
          publisher,        \* what each publisher does next
          finished,         \* history: the jobs that a worker has finished
          restarts, failures,
          skipped           \* history: since the jobs were last scanned, a Check relied
                            \* on another one or failed

consumer == <<started, running, isChecking, mu, processedIndex, processings>>
disk == <<head, progress>>
jqVars == <<disk, consumer, job, publisher, finished, restarts, failures, skipped>>

\* NewConsumer
NoProcessings == [i \in Jobs |-> "absent"]
NoGoroutines == [i \in Jobs |-> "none"]
Idle == [p \in Publishers |-> "idle"]

JobQueueInit ==
    /\ head = 0 /\ progress = 0
    /\ started = FALSE /\ running = FALSE /\ isChecking = FALSE /\ mu = Nobody
    /\ processedIndex = 0 /\ processings = NoProcessings
    /\ job = NoGoroutines /\ publisher = Idle
    /\ finished = {} /\ restarts = 0 /\ failures = 0 /\ skipped = FALSE
-----------------------------------------------------------------------------
(***************************************************************************)
(* processableJobs, as a function of the status of the jobs: the index up  *)
(* to which all are done, and the jobs to start.  The scan counts every    *)
(* job that is not done as one being processed.                            *)
(***************************************************************************)
\* Mutant: the index moves to the last job that is done.
processedToLast(status) ==
    LET done == {i \in Jobs : status[i] = "done"}
    IN  IF done = {} THEN processedIndex ELSE CHOOSE n \in done : \A k \in done : k <= n

processedTo(status) ==
    CHOOSE n \in processedIndex .. MaxJobs :
        /\ \A k \in processedIndex + 1 .. n : status[k] = "done"
        /\ n + 1 \in Jobs => status[n + 1] # "done"

shouldPause(i, index) == MaxSearchAhead # 0 /\ i - index > MaxSearchAhead

\* Mutant: the search for jobs never pauses.
processableAhead(status) ==
    LET index == processedTo(status)
        InProgress(k) == status[k] # "done"
    IN  {i \in index + 1 .. head :
            /\ status[i] = "absent"
            /\ Cardinality({k \in index + 1 .. i - 1 : InProgress(k)}) < MaxProcessing}

processable(status) ==
    LET index == processedTo(status)
        InProgress(k) == status[k] # "done"
    IN  {i \in index + 1 .. head :
            /\ status[i] = "absent"
            /\ ~shouldPause(i, index)
            /\ Cardinality({k \in index + 1 .. i - 1 : InProgress(k)}) < MaxProcessing}

\* the loop of run that forgets the jobs up to the new index
Cleared(status, index) ==
    [i \in Jobs |-> IF i \in processedIndex + 1 .. index THEN "absent" ELSE status[i]]

(***************************************************************************)
(* checkProcessable and run, with the given status of the jobs and of the  *)
(* job goroutines.  An error is logged: if reading a job fails nothing is  *)
(* done; if persisting the index fails the jobs have already been started. *)
(***************************************************************************)
checkProcessable(status, goroutines, isRunning) ==
    LET index == processedTo(status)
        new   == IF isRunning THEN processable(status) ELSE {}
        added == [i \in Jobs |-> IF i \in new THEN "processing" ELSE status[i]]
        StartNew == job' = [i \in Jobs |-> IF i \in new THEN "working" ELSE goroutines[i]]
        Fail  == /\ failures < MaxFailures
                 /\ failures' = failures + 1
                 /\ UNCHANGED <<progress, processedIndex>>
    IN  \/ /\ StartNew
           /\ progress' = index /\ processedIndex' = index
           /\ processings' = Cleared(added, index)
           /\ skipped' = FALSE
           /\ UNCHANGED failures
        \/ /\ Fail
           /\ StartNew
           /\ processings' = added
           /\ skipped' = FALSE
        \/ /\ Fail
           /\ job' = goroutines /\ processings' = status
           /\ skipped' = TRUE
-----------------------------------------------------------------------------
Start ==
    /\ ~started /\ mu = Nobody
    /\ started' = TRUE /\ running' = TRUE
    /\ checkProcessable(processings, job, TRUE)
    /\ UNCHANGED <<head, isChecking, mu, publisher, finished, restarts>>

\* external: a job is added, e.g. a block is finalized; the publisher then calls Check
Publish(p) ==
    /\ publisher[p] = "idle" /\ head < MaxJobs
    /\ head' = head + 1
    /\ publisher' = [publisher EXCEPT ![p] = "check"]
    /\ UNCHANGED <<progress, consumer, job, finished, restarts, failures, skipped>>

\* Check, up to the compare-and-swap of isChecking
Check(p) ==
    /\ publisher[p] = "check"
    /\ IF started /\ ~isChecking
          THEN publisher' = [publisher EXCEPT ![p] = "lock"] /\ isChecking' = TRUE
          ELSE publisher' = [publisher EXCEPT ![p] = "idle"] /\ UNCHANGED isChecking
    /\ skipped' = (skipped \/ (started /\ isChecking))
    /\ UNCHANGED <<disk, started, running, mu, processedIndex, processings, job, finished,
                   restarts, failures>>

CheckLocked(p) ==
    /\ publisher[p] = "lock" /\ mu = Nobody
    /\ mu' = p
    /\ checkProcessable(processings, job, running)
    /\ publisher' = [publisher EXCEPT ![p] = "unlock"]
    /\ UNCHANGED <<head, started, running, isChecking, finished, restarts>>

CheckUnlock(p) ==
    /\ publisher[p] = "unlock"
    /\ isChecking' = FALSE /\ mu' = Nobody
    /\ publisher' = [publisher EXCEPT ![p] = "idle"]
    /\ UNCHANGED <<disk, started, running, processedIndex, processings, job, finished,
                   restarts, failures, skipped>>

\* external: the worker completes its job, the notification is still to come
FinishJob(i) ==
    /\ job[i] = "working"
    /\ finished' = finished \cup {i}
    /\ job' = [job EXCEPT ![i] = "notifying"]
    /\ UNCHANGED <<disk, consumer, publisher, restarts, failures, skipped>>

\* Mutant: the freed worker is not given another job.
NotifyJobIsDoneUnchecked(i) ==
    /\ job[i] = "notifying" /\ mu = Nobody
    /\ processings' = [processings EXCEPT ![i] = "done"]
    /\ job' = [job EXCEPT ![i] = "none"]
    /\ UNCHANGED <<disk, started, running, isChecking, mu, processedIndex, publisher, finished,
                   restarts, failures, skipped>>

\* NotifyJobIsDone with doneJob
NotifyJobIsDone(i) ==
    /\ job[i] = "notifying" /\ mu = Nobody
    /\ checkProcessable([processings EXCEPT ![i] = "done"], [job EXCEPT ![i] = "none"], running)
    /\ UNCHANGED <<head, started, running, isChecking, mu, publisher, finished, restarts>>

Stop ==
    /\ started /\ running /\ mu = Nobody /\ restarts < MaxRestarts
    /\ running' = FALSE
    /\ UNCHANGED <<disk, started, isChecking, mu, processedIndex, processings, job, publisher,
                   finished, restarts, failures, skipped>>

\* Mutant: the new process starts at the latest job.
DownToLatest ==
    /\ started /\ restarts < MaxRestarts
    /\ UNCHANGED <<head, finished, failures, skipped>>
    /\ restarts' = restarts + 1
    /\ started' = FALSE /\ running' = FALSE /\ isChecking' = FALSE /\ mu' = Nobody
    /\ progress' = head /\ processedIndex' = head /\ processings' = NoProcessings
    /\ job' = NoGoroutines /\ publisher' = Idle

\* The process ends, at any point or when Stop has waited for the jobs,
\* and a new one reads its index from the disk.
Down ==
    /\ started /\ restarts < MaxRestarts
    /\ UNCHANGED <<disk, finished, failures, skipped>>
    /\ restarts' = restarts + 1
    /\ started' = FALSE /\ running' = FALSE /\ isChecking' = FALSE /\ mu' = Nobody
    /\ processedIndex' = progress /\ processings' = NoProcessings
    /\ job' = NoGoroutines /\ publisher' = Idle

Stopped == ~running /\ \A i \in Jobs : job[i] = "none"
-----------------------------------------------------------------------------
Callers(p) == Check(p) \/ CheckLocked(p) \/ CheckUnlock(p)

JobQueueNext ==
    \/ Start \/ Stop \/ Down
    \/ \E p \in Publishers : Publish(p) \/ Callers(p)
    \/ \E i \in Jobs : FinishJob(i) \/ NotifyJobIsDone(i)

JobQueueSpec == JobQueueInit /\ [][JobQueueNext]_jqVars

\* Goroutines are scheduled, workers complete their jobs, a process that was
\* stopped ends and a process that ended is started again.
JobQueueFairSpec ==
    /\ JobQueueSpec
    /\ WF_jqVars(Start) /\ WF_jqVars(Stopped /\ Down)
    /\ \A p \in Publishers : WF_jqVars(Callers(p))
    /\ \A i \in Jobs : WF_jqVars(FinishJob(i) \/ NotifyJobIsDone(i))
-----------------------------------------------------------------------------
(***************************************************************************)
(* The limits on running jobs: never more than maxProcessing goroutines,   *)
(* and none further than maxSearchAhead beyond the jobs that are all done, *)
(* also when jobs finish out of order and after failures.                  *)
(***************************************************************************)
LimitsHold ==
    LET active == {i \in Jobs : job[i] # "none"}
    IN  /\ Cardinality(active) <= MaxProcessing
        /\ \A i \in active : ~shouldPause(i, processedTo(processings))

(***************************************************************************)
(* A job is run by one goroutine at a time: exactly the jobs with status   *)
(* "processing" have a goroutine, so that none is started twice and none   *)
(* is forgotten while it blocks the processed index.                       *)
(***************************************************************************)
OneGoroutinePerJob ==
    \A i \in Jobs : processings[i] = "processing" <=> job[i] # "none"

(***************************************************************************)
(* The consumer implements AtLeastOnce: whatever crashes and whichever     *)
(* storage operation fails, the persisted index never covers a job that no *)
(* worker has finished, and never moves back.                              *)
(***************************************************************************)
ALO == INSTANCE AtLeastOnce WITH available <- head
NoJobIsSkipped == ALO!ALOSpec

(***************************************************************************)
(* Every job is eventually processed, after crashes and restarts as well,  *)
(* unless the last Check of all was absorbed by another one that had       *)
(* already scanned the jobs, or could not read a job.                      *)
(***************************************************************************)
JobsAreProcessedUnlessSkipped ==
    <>[]~skipped => \A i \in Jobs : head >= i ~> i \in finished

(***************************************************************************)
(* README of the package: "guarantee each job (i.e. finalized block) will  *)
(* be processed eventually".                                               *)
(***************************************************************************)
JobsAreProcessed ==
    \A i \in Jobs : head >= i ~> i \in finished
=============================================================================
