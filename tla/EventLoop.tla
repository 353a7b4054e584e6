----------------------------- MODULE EventLoop -----------------------------
(***************************************************************************)
(* The event loop of consensus/hotstuff/eventloop: one goroutine that      *)
(* feeds the event handler, the goroutines that submit proposals and       *)
(* certificates to it through trackers and notifiers, and the goroutines   *)
(* of the timers it starts.  Of the event handler (see Participant) only   *)
(* what it does to the PaceMaker and its timers is kept; a handler runs in *)
(* the loop's goroutine and is one step.                                   *)
(*                                                                         *)
(* A submission is a record of kind "proposal", "qc", "tc" or "partial"    *)
(* and an item: a block, a QC, a TC or a PartialTcCreated record.  Every   *)
(* submission has a goroutine of its own.                                  *)
(***************************************************************************)
EXTENDS PaceMaker, TimeoutController, Sequences

CONSTANTS Submissions,      \* what is ever submitted
          QueueCapacity,    \* of the proposals channel (1000)
          MaxConcurrent,    \* bound on the submissions that run at the same time
          MaxTicks          \* bound on the ticks of the timer of each view

Trackers == {"qc", "tc", "partial"}

PartialTCs == [View : TimeoutViews, NewestQC : Blocks, LastViewTC : OptionalTC]

ASSUME EventLoopAssumption ==
    /\ QueueCapacity \in Nat \ {0}
    /\ MaxConcurrent \in Nat \ {0}
    /\ MaxTicks \in [Views -> Nat \ {0}]
    /\ Submissions \subseteq
            [kind : {"proposal", "qc"}, item : Blocks]
              \cup [kind : {"tc"}, item : TimeoutCertificates]
              \cup [kind : {"partial"}, item : PartialTCs]
    \* Views holds the views that the certificates lead to
    /\ \A b \in Blocks : BlockView[b] + 1 \in Views
    /\ \A v \in TimeoutViews : v + 1 \in Views
    /\ Nil \notin Views \cup Blocks \cup PartialTCs

VARIABLES newest,           \* newestSubmittedQc, -Tc, -PartialTc
          notified,         \* the notifiers that hold a notification
          proposals,        \* the proposals channel
          submitters,       \* the goroutine of each submission
          pc,               \* the loop: "start", "first" or "second" select
          livenessData,     \* of the PaceMaker
          r,                \* Controller.r, the failed rounds
          timeoutChannel,   \* Controller.timeoutChannel, as the view it is for
          ticker,           \* tickAfterTimeout of each view
          ticks,            \* how often the timer of a goroutine has expired
          buffered,         \* the views whose timeout channel holds a tick
          timedOut,         \* OnLocalTimeout has been called in the current view
          bypassed          \* other events handled while a priority one was pending

inputs == <<newest, notified, proposals, submitters>>
timers == <<ticker, ticks>>
paceMaker == <<livenessData, r, timeoutChannel>>
elVars == <<inputs, pc, paceMaker, timers, buffered, timedOut, bypassed>>

\* A goroutine that submits: where it is, the tracker it uses and the
\* snapshot it has taken of it
Submitter(at, tracker, snapshot) == [at |-> at, tracker |-> tracker, snapshot |-> snapshot]

EventLoopInit ==
    /\ newest = [k \in Trackers |-> Nil]
    /\ notified = {}
    /\ proposals = <<>>
    /\ submitters = [s \in Submissions |-> Submitter("idle", s.kind, Nil)]
    /\ pc = "start"
    /\ livenessData = InitialLivenessData
    /\ r = 0
    /\ timeoutChannel = Nil
    /\ ticker = [v \in Views |-> "none"]
    /\ ticks = [v \in Views |-> 0]
    /\ buffered = {}
    /\ timedOut = FALSE
    /\ bypassed = 0
-----------------------------------------------------------------------------
(***************************************************************************)
(* Submitting: Track takes a snapshot and then compares and swaps; the     *)
(* notifier remembers one notification.                                    *)
(***************************************************************************)
ViewIn(k, x) == IF k = "qc" THEN BlockView[x] ELSE x.View

\* What a submission gives to a tracker: a TC that is refused goes on with
\* its newest QC (onTrustedTC).
Item(s, k) == IF s.kind = "tc" /\ k = "qc" THEN s.item.NewestQC ELSE s.item

MoveTo(s, at) == submitters' = [submitters EXCEPT ![s] = Submitter(at, @.tracker, Nil)]

SubmitProposal(s) ==
    /\ s.kind = "proposal" /\ submitters[s].at = "idle"
    /\ Len(proposals) < QueueCapacity
    /\ proposals' = Append(proposals, s.item)
    /\ MoveTo(s, "end")
    /\ UNCHANGED <<newest, notified>>

\* The snapshot of Track, and onTrustedTC's second attempt.
TakeSnapshot(s) ==
    LET k       == submitters[s].tracker
        refused == newest[k] # Nil /\ ViewIn(k, newest[k]) >= ViewIn(k, Item(s, k))
    IN  /\ s.kind # "proposal" /\ submitters[s].at \in {"idle", "track"}
        /\ submitters' = [submitters EXCEPT ![s] =
              IF ~refused THEN Submitter("swap", k, newest[k])
              ELSE IF k = "tc" THEN Submitter("track", "qc", Nil)
              ELSE Submitter("end", k, Nil)]
        /\ UNCHANGED <<newest, notified, proposals>>

\* Mutant: the item is stored without comparing.
StoreItem(s) ==
    LET k == submitters[s].tracker
    IN  /\ submitters[s].at = "swap"
        /\ newest' = [newest EXCEPT ![k] = Item(s, k)]
        /\ MoveTo(s, "notify")
        /\ UNCHANGED <<notified, proposals>>

CompareAndSwap(s) ==
    LET k    == submitters[s].tracker
        swap == newest[k] = submitters[s].snapshot
    IN  /\ submitters[s].at = "swap"
        /\ newest' = IF swap THEN [newest EXCEPT ![k] = Item(s, k)] ELSE newest
        /\ MoveTo(s, IF swap THEN "notify" ELSE "track")
        /\ UNCHANGED <<notified, proposals>>

\* Mutant: a TC that goes on with its QC wakes up the loop for a TC.
NotifyForKind(s) ==
    /\ submitters[s].at = "notify"
    /\ notified' = notified \cup {s.kind}
    /\ MoveTo(s, "end")
    /\ UNCHANGED <<newest, proposals>>

Notify(s) ==
    /\ submitters[s].at = "notify"
    /\ notified' = notified \cup {submitters[s].tracker}
    /\ MoveTo(s, "end")
    /\ UNCHANGED <<newest, proposals>>

Running == {s \in Submissions : submitters[s].at \notin {"idle", "end"}}

Submit(s) ==
    /\ submitters[s].at = "idle" => Cardinality(Running) < MaxConcurrent
    /\ SubmitProposal(s) \/ TakeSnapshot(s) \/ CompareAndSwap(s) \/ Notify(s)
    /\ UNCHANGED <<pc, paceMaker, timers, buffered, timedOut, bypassed>>
-----------------------------------------------------------------------------
(***************************************************************************)
(* tickAfterTimeout: the goroutine of a timer waits for the timer to       *)
(* expire or its context to be cancelled, and sends a tick to a channel    *)
(* with one slot.  It does not look at its context while it waits for the  *)
(* slot.  A timer expires at any time, at most MaxTicks times.             *)
(***************************************************************************)
Cancelled(v) == v # timeoutChannel

Expire(v) ==
    /\ ticker[v] = "waiting" /\ ticks[v] < MaxTicks[v]
    /\ ticker' = [ticker EXCEPT ![v] = "sending"]
    /\ ticks' = [ticks EXCEPT ![v] = @ + 1]
    /\ UNCHANGED buffered

SendTick(v) ==
    /\ ticker[v] = "sending" /\ v \notin buffered
    /\ ticker' = [ticker EXCEPT ![v] = "waiting"]
    /\ buffered' = buffered \cup {v}
    /\ UNCHANGED ticks

StopTicking(v) ==
    /\ ticker[v] = "waiting" /\ Cancelled(v)
    /\ ticker' = [ticker EXCEPT ![v] = "stopped"]
    /\ ticks' = [ticks EXCEPT ![v] = 0]
    /\ UNCHANGED buffered

tickAfterTimeout(v) ==
    /\ Expire(v) \/ SendTick(v) \/ StopTicking(v)
    /\ UNCHANGED <<inputs, pc, paceMaker, timedOut, bypassed>>
-----------------------------------------------------------------------------
(***************************************************************************)
(* The PaceMaker with its timers.  A handler passes one or two             *)
(* certificates to it; each of them may start the timer of a new view.     *)
(***************************************************************************)
PaceMakerState == [ld |-> livenessData, r |-> r, started |-> {}]

\* A certificate leads to LivenessData ld and, if the view changes, to
\* failedRounds.
ViewChange(pm, ld, failedRounds) ==
    IF ld.CurrentView <= pm.ld.CurrentView
       THEN [pm EXCEPT !.ld = ld]
       ELSE [ld |-> ld, r |-> failedRounds, started |-> pm.started \cup {ld.CurrentView}]

PaceMakerProcessQC(pm, qc) ==
    ViewChange(pm, ProcessQC(pm.ld, qc), OnProgressBeforeTimeout(pm.r))

PaceMakerProcessTC(pm, tc) ==
    ViewChange(pm, ProcessTC(pm.ld, tc), OnTimeout(pm.r))

\* Mutant: the old channel is kept.
StartTimeoutKeepingChannel(started, view) ==
    /\ ticker' = [v \in Views |-> IF v \in started THEN "waiting" ELSE ticker[v]]
    /\ timeoutChannel' = IF started = {} \/ timeoutChannel # Nil THEN timeoutChannel ELSE view

\* StartTimeout for every view entered, the last of which is view.
StartTimeout(started, view) ==
    /\ ticker' = [v \in Views |-> IF v \in started THEN "waiting" ELSE ticker[v]]
    /\ timeoutChannel' = IF started = {} THEN timeoutChannel ELSE view

Become(pm) ==
    /\ livenessData' = pm.ld
    /\ r' = pm.r
    /\ StartTimeout(pm.started, pm.ld.CurrentView)
    /\ timedOut' = (timedOut /\ pm.started = {})
    /\ UNCHANGED <<newest, submitters, ticks>>
-----------------------------------------------------------------------------
(***************************************************************************)
(* The event handler.  A stale proposal carries certificates for views     *)
(* that are over, which the PaceMaker ignores.  A notification is consumed *)
(* before the tracker is read; as trackers are updated before they notify, *)
(* this is the same as doing both at once.                                 *)
(***************************************************************************)
\* Start, called by the loop's goroutine before the loop
Start ==
    /\ pc = "start"
    /\ pc' = "first"
    /\ Become([PaceMakerState EXCEPT !.started = {livenessData.CurrentView}])
    /\ UNCHANGED <<notified, proposals, buffered, bypassed>>

OnLocalTimeout ==
    /\ timeoutChannel \in buffered
    /\ buffered' = buffered \ {timeoutChannel}
    /\ timedOut' = TRUE
    /\ UNCHANGED <<inputs, paceMaker, timers>>

OnPartialTcCreated ==
    LET partialTC == newest["partial"]
    IN  /\ "partial" \in notified
        /\ notified' = notified \ {"partial"}
        /\ Become(PaceMakerProcessTC(PaceMakerProcessQC(PaceMakerState, partialTC.NewestQC),
                                     partialTC.LastViewTC))
        /\ UNCHANGED <<proposals, buffered>>

OnReceiveProposal ==
    LET b == Head(proposals)
    IN  /\ proposals # <<>>
        /\ proposals' = Tail(proposals)
        /\ Become(PaceMakerProcessTC(PaceMakerProcessQC(PaceMakerState, BlockQC[b]), BlockTC[b]))
        /\ UNCHANGED <<notified, buffered>>

OnReceiveQc ==
    /\ "qc" \in notified
    /\ notified' = notified \ {"qc"}
    /\ Become(PaceMakerProcessQC(PaceMakerState, newest["qc"]))
    /\ UNCHANGED <<proposals, buffered>>

OnReceiveTc ==
    /\ "tc" \in notified
    /\ notified' = notified \ {"tc"}
    /\ Become(PaceMakerProcessTC(PaceMakerState, newest["tc"]))
    /\ UNCHANGED <<proposals, buffered>>
-----------------------------------------------------------------------------
(***************************************************************************)
(* loop: the first select only takes events that have priority, the second *)
(* one waits for any event.                                                *)
(***************************************************************************)
PriorityPending == timeoutChannel \in buffered \/ "partial" \in notified

HandlePriority == (OnLocalTimeout \/ OnPartialTcCreated) /\ bypassed' = 0

\* Mutant: there is no first select.
FirstSelectSkipped ==
    /\ pc = "first"
    /\ pc' = "second"
    /\ bypassed' = IF PriorityPending THEN bypassed ELSE 0
    /\ UNCHANGED <<inputs, paceMaker, timers, buffered, timedOut>>

FirstSelect ==
    /\ pc = "first"
    /\ \/ HandlePriority /\ pc' = "first"
       \/ /\ ~PriorityPending
          /\ pc' = "second" /\ bypassed' = 0
          /\ UNCHANGED <<inputs, paceMaker, timers, buffered, timedOut>>

SecondSelect ==
    /\ pc = "second"
    /\ pc' = "first"
    /\ \/ HandlePriority
       \/ /\ OnReceiveProposal \/ OnReceiveQc \/ OnReceiveTc
          /\ bypassed' = IF PriorityPending THEN bypassed + 1 ELSE 0

Loop == Start \/ FirstSelect \/ SecondSelect

EventLoopNext ==
    \/ Loop
    \/ \E s \in Submissions : Submit(s)
    \/ \E v \in Views : tickAfterTimeout(v)

EventLoopSpec == EventLoopInit /\ [][EventLoopNext]_elVars

\* The Go scheduler does not stop as long as a goroutine can proceed; nobody
\* has to submit anything, but who has begun to goes on.
Proceed ==
    \/ Loop
    \/ \E s \in Running : Submit(s)
    \/ \E v \in Views : tickAfterTimeout(v)

EventLoopFairSpec == EventLoopSpec /\ WF_elVars(Proceed)
-----------------------------------------------------------------------------
(***************************************************************************)
(* OnLocalTimeout is only called when the timer of the current view itself *)
(* has expired (OnPartialTcCreated, which joins the timeout of others,     *)
(* needs no timer): ticks of earlier views that are still buffered or on   *)
(* their way when the view changes are never taken for it (a new channel   *)
(* with every StartTimeout, read again in every iteration of the loop).    *)
(***************************************************************************)
NoEarlyTimeout == timedOut => ticks[livenessData.CurrentView] > 0

(***************************************************************************)
(* Proposals, QCs and TCs cannot keep the replica from timing out: at most *)
(* one of them is handled while a timeout or a partial TC is pending ("the *)
(* first select makes sure we process timeouts with priority").            *)
(***************************************************************************)
TimeoutsHavePriority == bypassed <= 1

(***************************************************************************)
(* Whatever sequence of QCs and TCs ends the views, timeouts stay within   *)
(* their bounds, and as failed rounds are not counted beyond what the      *)
(* maximum needs, the first view that ends with a QC after any number of   *)
(* failed ones already shortens a grown timeout.                           *)
(***************************************************************************)
BackoffIsTruncated ==
    /\ ~Shorter(replicaTimeout(r), MinDuration)
    /\ ~Shorter(MaxDuration, replicaTimeout(r))
    /\ Shorter(MinDuration, replicaTimeout(r))
         => Shorter(replicaTimeout(OnProgressBeforeTimeout(r)), replicaTimeout(r))

(***************************************************************************)
(* Each tracker, used by concurrent goroutines, implements an atomic       *)
(* register of the newest item: no newer item is overwritten by an older   *)
(* one, and Track only returns when the register is at least as new.       *)
(***************************************************************************)
Tracked(k) ==
    {Item(s, k) : s \in {u \in Submissions :
        \/ submitters[u].tracker = k /\ submitters[u].at \in {"notify", "end"}
        \/ k = "tc" /\ u.kind = "tc" /\ submitters[u].tracker = "qc"}}

ItemsOf(k) == {Item(s, k) : s \in {u \in Submissions : u.kind = k \/ (k = "qc" /\ u.kind = "tc")}}

ViewOfQC(x) == ViewIn("qc", x)
ViewOfTC(x) == ViewIn("tc", x)

QCTracker == INSTANCE NewestRegister WITH
    Items <- ItemsOf("qc"), View <- ViewOfQC, NoItem <- Nil,
    newest <- newest["qc"], tracked <- Tracked("qc")
TCTracker == INSTANCE NewestRegister WITH
    Items <- ItemsOf("tc"), View <- ViewOfTC, NoItem <- Nil,
    newest <- newest["tc"], tracked <- Tracked("tc")
PartialTCTracker == INSTANCE NewestRegister WITH
    Items <- ItemsOf("partial"), View <- ViewOfTC, NoItem <- Nil,
    newest <- newest["partial"], tracked <- Tracked("partial")

TrackersAreRegisters ==
    /\ QCTracker!RegisterSpec
    /\ TCTracker!RegisterSpec
    /\ PartialTCTracker!RegisterSpec

(***************************************************************************)
(* What the loop has done with a submission in the end.  A TC's or partial *)
(* TC's view always counts.  Its QC counts unless the tracker replaced the *)
(* item by one for a later view (or, for a partial TC, refused it): a TC   *)
(* that is refused goes on with its QC, one that is replaced does not.     *)
(***************************************************************************)
TakenIntoAccount(s) ==
    LET qcView == BlockView[livenessData.NewestQC]
    IN  CASE s.kind = "qc" -> qcView >= BlockView[s.item]
          [] s.kind = "tc" ->
                /\ livenessData.CurrentView > s.item.View
                /\ submitters[s].tracker = "qc" \/ newest["tc"] = s.item
                     => qcView >= BlockView[s.item.NewestQC]
          [] s.kind = "partial" ->
                /\ livenessData.CurrentView >= s.item.View
                /\ newest["partial"] = s.item => qcView >= BlockView[s.item.NewestQC]
          [] s.kind = "proposal" ->
                /\ qcView >= BlockView[BlockQC[s.item]]
                /\ BlockTC[s.item] # Nil => livenessData.CurrentView > BlockTC[s.item].View

(***************************************************************************)
(* No QC, proposal or view of a TC or partial TC is lost between tracker,  *)
(* notifier and loop, although notifications are coalesced and only the    *)
(* newest items are kept; nor is the QC of a TC that is refused or is the  *)
(* newest.  And a replica that stays in a view times out in it.            *)
(***************************************************************************)
EventsTakeEffect ==
    <>[](/\ \A s \in Submissions : submitters[s].at # "idle" => TakenIntoAccount(s)
         /\ timedOut)
=============================================================================
