-------------------------- MODULE EventLoopProofs --------------------------
(***************************************************************************)
(* Proofs, for all submissions, timers and configurations of the event     *)
(* loop, that a replica only times out on the timer of its current view,   *)
(* that timeouts and partial TCs are not held up by other events, that the *)
(* trackers are atomic registers, and that the backoff is truncated.       *)
(***************************************************************************)
EXTENDS EventLoop, WellFoundedInduction, TLAPS

(***************************************************************************)
(* The inductive invariants.  Submitted: what trackers, notifiers and the  *)
(* goroutines of submissions hold; a snapshot that is about to be swapped  *)
(* is older than the item, and a notification is only sent for a tracker   *)
(* that holds something.                                                   *)
(***************************************************************************)
ItemTypes(k) == IF k = "qc" THEN Blocks ELSE IF k = "tc" THEN TimeoutCertificates ELSE PartialTCs

TrackersOf(s) == {s.kind} \cup (IF s.kind = "tc" THEN {"qc"} ELSE {})

Older(k, x, y) == x = Nil \/ ViewIn(k, x) < ViewIn(k, y)

Submitted ==
    /\ DOMAIN newest = Trackers
    /\ \A k \in Trackers : newest[k] \in ItemTypes(k) \cup {Nil}
    /\ notified \subseteq Trackers
    /\ \A k \in notified : newest[k] # Nil
    /\ proposals \in Seq(Blocks)
    /\ DOMAIN submitters = Submissions
    /\ \A s \in Submissions :
         /\ submitters[s].at \in {"idle", "track", "swap", "notify", "end"}
         /\ submitters[s].tracker \in TrackersOf(s)
         /\ submitters[s].snapshot \in ItemTypes(submitters[s].tracker) \cup {Nil}
         /\ s.kind = "proposal" => submitters[s].at \in {"idle", "end"}
         /\ submitters[s].at = "swap"
              => Older(submitters[s].tracker, submitters[s].snapshot,
                       Item(s, submitters[s].tracker))
         /\ submitters[s].at # "swap" => submitters[s].snapshot = Nil
         /\ submitters[s].at = "notify" => newest[submitters[s].tracker] # Nil

(***************************************************************************)
(* Timed: the loop listens to the timer of the current view; that timer    *)
(* has expired if its goroutine is sending or its channel holds a tick;    *)
(* and no later view has a timer yet, nor a tick in its channel.           *)
(***************************************************************************)
LivenessDataOfLoop == [CurrentView : Views, NewestQC : Blocks, LastViewTC : OptionalTC]

Timed ==
    /\ pc \in {"start", "first", "second"}
    /\ livenessData \in LivenessDataOfLoop
    /\ ticker \in [Views -> {"none", "waiting", "sending", "stopped"}]
    /\ ticks \in [Views -> Nat]
    /\ buffered \subseteq Views
    /\ timedOut \in BOOLEAN
    /\ timeoutChannel = IF pc = "start" THEN Nil ELSE livenessData.CurrentView
    /\ pc = "start" => ~timedOut
    /\ \A v \in Views :
         /\ pc = "start" \/ livenessData.CurrentView < v => ticker[v] = "none" /\ v \notin buffered
         /\ v = timeoutChannel /\ (ticker[v] = "sending" \/ v \in buffered) => ticks[v] > 0
    /\ timedOut => ticks[livenessData.CurrentView] > 0

(***************************************************************************)
(* Backed off: failed rounds are counted up to the first exponent that     *)
(* reaches the maximum.                                                    *)
(***************************************************************************)
Counted(n) ==
    /\ n \in Nat
    /\ n > HappyPathMaxRoundFailures => ~ReachesMax(n - HappyPathMaxRoundFailures - 1)

BackedOff == Counted(r)

\* An event that has no priority is only handled after the first select.
Prioritised == bypassed \in 0 .. 1 /\ (pc = "second" => bypassed = 0)

EventLoopInvariant == Submitted /\ Timed /\ BackedOff /\ Prioritised
-----------------------------------------------------------------------------
(***************************************************************************)
(* The backoff.                                                            *)
(***************************************************************************)
(* A nonempty set of exponents has a smallest element.                     *)
LEMMA SmallestExponent ==
    ASSUME NEW S \in SUBSET Nat, S # {}
    PROVE  \E n \in S : \A k \in S : n <= k
<1>1. PICK n \in S : \A k \in S : ~(<<k, n>> \in OpToRel(<, Nat))
  BY Zenon, NatLessThanWellFounded, WFMin
<1>2. ASSUME NEW k \in S PROVE n <= k
  <2>1. ~(k < n)
    BY Zenon, <1>1 DEF OpToRel
  <2> QED
    BY <2>1
<1> QED
  BY Zenon, <1>1, <1>2

(* Durations are ordered.                                                  *)
LEMMA ShorterIsOrder ==
    ASSUME NEW x \in Fraction, NEW y \in Fraction, NEW z \in Fraction, ~Shorter(y, x), Shorter(y, z)
    PROVE  Shorter(x, z)
<1> DEFINE a == x[1]  b == x[2]  c == y[1]  d == y[2]  e == z[1]  f == z[2]
<1>1. a \in Nat \ {0} /\ b \in Nat \ {0} /\ c \in Nat \ {0}
      /\ d \in Nat \ {0} /\ e \in Nat \ {0} /\ f \in Nat \ {0}
  BY Zenon DEF Fraction
<1>2. a * d <= c * b /\ c * f < e * d
  BY <1>1 DEF Shorter
<1> SUFFICES a * f < e * b
  BY Zenon DEF Shorter
<1> HIDE DEF a, b, c, d, e, f
<1>3. (a * d) * f <= (c * b) * f /\ (c * f) * b < (e * d) * b
  BY <1>1, <1>2
<1>4. (a * f) * d < (e * b) * d
  BY <1>1, <1>3
<1> QED
  BY <1>1, <1>4

(* No duration is both shorter and longer than another.                    *)
LEMMA ShorterIsAsymmetric ==
    ASSUME NEW x \in Fraction, NEW y \in Fraction, Shorter(x, y)
    PROVE  ~Shorter(y, x)
BY DEF Shorter, Fraction

(* The adjustment factor makes a timeout longer.                           *)
LEMMA FactorGrows ==
    ASSUME NEW x \in Fraction
    PROVE  Times(TimeoutAdjustmentFactor, x) \in Fraction /\ Shorter(x, Times(TimeoutAdjustmentFactor, x))
<1> DEFINE a == x[1]  b == x[2]
           c == TimeoutAdjustmentFactor[1]  d == TimeoutAdjustmentFactor[2]
<1>1. a \in Nat \ {0} /\ b \in Nat \ {0} /\ c \in Nat \ {0} /\ d \in Nat \ {0}
  BY Zenon, ConfigAssumption DEF Fraction
<1>2. d < c
  BY <1>1, ConfigAssumption DEF Shorter
<1> SUFFICES c * a \in Nat \ {0} /\ d * b \in Nat \ {0} /\ a * (d * b) < (c * a) * b
  BY Zenon DEF Times, Shorter, Fraction
<1> HIDE DEF a, b, c, d
<1>3. c * a \in Nat \ {0} /\ d * b \in Nat \ {0} /\ a * b \in Nat \ {0}
  BY <1>1
<1>4. (a * b) * d < (a * b) * c
  BY <1>1, <1>2, <1>3
<1>5. a * (d * b) < (c * a) * b
  BY <1>1, <1>4
<1> QED
  BY Zenon, <1>3, <1>5

(* The bounds of timeouts are durations.                                   *)
LEMMA BoundsAreDurations ==
    /\ MinDuration \in Fraction /\ MaxDuration \in Fraction
    /\ ~Shorter(MaxDuration, MinDuration) /\ ~Shorter(MinDuration, MinDuration)
    /\ ~Shorter(MaxDuration, MaxDuration)
BY ConfigAssumption DEF MinDuration, MaxDuration, Fraction, Shorter

\* The timeouts for the exponents up to n
BackoffUpTo(g, n) ==
    /\ g \in [0 .. n -> Fraction]
    /\ g[0] = MinDuration
    /\ \A i \in 1 .. n : g[i] = Times(TimeoutAdjustmentFactor, g[i - 1])

(* There are such timeouts up to any exponent.                             *)
LEMMA BackoffExists == \A n \in Nat : \E g : BackoffUpTo(g, n)
<1> DEFINE Bad == {n \in Nat : ~\E g : BackoffUpTo(g, n)}
<1>1. SUFFICES ASSUME Bad # {} PROVE FALSE
  BY Zenon
<1>2. PICK n \in Bad : \A k \in Bad : n <= k
  <2> HIDE DEF Bad
  <2>1. Bad \in SUBSET Nat
    BY Zenon DEF Bad
  <2> QED
    BY Zenon, <1>1, <2>1, SmallestExponent
<1>3. n # 0
  <2>1. BackoffUpTo([i \in 0 .. 0 |-> MinDuration], 0)
    BY BoundsAreDurations DEF BackoffUpTo
  <2> QED
    BY Zenon, <2>1
<1>4. n \in Nat /\ n - 1 \in Nat /\ n - 1 \notin Bad
  BY <1>2, <1>3
<1>5. PICK g : BackoffUpTo(g, n - 1)
  BY Zenon, <1>4
<1> DEFINE h == [i \in 0 .. n |-> IF i = n THEN Times(TimeoutAdjustmentFactor, g[n - 1]) ELSE g[i]]
<1>6. \A i \in 0 .. n - 1 : g[i] \in Fraction
  BY Zenon, <1>4, <1>5 DEF BackoffUpTo
<1>7. Times(TimeoutAdjustmentFactor, g[n - 1]) \in Fraction
  BY <1>4, <1>6, FactorGrows
<1>8. h \in [0 .. n -> Fraction]
  BY <1>4, <1>6, <1>7
<1>9. h[0] = MinDuration
  BY <1>3, <1>4, <1>5 DEF BackoffUpTo
<1>10. ASSUME NEW i \in 1 .. n PROVE h[i] = Times(TimeoutAdjustmentFactor, h[i - 1])
  BY <1>4, <1>5 DEF BackoffUpTo
<1>11. BackoffUpTo(h, n)
  BY Zenon, <1>8, <1>9, <1>10 DEF BackoffUpTo
<1> QED
  BY Zenon, <1>2, <1>11

(* And they do not depend on how far they go.                              *)
LEMMA BackoffIsUnique ==
    ASSUME NEW m \in Nat, NEW n \in Nat, m <= n, NEW g, NEW h,
           BackoffUpTo(g, m), BackoffUpTo(h, n)
    PROVE  \A i \in 0 .. m : g[i] = h[i]
<1> DEFINE Bad == {i \in 0 .. m : g[i] # h[i]}
<1>1. SUFFICES ASSUME Bad # {} PROVE FALSE
  BY Zenon
<1>2. PICK i \in Bad : \A k \in Bad : i <= k
  <2> HIDE DEF Bad
  <2>1. Bad \in SUBSET Nat
    BY DEF Bad
  <2> QED
    BY Zenon, <1>1, <2>1, SmallestExponent
<1>3. i # 0
  BY Zenon, <1>2 DEF BackoffUpTo
<1>4. i \in 1 .. m /\ i \in 1 .. n /\ i - 1 \in 0 .. m /\ i - 1 \notin Bad
  BY <1>2, <1>3
<1>5. g[i - 1] = h[i - 1]
  BY Zenon, <1>4
<1>6. g[i] = Times(TimeoutAdjustmentFactor, g[i - 1]) /\ h[i] = Times(TimeoutAdjustmentFactor, h[i - 1])
  BY Zenon, <1>4 DEF BackoffUpTo
<1> QED
  BY Zenon, <1>2, <1>5, <1>6

(* Hence Backoff satisfies its own equation: it starts with the minimum    *)
(* and grows by the adjustment factor.                                     *)
LEMMA BackoffGrows ==
    /\ Backoff[0] = MinDuration
    /\ \A n \in Nat : /\ Backoff[n] \in Fraction
                      /\ Backoff[n + 1] = Times(TimeoutAdjustmentFactor, Backoff[n])
                      /\ Shorter(Backoff[n], Backoff[n + 1])
                      /\ ~Shorter(Backoff[n], MinDuration)
<1> DEFINE upTo(n) == CHOOSE g : BackoffUpTo(g, n)
           solution == [n \in Nat |-> upTo(n)[n]]
           equation(f) == f = [n \in Nat |->
               IF n = 0 THEN MinDuration ELSE Times(TimeoutAdjustmentFactor, f[n - 1])]
<1>1. \A n \in Nat : BackoffUpTo(upTo(n), n)
  BY Zenon, BackoffExists
<1> HIDE DEF upTo
<1>2. ASSUME NEW n \in Nat
      PROVE  upTo(n)[n] = IF n = 0 THEN MinDuration
                          ELSE Times(TimeoutAdjustmentFactor, solution[n - 1])
  <2>1. CASE n = 0
    BY Zenon, <1>1, <2>1 DEF BackoffUpTo
  <2>2. CASE n # 0
    <3>1. n - 1 \in Nat /\ n \in 1 .. n /\ n - 1 <= n /\ n - 1 \in 0 .. n - 1
      BY <2>2
    <3>2. upTo(n)[n] = Times(TimeoutAdjustmentFactor, upTo(n)[n - 1])
      BY Zenon, <1>1, <3>1 DEF BackoffUpTo
    <3>3. upTo(n - 1)[n - 1] = upTo(n)[n - 1]
      BY <1>1, <3>1, BackoffIsUnique
    <3> QED
      BY Zenon, <2>2, <3>1, <3>2, <3>3
  <2> QED
    BY Zenon, <2>1, <2>2
<1>3. equation(solution)
  BY Zenon, <1>2
<1>4. equation(Backoff)
  <2> HIDE DEF solution
  <2> QED
    BY Zenon, <1>3 DEF Backoff
<1> HIDE DEF solution
<1>5. Backoff[0] = MinDuration /\ MinDuration \in Fraction
  BY Zenon, <1>4, BoundsAreDurations
<1>6. \A n \in Nat : Backoff[n + 1] = Times(TimeoutAdjustmentFactor, Backoff[n])
  BY <1>4
<1> DEFINE Bad == {n \in Nat : ~(Backoff[n] \in Fraction /\ ~Shorter(Backoff[n], MinDuration))}
<1>7. Bad = {}
  <2>1. SUFFICES ASSUME Bad # {} PROVE FALSE
    BY Zenon
  <2>2. PICK n \in Bad : \A k \in Bad : n <= k
    <3> HIDE DEF Bad
    <3>1. Bad \in SUBSET Nat
      BY Zenon DEF Bad
    <3> QED
      BY <2>1, <3>1, SmallestExponent
  <2>3. n # 0
    BY Zenon, <1>5, <2>2, BoundsAreDurations
  <2>4. n - 1 \in Nat /\ n - 1 \notin Bad /\ (n - 1) + 1 = n
    BY <2>2, <2>3
  <2>5. Backoff[n] = Times(TimeoutAdjustmentFactor, Backoff[n - 1])
    BY Zenon, <1>6, <2>4
  <2>6. Backoff[n - 1] \in Fraction /\ ~Shorter(Backoff[n - 1], MinDuration)
    BY Zenon, <2>4
  <2>7. Backoff[n] \in Fraction /\ Shorter(Backoff[n - 1], Backoff[n])
    BY Zenon, <2>5, <2>6, FactorGrows
  <2>8. Shorter(MinDuration, Backoff[n])
    BY Zenon, <1>5, <2>6, <2>7, ShorterIsOrder
  <2> QED
    BY Zenon, <1>5, <2>2, <2>7, <2>8, ShorterIsAsymmetric
<1>8. ASSUME NEW n \in Nat
      PROVE  Backoff[n] \in Fraction /\ Shorter(Backoff[n], Backoff[n + 1]) /\ ~Shorter(Backoff[n], MinDuration)
  <2>1. Backoff[n] \in Fraction /\ ~Shorter(Backoff[n], MinDuration)
    BY Zenon, <1>7
  <2> QED
    BY Zenon, <1>6, <2>1, FactorGrows
<1> QED
  BY Zenon, <1>5, <1>6, <1>8

(* Neither a failed round nor a successful one counts beyond the limit.    *)
LEMMA CountingIsLimited ==
    ASSUME NEW n, Counted(n)
    PROVE  Counted(OnTimeout(n)) /\ Counted(OnProgressBeforeTimeout(n))
<1> DEFINE H == HappyPathMaxRoundFailures
<1>1. H \in Nat /\ n \in Nat
  BY Zenon, ConfigAssumption DEF Counted
<1>2. Counted(OnTimeout(n))
  <2>1. CASE n >= H /\ ~ReachesMax(n - H)
    <3>1. OnTimeout(n) = n + 1 /\ (n + 1) - H - 1 = n - H
      BY <1>1, <2>1 DEF OnTimeout
    <3> QED
      BY <1>1, <2>1, <3>1 DEF Counted
  <2>2. CASE n < H
    BY <1>1, <2>2 DEF OnTimeout, Counted
  <2>3. CASE n >= H /\ ReachesMax(n - H)
    BY Zenon, <2>3 DEF OnTimeout
  <2> QED
    BY <1>1, <2>1, <2>2, <2>3
<1>3. Counted(OnProgressBeforeTimeout(n))
  <2>1. CASE n - 1 > H
    <3>1. n - H - 2 \in Nat /\ (n - 1) - H - 1 = n - H - 2 /\ (n - H - 2) + 1 = n - H - 1 /\ n > H
      BY <1>1, <2>1
    <3>2. /\ Backoff[n - H - 2] \in Fraction /\ Backoff[n - H - 1] \in Fraction
          /\ Shorter(Backoff[n - H - 2], Backoff[n - H - 1])
      BY <3>1, <1>1, BackoffGrows
    <3>3. ~Shorter(Backoff[n - H - 1], Backoff[n - H - 2]) /\ MaxDuration \in Fraction
      BY Zenon, <3>2, ShorterIsAsymmetric, BoundsAreDurations
    <3>4. Shorter(Backoff[n - H - 1], MaxDuration)
      BY Zenon, <3>1 DEF Counted, ReachesMax
    <3>5. ~ReachesMax(n - H - 2)
      BY Zenon, <3>2, <3>3, <3>4, ShorterIsOrder DEF ReachesMax
    <3> QED
      BY <1>1, <2>1, <3>1, <3>5 DEF OnProgressBeforeTimeout, Counted
  <2>2. CASE ~(n - 1 > H)
    BY <1>1, <2>2 DEF OnProgressBeforeTimeout, Counted
  <2> QED
    BY Zenon, <2>1, <2>2
<1> QED
  BY Zenon, <1>2, <1>3

(* The limit is what makes the backoff respond to progress.                *)
LEMMA CountedIsTruncated ==
    BackedOff => BackoffIsTruncated
<1> SUFFICES ASSUME Counted(r) PROVE BackoffIsTruncated
  BY Zenon DEF BackedOff
<1> DEFINE H == HappyPathMaxRoundFailures
<1>1. H \in Nat /\ r \in Nat
  BY Zenon, ConfigAssumption DEF Counted
<1>2. CASE r <= H
  BY Zenon, <1>2, BoundsAreDurations DEF BackoffIsTruncated, replicaTimeout
<1>3. CASE r > H
  <2>1. /\ r - H \in Nat /\ r - H - 1 \in Nat /\ (r - H - 1) + 1 = r - H
        /\ OnProgressBeforeTimeout(r) = r - 1 /\ (r - 1) - H = r - H - 1
    BY <1>1, <1>3 DEF OnProgressBeforeTimeout
  <2>2. /\ Backoff[r - H] \in Fraction /\ Shorter(Backoff[r - H - 1], Backoff[r - H])
        /\ ~Shorter(Backoff[r - H], MinDuration)
    BY Zenon, <2>1, BackoffGrows
  <2>3. Shorter(Backoff[r - H - 1], MaxDuration)
    BY Zenon, <1>3 DEF Counted, ReachesMax
  <2>4. /\ ~Shorter(replicaTimeout(r), MinDuration) /\ ~Shorter(MaxDuration, replicaTimeout(r))
        /\ Shorter(Backoff[r - H - 1], replicaTimeout(r))
    <3>1. CASE ReachesMax(r - H)
      BY <1>1, <1>3, <2>3, <3>1, BoundsAreDurations DEF replicaTimeout
    <3>2. CASE ~ReachesMax(r - H)
      <4>1. replicaTimeout(r) = Backoff[r - H] /\ Shorter(Backoff[r - H], MaxDuration)
        BY <1>1, <1>3, <3>2 DEF replicaTimeout, ReachesMax
      <4> QED
        BY Zenon, <2>2, <4>1, BoundsAreDurations, ShorterIsAsymmetric
    <3> QED
      BY Zenon, <3>1, <3>2
  <2>5. CASE r - 1 <= H
    BY Zenon, <2>1, <2>4, <2>5 DEF BackoffIsTruncated, replicaTimeout
  <2>6. CASE ~(r - 1 <= H)
    <3>1. replicaTimeout(r - 1) = Backoff[r - H - 1]
      BY Zenon, <2>1, <2>3, <2>6 DEF replicaTimeout, ReachesMax
    <3> QED
      BY Zenon, <2>1, <2>4, <3>1 DEF BackoffIsTruncated
  <2> QED
    BY Zenon, <2>5, <2>6
<1> QED
  BY <1>1, <1>2, <1>3
-----------------------------------------------------------------------------
(***************************************************************************)
(* The PaceMaker.  Advanced: what it may have become since it was in view  *)
(* from; the views it has started are the ones it has entered, and the     *)
(* current view is the last of them.                                       *)
(***************************************************************************)
Advanced(pm, from) ==
    /\ pm \in [ld : LivenessDataOfLoop, r : Nat, started : SUBSET Views]
    /\ Counted(pm.r)
    /\ \A v \in pm.started : from < v /\ v <= pm.ld.CurrentView
    /\ pm.started = {} => pm.ld.CurrentView = from
    /\ pm.started # {} => pm.ld.CurrentView \in pm.started

(* Certificates lead to well-formed data, and never to an earlier view.    *)
LEMMA CertificateAdvances ==
    ASSUME NEW ld \in LivenessDataOfLoop
    PROVE  /\ \A qc \in Blocks : /\ ProcessQC(ld, qc) \in LivenessDataOfLoop
                                 /\ ld.CurrentView <= ProcessQC(ld, qc).CurrentView
           /\ \A tc \in OptionalTC : /\ ProcessTC(ld, tc) \in LivenessDataOfLoop
                                     /\ ld.CurrentView <= ProcessTC(ld, tc).CurrentView
<1>1. \A b \in Blocks : BlockView[b] \in Nat /\ BlockView[b] + 1 \in Views
  BY Zenon, BlockTreeAssumption, EventLoopAssumption
<1>2. Nil \in OptionalTC /\ ld.CurrentView \in Nat /\ ld.CurrentView \in Views
  BY Zenon, BlockTreeAssumption DEF OptionalTC, LivenessDataOfLoop
<1>3. \A qc \in Blocks : updateNewestQC(ld, qc) \in LivenessDataOfLoop
                         /\ updateNewestQC(ld, qc).CurrentView = ld.CurrentView
  BY Zenon DEF updateNewestQC, NewerQC, LivenessDataOfLoop
<1>4. \A v \in Views, qc \in Blocks, tc \in OptionalTC :
          /\ updateLivenessData(ld, v, qc, tc) \in LivenessDataOfLoop
          /\ updateLivenessData(ld, v, qc, tc).CurrentView = v
  BY Zenon DEF updateLivenessData, NewerQC, LivenessDataOfLoop
<1>5. ASSUME NEW qc \in Blocks
      PROVE  ProcessQC(ld, qc) \in LivenessDataOfLoop
             /\ ld.CurrentView <= ProcessQC(ld, qc).CurrentView
  BY <1>1, <1>2, <1>3, <1>4 DEF ProcessQC
<1>6. ASSUME NEW tc \in OptionalTC
      PROVE  ProcessTC(ld, tc) \in LivenessDataOfLoop
             /\ ld.CurrentView <= ProcessTC(ld, tc).CurrentView
  <2>1. CASE tc = Nil
    BY <1>2, <2>1 DEF ProcessTC
  <2>2. CASE tc # Nil
    <3>1. tc.View \in TimeoutViews /\ tc.NewestQC \in Blocks
      BY Zenon, <2>2 DEF OptionalTC, TimeoutCertificates
    <3>2. tc.View \in Nat /\ tc.View + 1 \in Views
      BY Zenon, <3>1, BlockTreeAssumption, EventLoopAssumption
    <3>3. CASE tc.View < ld.CurrentView
      BY <1>2, <1>3, <2>2, <3>1, <3>3 DEF ProcessTC
    <3>4. CASE ~(tc.View < ld.CurrentView)
      BY <1>2, <1>4, <2>2, <3>1, <3>2, <3>4 DEF ProcessTC
    <3> QED
      BY Zenon, <3>3, <3>4
  <2> QED
    BY Zenon, <2>1, <2>2
<1> QED
  BY Zenon, <1>5, <1>6

(* A certificate starts the timer of the view it leads to, if that is new. *)
LEMMA ViewChangeAdvances ==
    ASSUME NEW from \in Views, NEW pm, Advanced(pm, from), from <= pm.ld.CurrentView,
           NEW ld \in LivenessDataOfLoop, pm.ld.CurrentView <= ld.CurrentView,
           NEW n, Counted(n)
    PROVE  /\ Advanced(ViewChange(pm, ld, n), from)
           /\ from <= ViewChange(pm, ld, n).ld.CurrentView
<1>1. /\ pm.ld.CurrentView \in Nat /\ pm.ld.CurrentView \in Views
      /\ ld.CurrentView \in Nat /\ ld.CurrentView \in Views /\ from \in Nat
  BY Zenon, BlockTreeAssumption DEF Advanced, LivenessDataOfLoop
<1>2. pm.started \in SUBSET Views /\ \A v \in pm.started : v \in Nat
  BY Zenon, BlockTreeAssumption DEF Advanced
<1>3. CASE ld.CurrentView <= pm.ld.CurrentView
  <2>1. ld.CurrentView = pm.ld.CurrentView /\ ViewChange(pm, ld, n) = [pm EXCEPT !.ld = ld]
    BY <1>1, <1>3 DEF ViewChange
  <2>2. /\ ViewChange(pm, ld, n) \in [ld : LivenessDataOfLoop, r : Nat, started : SUBSET Views]
        /\ ViewChange(pm, ld, n).ld = ld
        /\ ViewChange(pm, ld, n).r = pm.r
        /\ ViewChange(pm, ld, n).started = pm.started
    BY Zenon, <2>1 DEF Advanced
  <2> QED
    BY Zenon, <2>1, <2>2 DEF Advanced
<1>4. CASE ~(ld.CurrentView <= pm.ld.CurrentView)
  <2> DEFINE res == ViewChange(pm, ld, n)
  <2>1. res = [ld |-> ld, r |-> n, started |-> pm.started \cup {ld.CurrentView}]
    BY Zenon, <1>4 DEF ViewChange
  <2>2. /\ res \in [ld : LivenessDataOfLoop, r : Nat, started : SUBSET Views]
        /\ res.ld = ld /\ res.r = n /\ res.started = pm.started \cup {ld.CurrentView}
    BY <1>1, <1>2, <2>1 DEF Counted
  <2> HIDE DEF res
  <2>3. \A v \in res.started : from < v /\ v <= ld.CurrentView
    BY <1>1, <1>2, <1>4, <2>2 DEF Advanced
  <2> QED
    BY <1>1, <1>4, <2>2, <2>3 DEF Advanced, res
<1> QED
  BY Zenon, <1>3, <1>4

(* The certificates of an event are processed one after the other.         *)
LEMMA PaceMakerAdvances ==
    ASSUME NEW from \in Views, NEW pm, Advanced(pm, from), from <= pm.ld.CurrentView
    PROVE  /\ \A qc \in Blocks : /\ Advanced(PaceMakerProcessQC(pm, qc), from)
                                 /\ from <= PaceMakerProcessQC(pm, qc).ld.CurrentView
           /\ \A tc \in OptionalTC : /\ Advanced(PaceMakerProcessTC(pm, tc), from)
                                     /\ from <= PaceMakerProcessTC(pm, tc).ld.CurrentView
<1>1. pm.ld \in LivenessDataOfLoop /\ Counted(pm.r)
  BY Zenon DEF Advanced
<1>2. Counted(OnTimeout(pm.r)) /\ Counted(OnProgressBeforeTimeout(pm.r))
  BY Zenon, <1>1, CountingIsLimited
<1> QED
  BY Zenon, <1>1, <1>2, CertificateAdvances, ViewChangeAdvances
     DEF PaceMakerProcessQC, PaceMakerProcessTC

(* A PaceMaker that has not processed a certificate is where it was.       *)
LEMMA PaceMakerStateAdvances ==
    ASSUME Timed, BackedOff
    PROVE  /\ livenessData.CurrentView \in Views /\ livenessData.CurrentView \in Nat
           /\ Advanced(PaceMakerState, livenessData.CurrentView)
           /\ livenessData.CurrentView <= PaceMakerState.ld.CurrentView
<1>1. livenessData \in LivenessDataOfLoop /\ r \in Nat /\ Counted(r)
  BY Zenon DEF Timed, BackedOff, Counted
<1>2. livenessData.CurrentView \in Views /\ livenessData.CurrentView \in Nat
  BY Zenon, <1>1, BlockTreeAssumption DEF LivenessDataOfLoop
<1> QED
  BY <1>1, <1>2 DEF PaceMakerState, Advanced
-----------------------------------------------------------------------------
(***************************************************************************)
(* Timers.                                                                 *)
(***************************************************************************)
(* When a handler has moved the PaceMaker on, the loop listens to a timer  *)
(* that has just been started, or to the same as before.                   *)
LEMMA BecomeIsTimed ==
    ASSUME Timed, BackedOff, pc # "start", pc' \in {"first", "second"}, buffered' = buffered,
           NEW pm, Advanced(pm, livenessData.CurrentView), Become(pm)
    PROVE  Timed' /\ BackedOff'
<1> DEFINE now == livenessData.CurrentView
<1>1. now \in Views /\ now \in Nat /\ Views \subseteq Nat
  BY Zenon, BlockTreeAssumption DEF Timed, LivenessDataOfLoop
<1>2. /\ livenessData' = pm.ld /\ pm.ld \in LivenessDataOfLoop
      /\ pm.ld.CurrentView \in Views /\ pm.ld.CurrentView \in Nat
      /\ r' = pm.r /\ Counted(pm.r)
      /\ ticks' = ticks /\ timedOut' = (timedOut /\ pm.started = {})
      /\ ticker' = [v \in Views |-> IF v \in pm.started THEN "waiting" ELSE ticker[v]]
      /\ timeoutChannel' = IF pm.started = {} THEN timeoutChannel ELSE pm.ld.CurrentView
      /\ timeoutChannel = now
  BY Zenon, <1>1 DEF Become, StartTimeout, Advanced, LivenessDataOfLoop, Timed
<1>3. BackedOff'
  BY Zenon, <1>2 DEF BackedOff, Counted
<1>4. ticker' \in [Views -> {"none", "waiting", "sending", "stopped"}]
  BY Zenon, <1>2 DEF Timed
<1>5. CASE pm.started = {}
  <2>1. pm.ld.CurrentView = now /\ ticker' = ticker /\ timeoutChannel' = timeoutChannel
    BY Zenon, <1>2, <1>5 DEF Advanced, Timed
  <2> QED
    BY Zenon, <1>2, <1>3, <1>5, <2>1 DEF Timed
<1>6. CASE pm.started # {}
  <2>1. pm.ld.CurrentView \in pm.started /\ now < pm.ld.CurrentView
        /\ \A v \in pm.started : now < v /\ v <= pm.ld.CurrentView
    BY Zenon, <1>6 DEF Advanced
  <2>2. timeoutChannel' = pm.ld.CurrentView /\ ~timedOut'
    BY Zenon, <1>2, <1>6
  <2>3. ASSUME NEW v \in Views, pm.ld.CurrentView < v
        PROVE  ticker'[v] = "none" /\ v \notin buffered'
    <3>1. now < v /\ v \notin pm.started
      BY <1>1, <1>2, <2>1, <2>3
    <3> QED
      BY Zenon, <1>2, <3>1 DEF Timed
  <2>4. ticker'[pm.ld.CurrentView] = "waiting" /\ pm.ld.CurrentView \notin buffered'
    BY Zenon, <1>2, <2>1 DEF Timed
  <2> QED
    BY ZenonT(60), <1>2, <1>3, <1>4, <2>2, <2>3, <2>4 DEF Timed
<1> QED
  BY Zenon, <1>5, <1>6

(* Start starts the timer of the first view.                               *)
LEMMA StartIsTimed ==
    ASSUME Timed, BackedOff, Start
    PROVE  Timed' /\ BackedOff'
<1> DEFINE now == livenessData.CurrentView
           pm == [PaceMakerState EXCEPT !.started = {now}]
<1>1. now \in Views
  BY Zenon DEF Timed, LivenessDataOfLoop
<1>2. pm.ld = livenessData /\ pm.r = r /\ pm.started = {now}
  BY Zenon DEF PaceMakerState
<1>3. /\ livenessData' = livenessData /\ r' = r /\ ticks' = ticks
      /\ timedOut' = FALSE /\ buffered' = buffered
      /\ ticker' = [v \in Views |-> IF v \in {now} THEN "waiting" ELSE ticker[v]]
      /\ timeoutChannel' = now /\ pc = "start" /\ pc' = "first"
  BY Zenon, <1>2 DEF Start, Become, StartTimeout
<1>4. BackedOff'
  BY Zenon, <1>3 DEF BackedOff, Counted
<1>5. \A v \in Views : ticker[v] = "none" /\ v \notin buffered
  BY Zenon, <1>3 DEF Timed
<1>6. ASSUME NEW v \in Views
      PROVE  /\ now < v => ticker'[v] = "none" /\ v \notin buffered'
             /\ ~(ticker'[v] = "sending" \/ v \in buffered')
  BY <1>1, <1>3, <1>5, BlockTreeAssumption
<1> QED
  BY Zenon, <1>3, <1>4, <1>6 DEF Timed

(* The goroutine of a timer.                                               *)
LEMMA TickingIsTimed ==
    ASSUME Timed, NEW v \in Views, tickAfterTimeout(v)
    PROVE  Timed'
<1>1. /\ livenessData' = livenessData /\ pc' = pc /\ timeoutChannel' = timeoutChannel
      /\ timedOut' = timedOut
  BY Zenon DEF tickAfterTimeout, paceMaker
<1>2. CASE Expire(v)
  BY <1>1, <1>2 DEF Timed, Expire, LivenessDataOfLoop
<1>3. CASE SendTick(v)
  BY Zenon, <1>1, <1>3 DEF Timed, SendTick, LivenessDataOfLoop
<1>4. CASE StopTicking(v)
  <2>1. pc # "start" /\ v # livenessData.CurrentView
    BY Zenon, <1>4 DEF Timed, StopTicking, Cancelled
  <2> QED
    BY Zenon, <1>1, <1>4, <2>1 DEF Timed, StopTicking, Cancelled, LivenessDataOfLoop
<1> QED
  BY Zenon, <1>2, <1>3, <1>4 DEF tickAfterTimeout

(* A tick is only taken from the channel of the current view.              *)
LEMMA OnLocalTimeoutIsTimed ==
    ASSUME Timed, pc # "start", pc' \in {"first", "second"}, OnLocalTimeout
    PROVE  Timed'
<1>1. timeoutChannel = livenessData.CurrentView /\ timeoutChannel \in Views
  BY Zenon DEF Timed, LivenessDataOfLoop
<1>2. /\ livenessData' = livenessData /\ timeoutChannel' = timeoutChannel
      /\ ticker' = ticker /\ ticks' = ticks /\ timedOut' = TRUE
      /\ buffered' = buffered \ {timeoutChannel} /\ timeoutChannel \in buffered
  BY Zenon DEF OnLocalTimeout, paceMaker, timers
<1>3. ticks[livenessData.CurrentView] > 0
  BY Zenon, <1>1, <1>2 DEF Timed
<1> QED
  BY Zenon, <1>1, <1>2, <1>3 DEF Timed
-----------------------------------------------------------------------------
(***************************************************************************)
(* Submissions.                                                            *)
(***************************************************************************)
(* A submission only uses its own tracker, and a TC that of the QCs too.   *)
LEMMA SubmissionTypes ==
    ASSUME NEW s \in Submissions, NEW k \in TrackersOf(s)
    PROVE  /\ s.kind \in Trackers \cup {"proposal"}
           /\ s.kind = "proposal" => k = "proposal" /\ s.item \in Blocks
           /\ s.kind # "proposal" => k \in Trackers /\ Item(s, k) \in ItemTypes(k)
<1>1. \/ s \in [kind : {"proposal", "qc"}, item : Blocks]
      \/ s \in [kind : {"tc"}, item : TimeoutCertificates]
      \/ s \in [kind : {"partial"}, item : PartialTCs]
  BY Zenon, EventLoopAssumption
<1>2. CASE s \in [kind : {"proposal", "qc"}, item : Blocks]
  BY Zenon, <1>2 DEF TrackersOf, Trackers, Item, ItemTypes
<1>3. CASE s \in [kind : {"tc"}, item : TimeoutCertificates]
  BY Zenon, <1>3 DEF TrackersOf, Trackers, Item, ItemTypes, TimeoutCertificates
<1>4. CASE s \in [kind : {"partial"}, item : PartialTCs]
  BY <1>4 DEF TrackersOf, Trackers, Item, ItemTypes
<1> QED
  BY Zenon, <1>1, <1>2, <1>3, <1>4

(* nil is not an item, and views are numbers.                              *)
LEMMA ItemsAreNotNil ==
    ASSUME NEW k \in Trackers, NEW x \in ItemTypes(k)
    PROVE  x # Nil /\ ViewIn(k, x) \in Nat
<1>1. CASE k = "qc"
  BY Zenon, <1>1, BlockTreeAssumption, EventLoopAssumption DEF ItemTypes, ViewIn
<1>2. CASE k = "tc"
  BY Zenon, <1>2, BlockTreeAssumption DEF ItemTypes, ViewIn, TimeoutCertificates
<1>3. CASE k = "partial"
  BY ZenonT(30), <1>3, BlockTreeAssumption, EventLoopAssumption DEF ItemTypes, ViewIn, PartialTCs
<1> QED
  BY Zenon, <1>1, <1>2, <1>3 DEF Trackers

\* What the invariant says of one goroutine
SubmitterOK(s, sub, new) ==
    /\ sub.at \in {"idle", "track", "swap", "notify", "end"}
    /\ sub.tracker \in TrackersOf(s)
    /\ sub.snapshot \in ItemTypes(sub.tracker) \cup {Nil}
    /\ s.kind = "proposal" => sub.at \in {"idle", "end"}
    /\ sub.at = "swap" => Older(sub.tracker, sub.snapshot, Item(s, sub.tracker))
    /\ sub.at # "swap" => sub.snapshot = Nil
    /\ sub.at = "notify" => new[sub.tracker] # Nil

(* A step of one goroutine keeps the invariant if that goroutine does, and *)
(* if no tracker is emptied.                                               *)
LEMMA SubmitterStep ==
    ASSUME Submitted, NEW s \in Submissions, NEW sub,
           submitters' = [submitters EXCEPT ![s] = sub],
           SubmitterOK(s, sub, newest'),
           DOMAIN newest' = Trackers,
           \A k \in Trackers : newest'[k] \in ItemTypes(k) \cup {Nil},
           \A k \in Trackers : newest[k] # Nil => newest'[k] # Nil,
           notified' \subseteq Trackers,
           \A k \in notified' : newest'[k] # Nil,
           proposals' \in Seq(Blocks)
    PROVE  Submitted'
<1>1. /\ DOMAIN submitters' = Submissions
      /\ \A u \in Submissions : submitters'[u] = IF u = s THEN sub ELSE submitters[u]
  BY Zenon DEF Submitted
<1>2. \A u \in Submissions : SubmitterOK(u, submitters[u], newest)
  BY Zenon DEF Submitted, SubmitterOK
<1>3. ASSUME NEW u \in Submissions
      PROVE  SubmitterOK(u, submitters'[u], newest')
  <2>1. CASE u = s
    BY Zenon, <1>1, <2>1
  <2>2. CASE u # s
    <3>1. submitters'[u] = submitters[u] /\ SubmitterOK(u, submitters[u], newest)
      BY Zenon, <1>1, <1>2, <2>2
    <3>2. submitters[u].at = "notify" => submitters[u].tracker \in Trackers
      BY Zenon, <3>1, SubmissionTypes DEF SubmitterOK
    <3> QED
      BY Zenon, <3>1, <3>2 DEF SubmitterOK
  <2> QED
    BY Zenon, <2>1, <2>2
<1> QED
  BY Zenon, <1>1, <1>3 DEF Submitted, SubmitterOK

(* SubmitProposal, Track and the notification keep what is said above of   *)
(* trackers, notifiers and goroutines.                                     *)
LEMMA SubmitIsSubmitted ==
    ASSUME Submitted, NEW s \in Submissions, Submit(s)
    PROVE  Submitted'
<1> DEFINE sub == submitters[s]
           k == sub.tracker
<1>1. /\ k \in TrackersOf(s)
      /\ sub.snapshot \in ItemTypes(k) \cup {Nil}
      /\ s.kind = "proposal" => sub.at \in {"idle", "end"}
      /\ sub.at = "swap" => Older(k, sub.snapshot, Item(s, k))
      /\ sub.at # "swap" => sub.snapshot = Nil
      /\ sub.at = "notify" => newest[k] # Nil
      /\ DOMAIN submitters = Submissions
  BY Zenon DEF Submitted
<1>2. /\ DOMAIN newest = Trackers
      /\ \A j \in Trackers : newest[j] \in ItemTypes(j) \cup {Nil}
      /\ notified \subseteq Trackers
      /\ \A j \in notified : newest[j] # Nil
      /\ proposals \in Seq(Blocks)
  BY Zenon DEF Submitted
<1>3. ASSUME NEW at, MoveTo(s, at)
      PROVE  submitters' = [submitters EXCEPT ![s] = Submitter(at, k, Nil)]
  BY Zenon, <1>1, <1>3 DEF MoveTo
<1>4. ASSUME NEW at \in {"track", "notify", "end"}, s.kind = "proposal" => at = "end",
             at = "notify" => newest'[k] # Nil
      PROVE  SubmitterOK(s, Submitter(at, k, Nil), newest')
  BY Zenon, <1>1, <1>4 DEF SubmitterOK, Submitter
<1>5. CASE SubmitProposal(s)
  <2>1. submitters' = [submitters EXCEPT ![s] = Submitter("end", k, Nil)]
    BY Zenon, <1>3, <1>5 DEF SubmitProposal
  <2>2. SubmitterOK(s, Submitter("end", k, Nil), newest')
    BY Zenon, <1>4
  <2>3. proposals' \in Seq(Blocks) /\ newest' = newest /\ notified' = notified
    BY <1>1, <1>2, <1>5, SubmissionTypes DEF SubmitProposal
  <2> QED
    BY Zenon, <1>2, <2>1, <2>2, <2>3, SubmitterStep
<1>6. CASE TakeSnapshot(s)
  <2>1. /\ s.kind # "proposal" /\ sub.snapshot = Nil
        /\ newest' = newest /\ notified' = notified /\ proposals' = proposals
    BY Zenon, <1>1, <1>6 DEF TakeSnapshot
  <2>2. k \in Trackers /\ Item(s, k) \in ItemTypes(k)
    BY Zenon, <1>1, <2>1, SubmissionTypes
  <2>3. ViewIn(k, Item(s, k)) \in Nat /\ (newest[k] # Nil => ViewIn(k, newest[k]) \in Nat)
    BY Zenon, <1>2, <2>2, ItemsAreNotNil
  <2> DEFINE refused == newest[k] # Nil /\ ViewIn(k, newest[k]) >= ViewIn(k, Item(s, k))
             next == IF ~refused THEN Submitter("swap", k, newest[k])
                     ELSE IF k = "tc" THEN Submitter("track", "qc", Nil)
                     ELSE Submitter("end", k, Nil)
  <2>4. submitters' = [submitters EXCEPT ![s] = next]
    BY Zenon, <1>6 DEF TakeSnapshot
  <2>5. SubmitterOK(s, next, newest')
    <3>1. CASE ~refused
      <4>1. next = Submitter("swap", k, newest[k])
        BY Zenon, <3>1
      <4>2. Older(k, newest[k], Item(s, k))
        BY <2>3, <3>1 DEF Older
      <4> QED
        BY ZenonT(30), <1>1, <1>2, <2>1, <2>2, <4>1, <4>2 DEF SubmitterOK, Submitter
    <3>2. CASE refused /\ k = "tc"
      <4>1. next = Submitter("track", "qc", Nil)
        BY Zenon, <3>2
      <4>2. "qc" \in TrackersOf(s)
        BY Zenon, <1>1, <3>2 DEF TrackersOf
      <4> QED
        BY ZenonT(30), <2>1, <4>1, <4>2 DEF SubmitterOK, Submitter
    <3>3. CASE refused /\ k # "tc"
      <4>1. next = Submitter("end", k, Nil)
        BY Zenon, <3>3
      <4> QED
        BY Zenon, <1>4, <4>1
    <3> QED
      BY Zenon, <3>1, <3>2, <3>3
  <2> HIDE DEF next
  <2> QED
    BY ZenonT(30), <1>2, <2>1, <2>4, <2>5, SubmitterStep
<1>7. CASE CompareAndSwap(s)
  <2> DEFINE swap == newest[k] = sub.snapshot
  <2>1. /\ sub.at = "swap" /\ notified' = notified /\ proposals' = proposals
        /\ newest' = IF swap THEN [newest EXCEPT ![k] = Item(s, k)] ELSE newest
        /\ MoveTo(s, IF swap THEN "notify" ELSE "track")
    BY Zenon, <1>7 DEF CompareAndSwap
  <2>2. s.kind # "proposal" /\ k \in Trackers /\ Item(s, k) \in ItemTypes(k)
    BY Zenon, <1>1, <2>1, SubmissionTypes
  <2>3. Item(s, k) # Nil
    BY Zenon, <2>2, ItemsAreNotNil
  <2>4. /\ DOMAIN newest' = Trackers
        /\ \A j \in Trackers : newest'[j] \in ItemTypes(j) \cup {Nil}
        /\ \A j \in Trackers : newest[j] # Nil => newest'[j] # Nil
        /\ swap => newest'[k] # Nil
    BY Zenon, <1>2, <2>1, <2>2, <2>3
  <2>5. submitters' = [submitters EXCEPT ![s] =
                         Submitter(IF swap THEN "notify" ELSE "track", k, Nil)]
    BY Zenon, <1>3, <2>1
  <2>6. SubmitterOK(s, Submitter(IF swap THEN "notify" ELSE "track", k, Nil), newest')
    BY Zenon, <1>4, <2>2, <2>4
  <2> QED
    BY Zenon, <1>2, <2>1, <2>4, <2>5, <2>6, SubmitterStep
<1>8. CASE Notify(s)
  <2>1. /\ sub.at = "notify" /\ newest' = newest /\ proposals' = proposals
        /\ notified' = notified \cup {k}
    BY Zenon, <1>8 DEF Notify
  <2>2. k \in Trackers
    BY Zenon, <1>1, <2>1, SubmissionTypes
  <2>3. submitters' = [submitters EXCEPT ![s] = Submitter("end", k, Nil)]
    BY Zenon, <1>3, <1>8 DEF Notify
  <2>4. SubmitterOK(s, Submitter("end", k, Nil), newest')
    BY <1>4
  <2> QED
    BY Zenon, <1>1, <1>2, <2>1, <2>2, <2>3, <2>4, SubmitterStep
<1> QED
  BY Zenon, <1>5, <1>6, <1>7, <1>8 DEF Submit
-----------------------------------------------------------------------------
(***************************************************************************)
(* The loop.                                                               *)
(***************************************************************************)
(* A handler that takes an event finds well-formed certificates in it, and *)
(* moves the PaceMaker by them.                                            *)
LEMMA HandlerAdvances ==
    ASSUME Submitted, Timed, BackedOff,
           OnPartialTcCreated \/ OnReceiveProposal \/ OnReceiveQc \/ OnReceiveTc
    PROVE  /\ \E pm : Advanced(pm, livenessData.CurrentView) /\ Become(pm)
           /\ Submitted'
           /\ buffered' = buffered /\ newest' = newest /\ submitters' = submitters
<1> DEFINE now == livenessData.CurrentView
           pm0 == PaceMakerState
<1>1. now \in Views /\ Advanced(pm0, now) /\ now <= pm0.ld.CurrentView
  BY Zenon, PaceMakerStateAdvances
<1> HIDE DEF pm0
<1>2. ASSUME NEW qc \in Blocks, NEW tc \in OptionalTC
      PROVE  Advanced(PaceMakerProcessTC(PaceMakerProcessQC(pm0, qc), tc), now)
  <2>1. /\ Advanced(PaceMakerProcessQC(pm0, qc), now)
        /\ now <= PaceMakerProcessQC(pm0, qc).ld.CurrentView
    BY Zenon, <1>1, PaceMakerAdvances
  <2> QED
    BY Zenon, <1>1, <2>1, PaceMakerAdvances
<1>3. ASSUME NEW pm, Become(pm), notified' \subseteq notified, proposals' \in Seq(Blocks)
      PROVE  Submitted' /\ newest' = newest /\ submitters' = submitters
  BY Zenon, <1>3 DEF Submitted, Become
<1>4. /\ \A k \in notified : k \in Trackers /\ newest[k] \in ItemTypes(k)
      /\ proposals \in Seq(Blocks)
  BY Zenon DEF Submitted
<1>5. CASE OnPartialTcCreated
  <2> DEFINE pm == PaceMakerProcessTC(PaceMakerProcessQC(pm0, newest["partial"].NewestQC),
                                      newest["partial"].LastViewTC)
  <2>1. /\ "partial" \in notified /\ notified' = notified \ {"partial"}
        /\ Become(pm) /\ proposals' = proposals /\ buffered' = buffered
    BY Zenon, <1>5 DEF OnPartialTcCreated, pm0
  <2>2. newest["partial"].NewestQC \in Blocks /\ newest["partial"].LastViewTC \in OptionalTC
    BY Zenon, <1>4, <2>1 DEF ItemTypes, PartialTCs
  <2>3. Advanced(pm, now)
    BY Zenon, <1>2, <2>2
  <2> HIDE DEF pm
  <2> QED
    BY Zenon, <1>3, <1>4, <2>1, <2>3
<1>6. CASE OnReceiveProposal
  <2> DEFINE b == Head(proposals)
             pm == PaceMakerProcessTC(PaceMakerProcessQC(pm0, BlockQC[b]), BlockTC[b])
  <2>1. /\ proposals # <<>> /\ proposals' = Tail(proposals)
        /\ Become(pm) /\ notified' = notified /\ buffered' = buffered
    BY Zenon, <1>6 DEF OnReceiveProposal, pm0
  <2>2. b \in Blocks /\ proposals' \in Seq(Blocks)
    BY <1>4, <2>1
  <2>3. BlockQC[b] \in Blocks /\ BlockTC[b] \in OptionalTC
    BY Zenon, <2>2, BlockTreeAssumption
  <2>4. Advanced(pm, now)
    BY Zenon, <1>2, <2>3
  <2> HIDE DEF pm
  <2> QED
    BY Zenon, <1>3, <2>1, <2>2, <2>4
<1>7. CASE OnReceiveQc
  <2> DEFINE pm == PaceMakerProcessQC(pm0, newest["qc"])
  <2>1. /\ "qc" \in notified /\ notified' = notified \ {"qc"}
        /\ Become(pm) /\ proposals' = proposals /\ buffered' = buffered
    BY Zenon, <1>7 DEF OnReceiveQc, pm0
  <2>2. newest["qc"] \in Blocks
    BY Zenon, <1>4, <2>1 DEF ItemTypes
  <2>3. Advanced(pm, now)
    BY Zenon, <1>1, <2>2, PaceMakerAdvances
  <2> HIDE DEF pm
  <2> QED
    BY Zenon, <1>3, <1>4, <2>1, <2>3
<1>8. CASE OnReceiveTc
  <2> DEFINE pm == PaceMakerProcessTC(pm0, newest["tc"])
  <2>1. /\ "tc" \in notified /\ notified' = notified \ {"tc"}
        /\ Become(pm) /\ proposals' = proposals /\ buffered' = buffered
    BY Zenon, <1>8 DEF OnReceiveTc, pm0
  <2>2. newest["tc"] \in OptionalTC
    BY Zenon, <1>4, <2>1 DEF ItemTypes, OptionalTC
  <2>3. Advanced(pm, now)
    BY Zenon, <1>1, <2>2, PaceMakerAdvances
  <2> HIDE DEF pm
  <2> QED
    BY Zenon, <1>3, <1>4, <2>1, <2>3
<1> QED
  BY Zenon, <1>5, <1>6, <1>7, <1>8

(* The loop starts in a state that satisfies the invariant.                *)
LEMMA EventLoopStarts == EventLoopInit => EventLoopInvariant
<1> SUFFICES ASSUME EventLoopInit PROVE EventLoopInvariant
  BY Zenon
<1>1. Submitted
  <2>1. \A s \in Submissions : s.kind \in TrackersOf(s)
    BY Zenon DEF TrackersOf
  <2>2. \A s \in Submissions : SubmitterOK(s, submitters[s], newest)
    BY Zenon, <2>1 DEF EventLoopInit, SubmitterOK, Submitter
  <2> QED
    BY <2>2 DEF EventLoopInit, Submitted, SubmitterOK
<1>2. Timed
  <2>1. InitialLivenessData \in LivenessDataOfLoop
    BY Zenon, BlockTreeAssumption, EventLoopAssumption
       DEF InitialLivenessData, LivenessDataOfLoop, OptionalTC
  <2> QED
    BY Zenon, <2>1, EventLoopAssumption DEF EventLoopInit, Timed
<1>3. BackedOff
  BY ConfigAssumption DEF EventLoopInit, BackedOff, Counted
<1>4. Prioritised
  BY DEF EventLoopInit, Prioritised
<1> QED
  BY Zenon, <1>1, <1>2, <1>3, <1>4 DEF EventLoopInvariant

(* Every step of the loop, of a submission and of a timer keeps it.        *)
LEMMA EventLoopInvariantStep ==
    EventLoopInvariant /\ [EventLoopNext]_elVars => EventLoopInvariant'
<1> SUFFICES ASSUME EventLoopInvariant, [EventLoopNext]_elVars
             PROVE  EventLoopInvariant'
  BY Zenon
<1> USE DEF EventLoopInvariant
<1>1. CASE UNCHANGED elVars
  BY Zenon, <1>1 DEF elVars, inputs, paceMaker, timers,
              Submitted, Timed, BackedOff, Counted, Prioritised
<1>2. ASSUME NEW s \in Submissions, Submit(s) PROVE EventLoopInvariant'
  <2>1. Submitted'
    BY Zenon, <1>2, SubmitIsSubmitted
  <2>2. UNCHANGED <<pc, paceMaker, timers, buffered, timedOut, bypassed>>
    BY ZenonT(30), <1>2 DEF Submit
  <2> QED
    BY Zenon, <2>1, <2>2 DEF paceMaker, timers, Timed, BackedOff, Counted, Prioritised
<1>3. ASSUME NEW v \in Views, tickAfterTimeout(v) PROVE EventLoopInvariant'
  <2>1. Timed'
    BY Zenon, <1>3, TickingIsTimed
  <2>2. UNCHANGED <<inputs, pc, paceMaker, timedOut, bypassed>>
    BY Zenon, <1>3 DEF tickAfterTimeout
  <2> QED
    BY Zenon, <2>1, <2>2 DEF inputs, paceMaker, Submitted, BackedOff, Counted, Prioritised
<1>4. CASE Start
  <2>1. Timed' /\ BackedOff'
    BY Zenon, <1>4, StartIsTimed
  <2>2. UNCHANGED <<newest, submitters, notified, proposals, bypassed>> /\ pc' = "first"
    BY Zenon, <1>4 DEF Start, Become
  <2> QED
    BY Zenon, <2>1, <2>2 DEF Submitted, Prioritised
<1>5. ASSUME pc # "start", pc' \in {"first", "second"}, OnLocalTimeout, bypassed' = 0
      PROVE  EventLoopInvariant'
  <2>1. Timed'
    BY Zenon, <1>5, OnLocalTimeoutIsTimed
  <2>2. UNCHANGED <<inputs, paceMaker>>
    BY Zenon, <1>5 DEF OnLocalTimeout
  <2>3. Submitted'
    BY Zenon, <2>2 DEF inputs, Submitted
  <2>4. BackedOff' /\ Prioritised'
    BY <1>5, <2>2 DEF paceMaker, BackedOff, Counted, Prioritised
  <2> QED
    BY Zenon, <2>1, <2>3, <2>4
<1>6. ASSUME pc # "start", pc' \in {"first", "second"},
             OnPartialTcCreated \/ OnReceiveProposal \/ OnReceiveQc \/ OnReceiveTc
      PROVE  Submitted' /\ Timed' /\ BackedOff'
  BY Zenon, <1>6, HandlerAdvances, BecomeIsTimed
<1>7. CASE FirstSelect
  <2>1. CASE HandlePriority /\ pc' = "first"
    BY <1>5, <1>6, <1>7, <2>1 DEF FirstSelect, HandlePriority, Prioritised
  <2>2. CASE /\ pc' = "second" /\ bypassed' = 0
             /\ UNCHANGED <<inputs, paceMaker, timers, buffered, timedOut>>
    <3>1. Submitted'
      BY Zenon, <2>2 DEF inputs, Submitted
    <3>2. Timed'
      BY Zenon, <1>7, <2>2 DEF FirstSelect, paceMaker, timers, Timed
    <3>3. BackedOff' /\ Prioritised'
      BY <2>2 DEF paceMaker, BackedOff, Counted, Prioritised
    <3> QED
      BY Zenon, <3>1, <3>2, <3>3
  <2> QED
    BY Zenon, <1>7, <2>1, <2>2 DEF FirstSelect
<1>8. CASE SecondSelect
  <2>1. pc = "second" /\ pc' = "first" /\ bypassed = 0
    BY Zenon, <1>8 DEF SecondSelect, Prioritised
  <2>2. CASE HandlePriority
    BY Zenon, <1>5, <1>6, <2>1, <2>2 DEF HandlePriority, Prioritised
  <2>3. CASE /\ OnReceiveProposal \/ OnReceiveQc \/ OnReceiveTc
             /\ bypassed' = IF PriorityPending THEN bypassed + 1 ELSE 0
    BY <1>6, <2>1, <2>3 DEF Prioritised
  <2> QED
    BY Zenon, <1>8, <2>2, <2>3 DEF SecondSelect
<1> QED
  BY Zenon, <1>1, <1>2, <1>3, <1>4, <1>7, <1>8 DEF EventLoopNext, Loop

(* The invariant holds in every behaviour of the event loop.               *)
THEOREM EventLoopInvariantHolds == EventLoopSpec => []EventLoopInvariant
BY EventLoopStarts, EventLoopInvariantStep, PTL DEF EventLoopSpec

(* A replica only gives up on a view when the timer of that view has       *)
(* expired, whatever ticks of earlier views are buffered or on their way.  *)
THEOREM TimeoutsAreNotEarly == EventLoopSpec => []NoEarlyTimeout
<1>1. EventLoopInvariant => NoEarlyTimeout
  BY Zenon DEF EventLoopInvariant, Timed, NoEarlyTimeout
<1> QED
  BY <1>1, EventLoopInvariantHolds, PTL

(* However many proposals, QCs and TCs arrive, at most one of them is      *)
(* handled while a timeout or a partial TC is pending.                     *)
THEOREM TimeoutsComeFirst == EventLoopSpec => []TimeoutsHavePriority
<1>1. EventLoopInvariant => TimeoutsHavePriority
  BY DEF EventLoopInvariant, Prioritised, TimeoutsHavePriority
<1> QED
  BY <1>1, EventLoopInvariantHolds, PTL

(* For every minimum, maximum and adjustment factor of the timeout         *)
(* controller, timeouts stay within their bounds and the first progress    *)
(* already shortens them.                                                  *)
THEOREM BackoffStaysTruncated == EventLoopSpec => []BackoffIsTruncated
<1>1. EventLoopInvariant => BackoffIsTruncated
  BY Zenon, CountedIsTruncated DEF EventLoopInvariant
<1> QED
  BY <1>1, EventLoopInvariantHolds, PTL
-----------------------------------------------------------------------------
(***************************************************************************)
(* The trackers implement NewestRegister.  Track takes effect when it      *)
(* swaps the item in, or when it takes a snapshot that is at least as new. *)
(***************************************************************************)
HasTracked(sub, s, k) ==
    \/ sub.tracker = k /\ sub.at \in {"notify", "end"}
    \/ k = "tc" /\ s.kind = "tc" /\ sub.tracker = "qc"

RegisterStep(k) ==
    \/ newest'[k] = newest[k] /\ Tracked(k)' = Tracked(k)
    \/ \E x \in ItemsOf(k) :
         /\ Tracked(k)' = Tracked(k) \cup {x}
         /\ newest'[k] = IF newest[k] = Nil THEN x
                         ELSE IF ViewIn(k, newest[k]) < ViewIn(k, x) THEN x ELSE newest[k]

(* What a goroutine is known to have tracked only changes by its own step. *)
LEMMA TrackedStep ==
    ASSUME NEW s \in Submissions, NEW sub, DOMAIN submitters = Submissions,
           submitters' = [submitters EXCEPT ![s] = sub], NEW k,
           HasTracked(submitters[s], s, k) => HasTracked(sub, s, k)
    PROVE  Tracked(k)' = IF HasTracked(sub, s, k) THEN Tracked(k) \cup {Item(s, k)} ELSE Tracked(k)
<1> DEFINE now == {u \in Submissions : HasTracked(submitters[u], u, k)}
           then == {u \in Submissions : HasTracked(submitters'[u], u, k)}
<1>1. Tracked(k) = {Item(u, k) : u \in now} /\ Tracked(k)' = {Item(u, k) : u \in then}
  BY Zenon DEF Tracked, HasTracked, Item
<1>2. \A u \in Submissions : submitters'[u] = IF u = s THEN sub ELSE submitters[u]
  BY Zenon
<1>3. then = IF HasTracked(sub, s, k) THEN now \cup {s} ELSE now
  BY Zenon, <1>2
<1> QED
  BY ZenonT(60), <1>1, <1>3

(* A step of a submission is a step of each of the three registers.        *)
LEMMA SubmitIsRegisterStep ==
    ASSUME Submitted, NEW s \in Submissions, Submit(s), NEW k \in Trackers
    PROVE  RegisterStep(k)
<1> DEFINE own == submitters[s].tracker
<1>1. /\ DOMAIN submitters = Submissions
      /\ own \in TrackersOf(s)
      /\ s.kind = "proposal" => submitters[s].at \in {"idle", "end"}
      /\ submitters[s].at = "swap" => Older(own, submitters[s].snapshot, Item(s, own))
      /\ DOMAIN newest = Trackers
      /\ \A j \in Trackers : newest[j] \in ItemTypes(j) \cup {Nil}
  BY Zenon DEF Submitted
<1>2. s.kind # "proposal" =>
         own \in Trackers /\ Item(s, own) \in ItemTypes(own) /\ Item(s, own) \in ItemsOf(own)
  BY Zenon, <1>1, SubmissionTypes DEF TrackersOf, ItemsOf
<1>3. s.kind = "proposal" => own = "proposal" /\ own # k
  BY Zenon, <1>1, SubmissionTypes DEF Trackers
<1>4. \A j \in Trackers : \A x \in ItemTypes(j) : x # Nil /\ ViewIn(j, x) \in Nat
  BY Zenon, ItemsAreNotNil
<1>5. CASE SubmitProposal(s)
  <2>1. /\ s.kind = "proposal" /\ newest' = newest
        /\ submitters' = [submitters EXCEPT ![s] = Submitter("end", own, Nil)]
    BY Zenon, <1>1, <1>5 DEF SubmitProposal, MoveTo
  <2>2. ~HasTracked(Submitter("end", own, Nil), s, k) /\ ~HasTracked(submitters[s], s, k)
    BY Zenon, <1>3, <2>1 DEF HasTracked, Submitter
  <2>3. Tracked(k)' = Tracked(k)
    BY ZenonT(30), <1>1, <2>1, <2>2, TrackedStep
  <2> QED
    BY Zenon, <2>1, <2>3 DEF RegisterStep
<1>6. CASE TakeSnapshot(s)
  <2> DEFINE refused == newest[own] # Nil /\ ViewIn(own, newest[own]) >= ViewIn(own, Item(s, own))
             next == IF ~refused THEN Submitter("swap", own, newest[own])
                     ELSE IF own = "tc" THEN Submitter("track", "qc", Nil)
                     ELSE Submitter("end", own, Nil)
  <2>1. /\ s.kind # "proposal" /\ newest' = newest
        /\ submitters[s].at \in {"idle", "track"}
        /\ submitters' = [submitters EXCEPT ![s] = next]
    BY Zenon, <1>6 DEF TakeSnapshot
  <2>2. own = "tc" => s.kind = "tc"
    BY Zenon, <1>1, SubmissionTypes DEF TrackersOf
  <2>3. /\ HasTracked(submitters[s], s, k) => HasTracked(next, s, k)
        /\ k # own \/ ~refused => HasTracked(next, s, k) = HasTracked(submitters[s], s, k)
    BY Zenon, <2>1, <2>2 DEF HasTracked, Submitter
  <2> HIDE DEF next
  <2>4. Tracked(k)' = IF HasTracked(next, s, k) THEN Tracked(k) \cup {Item(s, k)} ELSE Tracked(k)
    BY ZenonT(30), <1>1, <2>1, <2>3, TrackedStep
  <2>5. CASE HasTracked(submitters[s], s, k)
    <3>1. Item(s, k) \in Tracked(k)
      BY Zenon, <2>5 DEF Tracked, HasTracked
    <3> QED
      BY Zenon, <2>1, <2>3, <2>4, <2>5, <3>1 DEF RegisterStep
  <2>6. CASE ~HasTracked(submitters[s], s, k) /\ (k # own \/ ~refused)
    BY Zenon, <2>1, <2>3, <2>4, <2>6 DEF RegisterStep
  <2>7. CASE k = own /\ refused
    <3>1. /\ Item(s, k) \in ItemsOf(k)
          /\ newest[k] # Nil /\ ~(ViewIn(k, newest[k]) < ViewIn(k, Item(s, k)))
      BY SMTT(20), <1>1, <1>2, <1>4, <2>1, <2>7
    <3>2. CASE HasTracked(next, s, k)
      BY Zenon, <2>1, <2>4, <3>1, <3>2 DEF RegisterStep
    <3>3. CASE ~HasTracked(next, s, k)
      BY Zenon, <2>1, <2>4, <3>3 DEF RegisterStep
    <3> QED
      BY Zenon, <3>2, <3>3
  <2> QED
    BY Zenon, <2>5, <2>6, <2>7
<1>7. CASE CompareAndSwap(s)
  <2> DEFINE swap == newest[own] = submitters[s].snapshot
             at == IF swap THEN "notify" ELSE "track"
  <2>1. /\ submitters[s].at = "swap"
        /\ newest' = IF swap THEN [newest EXCEPT ![own] = Item(s, own)] ELSE newest
        /\ submitters' = [submitters EXCEPT ![s] = Submitter(at, own, Nil)]
    BY Zenon, <1>1, <1>7 DEF CompareAndSwap, MoveTo
  <2>2. s.kind # "proposal"
    BY Zenon, <1>1, <2>1
  <2>3. /\ HasTracked(submitters[s], s, k) => HasTracked(Submitter(at, own, Nil), s, k)
        /\ k # own \/ ~swap => HasTracked(Submitter(at, own, Nil), s, k)
                                 = HasTracked(submitters[s], s, k)
        /\ k = own /\ swap => HasTracked(Submitter(at, own, Nil), s, k)
    BY Zenon, <2>1 DEF HasTracked, Submitter
  <2> HIDE DEF at
  <2>4. Tracked(k)' = IF HasTracked(Submitter(at, own, Nil), s, k)
                      THEN Tracked(k) \cup {Item(s, k)} ELSE Tracked(k)
    BY ZenonT(30), <1>1, <2>1, <2>3, TrackedStep
  <2>5. CASE k = own /\ swap
    <3>1. /\ Item(s, k) \in ItemsOf(k)
          /\ newest'[k] = Item(s, k)
          /\ newest[k] = Nil \/ ViewIn(k, newest[k]) < ViewIn(k, Item(s, k))
      BY Zenon, <1>1, <1>2, <2>1, <2>2, <2>5 DEF Older
    <3> QED
      BY ZenonT(30), <2>3, <2>4, <2>5, <3>1 DEF RegisterStep
  <2>6. CASE ~(k = own /\ swap)
    <3>1. newest'[k] = newest[k]
      BY Zenon, <1>1, <2>1, <2>6
    <3>2. HasTracked(submitters[s], s, k) => Item(s, k) \in Tracked(k)
      BY Zenon DEF Tracked, HasTracked
    <3> QED
      BY Zenon, <2>3, <2>4, <2>6, <3>1, <3>2 DEF RegisterStep
  <2> QED
    BY Zenon, <2>5, <2>6
<1>8. CASE Notify(s)
  <2>1. /\ submitters[s].at = "notify" /\ newest' = newest
        /\ submitters' = [submitters EXCEPT ![s] = Submitter("end", own, Nil)]
    BY Zenon, <1>1, <1>8 DEF Notify, MoveTo
  <2>2. HasTracked(Submitter("end", own, Nil), s, k) = HasTracked(submitters[s], s, k)
    BY Zenon, <2>1 DEF HasTracked, Submitter
  <2>3. HasTracked(submitters[s], s, k) => Item(s, k) \in Tracked(k)
    BY DEF Tracked, HasTracked
  <2>4. Tracked(k)' = IF HasTracked(Submitter("end", own, Nil), s, k)
                      THEN Tracked(k) \cup {Item(s, k)} ELSE Tracked(k)
    BY Zenon, <1>1, <2>1, <2>2, TrackedStep
  <2>5. Tracked(k)' = Tracked(k)
    BY Zenon, <2>2, <2>3, <2>4
  <2> QED
    BY Zenon, <2>1, <2>5 DEF RegisterStep
<1> QED
  BY Zenon, <1>5, <1>6, <1>7, <1>8 DEF Submit

(* And so is every other step, which leaves the trackers alone.            *)
LEMMA EveryStepIsRegisterStep ==
    ASSUME EventLoopInvariant, [EventLoopNext]_elVars, NEW k \in Trackers
    PROVE  RegisterStep(k)
<1>1. ASSUME NEW s \in Submissions, Submit(s) PROVE RegisterStep(k)
  BY Zenon, <1>1, SubmitIsRegisterStep DEF EventLoopInvariant
<1>2. ASSUME newest' = newest, submitters' = submitters PROVE RegisterStep(k)
  <2>1. Tracked(k)' = Tracked(k)
    BY Zenon, <1>2 DEF Tracked, Item
  <2> QED
    BY Zenon, <1>2, <2>1 DEF RegisterStep
<1>3. CASE UNCHANGED elVars
  BY Zenon, <1>2, <1>3 DEF elVars, inputs
<1>4. CASE Loop
  BY Zenon, <1>2, <1>4 DEF Loop, Start, FirstSelect, SecondSelect, HandlePriority, OnLocalTimeout,
                    OnPartialTcCreated, OnReceiveProposal, OnReceiveQc, OnReceiveTc, Become, inputs
<1>5. ASSUME NEW v \in Views, tickAfterTimeout(v) PROVE RegisterStep(k)
  BY Zenon, <1>2, <1>5 DEF tickAfterTimeout, inputs
<1> QED
  BY Zenon, <1>1, <1>3, <1>4, <1>5 DEF EventLoopNext

(* Each tracker, used by any number of concurrent goroutines, implements   *)
(* an atomic register of the newest item.                                  *)
THEOREM TrackersImplementRegisters == EventLoopSpec => TrackersAreRegisters
<1>1. EventLoopInit => \A k \in Trackers : newest[k] = Nil /\ Tracked(k) = {}
  BY DEF EventLoopInit, Tracked, Trackers, Submitter
<1>2. EventLoopInvariant /\ [EventLoopNext]_elVars =>
        [\E x \in ItemsOf("qc") : QCTracker!Track(x)]_<<newest["qc"], Tracked("qc")>>
  BY Zenon, EveryStepIsRegisterStep DEF Trackers, RegisterStep, QCTracker!Track, ViewOfQC
<1>3. EventLoopInvariant /\ [EventLoopNext]_elVars =>
        [\E x \in ItemsOf("tc") : TCTracker!Track(x)]_<<newest["tc"], Tracked("tc")>>
  BY Zenon, EveryStepIsRegisterStep DEF Trackers, RegisterStep, TCTracker!Track, ViewOfTC, ViewIn
<1>4. EventLoopInvariant /\ [EventLoopNext]_elVars =>
        [\E x \in ItemsOf("partial") : PartialTCTracker!Track(x)]_<<newest["partial"], Tracked("partial")>>
  BY Zenon, EveryStepIsRegisterStep DEF Trackers, RegisterStep, PartialTCTracker!Track, ViewOfTC, ViewIn
<1>5. EventLoopInit => /\ newest["qc"] = Nil /\ Tracked("qc") = {}
                       /\ newest["tc"] = Nil /\ Tracked("tc") = {}
                       /\ newest["partial"] = Nil /\ Tracked("partial") = {}
  BY Zenon, <1>1 DEF Trackers
<1> QED
  BY <1>2, <1>3, <1>4, <1>5, EventLoopInvariantHolds, PTL
     DEF EventLoopSpec, TrackersAreRegisters, QCTracker!RegisterSpec, TCTracker!RegisterSpec,
         PartialTCTracker!RegisterSpec
=============================================================================
