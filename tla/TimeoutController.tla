------------------------- MODULE TimeoutController -------------------------
(***************************************************************************)
(* The truncated exponential backoff of                                    *)
(* consensus/hotstuff/pacemaker/timeout/controller.go.  Durations and the  *)
(* adjustment factor are fractions <<numerator, denominator>>, and the     *)
(* comparisons with the real number maxExponent = log_b (t_max / t_min)    *)
(* are comparisons of t_min * b ^ exponent with t_max.                     *)
(***************************************************************************)
EXTENDS Integers

CONSTANTS MinReplicaTimeout, MaxReplicaTimeout,
          TimeoutAdjustmentFactor,    \* a fraction (6/5 by default)
          HappyPathMaxRoundFailures   \* failed rounds before timeouts grow

Fraction == (Nat \ {0}) \X (Nat \ {0})

Times(x, y) == <<x[1] * y[1], x[2] * y[2]>>

Shorter(x, y) == x[1] * y[2] < y[1] * x[2]

MinDuration == <<MinReplicaTimeout, 1>>
MaxDuration == <<MaxReplicaTimeout, 1>>

\* NewConfig
ASSUME ConfigAssumption ==
    /\ MinReplicaTimeout \in Nat \ {0}
    /\ MaxReplicaTimeout \in Nat /\ MaxReplicaTimeout >= MinReplicaTimeout
    /\ TimeoutAdjustmentFactor \in Fraction /\ Shorter(<<1, 1>>, TimeoutAdjustmentFactor)
    /\ HappyPathMaxRoundFailures \in Nat

\* t_min * b ^ exponent
Backoff[exponent \in Nat] ==
    IF exponent = 0 THEN MinDuration
                    ELSE Times(TimeoutAdjustmentFactor, Backoff[exponent - 1])

\* exponent >= maxExponent
ReachesMax(exponent) == ~Shorter(Backoff[exponent], MaxDuration)

replicaTimeout(r) ==
    IF r <= HappyPathMaxRoundFailures THEN MinDuration
    ELSE IF ReachesMax(r - HappyPathMaxRoundFailures) THEN MaxDuration
    ELSE Backoff[r - HappyPathMaxRoundFailures]

\* Mutant: failed rounds are counted without a limit.
OnTimeoutUnlimited(r) == r + 1

OnTimeout(r) ==
    IF r >= HappyPathMaxRoundFailures /\ ReachesMax(r - HappyPathMaxRoundFailures)
       THEN r ELSE r + 1

OnProgressBeforeTimeout(r) == IF r > 0 THEN r - 1 ELSE r
=============================================================================
