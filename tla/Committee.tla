----------------------------- MODULE Committee -----------------------------
(***************************************************************************)
(* The weighted committee of consensus replicas and the two vote-weight    *)
(* thresholds of consensus/hotstuff/committees/threshold.go.               *)
(*                                                                         *)
(* Byzantine replicas may sign anything; the honest ones run the code.     *)
(***************************************************************************)
EXTENDS Integers, FiniteSets

CONSTANTS Replicas,     \* the members of the committee
          Byzantine,    \* the members that do not follow the protocol
          Weight        \* voting weight of each member (InitialWeight)

Honest == Replicas \ Byzantine

(***************************************************************************)
(* Total weight of a set of replicas (flow.IdentitySkeletonList's          *)
(* TotalWeight): a replica of weight w holds w units of weight, and the    *)
(* weight of a set is the number of units its members hold.                *)
(***************************************************************************)
WeightUnits(S) == UNION {{r} \X (1 .. Weight[r]) : r \in S}

TotalWeight(S) == Cardinality(WeightUnits(S))

(***************************************************************************)
(* The minimal weight that makes a QC or a TC: the smallest number that is *)
(* strictly larger than two thirds of the total weight, computed without   *)
(* leaving the integers.                                                   *)
(***************************************************************************)
WeightThresholdToBuildQC(totalWeight) ==
    LET floorOneThird == totalWeight \div 3
        divRemainder  == totalWeight % 3
        res           == 2 * floorOneThird
    IN  IF divRemainder <= 1 THEN res + 1 ELSE res + divRemainder

(***************************************************************************)
(* The weight of timeouts for a view that proves that at least one honest  *)
(* replica gave up on the view.                                            *)
(***************************************************************************)
WeightThresholdToTimeout(totalWeight) == (totalWeight \div 3) + 1

QuorumThreshold == WeightThresholdToBuildQC(TotalWeight(Replicas))

TimeoutThreshold == WeightThresholdToTimeout(TotalWeight(Replicas))

IsQuorum(S) == TotalWeight(S) >= QuorumThreshold

CanTimeout(S) == TotalWeight(S) >= TimeoutThreshold

ASSUME CommitteeAssumption ==
    /\ IsFiniteSet(Replicas)
    /\ Byzantine \subseteq Replicas
    /\ Weight \in [Replicas -> Nat]

(***************************************************************************)
(* The protocol's fault assumption: less than a third of the weight is     *)
(* Byzantine.                                                              *)
(***************************************************************************)
ASSUME FaultAssumption == 3 * TotalWeight(Byzantine) < TotalWeight(Replicas)
=============================================================================
