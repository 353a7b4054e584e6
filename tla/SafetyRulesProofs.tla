-------------------------- MODULE SafetyRulesProofs --------------------------
(***************************************************************************)
(* Proofs about the rules of consensus, for every committee, distribution  *)
(* of weights and tree of blocks.  Replicas that follow SafetyRules        *)
(* certify at most one block per view, and never certify a block that      *)
(* conflicts with a finalized one.  A Forks that is given the children of  *)
(* blocks it has, or recovers from any number of pending blocks, never     *)
(* fails, loses no block above the finalized one, and finalizes only what  *)
(* the committee has finalized.                                            *)
(***************************************************************************)
EXTENDS SafetyRules, Forks, FiniteSetTheorems, WellFoundedInduction, TLAPS

(***************************************************************************)
(* Weights.                                                                *)
(***************************************************************************)
(* The units of weight of any set of replicas are finitely many.           *)
LEMMA WeightUnitsFinite ==
    ASSUME NEW S \in SUBSET Replicas
    PROVE  IsFiniteSet(WeightUnits(S))
<1> DEFINE units(r) == {r} \X (1 .. Weight[r])
           pieces == {units(r) : r \in S}
<1>1. IsFiniteSet(S)
  BY Zenon, CommitteeAssumption, FS_Subset
<1>2. IsFiniteSet(pieces)
  <2> DEFINE g == [r \in S |-> units(r)]
  <2>1. g \in Surjection(S, pieces)
    BY Zenon DEF Surjection
  <2>. QED BY Zenon, <1>1, <2>1, FS_Surjection
<1>3. ASSUME NEW r \in S PROVE IsFiniteSet(units(r))
  <2>1. IsFiniteSet({r})
    BY Zenon, FS_Singleton
  <2>2. Weight[r] \in Nat
    BY Zenon, CommitteeAssumption
  <2>3. IsFiniteSet(1 .. Weight[r])
    BY <2>2, FS_Interval
  <2>. QED BY Zenon, <2>1, <2>3, FS_Product
<1>4. \A p \in pieces : IsFiniteSet(p)
  BY Zenon, <1>3
<1>5. IsFiniteSet(UNION pieces)
  <2>. HIDE DEF pieces
  <2>. QED BY Zenon, <1>2, <1>4, FS_UNION
<1>. QED BY Zenon, <1>5 DEF WeightUnits

(* Total weight is a natural number, monotone, and additive.               *)
LEMMA TotalWeightProperties ==
    ASSUME NEW S \in SUBSET Replicas, NEW T \in SUBSET Replicas
    PROVE  /\ TotalWeight(S) \in Nat
           /\ S \subseteq T => TotalWeight(S) <= TotalWeight(T)
           /\ TotalWeight(S \cup T) + TotalWeight(S \cap T)
                 = TotalWeight(S) + TotalWeight(T)
<1>1. /\ IsFiniteSet(WeightUnits(S))
      /\ IsFiniteSet(WeightUnits(T))
  BY Zenon, WeightUnitsFinite
<1>2. WeightUnits(S \cup T) = WeightUnits(S) \cup WeightUnits(T)
  BY Zenon DEF WeightUnits
<1>3. WeightUnits(S \cap T) = WeightUnits(S) \cap WeightUnits(T)
  BY DEF WeightUnits
<1>4. S \subseteq T => WeightUnits(S) \subseteq WeightUnits(T)
  BY Zenon DEF WeightUnits
<1>5. /\ Cardinality(WeightUnits(S)) \in Nat
      /\ Cardinality(WeightUnits(T)) \in Nat
      /\ Cardinality(WeightUnits(S) \cap WeightUnits(T)) \in Nat
  <2>1. IsFiniteSet(WeightUnits(S) \cap WeightUnits(T))
    BY Zenon, <1>1, FS_Intersection
  <2>. QED BY Zenon, <1>1, <2>1, FS_CardinalityType
<1>6. Cardinality(WeightUnits(S) \cup WeightUnits(T))
         = Cardinality(WeightUnits(S)) + Cardinality(WeightUnits(T))
             - Cardinality(WeightUnits(S) \cap WeightUnits(T))
  BY Zenon, <1>1, FS_Union
<1>7. S \subseteq T => Cardinality(WeightUnits(S)) <= Cardinality(WeightUnits(T))
  BY Zenon, <1>1, <1>4, FS_Subset
<1>8. TotalWeight(S \cup T) = Cardinality(WeightUnits(S) \cup WeightUnits(T))
  BY Zenon, <1>2 DEF TotalWeight
<1>9. TotalWeight(S \cap T) = Cardinality(WeightUnits(S) \cap WeightUnits(T))
  BY Zenon, <1>3 DEF TotalWeight
<1>10. /\ TotalWeight(S) = Cardinality(WeightUnits(S))
       /\ TotalWeight(T) = Cardinality(WeightUnits(T))
  BY Zenon DEF TotalWeight
<1>. QED BY <1>5, <1>6, <1>7, <1>8, <1>9, <1>10

(* The threshold for a QC exceeds two thirds of the total weight           *)
(* (WeightThresholdToBuildQC).                                             *)
LEMMA QuorumThresholdProperty ==
    ASSUME NEW w \in Nat
    PROVE  /\ WeightThresholdToBuildQC(w) \in Nat
           /\ 3 * WeightThresholdToBuildQC(w) > 2 * w
<1>1. /\ w \div 3 \in Nat
      /\ w % 3 \in 0 .. 2
      /\ w = 3 * (w \div 3) + (w % 3)
  OBVIOUS
<1>. QED BY <1>1 DEF WeightThresholdToBuildQC

(* Two quorums share an honest replica, whatever the Byzantine replicas    *)
(* sign: the fact that QCs and TCs rest on.                                *)
THEOREM QuorumsShareHonestReplica ==
    ASSUME NEW S \in SUBSET Honest, NEW T \in SUBSET Honest,
           IsQuorum(S \cup Byzantine), IsQuorum(T \cup Byzantine)
    PROVE  S \cap T # {}
<1> DEFINE A == S \cup Byzantine
           B == T \cup Byzantine
<1>1. /\ A \in SUBSET Replicas
      /\ B \in SUBSET Replicas
      /\ Byzantine \in SUBSET Replicas
      /\ A \cup B \in SUBSET Replicas
      /\ A \cap B \in SUBSET Replicas
  BY Zenon, CommitteeAssumption DEF Honest
<1>2. SUFFICES ASSUME S \cap T = {} PROVE FALSE
  BY Zenon
<1>3. A \cap B = Byzantine
  BY Zenon, <1>2
<1>4. /\ TotalWeight(Replicas) \in Nat
      /\ TotalWeight(Byzantine) \in Nat
      /\ TotalWeight(A) \in Nat
      /\ TotalWeight(B) \in Nat
      /\ TotalWeight(A \cup B) \in Nat
  BY Zenon, <1>1, TotalWeightProperties
<1>5. TotalWeight(A \cup B) <= TotalWeight(Replicas)
  BY Zenon, <1>1, TotalWeightProperties
<1>6. TotalWeight(A \cup B) + TotalWeight(Byzantine) = TotalWeight(A) + TotalWeight(B)
  BY Zenon, <1>1, <1>3, TotalWeightProperties
<1>7. /\ QuorumThreshold \in Nat
      /\ 3 * QuorumThreshold > 2 * TotalWeight(Replicas)
  BY Zenon, <1>4, QuorumThresholdProperty DEF QuorumThreshold
<1>8. TotalWeight(A) >= QuorumThreshold /\ TotalWeight(B) >= QuorumThreshold
  BY Zenon DEF IsQuorum
<1>. HIDE DEF A, B
<1>. QED BY <1>4, <1>5, <1>6, <1>7, <1>8, FaultAssumption

(* More signers never invalidate a quorum.                                 *)
LEMMA QuorumMonotone ==
    ASSUME NEW S \in SUBSET Replicas, NEW T \in SUBSET Replicas, S \subseteq T, IsQuorum(S)
    PROVE  IsQuorum(T)
<1>1. Replicas \in SUBSET Replicas
  BY Zenon
<1>2. TotalWeight(Replicas) \in Nat
  BY Zenon, <1>1, TotalWeightProperties
<1>3. QuorumThreshold \in Nat
  BY Zenon, <1>2, QuorumThresholdProperty DEF QuorumThreshold
<1>4. /\ TotalWeight(S) \in Nat
      /\ TotalWeight(T) \in Nat
      /\ TotalWeight(S) <= TotalWeight(T)
  BY Zenon, TotalWeightProperties
<1>. QED BY <1>3, <1>4 DEF IsQuorum

(***************************************************************************)
(* The tree of blocks, and finite sets of blocks.                          *)
(***************************************************************************)
(* The recursive definition of Ancestors has a solution, the smallest set  *)
(* that is closed under taking parents, hence Ancestors satisfies its own  *)
(* equation.                                                               *)
LEMMA AncestorsEquation ==
    /\ \A b \in Blocks : b \in Ancestors[b]
    /\ \A b \in Blocks \ {Root} : Ancestors[b] = {b} \cup Ancestors[BlockQC[b]]
    /\ Ancestors[Root] = {Root}
<1> DEFINE Closed(S) == \A x \in S : x # Root => BlockQC[x] \in S
           reach == [b \in Blocks |-> {a \in Blocks :
                        \A S \in SUBSET Blocks : b \in S /\ Closed(S) => a \in S}]
           equation(f) == f = [b \in Blocks |->
                             {b} \cup (IF b = Root THEN {} ELSE f[BlockQC[b]])]
<1>0. ASSUME NEW b \in Blocks, NEW S \in SUBSET Blocks, b \in S, Closed(S)
      PROVE  reach[b] \subseteq S
  BY Zenon, <1>0
<1>1. \A b \in Blocks : b \in reach[b] /\ reach[b] \in SUBSET Blocks /\ Closed(reach[b])
  BY Zenon, BlockTreeAssumption
<1>2. ASSUME NEW b \in Blocks
      PROVE  reach[b] = {b} \cup (IF b = Root THEN {} ELSE reach[BlockQC[b]])
  <2>1. CASE b = Root
    <3>1. Closed({Root}) /\ {Root} \in SUBSET Blocks
      BY Zenon, BlockTreeAssumption
    <3>2. reach[Root] \subseteq {Root} /\ Root \in reach[Root]
      BY Zenon, <1>0, <1>1, <3>1, BlockTreeAssumption
    <3> QED
      BY Zenon, <2>1, <3>2
  <2>2. CASE b # Root
    <3> DEFINE S == {b} \cup reach[BlockQC[b]]
    <3>1. BlockQC[b] \in Blocks
      BY Zenon, BlockTreeAssumption
    <3>2. Closed(S) /\ S \in SUBSET Blocks /\ b \in S
      BY Zenon, <1>1, <3>1
    <3>3. reach[b] \subseteq S
      BY ZenonT(60), <1>0, <3>2
    <3>4. reach[BlockQC[b]] \subseteq reach[b]
      <4>1. BlockQC[b] \in reach[b]
        BY Zenon, <1>1, <2>2
      <4> QED
        BY Zenon, <1>0, <1>1, <3>1, <4>1
    <3>5. b \in reach[b]
      BY Zenon, <1>1
    <3> HIDE DEF reach
    <3> QED
      BY Zenon, <2>2, <3>3, <3>4, <3>5
  <2> QED
    BY Zenon, <2>1, <2>2
<1>3. equation(reach)
  BY Zenon, <1>2
<1> HIDE DEF reach
<1>4. equation(Ancestors)
  BY Zenon, <1>3 DEF Ancestors
<1> QED
  BY Zenon, <1>4, BlockTreeAssumption

(* A non-empty set of views has a smallest element.                        *)
LEMMA SmallestView ==
    ASSUME NEW T \in SUBSET Nat, T # {}
    PROVE  \E n \in T : \A m \in T : n <= m
<1>1. \E n \in T : \A m \in T : ~(<<m, n>> \in OpToRel(<, Nat))
  BY Zenon, NatLessThanWellFounded, WFMin
<1>2. PICK n \in T : \A m \in T : ~(<<m, n>> \in OpToRel(<, Nat))
  BY Zenon, <1>1
<1>3. ASSUME NEW m \in T PROVE n <= m
  <2>1. m \in Nat /\ n \in Nat
    BY Zenon
  <2>2. <<m, n>> \notin {ss \in Nat \X Nat : ss[1] < ss[2]}
    BY Zenon, <1>2 DEF OpToRel
  <2>3. ~(m < n)
    BY Zenon, <2>1, <2>2
  <2>. QED BY <2>1, <2>3
<1>. QED BY Zenon, <1>3

(* A function from a non-empty finite set to the naturals has a maximum.   *)
LEMMA MaximumExists ==
    ASSUME NEW S, IsFiniteSet(S), S # {}, NEW f \in [S -> Nat]
    PROVE  \E x \in S : \A y \in S : f[y] <= f[x]
<1> DEFINE HasMax(T) == \E x \in T : \A y \in T : f[y] <= f[x]
           Bad == {n \in Nat : \E T \in SUBSET S : T # {} /\ Cardinality(T) = n /\ ~HasMax(T)}
<1>1. \A T \in SUBSET S : IsFiniteSet(T) /\ Cardinality(T) \in Nat
  BY Zenon, FS_Subset, FS_CardinalityType
<1>2. SUFFICES ASSUME ~HasMax(S) PROVE FALSE
  BY Zenon
<1>3. Cardinality(S) \in Bad
  BY Zenon, <1>1, <1>2
<1>4. PICK n \in Bad : \A m \in Bad : n <= m
  <2>1. Bad \in SUBSET Nat /\ Bad # {}
    BY Zenon, <1>3
  <2> HIDE DEF Bad
  <2> QED
    BY Zenon, <2>1, SmallestView
<1>5. PICK T \in SUBSET S : T # {} /\ Cardinality(T) = n /\ ~HasMax(T)
  BY Zenon, <1>4
<1>6. PICK x \in T : TRUE
  BY Zenon, <1>5
<1>7. Cardinality(T \ {x}) = n - 1 /\ n \in Nat /\ Cardinality(T \ {x}) \in Nat
  BY Zenon, <1>1, <1>5, <1>6, FS_RemoveElement
<1>8. n - 1 \notin Bad
  BY <1>4, <1>7
<1>9. CASE T \ {x} = {}
  BY <1>5, <1>6, <1>9
<1>10. CASE T \ {x} # {}
  <2>1. HasMax(T \ {x})
    BY Zenon, <1>7, <1>8, <1>10
  <2>2. PICK y \in T \ {x} : \A z \in T \ {x} : f[z] <= f[y]
    BY Zenon, <2>1
  <2>3. \A z \in T : f[z] \in Nat
    BY Zenon
  <2>4. f[x] <= f[y] \/ f[y] <= f[x]
    BY <1>6, <2>2, <2>3
  <2>5. HasMax(T)
    <3>1. CASE f[x] <= f[y]
      BY Zenon, <1>6, <2>2, <3>1
    <3>2. CASE f[y] <= f[x]
      <4>1. ASSUME NEW z \in T PROVE f[z] <= f[x]
        BY <1>6, <2>2, <2>3, <3>2
      <4> QED
        BY Zenon, <1>6, <4>1
    <3> QED
      BY Zenon, <2>4, <3>1, <3>2
  <2> QED
    BY Zenon, <1>5, <2>5
<1> QED
  BY Zenon, <1>9, <1>10

(* NewestOf picks an element of every non-empty finite set of blocks.      *)
LEMMA NewestIsElement ==
    ASSUME NEW S \in SUBSET Blocks, IsFiniteSet(S), S # {}
    PROVE  NewestOf(S) \in S /\ \A b \in S : BlockView[b] <= BlockView[NewestOf(S)]
<1> DEFINE f == [b \in S |-> BlockView[b]]
<1>1. f \in [S -> Nat]
  BY Zenon, BlockTreeAssumption
<1>2. \E x \in S : \A y \in S : f[y] <= f[x]
  <2> HIDE DEF f
  <2> QED
    BY Zenon, <1>1, MaximumExists
<1> QED
  BY Zenon, <1>2 DEF NewestOf
(* RecoverForks ingests the pending blocks one by one: the recursion in it *)
(* has a solution, built up by the size of the set of blocks.              *)
LEMMA RecoverForksEquation ==
    ASSUME NEW root, NEW pending \in SUBSET Blocks, IsFiniteSet(pending)
    PROVE  \E g : /\ g = [S \in SUBSET pending |->
                            IF S = {} THEN NewForks(root)
                            ELSE AddValidatedBlock(g[S \ {NewestOf(S)}], NewestOf(S))]
                  /\ RecoverForks(root, pending) = g[pending]
<1> DEFINE body(g, S) == IF S = {} THEN NewForks(root)
                         ELSE AddValidatedBlock(g[S \ {NewestOf(S)}], NewestOf(S))
           upTo(n) == {S \in SUBSET pending : Cardinality(S) <= n}
           solution(n) == \E g : g = [S \in upTo(n) |-> body(g, S)]
           Bad == {n \in Nat : ~solution(n)}
<1>1. \A S \in SUBSET pending : /\ IsFiniteSet(S) /\ Cardinality(S) \in Nat
                                /\ Cardinality(S) <= Cardinality(pending)
                                /\ Cardinality(S) = 0 => S = {}
  BY Zenon, FS_Subset, FS_CardinalityType, FS_EmptySet
<1>2. ASSUME NEW S \in SUBSET pending, S # {}
      PROVE  /\ S \ {NewestOf(S)} \in SUBSET pending
             /\ Cardinality(S \ {NewestOf(S)}) = Cardinality(S) - 1
  <2>1. NewestOf(S) \in S
    BY Zenon, <1>1, <1>2, NewestIsElement
  <2> QED
    BY Zenon, <1>1, <2>1, FS_RemoveElement
<1> HIDE DEF body
<1>3. Bad = {}
  <2>1. SUFFICES ASSUME Bad # {} PROVE FALSE
    BY Zenon
  <2>2. PICK n \in Bad : \A m \in Bad : n <= m
    <3>1. Bad \in SUBSET Nat
      BY Zenon
    <3> HIDE DEF Bad
    <3> QED
      BY Zenon, <2>1, <3>1, SmallestView
  <2>3. CASE n = 0
    <3> DEFINE g == [S \in upTo(0) |-> NewForks(root)]
    <3>1. \A S \in upTo(0) : S = {}
      BY <1>1
    <3>2. \A S \in upTo(0) : body(g, S) = NewForks(root)
      BY Zenon, <3>1 DEF body
    <3>3. g = [S \in upTo(0) |-> body(g, S)]
      BY Zenon, <3>2
    <3> HIDE DEF g
    <3>4. solution(0)
      BY Zenon, <3>3
    <3> QED
      BY Zenon, <2>2, <2>3, <3>4
  <2>4. CASE n # 0
    <3>1. n \in Nat /\ n - 1 \in Nat /\ n - 1 \notin Bad
      <4>1. n \in Nat
        BY Zenon, <2>2
      <4>2. n - 1 \in Nat /\ ~(n <= n - 1)
        BY <2>4, <4>1
      <4> HIDE DEF Bad
      <4> QED
        BY Zenon, <2>2, <4>1, <4>2
    <3>2. PICK g : g = [S \in upTo(n - 1) |-> body(g, S)]
      <4>1. solution(n - 1)
        <5> HIDE DEF solution
        <5> QED
          BY Zenon, <3>1
      <4> QED
        BY Zenon, <4>1
    <3> DEFINE h == [S \in upTo(n) |-> body(g, S)]
    <3>3. ASSUME NEW S \in upTo(n) PROVE body(g, S) = body(h, S)
      <4>1. CASE S = {}
        BY Zenon, <4>1 DEF body
      <4>2. CASE S # {}
        <5> DEFINE T == S \ {NewestOf(S)}
        <5>1. T \in upTo(n - 1)
          BY <1>1, <1>2, <3>1, <4>2
        <5>2. T \in upTo(n)
          BY <1>1, <3>1, <5>1
        <5>3. g[T] = body(g, T) /\ h[T] = body(g, T)
          BY Zenon, <3>2, <5>1, <5>2
        <5> HIDE DEF h
        <5> QED
          BY Zenon, <5>3 DEF body
      <4> QED
        BY Zenon, <4>1, <4>2
    <3>4. h = [S \in upTo(n) |-> body(h, S)]
      BY Zenon, <3>3
    <3> HIDE DEF h
    <3>5. solution(n)
      BY Zenon, <3>4
    <3> QED
      BY Zenon, <2>2, <3>5
  <2> QED
    BY Zenon, <2>3, <2>4
<1>4. upTo(Cardinality(pending)) = SUBSET pending
  BY Zenon, <1>1
<1>5. solution(Cardinality(pending))
  BY Zenon, <1>1, <1>3
<1>6. \E g : g = [S \in SUBSET pending |-> body(g, S)]
  BY Zenon, <1>4, <1>5
<1> DEFINE ingest == CHOOSE g : g = [S \in SUBSET pending |-> body(g, S)]
<1>7. ingest = [S \in SUBSET pending |-> body(ingest, S)]
  BY Zenon, <1>6
<1>8. RecoverForks(root, pending) = ingest[pending]
  BY Zenon DEF RecoverForks, body
<1> HIDE DEF ingest
<1> QED
  BY Zenon, <1>7, <1>8 DEF body
-----------------------------------------------------------------------------
(***************************************************************************)
(* Forks on top of a committee that agrees: `known' are the blocks with    *)
(* valid certificates, `certified' those with a QC, `final' those that a   *)
(* certified child in the next view has finalized.                         *)
(***************************************************************************)
Agreement(known, certified, final) ==
    /\ known \subseteq Blocks /\ certified \subseteq Blocks
    /\ \A b \in known \ {Root} : BlockQC[b] \in certified
    /\ \A c \in (known \cap certified) \ {Root} :
          BlockView[c] = BlockView[BlockQC[c]] + 1 => BlockQC[c] \in final
    /\ \A b, c \in certified : BlockView[b] = BlockView[c] => b = c
    /\ \A b \in final, c \in certified : BlockView[b] <= BlockView[c] => b \in Ancestors[c]

\* Forks has the block, or had no need of it, or has pruned it.
Has(f, b) == b \in f.blocks \/ BlockView[b] < FinalizedView(f)

SoundForks(f, known, final) ==
    /\ f \in ForksType
    /\ f.failed = FALSE
    /\ f.blocks \subseteq known
    /\ IsFiniteSet(f.blocks)
    /\ f.finalized \in f.blocks
    /\ f.finalized \in final
    /\ \A b \in f.blocks \ {Root} : Has(f, BlockQC[b])

\* What an operation on Forks never takes back.
Extends(f, g) ==
    /\ FinalizedView(f) <= FinalizedView(g)
    /\ \A b \in Blocks : Has(f, b) => Has(g, b)

(* Ancestors are blocks of no later view.                                  *)
LEMMA AncestorsAreOlder ==
    \A b \in Blocks : \A a \in Ancestors[b] : a \in Blocks /\ BlockView[a] <= BlockView[b]
<1> DEFINE ok(b) == \A a \in Ancestors[b] : a \in Blocks /\ BlockView[a] <= BlockView[b]
           Bad == {BlockView[b] : b \in {c \in Blocks : ~ok(c)}}
<1>1. SUFFICES ASSUME Bad # {} PROVE FALSE
  BY Zenon
<1>2. \A b \in Blocks : BlockView[b] \in Nat /\ BlockQC[b] \in Blocks
  BY Zenon, BlockTreeAssumption
<1>3. Bad \in SUBSET Nat
  BY Zenon, <1>2
<1>4. PICK n \in Bad : \A m \in Bad : n <= m
  <2> HIDE DEF Bad
  <2> QED
    BY Zenon, <1>1, <1>3, SmallestView
<1>5. PICK b \in Blocks : ~ok(b) /\ BlockView[b] = n
  BY Zenon, <1>4
<1>6. b # Root
  <2>1. ok(Root)
    BY <1>2, AncestorsEquation, BlockTreeAssumption
  <2> QED
    BY Zenon, <1>5, <2>1
<1>7. BlockView[BlockQC[b]] < BlockView[b]
  BY Zenon, <1>6, BlockTreeAssumption
<1>8. ok(BlockQC[b])
  <2>1. BlockView[BlockQC[b]] \notin Bad
    <3> HIDE DEF Bad
    <3> QED
      BY <1>2, <1>4, <1>5, <1>7
  <2> HIDE DEF ok
  <2> QED
    BY Zenon, <1>2, <2>1
<1>9. Ancestors[b] = {b} \cup Ancestors[BlockQC[b]]
  BY Zenon, <1>6, AncestorsEquation
<1> QED
  BY <1>2, <1>5, <1>7, <1>8, <1>9

(* Forks has all ancestors of its blocks above the finalized view: the     *)
(* path that collectBlocksForFinalization walks.                           *)
LEMMA ForksHasAncestors ==
    ASSUME NEW known, NEW final, known \subseteq Blocks,
           NEW f, SoundForks(f, known, final),
           NEW x \in f.blocks
    PROVE  {a \in Ancestors[x] : BlockView[a] > FinalizedView(f)} \subseteq f.blocks
<1> DEFINE ok(b) == \A a \in Ancestors[b] : BlockView[a] > FinalizedView(f) => a \in f.blocks
           Bad == {BlockView[b] : b \in {c \in f.blocks : ~ok(c)}}
<1>1. SUFFICES ASSUME Bad # {} PROVE FALSE
  BY Zenon
<1>2. \A b \in Blocks : BlockView[b] \in Nat /\ BlockQC[b] \in Blocks
  BY Zenon, BlockTreeAssumption
<1>3. f.blocks \subseteq Blocks /\ FinalizedView(f) \in Nat
  BY Zenon, <1>2 DEF SoundForks, ForksType, FinalizedView
<1>4. Bad \in SUBSET Nat
  BY Zenon, <1>2, <1>3
<1>5. PICK n \in Bad : \A m \in Bad : n <= m
  <2> HIDE DEF Bad
  <2> QED
    BY Zenon, <1>1, <1>4, SmallestView
<1>6. PICK b \in f.blocks : ~ok(b) /\ BlockView[b] = n
  BY Zenon, <1>5
<1>7. b \in Blocks /\ b # Root
  <2>1. b = Root => ok(b)
    BY AncestorsEquation, BlockTreeAssumption
  <2> QED
    BY Zenon, <1>3, <1>6, <2>1
<1>8. /\ BlockView[BlockQC[b]] < BlockView[b]
      /\ Ancestors[b] = {b} \cup Ancestors[BlockQC[b]]
  BY Zenon, <1>7, AncestorsEquation, BlockTreeAssumption
<1>9. CASE BlockQC[b] \in f.blocks
  <2>1. ok(BlockQC[b])
    <3>1. BlockView[BlockQC[b]] \notin Bad
      <4> HIDE DEF Bad
      <4> QED
        BY <1>2, <1>5, <1>6, <1>7, <1>8
    <3> HIDE DEF ok
    <3> QED
      BY Zenon, <1>9, <3>1
  <2> QED
    BY Zenon, <1>6, <1>8, <2>1
<1>10. CASE BlockView[BlockQC[b]] < FinalizedView(f)
  <2>1. \A a \in Ancestors[BlockQC[b]] : a \in Blocks /\ BlockView[a] <= BlockView[BlockQC[b]]
    BY Zenon, <1>2, <1>7, AncestorsAreOlder
  <2>2. \A a \in Ancestors[BlockQC[b]] : ~(BlockView[a] > FinalizedView(f))
    BY <1>2, <1>3, <1>7, <1>10, <2>1
  <2> QED
    BY Zenon, <1>6, <1>8, <2>2
<1> QED
  BY Zenon, <1>6, <1>7, <1>9, <1>10 DEF SoundForks, Has

(* Finalizing the parent of a certified block, and pruning, never fails    *)
(* and keeps Forks sound (checkForAdvancingFinalization).                  *)
LEMMA FinalizationIsSound ==
    ASSUME NEW known, NEW certified, NEW final, Agreement(known, certified, final),
           NEW f, SoundForks(f, known, final),
           NEW c \in f.blocks \cap certified
    PROVE  LET g == checkForAdvancingFinalization(f, c)
           IN  /\ SoundForks(g, known, final)
               /\ Extends(f, g)
               /\ \/ g = f
                  \/ /\ BlockView[g.finalized] + 1 = BlockView[c]
                     /\ g.blocks = {x \in f.blocks : BlockView[x] >= BlockView[g.finalized]}
<1> DEFINE g == checkForAdvancingFinalization(f, c)
           parent   == BlockQC[c]
           relevant == BlockView[c] > FinalizedView(f) /\ BlockView[parent] >= FinalizedView(f)
           direct   == BlockView[parent] + 1 = BlockView[c]
           corrupt  == parent \notin f.blocks \/ (direct /\ ~collectBlocksForFinalization(f, parent))
           pruned   == {x \in f.blocks : BlockView[x] >= BlockView[parent]}
<1>1. \A b \in Blocks : BlockView[b] \in Nat /\ BlockQC[b] \in Blocks
  BY Zenon, BlockTreeAssumption
<1>2. /\ f \in ForksType /\ f.failed = FALSE /\ f.blocks \subseteq known /\ IsFiniteSet(f.blocks)
      /\ f.finalized \in f.blocks /\ f.finalized \in final
      /\ \A b \in f.blocks \ {Root} : Has(f, BlockQC[b])
      /\ known \subseteq Blocks /\ c \in Blocks /\ parent \in Blocks
      /\ FinalizedView(f) \in Nat /\ FinalizedView(f) = BlockView[f.finalized]
  BY Zenon, <1>1 DEF SoundForks, Agreement, FinalizedView
<1>3. Extends(f, f)
  BY <1>2 DEF Extends
<1>4. CASE ~relevant \/ (~corrupt /\ ~direct)
  <2>1. g = f
    BY Zenon, <1>4 DEF checkForAdvancingFinalization
  <2> QED
    BY Zenon, <1>3, <2>1
<1>5. CASE relevant
  <2>1. c # Root
    <3>1. f.finalized = Root \/ BlockView[Root] < BlockView[f.finalized]
      BY Zenon, <1>2, BlockTreeAssumption
    <3> QED
      BY <1>1, <1>2, <1>5, <3>1
  <2>2. parent \in certified
    BY Zenon, <1>2, <2>1 DEF Agreement
  <2>3. parent \in f.blocks
    BY <1>1, <1>2, <1>5, <2>1 DEF Has
  <2>4. collectBlocksForFinalization(f, parent)
    <3>1. f.finalized \in Ancestors[parent]
      BY Zenon, <1>2, <1>5, <2>2 DEF Agreement
    <3>2. {a \in Ancestors[parent] : BlockView[a] > FinalizedView(f)} \subseteq f.blocks
      BY Zenon, <1>2, <2>3, ForksHasAncestors
    <3> QED
      BY <1>1, <1>2, <1>5, <3>1, <3>2 DEF collectBlocksForFinalization
  <2>5. ~corrupt
    BY Zenon, <2>3, <2>4
  <2>6. CASE direct
    <3>1. g = [f EXCEPT !.blocks = pruned, !.finalized = parent]
      BY Zenon, <1>5, <2>5, <2>6 DEF checkForAdvancingFinalization
    <3>2. pruned \subseteq f.blocks /\ IsFiniteSet(pruned)
      BY Zenon, <1>2, FS_Subset
    <3>3. parent \in pruned
      BY <1>1, <1>2, <2>3
    <3>4. parent \in final
      BY Zenon, <1>1, <1>2, <2>1, <2>6 DEF Agreement
    <3>5. \A x \in f.blocks : x \in pruned \/ BlockView[x] < BlockView[parent]
      BY <1>1, <1>2
    <3> HIDE DEF pruned, g, parent
    <3>6. g \in ForksType /\ g.blocks = pruned /\ g.finalized = parent /\ g.failed = FALSE
      BY Zenon, <1>2, <3>1, <3>2 DEF ForksType
    <3>7. FinalizedView(g) = BlockView[parent]
      BY Zenon, <3>6 DEF FinalizedView
    <3>8. Extends(f, g)
      <4>1. FinalizedView(f) <= FinalizedView(g)
        BY Zenon, <1>5, <3>7, <1>1, <1>2
      <4>2. ASSUME NEW b \in Blocks, Has(f, b) PROVE Has(g, b)
        <5>1. CASE b \in f.blocks
          BY Zenon, <3>5, <3>6, <3>7, <5>1 DEF Has
        <5>2. CASE BlockView[b] < FinalizedView(f)
          <6>1. BlockView[b] < FinalizedView(g)
            BY <1>1, <1>2, <3>7, <4>1, <5>2
          <6> QED
            BY Zenon, <6>1 DEF Has
        <5> QED
          BY Zenon, <4>2, <5>1, <5>2 DEF Has
      <4> QED
        BY Zenon, <4>1, <4>2 DEF Extends
    <3>9. \A b \in g.blocks \ {Root} : Has(g, BlockQC[b])
      BY Zenon, <1>1, <1>2, <3>2, <3>6, <3>8 DEF Extends
    <3>10. SoundForks(g, known, final)
      BY Zenon, <1>2, <3>2, <3>3, <3>4, <3>6, <3>9 DEF SoundForks
    <3>11. BlockView[g.finalized] + 1 = BlockView[c]
      BY Zenon, <2>6, <3>6
    <3>12. g.blocks = {x \in f.blocks : BlockView[x] >= BlockView[g.finalized]}
      BY Zenon, <3>6 DEF pruned
    <3> QED
      BY Zenon, <3>8, <3>10, <3>11, <3>12 DEF g
  <2> QED
    BY Zenon, <1>4, <2>5, <2>6
<1> QED
  BY Zenon, <1>4, <1>5

(* A valid block whose parent is known, or below the finalized view, can   *)
(* be added to Forks in any state: no missing parent, no evidence of too   *)
(* many Byzantine replicas, and nothing known is lost (AddValidatedBlock). *)
LEMMA AddValidatedBlockIsSound ==
    ASSUME NEW known, NEW certified, NEW final, Agreement(known, certified, final),
           NEW f, SoundForks(f, known, final),
           NEW b \in known \ {Root}, Has(f, BlockQC[b])
    PROVE  LET g == AddValidatedBlock(f, b)
           IN  /\ SoundForks(g, known, final)
               /\ Extends(f, g)
               /\ Has(g, b)
               /\ BlockQC[b] \in f.blocks => BlockQC[b] \in g.blocks
               /\ \/ g.finalized = f.finalized
                  \/ BlockView[g.finalized] + 1 = BlockView[BlockQC[b]]
<1> DEFINE g == AddValidatedBlock(f, b)
           h == [f EXCEPT !.blocks = @ \cup {b}]
           c == BlockQC[b]
<1>1. \A x \in Blocks : BlockView[x] \in Nat /\ BlockQC[x] \in Blocks
  BY Zenon, BlockTreeAssumption
<1>2. /\ f \in ForksType /\ f.failed = FALSE /\ f.blocks \subseteq known /\ IsFiniteSet(f.blocks)
      /\ f.finalized \in f.blocks /\ f.finalized \in final
      /\ \A x \in f.blocks \ {Root} : Has(f, BlockQC[x])
      /\ known \subseteq Blocks /\ b \in Blocks /\ c \in Blocks /\ c \in certified
      /\ FinalizedView(f) \in Nat
  BY Zenon, <1>1 DEF SoundForks, Agreement, FinalizedView
<1>3. BlockView[c] < BlockView[b] /\ c # b
  BY <1>1, <1>2, BlockTreeAssumption
<1>4. CASE ~IsProcessingNeeded(f, b)
  <2>1. g = f
    BY Zenon, <1>4 DEF AddValidatedBlock
  <2>2. Has(f, b)
    BY <1>1, <1>2, <1>4 DEF IsProcessingNeeded, Has
  <2>3. Extends(f, f)
    BY <1>2 DEF Extends
  <2> QED
    BY Zenon, <2>1, <2>2, <2>3
<1>5. CASE IsProcessingNeeded(f, b)
  <2>1. checkForByzantineEvidence(f, b)
    <3>1. EnsureBlockIsValidExtension(f, b)
      BY Zenon DEF EnsureBlockIsValidExtension, Has
    <3>2. checkForConflictingQCs(f, c)
      BY Zenon, <1>2 DEF checkForConflictingQCs, Agreement
    <3> QED
      BY Zenon, <3>1, <3>2 DEF checkForByzantineEvidence
  <2>2. g = IF c \in h.blocks THEN checkForAdvancingFinalization(h, c) ELSE h
    BY Zenon, <1>5, <2>1 DEF AddValidatedBlock
  <2>3. /\ h \in ForksType /\ h.failed = FALSE /\ h.finalized = f.finalized
        /\ h.blocks = f.blocks \cup {b} /\ IsFiniteSet(h.blocks)
    BY Zenon, <1>2, FS_AddElement DEF ForksType
  <2> HIDE DEF h
  <2>4. FinalizedView(h) = FinalizedView(f)
    BY Zenon, <2>3 DEF FinalizedView
  <2>5. Extends(f, h) /\ Has(h, b)
    BY <1>2, <2>3, <2>4 DEF Extends, Has
  <2>6. SoundForks(h, known, final)
    <3>1. \A x \in h.blocks \ {Root} : Has(h, BlockQC[x])
      BY Zenon, <1>1, <1>2, <2>3, <2>5 DEF Extends
    <3> QED
      BY Zenon, <1>2, <2>3, <3>1 DEF SoundForks
  <2>7. CASE c \in h.blocks
    <3> HIDE DEF g, c
    <3>1. g = checkForAdvancingFinalization(h, c)
      BY Zenon, <2>2, <2>7
    <3>2. /\ SoundForks(g, known, final)
          /\ Extends(h, g)
          /\ \/ g = h
             \/ /\ BlockView[g.finalized] + 1 = BlockView[c]
                /\ g.blocks = {x \in h.blocks : BlockView[x] >= BlockView[g.finalized]}
      BY <1>2, <2>6, <2>7, <3>1, FinalizationIsSound
    <3>3. Extends(f, g) /\ Has(g, b)
      <4>1. g \in ForksType
        BY Zenon, <3>2 DEF SoundForks
      <4>2. FinalizedView(g) \in Nat /\ FinalizedView(h) \in Nat
        BY Zenon, <1>1, <2>3, <4>1 DEF ForksType, FinalizedView
      <4> QED
        BY Zenon, <1>2, <2>4, <2>5, <3>2, <4>2 DEF Extends
    <3>4. c \in g.blocks
      <4>1. CASE g = h
        BY Zenon, <2>7, <4>1
      <4>2. CASE g # h
        <5>1. g.finalized \in Blocks
          BY Zenon, <3>2 DEF SoundForks, ForksType
        <5>2. BlockView[g.finalized] \in Nat /\ BlockView[c] \in Nat
          BY Zenon, <1>1, <1>2, <5>1
        <5> QED
          BY <2>7, <3>2, <4>2, <5>2
      <4> QED
        BY Zenon, <4>1, <4>2
    <3> QED
      BY Zenon, <2>3, <3>2, <3>3, <3>4 DEF g, c
  <2>8. CASE c \notin h.blocks
    <3>1. g = h
      BY Zenon, <2>2, <2>8
    <3> QED
      BY Zenon, <2>3, <2>5, <2>6, <2>8, <3>1
  <2> QED
    BY Zenon, <2>7, <2>8
<1> QED
  BY Zenon, <1>4, <1>5

(* Forks can be recovered from a finalized block and valid blocks that     *)
(* include their ancestors: ingesting older views first, no parent is      *)
(* missing when its child is added (recovery.ForksState).                  *)
LEMMA RecoverForksIsSound ==
    ASSUME NEW known, NEW certified, NEW final, Agreement(known, certified, final),
           NEW root \in known \cap final,
           NEW pending \in SUBSET (known \ {Root}), IsFiniteSet(pending),
           \A b \in pending : BlockQC[b] \in pending \cup {root}
    PROVE  LET f == RecoverForks(root, pending)
           IN  /\ SoundForks(f, known, final)
               /\ BlockView[root] <= FinalizedView(f)
               /\ \A b \in pending \cup {root} : Has(f, b)
               /\ \/ f.finalized = root
                  \/ \E e \in pending : BlockView[f.finalized] + 1 = BlockView[BlockQC[e]]
<1> DEFINE Recovered(f, S) ==
             /\ SoundForks(f, known, final)
             /\ BlockView[root] <= FinalizedView(f)
             /\ \A b \in S \cup {root} : Has(f, b)
             /\ \/ f.finalized = root
                \/ \E e \in S : BlockView[f.finalized] + 1 = BlockView[BlockQC[e]]
           OldestOf(S) == \A b \in pending, c \in S : BlockView[b] < BlockView[c] => b \in S
<1>1. /\ pending \in SUBSET Blocks /\ known \subseteq Blocks /\ root \in Blocks
      /\ \A x \in Blocks : BlockView[x] \in Nat /\ BlockQC[x] \in Blocks
  BY Zenon, BlockTreeAssumption DEF Agreement
<1>2. PICK g : /\ g = [S \in SUBSET pending |->
                         IF S = {} THEN NewForks(root)
                         ELSE AddValidatedBlock(g[S \ {NewestOf(S)}], NewestOf(S))]
               /\ RecoverForks(root, pending) = g[pending]
  BY Zenon, <1>1, RecoverForksEquation
<1>3. /\ g[{}] = NewForks(root)
      /\ \A S \in SUBSET pending : S # {} =>
            g[S] = AddValidatedBlock(g[S \ {NewestOf(S)}], NewestOf(S))
  BY Zenon, <1>2
<1>4. Recovered(NewForks(root), {})
  <2> DEFINE f == NewForks(root)
  <2>1. /\ f \in ForksType /\ f.blocks = {root} /\ f.finalized = root /\ f.failed = FALSE
    BY Zenon, <1>1 DEF NewForks, ForksType
  <2> HIDE DEF f
  <2>2. FinalizedView(f) = BlockView[root]
    BY Zenon, <2>1 DEF FinalizedView
  <2>3. IsFiniteSet({root})
    BY Zenon, FS_Singleton
  <2>4. \A b \in f.blocks \ {Root} : Has(f, BlockQC[b])
    BY <1>1, <2>1, <2>2, BlockTreeAssumption DEF Has
  <2>5. SoundForks(f, known, final)
    BY Zenon, <2>1, <2>3, <2>4 DEF SoundForks
  <2>6. Has(f, root)
    BY Zenon, <2>1 DEF Has
  <2> QED
    BY <1>1, <2>1, <2>2, <2>5, <2>6 DEF f
<1>5. \A S \in SUBSET pending : IsFiniteSet(S) /\ Cardinality(S) \in Nat
  BY Zenon, FS_Subset, FS_CardinalityType
<1> DEFINE Bad == {n \in Nat : \E S \in SUBSET pending :
                      Cardinality(S) = n /\ OldestOf(S) /\ ~Recovered(g[S], S)}
<1>6. ASSUME NEW f, NEW S \in SUBSET pending, S # {}, OldestOf(S),
             Recovered(f, S \ {NewestOf(S)})
      PROVE  Recovered(AddValidatedBlock(f, NewestOf(S)), S)
  <2> DEFINE b == NewestOf(S)
             c == BlockQC[b]
             T == S \ {b}
             h == AddValidatedBlock(f, b)
  <2>1. b \in S /\ b \in pending
    BY Zenon, <1>1, <1>5, <1>6, NewestIsElement
  <2>2. BlockView[c] < BlockView[b] /\ c \in pending \cup {root}
    BY Zenon, <1>1, <2>1, BlockTreeAssumption
  <2>3. c \in T \cup {root}
    BY <1>1, <1>6, <2>1, <2>2
  <2>4. Has(f, c)
    BY Zenon, <1>6, <2>3
  <2>5. SoundForks(f, known, final) /\ b \in known \ {Root}
    BY Zenon, <1>6, <2>1
  <2> HIDE DEF b
  <2>6. /\ SoundForks(h, known, final)
        /\ Extends(f, h)
        /\ Has(h, b)
        /\ h.finalized = f.finalized \/ BlockView[h.finalized] + 1 = BlockView[c]
    BY <2>4, <2>5, AddValidatedBlockIsSound
  <2> HIDE DEF h
  <2>7. BlockView[root] <= FinalizedView(h)
    <3>1. FinalizedView(h) \in Nat /\ FinalizedView(f) \in Nat /\ BlockView[root] \in Nat
      BY Zenon, <1>1, <2>5, <2>6 DEF SoundForks, ForksType, FinalizedView
    <3>2. BlockView[root] <= FinalizedView(f) /\ FinalizedView(f) <= FinalizedView(h)
      BY Zenon, <1>6, <2>6 DEF Extends, b
    <3> QED
      BY <3>1, <3>2
  <2>8. \A x \in S \cup {root} : Has(h, x)
    <3>1. \A x \in T \cup {root} : Has(f, x)
      BY Zenon, <1>6 DEF b
    <3> QED
      BY ZenonT(60), <1>1, <2>6, <3>1 DEF Extends
  <2>9. h.finalized = root \/ \E e \in S : BlockView[h.finalized] + 1 = BlockView[BlockQC[e]]
    <3>1. f.finalized = root \/ \E e \in T : BlockView[f.finalized] + 1 = BlockView[BlockQC[e]]
      BY Zenon, <1>6 DEF b
    <3> QED
      BY Zenon, <2>1, <2>6, <3>1
  <2> QED
    BY Zenon, <2>6, <2>7, <2>8, <2>9 DEF h, b
<1> HIDE DEF Recovered
<1>7. SUFFICES ASSUME ~Recovered(g[pending], pending) PROVE FALSE
  BY Zenon, <1>2 DEF Recovered
<1>8. PICK n \in Bad : \A m \in Bad : n <= m
  <2>1. OldestOf(pending)
    BY Zenon
  <2> HIDE DEF OldestOf
  <2>2. Bad \in SUBSET Nat /\ Bad # {}
    BY Zenon, <1>5, <1>7, <2>1
  <2> HIDE DEF Bad
  <2> QED
    BY Zenon, <2>2, SmallestView
<1>9. PICK S \in SUBSET pending : Cardinality(S) = n /\ OldestOf(S) /\ ~Recovered(g[S], S)
  BY Zenon, <1>8
<1>10. S # {}
  BY Zenon, <1>3, <1>4, <1>9
<1> DEFINE T == S \ {NewestOf(S)}
<1>11. NewestOf(S) \in S /\ \A c \in S : BlockView[c] <= BlockView[NewestOf(S)]
  BY Zenon, <1>1, <1>5, <1>10, NewestIsElement
<1>12. T \in SUBSET pending /\ Cardinality(T) = n - 1 /\ Cardinality(T) \in Nat
  BY Zenon, <1>5, <1>9, <1>11, FS_RemoveElement
<1>13. OldestOf(T)
  <2> SUFFICES ASSUME NEW x \in pending, NEW y \in T, BlockView[x] < BlockView[y]
               PROVE  x \in T
    BY Zenon
  <2>1. x \in S
    BY Zenon, <1>9
  <2>2. BlockView[y] <= BlockView[NewestOf(S)]
    BY Zenon, <1>11
  <2>3. BlockView[x] \in Nat /\ BlockView[y] \in Nat /\ BlockView[NewestOf(S)] \in Nat
    BY Zenon, <1>1, <1>11
  <2> QED
    BY <2>1, <2>2, <2>3
<1>14. Recovered(g[T], T)
  <2> HIDE DEF OldestOf, T
  <2>1. n \in Nat
    BY Zenon, <1>8
  <2>2. n - 1 \in Nat /\ ~(n <= n - 1)
    BY <1>12, <2>1
  <2>3. n - 1 \notin Bad
    <3> HIDE DEF Bad
    <3> QED
      BY Zenon, <1>8, <2>2
  <2> QED
    BY Zenon, <1>12, <1>13, <2>2, <2>3
<1>15. Recovered(AddValidatedBlock(g[T], NewestOf(S)), S)
  BY Zenon, <1>6, <1>9, <1>10, <1>14
<1> QED
  BY Zenon, <1>3, <1>9, <1>10, <1>15

(***************************************************************************)
(* Type correctness.                                                       *)
(***************************************************************************)
(* Every step of SafetyRules keeps its state well formed.                  *)
LEMMA SafetyRulesTypeStep ==
    SafetyRulesTypeOK /\ [SafetyRulesNext]_srVars => SafetyRulesTypeOK'
<1> SUFFICES ASSUME SafetyRulesTypeOK, [SafetyRulesNext]_srVars
             PROVE  SafetyRulesTypeOK'
  BY Zenon
<1>1. CASE UNCHANGED srVars
  BY Zenon, <1>1 DEF SafetyRulesTypeOK, srVars
<1>2. ASSUME NEW r \in Honest, NEW b \in Blocks, SignVote(r, b)
      PROVE  SafetyRulesTypeOK'
  <2>1. AfterVote(safetyData[r], b) \in SafetyDataType
    BY Zenon, BlockTreeAssumption DEF AfterVote, SafetyRulesTypeOK, SafetyDataType
  <2>. QED BY <1>2, <2>1 DEF SignVote, SafetyRulesTypeOK
<1>3. ASSUME NEW r \in Honest, NEW v \in TimeoutViews, RepeatTimeout(r, v)
      PROVE  SafetyRulesTypeOK'
  BY Zenon, <1>3 DEF RepeatTimeout, RepeatsTimeout, SafetyRulesTypeOK, SafetyDataType
<1>4. ASSUME NEW r \in Honest, NEW v \in TimeoutViews, NEW qc \in Blocks, NEW tc,
             ProduceTimeout(r, v, qc, tc)
      PROVE  SafetyRulesTypeOK'
  <2> DEFINE to == [View |-> v, NewestQC |-> qc, SignerID |-> r]
  <2>1. to \in TimeoutObjects /\ to.View \in Views
    BY Zenon, BlockTreeAssumption DEF TimeoutObjects
  <2>2. AfterTimeout(safetyData[r], to) \in SafetyDataType
    BY Zenon, <2>1 DEF AfterTimeout, SafetyRulesTypeOK, SafetyDataType
  <2>. HIDE DEF to
  <2>3. /\ safetyData' = [safetyData EXCEPT ![r] = AfterTimeout(@, to)]
        /\ timeouts' = timeouts \cup {to}
        /\ votes' = votes
    BY Zenon, <1>4 DEF ProduceTimeout, to
  <2>. QED BY Zenon, <2>1, <2>2, <2>3 DEF SafetyRulesTypeOK
<1>. QED BY Zenon, <1>1, <1>2, <1>3, <1>4
     DEF SafetyRulesNext, SafetyRulesStep, ProduceVote, SignOwnProposal, ValidQCs

(* The state of SafetyRules stays well formed.                             *)
THEOREM SafetyRulesTypeCorrect == SafetyRulesSpec => []SafetyRulesTypeOK
<1>1. SafetyRulesInit => SafetyRulesTypeOK
  BY BlockTreeAssumption DEF SafetyRulesInit, SafetyRulesTypeOK, SafetyDataType
<1>. QED BY <1>1, SafetyRulesTypeStep, PTL DEF SafetyRulesSpec
-----------------------------------------------------------------------------
(***************************************************************************)
(* Certificates, once valid, stay valid.                                   *)
(***************************************************************************)
(* Signatures are only added, so valid QCs, TCs and the certificates of a  *)
(* proposal remain valid.                                                  *)
LEMMA CertificatesStayValid ==
    ASSUME votes \subseteq votes', timeouts \subseteq timeouts'
    PROVE  /\ \A b \in Blocks : ValidateQC(b) => ValidateQC(b)'
           /\ \A tc \in TimeoutCertificates : ValidateTC(tc) => ValidateTC(tc)'
           /\ \A b \in Blocks : ValidCertificates(b) => ValidCertificates(b)'
<1>1. ASSUME NEW b \in Blocks, ValidateQC(b) PROVE ValidateQC(b)'
  <2>1. CASE b = Root
    BY Zenon, <2>1 DEF ValidateQC
  <2>2. CASE b # Root
    <3>1. /\ Voters(b) \cup Byzantine \in SUBSET Replicas
          /\ Voters(b)' \cup Byzantine \in SUBSET Replicas
          /\ Voters(b) \cup Byzantine \subseteq Voters(b)' \cup Byzantine
      BY Zenon, CommitteeAssumption DEF Voters, Honest
    <3>2. IsQuorum(Voters(b) \cup Byzantine)
      BY Zenon, <1>1, <2>2 DEF ValidateQC
    <3>3. IsQuorum(Voters(b)' \cup Byzantine)
      BY Zenon, <3>1, <3>2, QuorumMonotone
    <3>. QED BY Zenon, <3>3 DEF ValidateQC
  <2>. QED BY Zenon, <2>1, <2>2
<1>2. ASSUME NEW tc \in TimeoutCertificates, ValidateTC(tc) PROVE ValidateTC(tc)'
  <2>1. /\ TimedOut(tc) \cup Byzantine \in SUBSET Replicas
        /\ TimedOut(tc)' \cup Byzantine \in SUBSET Replicas
        /\ TimedOut(tc) \cup Byzantine \subseteq TimedOut(tc)' \cup Byzantine
    BY Zenon, CommitteeAssumption DEF TimedOut, Honest
  <2>2. IsQuorum(TimedOut(tc)' \cup Byzantine)
    BY Zenon, <1>2, <2>1, QuorumMonotone DEF ValidateTC
  <2>3. tc.NewestQC \in Blocks
    BY Zenon DEF TimeoutCertificates
  <2>4. ValidateQC(tc.NewestQC)'
    BY Zenon, <1>1, <1>2, <2>3 DEF ValidateTC
  <2>. QED BY Zenon, <1>2, <2>2, <2>4 DEF ValidateTC
<1>3. ASSUME NEW b \in Blocks, ValidCertificates(b) PROVE ValidCertificates(b)'
  <2>1. BlockQC[b] \in Blocks /\ BlockTC[b] \in OptionalTC
    BY Zenon, BlockTreeAssumption
  <2>2. ValidateQC(BlockQC[b])'
    BY Zenon, <1>1, <1>3, <2>1 DEF ValidCertificates
  <2>3. BlockTC[b] # Nil /\ ValidateTC(BlockTC[b]) => ValidateTC(BlockTC[b])'
    BY Zenon, <1>2, <2>1 DEF OptionalTC
  <2>. QED BY Zenon, <1>3, <2>2, <2>3 DEF ValidCertificates
<1>. QED BY Zenon, <1>1, <1>2, <1>3
-----------------------------------------------------------------------------
(***************************************************************************)
(* The inductive invariant.                                                *)
(***************************************************************************)
(* A vote (ProduceVote, SignOwnProposal) preserves the invariant: the view *)
(* is new for the signer, and the lock grows with the QC voted on.         *)
LEMMA SignVotePreservesInvariant ==
    ASSUME SafetyInvariant, SafetyRulesTypeOK',
           NEW r \in Honest, NEW b \in Blocks,
           b # Root, ValidCertificates(b), SignVote(r, b)
    PROVE  SafetyInvariant'
<1>1. /\ safetyData' = [safetyData EXCEPT ![r] = AfterVote(@, b)]
      /\ votes' = votes \cup {<<r, b>>}
      /\ timeouts' = timeouts
  BY Zenon DEF SignVote
<1>2. BlockView[b] > safetyData[r].HighestAcknowledgedView
  BY Zenon DEF SignVote, isSafeToVote
<1>3. /\ safetyData \in [Honest -> SafetyDataType]
      /\ safetyData' \in [Honest -> SafetyDataType]
      /\ timeouts \subseteq TimeoutObjects
  BY Zenon DEF SafetyInvariant, SafetyRulesTypeOK
<1>4. /\ Views \subseteq Nat
      /\ \A c \in Blocks : BlockView[c] \in Nat /\ BlockQC[c] \in Blocks
  BY Zenon, BlockTreeAssumption
<1>5. /\ safetyData'[r].HighestAcknowledgedView = BlockView[b]
      /\ safetyData'[r].LockedOneChainView >= safetyData[r].LockedOneChainView
      /\ safetyData'[r].LockedOneChainView >= BlockView[BlockQC[b]]
      /\ safetyData'[r].LastTimeout = safetyData[r].LastTimeout
  BY <1>1, <1>3, <1>4 DEF AfterVote, SafetyDataType
<1>6. \A s \in Honest : s # r => safetyData'[s] = safetyData[s]
  BY Zenon, <1>1, <1>3
<1>7. \A s \in Honest :
         /\ safetyData[s].HighestAcknowledgedView \in Nat
         /\ safetyData[s].LockedOneChainView \in Nat
         /\ safetyData'[s].HighestAcknowledgedView \in Nat
         /\ safetyData'[s].LockedOneChainView \in Nat
  BY Zenon, <1>3, <1>4 DEF SafetyDataType
<1>8. \A s \in Honest :
         /\ safetyData[s].HighestAcknowledgedView <= safetyData'[s].HighestAcknowledgedView
         /\ safetyData[s].LockedOneChainView <= safetyData'[s].LockedOneChainView
  BY <1>2, <1>4, <1>5, <1>6, <1>7
<1>9. \A c \in Blocks : ValidCertificates(c) => ValidCertificates(c)'
  BY Zenon, <1>1, CertificatesStayValid
<1>10. \A s \in Honest, c \in Blocks : <<s, c>> \in votes' =>
          <<s, c>> \in votes \/ (s = r /\ c = b)
  BY Zenon, <1>1
<1>11. \A s \in Honest, c \in Blocks : <<s, c>> \in votes' =>
          /\ c # Root
          /\ ValidCertificates(c)'
          /\ BlockView[c] <= safetyData'[s].HighestAcknowledgedView
          /\ BlockView[BlockQC[c]] <= safetyData'[s].LockedOneChainView
  <2> SUFFICES ASSUME NEW s \in Honest, NEW c \in Blocks, <<s, c>> \in votes'
               PROVE  /\ c # Root
                      /\ ValidCertificates(c)'
                      /\ BlockView[c] <= safetyData'[s].HighestAcknowledgedView
                      /\ BlockView[BlockQC[c]] <= safetyData'[s].LockedOneChainView
    BY Zenon
  <2>1. CASE <<s, c>> \in votes
    <3>1. /\ c # Root
          /\ ValidCertificates(c)
          /\ BlockView[c] <= safetyData[s].HighestAcknowledgedView
          /\ BlockView[BlockQC[c]] <= safetyData[s].LockedOneChainView
      BY Zenon, <2>1 DEF SafetyInvariant
    <3>. QED BY <1>4, <1>7, <1>8, <1>9, <3>1
  <2>2. CASE s = r /\ c = b
    BY <1>4, <1>5, <1>7, <1>9, <2>2
  <2>. QED BY Zenon, <1>10, <2>1, <2>2
<1>12. \A s \in Honest, c \in Blocks :
          <<s, c>> \in votes => BlockView[c] <= safetyData[s].HighestAcknowledgedView
  BY Zenon DEF SafetyInvariant
<1>13. \A s \in Honest, c, d \in Blocks :
          <<s, c>> \in votes' /\ <<s, d>> \in votes' /\ BlockView[c] = BlockView[d] => c = d
  <2>1. \A s \in Honest, c, d \in Blocks :
          <<s, c>> \in votes /\ <<s, d>> \in votes /\ BlockView[c] = BlockView[d] => c = d
    BY Zenon DEF SafetyInvariant
  <2>2. \A c \in Blocks : <<r, c>> \in votes => BlockView[c] # BlockView[b]
    BY <1>2, <1>4, <1>7, <1>12
  <2>. QED BY <1>10, <2>1, <2>2
<1>14. \A to \in timeouts : to.View \in Nat /\ to.SignerID \in Honest /\ to.NewestQC \in Blocks
  BY Zenon, <1>3, <1>4 DEF TimeoutObjects
<1>15. \A to \in timeouts : to.View <= safetyData[to.SignerID].HighestAcknowledgedView
  BY Zenon DEF SafetyInvariant
<1>16. \A to \in timeouts' : to.View <= safetyData'[to.SignerID].HighestAcknowledgedView
  BY SMTT(30), <1>1, <1>7, <1>8, <1>14, <1>15
<1>17. \A s \in Honest : safetyData'[s].LastTimeout # Nil => safetyData'[s].LastTimeout \in timeouts'
  BY <1>1, <1>5, <1>6 DEF SafetyInvariant
<1>18. \A s \in Honest, c \in Blocks, to \in timeouts' :
          <<s, c>> \in votes' /\ to.SignerID = s /\ BlockView[c] <= to.View
             => BlockView[BlockQC[c]] <= BlockView[to.NewestQC]
  <2>1. \A s \in Honest, c \in Blocks, to \in timeouts :
          <<s, c>> \in votes /\ to.SignerID = s /\ BlockView[c] <= to.View
             => BlockView[BlockQC[c]] <= BlockView[to.NewestQC]
    BY Zenon DEF SafetyInvariant, TimeoutsRespectLock
  <2>2. \A to \in timeouts : to.SignerID = r => ~(BlockView[b] <= to.View)
    BY SMTT(30), <1>2, <1>4, <1>7, <1>14, <1>15
  <2>. QED BY Zenon, <1>1, <1>10, <2>1, <2>2
<1>. QED BY Zenon, <1>11, <1>13, <1>16, <1>17, <1>18 DEF SafetyInvariant, TimeoutsRespectLock

(* A new timeout (ProduceTimeout) preserves the invariant: its QC is at    *)
(* least as new as the lock, hence as every QC the signer voted on.        *)
LEMMA ProduceTimeoutPreservesInvariant ==
    ASSUME SafetyInvariant, SafetyRulesTypeOK',
           NEW r \in Honest, NEW v \in TimeoutViews, NEW qc \in Blocks, NEW tc,
           ProduceTimeout(r, v, qc, tc)
    PROVE  SafetyInvariant'
<1> DEFINE new == [View |-> v, NewestQC |-> qc, SignerID |-> r]
<1>1. /\ safetyData' = [safetyData EXCEPT ![r] = AfterTimeout(@, new)]
      /\ votes' = votes
      /\ timeouts' = timeouts \cup {new}
      /\ BlockView[qc] >= safetyData[r].LockedOneChainView
      /\ v + 1 > safetyData[r].HighestAcknowledgedView
  BY Zenon DEF ProduceTimeout, IsSafeToTimeout
<1>2. new.View = v /\ new.NewestQC = qc /\ new.SignerID = r
  BY Zenon
<1>. HIDE DEF new
<1>3. /\ safetyData \in [Honest -> SafetyDataType]
      /\ timeouts \subseteq TimeoutObjects
  BY Zenon DEF SafetyInvariant, SafetyRulesTypeOK
<1>4. /\ Views \subseteq Nat
      /\ v \in Nat
      /\ \A c \in Blocks : BlockView[c] \in Nat /\ BlockQC[c] \in Blocks
  BY Zenon, BlockTreeAssumption
<1>5. /\ safetyData'[r].HighestAcknowledgedView = v
      /\ safetyData'[r].LockedOneChainView = safetyData[r].LockedOneChainView
      /\ safetyData'[r].LastTimeout = new
  BY Zenon, <1>1, <1>2, <1>3 DEF AfterTimeout, SafetyDataType
<1>6. \A s \in Honest : s # r => safetyData'[s] = safetyData[s]
  BY Zenon, <1>1, <1>3
<1>7. \A s \in Honest :
         /\ safetyData[s].HighestAcknowledgedView \in Nat
         /\ safetyData[s].LockedOneChainView \in Nat
  BY Zenon, <1>3, <1>4 DEF SafetyDataType
<1>8. \A s \in Honest :
         /\ safetyData[s].HighestAcknowledgedView <= safetyData'[s].HighestAcknowledgedView
         /\ safetyData[s].LockedOneChainView = safetyData'[s].LockedOneChainView
         /\ safetyData'[s].HighestAcknowledgedView \in Nat
  BY <1>1, <1>4, <1>5, <1>6, <1>7
<1>9. \A c \in Blocks : ValidCertificates(c) => ValidCertificates(c)'
  BY Zenon, <1>1, CertificatesStayValid
<1>10. \A s \in Honest, c \in Blocks : <<s, c>> \in votes =>
          /\ c # Root
          /\ ValidCertificates(c)
          /\ BlockView[c] <= safetyData[s].HighestAcknowledgedView
          /\ BlockView[BlockQC[c]] <= safetyData[s].LockedOneChainView
  BY Zenon DEF SafetyInvariant
<1>11. \A s \in Honest, c \in Blocks : <<s, c>> \in votes' =>
          /\ c # Root
          /\ ValidCertificates(c)'
          /\ BlockView[c] <= safetyData'[s].HighestAcknowledgedView
          /\ BlockView[BlockQC[c]] <= safetyData'[s].LockedOneChainView
  BY <1>1, <1>4, <1>7, <1>8, <1>9, <1>10
<1>12. \A s \in Honest, c, d \in Blocks :
          <<s, c>> \in votes' /\ <<s, d>> \in votes' /\ BlockView[c] = BlockView[d] => c = d
  BY Zenon, <1>1 DEF SafetyInvariant
<1>13. \A to \in timeouts : to.View \in Nat /\ to.SignerID \in Honest /\ to.NewestQC \in Blocks
  BY Zenon, <1>3, <1>4, BlockTreeAssumption DEF TimeoutObjects
<1>14. \A to \in timeouts' : to.View <= safetyData'[to.SignerID].HighestAcknowledgedView
  <2>1. \A to \in timeouts : to.View <= safetyData[to.SignerID].HighestAcknowledgedView
    BY Zenon DEF SafetyInvariant
  <2>2. \A to \in timeouts : to.View <= safetyData'[to.SignerID].HighestAcknowledgedView
    BY <1>7, <1>8, <1>13, <2>1
  <2>3. new.View <= safetyData'[new.SignerID].HighestAcknowledgedView
    BY SMTT(30), <1>2, <1>4, <1>5
  <2>. QED BY Zenon, <1>1, <2>2, <2>3
<1>15. \A s \in Honest : safetyData'[s].LastTimeout # Nil => safetyData'[s].LastTimeout \in timeouts'
  BY <1>1, <1>5, <1>6 DEF SafetyInvariant
<1>16. \A s \in Honest, c \in Blocks, to \in timeouts' :
          <<s, c>> \in votes' /\ to.SignerID = s /\ BlockView[c] <= to.View
             => BlockView[BlockQC[c]] <= BlockView[to.NewestQC]
  <2>1. \A s \in Honest, c \in Blocks, to \in timeouts :
          <<s, c>> \in votes /\ to.SignerID = s /\ BlockView[c] <= to.View
             => BlockView[BlockQC[c]] <= BlockView[to.NewestQC]
    BY Zenon DEF SafetyInvariant, TimeoutsRespectLock
  <2>2. \A c \in Blocks : <<r, c>> \in votes => BlockView[BlockQC[c]] <= BlockView[new.NewestQC]
    BY <1>1, <1>2, <1>4, <1>7, <1>10
  <2>. QED BY Zenon, <1>1, <1>2, <2>1, <2>2
<1>. QED BY Zenon, <1>11, <1>12, <1>14, <1>15, <1>16 DEF SafetyInvariant, TimeoutsRespectLock

(* Every step of SafetyRules preserves SafetyInvariant.                    *)
LEMMA SafetyInvariantStep ==
    SafetyInvariant /\ [SafetyRulesNext]_srVars => SafetyInvariant'
<1> SUFFICES ASSUME SafetyInvariant, [SafetyRulesNext]_srVars
             PROVE  SafetyInvariant'
  OBVIOUS
<1>0. SafetyRulesTypeOK'
  BY Zenon, SafetyRulesTypeStep DEF SafetyInvariant
<1>1. CASE UNCHANGED srVars
  BY Zenon, <1>0, <1>1, CertificatesStayValid DEF SafetyInvariant, TimeoutsRespectLock, srVars
<1>2. ASSUME NEW r \in Honest, NEW b \in Blocks, ProduceVote(r, b)
      PROVE  SafetyInvariant'
  BY Zenon, <1>0, <1>2, SignVotePreservesInvariant DEF ProduceVote, ValidateProposal
<1>3. ASSUME NEW r \in Honest, NEW b \in Blocks, SignOwnProposal(r, b)
      PROVE  SafetyInvariant'
  BY Zenon, <1>0, <1>3, SignVotePreservesInvariant DEF SignOwnProposal
<1>4. ASSUME NEW r \in Honest, NEW v \in TimeoutViews, RepeatTimeout(r, v)
      PROVE  SafetyInvariant'
  <2>1. timeouts' = timeouts /\ safetyData' = safetyData /\ votes' = votes
    BY Zenon, <1>4 DEF RepeatTimeout, RepeatsTimeout, SafetyInvariant
  <2>. QED BY Zenon, <1>0, <2>1, CertificatesStayValid DEF SafetyInvariant, TimeoutsRespectLock
<1>5. ASSUME NEW r \in Honest, NEW v \in TimeoutViews, NEW qc \in Blocks, NEW tc,
             ProduceTimeout(r, v, qc, tc)
      PROVE  SafetyInvariant'
  BY Zenon, <1>0, <1>5, ProduceTimeoutPreservesInvariant
<1>. QED BY Zenon, <1>1, <1>2, <1>3, <1>4, <1>5 DEF SafetyRulesNext, SafetyRulesStep, ValidQCs

(* SafetyInvariant is an invariant of SafetyRules.                         *)
THEOREM SafetyInvariantHolds == SafetyRulesSpec => []SafetyInvariant
<1>1. SafetyRulesInit /\ SafetyRulesTypeOK => SafetyInvariant
  BY DEF SafetyRulesInit, SafetyInvariant, TimeoutsRespectLock
<1>. QED BY <1>1, SafetyInvariantStep, SafetyRulesTypeCorrect, PTL DEF SafetyRulesSpec
-----------------------------------------------------------------------------
(***************************************************************************)
(* Safety of consensus.                                                    *)
(***************************************************************************)
(* Two certified blocks other than the root have a common honest voter.    *)
LEMMA CommonVoter ==
    ASSUME NEW b \in Blocks, NEW c \in Blocks, b # Root, c # Root,
           ValidateQC(b), ValidateQC(c)
    PROVE  \E r \in Honest : <<r, b>> \in votes /\ <<r, c>> \in votes
<1>1. IsQuorum(Voters(b) \cup Byzantine) /\ IsQuorum(Voters(c) \cup Byzantine)
  BY Zenon DEF ValidateQC
<1>2. Voters(b) \in SUBSET Honest /\ Voters(c) \in SUBSET Honest
  BY Zenon DEF Voters
<1>3. Voters(b) \cap Voters(c) # {}
  BY Zenon, <1>1, <1>2, QuorumsShareHonestReplica
<1>. QED BY Zenon, <1>3 DEF Voters

(* The invariant implies that a view has at most one certified block.      *)
LEMMA InvariantImpliesUniqueCertificates ==
    ASSUME SafetyInvariant
    PROVE  AtMostOneCertifiedBlockPerView
<1> SUFFICES ASSUME NEW b \in Blocks, NEW c \in Blocks, ValidateQC(b), ValidateQC(c),
                    BlockView[b] = BlockView[c]
             PROVE  b = c
  BY Zenon DEF AtMostOneCertifiedBlockPerView, CertifiedBlocks, ValidQCs
<1>1. CASE b = Root \/ c = Root
  <2>1. \A d \in Blocks \ {Root} : BlockView[Root] < BlockView[d]
    BY Zenon, BlockTreeAssumption
  <2>2. \A d \in Blocks : BlockView[d] \in Nat
    BY Zenon, BlockTreeAssumption
  <2>3. Root \in Blocks
    BY Zenon, BlockTreeAssumption
  <2>. QED BY <1>1, <2>1, <2>2, <2>3
<1>2. CASE b # Root /\ c # Root
  <2>1. PICK r \in Honest : <<r, b>> \in votes /\ <<r, c>> \in votes
    BY Zenon, <1>2, CommonVoter
  <2>. QED BY Zenon, <2>1 DEF SafetyInvariant
<1>. QED BY Zenon, <1>1, <1>2

(* For each view, there can be at most one certified block, for every      *)
(* committee with less than a third of Byzantine weight (the theorem       *)
(* stated in the documentation of SafetyRules).                            *)
THEOREM UniqueCertificates == SafetyRulesSpec => []AtMostOneCertifiedBlockPerView
BY SafetyInvariantHolds, InvariantImpliesUniqueCertificates, PTL

(* Once a replica has voted, no later timeout of it ignores the QC it      *)
(* voted on.                                                               *)
THEOREM LockRespected == SafetyRulesSpec => []TimeoutsRespectLock
<1>1. SafetyInvariant => TimeoutsRespectLock
  BY Zenon DEF SafetyInvariant
<1>. QED BY <1>1, SafetyInvariantHolds, PTL

(* The root is an ancestor of every block.                                 *)
LEMMA RootIsAncestor == \A b \in Blocks : Root \in Ancestors[b]
<1> DEFINE Bad == {BlockView[b] : b \in {c \in Blocks : Root \notin Ancestors[c]}}
<1>1. SUFFICES ASSUME Bad # {} PROVE FALSE
  BY Zenon
<1>2. Bad \in SUBSET Nat
  BY Zenon, BlockTreeAssumption
<1>3. PICK n \in Bad : \A m \in Bad : n <= m
  <2>. HIDE DEF Bad
  <2>. QED BY <1>1, <1>2, SmallestView
<1>4. PICK b \in Blocks : Root \notin Ancestors[b] /\ BlockView[b] = n
  BY Zenon, <1>3
<1>5. b # Root
  BY Zenon, <1>4, AncestorsEquation
<1>6. Root \notin Ancestors[BlockQC[b]]
  BY Zenon, <1>4, <1>5, AncestorsEquation
<1>7. /\ BlockQC[b] \in Blocks
      /\ BlockView[b] \in Nat
      /\ BlockView[BlockQC[b]] \in Nat
      /\ BlockView[BlockQC[b]] < BlockView[b]
  BY Zenon, <1>5, BlockTreeAssumption
<1>8. BlockView[BlockQC[b]] \in Bad
  BY Zenon, <1>6, <1>7
<1>. QED BY <1>3, <1>4, <1>7, <1>8

(* A certified block has an honest voter, who checked its certificates.    *)
LEMMA CertifiedBlocksAreValid ==
    ASSUME SafetyInvariant, NEW c \in Blocks, c # Root, ValidateQC(c)
    PROVE  ValidCertificates(c)
<1>1. PICK r \in Honest : <<r, c>> \in votes
  BY Zenon, CommonVoter
<1>. QED BY Zenon, <1>1 DEF SafetyInvariant

(* The lock at work: above a finalized block b and its certified child d,  *)
(* every valid proposal builds on a certified block that is at least as    *)
(* new as b.                                                               *)
LEMMA ParentNotBelowFinalized ==
    ASSUME SafetyInvariant,
           NEW b \in Blocks, NEW d \in Blocks, NEW c \in Blocks,
           d # Root, BlockQC[d] = b, BlockView[d] = BlockView[b] + 1, ValidateQC(d),
           c # Root, ValidCertificates(c), BlockView[d] < BlockView[c]
    PROVE  /\ BlockView[b] <= BlockView[BlockQC[c]]
           /\ ValidateQC(BlockQC[c])
<1>2. ValidCertificates(c)
  BY Zenon
<1>3. /\ BlockQC[c] \in Blocks
      /\ BlockTC[c] \in OptionalTC
      /\ \A x \in Blocks : BlockView[x] \in Nat
  BY Zenon, BlockTreeAssumption
<1>4. ValidateQC(BlockQC[c])
  BY Zenon, <1>2 DEF ValidCertificates
<1>5. CASE BlockView[c] = BlockView[BlockQC[c]] + 1
  BY <1>3, <1>4, <1>5
<1>6. CASE BlockView[c] # BlockView[BlockQC[c]] + 1
  <2> DEFINE tc == BlockTC[c]
  <2>1. /\ tc # Nil
        /\ BlockView[c] = tc.View + 1
        /\ BlockView[BlockQC[c]] >= BlockView[tc.NewestQC]
        /\ ValidateTC(tc)
    BY Zenon, <1>2, <1>6 DEF ValidCertificates
  <2>2. tc.View \in Nat /\ tc.NewestQC \in Blocks
    <3>1. tc \in TimeoutCertificates
      BY Zenon, <1>3, <2>1 DEF OptionalTC
    <3>. QED BY Zenon, <3>1, BlockTreeAssumption DEF TimeoutCertificates
  <2>. HIDE DEF tc
  <2>3. IsQuorum(TimedOut(tc) \cup Byzantine) /\ IsQuorum(Voters(d) \cup Byzantine)
    BY Zenon, <2>1 DEF ValidateTC, ValidateQC
  <2>4. TimedOut(tc) \in SUBSET Honest /\ Voters(d) \in SUBSET Honest
    BY Zenon DEF TimedOut, Voters
  <2>5. TimedOut(tc) \cap Voters(d) # {}
    BY Zenon, <2>3, <2>4, QuorumsShareHonestReplica
  <2>6. PICK q \in Honest : q \in TimedOut(tc) /\ <<q, d>> \in votes
    BY Zenon, <2>4, <2>5 DEF Voters
  <2>7. PICK to \in timeouts : /\ to.SignerID = q
                               /\ to.View = tc.View
                               /\ BlockView[to.NewestQC] <= BlockView[tc.NewestQC]
    BY Zenon, <2>6 DEF TimedOut
  <2>8. to.NewestQC \in Blocks
    BY Zenon DEF SafetyInvariant, SafetyRulesTypeOK, TimeoutObjects
  <2>9. BlockView[d] <= to.View
    BY <1>3, <2>1, <2>2, <2>7
  <2>10. BlockView[b] <= BlockView[to.NewestQC]
    BY Zenon, <2>6, <2>7, <2>9 DEF SafetyInvariant, TimeoutsRespectLock
  <2>. QED BY SMTT(30), <1>3, <1>4, <2>1, <2>2, <2>7, <2>8, <2>10
<1>. QED BY Zenon, <1>5, <1>6

(* The invariant implies that certified blocks extend finalized ones.  The *)
(* proof takes a counterexample in the smallest view and finds another one *)
(* below it.                                                               *)
LEMMA InvariantImpliesFinality ==
    ASSUME SafetyInvariant
    PROVE  CertifiedExtendsFinalized
<1> SUFFICES ASSUME NEW b \in FinalizedBlocks, NEW e \in CertifiedBlocks,
                    BlockView[b] <= BlockView[e]
             PROVE  b \in Ancestors[e]
  BY Zenon DEF CertifiedExtendsFinalized
<1>1. e \in Blocks /\ ValidateQC(e)
  BY Zenon DEF CertifiedBlocks, ValidQCs
<1>2. CASE b = Root
  BY Zenon, <1>1, <1>2, RootIsAncestor
<1>3. CASE b # Root
  <2>1. PICK d \in CertifiedBlocks \ {Root} :
           BlockQC[d] = b /\ BlockView[d] = BlockView[BlockQC[d]] + 1 /\ BlockQC[d] \in CertifiedBlocks
    BY Zenon, <1>3 DEF FinalizedBlocks
  <2>2. /\ d \in Blocks /\ d # Root /\ ValidateQC(d)
        /\ b \in Blocks /\ ValidateQC(b)
        /\ BlockView[d] = BlockView[b] + 1
    BY Zenon, <2>1 DEF CertifiedBlocks, ValidQCs
  <2>3. \A x \in Blocks : BlockView[x] \in Nat /\ BlockQC[x] \in Blocks
    BY Zenon, BlockTreeAssumption
  <2> DEFINE Counterexample(c) == /\ ValidateQC(c)
                                  /\ BlockView[b] <= BlockView[c]
                                  /\ b \notin Ancestors[c]
             Bad == {BlockView[c] : c \in {x \in Blocks : Counterexample(x)}}
  <2>4. SUFFICES ASSUME Bad # {} PROVE FALSE
    BY Zenon, <1>1
  <2>5. Bad \in SUBSET Nat
    BY Zenon, <2>3
  <2>6. PICK n \in Bad : \A m \in Bad : n <= m
    <3>. HIDE DEF Bad
    <3>. QED BY Zenon, <2>4, <2>5, SmallestView
  <2>7. PICK c \in Blocks : Counterexample(c) /\ BlockView[c] = n
    BY Zenon, <2>6
  <2>8. \A x, y \in Blocks : ValidateQC(x) /\ ValidateQC(y) /\ BlockView[x] = BlockView[y] => x = y
    BY Zenon, InvariantImpliesUniqueCertificates DEF AtMostOneCertifiedBlockPerView, CertifiedBlocks, ValidQCs
  <2>9. b \in Ancestors[b] /\ b \in Ancestors[d]
    BY Zenon, <2>1, <2>2, AncestorsEquation
  <2>10. c # b /\ c # d
    BY Zenon, <2>7, <2>9
  <2>11. BlockView[d] < BlockView[c]
    BY <2>2, <2>3, <2>7, <2>8, <2>10
  <2>12. c # Root
    <3>1. BlockView[Root] < BlockView[b]
      BY Zenon, <1>3, <2>2, BlockTreeAssumption
    <3>. QED BY <2>2, <2>3, <2>7, <3>1
  <2>13. BlockView[b] <= BlockView[BlockQC[c]] /\ ValidateQC(BlockQC[c])
    BY Zenon, <2>1, <2>2, <2>7, <2>11, <2>12, CertifiedBlocksAreValid, ParentNotBelowFinalized
  <2>14. b \notin Ancestors[BlockQC[c]]
    BY Zenon, <2>7, <2>12, AncestorsEquation
  <2>15. BlockView[BlockQC[c]] \in Bad
    BY Zenon, <2>3, <2>7, <2>13, <2>14
  <2>16. BlockView[BlockQC[c]] < BlockView[c]
    BY Zenon, <2>12, BlockTreeAssumption
  <2>17. n <= BlockView[BlockQC[c]]
    <3>. HIDE DEF Bad
    <3>. QED BY Zenon, <2>6, <2>15
  <2>18. n = BlockView[c] /\ n \in Nat /\ BlockView[BlockQC[c]] \in Nat
    BY Zenon, <2>3, <2>7
  <2>. QED BY <2>16, <2>17, <2>18
<1>. QED BY Zenon, <1>2, <1>3

(* Every block certified in the view of a finalized block or later         *)
(* descends from it, for every committee with less than a third of         *)
(* Byzantine weight.                                                       *)
THEOREM Finality == SafetyRulesSpec => []CertifiedExtendsFinalized
BY SafetyInvariantHolds, InvariantImpliesFinality, PTL
==============================================================================
