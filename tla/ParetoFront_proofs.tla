------------------------- MODULE ParetoFront_proofs -------------------------
(***************************************************************************)
(* Proofs about ParetoFront, for any number of variants and dimensions:     *)
(* elimination leaves somebody, no dominated variant is stored as           *)
(* non-dominated, and going up from a variant left out ends on the front.   *)
(***************************************************************************)
EXTENDS ParetoFront, FiniteSetTheorems, WellFoundedInduction, TLAPS

\* The shape of the state.
TypeOK ==
    /\ pc \in {"validate", "eliminate", "dominate", "store", "stored", "refused"}
    /\ scores \in [Variants -> [Dims -> Score]]
    /\ policy \in Policies
    /\ roles \in [Dims -> {"constraint", "target"}]
    /\ pending \in SUBSET (Dims \X Variants)
    /\ eliminated \in SUBSET Variants
    /\ front \in SUBSET Variants
    /\ stored \in [nonDominated: SUBSET Variants, dominated: SUBSET Variants]

\* The front as computeParetoFront computes it.
Undominated == {v \in Admissible : ~\E w \in Admissible \ {v} : Dominates(w, v)}

\* From the computation on, the front is that of the scores and the survivors.
FrontIsComputed == pc \in {"store", "stored"} => front = Undominated

\* The inductive invariant.
FrontInv ==
    /\ TypeOK
    /\ SomeoneSurvives
    /\ FrontIsComputed
    /\ NoDominatedOnFront

-----------------------------------------------------------------------------
(* Lemmas about dominance.                                                 *)

\* The order of the scores on one dimension, whatever its polarity.
LEMMA PolarityOrder ==
    ASSUME NEW p \in {-1, 1}, NEW x \in Int, NEW y \in Int, NEW z \in Int
    PROVE  /\ p * x \in Int
           /\ ~(p * x > p * x)
           /\ p * x > p * y => ~(p * y > p * x)
           /\ ~(p * y > p * x) /\ p * y > p * z => p * x > p * z
           /\ ~(p * y > p * x) /\ ~(p * z > p * y) => ~(p * z > p * x)
           /\ p * x > p * y /\ ~(p * z > p * y) => p * x > p * z
<1>1. CASE p = 1
  <2>1. p * x = x /\ p * y = y /\ p * z = z
    BY <1>1
  <2> QED BY <2>1
<1>2. CASE p = -1
  <2>1. p * x = -x /\ p * y = -y /\ p * z = -z
    BY <1>2
  <2> QED BY <2>1
<1> QED BY <1>1, <1>2

\* What a score counts for is an integer.
LEMMA WorthIsInt ==
    ASSUME TypeOK, NEW a \in Variants, NEW dim \in Dims
    PROVE  scores[a][dim] \in Score /\ Worth(scores[a][dim]) \in Int
  BY DEF TypeOK, Score, Worth

\* Comparing is symmetric; only exclude excludes a dimension, and only over a missing
\* score; without missing scores being comparable is transitive, for it takes scores
\* of the same kind and unit.
LEMMA StatusShapes ==
    ASSUME NEW pol, NEW x \in Score, NEW y \in Score, NEW z \in Score
    PROVE  /\ Status(pol, x, y) = "comparable" => Status(pol, y, x) = "comparable"
           /\ pol # "exclude" => Status(pol, x, y) \in {"comparable", "unresolved"}
           /\ ~IsMissing(x) /\ ~IsMissing(y) => Status(pol, x, y) \in {"comparable", "unresolved"}
           /\ (/\ ~IsMissing(x) /\ ~IsMissing(y) /\ ~IsMissing(z)
               /\ Status(pol, x, y) = "comparable" /\ Status(pol, y, z) = "comparable")
                 => Status(pol, x, z) = "comparable"
<1>1. \A u, w : u.kind = w.kind => (Parses(u) <=> Parses(w))
  BY DEF Parses
<1> HIDE DEF Parses, IsMissing, TakesZero
<1>2. Status(pol, x, y) = "comparable" => Status(pol, y, x) = "comparable"
  BY <1>1 DEF Status
<1>3. pol # "exclude" => Status(pol, x, y) \in {"comparable", "unresolved"}
  BY DEF Status
<1>4. ~IsMissing(x) /\ ~IsMissing(y) => Status(pol, x, y) \in {"comparable", "unresolved"}
  BY DEF Status
<1>5. (/\ ~IsMissing(x) /\ ~IsMissing(y) /\ ~IsMissing(z)
       /\ Status(pol, x, y) = "comparable" /\ Status(pol, y, z) = "comparable")
         => Status(pol, x, z) = "comparable"
  BY <1>1 DEF Status
<1> QED BY <1>2, <1>3, <1>4, <1>5

\* a is as good as b on every dimension and better on one, a missing score counting
\* for zero.  Unlike dominance this is transitive for any scores.
Outscores(a, b) ==
    /\ \A dim \in Dims : ~Above(dim, scores[b][dim], scores[a][dim])
    /\ \E dim \in Dims : Above(dim, scores[a][dim], scores[b][dim])

\* Nothing outscores itself.
LEMMA OutscoresIrreflexive ==
    ASSUME TypeOK, NEW a \in Variants
    PROVE  ~Outscores(a, a)
  BY DEF Outscores

\* Outscoring is transitive.
LEMMA OutscoresTransitive ==
    ASSUME TypeOK, NEW a \in Variants, NEW b \in Variants, NEW c \in Variants,
           Outscores(a, b), Outscores(b, c)
    PROVE  Outscores(a, c)
<1> DEFINE w(x, dim) == Worth(scores[x][dim])
<1>1. \A dim \in Dims : Polarity[dim] \in {-1, 1} /\ w(a, dim) \in Int /\ w(b, dim) \in Int /\ w(c, dim) \in Int
  BY WorthIsInt, PolarityAssumption DEF Dims
<1>2. \A dim \in Dims : /\ ~(Polarity[dim] * w(b, dim) > Polarity[dim] * w(a, dim))
                        /\ ~(Polarity[dim] * w(c, dim) > Polarity[dim] * w(b, dim))
  BY DEF Outscores, Above
<1>3. \A dim \in Dims : ~(Polarity[dim] * w(c, dim) > Polarity[dim] * w(a, dim))
  BY <1>1, <1>2, PolarityOrder
<1>4. PICK dim \in Dims : Polarity[dim] * w(a, dim) > Polarity[dim] * w(b, dim)
  BY DEF Outscores, Above
<1>5. Polarity[dim] * w(a, dim) > Polarity[dim] * w(c, dim)
  BY <1>1, <1>2, <1>4, PolarityOrder
<1> QED BY <1>3, <1>5 DEF Outscores, Above

\* Nothing dominates itself.
LEMMA DominatesIrreflexive ==
    ASSUME TypeOK, NEW a \in Variants
    PROVE  ~Dominates(a, a)
  BY DEF Dominates

\* Where no dimension is excluded, a dominating variant compares on every dimension
\* and outscores the other.
LEMMA DominatesOutscores ==
    ASSUME TypeOK, policy # "exclude" \/ Complete, NEW a \in Variants, NEW b \in Variants,
           Dominates(a, b)
    PROVE  /\ \A dim \in Dims : Status(policy, scores[a][dim], scores[b][dim]) = "comparable"
           /\ Outscores(a, b)
<1>1. \A dim \in Dims : Status(policy, scores[a][dim], scores[b][dim]) # "unresolved"
  BY DEF Dominates, Statuses
<1>2. \A dim \in Dims : Status(policy, scores[a][dim], scores[b][dim]) \in {"comparable", "unresolved"}
  BY WorthIsInt, StatusShapes DEF Complete
<1>3. \A dim \in Dims : /\ Status(policy, scores[a][dim], scores[b][dim]) = "comparable"
                        /\ Status(policy, scores[b][dim], scores[a][dim]) = "comparable"
  BY <1>1, <1>2, WorthIsInt, StatusShapes
<1> QED BY <1>3 DEF Dominates, BetterOn, Outscores

\* With no score missing, dominance is transitive.
LEMMA DominatesTransitive ==
    ASSUME TypeOK, Complete, NEW a \in Variants, NEW b \in Variants, NEW c \in Variants,
           Dominates(a, b), Dominates(b, c)
    PROVE  Dominates(a, c)
<1>1. /\ \A dim \in Dims : /\ Status(policy, scores[a][dim], scores[b][dim]) = "comparable"
                           /\ Status(policy, scores[b][dim], scores[c][dim]) = "comparable"
      /\ Outscores(a, b) /\ Outscores(b, c)
  BY DominatesOutscores
<1>2. Outscores(a, c)
  BY <1>1, OutscoresTransitive
<1>3. \A dim \in Dims : Status(policy, scores[a][dim], scores[c][dim]) = "comparable"
  BY <1>1, WorthIsInt, StatusShapes DEF Complete
<1> QED BY <1>2, <1>3 DEF Dominates, BetterOn, Statuses, Outscores

\* Going up from a variant reaches it, and whoever dominates a variant reached.
LEMMA UpwardClosed ==
    ASSUME NEW v \in Admissible
    PROVE  /\ v \in Upward(v)
           /\ \A x \in Upward(v), y \in Admissible : Dominates(y, x) => y \in Upward(v)
<1>1. v \in Upward(v)
  BY DEF Upward
<1>2. ASSUME NEW x \in Upward(v), NEW y \in Admissible, Dominates(y, x)
      PROVE  y \in Upward(v)
  BY <1>2 DEF Upward
<1> QED BY <1>1, <1>2

\* Going up ends: of the variants reached, take one with the fewest that outscore it.
LEMMA UpwardEnds ==
    ASSUME TypeOK, policy # "exclude" \/ Complete, NEW v \in Admissible
    PROVE  \E u \in Undominated : u \in Upward(v)
<1> DEFINE Better(x) == {y \in Admissible : Outscores(y, x)}
           Family == {Better(x) : x \in Upward(v)}
<1>1. Admissible \subseteq Variants /\ Upward(v) \subseteq Admissible
  BY DEF TypeOK, Admissible, Surviving, Upward
<1>2. IsFiniteSet(Variants)
  BY SizesAssumption, FS_Interval DEF Variants
<1>3. IsWellFoundedOn(StrictSubsetOrdering(Variants), SUBSET Variants)
  BY <1>2, FS_StrictSubsetOrderingWellFounded, FS_FiniteSubsetsOfFinite
<1>4. Family \subseteq SUBSET Variants /\ Family # {}
  BY <1>1, UpwardClosed
<1>5. \E m \in Family : \A n \in Family : <<n, m>> \notin StrictSubsetOrdering(Variants)
  <2> HIDE DEF Family
  <2> QED BY <1>3, <1>4, WFMin
<1>6. PICK u \in Upward(v) :
         \A x \in Upward(v) : <<Better(x), Better(u)>> \notin StrictSubsetOrdering(Variants)
  BY <1>5
<1>7. u \in Variants /\ u \in Admissible
  BY <1>1
<1>8. ASSUME NEW y \in Admissible, Dominates(y, u)
      PROVE  FALSE
  <2>0. y \in Variants /\ y \in Upward(v)
    BY <1>1, <1>6, <1>8, UpwardClosed
  <2>1. Outscores(y, u)
    BY <1>7, <1>8, <2>0, DominatesOutscores
  <2>2. Better(y) \subseteq Better(u)
    <3> SUFFICES ASSUME NEW z \in Admissible, Outscores(z, y) PROVE Outscores(z, u)
      OBVIOUS
    <3> QED BY <1>1, <1>7, <2>0, <2>1, OutscoresTransitive
  <2>3. y \in Better(u) /\ y \notin Better(y)
    BY <2>0, <2>1, OutscoresIrreflexive
  <2>4. Better(y) \in SUBSET Variants /\ Better(u) \in SUBSET Variants
    BY <1>1
  <2>5. <<Better(y), Better(u)>> \in StrictSubsetOrdering(Variants)
    <3> HIDE DEF Better
    <3>1. Better(y) # Better(u)
      BY <2>3
    <3> QED BY <3>1, <2>2, <2>4 DEF StrictSubsetOrdering
  <2> QED BY <1>6, <2>0, <2>5
<1> QED BY <1>6, <1>7, <1>8 DEF Undominated

\* With no score missing, whoever is reached going up from a variant dominates it.
LEMMA UpwardDominates ==
    ASSUME TypeOK, Complete, NEW v \in Admissible, NEW u \in Upward(v), u # v
    PROVE  Dominates(u, v)
<1> DEFINE S == {v} \cup {y \in Admissible : Dominates(y, v)}
<1>1. Admissible \subseteq Variants
  BY DEF TypeOK, Admissible, Surviving
<1>2. \A x \in S, y \in Admissible : Dominates(y, x) => y \in S
  BY <1>1, DominatesTransitive
<1>3. v \in S /\ S \in SUBSET Admissible
  OBVIOUS
<1> HIDE DEF S
<1>4. u \in S
  BY <1>2, <1>3 DEF Upward
<1> QED BY <1>4 DEF S

-----------------------------------------------------------------------------
(* The invariant is preserved.                                             *)

\* What the steps after the scores are read leave alone decides dominance.
LEMMA DominanceKept ==
    ASSUME UNCHANGED <<scores, policy>>
    PROVE  \A a, b : Dominates(a, b)' <=> Dominates(a, b)
  BY DEF Dominates, BetterOn, Statuses

\* Where no pair has a comparable dimension nobody dominates anybody, so the
\* caller's set may be honoured.
LEMMA HonoredIsUndominated ==
    ASSUME TypeOK, NEW caller, HonorCaller(caller),
           NEW v \in Admissible, NEW w \in Admissible
    PROVE  ~Dominates(w, v)
<1>1. w \in Variants
  BY DEF TypeOK, Admissible, Surviving
<1>2. CASE w = v
  BY <1>1, <1>2, DominatesIrreflexive
<1>3. CASE w # v
  <2>1. "comparable" \notin Statuses(w, v)
    BY <1>3 DEF HonorCaller
  <2> QED BY <2>1 DEF Dominates, BetterOn, Statuses
<1> QED BY <1>2, <1>3

\* Init establishes the invariant: somebody is compared.
LEMMA FrontInitial == Init => FrontInv
<1> SUFFICES ASSUME Init PROVE FrontInv
  OBVIOUS
<1>1. TypeOK
  <2>1. scores \in [Variants -> [Dims -> Score]]
    <3>1. PICK T : T = UNION {ScoresOf[dim] : dim \in Dims}
      OBVIOUS
    <3>2. T \subseteq Score
      BY <3>1, ScoresAssumption DEF Dims
    <3>3. scores \in [Variants -> [Dims -> T]]
      BY <3>1 DEF Init
    <3> QED BY <3>2, <3>3
  <2> QED BY <2>1 DEF Init, TypeOK
<1>2. SomeoneSurvives
  <2>1. 1 \in Variants
    BY SizesAssumption DEF Variants
  <2>2. Surviving = Variants
    BY DEF Init, Surviving
  <2> QED BY <2>1, <2>2 DEF SomeoneSurvives
<1> QED BY <1>1, <1>2 DEF Init, FrontInv, FrontIsComputed, NoDominatedOnFront

\* Every step keeps the types.
LEMMA FrontTypes == TypeOK /\ [Next]_vars => TypeOK'
<1> SUFFICES ASSUME TypeOK, [Next]_vars PROVE TypeOK'
  OBVIOUS
<1> USE DEF TypeOK
<1>1. CASE Refuse
  BY <1>1 DEF Refuse
<1>2. CASE EliminateExplicit
  BY <1>2 DEF EliminateExplicit, ExplicitViolations, Constraints
<1>3. CASE EliminateWorst
  BY <1>3 DEF EliminateWorst
<1>4. CASE EliminationDone
  BY <1>4 DEF EliminationDone
<1>5. CASE ComputeFront
  <2>1. Admissible \in SUBSET Variants
    BY DEF Admissible, Surviving
  <2> QED BY <1>5, <2>1 DEF ComputeFront
<1>6. CASE Store
  BY <1>6 DEF Store, Surviving
<1>7. CASE RefuseUnexplained
  BY <1>7 DEF RefuseUnexplained
<1>8. CASE UNCHANGED vars
  BY <1>8 DEF vars
<1> QED BY <1>1, <1>2, <1>3, <1>4, <1>5, <1>6, <1>7, <1>8 DEF Next

\* Every step leaves somebody, if anybody passes the explicit labels: the one
\* taken by the relative-worst pass is worse than a rival that is still in.
LEMMA SurvivorKept == FrontInv /\ [Next]_vars => SomeoneSurvives'
<1> SUFFICES ASSUME FrontInv, [Next]_vars, ExplicitViolations' # Variants
             PROVE  Surviving' # {}
  BY DEF SomeoneSurvives
<1>0. UNCHANGED <<scores, roles>>
  BY DEF Next, Refuse, EliminateExplicit, EliminateWorst, EliminationDone, ComputeFront, Store, RefuseUnexplained, vars
<1>1. ExplicitViolations' = ExplicitViolations
  BY <1>0 DEF ExplicitViolations, Constraints
<1>2. Surviving # {}
  BY <1>1 DEF FrontInv, SomeoneSurvives
<1>3. CASE EliminateExplicit
  <2>1. Surviving' = Variants \ ExplicitViolations
    BY <1>3 DEF EliminateExplicit, Surviving
  <2>2. ExplicitViolations \subseteq Variants
    BY DEF ExplicitViolations
  <2> QED BY <1>1, <2>1, <2>2
<1>4. CASE EliminateWorst
  <2>1. PICK visit \in pending :
           eliminated' = IF visit[2] \notin eliminated /\ IsWorst(visit[1], visit[2])
                         THEN eliminated \cup {visit[2]} ELSE eliminated
    BY <1>4 DEF EliminateWorst
  <2>2. CASE eliminated' = eliminated
    BY <1>2, <2>2 DEF Surviving
  <2>3. CASE IsWorst(visit[1], visit[2]) /\ eliminated' = eliminated \cup {visit[2]}
    <3>1. \E w \in Surviving : w # visit[2]
      BY <2>3 DEF IsWorst, WorstOf, Rivals
    <3> QED BY <2>3, <3>1 DEF Surviving
  <2> QED BY <2>1, <2>2, <2>3
<1>5. CASE UNCHANGED eliminated
  BY <1>2, <1>5 DEF Surviving
<1> QED BY <1>3, <1>4, <1>5 DEF Next, Refuse, EliminationDone, ComputeFront, Store, RefuseUnexplained, vars

\* Every step keeps the front the one of the scores, and what is stored honest.
LEMMA FrontKept == FrontInv /\ [Next]_vars => FrontIsComputed' /\ NoDominatedOnFront'
<1> SUFFICES ASSUME FrontInv, [Next]_vars PROVE FrontIsComputed' /\ NoDominatedOnFront'
  OBVIOUS
<1>0. TypeOK
  BY DEF FrontInv
<1>1. UNCHANGED <<scores, policy>>
  BY DEF Next, Refuse, EliminateExplicit, EliminateWorst, EliminationDone, ComputeFront, Store, RefuseUnexplained, vars
<1>2. ASSUME UNCHANGED eliminated
      PROVE  Admissible' = Admissible /\ Undominated' = Undominated
  <2>1. Admissible' = Admissible
    BY <1>2 DEF Admissible, Surviving
  <2> QED BY <2>1, <1>1, DominanceKept DEF Undominated
<1>3. CASE Refuse \/ EliminateExplicit \/ EliminateWorst \/ EliminationDone \/ RefuseUnexplained
  <2>1. pc' \notin {"store", "stored"}
    BY <1>3 DEF Refuse, EliminateExplicit, EliminateWorst, EliminationDone, RefuseUnexplained
  <2> QED BY <2>1 DEF FrontIsComputed, NoDominatedOnFront
<1>4. CASE ComputeFront
  <2>1. front' = Undominated /\ pc' = "store" /\ UNCHANGED eliminated
    BY <1>4 DEF ComputeFront, Undominated
  <2> QED BY <1>2, <2>1 DEF FrontIsComputed, NoDominatedOnFront
<1>5. CASE Store
  <2>1. PICK caller \in SUBSET Variants :
          stored'.nonDominated = IF HonorCaller(caller) THEN caller ELSE front
    BY <1>5 DEF Store
  <2>2. pc = "store" /\ UNCHANGED <<eliminated, front>>
    BY <1>5 DEF Store
  <2>3. front = Undominated
    BY <2>2 DEF FrontInv, FrontIsComputed
  <2>4. ASSUME NEW v \in stored'.nonDominated, v \in Admissible, NEW w \in Admissible
        PROVE  ~Dominates(w, v)
    <3>1. CASE HonorCaller(caller)
      BY <1>0, <2>4, <3>1, HonoredIsUndominated
    <3>2. CASE ~HonorCaller(caller)
      <4>1. v \in Undominated /\ v \in Variants
        BY <1>0, <2>1, <2>3, <2>4, <3>2 DEF TypeOK
      <4> QED BY <1>0, <4>1, DominatesIrreflexive DEF Undominated
    <3> QED BY <3>1, <3>2
  <2>5. NoDominatedOnFront'
    BY <1>1, <1>2, <2>2, <2>4, DominanceKept DEF NoDominatedOnFront
  <2> QED BY <1>2, <2>2, <2>3, <2>5 DEF FrontIsComputed
<1>6. CASE UNCHANGED vars
  <2>1. UNCHANGED <<pc, eliminated, front, stored>>
    BY <1>6 DEF vars
  <2>2. FrontIsComputed'
    BY <1>2, <2>1 DEF FrontInv, FrontIsComputed
  <2>3. NoDominatedOnFront'
    BY <1>1, <1>2, <2>1, DominanceKept DEF FrontInv, NoDominatedOnFront
  <2> QED BY <2>2, <2>3
<1> QED BY <1>3, <1>4, <1>5, <1>6 DEF Next

-----------------------------------------------------------------------------
(* The theorems.                                                           *)

\* The elimination, the computed front and the stored comparison of compare
\* are sound in every reachable state.
THEOREM FrontSound == Spec => []FrontInv
<1>1. Init => FrontInv
  BY FrontInitial
<1>2. FrontInv /\ [Next]_vars => FrontInv'
  BY FrontTypes, SurvivorKept, FrontKept DEF FrontInv
<1> QED BY <1>1, <1>2, PTL DEF Spec

\* The relative-worst pass of eliminateConstraintViolations never takes the
\* last variant: only an explicit failure of all of them leaves nobody.
THEOREM EliminationLeavesSomeone == Spec => []SomeoneSurvives
<1>1. FrontInv => SomeoneSurvives
  BY DEF FrontInv
<1> QED BY <1>1, FrontSound, PTL

\* What CompareSolutions stores never presents a dominated variant as
\* non-dominated, whatever set the caller sent.
THEOREM StoredFrontIsHonest == Spec => []NoDominatedOnFront
<1>1. FrontInv => NoDominatedOnFront
  BY DEF FrontInv
<1> QED BY <1>1, FrontSound, PTL

\* Going up from a variant that computeParetoFront leaves out, from each one to those
\* that dominate it, ends on the front unless "exclude" skips dimensions; and with no
\* score missing some variant on the front dominates it.
THEOREM FrontCoversAll == Spec => []FrontSpeaksForAll
<1>1. FrontInv => FrontSpeaksForAll
  <2> SUFFICES ASSUME FrontInv, pc \in {"store", "stored"}, NEW v \in Admissible \ front
               PROVE  /\ policy # "exclude" => Upward(v) \cap front # {}
                      /\ Complete => \E w \in front : Dominates(w, v)
    BY DEF FrontSpeaksForAll
  <2>1. front = Undominated /\ TypeOK
    BY DEF FrontInv, FrontIsComputed
  <2>2. policy # "exclude" \/ Complete => \E u \in front : u \in Upward(v)
    BY <2>1, UpwardEnds
  <2>3. Complete => \E u \in front : Dominates(u, v)
    BY <2>1, <2>2, UpwardDominates
  <2> QED BY <2>2, <2>3
<1> QED BY <1>1, FrontSound, PTL
=============================================================================
