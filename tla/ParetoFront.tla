---- MODULE ParetoFront ----
(***************************************************************************)
(* compare of a solution portfolio (internal/artifact/solution.go):         *)
(* validation of the scores, elimination of the variants that violate a     *)
(* constraint, dominance over the rest and the comparison that is stored.   *)
(* A score is a number of some unit, an ordinal label with its rank, a      *)
(* missing score, a label that says the constraint is violated, or prose.   *)
(***************************************************************************)
EXTENDS Integers, FiniteSets

CONSTANTS
    N,          \* the variants are 1 .. N, in the order they are compared in
    M,          \* the dimensions are 1 .. M, in the order they are listed in
    Polarity,   \* Dims -> 1 for higher_better, -1 for lower_better
    Units,      \* the units of the numeric scores
    Misread,    \* the units whose zero is read back in another one: "0ms" is zero mega-s
    ScoresOf    \* bound: Dims -> the scores variants have on a dimension

\* parsedScoreKind with the unit, and the texts that do not parse.
Kinds == Units \cup {"ordinal", "missing", "fail", "prose"}

\* The value of a numeric score, the rank of an ordinal one; for the others it tells
\* the texts apart (a missing score is the empty text, 0, or a dash, 1).
Score == [kind: Kinds, value: Int]

ASSUME SizesAssumption == N \in Nat \ {0} /\ M \in Nat \ {0}
ASSUME PolarityAssumption == Polarity \in [1 .. M -> {-1, 1}]
ASSUME ScoresAssumption ==
    /\ Units \cap {"ordinal", "missing", "fail", "prose"} = {} /\ Misread \subseteq Units
    /\ ScoresOf \in [1 .. M -> SUBSET Score]

VARIABLES
    pc,          \* "validate", "eliminate", "dominate", "store", "stored", "refused"
    scores,      \* variant -> dimension -> score
    policy,      \* missing_data_policy of the parity plan
    roles,       \* dimension -> role
    pending,     \* the (dimension, variant) visits left of the relative-worst pass
    eliminated,  \* variants out for a constraint
    front,       \* the computed Pareto front
    stored       \* the comparison written: [nonDominated, dominated]

vars == <<pc, scores, policy, roles, pending, eliminated, front, stored>>

Variants == 1 .. N
Dims     == 1 .. M
Policies == {"exclude", "explicit_abstain", "zero"}

Constraints == {dim \in Dims : roles[dim] = "constraint"}
Surviving   == Variants \ eliminated

\* scoreForDimension of a variant without a score.
Empty == [kind |-> "missing", value |-> 0]

\* isMissingScore
IsMissing(score) == score.kind = "missing"

\* parseComparableScore
Parses(score) == score.kind \in Units \cup {"ordinal"}

\* zeroFillScoreValues and renderZeroScore: a missing score becomes the zero of the
\* other score's kind, if that zero is then read back as one.
TakesZero(score) == Parses(score) /\ score.kind \notin Misread

\* compareDimensionValues and compareParsedScores: equal texts tie before anything is
\* parsed, scores of different kinds or units cannot be compared.
Status(missingDataPolicy, l, r) ==
    IF l = r THEN "comparable"
    ELSE IF IsMissing(l) \/ IsMissing(r)
         THEN CASE missingDataPolicy = "exclude" -> "excluded"
                [] missingDataPolicy = "zero" /\ (TakesZero(l) \/ TakesZero(r)) -> "comparable"
                [] OTHER -> "unresolved"
    ELSE IF Parses(l) /\ l.kind = r.kind THEN "comparable" ELSE "unresolved"

Statuses(a, b) == {Status(policy, scores[a][dim], scores[b][dim]) : dim \in Dims}

\* What a score counts for in a comparison: a missing one for zero.
Worth(score) == IF IsMissing(score) THEN 0 ELSE score.value

\* compareOrderedValues and orientComparison
Above(dim, l, r) == Polarity[dim] * Worth(l) > Polarity[dim] * Worth(r)

BetterOn(dim, a, b) ==
    /\ Status(policy, scores[a][dim], scores[b][dim]) = "comparable"
    /\ Above(dim, scores[a][dim], scores[b][dim])

\* Mutant: an unresolved dimension is skipped like an excluded one.
DominatesWhereResolved(a, b) ==
    /\ \E dim \in Dims : BetterOn(dim, a, b)
    /\ ~\E dim \in Dims : BetterOn(dim, b, a)

\* compareVariantPair: one dimension that cannot be resolved leaves the pair
\* incomparable, one that is excluded does not.
Dominates(a, b) ==
    /\ "unresolved" \notin Statuses(a, b)
    /\ \E dim \in Dims : BetterOn(dim, a, b)
    /\ ~\E dim \in Dims : BetterOn(dim, b, a)

----------------------------------------------------------------------------

\* The scores ValidateCompareInput refuses.
Unscored == policy = "explicit_abstain" /\ \E v \in Variants, dim \in Dims : IsMissing(scores[v][dim])

ExplicitViolations == {v \in Variants : \E dim \in Constraints : scores[v][dim].kind = "fail"}

Refuse ==
    /\ pc = "validate"
    /\ Unscored
    /\ pc' = "refused"
    /\ UNCHANGED <<scores, policy, roles, pending, eliminated, front, stored>>

\* eliminateConstraintViolations, first pass: explicit labels.
EliminateExplicit ==
    /\ pc = "validate"
    /\ ~Unscored
    /\ eliminated' = ExplicitViolations
    /\ pending' = Constraints \X (Variants \ ExplicitViolations)
    /\ pc' = "eliminate"
    /\ UNCHANGED <<scores, policy, roles, front, stored>>

\* The others a constraint compares a candidate with, missing data left out.
Rivals(dim, v, others) ==
    {w \in others \ {v} : /\ scores[w][dim] # Empty
                          /\ Status("exclude", scores[v][dim], scores[w][dim]) = "comparable"}

WorstOf(dim, v, others) ==
    /\ scores[v][dim] # Empty
    /\ Rivals(dim, v, others) # {}
    /\ \A w \in Rivals(dim, v, others) : Above(dim, scores[w][dim], scores[v][dim])

\* Mutant: variants already eliminated are compared with as well.
IsWorstEver(dim, v) == WorstOf(dim, v, Variants \ ExplicitViolations)

\* Worse than all the others still in.
IsWorst(dim, v) == WorstOf(dim, v, Surviving)

\* The loops go through the constraints, and for each through the variants.
Foremost(visit) ==
    \A other \in pending :
        visit[1] < other[1] \/ (visit[1] = other[1] /\ visit[2] <= other[2])

\* Second pass, one candidate: out if it is worse than all the others still in.
EliminateWorst ==
    /\ pc = "eliminate"
    /\ \E visit \in pending :
          /\ Foremost(visit)
          /\ pending' = pending \ {visit}
          /\ eliminated' = IF visit[2] \notin eliminated /\ IsWorst(visit[1], visit[2])
                           THEN eliminated \cup {visit[2]} ELSE eliminated
    /\ UNCHANGED <<pc, scores, policy, roles, front, stored>>

EliminationDone ==
    /\ pc = "eliminate"
    /\ pending = {}
    /\ pc' = "dominate"
    /\ UNCHANGED <<scores, policy, roles, pending, eliminated, front, stored>>

\* The variants dominance is computed over: all of them when none is left.
Admissible == IF Surviving = {} THEN Variants ELSE Surviving

\* computeParetoFront
ComputeFront ==
    /\ pc = "dominate"
    /\ front' = {v \in Admissible : ~\E w \in Admissible \ {v} : Dominates(w, v)}
    /\ pc' = "store"
    /\ UNCHANGED <<scores, policy, roles, pending, eliminated, stored>>

\* Mutant: one dimension that decided nothing is enough.
HonorCallerSomeIndecisive(caller) ==
    /\ caller # {}
    /\ \E dim \in Dims : \A a, b \in Admissible : a # b => Status(policy, scores[a][dim], scores[b][dim]) # "comparable"

\* The honesty fallback of ValidateCompareInput: no pair has a dimension both can
\* be compared on (so no dimension decided anything either).
HonorCaller(caller) ==
    /\ caller # {}
    /\ \A a, b \in Admissible : a # b => "comparable" \notin Statuses(a, b)

\* CompareSolutions stores the front, or the caller's set when nothing could be
\* compared, and lists the eliminated variants with the dominated ones the caller
\* has to explain.
Store ==
    /\ pc = "store"
    /\ \E caller \in SUBSET Variants :
          LET authoritative == IF HonorCaller(caller) THEN caller ELSE front
          IN  stored' = [nonDominated |-> authoritative,
                         dominated    |-> (Surviving \ authoritative) \cup eliminated]
    /\ pc' = "stored"
    /\ UNCHANGED <<scores, policy, roles, pending, eliminated, front>>

\* validateComparisonExplanationCoverage: the caller has not explained every variant
\* on and off the front.
RefuseUnexplained ==
    /\ pc = "store"
    /\ pc' = "refused"
    /\ UNCHANGED <<scores, policy, roles, pending, eliminated, front, stored>>

Init ==
    /\ pc = "validate"
    /\ scores \in {table \in [Variants -> [Dims -> UNION {ScoresOf[dim] : dim \in Dims}]] :
                      \A v \in Variants, dim \in Dims : table[v][dim] \in ScoresOf[dim]}
    /\ policy \in Policies
    /\ roles \in [Dims -> {"constraint", "target"}]
    /\ pending = {} /\ eliminated = {} /\ front = {}
    /\ stored = [nonDominated |-> {}, dominated |-> {}]

Next ==
    \/ Refuse \/ EliminateExplicit \/ EliminateWorst \/ EliminationDone
    \/ ComputeFront \/ Store \/ RefuseUnexplained

Spec == Init /\ [][Next]_vars

----------------------------------------------------------------------------
(* Properties.                                                             *)

\* Only an explicit failure of every variant leaves nobody: the relative-worst
\* pass compares with those still in, and never takes the last of them.
SomeoneSurvives == ExplicitViolations # Variants => Surviving # {}

\* The variants that lead up from v, from each one to those that dominate it.
Upward(v) ==
    {w \in Admissible :
        \A S \in SUBSET Admissible :
            (/\ v \in S
             /\ \A x \in S, y \in Admissible : Dominates(y, x) => y \in S) => w \in S}

Complete == \A v \in Variants, dim \in Dims : ~IsMissing(scores[v][dim])

\* The front speaks for everyone it leaves out.  When no score is missing one of its
\* variants dominates the one left out.  Under zero, where a missing score compares
\* with two kinds that do not compare with each other, dominance is not transitive:
\* still, going up from the one left out ends on the front.  Under "exclude", whose
\* comparisons skip different dimensions for different pairs, it may go in circles.
FrontSpeaksForAll ==
    pc \in {"store", "stored"} =>
        \A v \in Admissible \ front :
            /\ policy # "exclude" => Upward(v) \cap front # {}
            /\ Complete => \E w \in front : Dominates(w, v)

\* The comparison stored never presents as non-dominated an admissible variant
\* that another admissible one dominates, whatever set the caller sent.
NoDominatedOnFront ==
    pc = "stored" =>
        \A v \in stored.nonDominated \cap Admissible : ~\E w \in Admissible : Dominates(w, v)
====
