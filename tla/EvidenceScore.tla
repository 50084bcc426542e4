---- MODULE EvidenceScore ----
(***************************************************************************)
(* Effective reliability of evidence (internal/reff/reff.go and            *)
(* assurance.go, internal/artifact/claim_status.go).  Scores are the       *)
(* code's two-decimal floats times 100; a date is a clock tick and 0 is    *)
(* the empty valid_until, which never expires.                             *)
(***************************************************************************)
EXTENDS Integers, FiniteSets

Verdicts == {"supports", "weakens", "refutes"}

\* evidence_type is any string a caller gives; these are the ones the code tells apart,
\* "test" for every other.
EvidenceKinds == {"measurement", "test", "explicit_measure", "partial_measure", "attached"}

ClaimStatuses == {"unverified", "supported", "weakened", "refuted"}

\* ParseValidUntil and expiry.Before(now): the empty date parses to nothing.
Expired(validUntil, now) == validUntil # 0 /\ validUntil < now

\* VerdictToScore, for the verdicts the store keeps.
VerdictToScore(verdict) ==
    CASE verdict = "supports" -> 100
      [] verdict = "refutes"  -> 0
      [] OTHER                -> 50

\* TypedVerdictToScore: what a type of evidence is worth whatever its verdict.
TypedVerdictToScore(type, verdict) ==
    CASE type = "explicit_measure" -> 80
      [] type = "partial_measure"  -> 50
      [] type = "attached"         -> IF verdict = "refutes" THEN 0 ELSE 70
      [] OTHER                     -> VerdictToScore(verdict)

CLPenalty(cl) ==
    CASE cl = 3 -> 0
      [] cl = 2 -> 10
      [] cl = 1 -> 40
      [] OTHER  -> 90

\* ScoreTypedEvidence: expired evidence is worth 0.1 whatever it says.  The cap for
\* simulated evidence is left out: it lowers a score to 0.5 at the least.
ScoreEvidence(i, now) ==
    IF Expired(i.validUntil, now) THEN 10
    ELSE LET net == TypedVerdictToScore(i.type, i.verdict) - CLPenalty(i.cl)
         IN  IF net < 0 THEN 0 ELSE net

\* The canonical spelling a measurement's verdict is stored under.
CanonicalStoredVerdict(verdict) ==
    CASE verdict = "accepted" -> "supports"
      [] verdict = "partial"  -> "weakens"
      [] verdict = "failed"   -> "refutes"
      [] OTHER                -> verdict

\* ComputeWLNKSummary: the weakest link over the evidence not superseded, 100
\* when every item is at least that strong.
REff(items, now) ==
    LET scores == {ScoreEvidence(i, now) : i \in items} \cup {100}
    IN  CHOOSE least \in scores : \A other \in scores : least <= other

\* ClaimStatusFromPredictionMeasureMatch and evidenceVerdictFromClaimStatus: the
\* verdict a measurement records for a claim it names as met, as not met, or both.
MeasuredVerdict(met, notMet) ==
    IF met /\ notMet THEN "weakens" ELSE IF met THEN "supports" ELSE "refutes"

\* claimStatusFromEvidenceItems
ClaimStatusFromVerdicts(verdicts) ==
    IF verdicts = {} THEN "unverified"
    ELSE IF {"supports", "refutes"} \subseteq verdicts THEN "weakened"
    ELSE IF "refutes" \in verdicts THEN "refuted"
    ELSE IF "weakens" \in verdicts THEN "weakened"
    ELSE "supported"
====
