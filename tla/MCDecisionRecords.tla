---- MODULE MCDecisionRecords ----
(* Two sessions, two decision ids, one framed problem and one more id for   *)
(* the problem a reopen frames.                                             *)
EXTENDS DecisionRecords, TLC

CONSTANTS c1, f1, s1, s2, d1, d2, p1, p2

MCVerifyAfter == [c \in Claims |-> IF c = c1 THEN 2 ELSE 0]

MCDecidedFor == [d \in {d1} |-> p1]


Interchangeable == Permutations({s1, s2})
====
