---- MODULE MCParetoFront ----
(* Every table of scores of two dimensions, the first better when lower,    *)
(* over two units, ordinal and other labels, and both texts of a missing    *)
(* score.                                                                   *)
EXTENDS ParetoFront

MCPolarity == [dim \in 1 .. M |-> IF dim = 1 THEN -1 ELSE 1]

MCScoresOf ==
    [dim \in 1 .. M |->
        IF dim = 1 THEN [kind: {"s"}, value: {-1, 1}] \cup [kind: {"ordinal"}, value: {0}]
                        \cup [kind: {"missing"}, value: {0, 1}]
        ELSE [kind: {"s"}, value: {1, 2}] \cup [kind: {"ms"}, value: {3}]
             \cup [kind: {"fail", "prose", "missing"}, value: {0}]]
====
