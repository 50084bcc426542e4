--------------------------- MODULE CommissionLocks ---------------------------
(***************************************************************************)
(* What the WorkCommission store promises to the runners that execute      *)
(* commissions, with every detail of how it keeps the promise left out.    *)
(*                                                                         *)
(* A commission is idle, held by an execution, or done.  It may be held    *)
(* only while nothing that overlaps it in the repository is held, and only *)
(* after everything it depends on is done.  Done is for ever.              *)
(*                                                                         *)
(* WorkCommission.tla is shown to implement this module, by TLC on small   *)
(* instances and by TLAPS for every value of the constants.                *)
(***************************************************************************)

CONSTANTS
    Commission,     \* WorkCommission ids
    Prerequisites,  \* [Commission -> SUBSET Commission]: depends_on
    Overlap         \* pairs of commissions whose repo and locksets collide

VARIABLES
    held,   \* commissions some execution owns at the moment
    done    \* commissions that were executed to completion

vars == <<held, done>>

Init ==
    /\ held = {}
    /\ done = {}

\* A commission becomes held: nothing in its way, everything before it done.
Acquire(c) ==
    /\ c \notin held \union done
    /\ Prerequisites[c] \subseteq done
    /\ \A h \in held : <<c, h>> \notin Overlap
    /\ held' = held \union {c}
    /\ UNCHANGED done

\* Execution ends without completing (blocked, failed, requeued, cancelled).
Release(c) ==
    /\ c \in held
    /\ held' = held \ {c}
    /\ UNCHANGED done

\* Execution ends with local evidence accepted.
Finish(c) ==
    /\ c \in held
    /\ held' = held \ {c}
    /\ done' = done \union {c}

Next == \E c \in Commission : Acquire(c) \/ Release(c) \/ Finish(c)

Spec == Init /\ [][Next]_vars

=============================================================================
