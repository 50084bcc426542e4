-------------------------- MODULE MCHarnessDelivery --------------------------
(* Two commissions, the second after the first.  The first may touch both  *)
(* files, the second only the new one: a change of the tracked file is out  *)
(* of its scope.                                                            *)
EXTENDS HarnessDelivery, TLC

CONSTANTS c1, c2, kept, new

MCSelected == <<c1, c2>>
MCDependsOn == c1 :> {} @@ c2 :> {c1}
MCScope == c1 :> {kept, new} @@ c2 :> {new}
=============================================================================
