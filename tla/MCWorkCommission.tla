-------------------------- MODULE MCWorkCommission ---------------------------
(***************************************************************************)
(* Small instances of WorkCommission for TLC.                              *)
(***************************************************************************)
EXTENDS WorkCommission, TLC

CONSTANTS c1, c2, c3, r1, r2, dec, prob, pathA, pathB, pathC

Base ==
    [decision |-> dec, problem |-> prob, dependsOn |-> {}, repo |-> "repo",
     lockset |-> {}, origin |-> "create_from_plan", validUntil |-> 1, envelopeUntil |-> 0,
     projection |-> "local_only", delivery |-> "workspace_patch_manual"]

\* pathA is a directory pattern that covers pathB.
DirectoryOverlap ==
    {<<p, p>> : p \in {pathA, pathB, pathC}} \union {<<pathA, pathB>>, <<pathB, pathA>>}

\* c1 and c2 collide; c3 waits for c1 and collides with neither.  The guard on
\* siblings applies to c1 and races with the creation of the others.
LocksPayload ==
    (c1 :> [Base EXCEPT !.lockset = {pathA}, !.origin = "create_from_decision"]) @@
    (c2 :> [Base EXCEPT !.lockset = {pathB}]) @@
    (c3 :> [Base EXCEPT !.lockset = {pathC}, !.dependsOn = {c1}])

\* c1 is sent to create by a caller and runs under an autonomy envelope that
\* ends before the commission does; c2 must publish externally.
GatesPayload ==
    (c1 :> [Base EXCEPT !.lockset = {pathA}, !.validUntil = 3, !.envelopeUntil = 2,
                        !.delivery = "workspace_patch_auto_on_pass",
                        !.origin = "create"]) @@
    (c2 :> [Base EXCEPT !.lockset = {pathB}, !.projection = "external_required",
                        !.origin = "create_from_decision"])

RunnerSymmetry == Permutations({r1, r2})

=============================================================================
