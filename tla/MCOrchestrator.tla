--------------------------- MODULE MCOrchestrator ----------------------------
(***************************************************************************)
(* Small instances of Orchestrator for TLC, with the workflow mvp1.        *)
(***************************************************************************)
EXTENDS Orchestrator, TLC

Mvp1 == ("frame" :> "execute") @@ ("execute" :> "measure") @@ ("measure" :> "terminal")

=============================================================================
