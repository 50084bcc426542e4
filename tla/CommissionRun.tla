---------------------------- MODULE CommissionRun ----------------------------
(***************************************************************************)
(* A commission on its way through one Open-Sleigh runtime: intake claims  *)
(* it in Haft and seeds a ticket, the orchestrator dispatches a session    *)
(* per phase, the agent worker runs the session in the commission's        *)
(* workspace, and the orchestrator reports the outcome to Haft call by     *)
(* call.                                                                   *)
(*                                                                         *)
(* Orchestrator has the timers and mailboxes that keep a ticket to one     *)
(* session; here that session is one record.  WorkCommission has Haft's    *)
(* rules; here the states an operator has to decide on are one, "blocked". *)
(* The operator requeues and cancels in Haft between any two steps, and    *)
(* any call may fail: without effect, or with its answer lost.             *)
(***************************************************************************)
EXTENDS Naturals, Sequences, FiniteSets

CONSTANTS
    Commission,
    HumanGated,   \* phases with a human gate (CommissionApproved: execute)
    HookPaths,    \* paths the after_run hook may change
    MaxClaims,    \* max_claims of the source
    MaxTurns,     \* max_turns of execute
    MaxFaults,    \* bound: failures of Haft, hooks, git, agent and runtime
    MaxActs       \* bound: what the operator does

\* Paths of the scope, other paths, the runtime's .tmp.
Paths == {"scoped", "other", "tmp"}

ASSUME RunAssumption ==
    /\ HumanGated \subseteq {"preflight", "frame", "execute", "measure"}
    /\ HookPaths \subseteq Paths
    /\ MaxClaims \in Nat \ {0} /\ MaxTurns \in Nat \ {0}
    /\ MaxFaults \in Nat /\ MaxActs \in Nat

VARIABLES
    haft,     \* the commission's state in Haft
    ticket,   \* its ticket in the local tracker: none, todo or closed
    intake,   \* the poller's replenish: the commissions left to claim, those claimed
    sess,     \* the session the orchestrator has for it
    ws,       \* its workspace
    faults, acts

vars == <<haft, ticket, intake, sess, ws, faults, acts>>

Executing == {"preflighting", "running"}

\* dir: no entries; entries and no .git; .git and no commit; a clone.
\* changed: what differs from the commit that is checked out.  left: those of
\* them that were changed before the last preflight began.  moved: all that
\* changed outside the scope are files renamed, and staged, to a path inside it.
\* hooked: the session's after_run hook has changed a path outside the scope.
Empty == [dir |-> "empty", changed |-> {}, left |-> {}, moved |-> FALSE, hooked |-> FALSE]

NoSession == [pc |-> "none"]

\* dispatch: entry tells whether the workflow state is at the entry phase.
Dispatched(phase, entry) ==
    [pc |-> "setup", phase |-> phase, entry |-> entry, turn |-> 0, result |-> "none"]

\* The advance map of mvp1r, the workflow of commissions.
NextPhase ==
    [preflight |-> "frame", frame |-> "execute", execute |-> "measure", measure |-> "terminal"]

Idle == [pc |-> "idle", left |-> {}, claimed |-> {}]

Fault  == faults < MaxFaults /\ faults' = faults + 1
NoFault == UNCHANGED faults

Init ==
    /\ haft = [c \in Commission |-> "queued"]
    /\ ticket = [c \in Commission |-> "none"]
    /\ intake = Idle
    /\ sess = [c \in Commission |-> NoSession]
    /\ ws = [c \in Commission |-> Empty]
    /\ faults = 0 /\ acts = 0

-----------------------------------------------------------------------------
(* Intake.                                                                 *)

ListRunnable ==
    /\ intake.pc = "idle"
    /\ \E c \in Commission : haft[c] = "queued"
    /\ intake' = [pc |-> "claim", left |-> {c \in Commission : haft[c] = "queued"}, claimed |-> {}]
    /\ UNCHANGED <<haft, ticket, sess, ws, faults, acts>>

ClaimsDone == intake.left = {} \/ Cardinality(intake.claimed) = MaxClaims

\* claim_for_preflight of the next commission; one that is not runnable any more
\* is skipped.
ClaimCommission(c) ==
    /\ intake.pc = "claim"
    /\ ~ClaimsDone
    /\ c \in intake.left
    /\ IF haft[c] = "queued"
         THEN /\ haft' = [haft EXCEPT ![c] = "preflighting"]
              /\ intake' = [intake EXCEPT !.left = @ \ {c}, !.claimed = @ \cup {c}]
         ELSE /\ intake' = [intake EXCEPT !.left = @ \ {c}]
              /\ UNCHANGED haft
    /\ UNCHANGED <<ticket, sess, ws, faults, acts>>

\* Any other error ends the pass; what it has claimed is not seeded.
ClaimError(c) ==
    /\ intake.pc = "claim"
    /\ ~ClaimsDone
    /\ c \in intake.left
    /\ Fault
    /\ haft' \in {haft} \cup (IF haft[c] = "queued" THEN {[haft EXCEPT ![c] = "preflighting"]} ELSE {})
    /\ intake' = Idle
    /\ UNCHANGED <<ticket, sess, ws, acts>>

\* seed_claimed: a ticket that is there already is overwritten.
SeedClaimed ==
    /\ intake.pc = "claim"
    /\ ClaimsDone
    /\ ticket' = [c \in Commission |-> IF c \in intake.claimed THEN "todo" ELSE ticket[c]]
    /\ intake' = Idle
    /\ UNCHANGED <<haft, sess, ws, faults, acts>>

-----------------------------------------------------------------------------
(* Dispatch.                                                               *)

\* What changed so far is, for a new preflight, the work of an earlier attempt.
Begin(c, phase, entry) ==
    /\ sess' = [sess EXCEPT ![c] = Dispatched(phase, entry)]
    /\ ws' = IF phase = "preflight" THEN [ws EXCEPT ![c].left = ws[c].changed] ELSE ws

\* A candidate of the poll that is not claimed by a session, a gate or a retry.
Dispatch(c) ==
    /\ ticket[c] = "todo"
    /\ sess[c] = NoSession
    /\ Begin(c, "preflight", TRUE)
    /\ UNCHANGED <<haft, ticket, intake, faults, acts>>

\* The workflow state of a retried session is at the entry phase again.
RetryTimer(c) ==
    /\ sess[c].pc = "retry"
    /\ IF ticket[c] = "todo" THEN Begin(c, sess[c].phase, TRUE)
       ELSE sess' = [sess EXCEPT ![c] = NoSession] /\ UNCHANGED ws
    /\ UNCHANGED <<haft, ticket, intake, faults, acts>>

Move(c, pc) == sess' = [sess EXCEPT ![c].pc = pc]

\* The cast of the worker: schedule_retry, for all but the terminal errors.
Retry(c) == Move(c, "retry")

-----------------------------------------------------------------------------
(* The worker.                                                             *)

\* Mutant: a reused workspace is taken as it is.
ResetKeepsChanges(w) == w

\* reset_git_workspace: nothing is reset where git has no commit.
Reset(w) ==
    IF w.dir = "clone" THEN [w EXCEPT !.changed = {}, !.left = {}, !.moved = FALSE] ELSE w

\* prepare_workspace: after_create runs in an empty directory only, and only a
\* preflight resets what it finds.
Prepared(w, phase) ==
    CASE w.dir = "empty"      -> [Empty EXCEPT !.dir = "clone"]
      [] w.dir # "empty" /\ phase = "preflight" -> Reset(w)
      [] OTHER                -> w

\* What edits leave in a workspace: some paths are changed, changes of others
\* are taken back.
Edited(w, edits, undone) ==
    [w EXCEPT !.changed = (@ \ undone) \cup edits,
              !.left = @ \ (undone \cup edits),
              !.moved = @ /\ "other" \notin edits /\ {"other", "scoped"} \cap undone = {}]

\* A file from outside the scope is renamed to a path inside it, and staged.
Renamed(w) ==
    [w EXCEPT !.changed = @ \cup {"other", "scoped"},
              !.left = @ \ {"other", "scoped"},
              !.moved = @ \/ "other" \notin w.changed]

\* run_hook_best_effort of after_run: how it ends does not matter.
AfterRun(w) ==
    {[Edited(w, edits, undone) EXCEPT !.hooked = "other" \in edits] :
        edits, undone \in SUBSET HookPaths}

\* Workspace, before_run and the start of the agent; what before_run writes is
\* part of what the first turn edits.
Setup(c) ==
    /\ sess[c].pc = "setup"
    /\ ws' = [ws EXCEPT ![c] = [Prepared(@, sess[c].phase) EXCEPT !.hooked = FALSE]]
    /\ sess' = [sess EXCEPT ![c].pc = "turn", ![c].turn = 1]
    /\ UNCHANGED <<haft, ticket, intake, faults, acts>>

\* One of them fails.  A hook that fails half way leaves what it has written, a
\* reset what it has not got to; after_run is run all the same.
SetupFails(c) ==
    /\ sess[c].pc = "setup"
    /\ Fault
    /\ \E w \in {ws[c], Prepared(ws[c], sess[c].phase)} \cup
                 (IF ws[c].dir = "empty"
                    THEN {[Empty EXCEPT !.dir = dir] : dir \in {"bare", "no_commit"}} ELSE {}) :
          \E after \in AfterRun(w) : ws' = [ws EXCEPT ![c] = after]
    /\ Retry(c)
    /\ UNCHANGED <<haft, ticket, intake, acts>>

\* Mutant: blocked gates always get another turn.
StopsWhenPassed(c, gates) == gates = "pass" \/ sess[c].phase # "execute"

\* stop_checks: the gates pass, the phase has one turn, the turns are used up, or
\* the ticket is not active.
Stops(c, gates) ==
    \/ gates = "pass"
    \/ sess[c].phase # "execute"
    \/ sess[c].turn >= MaxTurns
    \/ ticket[c] # "todo"

\* send_turn, the gate chain and, at the end, PhaseOutcome.new: an outcome that
\* needs an approval goes to the human gate without a look at the diff, after
\* after_run, whose edits are here those of the turn.
Turn(c) ==
    /\ sess[c].pc = "turn"
    /\ \E edits, undone \in SUBSET Paths, renames \in BOOLEAN :
          /\ renames => ws[c].dir = "clone"
          /\ LET w == Edited(ws[c], edits, undone)
             IN  ws' = [ws EXCEPT ![c] = IF renames THEN Renamed(w) ELSE w]
    /\ \E gates \in {"pass", "block"} :
          IF ~Stops(c, gates) THEN sess' = [sess EXCEPT ![c].turn = IF @ < MaxTurns THEN @ + 1 ELSE @]
          ELSE sess' = [sess EXCEPT ![c].result = gates,
                                    ![c].pc = IF sess[c].phase \in HumanGated THEN "parked" ELSE "validate"]
    /\ UNCHANGED <<haft, ticket, intake, faults, acts>>

\* The turn, a gate or the outcome's construction is an error and after_run is
\* run, or the worker dies.
TurnFails(c) ==
    /\ sess[c].pc = "turn"
    /\ Fault
    /\ \E edits \in SUBSET Paths, undone \in SUBSET HookPaths :
          ws' = [ws EXCEPT ![c] = Edited(@, edits, undone)]
    /\ Retry(c)
    /\ UNCHANGED <<haft, ticket, intake, acts>>

\* changed_paths: git status, of which a renamed file gives its new path only; a
\* directory that is not a repository has no changes.
ChangedPaths(w) ==
    CASE w.dir = "bare"             -> {}
      [] w.dir # "bare" /\ w.moved -> w.changed \ {"other"}
      [] OTHER                      -> w.changed

\* Mutant: the diff is validated at the end of execute only.
DiffAcceptedExecuteOnly(w, phase) ==
    phase = "execute" => ChangedPaths(w) \ {"tmp"} = {"scoped"}

\* validate_terminal_diff_scope: no path outside the scope, and for execute some
\* change besides the runtime's own.
DiffAccepted(w, phase) ==
    /\ "other" \notin ChangedPaths(w)
    /\ phase = "execute" => ChangedPaths(w) \ {"tmp"} # {}

\* A refused diff is a terminal error: the orchestrator reports it as blocked.
ValidateDiff(c) ==
    /\ sess[c].pc = "validate"
    /\ IF DiffAccepted(ws[c], sess[c].phase) THEN Move(c, "write") /\ UNCHANGED ws
       ELSE /\ sess' = [sess EXCEPT ![c].pc = "report", ![c].result = "refused"]
            /\ \E after \in AfterRun(ws[c]) : ws' = [ws EXCEPT ![c] = after]
    /\ UNCHANGED <<haft, ticket, intake, faults, acts>>

\* write_to_haft, on an error of which the phase is retried, and after_run: the
\* diff is not looked at again.
WriteArtifact(c) ==
    /\ sess[c].pc = "write"
    /\ \E after \in AfterRun(ws[c]) : ws' = [ws EXCEPT ![c] = after]
    /\ \/ NoFault /\ Move(c, "report")
       \/ Fault /\ Retry(c)
    /\ UNCHANGED <<haft, ticket, intake, acts>>

-----------------------------------------------------------------------------
(* The human gate.  Whoever answers is not told what changed.              *)

\* resume_human_gate and write_human_outcome.
Approve(c) ==
    /\ sess[c].pc = "parked"
    /\ \/ NoFault /\ Move(c, "report")
       \/ Fault /\ sess' = [sess EXCEPT ![c] = NoSession]
    /\ UNCHANGED <<haft, ticket, intake, ws, acts>>

\* timeout_human_gate releases the claim, the ticket stays active.
GateTimeout(c) ==
    /\ sess[c].pc = "parked"
    /\ sess' = [sess EXCEPT ![c] = NoSession]
    /\ UNCHANGED <<haft, ticket, intake, ws, faults, acts>>

\* The worker of a parked session has exited: normal_worker_down retries it.
ParkedRetry(c) ==
    /\ sess[c].pc = "parked"
    /\ Retry(c)
    /\ UNCHANGED <<haft, ticket, intake, ws, faults, acts>>

-----------------------------------------------------------------------------
(* Reports to Haft.                                                        *)

\* lifecycle_commands and record_terminal_worker_error.
Commands(phase, result) ==
    CASE result = "refused" -> <<"block">>
      [] result = "pass" /\ phase = "preflight" -> <<"event", "preflight", "start">>
      [] result = "pass" /\ phase \in {"frame", "execute"} -> <<"event">>
      [] result = "pass" /\ phase = "measure" -> <<"event", "complete">>
      [] result = "block" /\ phase = "preflight" -> <<"event", "preflight_block">>
      [] OTHER -> <<"event", "block">>

\* What Haft makes of a command: the states it may lead to, none if it refuses.
Effects(state, command) ==
    CASE command = "event" -> {state} \cap Executing
      [] command = "preflight" -> {state} \cap Executing
      [] command = "preflight_block" -> IF state = "preflighting" THEN {"blocked"} ELSE {}
      [] command = "start" -> IF state \in Executing THEN {"running"} ELSE {}
      [] command = "complete" -> IF state = "running" THEN {"completed"} ELSE {}
      [] command = "block" -> IF state = "running" THEN {"blocked"} ELSE {}

Report(c) ==
    /\ sess[c].pc = "report"
    /\ sess' = [sess EXCEPT ![c] = [pc |-> "record", phase |-> @.phase, entry |-> @.entry,
                                    result |-> @.result, commands |-> Commands(@.phase, @.result)]]
    /\ UNCHANGED <<haft, ticket, intake, ws, faults, acts>>

RetryOf(c) ==
    sess' = [sess EXCEPT ![c] = [pc |-> "retry", phase |-> @.phase, entry |-> @.entry,
                                 turn |-> 0, result |-> "none"]]

\* run_lifecycle_commands: one call; a refusal or a failure retries the phase.  A
\* start that finds the decision stale blocks the commission and fails.
Record(c) ==
    /\ sess[c].pc = "record"
    /\ sess[c].commands # <<>>
    /\ LET command == Head(sess[c].commands)
           next == Effects(haft[c], command)
       IN  \/ /\ \E state \in next : haft' = [haft EXCEPT ![c] = state]
              /\ sess' = [sess EXCEPT ![c].commands = Tail(@)]
              /\ NoFault
           \/ /\ next = {}
              /\ RetryOf(c)
              /\ UNCHANGED haft /\ NoFault
           \/ /\ next # {} /\ command = "start"
              /\ haft' = [haft EXCEPT ![c] = "blocked"]
              /\ RetryOf(c)
              /\ Fault
           \/ /\ haft' \in {haft} \cup {[haft EXCEPT ![c] = state] : state \in next}
              /\ RetryOf(c)
              /\ Fault
    /\ UNCHANGED <<ticket, intake, ws, acts>>

\* The runtime and its local tracker are gone; workspaces and Haft are not.
RuntimeEnds ==
    /\ sess' = [c \in Commission |-> NoSession]
    /\ ticket' = [c \in Commission |-> "none"]
    /\ intake' = Idle

\* A pass before measure leads to the next phase.
Advances(c) ==
    /\ sess[c].pc = "record" /\ sess[c].commands = <<>>
    /\ sess[c].result = "pass" /\ NextPhase[sess[c].phase] # "terminal"

\* apply_outcome of a workflow state that is still at the entry phase.
PhaseMismatch(c) == sess[c].phase # "preflight" /\ sess[c].entry

\* apply_next_decision, when Haft has taken every report.  A phase mismatch is a
\* match error in the orchestrator.
Advance(c) ==
    /\ Advances(c)
    /\ IF PhaseMismatch(c) THEN RuntimeEnds /\ UNCHANGED ws
       ELSE Begin(c, NextPhase[sess[c].phase], FALSE) /\ UNCHANGED <<ticket, intake>>
    /\ UNCHANGED <<haft, faults, acts>>

\* finalize_terminal, and the block of an outcome or of a refused diff.
Close(c) ==
    /\ sess[c].pc = "record" /\ sess[c].commands = <<>>
    /\ ~Advances(c)
    /\ sess' = [sess EXCEPT ![c] = NoSession]
    /\ ticket' = [ticket EXCEPT ![c] = "closed"]
    /\ UNCHANGED <<haft, intake, ws, faults, acts>>

\* build_session fails after the claim was released: the next poll finds the ticket.
DispatchFails(c) ==
    /\ \/ Advances(c) /\ ~PhaseMismatch(c)
       \/ sess[c].pc = "retry"
    /\ Fault
    /\ sess' = [sess EXCEPT ![c] = NoSession]
    /\ UNCHANGED <<haft, ticket, intake, ws, acts>>

-----------------------------------------------------------------------------
(* Faults of the runtime, and the operator.                                *)

\* The runtime ends, also by a human's rejection, and is started again.
Restart ==
    /\ Fault
    /\ RuntimeEnds
    /\ UNCHANGED <<haft, ws, acts>>

Act == acts < MaxActs /\ acts' = acts + 1

Requeue(c) ==
    /\ Act
    /\ haft[c] \in Executing \cup {"queued", "blocked"}
    /\ haft' = [haft EXCEPT ![c] = "queued"]
    /\ UNCHANGED <<ticket, intake, sess, ws, faults>>

Cancel(c) ==
    /\ Act
    /\ haft[c] \in Executing \cup {"queued", "blocked"}
    /\ haft' = [haft EXCEPT ![c] = "cancelled"]
    /\ UNCHANGED <<ticket, intake, sess, ws, faults>>

\* abort_active: each session is requeued in Haft, if the call gets there and Haft
\* takes it, and ended; the retries are forgotten, the tickets stay.
Abort ==
    /\ Act
    /\ \A c \in Commission : sess[c].pc # "record"   \* one handler at a time
    /\ \E sent \in SUBSET {c \in Commission : sess[c].pc \notin {"none", "retry"}} :
          haft' = [c \in Commission |->
                      IF c \in sent /\ haft[c] \in Executing \cup {"blocked"} THEN "queued" ELSE haft[c]]
    /\ sess' = [c \in Commission |-> NoSession]
    /\ UNCHANGED <<ticket, intake, ws, faults>>

-----------------------------------------------------------------------------

Intake == ListRunnable \/ SeedClaimed \/ \E c \in Commission : ClaimCommission(c) \/ ClaimError(c)

Work(c) == Setup(c) \/ Turn(c) \/ ValidateDiff(c) \/ WriteArtifact(c)

Handle(c) == Report(c) \/ Record(c) \/ Advance(c) \/ Close(c)

Next ==
    \/ Intake
    \/ \E c \in Commission :
          \/ Dispatch(c) \/ RetryTimer(c) \/ Work(c) \/ SetupFails(c) \/ TurnFails(c)
          \/ Approve(c) \/ GateTimeout(c) \/ ParkedRetry(c) \/ Handle(c) \/ DispatchFails(c)
          \/ Requeue(c) \/ Cancel(c)
    \/ Restart \/ Abort

\* Setup, turns and calls are bounded by timeouts.
Fairness == \A c \in Commission : WF_vars(Work(c)) /\ WF_vars(Handle(c))

Spec == Init /\ [][Next]_vars /\ Fairness

-----------------------------------------------------------------------------
(* Properties.                                                             *)

\* The shape of the state.
TypeOK ==
    /\ haft \in [Commission -> Executing \cup {"queued", "completed", "blocked", "cancelled"}]
    /\ ticket \in [Commission -> {"none", "todo", "closed"}]
    /\ ws \in [Commission -> [dir : {"empty", "bare", "no_commit", "clone"},
                              changed : SUBSET Paths, left : SUBSET Paths,
                              moved : BOOLEAN, hooked : BOOLEAN]]

Completes(c) == haft[c] # "completed" /\ haft'[c] = "completed"

\* When Haft records a completion, what differs outside the commission's scope is
\* at most what the completing session's own after_run hook wrote after the diff
\* was validated, and files renamed into the scope, which git status does not list
\* where they were.  What execute did is covered, although a human gate lets it
\* pass without a look at the diff, and so is what a retried, aborted or restarted
\* session or its hook left behind.
CompletedInScope ==
    [][\A c \in Commission :
          Completes(c) /\ ws[c].dir # "bare" /\ "other" \in ws[c].changed =>
            ws[c].hooked \/ ws[c].moved]_vars

\* A completed commission's diff holds no change that an earlier attempt left
\* behind: the preflight that began this attempt has reset the workspace.
WorkIsOfThisAttempt ==
    [][\A c \in Commission : Completes(c) /\ ws[c].dir = "clone" => ws[c].left = {}]_vars

\* A session that has begun comes to its end or to a human: the continuation loop
\* stops, whatever the gates say.
SessionsEnd ==
    \A c \in Commission :
        sess[c].pc \in {"setup", "turn", "validate", "write", "report"} ~>
            sess[c].pc \in {"none", "parked", "retry", "record"}

=============================================================================
