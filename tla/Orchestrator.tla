---------------------------- MODULE Orchestrator -----------------------------
(***************************************************************************)
(* The Open-Sleigh orchestrator: the GenServer of orchestrator.ex that     *)
(* owns all session state, with the processes that send to it.             *)
(*                                                                         *)
(* One handler is one step, since a GenServer handles one message at a     *)
(* time.  Messages of different senders arrive in any order.  Those of one *)
(* worker arrive in the order sent: its one cast, then its DOWN signal.    *)
(* Calls to Haft and to the tracker are made inside a handler, and may     *)
(* fail.                                                                   *)
(*                                                                         *)
(* A session id is <<ticket, slot>>.  The code generates ids; here a slot  *)
(* is used again once nothing refers to it.  Retry tokens likewise.        *)
(***************************************************************************)
EXTENDS Naturals, FiniteSets

CONSTANTS
    Ticket,         \* ticket ids (commission ids, in commission-first mode)
    Slot,           \* bound: sessions of one ticket that anything refers to
    Token,          \* bound: retry timers of one ticket in flight
    Phase,          \* phases of the workflow, the terminal one left out
    EntryPhase,     \* workflow.entry_phase
    AdvanceMap,     \* workflow.advance_map
    HumanGated,     \* phases whose configuration has a human gate
    MaxConcurrency, \* max_concurrency
    MaxAttempt      \* attempt at which the retry delay reaches its maximum

ASSUME WorkflowAssumption ==
    /\ EntryPhase \in Phase
    /\ AdvanceMap \in [Phase -> Phase \union {"terminal"}]
    /\ {"terminal", "none"} \intersect Phase = {}
    /\ HumanGated \subseteq Phase

ASSUME BoundsAssumption ==
    /\ MaxConcurrency \in Nat \ {0}
    /\ MaxAttempt \in Nat \ {0}

VARIABLES
    tracker,     \* is the ticket in one of the active states?
    candidates,  \* tickets of the {:candidates, ...} cast in the mailbox
    claimed,     \* claimed
    running,     \* running: session -> phase and workflow_state.current
    worker,      \* sessions whose AgentWorker task is alive
    cast,        \* the cast of each session's worker, in the mailbox
    down,        \* the DOWN signal of each session's worker, in the mailbox
    downTimers,  \* {:normal_worker_down, session} timers
    pending,     \* pending_human: ticket -> session and result it waits with
    retries,     \* retries: ticket -> phase and timer token
    timers,      \* {:retry_timer_fired, ticket, token} timers
    attempts,    \* retry_attempts, up to MaxAttempt
    crash        \* "no", or the exception that ended the orchestrator

vars == <<tracker, candidates, claimed, running, worker, cast, down, downTimers,
          pending, retries, timers, attempts, crash>>

Session == Ticket \X Slot
TicketOf(s) == s[1]

NoEntry   == [phase |-> "none"]
NoPending == [result |-> "none"]
NoRetry   == [phase |-> "none"]

Running  == {s \in Session : running[s] # NoEntry}
Retrying == {t \in Ticket : retries[t] # NoRetry}

\* What a worker reports of a phase it ran to its end.
Results == {"pass", "block"}

\* Nothing in the runtime refers to this session id any more.
Unused(s) ==
    /\ running[s] = NoEntry
    /\ s \notin worker \union downTimers
    /\ cast[s] = "none"
    /\ pending[TicketOf(s)] # NoPending => pending[TicketOf(s)].session # s

HasFreshSession(t) == \E i \in Slot : Unused(<<t, i>>)
FreshSession(t)    == <<t, CHOOSE i \in Slot : Unused(<<t, i>>)>>

HasFreshToken(t) == \E k \in Token : <<t, k>> \notin timers
FreshToken(t)    == CHOOSE k \in Token : <<t, k>> \notin timers

Init ==
    /\ tracker = [t \in Ticket |-> "closed"]
    /\ candidates = {}
    /\ claimed = {}
    /\ running = [s \in Session |-> NoEntry]
    /\ worker = {}
    /\ cast = [s \in Session |-> "none"]
    /\ down = [s \in Session |-> "none"]
    /\ downTimers = {}
    /\ pending = [t \in Ticket |-> NoPending]
    /\ retries = [t \in Ticket |-> NoRetry]
    /\ timers = {}
    /\ attempts = [t \in Ticket |-> 0]
    /\ crash = "no"

-----------------------------------------------------------------------------
(* Tracker and poller.                                                     *)

\* Commission intake seeds a ticket for a commission it has claimed.
Seed(t) ==
    /\ tracker[t] = "closed"
    /\ tracker' = [tracker EXCEPT ![t] = "active"]
    /\ UNCHANGED <<candidates, claimed, running, worker, cast, down, downTimers,
                   pending, retries, timers, attempts, crash>>

\* Someone else moves the ticket out of the active states.
CloseExternally(t) ==
    /\ tracker[t] = "active"
    /\ tracker' = [tracker EXCEPT ![t] = "closed"]
    /\ UNCHANGED <<candidates, claimed, running, worker, cast, down, downTimers,
                   pending, retries, timers, attempts, crash>>

\* TrackerPoller: one list of candidates is in the mailbox at a time.
Poll ==
    /\ crash = "no"
    /\ candidates = {}
    /\ candidates' = {t \in Ticket : tracker[t] = "active"}
    /\ UNCHANGED <<tracker, claimed, running, worker, cast, down, downTimers,
                   pending, retries, timers, attempts, crash>>

-----------------------------------------------------------------------------
(* Claim and dispatch.                                                     *)

\* Mutant: capacity is looked at, the claim is not.
DispatchableByCapacity(tickets) ==
    {D \in SUBSET tickets :
        D # {} => Cardinality(D) + Cardinality(Running) <= MaxConcurrency}

\* The sets of tickets one pass over the list may dispatch.  A ticket is passed
\* over when it is claimed, when the sessions are at capacity, or when its
\* session cannot be built.  The list may be stale: it is not compared with the
\* tracker again.
Dispatchable(tickets) ==
    {D \in SUBSET (tickets \ claimed) :
        D # {} => Cardinality(D) + Cardinality(Running) <= MaxConcurrency}

Candidates ==
    /\ crash = "no"
    /\ candidates # {}
    /\ candidates' = {}
    /\ \E D \in Dispatchable(candidates) :
          LET started == {FreshSession(t) : t \in D} IN
          /\ \A t \in D : HasFreshSession(t)
          /\ running' = [s \in Session |->
                           IF s \in started
                             THEN [phase |-> EntryPhase, current |-> EntryPhase]
                             ELSE running[s]]
          /\ worker' = worker \union started
          /\ claimed' = claimed \union D
    /\ UNCHANGED <<tracker, cast, down, downTimers, pending, retries, timers,
                   attempts, crash>>

\* release_claim: the session is forgotten, its monitor flushed.
ReleaseClaim(s) ==
    /\ running' = [running EXCEPT ![s] = NoEntry]
    /\ down' = [down EXCEPT ![s] = "none"]
    /\ claimed' = claimed \ {TicketOf(s)}
    /\ attempts' = [attempts EXCEPT ![TicketOf(s)] = 0]
    /\ UNCHANGED <<worker, retries, timers, crash>>

\* Mutant: the retry is entered and its timer is not started.
ScheduleRetryNoTimer(s) ==
    LET t == TicketOf(s)
        k == FreshToken(t)
    IN  /\ HasFreshToken(t)
        /\ running' = [running EXCEPT ![s] = NoEntry]
        /\ down' = [down EXCEPT ![s] = "none"]
        /\ claimed' = claimed \union {t}
        /\ retries' = [retries EXCEPT ![t] = [phase |-> running[s].phase, token |-> k]]
        /\ attempts' = [attempts EXCEPT ![t] = IF @ < MaxAttempt THEN @ + 1 ELSE @]
        /\ UNCHANGED <<tracker, worker, crash, timers>>

\* schedule_retry of a running session.  The ticket stays claimed, and what is
\* pending at a human gate stays pending.
ScheduleRetry(s) ==
    LET t == TicketOf(s)
        k == FreshToken(t)
    IN  /\ HasFreshToken(t)
        /\ running' = [running EXCEPT ![s] = NoEntry]
        /\ down' = [down EXCEPT ![s] = "none"]
        /\ claimed' = claimed \union {t}
        /\ retries' = [retries EXCEPT ![t] = [phase |-> running[s].phase, token |-> k]]
        /\ timers' = timers \union {<<t, k>>}
        /\ attempts' = [attempts EXCEPT ![t] = IF @ < MaxAttempt THEN @ + 1 ELSE @]
        /\ UNCHANGED <<tracker, worker, crash>>

-----------------------------------------------------------------------------
(* Outcomes.                                                               *)

\* An exception in a handler ends the GenServer, and with it the runtime that
\* is linked to it.
Crash(reason) ==
    /\ crash' = reason
    /\ UNCHANGED <<tracker, running, down, claimed, attempts, worker, retries, timers>>

\* Transitions of the ticket may fail and are not asked for when the commission
\* is to be published externally.
MayClose(t) ==
    \E next \in {tracker[t], "closed"} : tracker' = [tracker EXCEPT ![t] = next]

\* Mutant: the end of the workflow is not seen, the terminal phase dispatched.
DecisionWithoutTerminal(phase, result) ==
    IF result = "block" THEN "block" ELSE "advance"

\* PhaseMachine.next.
Decision(phase, result) ==
    IF result = "block" THEN "block"
    ELSE IF AdvanceMap[phase] = "terminal" THEN "terminal"
    ELSE "advance"

\* Release, build the session of the next phase, start its worker.
StartNextPhase(s) ==
    LET t == TicketOf(s)
        next == AdvanceMap[running[s].phase]
        new == FreshSession(t)
    IN  /\ HasFreshSession(t)
        /\ running' = [running EXCEPT ![s] = NoEntry,
                                      ![new] = [phase |-> next, current |-> next]]
        /\ down' = [down EXCEPT ![s] = "none"]
        /\ claimed' = claimed \union {t}
        /\ attempts' = [attempts EXCEPT ![t] = 0]
        /\ worker' = worker \union {new}
        /\ UNCHANGED <<tracker, retries, timers, crash>>

\* The outcome must be one of the phase the workflow state is at.
AdvanceToNextPhase(s) ==
    \/ /\ running[s].current # running[s].phase
       /\ Crash("phase_mismatch")
    \/ /\ running[s].current = running[s].phase
       /\ \/ StartNextPhase(s)
          \/ ReleaseClaim(s) /\ UNCHANGED tracker   \* build_session failed

\* handle_outcome of a running session: the lifecycle commands go to Haft and
\* the decision is applied if Haft took all of them.
HandleOutcome(s, result) ==
    LET decision == Decision(running[s].phase, result) IN
    \/ ScheduleRetry(s)
    \/ /\ decision = "advance"
       /\ AdvanceToNextPhase(s)
    \/ /\ decision \in {"block", "terminal"}
       /\ MayClose(TicketOf(s))
       /\ ReleaseClaim(s)

-----------------------------------------------------------------------------
(* Messages of workers.                                                    *)

\* A worker ends its phase with one cast and exits normally.
WorkerReports(s) ==
    /\ crash = "no"
    /\ s \in worker
    /\ \E message \in {"error", "terminal_error"} \union
                      (IF running[s].phase \in HumanGated
                         THEN {"await_pass", "await_block"} ELSE Results) :
          cast' = [cast EXCEPT ![s] = message]
    /\ down' = [down EXCEPT ![s] = "normal"]
    /\ worker' = worker \ {s}
    /\ UNCHANGED <<tracker, candidates, claimed, running, downTimers, pending,
                   retries, timers, attempts, crash>>

WorkerCrashes(s) ==
    /\ crash = "no"
    /\ s \in worker
    /\ down' = [down EXCEPT ![s] = "crash"]
    /\ worker' = worker \ {s}
    /\ UNCHANGED <<tracker, candidates, claimed, running, cast, downTimers, pending,
                   retries, timers, attempts, crash>>

\* Nothing of the orchestrator's own state changes.
Ignore == UNCHANGED <<tracker, running, down, claimed, attempts, worker, retries, timers, crash>>

\* park_human_gate: the session stays in running while its outcome waits.
ParkHumanGate(s, result) ==
    /\ pending' = [pending EXCEPT ![TicketOf(s)] = [session |-> s, result |-> result]]
    /\ Ignore

\* A cast of a session that is no longer running is ignored.
HandleCast(s) ==
    /\ crash = "no"
    /\ cast[s] # "none"
    /\ cast' = [cast EXCEPT ![s] = "none"]
    /\ UNCHANGED <<candidates, downTimers>>
    /\ IF s \notin Running THEN Ignore /\ UNCHANGED pending
       ELSE
       \/ /\ cast[s] \in Results
          /\ HandleOutcome(s, cast[s])
          /\ UNCHANGED pending
       \/ /\ cast[s] = "error"
          /\ ScheduleRetry(s)
          /\ UNCHANGED pending
       \/ /\ cast[s] = "terminal_error"
          /\ \/ ScheduleRetry(s)
             \/ MayClose(TicketOf(s)) /\ ReleaseClaim(s)
          /\ UNCHANGED pending
       \/ cast[s] = "await_pass" /\ ParkHumanGate(s, "pass")
       \/ cast[s] = "await_block" /\ ParkHumanGate(s, "block")

HandleDown(s) ==
    /\ crash = "no"
    /\ cast[s] = "none"
    /\ \/ /\ down[s] = "normal"
          /\ down' = [down EXCEPT ![s] = "none"]
          /\ downTimers' = downTimers \union {s}
          /\ UNCHANGED <<tracker, running, claimed, attempts, worker, retries, timers, crash>>
       \/ /\ down[s] = "crash"
          /\ ScheduleRetry(s)
          /\ UNCHANGED downTimers
    /\ UNCHANGED <<candidates, cast, pending>>

\* Mutant: the timer of a normal exit does nothing.
NormalWorkerDownIgnored(s) ==
    /\ crash = "no"
    /\ s \in downTimers
    /\ downTimers' = downTimers \ {s}
    /\ Ignore
    /\ UNCHANGED <<candidates, cast, pending>>

\* The worker exited normally some time ago and its session is still there.
NormalWorkerDown(s) ==
    /\ crash = "no"
    /\ s \in downTimers
    /\ downTimers' = downTimers \ {s}
    /\ IF s \in Running THEN ScheduleRetry(s) ELSE Ignore
    /\ UNCHANGED <<candidates, cast, pending>>

-----------------------------------------------------------------------------
(* Retries.                                                                *)

ClearRetry(t) ==
    /\ retries' = [retries EXCEPT ![t] = NoRetry]
    /\ claimed' = claimed \ {t}
    /\ UNCHANGED <<running, worker>>

\* clear_retry and dispatch.  The new session is at the phase of the retry, and
\* its workflow state at the entry phase.
Redispatch(t) ==
    LET new == FreshSession(t) IN
    /\ HasFreshSession(t)
    /\ retries' = [retries EXCEPT ![t] = NoRetry]
    /\ running' = [running EXCEPT ![new] =
                     [phase |-> retries[t].phase, current |-> EntryPhase]]
    /\ worker' = worker \union {new}
    /\ claimed' = claimed \union {t}

\* Mutant: a retry of a ticket that is no longer active is kept for later.
RetryTimerKept(t, k) ==
    /\ crash = "no"
    /\ <<t, k>> \in timers
    /\ timers' = timers \ {<<t, k>>}
    /\ \/ /\ retries[t] # NoRetry /\ retries[t].token = k
          /\ tracker[t] = "active"
          /\ Redispatch(t)
       \/ /\ retries[t] # NoRetry => retries[t].token # k \/ tracker[t] # "active"
          /\ UNCHANGED <<retries, claimed, running, worker>>
    /\ UNCHANGED <<tracker, candidates, cast, down, downTimers, pending, attempts, crash>>

RetryTimer(t, k) ==
    /\ crash = "no"
    /\ <<t, k>> \in timers
    /\ timers' = timers \ {<<t, k>>}
    /\ \/ /\ retries[t] # NoRetry /\ retries[t].token = k
          /\ tracker[t] = "active"
          /\ Redispatch(t) \/ ClearRetry(t)   \* ClearRetry: build_session failed
          /\ UNCHANGED attempts
       \/ /\ retries[t] # NoRetry /\ retries[t].token = k
          /\ ClearRetry(t)                    \* not active, or the tracker failed
          /\ attempts' = [attempts EXCEPT ![t] = 0]
       \/ /\ retries[t] # NoRetry => retries[t].token # k
          /\ UNCHANGED <<retries, claimed, running, worker, attempts>>
    /\ UNCHANGED <<tracker, candidates, cast, down, downTimers, pending, crash>>

-----------------------------------------------------------------------------
(* Human signals and operator abort.                                       *)

PopPending(t) == pending' = [pending EXCEPT ![t] = NoPending]

\* The approved outcome is written to Haft and handled like any other, unless
\* the session is gone.  Release: the write failed.
HumanApproval(t) ==
    LET s == pending[t].session IN
    /\ crash = "no"
    /\ pending[t] # NoPending
    /\ PopPending(t)
    /\ IF s \notin Running THEN Ignore
       ELSE \/ HandleOutcome(s, pending[t].result)
            \/ ReleaseClaim(s) /\ UNCHANGED tracker
    /\ UNCHANGED <<candidates, cast, downTimers>>

\* The state is piped into dispatch as its first argument, where dispatch wants
\* the ticket: no clause matches.
HumanRejection(t) ==
    /\ crash = "no"
    /\ pending[t] # NoPending
    /\ Crash("rejection")
    /\ UNCHANGED <<candidates, cast, downTimers, pending>>

\* Mutant: a gate that timed out ends whatever session its ticket has.
HumanTimeoutAnySession(t) ==
    /\ crash = "no"
    /\ pending[t] # NoPending
    /\ PopPending(t)
    /\ IF \E s \in Running : TicketOf(s) = t
         THEN /\ ReleaseClaim(CHOOSE s \in Running : TicketOf(s) = t)
              /\ UNCHANGED tracker
         ELSE Ignore
    /\ UNCHANGED <<candidates, cast, downTimers>>

HumanTimeout(t) ==
    LET s == pending[t].session IN
    /\ crash = "no"
    /\ pending[t] # NoPending
    /\ PopPending(t)
    /\ IF s \in Running THEN ReleaseClaim(s) /\ UNCHANGED tracker ELSE Ignore
    /\ UNCHANGED <<candidates, cast, downTimers>>

\* abort_active: running commissions are requeued and their workers killed.
\* Timers and pending gates stay.
AbortActive ==
    /\ crash = "no"
    /\ running' = [s \in Session |-> NoEntry]
    /\ down' = [s \in Session |-> "none"]
    /\ worker' = worker \ Running
    /\ claimed' = {}
    /\ retries' = [t \in Ticket |-> NoRetry]
    /\ attempts' = [t \in Ticket |-> 0]
    /\ UNCHANGED <<tracker, candidates, cast, downTimers, pending, timers, crash>>

\* A handler that calls Haft raises when HaftServer has not answered in the 5
\* seconds of GenServer.call: a dispatch fetches the problem card, outcomes and
\* aborts of running sessions are reported.
HaftTimeout ==
    /\ crash = "no"
    /\ candidates \ claimed # {} \/ Running # {} \/ Retrying # {}
    /\ Crash("haft_timeout")
    /\ UNCHANGED <<candidates, cast, downTimers, pending>>

-----------------------------------------------------------------------------

Next ==
    \/ \E t \in Ticket :
          \/ Seed(t) \/ CloseExternally(t)
          \/ HumanApproval(t) \/ HumanRejection(t) \/ HumanTimeout(t)
          \/ \E k \in Token : RetryTimer(t, k)
    \/ Poll
    \/ Candidates
    \/ \E s \in Session :
          \/ WorkerReports(s) \/ WorkerCrashes(s)
          \/ HandleCast(s) \/ HandleDown(s) \/ NormalWorkerDown(s)
    \/ AbortActive
    \/ HaftTimeout

\* The BEAM runs every process, delivers every message and fires every timer;
\* turn and stall timeouts end every agent session.  People may never answer.
Fairness ==
    /\ \A s \in Session :
          /\ WF_vars(WorkerReports(s) \/ WorkerCrashes(s))
          /\ WF_vars(HandleCast(s))
          /\ WF_vars(HandleDown(s))
          /\ WF_vars(NormalWorkerDown(s))
    /\ \A t \in Ticket, k \in Token : WF_vars(RetryTimer(t, k))

Spec == Init /\ [][Next]_vars
FairSpec == Spec /\ Fairness

-----------------------------------------------------------------------------
(* Properties.                                                             *)

Entry == [phase : Phase, current : Phase]

\* Type invariant of the orchestrator.
TypeOK ==
    /\ tracker \in [Ticket -> {"active", "closed"}]
    /\ candidates \subseteq Ticket
    /\ claimed \subseteq Ticket
    /\ running \in [Session -> Entry \union {NoEntry}]
    /\ worker \subseteq Session
    /\ cast \in [Session -> Results \union {"await_pass", "await_block", "error",
                                            "terminal_error", "none"}]
    /\ down \in [Session -> {"none", "normal", "crash"}]
    /\ downTimers \subseteq Session
    /\ pending \in [Ticket -> [session : Session, result : Results] \union {NoPending}]
    /\ retries \in [Ticket -> [phase : Phase, token : Token] \union {NoRetry}]
    /\ timers \subseteq Ticket \X Token
    /\ attempts \in [Ticket -> 0..MaxAttempt]
    /\ crash \in {"no", "phase_mismatch", "rejection", "haft_timeout"}

\* Two sessions of one ticket never run at the same time, whatever retries,
\* stale candidate lists, human signals and aborts come in.
OneSessionPerTicket ==
    \A s, r \in Running : TicketOf(s) = TicketOf(r) => s = r

\* Every live agent belongs to a session the orchestrator knows, so that an
\* abort reaches it and nobody works on a released ticket.
WorkersTracked == worker \subseteq Running

\* A ticket is claimed exactly while it has a session or a retry, never both,
\* and each of them has something on its way that will end it: no claim can be
\* stranded.
ClaimsAreOwned ==
    crash = "no" =>
      /\ claimed = {TicketOf(s) : s \in Running} \union Retrying
      /\ \A s \in Running :
            /\ TicketOf(s) \notin Retrying
            /\ s \in worker \union downTimers \/ cast[s] # "none" \/ down[s] # "none"
      /\ \A t \in Retrying : <<t, retries[t].token>> \in timers

\* A session always ends: its outcome is handled, it is retried or released.
SessionEnds ==
    \A s \in Session : s \in Running ~> s \notin Running \/ crash # "no"

\* A retry always comes to an end: the ticket is dispatched or given up.
RetryEnds ==
    \A t \in Ticket : t \in Retrying ~> t \notin Retrying \/ crash # "no"

-----------------------------------------------------------------------------
(* What an assertion of the code says and the code does not keep.          *)

\* {:ok, new_workflow_state} = WorkflowState.apply_outcome(...), asserted in
\* advance_to_next_phase.
OutcomeAlwaysApplies == crash # "phase_mismatch"

=============================================================================
