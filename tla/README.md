# Verification of Haft and the Open-Sleigh harness

This directory specifies, model-checks and proves parts of quint-code: the
**Haft kernel** (Go), which keeps engineering decisions, their evidence and the
*WorkCommissions* derived from them, **Open-Sleigh** (Elixir), the runtime that
claims commissions and runs coding agents on them, and the **harness** commands
that bring the agents' diffs back into the operator's checkout. The core question
of the whole system is whether work is executed only when it is allowed to be: by
one runner at a time per piece of the repository, in dependency order, against
the decision that was admitted, inside its scope, and without a ticket, an edit
or a piece of evidence being lost on the way.

- [1. The system](#1-the-system)
- [2. Modules and how they correspond to the code](#2-modules-and-how-they-correspond-to-the-code)
- [3. Runs](#3-runs)
- [4. Theorems](#4-theorems)
- [5. What the code and its documents disagree about](#5-what-the-code-and-its-documents-disagree-about)
- [6. Plan](#6-plan)
- [7. What is not modelled](#7-what-is-not-modelled)

## 1. The system

### How the parts interact

```
 sessions ──> artifact store (decisions, problems, evidence)
                 │ revision hashes       └──> recall index ──> embedding daemon
 operator ──> WorkCommission store  <── haft_commission calls ── HaftServer + WAL
              (SQLite, one row per                                  ▲   ▲
               commission, JSON payload)                            │   │
                                                    CommissionSource│   │lifecycle reports,
                                                    Intake (claims) │   │artifacts
                                                          │ seeds   │   │
                       tracker (tickets) <────────────────┘      Orchestrator
                            │ candidates                          │      ▲
                            └──> TrackerPoller ── cast ───────────┘      │ casts, DOWN
                                                   HumanGateListener ──> │
                                                                    AgentWorkers
                                                                         │ workspaces
 operator's checkout <── haft harness run / apply <─── diffs ────────────┘
```

### Components

| Component | State | Operations | What makes it correct |
|---|---|---|---|
| WorkCommission store (`serve_commission.go`, `internal/workcommission`) | per commission: lifecycle state, lease, snapshot hashes, event log, delivery decision | create (three ways), list, show, claim_for_preflight, requeue, cancel, record_preflight, start_after_preflight, record_run_event, complete_or_block | overlapping locksets exclude each other; dependencies complete first and stay complete; stale commissions never start; terminal is terminal; a lease changes hands only when it may |
| Locksets and plans (`internal/implementationplan`) | none | parse, normalise, overlap of lock paths | overlap is symmetric and covers every common file |
| Projection (`internal/workcommission/projection.go`) | none | completion after local evidence, draft validation | debt exactly when a required publication is missing |
| Autonomy envelope (`internal/autonomyenvelope`) | none | evaluate | an envelope never widens what a commission may do |
| Artifact store, decisions, evidence (`internal/artifact`) | rows with status, claims and validity; links; affected files with hashes; evidence items | frame, decide, baseline, measure, evidence, waive, supersede, deprecate, reopen, close, scan | the newest measurement counts; statuses follow the measurements; one live decision per problem; what was reported as debt stays reported until it is dealt with, what is archived is quiet; evidence is kept |
| Comparison (`solution.go`) | one stored comparison | validate, eliminate, dominate, store | the front speaks for all it leaves out; nothing dominated is on it; somebody survives |
| Recall (`internal/recall`) and the vector cache | index, dirty, building, embedder; cached vectors | search, invalidate, rebuild | no invalidation is lost; vectors belong to their text; an index never goes back |
| Embedding daemon (`sidecar_shared_unix.go`, `embed-sidecar`) | socket, lock file, daemons, connections | connect, start, wait, embed, reconnect, idle exit | one reachable daemon; accepted means served; every call ends |
| Harness (`internal/cli/harness.go`, `internal/scopeauth`) | run mode, attempted and delivered commissions, checkout, index, HEAD | drain, watch, once, auto-apply, deliver, apply | only files in scope are written; success means delivered; the operator's edits survive |
| Orchestrator (`orchestrator.ex`) | claimed tickets, running sessions, pending human gates, retries, attempts | candidates, outcome, error, await_human, human signals, DOWN, timers, abort | one session per ticket; every agent tracked; no claim stranded; every session and retry ends |
| Phase machine, workflow state | phase, advance map | next, apply_outcome | outcome applies to the phase that produced it |
| Tracker poller, tracker | tickets | poll, transition | at most one list in flight |
| HaftServer and WAL (`haft_server.ex`, `haft/wal.ex`) | availability, misses, port, WAL files | dispatch, health ping, replay, restart | what was stored is not lost; replay in order; an answer belongs to its request; the server never hangs |
| Commission intake (`commission_source/`) | claim budget | replenish: list, claim, seed | nothing is claimed and then forgotten |
| Agent worker, gates, workspace | one phase of one session; a directory per commission | prepare, turns, gates, terminal diff, report | nothing out of scope completes; an attempt starts clean; a session ends |
| Human gate listener | pending gates, last seen comment | park, scan, time out | a signal goes to the gate it was given for |
| Codex adapter, judge, Sleigh compiler and watcher, status, logs | adapters and views | | |
| Specs, text search, code index, agent, LSP, MCP, UI, CLI | the rest of the kernel | | |

Every one of them is listed in `PROJECT.json` with its status.

### What is hard here

- **Interleaving.** Runners do not learn that they lost a lease; they go on
  reporting. The orchestrator gets casts, DOWN signals, timers, candidate lists
  and human signals in any order. Sessions share one SQLite file, one vector cache
  and one embedding daemon. The operator works in the checkout a delivery writes.
- **Staleness.** Decisions are revised while commissions derived from them wait;
  candidate lists and timers are older than the state they act on. Handlers of the
  artifact store write whole rows back from copies they loaded earlier.
- **Failure.** Haft may be slow, exit, or answer late; its port may be closed;
  replay may fail half way; the harness may be restarted and replay its reports.
  A hook, a patch, a rebuild or a series of reports may stop in the middle.
- **Limits.** Lease age and validity are compared at their boundaries; capacity
  is checked on one of the two dispatch paths; health misses at a threshold.

The list with lines is `hazards` in `PROJECT.json`.

## 2. Modules and how they correspond to the code

| Module | Code | Kind |
|---|---|---|
| `CommissionLocks` | what the store promises to executions | abstract specification |
| `WorkCommission` | `internal/cli/serve_commission.go`, `internal/workcommission`, `internal/implementationplan` (conflict, dependencies) | detailed specification, implements `CommissionLocks` |
| `WorkCommission_proofs` | | TLAPS theorems |
| `Orchestrator` | `orchestrator.ex`, `phase_machine.ex`, `workflow_state.ex`, `tracker_poller.ex` | detailed specification |
| `Orchestrator_proofs` | | TLAPS theorems |
| `HaftServer` | `haft_server.ex`, `haft/wal.ex`, `haft_supervisor.ex` | detailed specification |
| `CommissionRun` | `commission_source/intake.ex`, `agent_worker.ex`, `workspace_manager.ex`, `tracker/mock.ex`, and the parts of `orchestrator.ex` and `serve_commission.go` they meet | composition |
| `DecisionRecords`, with the operators of `EvidenceScore` | `internal/artifact` (`store.go`, `decision.go`, `claim_status.go`, `problem.go`, `refresh.go`), `internal/reff`, handlers of `internal/cli/serve.go` | detailed specification |
| `ParetoFront` | `internal/artifact/solution.go` | an algorithm, step by step |
| `HybridRecall` | `internal/recall` | detailed specification |
| `SharedSidecar` | `internal/embedding/sidecar_shared_unix.go`, `embed-sidecar/src/main.rs` | detailed specification |
| `HarnessDelivery` | `internal/cli/harness.go`, `internal/scopeauth` | detailed specification |
| `HaftServer_proofs`, `DecisionRecords_proofs`, `ParetoFront_proofs`, `HybridRecall_proofs`, `SharedSidecar_proofs`, `HarnessDelivery_proofs` | | TLAPS theorems about the module of that name |
| `MC...` | | values of the constants for TLC |

Definitions whose comment begins with *Mutant* are plausible bugs of the
definition that follows them. No specification uses them; each is there to show
that a property notices it.

### WorkCommission

One handler is one step: each reads, checks and writes a payload in one SQLite
transaction (`claimWorkCommissionForPreflight`, `appendWorkCommissionLifecycle`,
...). Creation is the exception: the sibling guard and the insert are different
statements, so a creation is two steps and another creator may come between them.
`BeginCreate` builds from a decision, which must not be retired, and takes the
hashes of the artifacts as they are; of the handlers that do so only
`create_from_decision` has the sibling guard. `BeginRawCreate` is the `create`
handler: it copies the caller's payload, so the hashes are whatever the caller
sends (current ones, or some no revision has) and the commission may come with a
lease some runner took earlier. `PersistCreate` inserts. The envelope is checked
against the time the handler read at its start, so nothing is checked again at the
insert. `create_from_plan` and `create_batch_from_decisions` are several creations
one after another; `AbandonCreate` is a creator that stops half way.

A caller of `create` could also send a delivery decision, an event log or a lease
without a readable `claimed_at`; these are not modelled.

The fields of a payload that never change (decision, dependencies, lockset,
validity, policies) are the constant `Payload`. Lock paths are opaque; which of
them overlap is the constant `PathsOverlap`, assumed symmetric because
`lockPathsOverlap` tries both directions. The autonomy envelope is a time until
which it allows execution: its findings on scope are made when the commission is
created and refuse the creation. Revision hashes are revision numbers: every
update bumps the version that is hashed. Scope, base and specification checks of
`start_after_preflight`, which compare what the runner sends with what was
admitted, are the choice `baseOk`. An artifact's links and affected files are hashed with it; a change
of these is a revision like any other.

A runner may report on any commission it was ever given (`claimants`), with any
verdict, at any time: the handlers look at the state and not at the lease.

### Orchestrator

A GenServer handles one message at a time, so each `handle_*` is one step with
all the calls it makes. The mailbox is modelled by what may be in it: the list of
candidates, one cast and one DOWN per session, timers. Messages of different
senders come in any order; the DOWN of a worker comes after its cast. Calls to
Haft inside a handler succeed or fail by choice. `crash` records an exception
that ends the orchestrator: a failed match in `advance_to_next_phase`, the
rejection that calls `dispatch` with its arguments in the wrong order, and the
5 second limit of `GenServer.call` in a handler that calls Haft. Nothing of the
orchestrator is persisted and the runtime is linked to it, so the model ends
there.

### HaftServer

The server blocks in `await_response`; `waiting` says what for. A receive ends
with the answer, another line (skipped), the exit of the subprocess or the
timeout. Haft reads its input meanwhile and afterwards: a request that timed out
may still be carried out and its answer arrive while something else, or nothing,
is awaited. In the last case `handle_info` has no clause and the server is
restarted; so it is when it writes to a port that has closed. A restarted server
counts as available and does not look at the WAL. The WAL is one sequence of
requests per ticket; a request without a ticket id is refused silently.
`stored` and `applied` are history variables.

### CommissionRun

One commission (or several) through one runtime, from Haft's queue to Haft's
record. `Orchestrator` shows that a ticket has one session at a time, so here it
is one record with a program counter: setup, turn, validate, write, parked,
report, record, retry. `WorkCommission` has Haft's rules; here the states an
operator must decide on are one, `blocked`. What is added is what neither has:
the claim loop of intake, the workspace that outlives every session, the turns
with the gates between them, the terminal diff, and the reports that go to Haft
one call at a time (`Record`), each of which may be refused, fail, or succeed
with its answer lost.

A workspace is the kind of its directory and what `git status` would list in it;
`left` is history: the part of it that was there before the last preflight began.
The `after_run` hook runs in the workspace when the diff has been validated, and
also when a session fails or waits for a human (`AfterRun`); `hooked` says that the
present session's hook has changed a path outside the scope. A file renamed from
outside the scope into it and staged shows in `git status` as one line, of which
the worker keeps the new path (`Renamed`, `ChangedPaths`); `moved` says that
nothing else has changed outside. Changes the agent commits are not in
`git status` and so not in the model. After a
phase mismatch, a rejection or a restart the runtime and its tracker are gone
(`RuntimeEnds`) while Haft and the workspaces stay. The local tracker's tickets
are closed by nobody but their own session, so the retry of a ticket that has
been closed, which an external tracker can bring about, does not come up.

### DecisionRecords and EvidenceScore

Every agent session runs its own server on the same SQLite file. A statement or
transaction is one step, a handler several: `pc` of a session says where it is,
and its record holds the row it loaded. `Update` writes that whole row back, as
`Store.Update` does. `stale`, `archived`, `revived` and `raced` are history: rows
overwritten from an old copy, decisions the operator archived, those brought back
out of the archive, and those decided while another session was deciding.
`Abort` is a handler that stops between two statements.

The score of an item depends on its type: a caller may attach evidence of any
type, and `explicit_measure` and `partial_measure` score the same whatever their
verdict, `attached` differently from the rest (`TypedVerdictToScore`).

Left out: module-mode and symbol governance (files are governed exactly), the
detour from a decision over a portfolio to its problem, the evidence-decay
budget, and the causal cap of the score. Reads of `Measure` that nothing can come
between are one step.

### ParetoFront

`compare` as the steps validate, eliminate, dominate, store; the caller may be
refused for missing scores, or for not having explained every variant. `Init`
takes every table of scores. A score is a number of some unit, an ordinal label, a
missing score (the empty text or a dash), a label that says the constraint failed,
or prose. Scores of different kinds or units cannot be compared; equal texts tie
before anything is parsed. Under `zero` a missing score is replaced by the zero of
the other one's unit or by the lowest label and read back. For some units what is
read back is not that zero (`Misread`): "100 ms" has the unit "ms", its zero is
written "0ms" and read as 0 mega-"s", and the pair is unresolved
(`solution.go:928`, `:2487`). Variants are numbered in the order the code goes
through them, because elimination depends on it.

The reference the front is held to is the definition of a Pareto front: nothing on
it is dominated, and everything off it is dominated by something on it. The second
half is true of the code only when no score is missing. Under `zero`, of
a = (high, 3), b = (missing, 2), c = (0, 1), a dominates b and b dominates c, while
a and c cannot be compared: the front is {a} and c is dominated by nobody on it.
What does hold is that the dominations starting at a variant left out lead up to
the front (`Upward`). Under `exclude` they may go in circles.

Left out: the tolerance of 1e-9 within which two numbers are equal, and the other
refusals of `ValidateCompareInput`, which end the call before anything is computed.

### HybridRecall and SharedSidecar

A session of `HybridRecall` has a handler thread and at most one build. Texts,
hashes and vectors are revisions, so a vector of the wrong text shows. In
`SharedSidecar` a client is where it stands in `connectOrStartSharedSidecar` or
`Embed`, a daemon where it stands in `run_socket`, and the socket path belongs to
at most one daemon; processes may die between any two steps. `disowned` says that
a starter has died or given up while its daemon was still loading.

### HarnessDelivery

The content of a file is the set of authors whose changes it holds, in HEAD, in
the index and in the working tree. Open-Sleigh is environment: it claims,
writes and completes. A delivery checks authorisation and cleanliness, takes the
patch, applies it and copies new files one by one, then adds and commits; the
operator may edit, stage, commit, requeue or apply by hand between any two of
them. `landed` and `raced` are history: what was brought in, and what somebody
else wrote during a delivery.

## 3. Runs

Bounds are constants, named in the modules. Runs marked *stops* have
`CHECK_DEADLOCK FALSE`, since the system comes to rest once everything is terminal
or the bounds are used up; every other run also shows the absence of deadlock.

| Run | Instance | Checks |
|---|---|---|
| `commission_locks` (stops) | 3 commissions: c1 and c2 overlap through a directory pattern, c3 depends on c1; 2 runners; 2 creators; no clock | `LocksetExclusion`, `DependencyOrder`, refinement `ImplementsLocks` |
| `commission_gates` (stops) | 2 commissions, one sent to `create` with or without a lease and under an envelope that ends before its validity, one that must publish; clock to 2, two revisions of each artifact | `TypeOK`, `DeliveryOnlyAfterCompletion`, `StaleNeverRuns`, `LeaseHandover`, `TerminalIsAbsorbing` |
| `orchestrator` | 1 ticket through frame, execute (human gated), measure; 3 session slots, 2 timers | `TypeOK`, `OneSessionPerTicket`, `WorkersTracked`, `ClaimsAreOwned`, liveness `SessionEnds`, `RetryEnds` |
| `haft_server` | 3 requests on 2 tickets, threshold 2, 2 unread requests | `StoredNotLost`, `OkMeansApplied`, `ReplayInOrder`, liveness `ServerReturns` |
| `commission_run` (stops) | 1 commission, preflight, frame, execute (human gated, 2 turns), measure; an `after_run` hook that writes outside the scope; 3 faults, 2 acts of the operator | `CompletedInScope`, `WorkIsOfThisAttempt`, liveness `SessionsEnd` |
| `decisions` (stops) | 2 sessions, 3 handlers, 2 decisions, 2 problems, 1 claim, 1 file; clock to 2, one handler cut short | `NewestMeasurementWins`, `ClaimsFollowMeasurements`, `OneLiveDecision`, `ArchivedStaysQuiet`, `DebtStays`, `EvidenceIsKept` |
| `pareto` (stops) | all tables of 3 variants, 2 dimensions of opposite polarity: negative, positive and ordinal scores and both texts of a missing one on the first, two units, prose, failed and missing on the second | `SomeoneSurvives`, `FrontSpeaksForAll`, `NoDominatedOnFront` |
| `recall` | 2 sessions, 2 artifacts, 2 writes, 1 failure | `NoLostInvalidation`, `VectorsMatchText`, `IndexNeverGoesBack`, liveness `InvalidatedGetsIndexed` |
| `sidecar` (stops) | 2 clients, 3 daemons, 3 calls, 2 deaths or missed deadlines | `OneReachableDaemon`, `AcceptedIsServed`, liveness `CallsEnd` |
| `harness` (stops) | 2 commissions, the second after the first and with the smaller scope; a tracked and a new file; 2 acts of the operator | `StaysInScope`, `OkMeansDelivered`, `OperatorEditsKept` |
| `orchestrator_retry_crash`, `haft_replay` | small | one documented statement each, see section 5 |

The remaining `TypeOK`s give the shape of a module's state; no run spends time on
them.

Why the bounds are enough. Exclusion and dependencies are about pairs of
commissions, and three make a pair with a third that interferes; two runners are
a holder and a former holder. A clock of 2 passes the envelope of one
commission and the validity of the other; a lease is too old at 1, its age being 0, 1 or 2. Two revisions let an artifact be retired and
reinstated, whose revision then differs from the snapshot although its status is
the same. The orchestrator's properties are about one ticket's sessions, timers
and gates; three slots hold a running session, one that only a timer refers to
and one that only a pending gate refers to, and two tokens a live and a stale
timer. Two tickets interact only through capacity. Two requests on one file and
one on another give replay an order within a file and between files.

In `commission_run` commissions meet only in the claim loop, which the properties
are not about. Three faults and two acts are enough for an attempt that fails
after it has changed files, is requeued or aborted, and is followed by a complete
second attempt in which a report is lost. In `decisions` two of the three
handlers overlap while the third comes before, between or after them; a decision
that expires, one that is due for verification and one measured late are reached
by clock 2. Dominance is a relation of two variants and elimination removes one
at a time: with three, one may be compared with another that is gone already, and
two dimensions of opposite polarity make variants incomparable. Three variants
also make the chain by which dominance fails to be transitive. One failure in
`recall` makes a build stop at any of its steps with an invalidation before,
during or after it. Three daemons are the one that idles out, the one that a
crashed starter leaves behind and the one that the second client starts. Two acts
of the operator are an edit and what races with it.

Fairness. `Orchestrator`: the BEAM schedules every process and delivers every
message, timers fire, and turn and stall timeouts end each agent session, hence
weak fairness of the worker's end, of each handler and of each timer. People and
pollers are not fair: a gate may never be answered. `HaftServer`: only the
server's own receive is fair, because it has a timeout; Haft need not answer.
`haft_replay` adds what makes its statement a fair one to ask: pings are sent on a
timer and a running Haft reads its input. `CommissionRun`: the worker's steps are
bounded by the hook, turn and call timeouts and the orchestrator handles what it
has begun; nothing is fair about dispatch, the human gate or the operator.
`HybridRecall`: a goroutine that runs goes on, and so does a handler.
`SharedSidecar`: processes that live go on; `flock` is granted in turn and the
five second deadline comes round again and again, hence strong fairness of `Lock`
and `WaitTimeout`. Neither searches nor clients' calls are fair.

## 4. Theorems

### The store

`WorkCommission_proofs` proves, for every set of commissions, runners, creators
and artifacts, every payload, every symmetric overlap relation and every bound:

| Theorem | Statement |
|---|---|
| `TypeCorrect` | `Spec => []TypeOK` |
| `Exclusion` | `Spec => []LocksetExclusion` |
| `DependenciesComplete` | `Spec => []DependencyOrder` |
| `LocksRefinement` | `Spec => ImplementsLocks` |
| `ExecutionsAreHeld` | `Spec => []ExecutionHeld` |
| `LeasesAreHandedOver` | `Spec => LeaseHandover` |
| `DeliveryDecided` | `Spec => []DeliveryOnlyAfterCompletion` |
| `TerminalStays` | `Spec => TerminalIsAbsorbing` |
| `StaleIsHeldBack` | `Spec => StaleNeverRuns` |

`Exclusion`, `DependenciesComplete`, `LocksRefinement`, `ExecutionsAreHeld` and
`DeliveryDecided` assume `CreateIdle`: callers create commissions in states that
neither execute nor have completed. The `create` action takes the state from its
caller and accepts any known one, so this is an obligation of callers and not
something the store enforces. The default is `queued`; a caller that creates a
commission as `running` (some tests do) is outside these five theorems, and
`TypeCorrect`, `LeasesAreHandedOver`, `TerminalStays` and `StaleIsHeldBack` hold
for it too. A commission created idle and with a lease, as `TestStaleLeaseCap`
does, is inside all of them: `ExecutionHeld` is about executing commissions only.

The argument. Type correctness needs no help. The other invariants are not
inductive alone because a create call in progress could bring a commission into
the store that is already there: `BuildOK` says that an id under construction is
absent and built once. With it, lemma `StepIsMove` shows that a step moves the
state field of at most one commission in one of five ways: admitted, acquired
(with dependencies complete and locks free), kept, left, completed. `LockInv`
(types, `BuildOK`, exclusion, dependency order) is preserved by each of the five,
and each is a step or a stutter of `CommissionLocks`. Exclusion needs that the
conflict relation is symmetric (`ConflictSymmetric`), since the claim only looks
from the new commission to the others. `RecordInv` does the same for the leases of
executions and for delivery. The three action properties follow from `BuildOK` and the guards of the
handlers.

### The orchestrator

`Orchestrator_proofs` proves, for any tickets, sessions and timers, any workflow
and any capacity:

| Theorem | Statement |
|---|---|
| `TypeCorrect` | `Spec => []TypeOK` |
| `OneSession` | `Spec => []OneSessionPerTicket` |
| `NoStrayWorker` | `Spec => []WorkersTracked` |
| `NoStrandedClaim` | `Spec => []ClaimsAreOwned` |

Assumed is only that the workflow is one (`WorkflowAssumption`: the entry phase
and the targets of the advance map are phases) and that the bounds are positive.

The argument. None of the three invariants is inductive. Retrying or releasing a
session would leave its agent running, were there not an order between a worker
and what it leaves in the mailbox; `MailInv` states it: a cast, a DOWN signal, a
timer or a pending gate of a session says that its worker has ended, a DOWN
signal is only kept for a running session, and a cast of a running session has
its DOWN signal behind it. The last part is why parking a session at a human gate
cannot strand it. `SessionInv` is the conjunction. The lemmas `RetryKeeps`,
`ReleaseKeeps`, `AdvanceKeeps` and `IgnoreKeeps` say that each way to deal with a
session preserves `SessionInv` while the handler consumes messages of that
session only (`Consumes`); every handler is one of these ways. Dispatch preserves
it because a ticket that is not claimed has, by `ClaimsAreOwned`, neither session
nor retry. TLC finds `SessionInv` kept on the
instance of the run `orchestrator` too.

### The connection to Haft

`HaftServer_proofs`, for any tickets, requests, threshold and length of the pipe,
assuming only that requests, pings and exits can be told apart:

| Theorem | Statement |
|---|---|
| `ConnectionSound` | `Spec => []HaftInv` |
| `StoredIsNotLost` | `Spec => []StoredNotLost` |
| `OkIsApplied` | `Spec => []OkMeansApplied` |
| `ReplayIsInOrder` | `Spec => []ReplayInOrder` |

`OkMeansApplied` is not inductive: the answer the server takes may have been sent
before a timeout, for a request of an earlier attempt. `AnswersAreOfCarried` says
that every answer in the mailbox is of a request that was carried out, whatever
the server has gone through since. `ReplayHasPlace` says that a replay stands at a
line of its file and awaits that line's answer; it holds because a server that
replays takes no requests, so nobody appends meanwhile.

### Recall and its daemon

`HybridRecall_proofs`, for any sessions, artifacts and bounds:

| Theorem | Statement |
|---|---|
| `RecallSound` | `Spec => []RecallInv` |
| `InvalidationsAreKept` | `Spec => []NoLostInvalidation` |
| `IndexMatchesText` | `Spec => []VectorsMatchText` |
| `IndexIsMonotone` | `Spec => IndexNeverGoesBack` |

`RecallInv` follows the vectors: rows of the cache, what a build read of it, what
it made and what is installed are all of the text they are labelled with; a
session has one build, and knows it (`OneBuild`), so what that build will install
is no older than what it replaces; and an invalidation that came after the build
had read has left a dirty mark (`BuildIsNewEnough`).

`SharedSidecar_proofs`, for any clients, daemons and bounds:

| Theorem | Statement |
|---|---|
| `SidecarSound` | `Spec => []SidecarInv` |
| `AcceptedAreServed` | `Spec => []AcceptedIsServed` |
| `OneDaemon` | `Spec => []OneReachableDaemon` |

The lock file is held exactly from a client's second dial to the end of its search
(`LockIsHeld`). While nobody has disowned a daemon, the one on its way up is the
one the holder waits for, the one that is up is at the path, and a holder about to
start one has seen that there is none (`OneIsUp`).

### Comparison

`ParetoFront_proofs`, for any number of variants, dimensions, units and
scores and any polarity:

| Theorem | Statement |
|---|---|
| `FrontSound` | `Spec => []FrontInv` |
| `EliminationLeavesSomeone` | `Spec => []SomeoneSurvives` |
| `StoredFrontIsHonest` | `Spec => []NoDominatedOnFront` |
| `FrontCoversAll` | `Spec => []FrontSpeaksForAll` |

The first three are inductive once the front is known to be that of the scores
(`FrontIsComputed`). `FrontCoversAll` looks like an induction over the variants:
follow who dominates whom until nobody does. Dominance itself is no order, but it
lies inside one: unless the policy is `exclude`, whoever dominates a variant is
worth at least as much on every dimension and more on one, a missing score counting
as zero (`Outscores`, `DominatesOutscores`). That relation compares across kinds and
units and means nothing to a reader; it is irreflexive and transitive, so the sets
of those who outscore a variant shrink along it, and of the finite set `Upward(v)`
the one with the smallest such set is on the front (the strict subset order is well
founded, `FiniteSetTheorems` and `WellFoundedInduction`). When no score is missing,
comparability is an equivalence and dominance transitive (`DominatesTransitive`), so
that one dominates v directly (`UpwardDominates`).

### Decisions and evidence

`DecisionRecords_proofs`, for any sessions, decisions, problems, claims and files,
assuming that decisions and problems are different artifacts and that the store
starts with at most one decision per problem:

| Theorem | Statement |
|---|---|
| `RecordsSound` | `Spec => []RecordsInv` |
| `RecordsTypes` | `Spec => []TypeOK` |
| `NewestWins` | `Spec => []NewestMeasurementWins` |
| `ClaimsFollow` | `Spec => []ClaimsFollowMeasurements` |
| `LiveDecisionIsOne` | `Spec => []OneLiveDecision` |
| `ArchivedIsQuiet` | `Spec => []ArchivedStaysQuiet` |
| `DebtIsKept` | `Spec => DebtStays` |
| `EvidenceKept` | `Spec => EvidenceIsKept` |

Every handler carries a copy of a row and writes the whole of it back, so the
invariant has to say what each copy means wherever its session was interrupted
(`HandlerSound`): a copy is of the row's past, and if the row still has the
version that was read, the copy differs only in what the handler is changing
(`CopySound`); a measurement under way holds statuses that will agree with the
evidence once it commits (`MeasureSound`); a creation has a fresh id and a problem
without a live decision, but for the excused (`CreateSound`). Rows that were
overwritten from an old copy are in `stale`, and for them nothing is claimed.
`NewestMeasurementWins` needs that evidence is dated by the writes so far
(`ItemsDated`). `DebtIsKept` goes action by action through what may take a decision
off the list of `ScanStale`. Time does not: dates that have passed have passed, and
an item that expires scores 0.1, below the threshold (`ScoresDecay`). Attached
evidence does not, because the least score of a larger set is no larger
(`WeakestLink`; a finite set of numbers has a least one because `<` is well founded
on them). And the copies that handlers write back agree with the row on its
validity and status unless they are out of date, which `CopySound` says.

### Delivery

`HarnessDelivery_proofs`, for any commissions, files, scopes, selection and number
of the operator's acts, assuming that the operator is not a commission:

| Theorem | Statement |
|---|---|
| `HarnessSound` | `Spec => []HarnessInv` |
| `DeliveriesStayInScope` | `Spec => []StaysInScope` |
| `OkIsDelivered` | `Spec => []OkMeansDelivered` |
| `EditsAreKept` | `Spec => OperatorEditsKept` |

`CliSound` says what an application under way may rely on at each of its steps:
its files are in scope, a file it has yet to copy is clean or somebody has written
it since the check (`TodoSound`), and what a delivery has written and staged so
far is still there unless somebody has (`DeliverySound`). `RunSound` ties the
delivery's place in the selection to what is in HEAD, which holds only because
Open-Sleigh is stopped before the first delivery: from then on no diff changes and
nothing becomes deliverable (`Settled`). A step of anybody else either spares the
files of an application or is recorded as a race with it (`Undisturbed`); staging
and committing spare everything (`GentleSpares`).

### How the inductive invariants were checked

Each inductive invariant was an invariant of a TLC run over the instance of its
component's run before it was proved: `HaftInv` (0.5 million states), `RecallInv`
(0.3), `SidecarInv` (0.05), `FrontInv` (2.5), `RecordsInv` (1.8), `HarnessInv`
(8.7), and `LockInv` and `RecordInv` of the store (0.1).

### Only model-checked

- All liveness, and the statements about what is enabled: out of the prover's
  reach. These are `SessionEnds`, `RetryEnds`, `ServerReturns`, `SessionsEnd`,
  `InvalidatedGetsIndexed` and `CallsEnd`.
- `CompletedInScope` and `WorkIsOfThisAttempt` of `CommissionRun`, on the instance
  of its run. The first holds for the human gates of that instance and not for
  every set of them: a gate at measure would let a diff pass unseen (section 5).
  It says of a completion that what differs outside the scope was written by the
  completing session's own `after_run`, or is a file renamed into the scope. Both
  do happen: without either exception TLC finds a completion that violates it.

## 5. What the code and its documents disagree about

Two runs state what an assertion or a document says, and TLC finds that the code
does otherwise; `findings` quotes the lines.

| Run | Statement | What happens |
|---|---|---|
| `orchestrator_retry_crash` | `{:ok, _} = apply_outcome(...)` | a retried later phase has its workflow state at the entry phase; its outcome raises |
| `haft_replay` | the WAL is replayed on reconnect | after a restart the server counts as available, so nothing is replayed |

The following came up while the modules were written. The models behave as the
code does, and properties that would say otherwise are stated with the exception.

Commissions and runtime:

- A stale preflight must not block a running commission
  (`serve_commission.go:2741`), but a replayed `start_after_preflight` recomputes
  freshness first (`:1007`) and sets the running commission to `blocked_stale`.
- A lease that does not match denies `start_after_preflight`
  (`EXECUTION_CONTRACT.md:184`), but the handler does not look at it: a runner whose lease was requeued away starts the
  commission under the next holder's lease.
- A second live commission of a decision carries a slice
  (`serve_commission.go:184`), except when two guards run before two
  inserts, or a `failed` sibling, which does not count, is requeued.
- A human gate blocks until an external signal (`PHASE_ONTOLOGY.md:174`), but the normal exit of
  the worker that parked it schedules a retry.
- `max_concurrency` keeps extra tickets queued, but retries are dispatched without
  the capacity check (`orchestrator.ex:1669`).
- A lifecycle call carries its ticket id in its payload, so the WAL refuses it
  (`wal.ex:111`) and a call made while Haft is away is not stored.
- Every exit of execute and measure is checked for changes out of scope
  (`GATES.md:39`), but an outcome that waits for a human is not
  (`agent_worker.ex:168`). `CompletedInScope` holds because measure checks again;
  it would not if measure itself had a human gate, and a directory without `.git`
  passes every check. So does what `after_run` writes once the diff has been
  validated (`agent_worker.ex:181`), and a rename out of a path that is not listed:
  only its destination is looked at (`:1166`).
- A directory that `after_create` left unfinished is cleaned (`WORKSPACE.md:40`),
  but nothing cleans it: the retry finds it non-empty, takes it for a reused one
  and skips the hook. The reset does nothing where git has no commit, and keeps
  what an agent has committed.
- What intake claimed before a hard error is dropped, and `preflighting` is not
  runnable: until an operator requeues it nobody works on it. The lease-age skip
  of intake never applies to the Haft source, which lists runnable ones only.
- A report that Haft refuses (the commission was cancelled or requeued) is retried
  with a new agent session each time; the attempt count only caps the delay.
- Approvals are matched by ticket, so an old comment may approve a later outcome.

Decisions, recall and embedding:

- A warning from `decide` is returned as an error although the decision is stored
  (`serve.go:1045`), and the automatic baseline and the recall invalidation are
  skipped.
- A decision archived while another session has it loaded is written back active
  (`store.go:150`, the comment at `refresh.go:304` takes it to be archived for
  good). The conflict message of `decide` asks to close the problem first, which
  does not lift the conflict. Two sessions that decide one problem at the same time
  both pass the check for a live decision (`decision.go:810`).
- Refuting evidence of type `explicit_measure` scores 0.8 (`reff.go:113`), so it
  does not make a decision surface; the stale scan sees scores and not verdicts.
- Hard limits make a variant inadmissible (comment near `solution.go:2029`), but
  when all are eliminated the front is computed over all of them, with a warning. Under `exclude`
  the front may be empty.
- `Invalidate` "marks the corpus stale so the next search triggers a background
  rebuild" (`hybrid.go:85`), but the mark is cleared before the build (`:174`): when
  the build fails, no later search rebuilds. A search may block on the adapter
  that the build is using (`hybrid.go:49`). Writes of other sessions do not
  invalidate.
- One daemon per user and model with serialized start-up (`CHANGELOG.md:47`), except
  that a starter that dies while its daemon loads makes the next one start a
  second.

Delivery:

- A file the operator edits after the check for changes (`harness.go:1358`) is
  overwritten by the copy; a tracked one makes `git apply` fail unless the patch
  applies around the edit.
- The drain hook applies and never commits (comment at `harness.go:3065`), so a
  delivery of the same commission then finds the checkout dirty and the run ends
  in an error. It marks a commission as attempted even when it was not eligible
  yet, so one that completes after its lease went stale is never auto-applied.
- `git commit` is called without paths (`harness.go:3789`) and takes along what the
  operator has staged. `git diff --name-only` (`:1459`) does not see what the
  workspace has staged or committed.
- The envelope's verdict is read at the top level of the payload and from events
  (`harness.go:3740`), while the store nests it in the delivery decision.

## 6. Plan

Modelled: the store, the orchestrator, the connection between them and a
commission's way through all of them; decisions and evidence; comparison; recall
and its daemon; delivery. Proved: every safety property of all of them but
`CommissionRun`. Next:

1. `CompletedInScope`, under the assumption that measure has no human gate, from
   the invariant, for each reading of `moved` and `hooked`, that a session past `ValidateDiff` at measure has a workspace
   nobody else writes; `WorkIsOfThisAttempt` from the one that a session past its
   preflight in a clone has nothing left over.
2. Lemmas about `EvidenceScore` (bounds of the score, weakest link) as theorems of
   their own.
3. That `Orchestrator`'s `SessionInv` is what `CommissionRun` relies on when it
   keeps one session per commission, as a refinement.

## 7. What is not modelled

- Encoding, hashing, rendering and logging; JSON validation beyond the fields
  that guards read.
- SQLite itself: a transaction is atomic, and a busy database is a call that
  fails and changes nothing.
- Comments and observations the orchestrator writes; prompts; what a gate or a
  judge looks at. Their verdict, and their failure, are choices.
- `HaftServer` in its mock mode, which tests use; the stdio embedding adapter. Haft
  writes one line per request: what it logs to stderr is in the same stream
  (`haft_server.ex:238`), and each such line restarts the ten seconds of the receive
  (`:392`), so `ServerReturns` assumes that a Haft which does not answer does not go
  on writing for ever either. Request ids are unique; in the code they are unique in
  one VM (`client.ex:496`) while the WAL outlives it.
- Errors of `cmd.Start` and of opening the lock file, on which a client of the
  embedding daemon falls back to stdio (`sidecar_shared_unix.go:88`, `:169`); that
  removing a stale socket is a test and a removal, which may fail and end the daemon
  (`main.rs:255`). A live daemon answers: `embedOnce` has no deadline, and `CallsEnd`
  assumes so.
- Files that git ignores: `git status` does not list them (`harness.go:1475`), so one
  that only the operator's checkout ignores counts as clean.
- Glob rules: which lock paths overlap and which files a scope covers are
  relations given as constants. Plan parsing and its cycle check.
- The turn protocol of the Codex server, hot reload of the workflow, background
  tasks and the interactive agent: they keep state and are concurrent, but no
  state of the modelled parts depends on them other than through the outcomes
  that are choices here.
- The subsystems `PROJECT.json` lists as `not_modelled`, each with its reason: most
  of the repository by size is validation and rendering of text, search quality,
  parsers of programming languages and adapters of external tools, which have no
  protocol to check.
