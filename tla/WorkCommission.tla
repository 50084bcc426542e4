--------------------------- MODULE WorkCommission ----------------------------
(***************************************************************************)
(* The WorkCommission store of the Haft kernel: internal/cli/              *)
(* serve_commission.go over the state sets of internal/workcommission.     *)
(*                                                                         *)
(* Each haft_commission handler reads a commission payload, checks it and  *)
(* writes it back in one SQLite transaction on one database file, so a     *)
(* handler is one atomic step here.  The exceptions are the create         *)
(* handlers: the time they read, their guard and their insert are separate *)
(* statements, so a creation is two steps.                                 *)
(*                                                                         *)
(* Callers are runners (an Open-Sleigh process has a runner_id), operators *)
(* (requeue, cancel, create) and authors, who revise or retire the         *)
(* DecisionRecords and ProblemCards that commissions were derived from.    *)
(* Nothing tells a runner that its lease is gone, so a runner may report   *)
(* on any commission it has ever claimed.                                  *)
(***************************************************************************)
EXTENDS Naturals

CONSTANTS
    Commission,     \* WorkCommission ids
    Runner,         \* runner_id values
    Creator,        \* processes that run one of the create handlers
    Artifact,       \* DecisionRecords and ProblemCards
    LockPath,       \* normalised lockset entries
    PathsOverlap,   \* the relation lockPathsOverlap decides on LockPath
    Payload,        \* the fields of each commission that never change
    CreateStates,   \* states callers ask new commissions to start in
    SliceChoices,   \* may a caller give a slice_description, may it not?
    LeaseAgeCap,    \* age at which a lease is too old for intake
    NoRunner,       \* "no lease", "no runtime event yet"
    MaxTime,        \* bound: the clock stops here
    MaxRevision,    \* bound: revisions of one artifact
    MaxClosedRuns   \* bound: run-closing events of one commission

Runnable   == {"queued", "ready"}
Executing  == {"preflighting", "running"}
Completion == {"completed", "completed_with_projection_debt"}
Terminal   == Completion \union {"cancelled", "expired"}
OperatorDecision ==
    {"blocked_stale", "blocked_policy", "blocked_conflict",
     "needs_human_review", "failed"}

\* Mutant: completed work may be requeued.
RecoverableOrDone == Runnable \union Executing \union OperatorDecision \union Completion

Recoverable == Runnable \union Executing \union OperatorDecision

\* Mutant: a completed commission may still be cancelled.
CancellableOrDone == Recoverable \union Completion \union {"draft"}

Cancellable == Recoverable \union {"draft"}
KnownStates == Cancellable \union Terminal

\* A commission id that no create call has persisted yet.
Absent == "absent"

Verdicts == {"pass", "failed", "blocked", "unknown"}

ProjectionPolicies == {"local_only", "external_optional", "external_required"}
DeliveryPolicies   == {"workspace_patch_manual", "workspace_patch_auto_on_pass"}

\* The handler that makes the commission: create_batch_from_decisions builds
\* like create_from_plan, and create takes the caller's fields as they are.
Origins == {"create", "create_from_decision", "create_from_plan"}

\* envelopeUntil = 0 says that the payload has no autonomy_envelope_snapshot.
PayloadType ==
    [decision      : Artifact,
     problem       : Artifact,
     dependsOn     : SUBSET Commission,
     repo          : STRING,
     lockset       : SUBSET LockPath,
     origin        : Origins,
     validUntil    : Nat,
     envelopeUntil : Nat,
     projection    : ProjectionPolicies,
     delivery      : DeliveryPolicies]

ASSUME PayloadAssumption == Payload \in [Commission -> PayloadType]

\* lockPathsOverlap tries both directions of every one-sided test.
ASSUME OverlapAssumption ==
    /\ PathsOverlap \subseteq LockPath \X LockPath
    /\ \A p, q \in LockPath : <<p, q>> \in PathsOverlap => <<q, p>> \in PathsOverlap

ASSUME CreateAssumption ==
    /\ CreateStates \subseteq KnownStates
    /\ SliceChoices \subseteq BOOLEAN

ASSUME ConstantsAssumption ==
    /\ NoRunner \notin Runner
    /\ LeaseAgeCap \in Nat \ {0}
    /\ MaxTime \in Nat
    /\ MaxRevision \in Nat
    /\ MaxClosedRuns \in Nat

VARIABLES
    state,       \* state field of every commission
    lease,       \* lease.runner_id, or NoRunner
    claimedAt,   \* lease.claimed_at
    snapshot,    \* decision and problem revision hashes taken at creation
    sliced,      \* does the commission carry a slice_description?
    closedRuns,  \* how many events of the log close a runtime run
    lastRun,     \* runner and runtime run of the latest runtime event
    delivery,    \* delivery_decision.action, or "none"
    claimants,   \* runners that have ever been given the commission
    building,    \* what each create call is about to persist
    revision,    \* current revision of each artifact
    retired,     \* artifacts superseded, deprecated or due for refresh
    now          \* wall clock

commissionVars ==
    <<state, lease, claimedAt, snapshot, sliced, closedRuns, lastRun,
      delivery, claimants>>
vars == <<commissionVars, building, revision, retired, now>>

NoRun   == [runner |-> NoRunner, run |-> 0]
NoBuild == [pending |-> FALSE]

-----------------------------------------------------------------------------
(* Predicates on one commission.                                           *)

Expired(c) == Payload[c].validUntil <= now

\* Not yet created, or created and not terminal in the sense of
\* commissionStateIsTerminal, a list of its own that holds two states an
\* operator can requeue.
CountsAsLive(c) ==
    state[c] \notin {Absent, "failed", "blocked_policy"} \union Terminal

DependenciesSatisfied(c) ==
    \A d \in Payload[c].dependsOn : state[d] \in Completion

LocksetsConflict(c, d) ==
    /\ c # d
    /\ Payload[c].repo = Payload[d].repo
    /\ \E p \in Payload[c].lockset, q \in Payload[d].lockset :
          <<p, q>> \in PathsOverlap

\* Mutant: only running commissions hold their locks, preflighting ones do not.
LocksetAvailableToRunning(c) ==
    \A d \in Commission : state[d] = "running" => ~LocksetsConflict(c, d)

LocksetAvailable(c) ==
    \A d \in Commission : state[d] \in Executing => ~LocksetsConflict(c, d)

\* Mutant: a lease is too old one tick late.
LeaseOlderThanCap(c) ==
    lease[c] # NoRunner /\ now - claimedAt[c] > LeaseAgeCap

LeaseTooOld(c) ==
    lease[c] # NoRunner /\ now - claimedAt[c] >= LeaseAgeCap

EnvelopeGate(c) ==
    CASE Payload[c].envelopeUntil = 0   -> "missing"
      [] Payload[c].envelopeUntil > now -> "allowed"
      [] OTHER                          -> "blocked"

CurrentSnapshot(c) ==
    [decision |-> revision[Payload[c].decision],
     problem  |-> revision[Payload[c].problem]]

\* The deterministic gate of start_after_preflight on persisted artifacts.
Fresh(c) ==
    /\ Payload[c].decision \notin retired
    /\ Payload[c].problem \notin retired
    /\ snapshot[c] = CurrentSnapshot(c)

\* Mutant: the dependency check is missing at claim time.
RunnableIgnoringDependencies(c) ==
    /\ ~LeaseTooOld(c)
    /\ state[c] \in Runnable
    /\ ~Expired(c)
    /\ EnvelopeGate(c) # "blocked"

\* workCommissionRunnableForRequestWithLeaseCap, without the plan and queue
\* filters, which only narrow what one caller asks for.
RunnableForRequest(c) ==
    /\ ~LeaseTooOld(c)
    /\ state[c] \in Runnable
    /\ ~Expired(c)
    /\ DependenciesSatisfied(c)
    /\ EnvelopeGate(c) # "blocked"

-----------------------------------------------------------------------------
(* Initial state: an empty store over existing artifacts.                  *)

Init ==
    /\ state = [c \in Commission |-> Absent]
    /\ lease = [c \in Commission |-> NoRunner]
    /\ claimedAt = [c \in Commission |-> 0]
    /\ snapshot = [c \in Commission |-> [decision |-> 0, problem |-> 0]]
    /\ sliced = [c \in Commission |-> FALSE]
    /\ closedRuns = [c \in Commission |-> 0]
    /\ lastRun = [c \in Commission |-> NoRun]
    /\ delivery = [c \in Commission |-> "none"]
    /\ claimants = [c \in Commission |-> {}]
    /\ building = [k \in Creator |-> NoBuild]
    /\ revision = [a \in Artifact |-> 0]
    /\ retired = {}
    /\ now = 0

-----------------------------------------------------------------------------
(* Creation.                                                               *)

\* guardMultiCommissionDecision: a second live commission of a decision needs
\* a slice, and so does every live commission that is already there.
MultiCommissionGuard(c, slice) ==
    LET siblings == {d \in Commission :
                       /\ CountsAsLive(d)
                       /\ Payload[d].decision = Payload[c].decision}
    IN  siblings = {} \/ (slice /\ \A d \in siblings : sliced[d])

\* Ids are generated: no two creators ever build the same one.
IdUnused(c) ==
    /\ state[c] = Absent
    /\ \A k \in Creator : building[k].pending => building[k].id # c

\* What a handler is about to persist.  The envelope is checked, at every
\* check, against the time the handler read when it started.
StartBuild(k, c, fields) ==
    /\ ~building[k].pending
    /\ IdUnused(c)
    /\ EnvelopeGate(c) # "blocked"
    /\ building' = [building EXCEPT ![k] = fields]
    /\ UNCHANGED <<commissionVars, revision, retired, now>>

NoLease == [runner |-> NoRunner, at |-> 0]

\* Guard and build.  create_from_plan and create_batch_from_decisions build
\* without the guard.
BeginCreate(k, c, slice, initial) ==
    /\ Payload[c].origin # "create"
    /\ Payload[c].origin = "create_from_decision" => MultiCommissionGuard(c, slice)
    /\ Payload[c].decision \notin retired
    /\ StartBuild(k, c, [pending |-> TRUE, id |-> c, slice |-> slice, initial |-> initial,
                         snapshot |-> CurrentSnapshot(c), lease |-> NoLease])

\* A revision hash that no revision of an artifact has.
NoRevision == MaxRevision + 1

\* The revision hashes a caller of create may send: those of the artifacts as
\* they are, or others, which no later revision can match either.
CallerSnapshots(c) ==
    {CurrentSnapshot(c), [decision |-> NoRevision, problem |-> NoRevision]}

\* The lease a caller of create may send along: none, or one that some runner
\* took at some earlier time.
CallerLeases == {NoLease} \union [runner : Runner, at : 0..now]

\* create: the payload is copied as it comes, hashes and lease included, and
\* neither the decision's status nor its other commissions are looked at.
BeginRawCreate(k, c, slice, initial, hashes, held) ==
    /\ Payload[c].origin = "create"
    /\ StartBuild(k, c, [pending |-> TRUE, id |-> c, slice |-> slice, initial |-> initial,
                         snapshot |-> hashes, lease |-> held])

\* persistWorkCommission: normalise once more, which changes nothing, and
\* insert the row.  The holder of a lease that came along may report.
PersistCreate(k) ==
    LET b == building[k] IN
    /\ b.pending
    /\ state' = [state EXCEPT ![b.id] = b.initial]
    /\ snapshot' = [snapshot EXCEPT ![b.id] = b.snapshot]
    /\ sliced' = [sliced EXCEPT ![b.id] = b.slice]
    /\ lease' = [lease EXCEPT ![b.id] = b.lease.runner]
    /\ claimedAt' = [claimedAt EXCEPT ![b.id] = b.lease.at]
    /\ claimants' = [claimants EXCEPT ![b.id] = Runner \intersect {b.lease.runner}]
    /\ building' = [building EXCEPT ![k] = NoBuild]
    /\ UNCHANGED <<closedRuns, lastRun, delivery, revision, retired, now>>

\* The creating process dies, or an earlier entry of its plan failed.
AbandonCreate(k) ==
    /\ building[k].pending
    /\ building' = [building EXCEPT ![k] = NoBuild]
    /\ UNCHANGED <<commissionVars, revision, retired, now>>

-----------------------------------------------------------------------------
(* Intake and operator recovery.                                           *)

\* claim_for_preflight.  Without a commission_id the code takes the oldest
\* runnable commission, which is one of the choices of c.
Claim(r, c) ==
    /\ RunnableForRequest(c)
    /\ LocksetAvailable(c)
    /\ state' = [state EXCEPT ![c] = "preflighting"]
    /\ lease' = [lease EXCEPT ![c] = r]
    /\ claimedAt' = [claimedAt EXCEPT ![c] = now]
    /\ claimants' = [claimants EXCEPT ![c] = @ \union {r}]
    /\ UNCHANGED <<snapshot, sliced, closedRuns, lastRun, delivery, building,
                   revision, retired, now>>

ReleaseTo(c, target) ==
    /\ state' = [state EXCEPT ![c] = target]
    /\ lease' = [lease EXCEPT ![c] = NoRunner]
    /\ UNCHANGED <<claimedAt, snapshot, sliced, closedRuns, lastRun, delivery,
                   claimants, building, revision, retired, now>>

Requeue(c) ==
    /\ state[c] \in Recoverable
    /\ ~Expired(c)
    /\ ReleaseTo(c, "queued")

Cancel(c) ==
    /\ state[c] \in Cancellable
    /\ ReleaseTo(c, "cancelled")

-----------------------------------------------------------------------------
(* Runtime reports of a runner.                                            *)

\* Mutant: completion may be reported again once it is recorded.
AllowedStatesRepeated(action) ==
    CASE action \in {"record_preflight", "start_after_preflight"} -> {"preflighting"}
      [] action = "record_run_event"  -> {"preflighting", "running"}
      [] action = "complete_or_block" -> {"running", "completed"}

AllowedStates(action) ==
    CASE action \in {"record_preflight", "start_after_preflight"} -> {"preflighting"}
      [] action = "record_run_event"  -> {"preflighting", "running"}
      [] action = "complete_or_block" -> {"running"}

\* Pass markers of preflight are accepted again once the commission runs.
LifecycleAllowed(action, c, verdict) ==
    \/ state[c] \in AllowedStates(action)
    \/ /\ state[c] = "running"
       /\ verdict = "pass"
       /\ action \in {"record_preflight", "start_after_preflight"}

\* appendLifecycleEvent: the event gets the ordinal of the run that is open,
\* and some events close that run.
AppendEvent(r, c, closes) ==
    /\ lastRun' = [lastRun EXCEPT ![c] = [runner |-> r, run |-> closedRuns[c] + 1]]
    /\ closes => closedRuns[c] < MaxClosedRuns
    /\ closedRuns' = IF closes THEN [closedRuns EXCEPT ![c] = @ + 1] ELSE closedRuns

\* Neither the lease nor its holder is looked at by a report.
ReportUnchanged ==
    UNCHANGED <<lease, claimedAt, snapshot, sliced, claimants, building,
                revision, retired, now>>

RecordPreflight(r, c, verdict) ==
    /\ r \in claimants[c]
    /\ LifecycleAllowed("record_preflight", c, verdict)
    /\ AppendEvent(r, c, verdict = "blocked")
    /\ state' = IF verdict = "blocked"
                  THEN [state EXCEPT ![c] = "blocked_stale"] ELSE state
    /\ UNCHANGED delivery
    /\ ReportUnchanged

RecordRunEvent(r, c) ==
    /\ r \in claimants[c]
    /\ state[c] \in AllowedStates("record_run_event")
    /\ AppendEvent(r, c, FALSE)
    /\ UNCHANGED <<state, delivery>>
    /\ ReportUnchanged

\* Mutant: the freshness report is computed and not looked at.
StartGateEnvelopeOnly(c, baseOk) ==
    IF EnvelopeGate(c) = "blocked" THEN "envelope" ELSE "open"

\* The gate result start_after_preflight acts on: freshness first, then the
\* envelope.  baseOk is FALSE when the runner sends a base SHA, a spec or an
\* envelope revision other than the admitted one.  The envelope's findings on
\* scope cannot appear here: they would have refused the creation.
StartGate(c, baseOk) ==
    IF ~(Fresh(c) /\ baseOk) THEN "stale"
    ELSE IF EnvelopeGate(c) = "blocked" THEN "envelope"
    ELSE "open"

StartAfterPreflight(r, c, verdict, baseOk) ==
    LET gate == StartGate(c, baseOk) IN
    /\ r \in claimants[c]
    /\ LifecycleAllowed("start_after_preflight", c, verdict)
    /\ AppendEvent(r, c, gate = "stale")
    /\ state' = [state EXCEPT ![c] =
                   CASE gate = "stale"    -> "blocked_stale"
                     [] gate = "envelope" -> "blocked_policy"
                     [] gate = "open"     -> "running"]
    /\ UNCHANGED delivery
    /\ ReportUnchanged

\* Mutant: projection debt is recorded as a state nobody knows.
CompletionStateUnknown(c, synced) ==
    IF Payload[c].projection = "external_required" /\ ~synced
    THEN "projection_debt" ELSE "completed"

\* CompletionAfterLocalEvidence.
CompletionState(c, synced) ==
    IF Payload[c].projection = "external_required" /\ ~synced
    THEN "completed_with_projection_debt" ELSE "completed"

\* DeliveryAfterLocalEvidence for a passing verdict.
DeliveryAction(c) ==
    IF /\ Payload[c].delivery = "workspace_patch_auto_on_pass"
       /\ EnvelopeGate(c) # "blocked"
    THEN "auto_apply" ELSE "manual_apply"

CompleteOrBlock(r, c, verdict, synced) ==
    /\ r \in claimants[c]
    /\ LifecycleAllowed("complete_or_block", c, verdict)
    /\ AppendEvent(r, c, TRUE)
    /\ state' = [state EXCEPT ![c] =
                   CASE verdict = "pass"    -> CompletionState(c, synced)
                     [] verdict = "failed"  -> "failed"
                     [] verdict = "blocked" -> "blocked_policy"
                     [] OTHER               -> @]
    /\ delivery' = IF verdict = "pass"
                     THEN [delivery EXCEPT ![c] = DeliveryAction(c)] ELSE delivery
    /\ ReportUnchanged

-----------------------------------------------------------------------------
(* Authors and the clock.                                                  *)

\* Every artifact update bumps the version, which is part of the hash; a
\* status change is an update.
Author(a, retiredNext) ==
    /\ revision[a] < MaxRevision
    /\ revision' = [revision EXCEPT ![a] = @ + 1]
    /\ retired' = retiredNext
    /\ UNCHANGED <<commissionVars, building, now>>

Revise(a)    == Author(a, retired)
Retire(a)    == a \notin retired /\ Author(a, retired \union {a})
Reinstate(a) == a \in retired /\ Author(a, retired \ {a})

Tick ==
    /\ now < MaxTime
    /\ now' = now + 1
    /\ UNCHANGED <<commissionVars, building, revision, retired>>

-----------------------------------------------------------------------------

Create ==
    \E k \in Creator :
        \/ \E c \in Commission, slice \in SliceChoices, initial \in CreateStates :
              \/ BeginCreate(k, c, slice, initial)
              \/ \E hashes \in CallerSnapshots(c), held \in CallerLeases :
                    BeginRawCreate(k, c, slice, initial, hashes, held)
        \/ PersistCreate(k)
        \/ AbandonCreate(k)

Report(r, c) ==
    \/ RecordRunEvent(r, c)
    \/ \E verdict \in Verdicts :
          \/ RecordPreflight(r, c, verdict)
          \/ \E baseOk \in BOOLEAN : StartAfterPreflight(r, c, verdict, baseOk)
          \/ \E synced \in BOOLEAN : CompleteOrBlock(r, c, verdict, synced)

Next ==
    \/ Create
    \/ \E r \in Runner, c \in Commission : Claim(r, c) \/ Report(r, c)
    \/ \E c \in Commission : Requeue(c) \/ Cancel(c)
    \/ \E a \in Artifact : Revise(a) \/ Retire(a) \/ Reinstate(a)
    \/ Tick

Spec == Init /\ [][Next]_vars

-----------------------------------------------------------------------------
(* The store as a lock manager: what it implements.                        *)

Held == {c \in Commission : state[c] \in Executing}
Done == {c \in Commission : state[c] \in Completion}

Locks == INSTANCE CommissionLocks WITH
    Prerequisites <- [c \in Commission |-> Payload[c].dependsOn],
    Overlap       <- {p \in Commission \X Commission : LocksetsConflict(p[1], p[2])},
    held          <- Held,
    done          <- Done

\* The store implements CommissionLocks: every handler is an acquire, a
\* release, a finish, or invisible to the executions.
ImplementsLocks == Locks!Spec

-----------------------------------------------------------------------------
(* Properties.                                                             *)

BuildType ==
    [pending : {TRUE}, id : Commission, slice : BOOLEAN, initial : CreateStates,
     snapshot : [decision : Nat, problem : Nat],
     lease : [runner : Runner \union {NoRunner}, at : Nat]]

\* Type invariant of the store.
TypeOK ==
    /\ state \in [Commission -> KnownStates \union {Absent}]
    /\ lease \in [Commission -> Runner \union {NoRunner}]
    /\ claimedAt \in [Commission -> Nat]
    /\ snapshot \in [Commission -> [decision : Nat, problem : Nat]]
    /\ sliced \in [Commission -> BOOLEAN]
    /\ closedRuns \in [Commission -> Nat]
    /\ lastRun \in [Commission -> [runner : Runner \union {NoRunner}, run : Nat]]
    /\ delivery \in [Commission -> {"none", "auto_apply", "manual_apply"}]
    /\ claimants \in [Commission -> SUBSET Runner]
    /\ building \in [Creator -> BuildType \union {NoBuild}]
    /\ revision \in [Artifact -> Nat]
    /\ retired \subseteq Artifact
    /\ now \in Nat

\* Two commissions whose repository and locksets overlap are never both
\* executing, whatever claims, requeues and late reports interleave.
LocksetExclusion ==
    \A c, d \in Commission :
        state[c] \in Executing /\ state[d] \in Executing => ~LocksetsConflict(c, d)

\* A commission executes, or has completed, only when all it depends on has
\* completed: nothing un-completes a dependency behind its back.
DependencyOrder ==
    \A c \in Commission :
        state[c] \in Executing \union Completion => DependenciesSatisfied(c)

\* Patches are applied automatically only for commissions that completed, and
\* a completed commission always has its delivery decided.
DeliveryOnlyAfterCompletion ==
    \A c \in Commission : delivery[c] # "none" <=> state[c] \in Completion

Stale(c) == state[c] # Absent /\ snapshot[c] # CurrentSnapshot(c)

\* Once the decision or the problem moved on, a commission that is not already
\* running can never run or complete, however often it is requeued and claimed.
StaleNeverRuns ==
    [][\A c \in Commission :
          LET Ran == {"running"} \union Completion IN
          Stale(c) /\ state[c] \notin Ran => state'[c] \notin Ran]_vars

\* A lease is lost in two ways only: an operator requeues or cancels, or, while
\* nobody executes the commission and the lease is younger than the age cap,
\* another claim replaces it.  So an old lease (a queued commission may be
\* created with one) keeps the commission from every runner until an operator
\* has looked at it, and no execution changes hands under its runner.
LeaseHandover ==
    [][\A c \in Commission :
          /\ lease[c] # NoRunner
          /\ lease'[c] # lease[c] \/ claimedAt'[c] # claimedAt[c]
          => \/ lease'[c] = NoRunner /\ state'[c] \in {"queued", "cancelled"}
             \/ state[c] \notin Executing /\ now - claimedAt[c] < LeaseAgeCap]_vars

\* Terminal is for ever: no late report, requeue or cancel changes the state,
\* the delivery decision or the log of a terminal commission.
TerminalIsAbsorbing ==
    [][\A c \in Commission :
          state[c] \in Terminal =>
            UNCHANGED <<state[c], lease[c], delivery[c], lastRun[c], closedRuns[c]>>]_vars

=============================================================================
