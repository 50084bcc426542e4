------------------------ MODULE WorkCommission_proofs ------------------------
(***************************************************************************)
(* TLAPS proofs about the WorkCommission store, for every set of           *)
(* commissions, runners, creators, artifacts and lock paths and for every  *)
(* payload.                                                                *)
(*                                                                         *)
(* The argument: every handler moves the state field of at most one        *)
(* commission, in one of five ways (lemma StepIsMove).  Exclusion, the     *)
(* order of dependencies and the refinement of CommissionLocks follow from *)
(* the five ways and not from the handlers.                                *)
(***************************************************************************)
EXTENDS WorkCommission, TLAPS

\* Callers create commissions in states from which nothing executes yet.  The
\* store accepts any known state, so the theorems say that they need this.
CreateIdle == CreateStates \cap (Executing \union Completion) = {}

\* An id under construction is not in the store, and only one call builds it.
BuildOK ==
    /\ \A k \in Creator : building[k].pending => state[building[k].id] = Absent
    /\ \A j, k \in Creator :
          /\ building[j].pending /\ building[k].pending
          /\ building[j].id = building[k].id
          => j = k

\* The ways a handler may move commission c to state s.
Admitted(c, s) == state[c] = Absent /\ s \in CreateStates
Acquired(c, s) ==
    /\ state[c] \in Runnable
    /\ s = "preflighting"
    /\ DependenciesSatisfied(c)
    /\ LocksetAvailable(c)
Kept(c, s)     == state[c] \in Executing /\ s \in Executing
Left(c, s) ==
    /\ state[c] \in Cancellable
    /\ s \in KnownStates \ (Executing \union Completion)
Completed(c, s) == state[c] = "running" /\ s \in Completion

Move(c, s) ==
    /\ state' = [state EXCEPT ![c] = s]
    /\ \/ Admitted(c, s)
       \/ Acquired(c, s)
       \/ Kept(c, s)
       \/ Left(c, s)
       \/ Completed(c, s)

-----------------------------------------------------------------------------
(* Facts about the operators of the model.                                 *)

\* The lock relation of two commissions does not depend on who asks.
LEMMA ConflictSymmetric ==
    ASSUME NEW c \in Commission, NEW d \in Commission, LocksetsConflict(c, d)
    PROVE  LocksetsConflict(d, c)
<1>1. PICK p \in Payload[c].lockset, q \in Payload[d].lockset : <<p, q>> \in PathsOverlap
  BY DEF LocksetsConflict
<1>2. Payload[c] \in PayloadType /\ Payload[d] \in PayloadType
  BY PayloadAssumption
<1>3. p \in LockPath /\ q \in LockPath
  BY <1>1, <1>2 DEF PayloadType
<1>4. <<q, p>> \in PathsOverlap
  BY <1>1, <1>3, OverlapAssumption
<1>5. QED
  BY <1>1, <1>4 DEF LocksetsConflict

\* A call that has something to persist holds a well-formed record.
LEMMA PendingBuild ==
    ASSUME TypeOK, NEW k \in Creator, building[k].pending
    PROVE  building[k] \in BuildType
<1>1. building[k] \in BuildType \union {NoBuild}
  BY DEF TypeOK
<1>2. building[k] # NoBuild
  BY DEF NoBuild
<1>3. QED
  BY <1>1, <1>2

\* The revisions a create call or a start gate reads are a snapshot.
LEMMA SnapshotType ==
    ASSUME TypeOK, NEW c \in Commission
    PROVE  CurrentSnapshot(c) \in [decision : Nat, problem : Nat]
<1>1. Payload[c] \in PayloadType
  BY PayloadAssumption
<1>2. Payload[c].decision \in Artifact /\ Payload[c].problem \in Artifact
  BY <1>1 DEF PayloadType
<1>3. QED
  BY <1>2 DEF TypeOK, CurrentSnapshot

\* The create handlers start a build of a well-formed record, insert one, or
\* give up.
LEMMA CreateSteps ==
    ASSUME TypeOK, Create
    PROVE  \E k \in Creator :
              \/ \E c \in Commission, f \in BuildType : f.id = c /\ StartBuild(k, c, f)
              \/ PersistCreate(k)
              \/ AbandonCreate(k)
<1> DEFINE Starts(k) == \E c \in Commission, f \in BuildType : f.id = c /\ StartBuild(k, c, f)
<1>1. NoLease \in [runner : Runner \union {NoRunner}, at : Nat]
  BY DEF NoLease
<1>2. ASSUME NEW k \in Creator, NEW c \in Commission, NEW slice \in SliceChoices,
             NEW initial \in CreateStates, BeginCreate(k, c, slice, initial)
      PROVE  Starts(k)
  <2>1. slice \in BOOLEAN
    BY CreateAssumption
  <2> DEFINE f == [pending |-> TRUE, id |-> c, slice |-> slice, initial |-> initial,
                   snapshot |-> CurrentSnapshot(c), lease |-> NoLease]
  <2>2. f \in BuildType /\ f.id = c
    BY <2>1, <1>1, SnapshotType DEF BuildType
  <2>3. StartBuild(k, c, f)
    BY <1>2 DEF BeginCreate
  <2>4. QED
    BY <2>2, <2>3
<1>3. ASSUME NEW k \in Creator, NEW c \in Commission, NEW slice \in SliceChoices,
             NEW initial \in CreateStates, NEW hashes \in CallerSnapshots(c),
             NEW held \in CallerLeases,
             BeginRawCreate(k, c, slice, initial, hashes, held)
      PROVE  Starts(k)
  <2>1. slice \in BOOLEAN
    BY CreateAssumption
  <2>2. hashes \in [decision : Nat, problem : Nat]
    <3>1. [decision |-> NoRevision, problem |-> NoRevision] \in [decision : Nat, problem : Nat]
      BY ConstantsAssumption DEF NoRevision
    <3>2. QED
      BY <3>1, SnapshotType DEF CallerSnapshots
  <2>3. held \in [runner : Runner \union {NoRunner}, at : Nat]
    BY <1>1 DEF CallerLeases, TypeOK
  <2> DEFINE f == [pending |-> TRUE, id |-> c, slice |-> slice, initial |-> initial,
                   snapshot |-> hashes, lease |-> held]
  <2>4. f \in BuildType /\ f.id = c
    BY <2>1, <2>2, <2>3 DEF BuildType
  <2>5. StartBuild(k, c, f)
    BY <1>3 DEF BeginRawCreate
  <2>6. QED
    BY <2>4, <2>5
<1>4. QED
  BY <1>2, <1>3 DEF Create

-----------------------------------------------------------------------------
(* Type correctness.                                                       *)

\* An empty store is well typed.
LEMMA InitTypeOK == Init => TypeOK
<1> SUFFICES ASSUME Init PROVE TypeOK
  OBVIOUS
<1>1. NoRun \in [runner : Runner \union {NoRunner}, run : Nat]
  BY DEF NoRun
<1> QED
  BY <1>1 DEF Init, TypeOK, Absent, NoBuild

\* Appending a runtime event keeps the log's fields well typed.
LEMMA AppendEventType ==
    ASSUME TypeOK, NEW r \in Runner, NEW c \in Commission, NEW closes \in BOOLEAN,
           AppendEvent(r, c, closes)
    PROVE  /\ closedRuns' \in [Commission -> Nat]
           /\ lastRun' \in [Commission -> [runner : Runner \union {NoRunner}, run : Nat]]
BY DEF TypeOK, AppendEvent

\* Every handler, author and tick keeps the types, one case per action.
LEMMA StepTypeOK == TypeOK /\ [Next]_vars => TypeOK'
<1> SUFFICES ASSUME TypeOK, [Next]_vars PROVE TypeOK'
  OBVIOUS
<1>1. ASSUME NEW k \in Creator, NEW c \in Commission, NEW f \in BuildType, StartBuild(k, c, f)
      PROVE  TypeOK'
  <2>1. building' \in [Creator -> BuildType \union {NoBuild}]
    BY <1>1 DEF StartBuild, TypeOK
  <2>2. QED
    BY <1>1, <2>1 DEF StartBuild, TypeOK, commissionVars
<1>2. ASSUME NEW k \in Creator, PersistCreate(k)
      PROVE  TypeOK'
  <2>1. building[k] \in BuildType
    BY <1>2, PendingBuild DEF PersistCreate
  <2>2. /\ building[k].id \in Commission
        /\ building[k].initial \in KnownStates
        /\ building[k].slice \in BOOLEAN
        /\ building[k].snapshot \in [decision : Nat, problem : Nat]
        /\ building[k].lease \in [runner : Runner \union {NoRunner}, at : Nat]
    BY <2>1, CreateAssumption DEF BuildType
  <2>3. /\ building[k].lease.runner \in Runner \union {NoRunner}
        /\ building[k].lease.at \in Nat
    BY <2>2
  <2>4. /\ state' \in [Commission -> KnownStates \union {Absent}]
        /\ snapshot' \in [Commission -> [decision : Nat, problem : Nat]]
        /\ sliced' \in [Commission -> BOOLEAN]
    BY <1>2, <2>2 DEF PersistCreate, TypeOK
  <2>5. /\ lease' \in [Commission -> Runner \union {NoRunner}]
        /\ claimedAt' \in [Commission -> Nat]
        /\ claimants' \in [Commission -> SUBSET Runner]
    BY <1>2, <2>2, <2>3 DEF PersistCreate, TypeOK
  <2>6. building' \in [Creator -> BuildType \union {NoBuild}]
    BY <1>2 DEF PersistCreate, TypeOK
  <2>7. QED
    BY <1>2, <2>4, <2>5, <2>6 DEF PersistCreate, TypeOK
<1>3. ASSUME NEW k \in Creator, AbandonCreate(k)
      PROVE  TypeOK'
  BY <1>3 DEF AbandonCreate, TypeOK, commissionVars
<1>4. ASSUME NEW r \in Runner, NEW c \in Commission, Claim(r, c)
      PROVE  TypeOK'
  <2>1. state' \in [Commission -> KnownStates \union {Absent}]
    BY <1>4 DEF Claim, TypeOK, KnownStates, Cancellable, Recoverable, Executing
  <2>2. /\ lease' \in [Commission -> Runner \union {NoRunner}]
        /\ claimedAt' \in [Commission -> Nat]
        /\ claimants' \in [Commission -> SUBSET Runner]
    BY <1>4 DEF Claim, TypeOK
  <2>3. QED
    BY <1>4, <2>1, <2>2 DEF Claim, TypeOK
<1>5. ASSUME NEW c \in Commission, NEW target \in KnownStates, ReleaseTo(c, target)
      PROVE  TypeOK'
  BY <1>5 DEF ReleaseTo, TypeOK
<1>6. ASSUME NEW r \in Runner, NEW c \in Commission, NEW verdict \in Verdicts,
             RecordPreflight(r, c, verdict)
      PROVE  TypeOK'
  <2>1. state' \in [Commission -> KnownStates \union {Absent}]
    BY <1>6 DEF RecordPreflight, TypeOK, KnownStates, Cancellable, Recoverable,
                OperatorDecision
  <2>2. QED
    BY <1>6, <2>1, AppendEventType DEF RecordPreflight, ReportUnchanged, TypeOK
<1>7. ASSUME NEW r \in Runner, NEW c \in Commission, RecordRunEvent(r, c)
      PROVE  TypeOK'
  BY <1>7, AppendEventType DEF RecordRunEvent, ReportUnchanged, TypeOK
<1>8. ASSUME NEW r \in Runner, NEW c \in Commission, NEW verdict \in Verdicts,
             NEW baseOk \in BOOLEAN, StartAfterPreflight(r, c, verdict, baseOk)
      PROVE  TypeOK'
  <2>1. StartGate(c, baseOk) \in {"stale", "envelope", "open"}
    BY DEF StartGate
  <2>2. state' \in [Commission -> KnownStates \union {Absent}]
    BY <1>8, <2>1 DEF StartAfterPreflight, TypeOK, KnownStates, Cancellable, Recoverable,
                      OperatorDecision, Executing
  <2>3. QED
    BY <1>8, <2>2, AppendEventType DEF StartAfterPreflight, ReportUnchanged, TypeOK
<1>9. ASSUME NEW r \in Runner, NEW c \in Commission, NEW verdict \in Verdicts,
             NEW synced \in BOOLEAN, CompleteOrBlock(r, c, verdict, synced)
      PROVE  TypeOK'
  <2>1. CompletionState(c, synced) \in KnownStates
    BY DEF CompletionState, KnownStates, Terminal, Completion
  <2>2. state' \in [Commission -> KnownStates \union {Absent}]
    BY <1>9, <2>1 DEF CompleteOrBlock, TypeOK, KnownStates, Cancellable, Recoverable,
                      OperatorDecision
  <2>3. delivery' \in [Commission -> {"none", "auto_apply", "manual_apply"}]
    BY <1>9 DEF CompleteOrBlock, TypeOK, DeliveryAction
  <2>4. QED
    BY <1>9, <2>2, <2>3, AppendEventType DEF CompleteOrBlock, ReportUnchanged, TypeOK
<1>10. ASSUME NEW a \in Artifact, NEW S \in SUBSET Artifact, Author(a, S)
       PROVE  TypeOK'
  BY <1>10 DEF Author, TypeOK, commissionVars
<1>11. CASE Tick
  BY <1>11 DEF Tick, TypeOK, commissionVars
<1>12. CASE UNCHANGED vars
  BY <1>12 DEF vars, commissionVars, TypeOK
<1>13. CASE Create
  BY <1>13, <1>1, <1>2, <1>3, CreateSteps
<1>14. ASSUME NEW r \in Runner, NEW c \in Commission, Claim(r, c) \/ Report(r, c)
       PROVE  TypeOK'
  BY <1>14, <1>4, <1>6, <1>7, <1>8, <1>9 DEF Report
<1>15. ASSUME NEW c \in Commission, Requeue(c) \/ Cancel(c)
       PROVE  TypeOK'
  <2>1. "queued" \in KnownStates /\ "cancelled" \in KnownStates
    BY DEF KnownStates, Cancellable, Recoverable, Runnable, Terminal
  <2>2. QED
    BY <1>15, <1>5, <2>1 DEF Requeue, Cancel
<1>16. ASSUME NEW a \in Artifact, Revise(a) \/ Retire(a) \/ Reinstate(a)
       PROVE  TypeOK'
  <2>1. retired \subseteq Artifact
    BY DEF TypeOK
  <2>2. QED
    BY <1>16, <1>10, <2>1 DEF Revise, Retire, Reinstate
<1>17. QED
  BY <1>11, <1>12, <1>13, <1>14, <1>15, <1>16 DEF Next

\* Whatever handlers, authors and the clock do, every field of the store keeps
\* its type; in particular no handler invents a state the lifecycle package
\* does not know.
THEOREM TypeCorrect == Spec => []TypeOK
<1>1. Init => TypeOK
  BY InitTypeOK
<1>2. TypeOK /\ [Next]_vars => TypeOK'
  BY StepTypeOK
<1>3. QED
  BY <1>1, <1>2, PTL DEF Spec

-----------------------------------------------------------------------------
(* What a step does to the state field.                                    *)

\* Which steps can make an id known to the store: only the insert.
LEMMA StepBuildOK ==
    ASSUME TypeOK, BuildOK, [Next]_vars
    PROVE  BuildOK'
<1>1. ASSUME UNCHANGED building,
             \A c \in Commission : state[c] = Absent => state'[c] = Absent
      PROVE  BuildOK'
  <2>1. \A k \in Creator : building[k].pending => building[k].id \in Commission
    BY PendingBuild DEF BuildType
  <2>2. QED
    BY <1>1, <2>1 DEF BuildOK
<1>2. ASSUME NEW k \in Creator, NEW c \in Commission, NEW f \in BuildType,
             f.id = c, StartBuild(k, c, f)
      PROVE  BuildOK'
  <2>1. /\ building'[k].id = c
        /\ \A j \in Creator \ {k} : building'[j] = building[j]
        /\ state' = state
    BY <1>2 DEF StartBuild, TypeOK, commissionVars
  <2>2. /\ state[c] = Absent
        /\ \A j \in Creator : building[j].pending => building[j].id # c
    BY <1>2 DEF StartBuild, IdUnused
  <2>3. QED
    BY <2>1, <2>2 DEF BuildOK
<1>3. ASSUME NEW k \in Creator, PersistCreate(k)
      PROVE  BuildOK'
  <2>1. building[k] \in BuildType
    BY <1>3, PendingBuild DEF PersistCreate
  <2>2. /\ ~building'[k].pending
        /\ \A j \in Creator \ {k} : building'[j] = building[j]
    BY <1>3 DEF PersistCreate, TypeOK, NoBuild
  <2>3. \A c \in Commission \ {building[k].id} : state'[c] = state[c]
    BY <1>3, <2>1 DEF PersistCreate, TypeOK, BuildType
  <2>4. \A j \in Creator \ {k} :
           building[j].pending =>
             building[j].id \in Commission \ {building[k].id}
    <3> SUFFICES ASSUME NEW j \in Creator \ {k}, building[j].pending
                 PROVE  building[j].id \in Commission \ {building[k].id}
      OBVIOUS
    <3>1. building[j] \in BuildType
      BY PendingBuild
    <3>2. building[j].id # building[k].id
      BY <1>3 DEF BuildOK, PersistCreate
    <3>3. QED
      BY <3>1, <3>2 DEF BuildType
  <2>5. QED
    BY <2>2, <2>3, <2>4 DEF BuildOK
<1>4. ASSUME NEW k \in Creator, AbandonCreate(k)
      PROVE  BuildOK'
  <2>1. /\ ~building'[k].pending
        /\ \A j \in Creator \ {k} : building'[j] = building[j]
        /\ state' = state
    BY <1>4 DEF AbandonCreate, TypeOK, NoBuild, commissionVars
  <2>2. QED
    BY <2>1 DEF BuildOK
<1>5. ASSUME NEW r \in Runner, NEW c \in Commission, Claim(r, c)
      PROVE  BuildOK'
  <2>1. state[c] # Absent
    BY <1>5 DEF Claim, RunnableForRequest, Runnable, Absent
  <2>2. QED
    BY <1>1, <1>5, <2>1 DEF Claim, TypeOK
<1>6. ASSUME NEW c \in Commission, Requeue(c) \/ Cancel(c)
      PROVE  BuildOK'
  <2>1. state[c] # Absent
    BY <1>6 DEF Requeue, Cancel, Cancellable, Recoverable, Runnable, Executing,
                OperatorDecision, Absent
  <2>2. QED
    BY <1>1, <1>6, <2>1 DEF Requeue, Cancel, ReleaseTo, TypeOK
<1>7. ASSUME NEW r \in Runner, NEW c \in Commission, Report(r, c)
      PROVE  BuildOK'
  <2>1. state[c] # Absent
    BY <1>7 DEF Report, RecordPreflight, RecordRunEvent, StartAfterPreflight,
                CompleteOrBlock, LifecycleAllowed, AllowedStates, Absent
  <2>2. /\ UNCHANGED building
        /\ \A d \in Commission \ {c} : state'[d] = state[d]
    BY <1>7 DEF Report, RecordPreflight, RecordRunEvent, StartAfterPreflight,
                CompleteOrBlock, ReportUnchanged, TypeOK
  <2>3. QED
    BY <1>1, <2>1, <2>2
<1>8. CASE UNCHANGED <<state, building>>
  BY <1>1, <1>8
<1>9. CASE Create
  BY <1>9, <1>2, <1>3, <1>4, CreateSteps
<1>10. ASSUME NEW a \in Artifact, Revise(a) \/ Retire(a) \/ Reinstate(a)
       PROVE  BuildOK'
  BY <1>8, <1>10 DEF Revise, Retire, Reinstate, Author, commissionVars
<1>11. CASE Tick \/ UNCHANGED vars
  BY <1>8, <1>11 DEF Tick, vars, commissionVars
<1>12. QED
  BY <1>5, <1>6, <1>7, <1>9, <1>10, <1>11 DEF Next

\* Every handler leaves the state field of the store alone or moves one
\* commission in one of the five ways.
LEMMA StepIsMove ==
    ASSUME TypeOK, BuildOK, [Next]_vars
    PROVE  \/ UNCHANGED state
           \/ \E c \in Commission, s \in KnownStates : Move(c, s)
<1> DEFINE Goal == \/ UNCHANGED state
                   \/ \E c \in Commission, s \in KnownStates : Move(c, s)
<1>1. ASSUME NEW k \in Creator, PersistCreate(k)
      PROVE  Goal
  <2>1. building[k] \in BuildType
    BY <1>1, PendingBuild DEF PersistCreate
  <2>2. /\ building[k].id \in Commission
        /\ building[k].initial \in CreateStates
        /\ building[k].initial \in KnownStates
    BY <2>1, CreateAssumption DEF BuildType
  <2>3. Move(building[k].id, building[k].initial)
    BY <1>1, <2>2 DEF PersistCreate, Move, Admitted, BuildOK
  <2>4. QED
    BY <2>2, <2>3
<1>2. CASE Create
  BY <1>1, <1>2, CreateSteps DEF StartBuild, AbandonCreate, commissionVars
<1>3. ASSUME NEW r \in Runner, NEW c \in Commission, Claim(r, c)
      PROVE  Goal
  <2>1. Move(c, "preflighting")
    BY <1>3 DEF Claim, RunnableForRequest, Move, Acquired
  <2>2. "preflighting" \in KnownStates
    BY DEF KnownStates, Cancellable, Recoverable, Executing
  <2>3. QED
    BY <2>1, <2>2
<1>4. ASSUME NEW c \in Commission, Requeue(c) \/ Cancel(c)
      PROVE  Goal
  <2>1. /\ "queued" \in KnownStates \ (Executing \union Completion)
        /\ "cancelled" \in KnownStates \ (Executing \union Completion)
    BY DEF KnownStates, Cancellable, Recoverable, Runnable, Terminal, Executing, Completion
  <2>2. CASE Requeue(c)
    BY <2>1, <2>2 DEF Requeue, ReleaseTo, Move, Left, Cancellable
  <2>3. CASE Cancel(c)
    BY <2>1, <2>3 DEF Cancel, ReleaseTo, Move, Left
  <2>4. QED
    BY <1>4, <2>2, <2>3
<1>5. {"blocked_stale", "blocked_policy", "failed"}
         \subseteq KnownStates \ (Executing \union Completion)
  BY DEF KnownStates, Cancellable, Recoverable, OperatorDecision, Executing, Completion
<1>6. ASSUME NEW r \in Runner, NEW c \in Commission, NEW verdict \in Verdicts,
             RecordPreflight(r, c, verdict)
      PROVE  Goal
  <2>1. state[c] \in Cancellable
    BY <1>6 DEF RecordPreflight, LifecycleAllowed, AllowedStates, Cancellable,
                Recoverable, Executing
  <2>2. CASE verdict = "blocked"
    <3>1. Move(c, "blocked_stale")
      BY <1>5, <1>6, <2>1, <2>2 DEF RecordPreflight, Move, Left
    <3>2. QED
      BY <1>5, <3>1
  <2>3. CASE verdict # "blocked"
    BY <1>6, <2>3 DEF RecordPreflight
  <2>4. QED
    BY <2>2, <2>3
<1>7. ASSUME NEW r \in Runner, NEW c \in Commission, NEW verdict \in Verdicts,
             NEW baseOk \in BOOLEAN, StartAfterPreflight(r, c, verdict, baseOk)
      PROVE  Goal
  <2>1. state[c] \in Executing /\ state[c] \in Cancellable
    BY <1>7 DEF StartAfterPreflight, LifecycleAllowed, AllowedStates, Cancellable,
                Recoverable, Executing
  <2>2. "running" \in Executing /\ "running" \in KnownStates
    BY DEF KnownStates, Cancellable, Recoverable, Executing
  <2>3. PICK s \in {"blocked_stale", "blocked_policy", "running"} :
           state' = [state EXCEPT ![c] = s]
    <3>1. StartGate(c, baseOk) \in {"stale", "envelope", "open"}
      BY DEF StartGate
    <3>2. QED
      BY <1>7, <3>1 DEF StartAfterPreflight
  <2>4. Move(c, s) /\ s \in KnownStates
    BY <1>5, <2>1, <2>2, <2>3 DEF Move, Kept, Left
  <2>5. QED
    BY <2>4
<1>8. ASSUME NEW r \in Runner, NEW c \in Commission, NEW verdict \in Verdicts,
             NEW synced \in BOOLEAN, CompleteOrBlock(r, c, verdict, synced)
      PROVE  Goal
  <2>1. state[c] = "running" /\ state[c] \in Cancellable
    BY <1>8 DEF CompleteOrBlock, LifecycleAllowed, AllowedStates, Cancellable,
                Recoverable, Executing
  <2>2. CompletionState(c, synced) \in Completion
    BY DEF CompletionState, Completion
  <2>3. PICK s \in Completion \union {"failed", "blocked_policy", "running"} :
           state' = [state EXCEPT ![c] = s]
    <3>1. CASE verdict = "pass"
      BY <1>8, <2>2, <3>1 DEF CompleteOrBlock
    <3>2. CASE verdict # "pass"
      BY <1>8, <2>1, <3>2 DEF CompleteOrBlock, Verdicts
    <3>3. QED
      BY <3>1, <3>2
  <2>4. "running" \in Executing /\ "running" \in KnownStates /\ Completion \subseteq KnownStates
    BY DEF KnownStates, Cancellable, Recoverable, Executing, Terminal
  <2>5. Move(c, s) /\ s \in KnownStates
    BY <1>5, <2>1, <2>3, <2>4 DEF Move, Kept, Left, Completed
  <2>6. QED
    BY <2>5
<1>9. ASSUME NEW r \in Runner, NEW c \in Commission, Report(r, c)
      PROVE  Goal
  BY <1>6, <1>7, <1>8, <1>9 DEF Report, RecordRunEvent
<1>10. ASSUME NEW a \in Artifact, Revise(a) \/ Retire(a) \/ Reinstate(a)
       PROVE  Goal
  BY <1>10 DEF Revise, Retire, Reinstate, Author, commissionVars
<1>11. CASE Tick \/ UNCHANGED vars
  BY <1>11 DEF Tick, vars, commissionVars
<1>12. QED
  BY <1>2, <1>3, <1>4, <1>9, <1>10, <1>11 DEF Next

-----------------------------------------------------------------------------
(* Exclusion and the order of dependencies.                                *)

LockInv == TypeOK /\ BuildOK /\ LocksetExclusion /\ DependencyOrder

\* An empty store executes nothing.
LEMMA InitLockInv == Init => LockInv
<1> SUFFICES ASSUME Init PROVE LockInv
  OBVIOUS
<1>1. TypeOK
  BY InitTypeOK
<1>2. \A c \in Commission : state[c] = Absent
  BY DEF Init
<1>3. Absent \notin Executing \union Completion
  BY DEF Absent, Executing, Completion
<1>4. LocksetExclusion /\ DependencyOrder
  BY <1>2, <1>3 DEF LocksetExclusion, DependencyOrder
<1>5. BuildOK
  BY DEF Init, BuildOK, NoBuild
<1>6. QED
  BY <1>1, <1>4, <1>5 DEF LockInv

\* Exclusion and dependency order survive each of the five moves of StepIsMove.
LEMMA StepLockInv ==
    ASSUME CreateIdle, LockInv, [Next]_vars
    PROVE  LockInv'
<1>1. TypeOK' /\ BuildOK'
  BY StepTypeOK, StepBuildOK DEF LockInv
<1>2. CASE UNCHANGED state
  <2>1. LocksetExclusion'
    BY <1>2 DEF LockInv, LocksetExclusion, LocksetsConflict
  <2>2. DependencyOrder'
    BY <1>2 DEF LockInv, DependencyOrder, DependenciesSatisfied
  <2>3. QED
    BY <1>1, <2>1, <2>2 DEF LockInv
<1>3. ASSUME NEW c \in Commission, NEW s \in KnownStates, Move(c, s)
      PROVE  LockInv'
  <2>1. state'[c] = s /\ \A d \in Commission \ {c} : state'[d] = state[d]
    BY <1>3 DEF Move, LockInv, TypeOK
  <2>2. \A d \in Commission : state[d] \in Completion => state'[d] \in Completion
    BY <1>3, <2>1 DEF Move, Admitted, Acquired, Kept, Left, Completed, Absent, Runnable,
         Executing, Completion, Cancellable, Recoverable, OperatorDecision
  <2>3. s \in Executing => state[c] \in Executing \/ LocksetAvailable(c)
    BY <1>3 DEF Move, Admitted, Acquired, Kept, Left, Completed, CreateIdle, Executing, Completion
  <2>4. LocksetExclusion'
    <3> SUFFICES ASSUME NEW a \in Commission, NEW b \in Commission,
                        state'[a] \in Executing, state'[b] \in Executing,
                        LocksetsConflict(a, b)
                 PROVE  FALSE
      BY DEF LocksetExclusion, LocksetsConflict
    <3>1. a # b
      BY DEF LocksetsConflict
    <3>2. LocksetsConflict(b, a)
      BY ConflictSymmetric
    <3>3. CASE a # c /\ b # c
      BY <2>1, <3>3 DEF LockInv, LocksetExclusion
    <3>4. CASE a = c
      BY <2>1, <2>3, <3>1, <3>4 DEF LockInv, LocksetExclusion, LocksetAvailable
    <3>5. CASE b = c
      BY <2>1, <2>3, <3>1, <3>2, <3>5 DEF LockInv, LocksetExclusion, LocksetAvailable
    <3>6. QED
      BY <3>3, <3>4, <3>5
  <2>5. s \in Executing \union Completion => DependenciesSatisfied(c)
    BY <1>3 DEF Move, Admitted, Acquired, Kept, Left, Completed, CreateIdle, LockInv,
         DependencyOrder, Executing, Completion
  <2>6. DependencyOrder'
    <3> SUFFICES ASSUME NEW a \in Commission, state'[a] \in Executing \union Completion,
                        NEW d \in Payload[a].dependsOn
                 PROVE  state'[d] \in Completion
      BY DEF DependencyOrder, DependenciesSatisfied
    <3>1. d \in Commission
      BY PayloadAssumption DEF PayloadType
    <3>2. DependenciesSatisfied(a)
      BY <2>1, <2>5 DEF LockInv, DependencyOrder
    <3>3. QED
      BY <2>2, <3>1, <3>2 DEF DependenciesSatisfied
  <2>7. QED
    BY <1>1, <2>4, <2>6 DEF LockInv
<1>4. QED
  BY <1>2, <1>3, StepIsMove DEF LockInv

\* Commissions that overlap in one repository never execute together, whatever
\* runners, late reports, operators and the clock do: claim_for_preflight is
\* the only way into execution and it looks at every executing commission.
THEOREM Exclusion == ASSUME CreateIdle PROVE Spec => []LocksetExclusion
<1>1. Init => LockInv
  BY InitLockInv
<1>2. LockInv /\ [Next]_vars => LockInv'
  BY StepLockInv
<1>3. LockInv => LocksetExclusion
  BY DEF LockInv
<1>4. QED
  BY <1>1, <1>2, <1>3, PTL DEF Spec

\* A commission that executes or has completed has all its dependencies
\* completed: completion is checked at the claim and never taken back.
THEOREM DependenciesComplete == ASSUME CreateIdle PROVE Spec => []DependencyOrder
<1>1. Init => LockInv
  BY InitLockInv
<1>2. LockInv /\ [Next]_vars => LockInv'
  BY StepLockInv
<1>3. LockInv => DependencyOrder
  BY DEF LockInv
<1>4. QED
  BY <1>1, <1>2, <1>3, PTL DEF Spec

-----------------------------------------------------------------------------
(* The store implements the abstract lock manager.                         *)

\* Every step of the store is an acquire, a release or a finish of
\* CommissionLocks, or leaves the executions as they are.
THEOREM LocksRefinement == ASSUME CreateIdle PROVE Spec => ImplementsLocks
<1>1. Init => Locks!Init
  BY DEF Init, Locks!Init, Held, Done, Absent, Executing, Completion
<1>2. Init => LockInv
  BY InitLockInv
<1>3. LockInv /\ [Next]_vars => LockInv'
  BY StepLockInv
<1>4. LockInv /\ [Next]_vars => [Locks!Next]_(Locks!vars)
  <2> SUFFICES ASSUME LockInv, [Next]_vars
               PROVE  [Locks!Next]_(Locks!vars)
    OBVIOUS
  <2>1. CASE UNCHANGED state
    BY <2>1 DEF Locks!vars, Held, Done
  <2>2. ASSUME NEW c \in Commission, NEW s \in KnownStates, Move(c, s)
        PROVE  [Locks!Next]_(Locks!vars)
    <3>1. state'[c] = s /\ \A d \in Commission \ {c} : state'[d] = state[d]
      BY <2>2 DEF Move, LockInv, TypeOK
    <3>2. CASE Admitted(c, s)
      <4>1. Held' = Held /\ Done' = Done
        BY <3>1, <3>2 DEF Held, Done, Admitted, CreateIdle, Absent, Executing, Completion
      <4>2. QED
        BY <4>1 DEF Locks!vars
    <3>3. CASE Acquired(c, s)
      <4>1. c \notin Held \union Done
        BY <3>3 DEF Acquired, Held, Done, Runnable, Executing, Completion
      <4>2. Held' = Held \union {c} /\ Done' = Done
        BY <3>1, <3>3 DEF Acquired, Held, Done, Runnable, Executing, Completion
      <4>3. Payload[c].dependsOn \subseteq Done
        BY <3>3, PayloadAssumption DEF Acquired, DependenciesSatisfied, Done, PayloadType
      <4>4. \A h \in Held : ~LocksetsConflict(c, h)
        BY <3>3 DEF Acquired, LocksetAvailable, Held
      <4>5. \A h \in Held : <<c, h>> \notin {p \in Commission \X Commission :
                                               LocksetsConflict(p[1], p[2])}
        BY <4>4
      <4>6. Locks!Acquire(c)
        BY <4>1, <4>2, <4>3, <4>5 DEF Locks!Acquire
      <4>7. QED
        BY <4>6 DEF Locks!Next
    <3>4. CASE Kept(c, s)
      <4>1. Held' = Held /\ Done' = Done
        BY <3>1, <3>4 DEF Held, Done, Kept, Executing, Completion
      <4>2. QED
        BY <4>1 DEF Locks!vars
    <3>5. CASE Left(c, s) /\ state[c] \in Executing
      <4>1. c \in Held /\ Held' = Held \ {c} /\ Done' = Done
        BY <3>1, <3>5 DEF Held, Done, Left, Executing, Completion
      <4>2. Locks!Release(c)
        BY <4>1 DEF Locks!Release
      <4>3. QED
        BY <4>2 DEF Locks!Next
    <3>6. CASE Left(c, s) /\ state[c] \notin Executing
      <4>1. state[c] \notin Completion
        BY <3>6 DEF Left, Cancellable, Recoverable, Runnable, Executing, OperatorDecision,
                    Completion
      <4>2. Held' = Held /\ Done' = Done
        BY <3>1, <3>6, <4>1 DEF Held, Done, Left
      <4>3. QED
        BY <4>2 DEF Locks!vars
    <3>7. CASE Completed(c, s)
      <4>1. c \in Held /\ Held' = Held \ {c} /\ Done' = Done \union {c}
        BY <3>1, <3>7 DEF Held, Done, Completed, Executing, Completion
      <4>2. Locks!Finish(c)
        BY <4>1 DEF Locks!Finish
      <4>3. QED
        BY <4>2 DEF Locks!Next
    <3>8. QED
      BY <2>2, <3>2, <3>3, <3>4, <3>5, <3>6, <3>7 DEF Move
  <2>3. QED
    BY <2>1, <2>2, StepIsMove DEF LockInv
<1>5. QED
  BY <1>1, <1>2, <1>3, <1>4, PTL DEF Spec, ImplementsLocks, Locks!Spec

-----------------------------------------------------------------------------
(* Leases and delivery decisions.                                          *)

Stopped == {"blocked_stale", "blocked_policy", "failed"}

\* A report goes to an executing commission, and decides its delivery exactly
\* when it completes it.
LEMMA ReportEffect ==
    ASSUME TypeOK, NEW r \in Runner, NEW c \in Commission, Report(r, c)
    PROVE  /\ state[c] \in Executing
           /\ UNCHANGED <<lease, claimedAt, claimants, building>>
           /\ \/ /\ \E s \in Executing \union Stopped : state' = [state EXCEPT ![c] = s]
                 /\ UNCHANGED delivery
              \/ /\ \E s \in Completion : state' = [state EXCEPT ![c] = s]
                 /\ \E a \in {"auto_apply", "manual_apply"} :
                       delivery' = [delivery EXCEPT ![c] = a]
<1> DEFINE Stays == /\ \E s \in Executing \union Stopped : state' = [state EXCEPT ![c] = s]
                    /\ UNCHANGED delivery
           Ends  == /\ \E s \in Completion : state' = [state EXCEPT ![c] = s]
                    /\ \E a \in {"auto_apply", "manual_apply"} :
                          delivery' = [delivery EXCEPT ![c] = a]
<1>1. UNCHANGED <<lease, claimedAt, claimants, building>>
  BY DEF Report, RecordRunEvent, RecordPreflight, StartAfterPreflight, CompleteOrBlock,
         ReportUnchanged
<1>2. state[c] \in Executing
  BY DEF Report, RecordRunEvent, RecordPreflight, StartAfterPreflight, CompleteOrBlock,
         LifecycleAllowed, AllowedStates, Executing
<1>3. state = [state EXCEPT ![c] = state[c]]
  BY DEF TypeOK
<1>4. ASSUME RecordRunEvent(r, c) PROVE Stays
  BY <1>2, <1>3, <1>4 DEF RecordRunEvent
<1>5. ASSUME NEW verdict \in Verdicts, RecordPreflight(r, c, verdict)
      PROVE  Stays
  <2>1. state' = [state EXCEPT ![c] = state[c]] \/ state' = [state EXCEPT ![c] = "blocked_stale"]
    BY <1>3, <1>5 DEF RecordPreflight
  <2>2. QED
    BY <1>2, <1>5, <2>1 DEF RecordPreflight, Stopped
<1>6. ASSUME NEW verdict \in Verdicts, NEW baseOk \in BOOLEAN,
             StartAfterPreflight(r, c, verdict, baseOk)
      PROVE  Stays
  <2>1. StartGate(c, baseOk) \in {"stale", "envelope", "open"}
    BY DEF StartGate
  <2>2. QED
    BY <1>6, <2>1 DEF StartAfterPreflight, Executing, Stopped
<1>7. ASSUME NEW verdict \in Verdicts, NEW synced \in BOOLEAN,
             CompleteOrBlock(r, c, verdict, synced)
      PROVE  Stays \/ Ends
  <2>1. CASE verdict = "pass"
    <3>1. CompletionState(c, synced) \in Completion
      BY DEF CompletionState, Completion
    <3>2. DeliveryAction(c) \in {"auto_apply", "manual_apply"}
      BY DEF DeliveryAction
    <3>3. state' = [state EXCEPT ![c] = CompletionState(c, synced)]
      BY <1>7, <2>1 DEF CompleteOrBlock
    <3>4. delivery' = [delivery EXCEPT ![c] = DeliveryAction(c)]
      BY <1>7, <2>1 DEF CompleteOrBlock
    <3>5. QED
      BY <3>1, <3>2, <3>3, <3>4
  <2>2. CASE verdict # "pass"
    <3>1. UNCHANGED delivery
      BY <1>7, <2>2 DEF CompleteOrBlock
    <3>2. \/ state' = [state EXCEPT ![c] = "failed"]
          \/ state' = [state EXCEPT ![c] = "blocked_policy"]
          \/ state' = [state EXCEPT ![c] = state[c]]
      BY <1>7, <2>2 DEF CompleteOrBlock
    <3>3. QED
      BY <1>2, <3>1, <3>2 DEF Stopped
  <2>3. QED
    BY <2>1, <2>2
<1>8. Stays \/ Ends
  BY <1>4, <1>5, <1>6, <1>7 DEF Report, RecordRunEvent
<1>9. QED
  BY <1>1, <1>2, <1>8

\* An execution has the lease of a runner that was given the commission.
ExecutionHeld ==
    \A c \in Commission : state[c] \in Executing => lease[c] \in claimants[c]

RecordInv == TypeOK /\ BuildOK /\ ExecutionHeld /\ DeliveryOnlyAfterCompletion

\* An empty store has neither leases nor deliveries.
LEMMA InitRecordInv == Init => RecordInv
<1> SUFFICES ASSUME Init PROVE RecordInv
  OBVIOUS
<1>1. TypeOK /\ BuildOK
  BY InitLockInv DEF LockInv
<1>2. ExecutionHeld
  BY DEF Init, ExecutionHeld, Absent, Executing
<1>3. DeliveryOnlyAfterCompletion
  BY DEF Init, DeliveryOnlyAfterCompletion, Absent, Completion
<1>4. QED
  BY <1>1, <1>2, <1>3 DEF RecordInv

\* Holders and deliveries follow the state field at every step.
LEMMA StepRecordInv ==
    ASSUME CreateIdle, RecordInv, [Next]_vars
    PROVE  RecordInv'
<1> DEFINE Facts == ExecutionHeld /\ DeliveryOnlyAfterCompletion
<1> USE DEF RecordInv
<1>1. TypeOK' /\ BuildOK'
  BY StepTypeOK, StepBuildOK
<1>2. ASSUME UNCHANGED <<state, lease, claimants, delivery>> PROVE Facts'
  BY <1>2 DEF ExecutionHeld, DeliveryOnlyAfterCompletion
<1>3. ASSUME NEW k \in Creator, PersistCreate(k)
      PROVE  Facts'
  <2>1. building[k] \in BuildType
    BY <1>3, PendingBuild DEF PersistCreate
  <2>2. PICK c \in Commission : c = building[k].id /\ state[c] = Absent
    BY <1>3, <2>1 DEF PersistCreate, BuildOK, BuildType
  <2>3. PICK s \in CreateStates : state' = [state EXCEPT ![c] = s]
    BY <1>3, <2>1, <2>2 DEF PersistCreate, BuildType
  <2>4. s \notin Executing \union Completion /\ Absent \notin Completion
    BY <2>3 DEF CreateIdle, Absent, Completion
  <2>5. /\ UNCHANGED delivery
        /\ \A d \in Commission \ {c} : lease'[d] = lease[d] /\ claimants'[d] = claimants[d]
    BY <1>3, <2>2 DEF PersistCreate, TypeOK
  <2>6. state'[c] = s /\ \A d \in Commission \ {c} : state'[d] = state[d]
    BY <2>3 DEF TypeOK
  <2>7. ExecutionHeld'
    BY <2>2, <2>4, <2>5, <2>6 DEF ExecutionHeld
  <2>8. DeliveryOnlyAfterCompletion'
    BY <2>2, <2>4, <2>5, <2>6 DEF DeliveryOnlyAfterCompletion
  <2>9. QED
    BY <2>7, <2>8
<1>4. ASSUME NEW r \in Runner, NEW c \in Commission, Claim(r, c)
      PROVE  Facts'
  <2>1. /\ state'[c] = "preflighting" /\ lease'[c] = r /\ r \in claimants'[c]
        /\ \A d \in Commission \ {c} : /\ state'[d] = state[d]
                                       /\ lease'[d] = lease[d]
                                       /\ claimants'[d] = claimants[d]
        /\ UNCHANGED delivery
        /\ state[c] \in Runnable
    BY <1>4 DEF Claim, TypeOK, RunnableForRequest
  <2>2. ExecutionHeld'
    BY <2>1 DEF ExecutionHeld
  <2>3. DeliveryOnlyAfterCompletion'
    BY <2>1 DEF DeliveryOnlyAfterCompletion, Runnable, Completion
  <2>4. QED
    BY <2>2, <2>3
<1>5. ASSUME NEW c \in Commission, NEW s \in {"queued", "cancelled"},
             state[c] \in Cancellable, ReleaseTo(c, s)
      PROVE  Facts'
  <2>1. /\ state'[c] = s
        /\ \A d \in Commission \ {c} : state'[d] = state[d] /\ lease'[d] = lease[d]
        /\ UNCHANGED <<delivery, claimants>>
    BY <1>5 DEF ReleaseTo, TypeOK
  <2>2. s \notin Executing \union Completion /\ state[c] \notin Completion
    BY <1>5 DEF Executing, Completion, Cancellable, Recoverable, Runnable, OperatorDecision
  <2>3. ExecutionHeld'
    BY <2>1, <2>2 DEF ExecutionHeld
  <2>4. DeliveryOnlyAfterCompletion'
    BY <2>1, <2>2 DEF DeliveryOnlyAfterCompletion
  <2>5. QED
    BY <2>3, <2>4
<1>6. ASSUME NEW r \in Runner, NEW c \in Commission, Report(r, c)
      PROVE  Facts'
  <2>1. PICK s \in Executing \union Stopped \union Completion :
           /\ state' = [state EXCEPT ![c] = s]
           /\ \/ s \notin Completion /\ UNCHANGED delivery
              \/ /\ s \in Completion
                 /\ \E a \in {"auto_apply", "manual_apply"} :
                       delivery' = [delivery EXCEPT ![c] = a]
    BY <1>6, ReportEffect DEF Executing, Stopped, Completion
  <2>2. state[c] \in Executing /\ UNCHANGED <<lease, claimants>>
    BY <1>6, ReportEffect
  <2>3. state'[c] = s /\ \A d \in Commission \ {c} : state'[d] = state[d]
    BY <2>1 DEF TypeOK
  <2>4. ExecutionHeld'
    BY <2>2, <2>3 DEF ExecutionHeld
  <2>5. state[c] \notin Completion
    BY <2>2 DEF Executing, Completion
  <2>6. DeliveryOnlyAfterCompletion'
    BY <2>1, <2>3, <2>5 DEF DeliveryOnlyAfterCompletion, TypeOK
  <2>7. QED
    BY <2>4, <2>6
<1>7. ASSUME Create PROVE Facts'
  BY <1>2, <1>3, <1>7, CreateSteps DEF StartBuild, AbandonCreate, commissionVars
<1>8. ASSUME NEW c \in Commission, Requeue(c) \/ Cancel(c)
      PROVE  Facts'
  BY <1>5, <1>8 DEF Requeue, Cancel, Cancellable
<1>9. ASSUME NEW a \in Artifact, Revise(a) \/ Retire(a) \/ Reinstate(a)
      PROVE  Facts'
  BY <1>2, <1>9 DEF Revise, Retire, Reinstate, Author, commissionVars
<1>10. ASSUME Tick \/ UNCHANGED vars PROVE Facts'
  BY <1>2, <1>10 DEF Tick, vars, commissionVars
<1>11. Facts'
  BY <1>4, <1>6, <1>7, <1>8, <1>9, <1>10 DEF Next
<1>12. QED
  BY <1>1, <1>11

\* An executing commission always has the lease of a runner it was given to:
\* the active_lease_missing attention cannot come up, whatever leases callers
\* send along with queued commissions.
THEOREM ExecutionsAreHeld == ASSUME CreateIdle PROVE Spec => []ExecutionHeld
<1>1. Init => RecordInv
  BY InitRecordInv
<1>2. RecordInv /\ [Next]_vars => RecordInv'
  BY StepRecordInv
<1>3. RecordInv => ExecutionHeld
  BY DEF RecordInv
<1>4. QED
  BY <1>1, <1>2, <1>3, PTL DEF Spec

\* Delivery is decided exactly for completed commissions.
THEOREM DeliveryDecided == ASSUME CreateIdle PROVE Spec => []DeliveryOnlyAfterCompletion
<1>1. Init => RecordInv
  BY InitRecordInv
<1>2. RecordInv /\ [Next]_vars => RecordInv'
  BY StepRecordInv
<1>3. RecordInv => DeliveryOnlyAfterCompletion
  BY DEF RecordInv
<1>4. QED
  BY <1>1, <1>2, <1>3, PTL DEF Spec

-----------------------------------------------------------------------------
(* What no step may do.                                                    *)

\* Base case of the invariant the action properties need.
LEMMA InitBuildInv == Init => TypeOK /\ BuildOK
  BY InitLockInv DEF LockInv

\* Step of the invariant the action properties need.
LEMMA StepBuildInv == TypeOK /\ BuildOK /\ [Next]_vars => (TypeOK /\ BuildOK)'
  BY StepTypeOK, StepBuildOK

Untouched(c) ==
    UNCHANGED <<state[c], lease[c], delivery[c], lastRun[c], closedRuns[c]>>

\* No handler has a terminal state among those it accepts.
LEMMA StepTerminal ==
    ASSUME TypeOK, BuildOK, [Next]_vars, NEW t \in Commission, state[t] \in Terminal
    PROVE  Untouched(t)
<1>1. /\ state[t] \notin Cancellable \union Runnable \union Executing \union Recoverable
      /\ state[t] # Absent
  BY DEF Terminal, Completion, Cancellable, Recoverable, Runnable, Executing,
         OperatorDecision, Absent
<1>2. ASSUME NEW k \in Creator, PersistCreate(k)
      PROVE  Untouched(t)
  <2>1. t # building[k].id
    BY <1>1, <1>2 DEF PersistCreate, BuildOK
  <2>2. QED
    BY <1>2, <2>1 DEF PersistCreate, TypeOK, Untouched
<1>3. ASSUME Create PROVE Untouched(t)
  BY <1>2, <1>3, CreateSteps DEF StartBuild, AbandonCreate, commissionVars, Untouched
<1>4. ASSUME NEW r \in Runner, NEW c \in Commission, Claim(r, c)
      PROVE  Untouched(t)
  <2>1. t # c
    BY <1>1, <1>4 DEF Claim, RunnableForRequest
  <2>2. QED
    BY <1>4, <2>1 DEF Claim, TypeOK, Untouched
<1>5. ASSUME NEW r \in Runner, NEW c \in Commission, Report(r, c)
      PROVE  Untouched(t)
  <2>1. t # c
    BY <1>1, <1>5, ReportEffect
  <2>2. state'[t] = state[t] /\ delivery'[t] = delivery[t] /\ UNCHANGED lease
    BY <1>5, <2>1, ReportEffect DEF TypeOK
  <2>3. lastRun'[t] = lastRun[t] /\ closedRuns'[t] = closedRuns[t]
    BY <1>5, <2>1 DEF Report, RecordRunEvent, RecordPreflight, StartAfterPreflight,
                      CompleteOrBlock, AppendEvent, TypeOK
  <2>4. QED
    BY <2>2, <2>3 DEF Untouched
<1>6. ASSUME NEW c \in Commission, Requeue(c) \/ Cancel(c)
      PROVE  Untouched(t)
  <2>1. t # c
    BY <1>1, <1>6 DEF Requeue, Cancel
  <2>2. QED
    BY <1>6, <2>1 DEF Requeue, Cancel, ReleaseTo, TypeOK, Untouched
<1>7. ASSUME NEW a \in Artifact, Revise(a) \/ Retire(a) \/ Reinstate(a)
      PROVE  Untouched(t)
  BY <1>7 DEF Revise, Retire, Reinstate, Author, commissionVars, Untouched
<1>8. ASSUME Tick \/ UNCHANGED vars PROVE Untouched(t)
  BY <1>8 DEF Tick, vars, commissionVars, Untouched
<1>9. QED
  BY <1>3, <1>4, <1>5, <1>6, <1>7, <1>8 DEF Next

\* completed, completed_with_projection_debt, cancelled and expired are for
\* ever: no late report, requeue or cancel touches such a commission.
THEOREM TerminalStays == Spec => TerminalIsAbsorbing
<1>1. Init => TypeOK /\ BuildOK
  BY InitBuildInv
<1>2. TypeOK /\ BuildOK /\ [Next]_vars => (TypeOK /\ BuildOK)'
  BY StepBuildInv
<1>3. TypeOK /\ BuildOK /\ [Next]_vars =>
        [\A c \in Commission :
            state[c] \in Terminal =>
              UNCHANGED <<state[c], lease[c], delivery[c], lastRun[c], closedRuns[c]>>]_vars
  BY StepTerminal DEF Untouched
<1>4. QED
  BY <1>1, <1>2, <1>3, PTL DEF Spec, TerminalIsAbsorbing

\* The two ways into a state that ran are closed for a stale commission.
LEMMA StepStale ==
    ASSUME TypeOK, BuildOK, [Next]_vars, NEW t \in Commission, Stale(t),
           state[t] \notin {"running"} \union Completion
    PROVE  state'[t] \notin {"running"} \union Completion
<1> DEFINE Ran == {"running"} \union Completion
<1>1. state[t] # Absent /\ ~Fresh(t)
  BY DEF Stale, Fresh
<1>2. ASSUME state'[t] = state[t] PROVE state'[t] \notin Ran
  BY <1>2
<1>3. ASSUME NEW k \in Creator, PersistCreate(k)
      PROVE  state'[t] \notin Ran
  <2>1. t # building[k].id
    BY <1>1, <1>3 DEF PersistCreate, BuildOK
  <2>2. QED
    BY <1>2, <1>3, <2>1 DEF PersistCreate, TypeOK
<1>4. ASSUME Create PROVE state'[t] \notin Ran
  BY <1>2, <1>3, <1>4, CreateSteps DEF StartBuild, AbandonCreate, commissionVars
<1>5. ASSUME NEW r \in Runner, NEW c \in Commission, Claim(r, c)
      PROVE  state'[t] \notin Ran
  BY <1>5 DEF Claim, TypeOK, Completion
<1>6. ASSUME NEW c \in Commission, Requeue(c) \/ Cancel(c)
      PROVE  state'[t] \notin Ran
  BY <1>6 DEF Requeue, Cancel, ReleaseTo, TypeOK, Completion
<1>7. ASSUME NEW r \in Runner, NEW c \in Commission, NEW verdict \in Verdicts,
             RecordPreflight(r, c, verdict)
      PROVE  state'[t] \notin Ran
  BY <1>7 DEF RecordPreflight, TypeOK, Completion
<1>8. ASSUME NEW r \in Runner, NEW c \in Commission, NEW verdict \in Verdicts,
             NEW baseOk \in BOOLEAN, StartAfterPreflight(r, c, verdict, baseOk)
      PROVE  state'[t] \notin Ran
  <2>1. CASE c # t
    BY <1>2, <1>8, <2>1 DEF StartAfterPreflight, TypeOK
  <2>2. CASE c = t
    <3>1. StartGate(c, baseOk) = "stale"
      BY <1>1, <2>2 DEF StartGate
    <3>2. state' = [state EXCEPT ![c] = "blocked_stale"]
      BY <1>8, <3>1 DEF StartAfterPreflight
    <3>3. state'[t] = "blocked_stale"
      BY <2>2, <3>2 DEF TypeOK
    <3>4. QED
      BY <3>3 DEF Completion
  <2>3. QED
    BY <2>1, <2>2
<1>9. ASSUME NEW r \in Runner, NEW c \in Commission, NEW verdict \in Verdicts,
             NEW synced \in BOOLEAN, CompleteOrBlock(r, c, verdict, synced)
      PROVE  state'[t] \notin Ran
  <2>1. state[c] = "running"
    BY <1>9 DEF CompleteOrBlock, LifecycleAllowed, AllowedStates
  <2>2. QED
    BY <1>2, <1>9, <2>1 DEF CompleteOrBlock, TypeOK
<1>10. ASSUME NEW r \in Runner, NEW c \in Commission, Report(r, c)
       PROVE  state'[t] \notin Ran
  BY <1>2, <1>7, <1>8, <1>9, <1>10 DEF Report, RecordRunEvent
<1>11. ASSUME NEW a \in Artifact, Revise(a) \/ Retire(a) \/ Reinstate(a)
       PROVE  state'[t] \notin Ran
  BY <1>2, <1>11 DEF Revise, Retire, Reinstate, Author, commissionVars
<1>12. ASSUME Tick \/ UNCHANGED vars PROVE state'[t] \notin Ran
  BY <1>2, <1>12 DEF Tick, vars, commissionVars
<1>13. QED
  BY <1>4, <1>5, <1>6, <1>10, <1>11, <1>12 DEF Next

\* The freshness gate of start_after_preflight is enough: a commission whose
\* decision or problem was revised before it ran never runs and never
\* completes, along any sequence of requeues, claims and reports.
THEOREM StaleIsHeldBack == Spec => StaleNeverRuns
<1>1. Init => TypeOK /\ BuildOK
  BY InitBuildInv
<1>2. TypeOK /\ BuildOK /\ [Next]_vars => (TypeOK /\ BuildOK)'
  BY StepBuildInv
<1>3. TypeOK /\ BuildOK /\ [Next]_vars =>
        [\A c \in Commission :
            LET Ran == {"running"} \union Completion IN
            Stale(c) /\ state[c] \notin Ran => state'[c] \notin Ran]_vars
  BY StepStale
<1>4. QED
  BY <1>1, <1>2, <1>3, PTL DEF Spec, StaleNeverRuns

-----------------------------------------------------------------------------
(* How a lease is lost.                                                    *)

\* A commission that was never created has no lease to lose.
AbsentUnleased == \A c \in Commission : state[c] = Absent => lease[c] = NoRunner

LeaseInv == TypeOK /\ BuildOK /\ AbsentUnleased

\* What LeaseHandover allows to happen to the lease of one commission.
HandedOver(c) ==
    /\ lease[c] # NoRunner
    /\ lease'[c] # lease[c] \/ claimedAt'[c] # claimedAt[c]
    => \/ lease'[c] = NoRunner /\ state'[c] \in {"queued", "cancelled"}
       \/ state[c] \notin Executing /\ now - claimedAt[c] < LeaseAgeCap

\* Every step treats the lease of a commission as LeaseHandover says, and no step
\* leaves an absent commission with a lease.
LEMMA StepLease ==
    ASSUME LeaseInv, [Next]_vars, NEW t \in Commission
    PROVE  HandedOver(t) /\ (state'[t] = Absent => lease'[t] = NoRunner)
<1> DEFINE Goal == HandedOver(t) /\ (state'[t] = Absent => lease'[t] = NoRunner)
<1> USE DEF LeaseInv
<1>0. state[t] = Absent => lease[t] = NoRunner
  BY DEF AbsentUnleased
<1>1. ASSUME lease'[t] = lease[t], claimedAt'[t] = claimedAt[t],
             state'[t] = Absent => state[t] = Absent
      PROVE  Goal
  BY <1>0, <1>1 DEF HandedOver
<1>2. ASSUME NEW k \in Creator, PersistCreate(k)
      PROVE  Goal
  <2>1. building[k] \in BuildType
    BY <1>2, PendingBuild DEF PersistCreate
  <2>2. CASE t # building[k].id
    <3>1. lease'[t] = lease[t] /\ claimedAt'[t] = claimedAt[t] /\ state'[t] = state[t]
      BY <1>2, <2>2 DEF PersistCreate, TypeOK
    <3>2. QED
      BY <1>1, <3>1
  <2>3. CASE t = building[k].id
    <3>1. state[t] = Absent
      BY <1>2, <2>3 DEF PersistCreate, BuildOK
    <3>2. state'[t] \in KnownStates
      BY <1>2, <2>1, <2>3, CreateAssumption DEF PersistCreate, TypeOK, BuildType
    <3>3. state'[t] # Absent
      BY <3>2 DEF KnownStates, Cancellable, Recoverable, Runnable, Executing,
                  OperatorDecision, Terminal, Completion, Absent
    <3>4. QED
      BY <1>0, <3>1, <3>3 DEF HandedOver
  <2>4. QED
    BY <2>2, <2>3
<1>3. ASSUME Create PROVE Goal
  BY <1>1, <1>2, <1>3, CreateSteps DEF StartBuild, AbandonCreate, commissionVars
<1>4. ASSUME NEW r \in Runner, NEW c \in Commission, Claim(r, c)
      PROVE  Goal
  <2>1. CASE t # c
    <3>1. lease'[t] = lease[t] /\ claimedAt'[t] = claimedAt[t] /\ state'[t] = state[t]
      BY <1>4, <2>1 DEF Claim, TypeOK
    <3>2. QED
      BY <1>1, <3>1
  <2>2. CASE t = c
    <3>1. state[t] \in Runnable /\ ~LeaseTooOld(t)
      BY <1>4, <2>2 DEF Claim, RunnableForRequest
    <3>2. state[t] \notin Executing
      BY <3>1 DEF Runnable, Executing
    <3>3. lease[t] # NoRunner => now - claimedAt[t] < LeaseAgeCap
      BY <3>1, ConstantsAssumption DEF LeaseTooOld, TypeOK
    <3>4. state'[t] = "preflighting"
      BY <1>4, <2>2 DEF Claim, TypeOK
    <3>5. QED
      BY <3>2, <3>3, <3>4 DEF HandedOver, Absent
  <2>3. QED
    BY <2>1, <2>2
<1>5. ASSUME NEW c \in Commission, NEW s \in {"queued", "cancelled"}, ReleaseTo(c, s)
      PROVE  Goal
  <2>1. CASE t # c
    <3>1. lease'[t] = lease[t] /\ claimedAt'[t] = claimedAt[t] /\ state'[t] = state[t]
      BY <1>5, <2>1 DEF ReleaseTo, TypeOK
    <3>2. QED
      BY <1>1, <3>1
  <2>2. CASE t = c
    <3>1. lease'[t] = NoRunner /\ state'[t] = s
      BY <1>5, <2>2 DEF ReleaseTo, TypeOK
    <3>2. QED
      BY <3>1 DEF HandedOver
  <2>3. QED
    BY <2>1, <2>2
<1>6. ASSUME NEW r \in Runner, NEW c \in Commission, Report(r, c)
      PROVE  Goal
  <2>1. UNCHANGED <<lease, claimedAt>>
    BY <1>6, ReportEffect
  <2>2. PICK s \in Executing \union Stopped \union Completion : state' = [state EXCEPT ![c] = s]
    BY <1>6, ReportEffect
  <2>3. s # Absent
    BY DEF Executing, Stopped, Completion, Absent
  <2>4. state'[t] = Absent => state[t] = Absent
    BY <2>2, <2>3 DEF TypeOK
  <2>5. QED
    BY <1>1, <2>1, <2>4
<1>7. ASSUME NEW c \in Commission, Requeue(c) \/ Cancel(c)
      PROVE  Goal
  BY <1>5, <1>7 DEF Requeue, Cancel
<1>8. ASSUME NEW a \in Artifact, Revise(a) \/ Retire(a) \/ Reinstate(a)
      PROVE  Goal
  BY <1>1, <1>8 DEF Revise, Retire, Reinstate, Author, commissionVars
<1>9. ASSUME Tick \/ UNCHANGED vars PROVE Goal
  BY <1>1, <1>9 DEF Tick, vars, commissionVars
<1>10. QED
  BY <1>3, <1>4, <1>6, <1>7, <1>8, <1>9 DEF Next

\* A lease is lost to an operator, or to another claim while it is younger than
\* the cap and nobody executes: a claim never takes over a lease whose age has
\* reached the cap, and reports never move one.
THEOREM LeasesAreHandedOver == Spec => LeaseHandover
<1>1. Init => LeaseInv
  BY InitBuildInv DEF LeaseInv, Init, AbsentUnleased
<1>2. LeaseInv /\ [Next]_vars => LeaseInv'
  BY StepBuildInv, StepLease DEF LeaseInv, AbsentUnleased
<1>3. LeaseInv /\ [Next]_vars =>
        [\A c \in Commission :
            /\ lease[c] # NoRunner
            /\ lease'[c] # lease[c] \/ claimedAt'[c] # claimedAt[c]
            => \/ lease'[c] = NoRunner /\ state'[c] \in {"queued", "cancelled"}
               \/ state[c] \notin Executing /\ now - claimedAt[c] < LeaseAgeCap]_vars
  BY StepLease DEF HandedOver
<1>4. QED
  BY <1>1, <1>2, <1>3, PTL DEF Spec, LeaseHandover

=============================================================================
