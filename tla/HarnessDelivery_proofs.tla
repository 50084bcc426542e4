----------------------- MODULE HarnessDelivery_proofs -----------------------
(***************************************************************************)
(* Proofs about HarnessDelivery, for any commissions, files and selection:  *)
(* deliveries stay in scope, spare the operator's edits, and a run that     *)
(* ends well has delivered what it was allowed to deliver.                  *)
(***************************************************************************)
EXTENDS HarnessDelivery, TLAPS

Authors == Commissions \cup {Operator}
Version == [head: SUBSET Authors, index: SUBSET Authors, work: SUBSET Authors]

\* The places of a process that applies a diff.
InApply == {"check", "patch", "copy", "add", "commit"}

CliState == [pc: InApply \cup {"idle", "poll", "hook", "wait", "stop", "deliver", "ok", "error"},
             for: {"none", "hook", "delivery", "operator"},
             com: Commissions \cup {NoOne}, files: SUBSET Files, todo: SUBSET Files]

Commission == [state: {"queued", "executing", "needs_human_review"} \cup Completion,
               stale: BOOLEAN, autoApply: BOOLEAN, autonomy: BOOLEAN]

\* The shape of the state.
TypeOK ==
    /\ com \in [Commissions -> Commission]
    /\ diff \in [Commissions -> SUBSET Files]
    /\ tree \in [Files -> Version]
    /\ cli \in [Process -> CliState]
    /\ seen \in SUBSET Commissions
    /\ next \in Nat \ {0}

-----------------------------------------------------------------------------
(* What holds of a process k, of the two.                                  *)

Raced(c, f) == <<c, f>> \in raced

\* The path is as HEAD has it.
Clean(f) == tree[f].work = tree[f].head /\ tree[f].index = tree[f].head

\* A process that applies a diff does so for a commission, and after the check
\* for files of its scope only; it still has new files to copy.
ScopeSound(k) ==
    /\ k.pc \in InApply => k.com \in Commissions
    /\ k.pc \in InApply \ {"check"} => k.files \subseteq Scope[k.com]
    /\ k.pc \in {"patch", "copy"} => k.todo \subseteq k.files \cap NewFiles

\* A path still to be copied over is clean, or somebody wrote it since the check.
TodoSound(k) ==
    k.pc \in {"patch", "copy"} => \A f \in k.todo : Clean(f) \/ Raced(k.com, f)

\* A delivery is of the whole workspace diff, which no longer changes; what it
\* has written so far is there, but for what others wrote meanwhile.
DeliverySound(k) ==
    (k.for = "delivery" /\ k.pc \in InApply \ {"check"}) =>
        /\ k.files = diff[k.com]
        /\ k.pc = "patch" => k.todo = k.files \cap NewFiles
        /\ k.pc = "copy" => \A f \in k.files \ k.todo : k.com \in tree[f].work \/ Raced(k.com, f)
        /\ k.pc \in {"add", "commit"} => \A f \in k.files : k.com \in tree[f].work \/ Raced(k.com, f)
        /\ k.pc = "commit" => \A f \in k.files : k.com \in tree[f].index \/ Raced(k.com, f)

CliSound(k) == ScopeSound(k) /\ TodoSound(k) /\ DeliverySound(k)

-----------------------------------------------------------------------------
(* What holds of the run.                                                  *)

\* The operator's own process delivers and commits nothing; only the hook and
\* the delivery apply for the run.
RolesApart ==
    /\ cli["hand"].pc \in {"idle", "ok", "error"} \/ cli["hand"].for = "operator"
    /\ cli["hand"].pc \notin {"add", "commit", "hook", "deliver"}
    /\ cli["run"].pc \in InApply => cli["run"].for \in {"hook", "delivery"}
    /\ cli["run"].pc \in {"add", "commit"} => cli["run"].for = "delivery"

\* The run is past watching.
Delivering == \/ cli["run"].pc \in {"deliver", "ok"}
              \/ cli["run"].pc \in InApply /\ cli["run"].for = "delivery"

Delivered(c) == \A f \in diff[c] : <<c, f>> \in landed \cup raced

\* Open-Sleigh has stopped by then, and everything before the place of the
\* delivery is delivered.
RunSound ==
    Delivering =>
        /\ ~sleigh
        /\ \A i \in 1 .. Len(Selected) :
              i < next /\ AutoDeliveryAllowed(Selected[i]) => Delivered(Selected[i])
        /\ cli["run"].pc = "ok" => next > Len(Selected)
        /\ cli["run"].pc \in InApply =>
              next \in 1 .. Len(Selected) /\ cli["run"].com = Selected[next]

\* Until then no delivery has been counted, unless the run has failed.
NotStarted == Delivering \/ cli["run"].pc = "error" \/ next = 1

\* The inductive invariant.
HarnessInv ==
    /\ TypeOK
    /\ \A p \in Process : CliSound(cli[p])
    /\ RolesApart
    /\ RunSound
    /\ NotStarted
    /\ StaysInScope

-----------------------------------------------------------------------------
(* Shapes.                                                                 *)

\* A process in none of the steps of an application.
LEMMA RestShapes ==
    ASSUME NEW x \in {"idle", "poll", "hook", "wait", "stop", "deliver", "ok", "error"}
    PROVE  /\ [Idle EXCEPT !.pc = x] \in CliState
           /\ [Idle EXCEPT !.pc = x].pc = x
           /\ [Idle EXCEPT !.pc = x].for = "none"
  BY DEF Idle, CliState

\* A process that starts an application.
LEMMA ApplyingShapes ==
    ASSUME NEW c \in Commissions, NEW for \in {"hook", "delivery", "operator"}
    PROVE  /\ Applying(c, for) \in CliState
           /\ Applying(c, for).pc = "check" /\ Applying(c, for).for = for /\ Applying(c, for).com = c
  BY DEF Applying, Idle, CliState, InApply

\* A process that goes to another place.
LEMMA CliGoes ==
    ASSUME NEW k \in CliState,
           NEW x \in InApply \cup {"idle", "poll", "hook", "wait", "stop", "deliver", "ok", "error"}
    PROVE  /\ [k EXCEPT !.pc = x] \in CliState
           /\ [k EXCEPT !.pc = x].pc = x /\ [k EXCEPT !.pc = x].for = k.for
           /\ [k EXCEPT !.pc = x].com = k.com /\ [k EXCEPT !.pc = x].files = k.files
           /\ [k EXCEPT !.pc = x].todo = k.todo
  BY DEF CliState

\* A process that has copied a file.
LEMMA CliCopies ==
    ASSUME NEW k \in CliState, NEW todo \in SUBSET Files
    PROVE  /\ [k EXCEPT !.todo = todo] \in CliState
           /\ [k EXCEPT !.todo = todo].pc = k.pc /\ [k EXCEPT !.todo = todo].for = k.for
           /\ [k EXCEPT !.todo = todo].com = k.com /\ [k EXCEPT !.todo = todo].files = k.files
           /\ [k EXCEPT !.todo = todo].todo = todo
  BY DEF CliState

\* A file whose working tree, index or HEAD is written.
LEMMA VersionShapes ==
    ASSUME NEW v \in Version, NEW set \in SUBSET Authors
    PROVE  /\ [v EXCEPT !.work = set] \in Version /\ [v EXCEPT !.work = set].work = set
           /\ [v EXCEPT !.work = set].index = v.index /\ [v EXCEPT !.work = set].head = v.head
           /\ [v EXCEPT !.index = set] \in Version /\ [v EXCEPT !.index = set].work = v.work
           /\ [v EXCEPT !.index = set].index = set /\ [v EXCEPT !.index = set].head = v.head
           /\ [v EXCEPT !.head = set] \in Version /\ [v EXCEPT !.head = set].work = v.work
           /\ [v EXCEPT !.head = set].index = v.index /\ [v EXCEPT !.head = set].head = set
<1>1. /\ [v EXCEPT !.work = set] \in Version /\ [v EXCEPT !.work = set].work = set
      /\ [v EXCEPT !.work = set].index = v.index /\ [v EXCEPT !.work = set].head = v.head
  BY DEF Version
<1>2. /\ [v EXCEPT !.index = set] \in Version /\ [v EXCEPT !.index = set].work = v.work
      /\ [v EXCEPT !.index = set].index = set /\ [v EXCEPT !.index = set].head = v.head
  BY DEF Version
<1>3. /\ [v EXCEPT !.head = set] \in Version /\ [v EXCEPT !.head = set].work = v.work
      /\ [v EXCEPT !.head = set].index = v.index /\ [v EXCEPT !.head = set].head = set
  BY DEF Version
<1> QED BY <1>1, <1>2, <1>3

\* One process moves.
LEMMA CliMoves ==
    ASSUME TypeOK, NEW p \in Process, NEW k \in CliState, cli' = [cli EXCEPT ![p] = k]
    PROVE  /\ cli' \in [Process -> CliState]
           /\ cli'[p] = k
           /\ \A q \in Process \ {p} : cli'[q] = cli[q]
  BY DEF TypeOK

\* The run goes to another place of its watch.
LEMMA RunMoves ==
    ASSUME TypeOK, NEW x \in {"hook", "wait", "stop", "poll", "deliver", "ok", "error"}, RunGoes(x)
    PROVE  /\ cli' \in [Process -> CliState]
           /\ cli'["run"].pc = x
           /\ cli'["hand"] = cli["hand"]
<1>1. cli["run"] \in CliState /\ "run" \in Process /\ "hand" \in Process
  BY DEF TypeOK, Process
<1> DEFINE k == [cli["run"] EXCEPT !.pc = x]
<1>2. k \in CliState /\ k.pc = x
  BY <1>1, CliGoes
<1>3. cli' = [cli EXCEPT !["run"] = k]
  BY DEF RunGoes
<1> HIDE DEF k
<1> QED BY <1>1, <1>2, <1>3, CliMoves

-----------------------------------------------------------------------------
(* What a step leaves alone.                                               *)

\* A file that is clean stays so, and what c wrote and staged of it stays.
Spares(c, f) ==
    /\ Clean(f) => Clean(f)'
    /\ c \in tree[f].work => c \in tree'[f].work
    /\ c \in tree[f].work /\ c \in tree[f].index => c \in tree'[f].index

\* The step spares every file of the application k, or counts as its race.
Undisturbed(k) ==
    k.pc \in InApply \ {"check"} =>
        \A f \in k.files : <<k.com, f>> \in raced' \/ Spares(k.com, f)

\* Once Open-Sleigh has stopped nothing more is written or finished.
Settled ==
    ~sleigh => /\ ~sleigh' /\ diff' = diff
               /\ \A c \in Commissions : AutoDeliveryAllowed(c)' => AutoDeliveryAllowed(c)

\* The history only grows.
Remembers == landed \subseteq landed' /\ raced \subseteq raced'

\* A file is staged, committed or left alone.
Gentle(f) ==
    \/ tree'[f] = tree[f]
    \/ /\ tree'[f].work = tree[f].work /\ tree'[f].head = tree[f].head
       /\ tree'[f].index = tree[f].work
    \/ /\ tree'[f].work = tree[f].work /\ tree'[f].index = tree[f].index
       /\ tree'[f].head = tree[f].index

\* Staging and committing disturb no application.
LEMMA GentleSpares ==
    ASSUME NEW f, Gentle(f), NEW c
    PROVE  Spares(c, f) /\ tree'[f].work = tree[f].work
  BY DEF Gentle, Spares, Clean

\* An application that a step does not disturb stays sound.
LEMMA UndisturbedIsSound ==
    ASSUME NEW k \in CliState, CliSound(k), Undisturbed(k), raced \subseteq raced',
           k.for = "delivery" /\ k.pc \in InApply => diff' = diff
    PROVE  CliSound(k)'
<1>1. ScopeSound(k)'
  BY DEF CliSound, ScopeSound
<1>2. TodoSound(k)'
  BY DEF CliSound, ScopeSound, TodoSound, Undisturbed, Spares, Raced, InApply
<1>3. DeliverySound(k)'
  <2> SUFFICES ASSUME k.for = "delivery", k.pc \in InApply \ {"check"}
               PROVE  DeliverySound(k)'
    BY DEF DeliverySound
  <2>1. /\ k.files = diff'[k.com]
        /\ k.pc = "patch" => k.todo = k.files \cap NewFiles
    BY DEF CliSound, DeliverySound
  <2>2. /\ k.pc = "copy" =>
              \A f \in k.files \ k.todo : k.com \in tree'[f].work \/ <<k.com, f>> \in raced'
        /\ k.pc \in {"add", "commit"} =>
              \A f \in k.files : k.com \in tree'[f].work \/ <<k.com, f>> \in raced'
    BY DEF CliSound, DeliverySound, Undisturbed, Spares, Raced
  <2>3. k.pc = "commit" =>
              \A f \in k.files : k.com \in tree'[f].index \/ <<k.com, f>> \in raced'
    BY DEF CliSound, DeliverySound, Undisturbed, Spares, Raced
  <2> QED BY <2>1, <2>2, <2>3 DEF DeliverySound, Raced
<1> QED BY <1>1, <1>2, <1>3 DEF CliSound

\* So does a process that a step leaves where it is.
LEMMA OthersAreSound ==
    ASSUME HarnessInv, NEW q \in Process, cli'[q] = cli[q], Undisturbed(cli[q]), Settled,
           raced \subseteq raced'
    PROVE  CliSound(cli[q])'
<1>1. PICK k : k = cli[q]
  OBVIOUS
<1>2. k \in CliState /\ CliSound(k)
  BY <1>1 DEF HarnessInv, TypeOK
<1>3. k.for = "delivery" /\ k.pc \in InApply => diff' = diff
  <2>1. k.for = "delivery" /\ k.pc \in InApply => Delivering
    BY <1>1 DEF HarnessInv, RolesApart, Delivering, Process, InApply
  <2> QED BY <2>1 DEF HarnessInv, RunSound, Settled
<1>4. Undisturbed(k)
  BY <1>1
<1>5. CliSound(k)'
  BY <1>2, <1>3, <1>4, UndisturbedIsSound
<1> QED BY <1>1, <1>5 DEF CliSound, ScopeSound, TodoSound, DeliverySound

\* A run that stays in its application, or where it is, stays sound.
LEMMA RunStays ==
    ASSUME HarnessInv, Settled, Remembers, next' = next,
           \/ cli'["run"] = cli["run"]
           \/ /\ cli["run"].pc \in InApply /\ cli'["run"].pc \in InApply
              /\ cli'["run"].for = cli["run"].for /\ cli'["run"].com = cli["run"].com
    PROVE  RunSound' /\ NotStarted'
<1>1. (Delivering' <=> Delivering) /\ (cli'["run"].pc \in InApply <=> cli["run"].pc \in InApply)
  BY DEF Delivering, InApply
<1>2. cli'["run"].pc = "ok" <=> cli["run"].pc = "ok"
  BY DEF InApply
<1>3. cli'["run"].pc = "error" <=> cli["run"].pc = "error"
  BY DEF InApply
<1>4. NotStarted'
  BY <1>1, <1>3 DEF HarnessInv, NotStarted
<1>5. RunSound'
  <2> SUFFICES ASSUME Delivering'
               PROVE  RunSound'
    BY DEF RunSound
  <2>1. ~sleigh /\ ~sleigh' /\ diff' = diff
    BY <1>1 DEF HarnessInv, RunSound, Settled
  <2>2. ASSUME NEW i \in 1 .. Len(Selected), i < next', AutoDeliveryAllowed(Selected[i])'
        PROVE  Delivered(Selected[i])'
    <3>1. Selected[i] \in Commissions
      BY HarnessAssumption
    <3>2. AutoDeliveryAllowed(Selected[i])
      BY <2>1, <2>2, <3>1 DEF Settled
    <3>3. Delivered(Selected[i])
      BY <1>1, <2>2, <3>2 DEF HarnessInv, RunSound
    <3> QED BY <2>1, <3>3 DEF Delivered, Remembers
  <2>3. cli'["run"].pc = "ok" => next' > Len(Selected)
    BY <1>1, <1>2 DEF HarnessInv, RunSound
  <2>4. cli'["run"].pc \in InApply =>
            next' \in 1 .. Len(Selected) /\ cli'["run"].com = Selected[next']
    BY <1>1 DEF HarnessInv, RunSound
  <2> QED BY <2>1, <2>2, <2>3, <2>4 DEF RunSound
<1> QED BY <1>4, <1>5

\* A run that is not delivering afterwards has nothing to answer for.
LEMMA RunWatches ==
    ASSUME HarnessInv, ~Delivering', next' = next,
           cli'["run"].pc = "error" \/ (~Delivering /\ cli["run"].pc # "error")
    PROVE  RunSound' /\ NotStarted'
  BY DEF HarnessInv, RunSound, NotStarted

\* A step of the store or the operator that moves neither process.
LEMMA QuietStep ==
    ASSUME HarnessInv, TypeOK', cli' = cli, next' = next, Settled, Remembers,
           \A f \in Files : Gentle(f)
    PROVE  HarnessInv'
<1>1. \A q \in Process : CliSound(cli[q])'
  <2> TAKE q \in Process
  <2>1. Undisturbed(cli[q])
    BY GentleSpares DEF Undisturbed, HarnessInv, TypeOK, CliState
  <2> QED BY <2>1, OthersAreSound DEF Remembers
<1>2. RolesApart'
  BY DEF HarnessInv, RolesApart
<1>3. RunSound' /\ NotStarted'
  BY RunStays
<1>4. StaysInScope'
  BY GentleSpares DEF HarnessInv, StaysInScope
<1> QED BY <1>1, <1>2, <1>3, <1>4 DEF HarnessInv

\* A process moves on and nobody writes.
LEMMA MoveStep ==
    ASSUME HarnessInv, NEW p \in Process, NEW k \in CliState, cli' = [cli EXCEPT ![p] = k],
           CliSound(k), UNCHANGED <<com, diff, tree, landed, raced>>, Settled,
           seen' \in SUBSET Commissions, next' \in Nat \ {0},
           RolesApart', RunSound', NotStarted'
    PROVE  HarnessInv'
<1>1. /\ cli' \in [Process -> CliState] /\ cli'[p] = k
      /\ \A q \in Process \ {p} : cli'[q] = cli[q]
  BY CliMoves DEF HarnessInv
<1>2. TypeOK'
  BY <1>1 DEF HarnessInv, TypeOK
<1>3. ASSUME NEW q \in Process PROVE CliSound(cli[q])'
  <2>1. PICK h : h = cli'[q]
    OBVIOUS
  <2>2. h \in CliState /\ CliSound(h)
    BY <1>1, <2>1 DEF HarnessInv, TypeOK
  <2> QED BY <2>1, <2>2 DEF CliSound, ScopeSound, TodoSound, DeliverySound, Clean, Raced
<1>4. StaysInScope'
  BY DEF HarnessInv, StaysInScope
<1> QED BY <1>2, <1>3, <1>4 DEF HarnessInv

\* A process that applies nothing has nothing to answer for.
LEMMA RestIsSound ==
    ASSUME NEW k, k.pc \notin InApply
    PROVE  CliSound(k)
  BY DEF CliSound, ScopeSound, TodoSound, DeliverySound, InApply

\* So has one that has yet to check.
LEMMA ApplyingIsSound ==
    ASSUME NEW c \in Commissions, NEW for \in {"hook", "delivery", "operator"}
    PROVE  CliSound(Applying(c, for))
<1>1. PICK k : k = Applying(c, for)
  OBVIOUS
<1>2. k.pc = "check" /\ k.com \in Commissions
  BY <1>1, ApplyingShapes
<1>3. CliSound(k)
  BY <1>2 DEF CliSound, ScopeSound, TodoSound, DeliverySound, InApply
<1> QED BY <1>1, <1>3

\* Where the store does not change, it is settled.
LEMMA SameStoreSettled ==
    ASSUME com' = com, diff' = diff, sleigh' = sleigh \/ sleigh' = FALSE
    PROVE  Settled
  BY DEF Settled, AutoDeliveryAllowed

-----------------------------------------------------------------------------
(* The runner's and the operator's steps.                                  *)

\* Each step of the store's commissions leaves them in shape.
LEMMA CommissionShapes ==
    ASSUME TypeOK, NEW c \in Commissions
    PROVE  /\ Claim(c) => com' \in [Commissions -> Commission]
           /\ Finish(c) => com' \in [Commissions -> Commission]
           /\ LeaseAges(c) => /\ com' \in [Commissions -> Commission]
                              /\ com'[c].state = "executing"
                              /\ \A d \in Commissions \ {c} : com'[d] = com[d]
           /\ Requeue(c) => /\ com' \in [Commissions -> Commission]
                            /\ com'[c].state = "queued"
                            /\ \A d \in Commissions \ {c} : com'[d] = com[d]
<1>1. com \in [Commissions -> Commission] /\ com[c] \in Commission
  BY DEF TypeOK
<1>2. ASSUME NEW k \in Commission, NEW s \in {"queued", "executing"}
      PROVE  /\ [k EXCEPT !.state = s, !.stale = FALSE] \in Commission
             /\ [k EXCEPT !.state = s, !.stale = FALSE].state = s
             /\ [k EXCEPT !.stale = TRUE] \in Commission
             /\ [k EXCEPT !.stale = TRUE].state = k.state
  BY DEF Commission
<1>3. ASSUME NEW k \in Commission, com' = [com EXCEPT ![c] = k]
      PROVE  /\ com' \in [Commissions -> Commission] /\ com'[c] = k
             /\ \A d \in Commissions \ {c} : com'[d] = com[d]
  BY <1>1, <1>3
<1>4. ASSUME Claim(c) PROVE com' \in [Commissions -> Commission]
  <2>1. com' = [com EXCEPT ![c] = [com[c] EXCEPT !.state = "executing", !.stale = FALSE]]
    BY <1>1, <1>4 DEF Claim
  <2> QED BY <1>1, <1>2, <1>3, <2>1
<1>5. ASSUME Finish(c) PROVE com' \in [Commissions -> Commission]
  <2>1. PICK s \in Completion \cup {"needs_human_review"}, apply \in BOOLEAN, autonomy \in BOOLEAN :
            com' = [com EXCEPT ![c] = [state |-> s, stale |-> FALSE,
                                       autoApply |-> apply, autonomy |-> autonomy]]
    BY <1>5 DEF Finish
  <2>2. [state |-> s, stale |-> FALSE, autoApply |-> apply, autonomy |-> autonomy] \in Commission
    BY DEF Commission
  <2> QED BY <1>3, <2>1, <2>2
<1>6. ASSUME LeaseAges(c)
      PROVE  /\ com' \in [Commissions -> Commission]
             /\ com'[c].state = "executing"
             /\ \A d \in Commissions \ {c} : com'[d] = com[d]
  <2>1. com' = [com EXCEPT ![c] = [com[c] EXCEPT !.stale = TRUE]] /\ com[c].state = "executing"
    BY <1>6 DEF LeaseAges
  <2> QED BY <1>1, <1>2, <1>3, <2>1
<1>7. ASSUME Requeue(c)
      PROVE  /\ com' \in [Commissions -> Commission]
             /\ com'[c].state = "queued"
             /\ \A d \in Commissions \ {c} : com'[d] = com[d]
  <2>1. com' = [com EXCEPT ![c] = [com[c] EXCEPT !.state = "queued", !.stale = FALSE]]
    BY <1>7 DEF Requeue
  <2> QED BY <1>1, <1>2, <1>3, <2>1
<1> QED BY <1>4, <1>5, <1>6, <1>7

\* Whatever the runner, a lease's age or a requeue does to the store.
LEMMA StoreKeeps ==
    ASSUME HarnessInv, NEW c \in Commissions,
           \/ Claim(c) \/ Finish(c) \/ LeaseAges(c) \/ Requeue(c) \/ SleighExits
           \/ \E f \in Files : AgentWrites(c, f)
    PROVE  HarnessInv'
<1>1. TypeOK
  BY DEF HarnessInv
<1>2. UNCHANGED <<tree, drain, cli, landed, raced>>
  BY DEF Claim, Finish, LeaseAges, Requeue, SleighExits, AgentWrites
<1>3. com' \in [Commissions -> Commission]
  <2>1. CASE SleighExits \/ \E f \in Files : AgentWrites(c, f)
    BY <1>1, <2>1 DEF TypeOK, SleighExits, AgentWrites
  <2> QED BY <1>1, <2>1, CommissionShapes
<1>4. diff' \in [Commissions -> SUBSET Files]
  BY <1>1 DEF TypeOK, Claim, Finish, LeaseAges, Requeue, SleighExits, AgentWrites
<1>5. TypeOK'
  BY <1>1, <1>2, <1>3, <1>4 DEF TypeOK, drain
<1>6. Settled
  <2>1. CASE sleigh
    BY <2>1 DEF Settled
  <2>2. CASE ~sleigh
    <3>1. (LeaseAges(c) \/ Requeue(c)) /\ sleigh' = sleigh /\ diff' = diff
      BY <2>2 DEF Claim, Finish, LeaseAges, Requeue, SleighExits, AgentWrites
    <3>2. /\ com'[c].state # "completed"
          /\ \A d \in Commissions \ {c} : com'[d] = com[d]
      BY <1>1, <3>1, CommissionShapes
    <3> QED BY <2>2, <3>1, <3>2 DEF Settled, AutoDeliveryAllowed
  <2> QED BY <2>1, <2>2
<1> QED BY <1>2, <1>5, <1>6, QuietStep DEF Remembers, Gentle, drain

\* Staging and committing by the operator.
LEMMA OperatorKeeps ==
    ASSUME HarnessInv, OperatorCommits \/ \E f \in Files : Stage(f)
    PROVE  HarnessInv'
<1>1. TypeOK /\ UNCHANGED <<store, drain, cli, raced>>
  BY DEF HarnessInv, OperatorCommits, Stage
<1>2. tree' \in [Files -> Version] /\ (\A f \in Files : Gentle(f)) /\ landed \subseteq landed'
  <2>1. CASE OperatorCommits
    <3> SUFFICES ASSUME NEW f \in Files PROVE tree'[f] \in Version /\ Gentle(f)
      BY <2>1 DEF OperatorCommits, Landing, Committed
    <3>1. tree'[f] = [tree[f] EXCEPT !.head = tree[f].index]
      BY <2>1 DEF OperatorCommits, Committed
    <3>2. tree[f] \in Version /\ tree[f].index \in SUBSET Authors
      BY <1>1 DEF TypeOK, Version
    <3>3. /\ tree'[f] \in Version /\ tree'[f].work = tree[f].work
          /\ tree'[f].index = tree[f].index /\ tree'[f].head = tree[f].index
      <4>1. PICK v : v = [tree[f] EXCEPT !.head = tree[f].index]
        OBVIOUS
      <4>2. /\ v \in Version /\ v.work = tree[f].work
            /\ v.index = tree[f].index /\ v.head = tree[f].index
        BY <3>2, <4>1, VersionShapes
      <4> QED BY <3>1, <4>1, <4>2
    <3> QED BY <3>3 DEF Gentle
  <2>2. ASSUME NEW g \in Files, Stage(g)
        PROVE tree' \in [Files -> Version] /\ (\A f \in Files : Gentle(f)) /\ landed \subseteq landed'
    <3>1. tree[g] \in Version /\ tree[g].work \in SUBSET Authors /\ tree \in [Files -> Version]
      BY <1>1 DEF TypeOK, Version
    <3>2. PICK v : v = [tree[g] EXCEPT !.index = tree[g].work]
      OBVIOUS
    <3>3. v \in Version /\ v.work = tree[g].work /\ v.index = tree[g].work /\ v.head = tree[g].head
      BY <3>1, <3>2, VersionShapes
    <3>4. tree' = [tree EXCEPT ![g] = v]
      BY <2>2, <3>2 DEF Stage
    <3>5. tree' \in [Files -> Version] /\ tree'[g] = v /\ \A f \in Files \ {g} : tree'[f] = tree[f]
      BY <3>1, <3>3, <3>4
    <3>6. \A f \in Files : Gentle(f)
      BY <3>3, <3>5 DEF Gentle
    <3> QED BY <2>2, <3>5, <3>6 DEF Stage
  <2> QED BY <2>1, <2>2
<1>3. TypeOK'
  BY <1>1, <1>2 DEF TypeOK, store, drain
<1>4. Settled
  BY <1>1, SameStoreSettled DEF store
<1> QED BY <1>1, <1>2, <1>3, <1>4, QuietStep DEF Remembers, drain

\* The operator's edit of a file races with the applications of that file.
LEMMA EditKeeps ==
    ASSUME HarnessInv, NEW f \in Files, Edit(f)
    PROVE  HarnessInv'
<1>1. TypeOK /\ UNCHANGED <<store, drain, cli, landed>>
  BY DEF HarnessInv, Edit
<1>2. PICK v : v = [tree[f] EXCEPT !.work = tree[f].work \cup {Operator}]
  OBVIOUS
<1>3. tree[f] \in Version /\ tree[f].work \cup {Operator} \in SUBSET Authors /\ tree \in [Files -> Version]
  BY <1>1 DEF TypeOK, Version, Authors
<1>4. v \in Version /\ v.work = tree[f].work \cup {Operator}
  BY <1>2, <1>3, VersionShapes
<1>5. tree' = [tree EXCEPT ![f] = v]
  BY <1>2 DEF Edit
<1>6. tree' \in [Files -> Version] /\ tree'[f] = v /\ \A g \in Files \ {f} : tree'[g] = tree[g]
  BY <1>3, <1>4, <1>5
<1>7. TypeOK'
  BY <1>1, <1>6 DEF TypeOK, store, drain
<1>8. Settled
  BY <1>1, SameStoreSettled DEF store
<1>9. Remembers
  BY <1>1 DEF Remembers, Edit, Races
<1>10. \A q \in Process : CliSound(cli[q])'
  <2> TAKE q \in Process
  <2>1. Undisturbed(cli[q])
    <3> SUFFICES ASSUME cli[q].pc \in InApply \ {"check"}, NEW g \in cli[q].files
                 PROVE  <<cli[q].com, g>> \in raced' \/ Spares(cli[q].com, g)
      BY DEF Undisturbed
    <3>1. CASE g = f
      BY <3>1 DEF Edit, Races, InDelivery, InApply
    <3>2. CASE g # f
      <4>1. g \in Files
        <5>1. cli[q] \in CliState
          BY <1>1 DEF TypeOK
        <5> QED BY <5>1 DEF CliState
      <4> QED BY <1>6, <3>2, <4>1 DEF Spares, Clean
    <3> QED BY <3>1, <3>2
  <2> QED BY <1>1, <1>8, <1>9, <2>1, OthersAreSound DEF Remembers
<1>11. RolesApart'
  BY <1>1 DEF HarnessInv, RolesApart
<1>12. RunSound' /\ NotStarted'
  BY <1>1, <1>8, <1>9, RunStays DEF drain
<1>13. StaysInScope'
  BY <1>4, <1>6, HarnessAssumption DEF HarnessInv, StaysInScope
<1> QED BY <1>7, <1>10, <1>11, <1>12, <1>13 DEF HarnessInv

-----------------------------------------------------------------------------
(* The run's steps between its deliveries.                                 *)

\* The run goes from one place of its watch to another.
LEMMA WatchStep ==
    ASSUME HarnessInv, cli["run"].pc \in {"poll", "hook", "wait", "stop"},
           NEW x \in {"hook", "wait", "stop", "poll", "error"}, RunGoes(x),
           UNCHANGED <<com, diff, tree, landed, raced, next>>,
           sleigh' = sleigh \/ sleigh' = FALSE,
           seen' \in SUBSET Commissions
    PROVE  HarnessInv'
<1>1. TypeOK /\ cli["run"] \in CliState /\ "run" \in Process /\ "hand" \in Process
  BY DEF HarnessInv, TypeOK, Process
<1>2. PICK k : k = [cli["run"] EXCEPT !.pc = x]
  OBVIOUS
<1>3. k \in CliState /\ k.pc = x
  BY <1>1, <1>2, CliGoes
<1>4. cli' = [cli EXCEPT !["run"] = k]
  BY <1>2 DEF RunGoes
<1>5. cli'["run"] = k /\ cli'["hand"] = cli["hand"]
  BY <1>1, <1>3, <1>4, CliMoves
<1>6. CliSound(k)
  BY <1>3, RestIsSound DEF InApply
<1>7. Settled
  BY SameStoreSettled
<1>8. RolesApart'
  BY <1>3, <1>5 DEF HarnessInv, RolesApart, InApply
<1>9. ~Delivering /\ cli["run"].pc # "error" /\ ~Delivering'
  BY <1>3, <1>5 DEF Delivering, InApply
<1>10. RunSound' /\ NotStarted'
  BY <1>9, RunWatches
<1> QED BY <1>1, <1>3, <1>4, <1>6, <1>7, <1>8, <1>10, MoveStep DEF HarnessInv, TypeOK

\* Polls, ticks, the end of the process and interrupts.
LEMMA WatchKeeps ==
    ASSUME HarnessInv,
           Poll \/ HookDone \/ WatchPoll \/ Tick \/ ProcessDone \/ Interrupt
    PROVE  HarnessInv'
<1>1. /\ UNCHANGED <<com, diff, tree, landed, raced, next>>
      /\ sleigh' = sleigh \/ sleigh' = FALSE
  BY DEF Poll, HookDone, WatchPoll, Tick, ProcessDone, Interrupt, store, drain
<1>2. seen' \in SUBSET Commissions
  BY DEF HarnessInv, TypeOK, Poll, HookDone, WatchPoll, Tick, ProcessDone, Interrupt, drain,
         ObservedIDs, OpenIDs
<1>3. cli["run"].pc \in {"poll", "hook", "wait", "stop"}
  BY DEF Poll, HookDone, WatchPoll, Tick, ProcessDone, Interrupt, RunAt, At
<1>4. \E x \in {"hook", "wait", "stop", "poll", "error"} : RunGoes(x)
  <2>1. CASE Poll
    BY <2>1 DEF Poll
  <2>2. CASE HookDone
    BY <2>2 DEF HookDone
  <2>3. CASE WatchPoll
    BY <2>3 DEF WatchPoll
  <2>4. CASE Tick
    BY <2>4 DEF Tick
  <2>5. CASE ProcessDone
    BY <2>5 DEF ProcessDone
  <2>6. CASE Interrupt
    BY <2>6 DEF Interrupt
  <2> QED BY <2>1, <2>2, <2>3, <2>4, <2>5, <2>6
<1> QED BY <1>1, <1>2, <1>3, <1>4, WatchStep

\* The hook starts an application, or passes over the commission.
LEMMA HookKeeps ==
    ASSUME HarnessInv, NEW c \in Commissions, Hook(c)
    PROVE  HarnessInv'
<1>1. TypeOK /\ "run" \in Process /\ "hand" \in Process /\ cli["run"].pc = "hook"
  BY DEF HarnessInv, Process, Hook, RunAt, At
<1>2. UNCHANGED <<com, diff, tree, landed, raced, sleigh, seen, next>>
  BY DEF Hook, store
<1>3. Settled
  BY <1>2, SameStoreSettled
<1>4. CASE ~ShouldAutoApply(c)
  <2>1. cli' = cli
    BY <1>4 DEF Hook
  <2>2. TypeOK'
    BY <1>1, <1>2, <2>1 DEF TypeOK
  <2> QED BY <1>2, <1>3, <2>1, <2>2, QuietStep DEF Remembers, Gentle
<1>5. CASE ShouldAutoApply(c)
  <2>1. PICK k : k = Applying(c, "hook")
    OBVIOUS
  <2>2. k \in CliState /\ k.pc = "check" /\ k.for = "hook" /\ CliSound(k)
    BY <2>1, ApplyingShapes, ApplyingIsSound
  <2>3. cli' = [cli EXCEPT !["run"] = k]
    BY <1>5, <2>1 DEF Hook
  <2>4. cli'["run"] = k /\ cli'["hand"] = cli["hand"]
    BY <1>1, <2>2, <2>3, CliMoves
  <2>5. RolesApart'
    BY <2>2, <2>4 DEF HarnessInv, RolesApart, InApply
  <2>6. ~Delivering /\ ~Delivering'
    BY <1>1, <2>2, <2>4 DEF Delivering, InApply
  <2>7. RunSound' /\ NotStarted'
    BY <1>1, <1>2, <2>6, RunWatches
  <2> QED BY <1>1, <1>2, <1>3, <2>2, <2>3, <2>5, <2>7, MoveStep DEF TypeOK
<1> QED BY <1>4, <1>5

\* The operator starts an application.
LEMMA ApplyByHandKeeps ==
    ASSUME HarnessInv, NEW c \in Commissions, ApplyByHand(c)
    PROVE  HarnessInv'
<1>1. TypeOK /\ "run" \in Process /\ "hand" \in Process
  BY DEF HarnessInv, Process
<1>2. UNCHANGED <<com, diff, tree, landed, raced, sleigh, seen, next>>
  BY DEF ApplyByHand, store, drain
<1>3. Settled
  BY <1>2, SameStoreSettled
<1>4. PICK k : k = Applying(c, "operator")
  OBVIOUS
<1>5. k \in CliState /\ k.pc = "check" /\ k.for = "operator" /\ CliSound(k)
  BY <1>4, ApplyingShapes, ApplyingIsSound
<1>6. cli' = [cli EXCEPT !["hand"] = k]
  BY <1>4 DEF ApplyByHand
<1>7. cli'["hand"] = k /\ cli'["run"] = cli["run"]
  BY <1>1, <1>5, <1>6, CliMoves
<1>8. RolesApart'
  BY <1>5, <1>7 DEF HarnessInv, RolesApart
<1>9. RunSound' /\ NotStarted'
  BY <1>2, <1>3, <1>7, RunStays DEF Remembers
<1> QED BY <1>1, <1>2, <1>3, <1>5, <1>6, <1>8, <1>9, MoveStep DEF TypeOK

\* The run stops watching, and stops Open-Sleigh before it delivers.
LEMMA StopKeeps ==
    ASSUME HarnessInv, Stop
    PROVE  HarnessInv'
<1>1. TypeOK /\ "run" \in Process /\ "hand" \in Process /\ cli["run"] \in CliState
  BY DEF HarnessInv, Process, TypeOK
<1>2. UNCHANGED <<com, diff, tree, landed, raced, seen, next>> /\ ~sleigh' /\ sleigh' = FALSE
  BY DEF Stop, drain
<1>3. Settled
  BY <1>2, SameStoreSettled
<1>4. PICK k : k = [cli["run"] EXCEPT !.pc = "deliver"]
  OBVIOUS
<1>5. k \in CliState /\ k.pc = "deliver"
  BY <1>1, <1>4, CliGoes
<1>6. cli' = [cli EXCEPT !["run"] = k]
  BY <1>4 DEF Stop, RunGoes
<1>7. cli'["run"] = k /\ cli'["hand"] = cli["hand"]
  BY <1>1, <1>5, <1>6, CliMoves
<1>8. RolesApart' /\ CliSound(k) /\ Delivering'
  BY <1>5, <1>7, RestIsSound DEF HarnessInv, RolesApart, InApply, Delivering
<1>9. next = 1
  BY DEF HarnessInv, NotStarted, Delivering, InApply, Stop, RunAt, At
<1>10. RunSound'
  BY <1>2, <1>5, <1>7, <1>9 DEF RunSound, InApply
<1>11. NotStarted'
  BY <1>8 DEF NotStarted
<1> QED BY <1>1, <1>2, <1>3, <1>5, <1>6, <1>8, <1>10, <1>11, MoveStep DEF TypeOK

\* The run turns to the next selected commission, or passes over it.
LEMMA DeliverKeeps ==
    ASSUME HarnessInv, Deliver
    PROVE  HarnessInv'
<1>1. /\ TypeOK /\ "run" \in Process /\ "hand" \in Process /\ cli["run"].pc = "deliver"
      /\ next \in 1 .. Len(Selected) /\ Selected[next] \in Commissions /\ Len(Selected) \in Nat
  BY HarnessAssumption DEF HarnessInv, Process, TypeOK, Deliver, RunAt, At
<1>2. UNCHANGED <<com, diff, tree, landed, raced, sleigh, seen>>
  BY DEF Deliver, store
<1>3. Settled
  BY <1>2, SameStoreSettled
<1>4. Delivering /\ RunSound
  BY <1>1 DEF Delivering, HarnessInv
<1>5. CASE AutoDeliveryAllowed(Selected[next])
  <2>1. PICK k : k = Applying(Selected[next], "delivery")
    OBVIOUS
  <2>2. /\ k \in CliState /\ k.pc = "check" /\ k.for = "delivery" /\ k.com = Selected[next]
        /\ CliSound(k)
    BY <1>1, <2>1, ApplyingShapes, ApplyingIsSound
  <2>3. cli' = [cli EXCEPT !["run"] = k] /\ next' = next
    BY <1>5, <2>1 DEF Deliver
  <2>4. cli'["run"] = k /\ cli'["hand"] = cli["hand"]
    BY <1>1, <2>2, <2>3, CliMoves
  <2>5. RolesApart' /\ Delivering'
    BY <2>2, <2>4 DEF HarnessInv, RolesApart, InApply, Delivering
  <2>6. RunSound'
    BY <1>1, <1>2, <1>4, <2>2, <2>3, <2>4 DEF RunSound, AutoDeliveryAllowed, Delivered
  <2>7. NotStarted'
    BY <2>5 DEF NotStarted
  <2> QED BY <1>1, <1>2, <1>3, <2>2, <2>3, <2>5, <2>6, <2>7, MoveStep DEF TypeOK
<1>6. CASE ~AutoDeliveryAllowed(Selected[next])
  <2>1. cli' = cli /\ next' = next + 1
    BY <1>6 DEF Deliver
  <2>2. TypeOK'
    BY <1>1, <1>2, <2>1 DEF TypeOK
  <2>3. \A q \in Process : CliSound(cli[q])'
    BY <1>2, <2>1 DEF HarnessInv, CliSound, ScopeSound, TodoSound, DeliverySound, Clean, Raced
  <2>4. RolesApart' /\ Delivering' /\ StaysInScope'
    BY <1>2, <1>4, <2>1 DEF HarnessInv, RolesApart, Delivering, StaysInScope
  <2>5. RunSound'
    <3>1. \A i \in 1 .. Len(Selected) : i < next + 1 => i < next \/ i = next
      BY <1>1
    <3> QED BY <1>1, <1>2, <1>4, <1>6, <2>1, <3>1
        DEF RunSound, AutoDeliveryAllowed, Delivered, InApply
  <2>6. NotStarted'
    BY <2>4 DEF NotStarted
  <2> QED BY <2>2, <2>3, <2>4, <2>5, <2>6 DEF HarnessInv
<1> QED BY <1>5, <1>6

\* The run ends when no selected commission is left.
LEMMA RunEndsKeeps ==
    ASSUME HarnessInv, RunEnds
    PROVE  HarnessInv'
<1>1. /\ TypeOK /\ "run" \in Process /\ "hand" \in Process /\ cli["run"] \in CliState
      /\ cli["run"].pc = "deliver" /\ next > Len(Selected)
  BY DEF HarnessInv, Process, TypeOK, RunEnds, RunAt, At
<1>2. UNCHANGED <<com, diff, tree, landed, raced, sleigh, seen, next>>
  BY DEF RunEnds, store, drain
<1>3. Settled
  BY <1>2, SameStoreSettled
<1>4. PICK k : k = [cli["run"] EXCEPT !.pc = "ok"]
  OBVIOUS
<1>5. k \in CliState /\ k.pc = "ok"
  BY <1>1, <1>4, CliGoes
<1>6. cli' = [cli EXCEPT !["run"] = k]
  BY <1>4 DEF RunEnds, RunGoes
<1>7. cli'["run"] = k /\ cli'["hand"] = cli["hand"]
  BY <1>1, <1>5, <1>6, CliMoves
<1>8. RolesApart' /\ CliSound(k) /\ Delivering' /\ Delivering /\ RunSound
  BY <1>1, <1>5, <1>7, RestIsSound DEF HarnessInv, RolesApart, InApply, Delivering
<1>9. RunSound'
  BY <1>1, <1>2, <1>5, <1>7, <1>8 DEF RunSound, InApply, AutoDeliveryAllowed, Delivered
<1>10. NotStarted'
  BY <1>8 DEF NotStarted
<1> QED BY <1>1, <1>2, <1>3, <1>5, <1>6, <1>8, <1>9, <1>10, MoveStep DEF TypeOK

-----------------------------------------------------------------------------
(* The steps of an application.                                            *)

\* Whom a process in its application applies for.
LEMMA Roles ==
    ASSUME HarnessInv, NEW p \in Process, cli[p].pc \in InApply
    PROVE  /\ p = "hand" => cli[p].for = "operator"
           /\ p = "run" => cli[p].for \in {"hook", "delivery"}
           /\ cli[p].pc \in {"add", "commit"} => p = "run" /\ cli[p].for = "delivery"
  BY DEF HarnessInv, RolesApart, InApply, Process

\* An application that gives up, or that the hook has carried out.
LEMMA RestStep ==
    ASSUME HarnessInv, NEW p \in Process, cli[p].pc \in InApply,
           NEW x \in {"hook", "error", "ok"},
           cli' = [cli EXCEPT ![p] = [Idle EXCEPT !.pc = x]],
           x = "hook" => cli[p].for = "hook",
           x = "ok" => cli[p].for = "operator",
           UNCHANGED <<com, diff, tree, landed, raced, sleigh, seen, next>>
    PROVE  HarnessInv'
<1>1. /\ TypeOK /\ "run" \in Process /\ "hand" \in Process
      /\ p = "run" \/ p = "hand"
  BY DEF HarnessInv, Process
<1>2. Settled
  BY SameStoreSettled
<1>3. PICK k : k = [Idle EXCEPT !.pc = x]
  OBVIOUS
<1>4. k \in CliState /\ k.pc = x /\ cli' = [cli EXCEPT ![p] = k]
  BY <1>3, RestShapes
<1>5. CliSound(k)
  BY <1>4, RestIsSound DEF InApply
<1>6. cli'[p] = k /\ \A q \in Process \ {p} : cli'[q] = cli[q]
  BY <1>1, <1>4, CliMoves
<1>7. CASE p = "run"
  <2>1. cli'["run"].pc = x /\ cli'["hand"] = cli["hand"] /\ x # "ok"
    BY <1>1, <1>4, <1>6, <1>7, Roles
  <2>2. RolesApart'
    BY <2>1 DEF HarnessInv, RolesApart, InApply
  <2>3. ~Delivering' /\ (x = "hook" => ~Delivering /\ cli["run"].pc # "error")
    BY <1>7, <2>1 DEF Delivering, InApply
  <2>4. RunSound' /\ NotStarted'
    BY <2>1, <2>3, RunWatches
  <2> QED BY <1>1, <1>2, <1>4, <1>5, <2>2, <2>4, MoveStep DEF TypeOK
<1>8. CASE p = "hand"
  <2>1. cli'["hand"].pc = x /\ cli'["run"] = cli["run"] /\ x # "hook"
    BY <1>1, <1>4, <1>6, <1>8, Roles
  <2>2. RolesApart'
    BY <2>1 DEF HarnessInv, RolesApart, InApply
  <2>3. RunSound' /\ NotStarted'
    BY <1>2, <2>1, RunStays DEF Remembers
  <2> QED BY <1>1, <1>2, <1>4, <1>5, <2>2, <2>3, MoveStep DEF TypeOK
<1> QED BY <1>1, <1>7, <1>8

\* A failed application.
LEMMA FailKeeps ==
    ASSUME HarnessInv, NEW p \in Process, cli[p].pc \in InApply, Fail(p)
    PROVE  HarnessInv'
<1>1. UNCHANGED <<com, diff, tree, landed, raced, sleigh, seen, next>>
  BY DEF Fail, store
<1>2. CASE cli[p].for = "hook"
  <2>1. cli' = [cli EXCEPT ![p] = [Idle EXCEPT !.pc = "hook"]]
    BY <1>2 DEF Fail
  <2> QED BY <1>1, <1>2, <2>1, RestStep
<1>3. CASE cli[p].for # "hook"
  <2>1. cli' = [cli EXCEPT ![p] = [Idle EXCEPT !.pc = "error"]]
    BY <1>3 DEF Fail
  <2> QED BY <1>1, <2>1, RestStep
<1> QED BY <1>2, <1>3

\* An application goes on to its next place: what of the run and of the roles
\* does not depend on what it writes.
LEMMA ApplicationGoesOn ==
    ASSUME HarnessInv, Settled, Remembers, next' = next, NEW p \in Process, cli[p].pc \in InApply,
           NEW k \in CliState, cli' = [cli EXCEPT ![p] = k],
           k.pc \in InApply, k.for = cli[p].for, k.com = cli[p].com,
           k.pc \in {"add", "commit"} => k.for = "delivery"
    PROVE  RolesApart' /\ RunSound' /\ NotStarted'
<1>1. /\ cli'[p] = k /\ \A q \in Process \ {p} : cli'[q] = cli[q]
      /\ "run" \in Process /\ "hand" \in Process /\ (p = "run" \/ p = "hand")
  BY CliMoves DEF HarnessInv, Process
<1>2. RolesApart'
  <2>1. CASE p = "run"
    BY <1>1, <2>1, Roles DEF HarnessInv, RolesApart
  <2>2. CASE p = "hand"
    BY <1>1, <2>2, Roles DEF HarnessInv, RolesApart, InApply
  <2> QED BY <1>1, <2>1, <2>2
<1>3. RunSound' /\ NotStarted'
  BY <1>1, RunStays
<1> QED BY <1>2, <1>3

\* The check of a diff and of the checkout.
LEMMA CheckKeeps ==
    ASSUME HarnessInv, NEW p \in Process, Check(p)
    PROVE  HarnessInv'
<1>1. cli[p].pc = "check" /\ cli[p].pc \in InApply /\ TypeOK /\ cli[p] \in CliState
  BY DEF Check, At, InApply, HarnessInv, TypeOK
<1>2. CASE Fail(p)
  BY <1>1, <1>2, FailKeeps
<1>3. CASE ~Fail(p)
  <2>1. PICK c : c = cli[p].com
    OBVIOUS
  <2>2. c \in Commissions /\ diff[c] \in SUBSET Files
    BY <1>1, <2>1 DEF HarnessInv, CliSound, ScopeSound, TypeOK
  <2>3. PICK k : k = [cli[p] EXCEPT !.pc = "patch", !.files = diff[c], !.todo = diff[c] \cap NewFiles]
    OBVIOUS
  <2>4. /\ CanApply(c) /\ cli' = [cli EXCEPT ![p] = k]
        /\ UNCHANGED <<com, diff, tree, landed, raced, sleigh, seen, next>>
    BY <1>3, <2>1, <2>3 DEF Check, store, drain
  <2>5. /\ k \in CliState /\ k.pc = "patch" /\ k.for = cli[p].for /\ k.com = c
        /\ k.files = diff[c] /\ k.todo = diff[c] \cap NewFiles
    <3>1. PICK h \in CliState, fs \in SUBSET Files, todo \in SUBSET Files :
              h = cli[p] /\ fs = diff[c] /\ todo = diff[c] \cap NewFiles
      BY <1>1, <2>2
    <3>2. k = [h EXCEPT !.pc = "patch", !.files = fs, !.todo = todo]
      BY <2>3, <3>1
    <3>3. /\ k \in CliState /\ k.pc = "patch" /\ k.for = h.for /\ k.com = h.com
          /\ k.files = fs /\ k.todo = todo
      BY <3>2 DEF CliState, InApply
    <3> QED BY <2>1, <3>1, <3>3
  <2>6. CliSound(k)
    <3>1. ScopeSound(k)
      BY <2>2, <2>4, <2>5 DEF ScopeSound, CanApply
    <3>2. TodoSound(k)
      BY <2>2, <2>4, <2>5 DEF TodoSound, CanApply, Dirty, Clean
    <3>3. DeliverySound(k)
      BY <2>5 DEF DeliverySound
    <3> QED BY <3>1, <3>2, <3>3 DEF CliSound
  <2>7. Settled
    BY <2>4, SameStoreSettled
  <2>8. RolesApart' /\ RunSound' /\ NotStarted'
    BY <1>1, <2>1, <2>4, <2>5, <2>7, ApplicationGoesOn DEF Remembers, InApply
  <2> QED BY <1>1, <2>4, <2>5, <2>6, <2>7, <2>8, MoveStep DEF TypeOK
<1> QED BY <1>2, <1>3

\* All is applied: the hook and the operator are done, a delivery commits.
LEMMA AppliedKeeps ==
    ASSUME HarnessInv, NEW p \in Process, Applied(p)
    PROVE  HarnessInv'
<1>1. /\ cli[p].pc = "copy" /\ cli[p].pc \in InApply /\ cli[p].todo = {}
      /\ TypeOK /\ cli[p] \in CliState
  BY DEF Applied, At, InApply, HarnessInv, TypeOK
<1>2. UNCHANGED <<com, diff, tree, landed, raced, sleigh, seen, next>>
  BY DEF Applied, store
<1>3. CASE cli[p].for = "hook" /\ cli' = [cli EXCEPT ![p] = [Idle EXCEPT !.pc = "hook"]]
  BY <1>1, <1>2, <1>3, RestStep
<1>4. CASE cli[p].for = "operator" /\ cli' = [cli EXCEPT ![p] = [Idle EXCEPT !.pc = "ok"]]
  BY <1>1, <1>2, <1>4, RestStep
<1>5. CASE cli[p].for = "delivery" /\ cli' = [cli EXCEPT ![p].pc = "add"]
  <2>1. PICK h : h = cli[p]
    OBVIOUS
  <2>2. PICK k : k = [h EXCEPT !.pc = "add"]
    OBVIOUS
  <2>3. /\ k \in CliState /\ k.pc = "add" /\ k.for = h.for /\ k.com = h.com
        /\ k.files = h.files /\ cli' = [cli EXCEPT ![p] = k]
    <3>1. h \in CliState /\ "add" \in InApply
      BY <1>1, <2>1 DEF InApply
    <3>2. cli' = [cli EXCEPT ![p] = k]
      BY <1>5, <2>1, <2>2
    <3> QED BY <2>2, <3>1, <3>2, CliGoes
  <2>4. CliSound(h)
    BY <2>1 DEF HarnessInv
  <2>5. CliSound(k)
    <3>1. ScopeSound(k)
      BY <1>1, <2>1, <2>3, <2>4 DEF CliSound, ScopeSound, InApply
    <3>2. TodoSound(k)
      BY <2>3 DEF TodoSound
    <3>3. DeliverySound(k)
      BY <1>1, <1>5, <2>1, <2>3, <2>4 DEF CliSound, DeliverySound, InApply
    <3> QED BY <3>1, <3>2, <3>3 DEF CliSound
  <2>6. Settled
    BY <1>2, SameStoreSettled
  <2>7. RolesApart' /\ RunSound' /\ NotStarted'
    BY <1>1, <1>2, <1>5, <2>1, <2>3, <2>6, ApplicationGoesOn DEF Remembers, InApply
  <2> QED BY <1>1, <1>2, <2>3, <2>5, <2>6, <2>7, MoveStep DEF TypeOK
<1> QED BY <1>3, <1>4, <1>5 DEF Applied

\* A step of an application that writes to the checkout.
LEMMA WriteStep ==
    ASSUME HarnessInv, NEW p \in Process, NEW k \in CliState, cli' = [cli EXCEPT ![p] = k],
           CliSound(k)', UNCHANGED <<com, diff, sleigh, seen>>, Remembers,
           \A q \in Process \ {p} : Undisturbed(cli[q]),
           tree' \in [Files -> Version], next' \in Nat \ {0},
           RolesApart', RunSound', NotStarted', StaysInScope'
    PROVE  HarnessInv'
<1>1. /\ cli' \in [Process -> CliState] /\ cli'[p] = k
      /\ \A q \in Process \ {p} : cli'[q] = cli[q]
  BY CliMoves DEF HarnessInv
<1>2. TypeOK'
  BY <1>1 DEF HarnessInv, TypeOK
<1>3. ASSUME NEW q \in Process PROVE CliSound(cli[q])'
  <2>1. CASE q = p
    BY <1>1, <2>1 DEF CliSound, ScopeSound, TodoSound, DeliverySound
  <2>2. CASE q # p
    BY <1>1, <2>2, OthersAreSound, SameStoreSettled DEF Remembers
  <2> QED BY <2>1, <2>2
<1> QED BY <1>2, <1>3 DEF HarnessInv

\* git apply: the patch is written into the working tree.
LEMMA GitApplyKeeps ==
    ASSUME HarnessInv, NEW p \in Process, GitApply(p)
    PROVE  HarnessInv'
<1>1. cli[p].pc = "patch" /\ cli[p].pc \in InApply /\ TypeOK
  BY DEF GitApply, At, InApply, HarnessInv
<1>2. CASE Fail(p)
  BY <1>1, <1>2, FailKeeps
<1>3. CASE ~Fail(p)
  <2>1. PICK h \in CliState : h = cli[p]
    BY <1>1 DEF TypeOK
  <2>2. PICK patch : patch = (h.files \ NewFiles) \cap diff[h.com]
    OBVIOUS
  <2>3. PICK k : k = [h EXCEPT !.pc = "copy"]
    OBVIOUS
  <2>4. /\ k \in CliState /\ k.pc = "copy" /\ k.for = h.for /\ k.com = h.com
        /\ k.files = h.files /\ k.todo = h.todo
    <3>1. "copy" \in InApply
      BY DEF InApply
    <3> QED BY <2>3, <3>1, CliGoes
  <2>5. /\ tree' = [f \in Files |-> IF f \in patch
                        THEN [tree[f] EXCEPT !.work = @ \cup {h.com}] ELSE tree[f]]
        /\ raced' = raced \cup UNION {Races(Process \ {p}, f) : f \in patch}
        /\ cli' = [cli EXCEPT ![p].pc = "copy"]
        /\ UNCHANGED <<com, diff, sleigh, seen, next, landed>>
    BY <1>3, <2>1, <2>2 DEF GitApply, Patch, store, drain
  <2>6. cli' = [cli EXCEPT ![p] = k]
    BY <2>1, <2>3, <2>5
  <2>7. CliSound(h)
    BY <2>1 DEF HarnessInv
  <2>8. h.com \in Commissions /\ h.files \subseteq Scope[h.com] /\ h.todo \subseteq h.files \cap NewFiles
    BY <1>1, <2>1, <2>7 DEF CliSound, ScopeSound, InApply
  <2>9. h.files \subseteq Files /\ patch \subseteq h.files \ NewFiles
    BY <2>2 DEF CliState
  <2>10. ASSUME NEW f \in Files
         PROVE  /\ tree'[f] \in Version
                /\ f \in patch => tree'[f].work = tree[f].work \cup {h.com}
                /\ f \notin patch => tree'[f] = tree[f]
    <3>1. CASE f \notin patch
      BY <1>1, <2>5, <3>1 DEF TypeOK
    <3>2. CASE f \in patch
      <4>1. PICK v : v = [tree[f] EXCEPT !.work = tree[f].work \cup {h.com}]
        OBVIOUS
      <4>2. tree[f] \in Version /\ tree[f].work \cup {h.com} \in SUBSET Authors
        BY <1>1, <2>8 DEF TypeOK, Version, Authors
      <4>3. v \in Version /\ v.work = tree[f].work \cup {h.com}
        BY <4>1, <4>2, VersionShapes
      <4>4. tree'[f] = v
        BY <2>5, <3>2, <4>1
      <4> QED BY <3>2, <4>3, <4>4
    <3> QED BY <3>1, <3>2
  <2>11. Remembers
    BY <2>5 DEF Remembers
  <2>12. CliSound(k)'
    <3>1. ScopeSound(k)'
      BY <2>4, <2>8 DEF ScopeSound
    <3>2. TodoSound(k)'
      <4> SUFFICES ASSUME NEW f \in h.todo PROVE Clean(f)' \/ <<h.com, f>> \in raced'
        BY <2>4 DEF TodoSound, Raced
      <4>1. tree'[f] = tree[f]
        BY <2>8, <2>9, <2>10
      <4>2. Clean(f) \/ <<h.com, f>> \in raced
        BY <1>1, <2>1, <2>7 DEF CliSound, TodoSound, Raced
      <4> QED BY <2>11, <4>1, <4>2 DEF Clean, Remembers
    <3>3. DeliverySound(k)'
      <4> SUFFICES ASSUME h.for = "delivery"
                   PROVE  /\ h.files = diff[h.com]
                          /\ \A f \in h.files \ h.todo : h.com \in tree'[f].work
        BY <2>4, <2>5 DEF DeliverySound
      <4>1. h.files = diff[h.com] /\ h.todo = h.files \cap NewFiles
        BY <1>1, <2>1, <2>7 DEF CliSound, DeliverySound, InApply
      <4> QED BY <2>2, <2>9, <2>10, <4>1
    <3> QED BY <3>1, <3>2, <3>3 DEF CliSound
  <2>13. ASSUME NEW q \in Process \ {p} PROVE Undisturbed(cli[q])
    <3> SUFFICES ASSUME cli[q].pc \in InApply \ {"check"}, NEW g \in cli[q].files
                 PROVE  <<cli[q].com, g>> \in raced' \/ Spares(cli[q].com, g)
      BY DEF Undisturbed
    <3>1. CASE g \in patch
      <4>1. <<cli[q].com, g>> \in Races(Process \ {p}, g)
        BY DEF Races, InDelivery, InApply
      <4> QED BY <2>5, <3>1, <4>1
    <3>2. CASE g \notin patch
      <4>1. g \in Files
        <5>1. cli[q] \in CliState
          BY <1>1 DEF TypeOK
        <5> QED BY <5>1 DEF CliState
      <4> QED BY <2>10, <3>2, <4>1 DEF Spares, Clean
    <3> QED BY <3>1, <3>2
  <2>14. RolesApart' /\ RunSound' /\ NotStarted'
    <3>1. k.pc \in InApply /\ k.pc \notin {"add", "commit"} /\ Settled
      BY <2>4, <2>5, SameStoreSettled DEF InApply
    <3> QED BY <1>1, <2>1, <2>4, <2>5, <2>6, <2>11, <3>1, ApplicationGoesOn
  <2>15. StaysInScope'
    <3> SUFFICES ASSUME NEW f \in Files, NEW c \in Commissions, c \in tree'[f].work
                 PROVE  f \in Scope[c]
      BY DEF StaysInScope
    <3>1. c \in tree[f].work \/ (c = h.com /\ f \in patch)
      BY <2>10
    <3> QED BY <2>8, <2>9, <3>1 DEF HarnessInv, StaysInScope
  <2>16. tree' \in [Files -> Version]
    BY <2>5, <2>10
  <2> QED BY <1>1, <2>4, <2>5, <2>6, <2>11, <2>12, <2>13, <2>14, <2>15, <2>16, WriteStep DEF TypeOK
<1> QED BY <1>2, <1>3

\* A new file is copied over.
LEMMA CopyKeeps ==
    ASSUME HarnessInv, NEW p \in Process, NEW f \in Files, Copy(p, f)
    PROVE  HarnessInv'
<1>1. cli[p].pc = "copy" /\ cli[p].pc \in InApply /\ TypeOK /\ f \in cli[p].todo
  BY DEF Copy, At, InApply, HarnessInv
<1>2. CASE Fail(p)
  BY <1>1, <1>2, FailKeeps
<1>3. CASE ~Fail(p)
  <2>1. PICK h \in CliState : h = cli[p]
    BY <1>1 DEF TypeOK
  <2>2. PICK todo : todo = h.todo \ {f}
    OBVIOUS
  <2>3. PICK k : k = [h EXCEPT !.todo = todo]
    OBVIOUS
  <2>4. /\ k \in CliState /\ k.pc = "copy" /\ k.for = h.for /\ k.com = h.com
        /\ k.files = h.files /\ k.todo = todo
    <3>1. todo \in SUBSET Files /\ h.pc = "copy"
      BY <1>1, <2>1, <2>2 DEF CliState
    <3> QED BY <2>3, <3>1, CliCopies
  <2>5. /\ tree' = [tree EXCEPT ![f].work = {h.com}]
        /\ raced' = Races(Process \ {p}, f)
        /\ cli' = [cli EXCEPT ![p].todo = @ \ {f}]
        /\ UNCHANGED <<com, diff, sleigh, seen, next, landed>>
    BY <1>3, <2>1 DEF Copy, CopyNew, store, drain
  <2>6. cli' = [cli EXCEPT ![p] = k]
    BY <2>1, <2>2, <2>3, <2>5
  <2>7. CliSound(h)
    BY <2>1 DEF HarnessInv
  <2>8. h.com \in Commissions /\ h.files \subseteq Scope[h.com] /\ h.todo \subseteq h.files \cap NewFiles
    BY <1>1, <2>1, <2>7 DEF CliSound, ScopeSound, InApply
  <2>9. tree' \in [Files -> Version] /\ tree'[f].work = {h.com} /\ \A g \in Files \ {f} : tree'[g] = tree[g]
    <3>1. PICK v : v = [tree[f] EXCEPT !.work = {h.com}]
      OBVIOUS
    <3>2. tree[f] \in Version /\ {h.com} \in SUBSET Authors /\ tree \in [Files -> Version]
      BY <1>1, <2>8 DEF TypeOK, Authors
    <3>3. v \in Version /\ v.work = {h.com}
      BY <3>1, <3>2, VersionShapes
    <3>4. tree' = [tree EXCEPT ![f] = v]
      BY <2>5, <3>1
    <3> QED BY <3>2, <3>3, <3>4
  <2>10. Remembers
    BY <2>5 DEF Remembers, Races
  <2>11. h.files \subseteq Files
    BY DEF CliState
  <2>12. CliSound(k)'
    <3>1. ScopeSound(k)'
      BY <2>2, <2>4, <2>8 DEF ScopeSound
    <3>2. TodoSound(k)'
      <4> SUFFICES ASSUME NEW g \in todo PROVE Clean(g)' \/ <<h.com, g>> \in raced'
        BY <2>4 DEF TodoSound, Raced
      <4>1. tree'[g] = tree[g] /\ g \in h.todo
        BY <2>2, <2>8, <2>9, <2>11
      <4>2. Clean(g) \/ <<h.com, g>> \in raced
        BY <1>1, <2>1, <2>7, <4>1 DEF CliSound, TodoSound, Raced
      <4> QED BY <2>10, <4>1, <4>2 DEF Clean, Remembers
    <3>3. DeliverySound(k)'
      <4> SUFFICES ASSUME h.for = "delivery"
                   PROVE  /\ h.files = diff[h.com]
                          /\ \A g \in h.files \ todo : h.com \in tree'[g].work \/ <<h.com, g>> \in raced'
        BY <2>4, <2>5 DEF DeliverySound, Raced
      <4>1. /\ h.files = diff[h.com]
            /\ \A g \in h.files \ h.todo : h.com \in tree[g].work \/ <<h.com, g>> \in raced
        BY <1>1, <2>1, <2>7 DEF CliSound, DeliverySound, InApply, Raced
      <4> QED BY <2>2, <2>9, <2>10, <2>11, <4>1 DEF Remembers
    <3> QED BY <3>1, <3>2, <3>3 DEF CliSound
  <2>13. ASSUME NEW q \in Process \ {p} PROVE Undisturbed(cli[q])
    <3> SUFFICES ASSUME cli[q].pc \in InApply \ {"check"}, NEW g \in cli[q].files
                 PROVE  <<cli[q].com, g>> \in raced' \/ Spares(cli[q].com, g)
      BY DEF Undisturbed
    <3>1. CASE g = f
      BY <2>5, <3>1 DEF Races, InDelivery, InApply
    <3>2. CASE g # f
      <4>1. g \in Files
        <5>1. cli[q] \in CliState
          BY <1>1 DEF TypeOK
        <5> QED BY <5>1 DEF CliState
      <4> QED BY <2>9, <3>2, <4>1 DEF Spares, Clean
    <3> QED BY <3>1, <3>2
  <2>14. RolesApart' /\ RunSound' /\ NotStarted'
    <3>1. k.pc \in InApply /\ k.pc \notin {"add", "commit"} /\ Settled
      BY <2>4, <2>5, SameStoreSettled DEF InApply
    <3> QED BY <1>1, <2>1, <2>4, <2>5, <2>6, <2>10, <3>1, ApplicationGoesOn
  <2>15. StaysInScope'
    <3>1. f \in Scope[h.com]
      BY <1>1, <2>1, <2>8
    <3> QED BY <2>8, <2>9, <3>1 DEF HarnessInv, StaysInScope
  <2> QED BY <1>1, <2>4, <2>5, <2>6, <2>9, <2>10, <2>12, <2>13, <2>14, <2>15, WriteStep DEF TypeOK
<1> QED BY <1>2, <1>3

\* git add: the files of the delivery are staged as they are.
LEMMA GitAddKeeps ==
    ASSUME HarnessInv, NEW p \in Process, GitAdd(p)
    PROVE  HarnessInv'
<1>1. cli[p].pc = "add" /\ cli[p].pc \in InApply /\ TypeOK
  BY DEF GitAdd, At, InApply, HarnessInv
<1>2. PICK h \in CliState : h = cli[p]
  BY <1>1 DEF TypeOK
<1>3. PICK k : k = [h EXCEPT !.pc = "commit"]
  OBVIOUS
<1>4. /\ k \in CliState /\ k.pc = "commit" /\ k.for = h.for /\ k.com = h.com
      /\ k.files = h.files /\ "commit" \in InApply
  <2>1. "commit" \in InApply
    BY DEF InApply
  <2> QED BY <1>3, <2>1, CliGoes
<1>5. /\ tree' = [f \in Files |-> IF f \in h.files
                      THEN [tree[f] EXCEPT !.index = tree[f].work] ELSE tree[f]]
      /\ UNCHANGED <<com, diff, sleigh, seen, next, landed, raced>>
  BY <1>2 DEF GitAdd, store, drain
<1>6. cli' = [cli EXCEPT ![p] = k]
  BY <1>2, <1>3 DEF GitAdd
<1>7. ASSUME NEW f \in Files
      PROVE  /\ tree'[f] \in Version /\ Gentle(f) /\ tree'[f].work = tree[f].work
             /\ f \in h.files => tree'[f].index = tree[f].work
  <2>1. CASE f \notin h.files
    BY <1>1, <1>5, <2>1 DEF TypeOK, Gentle
  <2>2. CASE f \in h.files
    <3>1. PICK v : v = [tree[f] EXCEPT !.index = tree[f].work]
      OBVIOUS
    <3>2. tree[f] \in Version /\ tree[f].work \in SUBSET Authors
      BY <1>1 DEF TypeOK, Version
    <3>3. v \in Version /\ v.work = tree[f].work /\ v.index = tree[f].work /\ v.head = tree[f].head
      BY <3>1, <3>2, VersionShapes
    <3>4. tree'[f] = v
      BY <1>5, <2>2, <3>1
    <3> QED BY <3>3, <3>4 DEF Gentle
  <2> QED BY <2>1, <2>2
<1>8. CliSound(h) /\ h.for = "delivery" /\ h.files \subseteq Files
  BY <1>1, <1>2, Roles DEF HarnessInv, CliState
<1>9. CliSound(k)'
  <2>1. ScopeSound(k)'
    BY <1>1, <1>2, <1>4, <1>8 DEF CliSound, ScopeSound
  <2>2. TodoSound(k)'
    BY <1>4 DEF TodoSound
  <2>3. DeliverySound(k)'
    <3>1. h.files = diff[h.com] /\ \A f \in h.files : h.com \in tree[f].work \/ Raced(h.com, f)
      BY <1>1, <1>2, <1>8 DEF CliSound, DeliverySound
    <3> QED BY <1>4, <1>5, <1>7, <1>8, <3>1 DEF DeliverySound, Raced
  <2> QED BY <2>1, <2>2, <2>3 DEF CliSound
<1>10. \A q \in Process \ {p} : Undisturbed(cli[q])
  BY <1>1, <1>7, GentleSpares DEF Undisturbed, TypeOK, CliState
<1>11. RolesApart' /\ RunSound' /\ NotStarted'
  <2>1. Settled /\ Remembers
    BY <1>5, SameStoreSettled DEF Remembers
  <2> QED BY <1>1, <1>2, <1>4, <1>5, <1>6, <1>8, <2>1, ApplicationGoesOn
<1>12. StaysInScope'
  BY <1>7 DEF HarnessInv, StaysInScope
<1>13. tree' \in [Files -> Version]
  BY <1>5, <1>7
<1> QED BY <1>1, <1>4, <1>5, <1>6, <1>9, <1>10, <1>11, <1>12, <1>13, WriteStep DEF TypeOK, Remembers

\* git commit: the delivery is in HEAD and the run goes on to the next one.
LEMMA GitCommitKeeps ==
    ASSUME HarnessInv, NEW p \in Process, GitCommit(p)
    PROVE  HarnessInv'
<1>1. cli[p].pc = "commit" /\ cli[p].pc \in InApply /\ TypeOK
  BY DEF GitCommit, At, InApply, HarnessInv
<1>2. CASE Fail(p)
  BY <1>1, <1>2, FailKeeps
<1>3. CASE ~Fail(p)
  <2>1. PICK h \in CliState : h = cli[p]
    BY <1>1 DEF TypeOK
  <2>2. PICK k : k = [Idle EXCEPT !.pc = "deliver"]
    OBVIOUS
  <2>3. k \in CliState /\ k.pc = "deliver"
    BY <2>2, RestShapes
  <2>4. /\ tree' = Committed /\ landed' = Landing /\ next' = next + 1
        /\ cli' = [cli EXCEPT ![p] = k]
        /\ UNCHANGED <<com, diff, sleigh, seen, raced>>
    BY <1>3, <2>2 DEF GitCommit, store
  <2>5. /\ p = "run" /\ h.for = "delivery" /\ CliSound(h) /\ Delivering /\ RunSound
        /\ "run" \in Process /\ "hand" \in Process
    BY <1>1, <2>1, Roles DEF HarnessInv, Delivering, Process
  <2>6. cli'["run"] = k /\ cli'["hand"] = cli["hand"]
    BY <1>1, <2>3, <2>4, <2>5, CliMoves
  <2>7. ASSUME NEW f \in Files PROVE tree'[f] \in Version /\ Gentle(f) /\ tree'[f].work = tree[f].work
    <3>1. PICK v : v = [tree[f] EXCEPT !.head = tree[f].index]
      OBVIOUS
    <3>2. tree[f] \in Version /\ tree[f].index \in SUBSET Authors
      BY <1>1 DEF TypeOK, Version
    <3>3. v \in Version /\ v.work = tree[f].work /\ v.index = tree[f].index /\ v.head = tree[f].index
      BY <3>1, <3>2, VersionShapes
    <3>4. tree'[f] = v
      BY <2>4, <3>1 DEF Committed
    <3> QED BY <3>3, <3>4 DEF Gentle
  <2>8. Remembers
    BY <2>4 DEF Remembers, Landing
  <2>9. RolesApart' /\ Delivering' /\ NotStarted'
    BY <2>3, <2>6 DEF HarnessInv, RolesApart, Delivering, NotStarted, InApply
  <2>10. next \in 1 .. Len(Selected) /\ h.com = Selected[next] /\ h.com \in Commissions /\ ~sleigh
    BY <1>1, <2>1, <2>5, HarnessAssumption DEF RunSound
  <2>11. Delivered(h.com)'
    <3> SUFFICES ASSUME NEW f \in diff[h.com] PROVE <<h.com, f>> \in landed' \cup raced'
      BY <2>4 DEF Delivered
    <3>1. f \in Files
      BY <1>1, <2>10 DEF TypeOK
    <3>2. h.com \in tree[f].index \/ <<h.com, f>> \in raced
      BY <1>1, <2>1, <2>5 DEF CliSound, DeliverySound, Raced
    <3> QED BY <2>4, <2>10, <3>1, <3>2 DEF Landing
  <2>12. RunSound'
    <3>1. ASSUME NEW i \in 1 .. Len(Selected), i < next', AutoDeliveryAllowed(Selected[i])'
          PROVE  Delivered(Selected[i])'
      <4>1. CASE i = next
        BY <2>10, <2>11, <4>1
      <4>2. CASE i # next
        <5>1. i < next
          BY <1>1, <2>4, <3>1, <4>2 DEF TypeOK
        <5>2. AutoDeliveryAllowed(Selected[i])
          BY <2>4, <3>1 DEF AutoDeliveryAllowed
        <5>3. Delivered(Selected[i])
          BY <2>5, <5>1, <5>2 DEF RunSound
        <5> QED BY <2>4, <2>8, <5>3 DEF Delivered, Remembers
      <4> QED BY <4>1, <4>2
    <3> QED BY <2>3, <2>4, <2>6, <2>10, <3>1 DEF RunSound, InApply
  <2>13. CliSound(k)'
    BY <2>3 DEF CliSound, ScopeSound, TodoSound, DeliverySound, InApply
  <2>14. \A q \in Process \ {p} : Undisturbed(cli[q])
    BY <1>1, <2>7, GentleSpares DEF Undisturbed, TypeOK, CliState
  <2>15. StaysInScope'
    BY <2>7 DEF HarnessInv, StaysInScope
  <2>16. tree' \in [Files -> Version] /\ next' \in Nat \ {0}
    <3>1. \A f \in Files : [tree[f] EXCEPT !.head = tree[f].index] \in Version
      BY <2>4, <2>7 DEF Committed
    <3>2. Committed \in [Files -> Version]
      BY <3>1 DEF Committed
    <3> QED BY <1>1, <2>4, <3>2 DEF TypeOK
  <2> QED BY <2>3, <2>4, <2>8, <2>9, <2>12, <2>13, <2>14, <2>15, <2>16, WriteStep
<1> QED BY <1>2, <1>3

-----------------------------------------------------------------------------
(* The theorems.                                                           *)

\* The run has just started: nothing is written, applied or delivered.
LEMMA HarnessInitial == Init => HarnessInv
<1> SUFFICES ASSUME Init PROVE HarnessInv
  OBVIOUS
<1>1. "run" \in Process /\ "hand" \in Process /\ \A q \in Process : q = "run" \/ q = "hand"
  BY DEF Process
<1>2. /\ cli["run"] = [Idle EXCEPT !.pc = "poll"] /\ cli["hand"] = Idle
      /\ cli \in [Process -> {[Idle EXCEPT !.pc = "poll"], Idle}]
  BY <1>1 DEF Init
<1>3. /\ Idle \in CliState /\ Idle.pc = "idle"
      /\ [Idle EXCEPT !.pc = "poll"] \in CliState /\ [Idle EXCEPT !.pc = "poll"].pc = "poll"
  BY DEF Idle, CliState
<1>4. cli \in [Process -> CliState] /\ cli["run"].pc = "poll" /\ cli["hand"].pc = "idle"
  BY <1>2, <1>3
<1>5. TypeOK
  <2>1. com \in [Commissions -> Commission]
    BY DEF Init, Commission
  <2>2. tree \in [Files -> Version]
    BY DEF Init, Version
  <2>3. seen \in SUBSET Commissions
    BY HarnessAssumption DEF Init
  <2> QED BY <1>4, <2>1, <2>2, <2>3 DEF TypeOK, Init
<1>6. \A q \in Process : CliSound(cli[q])
  BY <1>1, <1>4, RestIsSound DEF InApply
<1>7. RolesApart /\ RunSound /\ NotStarted
  BY <1>4 DEF RolesApart, RunSound, NotStarted, Delivering, InApply, Init
<1>8. StaysInScope
  BY DEF StaysInScope, Init
<1> QED BY <1>5, <1>6, <1>7, <1>8 DEF HarnessInv

\* Every step keeps the inductive invariant.
LEMMA HarnessStep == HarnessInv /\ [Next]_vars => HarnessInv'
<1> SUFFICES ASSUME HarnessInv, [Next]_vars PROVE HarnessInv'
  OBVIOUS
<1>1. ASSUME NEW c \in Commissions,
             \/ Claim(c) \/ Finish(c) \/ LeaseAges(c) \/ Requeue(c)
             \/ \E f \in Files : AgentWrites(c, f)
      PROVE  HarnessInv'
  BY <1>1, StoreKeeps
<1>2. ASSUME NEW c \in Commissions, ApplyByHand(c) \/ Hook(c) PROVE HarnessInv'
  BY <1>2, ApplyByHandKeeps, HookKeeps
<1>3. CASE SleighExits
  <2>1. TypeOK /\ UNCHANGED <<com, diff, tree, drain, cli, landed, raced>> /\ sleigh' = FALSE
    BY <1>3 DEF SleighExits, HarnessInv
  <2>2. TypeOK' /\ Settled
    BY <2>1, SameStoreSettled DEF TypeOK, drain
  <2> QED BY <2>1, <2>2, QuietStep DEF Remembers, Gentle, drain
<1>4. CASE OperatorCommits
  BY <1>4, OperatorKeeps
<1>5. ASSUME NEW f \in Files, Edit(f) \/ Stage(f) PROVE HarnessInv'
  BY <1>5, OperatorKeeps, EditKeeps
<1>6. CASE Poll \/ HookDone \/ WatchPoll \/ Tick \/ ProcessDone \/ Interrupt
  BY <1>6, WatchKeeps
<1>7. CASE Stop \/ Deliver \/ RunEnds
  BY <1>7, StopKeeps, DeliverKeeps, RunEndsKeeps
<1>8. ASSUME NEW p \in Process, Apply(p) PROVE HarnessInv'
  BY <1>8, CheckKeeps, GitApplyKeeps, CopyKeeps, AppliedKeeps, GitAddKeeps, GitCommitKeeps DEF Apply
<1>9. CASE UNCHANGED vars
  <2>1. UNCHANGED <<com, diff, tree, sleigh, seen, cli, landed, raced, next>>
    BY <1>9 DEF vars
  <2>2. TypeOK' /\ Settled
    BY <2>1, SameStoreSettled DEF HarnessInv, TypeOK
  <2> QED BY <2>1, <2>2, QuietStep DEF Remembers, Gentle
<1> QED BY <1>1, <1>2, <1>3, <1>4, <1>5, <1>6, <1>7, <1>8, <1>9 DEF Next

\* The inductive invariant holds of every run of `haft harness run`, whatever
\* the operator does in the checkout meanwhile.
THEOREM HarnessSound == Spec => []HarnessInv
  BY HarnessInitial, HarnessStep, PTL DEF Spec

\* A commission's changes reach the working tree only at paths of its scope,
\* although patch and copies are taken from the workspace after the check.
THEOREM DeliveriesStayInScope == Spec => []StaysInScope
<1>1. HarnessInv => StaysInScope
  BY DEF HarnessInv
<1> QED BY <1>1, HarnessSound, PTL

\* A run that ends without an error has delivered every commission of its
\* selection that it was allowed to deliver.
THEOREM OkIsDelivered == Spec => []OkMeansDelivered
<1>1. HarnessInv => OkMeansDelivered
  <2> SUFFICES ASSUME HarnessInv, cli["run"].pc = "ok",
                      NEW i \in 1 .. Len(Selected), AutoDeliveryAllowed(Selected[i])
               PROVE  Delivered(Selected[i])
    BY DEF OkMeansDelivered, RunAt, At, Delivered
  <2>1. Len(Selected) \in Nat /\ next \in Nat
    BY HarnessAssumption DEF HarnessInv, TypeOK
  <2>2. Delivering
    BY DEF Delivering
  <2>3. next > Len(Selected)
    BY <2>2 DEF HarnessInv, RunSound
  <2>4. i < next
    BY <2>1, <2>3
  <2> QED BY <2>2, <2>4 DEF HarnessInv, RunSound
<1> QED BY <1>1, HarnessSound, PTL

\* Nothing but the copy of a new file takes an author's change out of the
\* working tree.
LEMMA WorkIsKept ==
    ASSUME TypeOK, Next, NEW f \in Files, ~(tree[f].work \subseteq tree'[f].work)
    PROVE  \E p \in Process : At(p, "copy") /\ f \in cli[p].todo
<1>1. /\ tree \in [Files -> Version] /\ \A g \in Files : tree[g] \in Version
      /\ \A g \in Files : tree[g].work \in SUBSET Authors /\ tree[g].index \in SUBSET Authors
  BY DEF TypeOK, Version
<1>2. tree' # tree
  BY <1>1
<1>3. ASSUME NEW g \in Files, NEW v \in Version, tree' = [tree EXCEPT ![g] = v],
             tree[g].work \subseteq v.work
      PROVE  FALSE
  BY <1>1, <1>3
<1>4. ASSUME tree' = Committed PROVE FALSE
  <2>1. PICK v : v = [tree[f] EXCEPT !.head = tree[f].index]
    OBVIOUS
  <2>2. v.work = tree[f].work
    BY <1>1, <2>1, VersionShapes
  <2>3. tree'[f] = v
    BY <1>4, <2>1 DEF Committed
  <2> QED BY <2>2, <2>3
<1>5. ASSUME NEW g \in Files, Edit(g) PROVE FALSE
  <2>1. PICK v : v = [tree[g] EXCEPT !.work = tree[g].work \cup {Operator}]
    OBVIOUS
  <2>2. tree[g] \in Version /\ tree[g].work \cup {Operator} \in SUBSET Authors
    BY <1>1 DEF Authors
  <2>3. v \in Version /\ v.work = tree[g].work \cup {Operator}
    BY <2>1, <2>2, VersionShapes
  <2>4. tree' = [tree EXCEPT ![g] = v]
    BY <1>5, <2>1 DEF Edit
  <2> QED BY <1>3, <2>3, <2>4
<1>6. ASSUME NEW g \in Files, Stage(g) PROVE FALSE
  <2>1. PICK v : v = [tree[g] EXCEPT !.index = tree[g].work]
    OBVIOUS
  <2>2. v \in Version /\ v.work = tree[g].work
    BY <1>1, <2>1, VersionShapes
  <2>3. tree' = [tree EXCEPT ![g] = v]
    BY <1>6, <2>1 DEF Stage
  <2> QED BY <1>3, <2>2, <2>3
<1>7. ASSUME NEW p \in Process, GitAdd(p) PROVE FALSE
  <2>1. PICK v : v = [tree[f] EXCEPT !.index = tree[f].work]
    OBVIOUS
  <2>2. v.work = tree[f].work
    BY <1>1, <2>1, VersionShapes
  <2>3. tree'[f] = v \/ tree'[f] = tree[f]
    BY <1>7, <2>1 DEF GitAdd
  <2> QED BY <2>2, <2>3
<1>8. ASSUME NEW p \in Process, Fail(p) PROVE FALSE
  BY <1>2, <1>8 DEF Fail
<1>9. ASSUME NEW p \in Process, GitApply(p) PROVE FALSE
  <2>1. PICK c : c = cli[p].com
    OBVIOUS
  <2>2. PICK patch : patch = Patch(c, cli[p].files)
    OBVIOUS
  <2>3. tree' = [g \in Files |-> IF g \in patch
                    THEN [tree[g] EXCEPT !.work = @ \cup {c}] ELSE tree[g]]
    BY <1>8, <1>9, <2>1, <2>2 DEF GitApply
  <2>4. PICK v : v = [tree[f] EXCEPT !.work = tree[f].work \cup {c}]
    OBVIOUS
  <2>5. v.work = tree[f].work \cup {c}
    BY <1>1, <2>4 DEF Version
  <2>6. tree'[f] = v \/ tree'[f] = tree[f]
    BY <2>3, <2>4
  <2> QED BY <2>5, <2>6
<1>10. ASSUME NEW p \in Process, Apply(p)
       PROVE  At(p, "copy") /\ f \in cli[p].todo
  <2>1. PICK g \in Files : Copy(p, g)
    BY <1>2, <1>4, <1>7, <1>8, <1>9, <1>10 DEF Apply, Check, Applied, GitCommit
  <2>2. At(p, "copy") /\ g \in cli[p].todo /\ tree' = [tree EXCEPT ![g].work = {cli[p].com}]
    BY <1>8, <2>1 DEF Copy, CopyNew
  <2>3. g = f
    BY <1>1, <2>2
  <2> QED BY <2>2, <2>3
<1>11. \E p \in Process : Apply(p)
  <2>1. ASSUME NEW c \in Commissions, NEW g \in Files, AgentWrites(c, g) PROVE FALSE
    BY <1>2, <2>1 DEF AgentWrites
  <2>2. ASSUME NEW c \in Commissions,
               Claim(c) \/ Finish(c) \/ LeaseAges(c) \/ Requeue(c) \/ ApplyByHand(c) \/ Hook(c)
        PROVE  FALSE
    BY <1>2, <2>2 DEF Claim, Finish, LeaseAges, Requeue, ApplyByHand, Hook
  <2>3. ASSUME \/ SleighExits \/ Poll \/ HookDone \/ WatchPoll \/ Tick \/ ProcessDone \/ Interrupt
               \/ Stop \/ Deliver \/ RunEnds
        PROVE  FALSE
    BY <1>2, <2>3 DEF SleighExits, Poll, HookDone, WatchPoll, Tick, ProcessDone, Interrupt, Stop,
                      Deliver, RunEnds
  <2>4. ~OperatorCommits
    BY <1>4 DEF OperatorCommits
  <2> QED BY <1>5, <1>6, <2>1, <2>2, <2>3, <2>4 DEF Next
<1> QED BY <1>10, <1>11

\* An uncommitted edit of the operator is lost only to a copy whose delivery
\* it raced with: one that was there before the check stops the delivery.
THEOREM EditsAreKept == Spec => OperatorEditsKept
<1>1. ASSUME HarnessInv, [Next]_vars
      PROVE  [\A f \in Files :
                (/\ Operator \in tree[f].work /\ tree[f].work # tree[f].head
                 /\ Operator \notin tree'[f].work)
                => \E c \in Commissions : <<c, f>> \in raced]_vars
  <2> SUFFICES ASSUME Next, NEW f \in Files, Operator \in tree[f].work,
                      tree[f].work # tree[f].head, Operator \notin tree'[f].work
               PROVE  \E c \in Commissions : <<c, f>> \in raced
    BY <1>1
  <2>1. TypeOK /\ ~(tree[f].work \subseteq tree'[f].work)
    BY <1>1 DEF HarnessInv
  <2>2. PICK p \in Process : At(p, "copy") /\ f \in cli[p].todo
    BY <2>1, WorkIsKept
  <2>3. PICK k : k = cli[p]
    OBVIOUS
  <2>4. k.pc = "copy" /\ f \in k.todo /\ CliSound(k) /\ ~Clean(f)
    BY <1>1, <2>2, <2>3 DEF At, HarnessInv, Clean
  <2>5. k.com \in Commissions /\ <<k.com, f>> \in raced
    BY <2>4 DEF CliSound, ScopeSound, TodoSound, Raced, InApply
  <2> QED BY <2>5
<1> QED BY <1>1, HarnessSound, PTL DEF Spec, OperatorEditsKept
=============================================================================
