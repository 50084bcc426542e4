-------------------------- MODULE HarnessDelivery --------------------------
(***************************************************************************)
(* `haft harness run`: it starts Open-Sleigh, watches the commissions of   *)
(* its selection (or drains the whole queue), and brings the diffs of the  *)
(* runner's workspaces into the operator's checkout, while the operator    *)
(* works in that checkout and may call `haft harness apply` by hand.       *)
(*                                                                         *)
(* The content of a file is the set of authors whose changes it holds: {}  *)
(* is the base every workspace was cloned from.  A file of the checkout    *)
(* has a content in HEAD, in the index and in the working tree.            *)
(***************************************************************************)
EXTENDS Naturals, Sequences, FiniteSets

CONSTANTS
    Commissions,
    Selected,     \* the run's selection, a sequence of commissions
    DependsOn,    \* [Commissions -> SUBSET Commissions]
    AutoPolicy,   \* the commissions with policy workspace_patch_auto_on_pass
    Files,
    NewFiles,     \* the files the base does not have
    Scope,        \* [Commissions -> SUBSET Files], allowed and not forbidden
    Operator,     \* the author of the operator's own edits
    NoOne,
    MaxActs       \* bound on the operator's acts

ASSUME HarnessAssumption ==
    /\ Selected \in Seq(Commissions)
    /\ NewFiles \subseteq Files /\ Operator \notin Commissions

VARIABLES
    com,      \* the commissions as the store shows them
    diff,     \* per commission, the files changed in its workspace
    tree,     \* the operator's checkout
    sleigh,   \* is Open-Sleigh running?
    mode,     \* how the run waits: "drain", "watch" or "once"
    seen,     \* watchHarnessDrainUntilIdle's seenIDs
    open,     \* OpenIDs of its last poll
    attempted,\* its autoApplyAttempted
    next,     \* the place of deliverHarnessRunCommissions in the selection
    cli,      \* the two command-line processes that apply diffs
    acts,     \* what the operator has done so far
    landed,   \* history: <<c, f>> when HEAD once held c's change of f
    raced     \* history: <<c, f>> when f was written between c's check and commit

store == <<com, diff, sleigh>>
drain == <<mode, seen, open, attempted, next>>
vars == <<com, diff, tree, sleigh, mode, seen, open, attempted, next, cli,
          acts, landed, raced>>

Process == {"run", "hand"}
Idle == [pc |-> "idle", for |-> "none", com |-> NoOne, files |-> {}, todo |-> {}]

\* A process about to apply c's diff, for the hook, a delivery or the operator.
Applying(c, for) == [Idle EXCEPT !.pc = "check", !.for = for, !.com = c]

Init ==
    /\ com = [c \in Commissions |-> [state |-> "queued", stale |-> FALSE,
                                     autoApply |-> FALSE, autonomy |-> FALSE]]
    /\ diff = [c \in Commissions |-> {}]
    /\ tree = [f \in Files |-> [head |-> {}, index |-> {}, work |-> {}]]
    /\ sleigh = TRUE /\ mode \in {"drain", "watch", "once"}
    /\ seen = {Selected[i] : i \in 1 .. Len(Selected)}
    /\ open = {} /\ attempted = {} /\ next = 1
    /\ cli = [p \in Process |-> IF p = "run" THEN [Idle EXCEPT !.pc = "poll"] ELSE Idle]
    /\ acts = 0 /\ landed = {} /\ raced = {}

-----------------------------------------------------------------------------
(* The runner and the operator's requeues, as the store shows them.        *)

Acts == acts < MaxActs /\ acts' = acts + 1

Completion == {"completed", "completed_with_projection_debt"}

Runnable(c) ==
    /\ com[c].state = "queued"
    /\ \A d \in DependsOn[c] : com[d].state \in Completion

Claim(c) ==
    /\ sleigh /\ Runnable(c)
    /\ com' = [com EXCEPT ![c].state = "executing", ![c].stale = FALSE]
    /\ diff' = [diff EXCEPT ![c] = {}]
    /\ UNCHANGED <<tree, sleigh, drain, cli, acts, landed, raced>>

\* The agent changes a file of its workspace, inside its scope or not.
AgentWrites(c, f) ==
    /\ sleigh /\ com[c].state = "executing"
    /\ diff' = [diff EXCEPT ![c] = @ \cup {f}]
    /\ UNCHANGED <<com, tree, sleigh, drain, cli, acts, landed, raced>>

Finish(c) ==
    /\ sleigh /\ com[c].state = "executing"
    /\ \E s \in Completion \cup {"needs_human_review"}, apply, autonomy \in BOOLEAN :
        /\ apply => c \in AutoPolicy /\ s \in Completion
        /\ autonomy => s = "completed"
        /\ com' = [com EXCEPT ![c] = [state |-> s, stale |-> FALSE,
                                      autoApply |-> apply, autonomy |-> autonomy]]
    /\ UNCHANGED <<diff, tree, sleigh, drain, cli, acts, landed, raced>>

LeaseAges(c) ==
    /\ com[c].state = "executing" /\ ~com[c].stale
    /\ com' = [com EXCEPT ![c].stale = TRUE]
    /\ UNCHANGED <<diff, tree, sleigh, drain, cli, acts, landed, raced>>

Requeue(c) ==
    /\ Acts
    /\ com[c].state \in {"executing", "needs_human_review"}
    /\ com' = [com EXCEPT ![c] = [@ EXCEPT !.state = "queued", !.stale = FALSE]]
    /\ UNCHANGED <<diff, tree, sleigh, drain, cli, landed, raced>>

SleighExits ==
    /\ sleigh /\ sleigh' = FALSE
    /\ UNCHANGED <<com, diff, tree, drain, cli, acts, landed, raced>>

-----------------------------------------------------------------------------
(* The operator in the checkout.                                           *)

InDelivery(p) == cli[p].pc \in {"patch", "copy", "add", "commit"}

\* What a write of f means for the deliveries under way, of processes P.
Races(P, f) ==
    raced \cup {<<cli[p].com, f>> : p \in {q \in P : InDelivery(q) /\ f \in cli[q].files}}

Edit(f) ==
    /\ Acts
    /\ tree' = [tree EXCEPT ![f].work = @ \cup {Operator}]
    /\ raced' = Races(Process, f)
    /\ UNCHANGED <<store, drain, cli, landed>>

Stage(f) ==
    /\ Acts /\ tree[f].index # tree[f].work
    /\ tree' = [tree EXCEPT ![f].index = tree[f].work]
    /\ UNCHANGED <<store, drain, cli, landed, raced>>

Committed == [f \in Files |-> [tree[f] EXCEPT !.head = tree[f].index]]
Landing == landed \cup {cf \in Commissions \X Files : cf[1] \in tree[cf[2]].index}
Uncommitted == {f \in Files : tree[f].index # tree[f].head}

OperatorCommits ==
    /\ Acts /\ Uncommitted # {}
    /\ tree' = Committed /\ landed' = Landing
    /\ UNCHANGED <<store, drain, cli, raced>>

ApplyByHand(c) ==
    /\ Acts /\ cli["hand"].pc = "idle"
    /\ cli' = [cli EXCEPT !["hand"] = Applying(c, "operator")]
    /\ UNCHANGED <<store, drain, tree, landed, raced>>

-----------------------------------------------------------------------------
(* Watching the run.                                                       *)

At(p, pc) == cli[p].pc = pc
RunAt(pc) == At("run", pc)
RunGoes(pc) == cli' = [cli EXCEPT !["run"].pc = pc]

Executing(c) == com[c].state = "executing"
StaleLease(c) == Executing(c) /\ com[c].stale

\* harnessDrainMonitorFromRecords: a stale lease is observed and not open.
OpenIDs == {c \in Commissions : ~StaleLease(c) /\ (Runnable(c) \/ Executing(c))}
ObservedIDs == OpenIDs \cup {c \in Commissions : StaleLease(c)}

ShouldAutoApply(c) == com[c].state \in Completion /\ com[c].autoApply

AutoDeliveryAllowed(c) ==
    c \in AutoPolicy /\ com[c].state = "completed" /\ com[c].autonomy

SelectedStopped ==
    /\ Len(Selected) > 0
    /\ \A i \in 1 .. Len(Selected) :
        com[Selected[i]].state \in Completion \cup {"needs_human_review"}

Poll ==
    /\ mode = "drain" /\ RunAt("poll")
    /\ seen' = seen \cup ObservedIDs /\ open' = OpenIDs
    /\ RunGoes("hook")
    /\ UNCHANGED <<store, mode, attempted, next, tree, acts, landed, raced>>

\* One turn of the auto-apply hook, in the map's order.
Hook(c) ==
    /\ RunAt("hook") /\ c \in (seen \ attempted) \ open
    /\ IF ShouldAutoApply(c)
       THEN /\ cli' = [cli EXCEPT !["run"] = Applying(c, "hook")]
            /\ UNCHANGED attempted
       ELSE attempted' = attempted \cup {c} /\ UNCHANGED cli
    /\ UNCHANGED <<store, mode, seen, open, next, tree, acts, landed, raced>>

HookDone ==
    /\ RunAt("hook") /\ (seen \ attempted) \subseteq open
    /\ RunGoes(IF open = {} THEN "stop" ELSE "wait")
    /\ UNCHANGED <<store, drain, tree, acts, landed, raced>>

WatchPoll ==
    /\ mode = "watch" /\ RunAt("poll")
    /\ RunGoes(IF SelectedStopped THEN "stop" ELSE "wait")
    /\ UNCHANGED <<store, drain, tree, acts, landed, raced>>

Tick ==
    /\ mode # "once" /\ RunAt("wait") /\ RunGoes("poll")
    /\ UNCHANGED <<store, drain, tree, acts, landed, raced>>

\* The process ended: nothing may be left open, the hook does not run again.
ProcessDone ==
    /\ ~sleigh /\ (RunAt("wait") \/ (mode = "once" /\ RunAt("poll")))
    /\ \/ mode = "drain" /\ RunGoes(IF OpenIDs = {} THEN "stop" ELSE "error")
       \/ mode = "watch" /\ RunGoes(IF SelectedStopped THEN "stop" ELSE "error")
       \/ mode = "once" /\ (RunGoes("stop") \/ RunGoes("error"))
    /\ UNCHANGED <<store, drain, tree, acts, landed, raced>>

Interrupt ==
    /\ mode # "once" /\ RunAt("wait")
    /\ RunGoes("error") /\ sleigh' = FALSE
    /\ UNCHANGED <<com, diff, drain, tree, acts, landed, raced>>

Stop ==
    /\ RunAt("stop") /\ RunGoes("deliver") /\ sleigh' = FALSE
    /\ UNCHANGED <<com, diff, drain, tree, acts, landed, raced>>

-----------------------------------------------------------------------------
(* Delivery: applyHarnessWorkspaceDiff in its steps, and the commit.       *)

Deliver ==
    /\ RunAt("deliver") /\ next <= Len(Selected)
    /\ IF AutoDeliveryAllowed(Selected[next])
       THEN /\ cli' = [cli EXCEPT !["run"] = Applying(Selected[next], "delivery")]
            /\ UNCHANGED next
       ELSE next' = next + 1 /\ UNCHANGED cli
    /\ UNCHANGED <<store, mode, seen, open, attempted, tree, acts, landed, raced>>

RunEnds ==
    /\ RunAt("deliver") /\ next > Len(Selected) /\ RunGoes("ok")
    /\ UNCHANGED <<store, drain, tree, acts, landed, raced>>

-----------------------------------------------------------------------------
Dirty == {f \in Files : tree[f].work # tree[f].head \/ tree[f].index # tree[f].head}

\* Mutant of Fail: a failed delivery is passed over.
FailGoesOn(p) ==
    /\ attempted' = IF cli[p].for = "hook" THEN attempted \cup {cli[p].com} ELSE attempted
    /\ next' = IF cli[p].for = "delivery" THEN next + 1 ELSE next
    /\ cli' = [cli EXCEPT ![p] = [Idle EXCEPT !.pc =
                CASE cli[p].for = "hook" -> "hook" [] cli[p].for = "delivery" -> "deliver"
                  [] OTHER -> "error"]]
    /\ UNCHANGED <<store, mode, seen, open, tree, acts, landed, raced>>

\* The paths a failed or finished application returns to: the hook marks the
\* commission attempted either way, a failed delivery ends the run.
Fail(p) ==
    /\ IF cli[p].for = "hook"
       THEN /\ attempted' = attempted \cup {cli[p].com}
            /\ cli' = [cli EXCEPT ![p] = [Idle EXCEPT !.pc = "hook"]]
       ELSE /\ cli' = [cli EXCEPT ![p] = [Idle EXCEPT !.pc = "error"]]
            /\ UNCHANGED attempted
    /\ UNCHANGED <<store, mode, seen, open, next, tree, acts, landed, raced>>

\* Mutant of CanApply: some path of the diff in the scope is enough.
CanApplySomeAllowed(c) == diff[c] \cap Scope[c] # {} /\ diff[c] \cap Dirty = {}

\* Mutant of CanApply: the paths that are copied are not checked for changes.
CanApplyTrackedClean(c) ==
    diff[c] # {} /\ diff[c] \subseteq Scope[c] /\ (diff[c] \ NewFiles) \cap Dirty = {}

\* The diff may be applied: there is one, all of it lies in the scope, and
\* none of its paths has changes of its own in the checkout.
CanApply(c) == diff[c] # {} /\ diff[c] \subseteq Scope[c] /\ diff[c] \cap Dirty = {}

Check(p) ==
    /\ At(p, "check")
    /\ LET c == cli[p].com IN
        \/ ~CanApply(c) /\ Fail(p)
        \/ /\ CanApply(c)
           /\ cli' = [cli EXCEPT ![p].pc = "patch", ![p].files = diff[c],
                                 ![p].todo = diff[c] \cap NewFiles]
           /\ UNCHANGED <<store, drain, tree, acts, landed, raced>>

\* The tracked paths of the check, with what the workspace holds of them now.
Patch(c, files) == (files \ NewFiles) \cap diff[c]

\* git apply changes every file or none.  A patch of the base applies to the
\* base; on other content it may fail, and it does where it is applied already.
GitApply(p) ==
    /\ At(p, "patch")
    /\ LET c == cli[p].com
           tracked == cli[p].files \ NewFiles
           patch == Patch(c, cli[p].files)
       IN  \/ /\ tracked # {}
              /\ patch = {} \/ \E f \in patch : tree[f].work # {}
              /\ Fail(p)
           \/ /\ tracked = {} \/ patch # {}
              /\ \A f \in patch : c \notin tree[f].work
              /\ tree' = [f \in Files |-> IF f \in patch
                              THEN [tree[f] EXCEPT !.work = @ \cup {c}] ELSE tree[f]]
              /\ raced' = raced \cup UNION {Races(Process \ {p}, f) : f \in patch}
              /\ cli' = [cli EXCEPT ![p].pc = "copy"]
              /\ UNCHANGED <<store, drain, acts, landed>>

\* copyHarnessWorkspaceFile: the target is overwritten, and a source that a
\* fresh claim has cleaned away ends the copying half way.
CopyNew(c, f) == [tree EXCEPT ![f].work = {c}]

\* One file.  It fails if the workspace has it no more, or has a directory or a
\* symlink in its place, or if reading or writing it is an error.
Copy(p, f) ==
    /\ At(p, "copy") /\ f \in cli[p].todo
    /\ \/ Fail(p)
       \/ /\ f \in diff[cli[p].com]
          /\ tree' = CopyNew(cli[p].com, f)
          /\ raced' = Races(Process \ {p}, f)
          /\ cli' = [cli EXCEPT ![p].todo = @ \ {f}]
          /\ UNCHANGED <<store, drain, acts, landed>>

Applied(p) ==
    /\ At(p, "copy") /\ cli[p].todo = {}
    /\ \/ /\ cli[p].for = "hook"
          /\ attempted' = attempted \cup {cli[p].com}
          /\ cli' = [cli EXCEPT ![p] = [Idle EXCEPT !.pc = "hook"]]
       \/ /\ cli[p].for = "operator"
          /\ cli' = [cli EXCEPT ![p] = [Idle EXCEPT !.pc = "ok"]] /\ UNCHANGED attempted
       \/ /\ cli[p].for = "delivery"
          /\ cli' = [cli EXCEPT ![p].pc = "add"] /\ UNCHANGED attempted
    /\ UNCHANGED <<store, mode, seen, open, next, tree, acts, landed, raced>>

\* commitHarnessAutoAppliedDiff: the paths are added, then the index, with
\* whatever else is staged, is committed.
GitAdd(p) ==
    /\ At(p, "add")
    /\ tree' = [f \in Files |-> IF f \in cli[p].files
                    THEN [tree[f] EXCEPT !.index = tree[f].work] ELSE tree[f]]
    /\ cli' = [cli EXCEPT ![p].pc = "commit"]
    /\ UNCHANGED <<store, drain, acts, landed, raced>>

GitCommit(p) ==
    /\ At(p, "commit")
    /\ \/ Uncommitted = {} /\ Fail(p)
       \/ /\ Uncommitted # {}
          /\ tree' = Committed /\ landed' = Landing
          /\ next' = next + 1
          /\ cli' = [cli EXCEPT ![p] = [Idle EXCEPT !.pc = "deliver"]]
          /\ UNCHANGED <<store, mode, seen, open, attempted, acts, raced>>

Apply(p) ==
    Check(p) \/ GitApply(p) \/ (\E f \in Files : Copy(p, f)) \/ Applied(p)
        \/ GitAdd(p) \/ GitCommit(p)

Next ==
    \/ \E c \in Commissions :
        \/ Claim(c) \/ Finish(c) \/ LeaseAges(c) \/ Requeue(c)
        \/ ApplyByHand(c) \/ Hook(c)
        \/ \E f \in Files : AgentWrites(c, f)
    \/ SleighExits \/ OperatorCommits
    \/ \E f \in Files : Edit(f) \/ Stage(f)
    \/ Poll \/ HookDone \/ WatchPoll \/ Tick \/ ProcessDone \/ Interrupt \/ Stop
    \/ Deliver \/ RunEnds
    \/ \E p \in Process : Apply(p)

Spec == Init /\ [][Next]_vars

-----------------------------------------------------------------------------
(* Whatever the agent changes, and however late it goes on changing its    *)
(* workspace, a commission's changes reach only files of its own scope:    *)
(* the patch and the copies are taken after the authorisation was checked. *)
StaysInScope ==
    \A f \in Files, c \in Commissions : c \in tree[f].work => f \in Scope[c]

(* An uncommitted edit of the operator is overwritten only when it was made *)
(* after the delivery that overwrites it had checked that the path is clean. *)
OperatorEditsKept ==
    [][\A f \in Files :
        (/\ Operator \in tree[f].work /\ tree[f].work # tree[f].head
         /\ Operator \notin tree'[f].work)
        => \E c \in Commissions : <<c, f>> \in raced]_vars

(* A run that ends without an error has brought every selected commission   *)
(* it was allowed to deliver into HEAD, every file of it, but for files that *)
(* somebody else wrote while they were being delivered.                     *)
OkMeansDelivered ==
    RunAt("ok") =>
        \A i \in 1 .. Len(Selected) :
            AutoDeliveryAllowed(Selected[i]) =>
                \A f \in diff[Selected[i]] :
                    <<Selected[i], f>> \in landed \cup raced
=============================================================================
