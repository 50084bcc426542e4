---- MODULE DecisionRecords ----
(***************************************************************************)
(* Problems, decisions and their evidence in the artifact store            *)
(* (internal/artifact: store.go, decision.go, problem.go, refresh.go; the   *)
(* handlers of internal/cli/serve.go).  Every agent session runs its own    *)
(* haft server on the same SQLite file.  A statement or transaction of the  *)
(* store is atomic; a handler is several of them, and the row it writes     *)
(* back is the whole row it loaded, whatever happened to it meanwhile.      *)
(***************************************************************************)
EXTENDS EvidenceScore

CONSTANTS
    Sessions,       \* the server processes that share the store
    Decisions,      \* the ids decide can draw
    Problems,       \* the ids frame can draw
    Framed,         \* the problems framed before the sessions start
    Decided,        \* the decisions made and baselined before, each for its own problem
    DecidedFor,     \* Decided -> that problem
    Claims,         \* the falsifiable claims of every decision
    VerifyAfter,    \* Claims -> the tick a claim is due for verification, 0 for never
    Files,          \* the files of the project
    SharedFiles,    \* the ones WarnSharedFiles warns about (go.mod and the like)
    NoRef,          \* no artifact
    Refreshed,      \* bound: the artifacts that waive, supersede and deprecate are called on
    MaxClock,       \* bound: the last tick
    MaxOps,         \* bound: the handlers started
    MaxAborts,      \* bound: the handlers cut short
    MaxEdits        \* bound: the edits of the project's files

ASSUME ConstantsAssumption ==
    /\ Decisions \cap Problems = {}
    /\ NoRef \notin Decisions \cup Problems
    /\ Framed \subseteq Problems
    /\ Decided \subseteq Decisions
    /\ DecidedFor \in [Decided -> Framed]
    /\ \A d, e \in Decided : DecidedFor[d] = DecidedFor[e] => d = e
    /\ SharedFiles \subseteq Files
    /\ Refreshed \subseteq Decisions \cup Problems
    /\ MaxClock \in Nat /\ MaxOps \in Nat /\ MaxAborts \in Nat /\ MaxEdits \in Nat
    /\ VerifyAfter \in [Claims -> Nat]

VARIABLES
    rows,      \* the artifacts table: [status, version, validUntil, claims, chars]
    links,     \* the artifact_links table: <<source, target, type>>
    files,     \* the affected_files table: decision -> [path -> hash], 0 for no hash
    evidence,  \* the evidence_items table: decision -> set of items
    reports,   \* the RefreshReport artifacts: <<artifact, action>>
    tree,      \* the project's files: 0 for missing, otherwise their content
    clock,
    sess,      \* what each session's handler holds between two statements
    serial,    \* the number of evidence writes so far: it dates the items
    ops, aborts, edits,
    \* History, read by the properties only.
    stale,     \* artifacts some handler overwrote from a copy that was out of date
    archived,  \* artifacts superseded or deprecated, and neither waived nor reopened since
    revived,   \* decisions a waive or a reopen brought back from the archive
    raced      \* decisions whose conflict check another session overtook

storeVars == <<rows, links, files, evidence, reports, serial>>
worldVars == <<tree, clock, edits>>
history   == <<stale, archived, revived, raced>>
vars      == <<storeVars, worldVars, sess, ops, aborts, history>>

Artifacts == Decisions \cup Problems
Statuses  == {"absent", "active", "addressed", "refresh_due", "superseded", "deprecated"}
Terminal  == {"superseded", "deprecated"}

Row == [status: Statuses, version: Nat, validUntil: Nat,
        claims: [Claims -> ClaimStatuses], chars: Nat]

Unverified == [c \in Claims |-> "unverified"]

NewRow(validUntil) == [status |-> "active", version |-> 1, validUntil |-> validUntil,
                       claims |-> Unverified, chars |-> 0]

NoRow == [NewRow(0) EXCEPT !.status = "absent", !.version = 0]

Item == [type: EvidenceKinds, by: {"measure", "attach"},
         verdict: Verdicts \cup {"superseded"}, binds: SUBSET Claims, cl: 0 .. 3,
         validUntil: Nat, at: Nat]

\* A file is missing (0) or has one of two contents; its hash is its content.
Contents == 0 .. 2

FileList == UNION {[fs -> Contents] : fs \in SUBSET Files}

Idle == [pc |-> "idle"]

Actions == {"waive", "supersede", "deprecate", "reopen", "close", "characterize"}

Handler ==
    {Idle}
    \cup [pc: {"create"}, ref: Decisions, problem: Problems, fs: SUBSET Files, validUntil: Nat]
    \cup [pc: {"track"}, ref: Decisions, fs: SUBSET Files]
    \cup [pc: {"load"}, ref: Decisions]
    \cup [pc: {"relist", "list", "save"}, ref: Decisions, copy: Row, fs: SUBSET Files]
    \cup [pc: {"hash"}, ref: Decisions, copy: Row, listed: FileList]
    \cup [pc: {"measure"}, ref: Decisions, copy: Row, items: SUBSET Item]
    \cup [pc: {"write"}, ref: Artifacts, copy: Row, action: Actions, by: Artifacts \cup {NoRef}]
    \cup [pc: {"frame"}, ref: Decisions]
    \cup [pc: {"lineage"}, ref: Decisions, problem: Problems, copy: Row]
    \cup [pc: {"revisit"}, ref: Decisions, problem: Problems]
    \cup [pc: {"report"}, ref: Artifacts, action: Actions]

\* The shape of the state.
TypeOK ==
    /\ rows \in [Artifacts -> Row]
    /\ links \subseteq (Artifacts \X Artifacts \X {"based_on", "revisits", "supersedes"})
    /\ files \in [Decisions -> FileList]
    /\ evidence \in [Decisions -> SUBSET Item]
    /\ tree \in [Files -> Contents]
    /\ sess \in [Sessions -> Handler]
    /\ clock \in Nat /\ serial \in Nat /\ ops \in Nat /\ aborts \in Nat /\ edits \in Nat
    /\ stale \subseteq Artifacts /\ archived \subseteq Artifacts
    /\ revived \subseteq Decisions /\ raced \subseteq Decisions

Stored(a) == rows[a].status # "absent"

\* Mutant: a decision due for refresh does not block its replacement.
BlocksWhenActive(d) == rows[d].status = "active"

\* decisionBlocksReplacement
Blocks(d) == rows[d].status \in {"active", "refresh_due"}

\* The decisions ScanStale goes through.
Live(d) == rows[d].status \in {"active", "refresh_due"}

\* resolveDecisionProblemRefs: the problems a decision is based on.
BasedOn(d, p) == <<d, p, "based_on">> \in links

Active(d) == {i \in evidence[d] : i.verdict # "superseded"}

HasBaseline(d) == \E f \in DOMAIN files[d] : files[d][f] # 0

----------------------------------------------------------------------------
(* Statements of the store.                                                *)

\* Store.Create
Create(a, row) == rows' = [rows EXCEPT ![a] = row]

\* Store.Update: every column of the copy, its version plus one; the row as it
\* is now is not looked at.
Update(a, copy) ==
    /\ rows' = [rows EXCEPT ![a] = [copy EXCEPT !.version = @ + 1]]
    /\ stale' = stale \cup {x \in {a} : rows[a].version # copy.version}

\* Store.SetAffectedFiles
SetAffectedFiles(d, listed) == files' = [files EXCEPT ![d] = listed]

\* Store.AddEvidenceItem: CL0 evidence cannot support.
Admissible(verdict, cl) == ~(cl = 0 /\ verdict = "supports")

\* measurementKeysOverlap: two unbound measurements overlap as well.
KeysOverlap(a, b) == IF a = {} \/ b = {} THEN a = b ELSE a \cap b # {}

\* Mutant: only measurements bound to a claim are superseded.
SupersedingBound(existing, items) ==
    {IF /\ i.type = "measurement"
        /\ \E n \in items : i.binds \cap n.binds # {}
     THEN [i EXCEPT !.verdict = "superseded"] ELSE i : i \in existing}

\* Mutant: every kind of evidence on the claims measured is superseded.
SupersedingAnyType(existing, items) ==
    {IF \E n \in items : KeysOverlap(i.binds, n.binds)
     THEN [i EXCEPT !.verdict = "superseded"] ELSE i : i \in existing}

\* measurementEvidenceIDsToSupersede and supersedeEvidenceByID, on the items the
\* transaction finds.
Superseding(existing, items) ==
    {IF /\ i.type = "measurement"
        /\ \E n \in items : KeysOverlap(i.binds, n.binds)
     THEN [i EXCEPT !.verdict = "superseded"] ELSE i : i \in existing}

\* Store.CommitMeasurement: one transaction.
CommitMeasurement(d, copy, items) ==
    /\ Update(d, copy)
    /\ evidence' = [evidence EXCEPT ![d] =
                       Superseding(@, items) \cup {[i EXCEPT !.at = serial] : i \in items}]
    /\ serial' = serial + 1

----------------------------------------------------------------------------
(* Handlers.  Begin starts one, Step moves its session to the next          *)
(* statement, Done ends it.                                                *)

Begin(s, next) ==
    /\ sess[s] = Idle
    /\ ops < MaxOps
    /\ ops' = ops + 1
    /\ sess' = [sess EXCEPT ![s] = next]

Step(s, next) == sess' = [sess EXCEPT ![s] = next] /\ UNCHANGED ops
Done(s) == Step(s, Idle)

\* decide: the problem may have no live decision.
DecideCheck(s) ==
    \E d \in Decisions, p \in Problems, fs \in SUBSET Files, until \in {0, clock} :
        /\ ~Stored(d)
        /\ \A t \in Sessions : sess[t].pc = "create" => sess[t].ref # d
        /\ Stored(p)
        /\ ~\E e \in Decisions : Blocks(e) /\ BasedOn(e, p)
        /\ Begin(s, [pc |-> "create", ref |-> d, problem |-> p, fs |-> fs, validUntil |-> until])
        /\ UNCHANGED <<storeVars, worldVars, aborts, history>>

\* Sessions that have passed the conflict check for a problem decision d is based on.
Overtaken(s, p) ==
    {sess[t].ref : t \in {u \in Sessions \ {s} : sess[u].pc = "create" /\ sess[u].problem = p}}

\* store.Create in Decide
DecideCreate(s) ==
    LET h == sess[s] IN
        /\ h.pc = "create"
        /\ Create(h.ref, NewRow(h.validUntil))
        /\ links' = links \cup {<<h.ref, h.problem, "based_on">>}
        /\ raced' = raced \cup Overtaken(s, h.problem)
        /\ Step(s, [pc |-> "track", ref |-> h.ref, fs |-> h.fs])
        /\ UNCHANGED <<files, evidence, reports, serial, worldVars, aborts, stale, archived, revived>>

\* The rest of Decide, and what the handler makes of its answer: a warning (a
\* shared file, a markdown file that could not be written) comes back as an
\* error, which the handler returns instead of taking the baseline.
DecideTrack(s) ==
    LET h == sess[s] IN
        /\ h.pc = "track"
        /\ IF h.fs # {} THEN SetAffectedFiles(h.ref, [f \in h.fs |-> 0]) ELSE UNCHANGED files
        /\ \E writeFailed \in BOOLEAN :
             IF writeFailed \/ h.fs = {} \/ h.fs \cap SharedFiles # {}
             THEN Done(s) ELSE Step(s, [pc |-> "load", ref |-> h.ref])
        /\ UNCHANGED <<rows, links, evidence, reports, serial, worldVars, aborts, stale, archived, revived, raced>>

\* baseline, and the baseline decide takes by itself: Baseline loads the row first.
BaselineBegin(s) ==
    \E d \in Decisions, fs \in SUBSET Files :
        /\ Stored(d)
        /\ Begin(s, [pc |-> IF fs = {} THEN "list" ELSE "relist", ref |-> d, copy |-> rows[d], fs |-> fs])
        /\ UNCHANGED <<storeVars, worldVars, aborts, history>>

BaselineLoad(s) ==
    LET h == sess[s] IN
        /\ h.pc = "load"
        /\ Step(s, [pc |-> "list", ref |-> h.ref, copy |-> rows[h.ref], fs |-> {}])
        /\ UNCHANGED <<storeVars, worldVars, aborts, history>>

\* A new file list replaces the old one, without hashes.
BaselineRelist(s) ==
    LET h == sess[s] IN
        /\ h.pc = "relist"
        /\ SetAffectedFiles(h.ref, [f \in h.fs |-> 0])
        /\ Step(s, [h EXCEPT !.pc = "list"])
        /\ UNCHANGED <<rows, links, evidence, reports, serial, worldVars, aborts, history>>

\* GetAffectedFiles and hashFile: a file that is missing now is left off the list.
BaselineList(s) ==
    LET h == sess[s]
        present == {f \in DOMAIN files[h.ref] : tree[f] # 0}
    IN  /\ h.pc = "list"
        /\ IF DOMAIN files[h.ref] = {} THEN Done(s)
           ELSE Step(s, [pc |-> "hash", ref |-> h.ref, copy |-> h.copy,
                         listed |-> [f \in present |-> tree[f]]])
        /\ UNCHANGED <<storeVars, worldVars, aborts, history>>

BaselineHash(s) ==
    LET h == sess[s] IN
        /\ h.pc = "hash"
        /\ SetAffectedFiles(h.ref, h.listed)
        /\ Step(s, [pc |-> "save", ref |-> h.ref, copy |-> h.copy, fs |-> {}])
        /\ UNCHANGED <<rows, links, evidence, reports, serial, worldVars, aborts, history>>

\* persistDriftManifests writes the row back as it was loaded.
BaselineSave(s) ==
    LET h == sess[s] IN
        /\ h.pc = "save"
        /\ Update(h.ref, h.copy)
        /\ Done(s)
        /\ UNCHANGED <<links, files, evidence, reports, serial, worldVars, aborts, archived, revived, raced>>

\* measurementClaimEvidence and decisionMeasurementEvidenceItems: one item per claim
\* the criteria name, or a single unbound one with the caller's verdict.
MeasurementItems(met, notMet, verdict, cl, validUntil) ==
    LET item(v, binds) == [type |-> "measurement", by |-> "measure", verdict |-> v,
                           binds |-> binds, cl |-> cl, validUntil |-> validUntil, at |-> 0]
    IN  IF met \cup notMet = {} THEN {item(CanonicalStoredVerdict(verdict), {})}
        ELSE {item(MeasuredVerdict(c \in met, c \in notMet), {c}) : c \in met \cup notMet}

\* Mutant: the statuses are rebuilt from the evidence before the measurement.
RebuiltClaimsBefore(d, items) ==
    [c \in Claims |-> ClaimStatusFromVerdicts({i.verdict : i \in {j \in Active(d) : c \in j.binds}})]

\* decisionActiveClaimEvidenceAfterMeasurement and rebuildDecisionClaimsFromEvidence,
\* on the evidence found before the transaction.
RebuiltClaims(d, items) ==
    LET after == {i \in Superseding(evidence[d], items) : i.verdict # "superseded"} \cup items
    IN  [c \in Claims |-> ClaimStatusFromVerdicts({i.verdict : i \in {j \in after : c \in j.binds}})]

\* measure, up to its transaction
MeasureBegin(s) ==
    \E d \in Decisions, met, notMet \in SUBSET Claims, verdict \in {"accepted", "partial", "failed"} :
        /\ Stored(d)
        /\ LET cl    == IF HasBaseline(d) THEN 3 ELSE 1
               items == MeasurementItems(met, notMet, verdict, cl, rows[d].validUntil)
           IN  Begin(s, [pc |-> "measure", ref |-> d, items |-> items,
                         copy |-> [rows[d] EXCEPT !.claims = RebuiltClaims(d, items)]])
        /\ UNCHANGED <<storeVars, worldVars, aborts, history>>

MeasureCommit(s) ==
    LET h == sess[s] IN
        /\ h.pc = "measure"
        /\ CommitMeasurement(h.ref, h.copy, h.items)
        /\ Done(s)
        /\ UNCHANGED <<links, files, reports, worldVars, aborts, archived, revived, raced>>

\* Types, verdicts and congruence levels callers of evidence give.
AttachInputs ==
    [type: {"measurement", "test"}, verdict: {"supports"}, cl: {0, 3}]
    \cup {[type |-> "measurement", verdict |-> "refutes", cl |-> 0],
          [type |-> "test", verdict |-> "weakens", cl |-> 1],
          [type |-> "explicit_measure", verdict |-> "refutes", cl |-> 3],
          [type |-> "partial_measure", verdict |-> "supports", cl |-> 2],
          [type |-> "attached", verdict |-> "weakens", cl |-> 3]}

\* evidence: the claims' statuses are left as they are.
AttachEvidence(s) ==
    \E d \in Decisions, binds \in SUBSET Claims, input \in AttachInputs :
        /\ Stored(d)
        /\ Admissible(input.verdict, input.cl)
        /\ Begin(s, Idle)
        /\ evidence' = [evidence EXCEPT ![d] = @ \cup
              {[type |-> input.type, by |-> "attach", verdict |-> input.verdict, binds |-> binds,
                cl |-> input.cl, validUntil |-> 0, at |-> serial]}]
        /\ serial' = serial + 1
        /\ UNCHANGED <<rows, links, files, reports, worldVars, aborts, history>>

\* waive, supersede and deprecate of any artifact, close and characterize of a
\* problem, and the first statement of reopen: what each changes in the row it loaded.
Changed(row, action) ==
    CASE action = "waive"        -> [row EXCEPT !.status = "active", !.validUntil = clock]
      [] action = "supersede"    -> [row EXCEPT !.status = "superseded"]
      [] action = "deprecate"    -> [row EXCEPT !.status = "deprecated"]
      [] action = "reopen"       -> [row EXCEPT !.status = "refresh_due"]
      [] action = "close"        -> [row EXCEPT !.status = "addressed"]
      [] action = "characterize" -> [row EXCEPT !.chars = @ + 1]

RefreshActions(a) ==
    (IF a \in Refreshed THEN {"waive", "supersede", "deprecate"} ELSE {})
        \cup (IF a \in Decisions THEN {"reopen"} ELSE {"close", "characterize"})

RefreshLoad(s) ==
    \E a \in Artifacts : \E action \in RefreshActions(a), by \in {b \in Artifacts \ {a} : Stored(b)} \cup {NoRef} :
        /\ Stored(a)
        /\ action # "supersede" => by = NoRef
        /\ Begin(s, [pc |-> "write", ref |-> a, copy |-> Changed(rows[a], action),
                     action |-> action, by |-> by])
        /\ UNCHANGED <<storeVars, worldVars, aborts, history>>

\* The conflict checks that a decision coming back to life overtakes.
RevivedOvertakes(a) ==
    {sess[t].ref : t \in {u \in Sessions : sess[u].pc = "create" /\ BasedOn(a, sess[u].problem)}}

RefreshWrite(s) ==
    LET h == sess[s]
        back == h.ref \in Decisions /\ rows[h.ref].status \in Terminal /\ h.copy.status \notin Terminal
    IN  /\ h.pc = "write"
        /\ Update(h.ref, h.copy)
        /\ links' = links \cup {<<n, h.ref, "supersedes">> : n \in {h.by} \ {NoRef}}
        /\ archived' = IF h.action \in {"supersede", "deprecate"} THEN archived \cup {h.ref}
                       ELSE IF h.action \in {"waive", "reopen"} THEN archived \ {h.ref} ELSE archived
        /\ revived' = IF back THEN revived \cup {h.ref} ELSE revived
        /\ raced' = IF back THEN raced \cup RevivedOvertakes(h.ref) ELSE raced
        /\ CASE h.action = "reopen" -> Step(s, [pc |-> "frame", ref |-> h.ref])
             [] h.action \in {"close", "characterize"} -> Done(s)
             [] OTHER -> Step(s, [pc |-> "report", ref |-> h.ref, action |-> h.action])
        /\ UNCHANGED <<files, evidence, reports, serial, worldVars, aborts>>

\* reopen goes on: FrameProblem, the lineage appended to the problem it returned,
\* the link back to the decision.
ReopenFrame(s) ==
    \E p \in Problems :
        LET h == sess[s] IN
            /\ h.pc = "frame"
            /\ ~Stored(p)
            /\ Create(p, NewRow(0))
            /\ Step(s, [pc |-> "lineage", ref |-> h.ref, problem |-> p, copy |-> NewRow(0)])
            /\ UNCHANGED <<links, files, evidence, reports, serial, worldVars, aborts, history>>

ReopenLineage(s) ==
    LET h == sess[s] IN
        /\ h.pc = "lineage"
        /\ Update(h.problem, h.copy)
        /\ Step(s, [pc |-> "revisit", ref |-> h.ref, problem |-> h.problem])
        /\ UNCHANGED <<links, files, evidence, reports, serial, worldVars, aborts, archived, revived, raced>>

ReopenLink(s) ==
    LET h == sess[s] IN
        /\ h.pc = "revisit"
        /\ links' = links \cup {<<h.problem, h.ref, "revisits">>}
        /\ Step(s, [pc |-> "report", ref |-> h.ref, action |-> "reopen"])
        /\ UNCHANGED <<rows, files, evidence, reports, serial, worldVars, aborts, history>>

\* CreateRefreshReport; its error is ignored.
Report(s) ==
    LET h == sess[s] IN
        /\ h.pc = "report"
        /\ reports' = reports \cup {<<h.ref, h.action>>}
        /\ Done(s)
        /\ UNCHANGED <<rows, links, files, evidence, serial, worldVars, aborts, history>>

\* frame
Frame(s) ==
    \E p \in Problems :
        /\ ~Stored(p)
        /\ Begin(s, Idle)
        /\ Create(p, NewRow(0))
        /\ UNCHANGED <<links, files, evidence, reports, serial, worldVars, aborts, history>>

----------------------------------------------------------------------------
(* The world around the store.                                             *)

\* The session's process ends, or the store refuses its next statement: what the
\* handler has written stays, what it holds is gone.
Abort(s) ==
    /\ sess[s] # Idle
    /\ aborts < MaxAborts
    /\ aborts' = aborts + 1
    /\ Done(s)
    /\ UNCHANGED <<storeVars, worldVars, history>>

Tick ==
    /\ clock < MaxClock
    /\ clock' = clock + 1
    /\ UNCHANGED <<storeVars, tree, edits, sess, ops, aborts, history>>

\* Somebody edits, deletes or restores a file of the project.
Edit ==
    /\ edits < MaxEdits
    /\ edits' = edits + 1
    /\ \E f \in Files, content \in Contents :
          tree[f] # content /\ tree' = [tree EXCEPT ![f] = content]
    /\ UNCHANGED <<storeVars, clock, sess, ops, aborts, history>>

Init ==
    /\ rows = [a \in Artifacts |-> CASE a \in Decided -> [NewRow(0) EXCEPT !.version = 2]
                                  [] a \in Framed -> NewRow(0)
                                  [] OTHER -> NoRow]
    /\ links = {<<d, DecidedFor[d], "based_on">> : d \in Decided}
    /\ reports = {}
    /\ files = [d \in Decisions |-> [f \in IF d \in Decided THEN Files ELSE {} |-> 1]]
    /\ evidence = [d \in Decisions |-> {}]
    /\ tree = [f \in Files |-> 1]
    /\ clock = 1 /\ serial = 0 /\ ops = 0 /\ aborts = 0 /\ edits = 0
    /\ sess = [s \in Sessions |-> Idle]
    /\ stale = {} /\ archived = {} /\ revived = {} /\ raced = {}

SessionStep(s) ==
    \/ DecideCheck(s) \/ DecideCreate(s) \/ DecideTrack(s)
    \/ BaselineBegin(s) \/ BaselineLoad(s) \/ BaselineRelist(s) \/ BaselineList(s)
    \/ BaselineHash(s) \/ BaselineSave(s)
    \/ MeasureBegin(s) \/ MeasureCommit(s) \/ AttachEvidence(s)
    \/ RefreshLoad(s) \/ RefreshWrite(s)
    \/ ReopenFrame(s) \/ ReopenLineage(s) \/ ReopenLink(s) \/ Report(s)
    \/ Frame(s) \/ Abort(s)

Next == (\E s \in Sessions : SessionStep(s)) \/ Tick \/ Edit

Spec == Init /\ [][Next]_vars

----------------------------------------------------------------------------
(* ScanStale, the read that tells the operator what needs attention.        *)

\* Mutant: only the validity date counts.
ExpiredSurfacesByDate(d) == rows[d].status \notin Terminal /\ Expired(rows[d].validUntil, clock)

\* Mutant: the status is not looked at.
ExpiredSurfacesAnyStatus(d) == rows[d].status = "refresh_due" \/ Expired(rows[d].validUntil, clock)

\* FindStaleDecisions, FindStaleArtifacts, filterStaleArtifacts and
\* staleArtifactShouldSurface
ExpiredSurfaces(d) ==
    /\ rows[d].status \notin Terminal
    /\ rows[d].status = "refresh_due" \/ Expired(rows[d].validUntil, clock)

\* The R_eff scan of the live decisions.
Degraded(d) == Live(d) /\ Active(d) # {} /\ REff(Active(d), clock) < 50

PendingVerification(d) ==
    /\ Live(d)
    /\ \E c \in Claims : /\ VerifyAfter[c] \in 1 .. clock
                        /\ rows[d].claims[c] = "unverified"

\* A baselined file whose content is not the one hashed.
Drifted(d) == \E f \in DOMAIN files[d] : files[d][f] # 0 /\ tree[f] # files[d][f]

\* CheckDrift: active decisions only; one with files and no hash at all is reported too.
DriftReported(d) ==
    /\ rows[d].status = "active"
    /\ DOMAIN files[d] # {}
    /\ Drifted(d) \/ ~HasBaseline(d)

ScanStale(d) ==
    /\ Stored(d)
    /\ ExpiredSurfaces(d) \/ Degraded(d) \/ PendingVerification(d) \/ DriftReported(d)

----------------------------------------------------------------------------
(* Properties.                                                             *)

\* A measurement retires every older measurement of the claims it speaks about
\* (and an unbound one every older unbound one), however the sessions interleave:
\* the items to supersede are those the transaction finds, not those Measure read.
NewestMeasurementWins ==
    \A d \in Decisions : \A old, new \in evidence[d] :
        (/\ new.by = "measure" /\ old.type = "measurement"
         /\ old.at < new.at /\ KeysOverlap(old.binds, new.binds))
            => old.verdict = "superseded"

\* The statuses written into a decision's row agree with its measurements, as long
\* as nobody has overwritten the row from an old copy: a measured claim is not
\* unverified, and no claim is supported over a measurement that refutes it.
ClaimsFollowMeasurements ==
    \A d \in Decisions \ stale, c \in Claims :
        LET measured == {i \in Active(d) : i.by = "measure" /\ c \in i.binds}
        IN  /\ measured # {} => rows[d].claims[c] # "unverified"
            /\ rows[d].claims[c] = "supported" => \A i \in measured : i.verdict # "refutes"

\* A problem has two live decisions only if one of them was waived or reopened
\* out of the archive, overwritten from an old copy, or decided while another session was deciding:
\* otherwise the conflict check of Decide holds.
OneLiveDecision ==
    \A p \in Problems : \A d, e \in Decisions :
        (d # e /\ Live(d) /\ Live(e) /\ BasedOn(d, p) /\ BasedOn(e, p))
            => {d, e} \cap (revived \cup raced \cup stale) # {}

\* The steps that may take a decision off the report: the operator's waive, supersede
\* or deprecate of it is written, a measurement of it is committed, its baseline is
\* taken, its files change, or a handler overwrites its row from an old copy.
DebtSettled(d) ==
    \/ \E s \in Sessions :
          /\ sess[s].pc = "write" /\ sess[s].ref = d
          /\ sess[s].action \in {"waive", "supersede", "deprecate"}
          /\ sess'[s].pc = "report"
    \/ \E s \in Sessions :
          /\ sess[s].pc = "measure" /\ sess[s].ref = d
          /\ sess'[s].pc = "idle" /\ serial' # serial
    \/ files'[d] # files[d] \/ tree' # tree
    \/ rows'[d] # rows[d] /\ d \in stale'

\* What ScanStale tells the operator about a decision stays told until somebody deals
\* with it: no decide, attached evidence, reopen (however far it got; CheckDrift
\* leaves the reopened decision to the expiry scan), no death of a session and no
\* passing of time takes a decision off the report.
DebtStays == [][\A d \in Decisions : ScanStale(d) /\ ~ScanStale(d)' => DebtSettled(d)]_vars

\* A decision the operator archived does not come back as debt, unless some
\* handler has written its row back from a copy loaded before.
ArchivedStaysQuiet == \A d \in Decisions \cap archived : d \in stale \/ ~ScanStale(d)

\* Evidence is never deleted, rewritten or un-superseded, and only measurements
\* are superseded.
EvidenceIsKept ==
    [][\A d \in Decisions : \A i \in evidence[d] :
          i \in evidence'[d] \/ (i.type = "measurement"
                                 /\ [i EXCEPT !.verdict = "superseded"] \in evidence'[d])]_evidence
====
