----------------------- MODULE DecisionRecords_proofs -----------------------
(***************************************************************************)
(* Proofs about DecisionRecords, for any number of sessions, decisions,     *)
(* problems and claims: what the handlers of concurrent sessions keep true  *)
(* of the decisions' rows, evidence and links.                              *)
(***************************************************************************)
EXTENDS DecisionRecords, WellFoundedInduction, TLAPS

\* The statements at which a handler holds a copy of an artifact's row.
Copying == {"relist", "list", "hash", "save", "measure", "write"}

\* The artifacts with an excuse: waived or reopened out of the archive, overtaken,
\* or overwritten from an old copy.
Excused == revived \cup raced \cup stale

\* A claim's status agrees with the measurements of it.
Agrees(status, measured) ==
    /\ measured # {} => status # "unverified"
    /\ status = "supported" => \A i \in measured : i.verdict # "refutes"

\* The measurements of a claim that are in force.
Measured(items, c) == {i \in items : i.verdict # "superseded" /\ i.by = "measure" /\ c \in i.binds}

----------------------------------------------------------------------------
(* What holds of a handler h, wherever its session was interrupted.         *)

\* decide creates a row that is not there, for a problem without an unexcused
\* live decision.
CreateSound(h) ==
    h.pc = "create" =>
        /\ ~Stored(h.ref)
        /\ \A e \in Decisions : Live(e) /\ BasedOn(e, h.problem) => {h.ref, e} \cap Excused # {}

\* Past its creation a decision is stored.
RefSound(h) == h.pc \in Copying \cup {"track", "load"} /\ h.ref \in Decisions => Stored(h.ref)

\* A copy of a row that was never overwritten from an old one is of the row's past,
\* and at the row's version it is the row, but for what its handler is changing.
CopySound(h) ==
    h.pc \in Copying /\ h.ref \in Decisions =>
        /\ h.copy.status \notin {"absent", "addressed"}
        /\ h.ref \notin stale => h.copy.version <= rows[h.ref].version
        /\ h.ref \notin stale /\ h.copy.version = rows[h.ref].version =>
              /\ h.pc # "write" => h.copy.status = rows[h.ref].status
              /\ h.pc # "measure" => h.copy.claims = rows[h.ref].claims
              /\ h.pc \notin {"measure", "write"} => h.copy.validUntil = rows[h.ref].validUntil

\* What a refresh action has made of its copy.
WriteSound(h) ==
    h.pc = "write" =>
        /\ h.action \in {"supersede", "deprecate"} => h.copy.status \in Terminal
        /\ h.ref \in Decisions => h.action \in {"waive", "supersede", "deprecate", "reopen"}
        /\ h.action = "reopen" => h.ref \in Decisions /\ h.copy.status = "refresh_due"

\* At the row's version, the statuses of a measurement agree with the
\* measurements that will be in force when it commits.
MeasureSound(h) ==
    (h.pc = "measure" /\ h.ref \notin stale /\ h.copy.version = rows[h.ref].version) =>
        \A c \in Claims :
            Agrees(h.copy.claims[c],
                   Measured(Superseding(evidence[h.ref], h.items) \cup h.items, c))

HandlerSound(h) ==
    CreateSound(h) /\ RefSound(h) /\ CopySound(h) /\ WriteSound(h) /\ MeasureSound(h)

\* No two sessions create the same decision.
CreatesApart ==
    \A s, t \in Sessions :
        (s # t /\ sess[s].pc = "create" /\ sess[t].pc = "create") => sess[s].ref # sess[t].ref

----------------------------------------------------------------------------
(* What holds of the store.                                                *)

\* A decision is never addressed, and before its creation nothing refers to it.
RowSound(d) ==
    /\ rows[d].status # "addressed"
    /\ ~Stored(d) => /\ evidence[d] = {} /\ d \notin archived
                     /\ \A p \in Problems : ~BasedOn(d, p)

\* The evidence is dated by the writes so far.
ItemsDated == \A d \in Decisions : \A i \in evidence[d] : i.at < serial

\* An archived decision is in a terminal status, unless overwritten.
ArchivedIsTerminal ==
    \A d \in Decisions : d \in archived /\ d \notin stale => rows[d].status \in Terminal

\* The inductive invariant.
RecordsInv ==
    /\ TypeOK
    /\ \A s \in Sessions : HandlerSound(sess[s])
    /\ CreatesApart
    /\ \A d \in Decisions : RowSound(d)
    /\ ItemsDated
    /\ ArchivedIsTerminal
    /\ NewestMeasurementWins
    /\ ClaimsFollowMeasurements
    /\ OneLiveDecision

----------------------------------------------------------------------------
(* Types.                                                                  *)

\* What a handler holds at each of its statements.
LEMMA HandlerShapes ==
    ASSUME NEW h \in Handler
    PROVE  /\ h.pc = "create" => /\ h.ref \in Decisions /\ h.problem \in Problems
                                 /\ h.fs \in SUBSET Files /\ h.validUntil \in Nat
           /\ h.pc = "track" => h.ref \in Decisions /\ h.fs \in SUBSET Files
           /\ h.pc \in {"load", "frame", "lineage", "revisit"} => h.ref \in Decisions
           /\ h.pc \in {"lineage", "revisit"} => h.problem \in Problems
           /\ h.pc \in {"relist", "list", "save", "hash", "measure"} => h.ref \in Decisions
           /\ h.pc \in {"relist", "list", "save"} => h.fs \in SUBSET Files
           /\ h.pc \in {"write", "report"} => h.ref \in Artifacts /\ h.action \in Actions
           /\ h.pc = "write" => h.by \in Artifacts \cup {NoRef}
           /\ h.pc \in Copying \cup {"lineage"} => h.copy \in Row
           /\ h.pc = "hash" => h.listed \in FileList
           /\ h.pc = "measure" => h.items \in SUBSET Item
  BY DEF Handler, Idle, Copying

\* A relisted handler keeps what it holds.
LEMMA RelistShape ==
    ASSUME NEW h \in Handler, h.pc = "relist"
    PROVE  /\ [h EXCEPT !.pc = "list"] \in Handler
           /\ [h EXCEPT !.pc = "list"].pc = "list"
           /\ [h EXCEPT !.pc = "list"].ref = h.ref
           /\ [h EXCEPT !.pc = "list"].copy = h.copy
<1>1. h \in [pc: {"relist", "list", "save"}, ref: Decisions, copy: Row, fs: SUBSET Files]
  BY DEF Handler, Idle
<1>2. [h EXCEPT !.pc = "list"] \in [pc: {"relist", "list", "save"}, ref: Decisions, copy: Row, fs: SUBSET Files]
  BY <1>1
<1>3. [h EXCEPT !.pc = "list"] \in Handler
  BY <1>2 DEF Handler
<1> QED BY <1>1, <1>3

\* The rows handlers write have the columns of a row.
LEMMA RowShapes ==
    ASSUME NEW row \in Row, NEW until \in Nat
    PROVE  /\ NewRow(until) \in Row
           /\ [row EXCEPT !.version = @ + 1] \in Row
           /\ [row EXCEPT !.version = @ + 1].version = row.version + 1
           /\ [row EXCEPT !.version = @ + 1].status = row.status
           /\ [row EXCEPT !.version = @ + 1].claims = row.claims
           /\ [row EXCEPT !.version = @ + 1].validUntil = row.validUntil
  BY DEF Row, NewRow, Unverified, Statuses, ClaimStatuses

\* A change of a row's status, validity or characterization keeps its other columns.
LEMMA ColumnShapes ==
    ASSUME NEW row \in Row, NEW st \in Statuses, NEW until \in Nat
    PROVE  /\ [row EXCEPT !.status = st] \in Row
           /\ [row EXCEPT !.status = st].status = st
           /\ [row EXCEPT !.status = st].version = row.version
           /\ [row EXCEPT !.status = st].claims = row.claims
           /\ [row EXCEPT !.status = st, !.validUntil = until] \in Row
           /\ [row EXCEPT !.status = st, !.validUntil = until].status = st
           /\ [row EXCEPT !.status = st, !.validUntil = until].version = row.version
           /\ [row EXCEPT !.status = st, !.validUntil = until].claims = row.claims
           /\ [row EXCEPT !.chars = @ + 1] \in Row
           /\ [row EXCEPT !.chars = @ + 1].status = row.status
           /\ [row EXCEPT !.chars = @ + 1].version = row.version
           /\ [row EXCEPT !.chars = @ + 1].claims = row.claims
<1>1. /\ [row EXCEPT !.status = st] \in Row
      /\ [row EXCEPT !.status = st].status = st
      /\ [row EXCEPT !.status = st].version = row.version
      /\ [row EXCEPT !.status = st].claims = row.claims
  BY DEF Row
<1>2. /\ [row EXCEPT !.status = st, !.validUntil = until] \in Row
      /\ [row EXCEPT !.status = st, !.validUntil = until].status = st
      /\ [row EXCEPT !.status = st, !.validUntil = until].version = row.version
      /\ [row EXCEPT !.status = st, !.validUntil = until].claims = row.claims
  BY DEF Row
<1>3. /\ [row EXCEPT !.chars = @ + 1] \in Row
      /\ [row EXCEPT !.chars = @ + 1].status = row.status
      /\ [row EXCEPT !.chars = @ + 1].version = row.version
      /\ [row EXCEPT !.chars = @ + 1].claims = row.claims
  BY DEF Row
<1> QED BY <1>1, <1>2, <1>3

\* What a refresh action may make of a row.
LEMMA ChangedShapes ==
    ASSUME NEW a \in Artifacts, NEW action \in RefreshActions(a), NEW row \in Row, clock \in Nat,
           row.status # "absent"
    PROVE  /\ Changed(row, action) \in Row
           /\ Changed(row, action).version = row.version
           /\ Changed(row, action).claims = row.claims
           /\ Changed(row, action).status # "absent"
           /\ action \in {"supersede", "deprecate"} => Changed(row, action).status \in Terminal
           /\ action \in Actions
           /\ a \in Decisions => /\ action \in {"waive", "supersede", "deprecate", "reopen"}
                                 /\ Changed(row, action).status # "addressed"
           /\ action = "reopen" => a \in Decisions /\ Changed(row, action).status = "refresh_due"
<1> DEFINE r == Changed(row, action)
           Made(st) == r \in Row /\ r.version = row.version /\ r.claims = row.claims /\ r.status = st
<1>1. action \in {"waive", "supersede", "deprecate", "reopen", "close", "characterize"}
  BY DEF RefreshActions
<1>2. /\ a \in Decisions => action \in {"waive", "supersede", "deprecate", "reopen"}
      /\ action = "reopen" => a \in Decisions
  BY DEF RefreshActions
<1>3. action = "waive" => Made("active")
  <2>1. "active" \in Statuses
    BY DEF Statuses
  <2>2. action = "waive" => r = [row EXCEPT !.status = "active", !.validUntil = clock]
    BY DEF Changed
  <2> DEFINE w == [row EXCEPT !.status = "active", !.validUntil = clock]
  <2>3. w \in Row
    BY <2>1, ColumnShapes
  <2>4. w.version = row.version /\ w.claims = row.claims /\ w.status = "active"
    BY DEF Row
  <2> HIDE DEF r, w
  <2> QED BY <2>2, <2>3, <2>4 DEF w
<1>4. action = "supersede" => Made("superseded")
  BY ColumnShapes DEF Changed, Statuses
<1>5. action = "deprecate" => Made("deprecated")
  BY ColumnShapes DEF Changed, Statuses
<1>6. action = "reopen" => Made("refresh_due")
  BY ColumnShapes DEF Changed, Statuses
<1>7. action = "close" => Made("addressed")
  BY ColumnShapes DEF Changed, Statuses
<1>8. action = "characterize" => Made(row.status)
  <2>1. row.status \in Statuses
    BY DEF Row
  <2> QED BY <2>1, ColumnShapes DEF Changed
<1> HIDE DEF r
<1>9. r \in Row /\ r.version = row.version /\ r.claims = row.claims
  BY <1>1, <1>3, <1>4, <1>5, <1>6, <1>7, <1>8
<1>10. r.status # "absent"
  BY <1>1, <1>3, <1>4, <1>5, <1>6, <1>7, <1>8
<1>11. action \in {"supersede", "deprecate"} => r.status \in Terminal
  BY <1>4, <1>5 DEF Terminal
<1>12. a \in Decisions => r.status # "addressed"
  BY <1>2, <1>3, <1>4, <1>5, <1>6
<1>13. action \in Actions
  BY <1>1 DEF Actions
<1>14. action = "reopen" => a \in Decisions /\ r.status = "refresh_due"
  BY <1>2, <1>6
<1> QED BY <1>2, <1>14, <1>9, <1>10, <1>11, <1>12, <1>13, Zenon DEF r

\* Superseding changes the verdict of items and nothing else.
LEMMA SupersedingShapes ==
    ASSUME NEW existing \in SUBSET Item, NEW items
    PROVE  /\ Superseding(existing, items) \in SUBSET Item
           /\ \A j \in Superseding(existing, items) : \E i \in existing :
                 /\ j.type = i.type /\ j.by = i.by /\ j.binds = i.binds /\ j.at = i.at
                 /\ j = i \/ j.verdict = "superseded"
                 /\ (i.type = "measurement" /\ \E n \in items : KeysOverlap(i.binds, n.binds))
                       => j.verdict = "superseded"
<1> DEFINE Sup(i) == [i EXCEPT !.verdict = "superseded"]
<1>1. \A i \in Item : /\ Sup(i) \in Item /\ Sup(i).verdict = "superseded"
                      /\ Sup(i).type = i.type /\ Sup(i).by = i.by /\ Sup(i).binds = i.binds /\ Sup(i).at = i.at
  BY DEF Item
<1>2. \A j \in Superseding(existing, items) : \E i \in existing :
         j = IF i.type = "measurement" /\ \E n \in items : KeysOverlap(i.binds, n.binds)
             THEN Sup(i) ELSE i
  BY DEF Superseding
<1> HIDE DEF Sup
<1>3. ASSUME NEW j \in Superseding(existing, items)
      PROVE  /\ j \in Item
             /\ \E i \in existing :
                 /\ j.type = i.type /\ j.by = i.by /\ j.binds = i.binds /\ j.at = i.at
                 /\ j = i \/ j.verdict = "superseded"
                 /\ (i.type = "measurement" /\ \E n \in items : KeysOverlap(i.binds, n.binds))
                       => j.verdict = "superseded"
  <2>1. PICK i \in existing :
          j = IF i.type = "measurement" /\ \E n \in items : KeysOverlap(i.binds, n.binds)
              THEN Sup(i) ELSE i
    BY <1>2
  <2>2. i \in Item
    OBVIOUS
  <2> QED BY <1>1, <2>1, <2>2
<1> QED BY <1>3

\* Dating items keeps the rest of them.
LEMMA DatedShapes ==
    ASSUME NEW items \in SUBSET Item, NEW n \in Nat
    PROVE  /\ {[i EXCEPT !.at = n] : i \in items} \in SUBSET Item
           /\ \A j \in {[i EXCEPT !.at = n] : i \in items} : \E i \in items :
                 /\ j.type = i.type /\ j.by = i.by /\ j.binds = i.binds
                 /\ j.verdict = i.verdict /\ j.at = n
<1>1. \A i \in Item : LET j == [i EXCEPT !.at = n] IN
         /\ j \in Item /\ j.type = i.type /\ j.by = i.by /\ j.binds = i.binds
         /\ j.verdict = i.verdict /\ j.at = n
  BY DEF Item
<1>2. ASSUME NEW j \in {[i EXCEPT !.at = n] : i \in items}
      PROVE  /\ j \in Item
             /\ \E i \in items : /\ j.type = i.type /\ j.by = i.by /\ j.binds = i.binds
                                 /\ j.verdict = i.verdict /\ j.at = n
  <2>1. PICK i \in items : j = [i EXCEPT !.at = n]
    OBVIOUS
  <2>2. i \in Item
    OBVIOUS
  <2> QED BY <1>1, <2>1, <2>2
<1> QED BY <1>2

\* A file list with any of the contents is one.
LEMMA FileLists ==
    ASSUME NEW fs \in SUBSET Files, NEW g \in [fs -> Contents]
    PROVE  g \in FileList
  BY DEF FileList

\* The items of a measurement are measurements.
LEMMA MeasurementShapes ==
    ASSUME NEW met \in SUBSET Claims, NEW notMet \in SUBSET Claims,
           NEW verdict \in {"accepted", "partial", "failed"}, NEW cl \in 0 .. 3, NEW until \in Nat
    PROVE  MeasurementItems(met, notMet, verdict, cl, until) \in SUBSET Item
<1>1. CanonicalStoredVerdict(verdict) \in Verdicts
  BY DEF CanonicalStoredVerdict, Verdicts
<1>2. \A a, b \in BOOLEAN : MeasuredVerdict(a, b) \in Verdicts
  BY DEF MeasuredVerdict, Verdicts
<1>3. \A v \in Verdicts, binds \in SUBSET Claims :
        [type |-> "measurement", by |-> "measure", verdict |-> v, binds |-> binds,
         cl |-> cl, validUntil |-> until, at |-> 0] \in Item
  BY DEF Item, EvidenceKinds
<1>4. CASE met \cup notMet = {}
  BY <1>1, <1>3, <1>4 DEF MeasurementItems
<1>5. CASE met \cup notMet # {}
  <2>1. \A c \in met \cup notMet : (c \in met) \in BOOLEAN /\ (c \in notMet) \in BOOLEAN /\ {c} \in SUBSET Claims
    OBVIOUS
  <2>2. \A c \in met \cup notMet : MeasuredVerdict(c \in met, c \in notMet) \in Verdicts
    BY <1>2, <2>1
  <2> QED BY <1>3, <1>5, <2>1, <2>2 DEF MeasurementItems
<1> QED BY <1>4, <1>5

\* Rebuilt statuses are statuses.
LEMMA RebuiltShapes ==
    ASSUME NEW d, NEW items
    PROVE  RebuiltClaims(d, items) \in [Claims -> ClaimStatuses]
<1>1. \A vs : ClaimStatusFromVerdicts(vs) \in ClaimStatuses
  BY DEF ClaimStatusFromVerdicts, ClaimStatuses
<1> HIDE DEF ClaimStatusFromVerdicts
<1> QED BY <1>1 DEF RebuiltClaims

\* A session moves to its next statement.
LEMMA SessionMoves ==
    ASSUME TypeOK, NEW s \in Sessions, NEW next \in Handler, sess' = [sess EXCEPT ![s] = next]
    PROVE  /\ sess' \in [Sessions -> Handler]
           /\ sess'[s] = next
           /\ \A t \in Sessions \ {s} : sess'[t] = sess[t]
  BY DEF TypeOK

\* A row is overwritten.
LEMMA RowWritten ==
    ASSUME TypeOK, NEW a \in Artifacts, NEW row \in Row, rows' = [rows EXCEPT ![a] = row]
    PROVE  /\ rows' \in [Artifacts -> Row]
           /\ rows'[a] = row
           /\ \A b \in Artifacts \ {a} : rows'[b] = rows[b]
  BY DEF TypeOK

\* Store.Update overwrites one row with the copy, one version on.
LEMMA RowUpdated ==
    ASSUME TypeOK, NEW a \in Artifacts, NEW copy \in Row, Update(a, copy)
    PROVE  /\ rows' \in [Artifacts -> Row]
           /\ rows'[a].version = copy.version + 1
           /\ rows'[a].status = copy.status
           /\ rows'[a].claims = copy.claims
           /\ rows'[a].validUntil = copy.validUntil
           /\ \A b \in Artifacts \ {a} : rows'[b] = rows[b]
           /\ stale' \in SUBSET Artifacts
           /\ \A b \in Artifacts \ {a} : b \in stale' <=> b \in stale
           /\ a \in stale' <=> (a \in stale \/ rows[a].version # copy.version)
<1> DEFINE row == [copy EXCEPT !.version = @ + 1]
<1>1. row \in Row /\ row.version = copy.version + 1 /\ row.status = copy.status /\ row.claims = copy.claims
      /\ row.validUntil = copy.validUntil
  BY RowShapes
<1>2. rows' = [rows EXCEPT ![a] = row]
  BY DEF Update
<1>3. stale' = stale \cup {x \in {a} : rows[a].version # copy.version}
  BY DEF Update
<1> HIDE DEF row
<1>4. rows' \in [Artifacts -> Row] /\ rows'[a] = row /\ \A b \in Artifacts \ {a} : rows'[b] = rows[b]
  BY <1>1, <1>2, RowWritten
<1> QED BY <1>1, <1>3, <1>4 DEF TypeOK

\* A step that moves one session and nothing else keeps the types.
LEMMA MoveTypes ==
    ASSUME TypeOK, NEW s \in Sessions, NEW next \in Handler,
           sess' = [sess EXCEPT ![s] = next], ops' \in Nat, aborts' \in Nat,
           UNCHANGED <<storeVars, worldVars, history>>
    PROVE  TypeOK'
<1>1. sess' \in [Sessions -> Handler]
  BY SessionMoves
<1> QED BY <1>1 DEF TypeOK, storeVars, worldVars, history

\* Starting a handler counts it.
LEMMA BeginCounts ==
    ASSUME TypeOK, NEW s \in Sessions, NEW next, Begin(s, next)
    PROVE  ops' \in Nat /\ sess' = [sess EXCEPT ![s] = next] /\ sess[s] = Idle
  BY DEF Begin, TypeOK

\* The handlers of decide keep the types.
LEMMA DecideTypes ==
    ASSUME TypeOK, NEW s \in Sessions, DecideCheck(s) \/ DecideCreate(s) \/ DecideTrack(s)
    PROVE  TypeOK'
<1> DEFINE h == sess[s]
<1>0. h \in Handler
  BY DEF TypeOK
<1>1. CASE DecideCheck(s)
  <2>1. PICK d \in Decisions, p \in Problems, fs \in SUBSET Files, until \in {0, clock} :
          Begin(s, [pc |-> "create", ref |-> d, problem |-> p, fs |-> fs, validUntil |-> until])
    BY <1>1 DEF DecideCheck
  <2>2. until \in Nat
    BY DEF TypeOK
  <2>3. [pc |-> "create", ref |-> d, problem |-> p, fs |-> fs, validUntil |-> until] \in Handler
    BY <2>2 DEF Handler
  <2>4. UNCHANGED <<storeVars, worldVars, aborts, history>>
    BY <1>1 DEF DecideCheck
  <2>5. aborts' \in Nat
    BY <2>4 DEF TypeOK
  <2> QED BY <2>1, <2>3, <2>4, <2>5, BeginCounts, MoveTypes
<1>2. CASE DecideCreate(s)
  <2>0. h.pc = "create"
    BY <1>2 DEF DecideCreate
  <2>1. h.ref \in Decisions /\ h.problem \in Problems /\ h.fs \in SUBSET Files /\ h.validUntil \in Nat
    BY <1>0, <2>0, HandlerShapes
  <2>2. [pc |-> "track", ref |-> h.ref, fs |-> h.fs] \in Handler
    BY <2>1 DEF Handler
  <2>3. sess' \in [Sessions -> Handler]
    BY <1>2, <2>2, SessionMoves DEF DecideCreate, Step
  <2>4. NewRow(h.validUntil) \in Row
    BY <2>1 DEF NewRow, Row, Unverified, Statuses, ClaimStatuses
  <2>5. rows' \in [Artifacts -> Row]
    BY <1>2, <2>1, <2>4, RowWritten DEF DecideCreate, Create, Artifacts
  <2>6. <<h.ref, h.problem, "based_on">> \in Artifacts \X Artifacts \X {"based_on", "revisits", "supersedes"}
    BY <2>1 DEF Artifacts
  <2>7. Overtaken(s, h.problem) \subseteq Decisions
    <3> SUFFICES ASSUME NEW t \in Sessions, sess[t].pc = "create" PROVE sess[t].ref \in Decisions
      BY DEF Overtaken
    <3> QED BY HandlerShapes DEF TypeOK
  <2> HIDE DEF h
  <2>8. links' \subseteq (Artifacts \X Artifacts \X {"based_on", "revisits", "supersedes"}) /\ raced' \subseteq Decisions
    BY <1>2, <2>6, <2>7 DEF DecideCreate, TypeOK, h
  <2>9. UNCHANGED <<files, evidence, serial, tree, clock, edits, ops, aborts, stale, archived, revived>>
    BY <1>2 DEF DecideCreate, Step, worldVars
  <2> QED BY <2>3, <2>5, <2>8, <2>9 DEF TypeOK
<1>3. CASE DecideTrack(s)
  <2>0. h.pc = "track"
    BY <1>3 DEF DecideTrack
  <2>1. h.ref \in Decisions /\ h.fs \in SUBSET Files
    BY <1>0, <2>0, HandlerShapes
  <2>2. Idle \in Handler /\ [pc |-> "load", ref |-> h.ref] \in Handler
    BY <2>1 DEF Handler
  <2>3. \E next \in Handler : sess' = [sess EXCEPT ![s] = next] /\ UNCHANGED ops
    BY <1>3, <2>2 DEF DecideTrack, Done, Step
  <2>4. sess' \in [Sessions -> Handler]
    BY <2>3, SessionMoves
  <2>5. [f \in h.fs |-> 0] \in [h.fs -> Contents]
    BY DEF Contents
  <2>6. [f \in h.fs |-> 0] \in FileList
    BY <2>1, <2>5, FileLists
  <2>7. files' \in [Decisions -> FileList]
    BY <1>3, <2>1, <2>6 DEF DecideTrack, SetAffectedFiles, TypeOK
  <2>8. UNCHANGED <<rows, links, evidence, serial, tree, clock, edits, ops, aborts, stale, archived, revived, raced>>
    BY <1>3, <2>3 DEF DecideTrack, worldVars
  <2> QED BY <2>4, <2>7, <2>8 DEF TypeOK
<1> QED BY <1>1, <1>2, <1>3

\* The handlers of baseline keep the types.
LEMMA BaselineTypes ==
    ASSUME TypeOK, NEW s \in Sessions,
           \/ BaselineBegin(s) \/ BaselineLoad(s) \/ BaselineRelist(s)
           \/ BaselineList(s) \/ BaselineHash(s) \/ BaselineSave(s)
    PROVE  TypeOK'
<1> DEFINE h == sess[s]
<1>0. h \in Handler
  BY DEF TypeOK
<1>1. CASE BaselineBegin(s)
  <2>1. PICK d \in Decisions, fs \in SUBSET Files :
          Begin(s, [pc |-> IF fs = {} THEN "list" ELSE "relist", ref |-> d, copy |-> rows[d], fs |-> fs])
    BY <1>1 DEF BaselineBegin
  <2>2. rows[d] \in Row
    BY DEF TypeOK, Artifacts
  <2>3. [pc |-> IF fs = {} THEN "list" ELSE "relist", ref |-> d, copy |-> rows[d], fs |-> fs] \in Handler
    BY <2>2 DEF Handler
  <2>4. UNCHANGED <<storeVars, worldVars, aborts, history>>
    BY <1>1 DEF BaselineBegin
  <2>5. aborts' \in Nat
    BY <2>4 DEF TypeOK
  <2> QED BY <2>1, <2>3, <2>4, <2>5, BeginCounts, MoveTypes
<1>2. CASE BaselineLoad(s)
  <2>1. h.pc = "load" /\ h.ref \in Decisions
    BY <1>0, <1>2, HandlerShapes DEF BaselineLoad
  <2>2. rows[h.ref] \in Row
    BY <2>1 DEF TypeOK, Artifacts
  <2>3. [pc |-> "list", ref |-> h.ref, copy |-> rows[h.ref], fs |-> {}] \in Handler
    BY <2>1, <2>2 DEF Handler
  <2>4. sess' = [sess EXCEPT ![s] = [pc |-> "list", ref |-> h.ref, copy |-> rows[h.ref], fs |-> {}]]
    BY <1>2 DEF BaselineLoad, Step
  <2>5. UNCHANGED <<storeVars, worldVars, aborts, history, ops>>
    BY <1>2 DEF BaselineLoad, Step
  <2>6. aborts' \in Nat /\ ops' \in Nat
    BY <2>5 DEF TypeOK
  <2> QED BY <2>3, <2>4, <2>5, <2>6, MoveTypes
<1>3. CASE BaselineRelist(s)
  <2>1. h.pc = "relist" /\ h.ref \in Decisions /\ h.fs \in SUBSET Files
    BY <1>0, <1>3, HandlerShapes DEF BaselineRelist
  <2>2. [h EXCEPT !.pc = "list"] \in Handler
    BY <1>0, <2>1, RelistShape
  <2>3. sess' \in [Sessions -> Handler]
    BY <1>3, <2>2, SessionMoves DEF BaselineRelist, Step
  <2>4. [f \in h.fs |-> 0] \in FileList
    BY <2>1, FileLists DEF Contents
  <2>5. files' \in [Decisions -> FileList]
    BY <1>3, <2>1, <2>4 DEF BaselineRelist, SetAffectedFiles, TypeOK
  <2>6. UNCHANGED <<rows, links, evidence, serial, worldVars, ops, aborts, history>>
    BY <1>3 DEF BaselineRelist, Step
  <2> QED BY <2>3, <2>5, <2>6 DEF TypeOK, worldVars, history
<1>4. CASE BaselineList(s)
  <2>1. h.pc = "list" /\ h.ref \in Decisions /\ h.copy \in Row
    BY <1>0, <1>4, HandlerShapes DEF BaselineList, Copying
  <2> DEFINE present == {f \in DOMAIN files[h.ref] : tree[f] # 0}
             listed == [f \in present |-> tree[f]]
  <2>2. listed \in FileList
    <3>1. files[h.ref] \in FileList
      BY <2>1 DEF TypeOK
    <3>2. DOMAIN files[h.ref] \subseteq Files
      BY <3>1 DEF FileList
    <3>3. listed \in [present -> Contents]
      BY <3>2 DEF TypeOK
    <3>4. present \in SUBSET Files
      BY <3>2
    <3> HIDE DEF listed, present
    <3> QED BY <3>3, <3>4, FileLists
  <2>3. \E next \in Handler : sess' = [sess EXCEPT ![s] = next]
    <3> HIDE DEF listed
    <3>1. [pc |-> "hash", ref |-> h.ref, copy |-> h.copy, listed |-> listed] \in Handler /\ Idle \in Handler
      BY <2>1, <2>2 DEF Handler
    <3> QED BY <1>4, <3>1 DEF BaselineList, Done, Step, listed
  <2>4. UNCHANGED <<storeVars, worldVars, aborts, history, ops>>
    BY <1>4 DEF BaselineList, Step, Done
  <2>5. aborts' \in Nat /\ ops' \in Nat
    BY <2>4 DEF TypeOK
  <2> QED BY <2>3, <2>4, <2>5, MoveTypes
<1>5. CASE BaselineHash(s)
  <2>1. h.pc = "hash" /\ h.ref \in Decisions /\ h.copy \in Row /\ h.listed \in FileList
    BY <1>0, <1>5, HandlerShapes DEF BaselineHash, Copying
  <2>2. [pc |-> "save", ref |-> h.ref, copy |-> h.copy, fs |-> {}] \in Handler
    BY <2>1 DEF Handler
  <2>3. sess' \in [Sessions -> Handler]
    BY <1>5, <2>2, SessionMoves DEF BaselineHash, Step
  <2>4. files' \in [Decisions -> FileList]
    BY <1>5, <2>1 DEF BaselineHash, SetAffectedFiles, TypeOK
  <2>5. UNCHANGED <<rows, links, evidence, serial, worldVars, ops, aborts, history>>
    BY <1>5 DEF BaselineHash, Step
  <2> QED BY <2>3, <2>4, <2>5 DEF TypeOK, worldVars, history
<1>6. CASE BaselineSave(s)
  <2>1. h.pc = "save" /\ h.ref \in Artifacts /\ h.copy \in Row
    BY <1>0, <1>6, HandlerShapes DEF BaselineSave, Copying, Artifacts
  <2>2. Idle \in Handler
    BY DEF Handler
  <2>3. sess' \in [Sessions -> Handler]
    BY <1>6, <2>2, SessionMoves DEF BaselineSave, Done, Step
  <2>4. rows' \in [Artifacts -> Row] /\ stale' \in SUBSET Artifacts
    BY <1>6, <2>1, RowUpdated DEF BaselineSave
  <2>5. UNCHANGED <<links, files, evidence, serial, worldVars, ops, aborts, archived, revived, raced>>
    BY <1>6 DEF BaselineSave, Done, Step
  <2> QED BY <2>3, <2>4, <2>5 DEF TypeOK, worldVars
<1> QED BY <1>1, <1>2, <1>3, <1>4, <1>5, <1>6

\* What MeasureBegin puts into its handler.
LEMMA MeasureBegun ==
    ASSUME TypeOK, NEW s \in Sessions, MeasureBegin(s)
    PROVE  \E d \in Decisions, items \in SUBSET Item, copy \in Row :
              /\ Stored(d)
              /\ copy.version = rows[d].version /\ copy.status = rows[d].status
              /\ copy.claims = RebuiltClaims(d, items)
              /\ Begin(s, [pc |-> "measure", ref |-> d, items |-> items, copy |-> copy])
<1>1. PICK d \in Decisions, met \in SUBSET Claims, notMet \in SUBSET Claims,
           verdict \in {"accepted", "partial", "failed"} :
        /\ Stored(d)
        /\ LET cl    == IF HasBaseline(d) THEN 3 ELSE 1
               items == MeasurementItems(met, notMet, verdict, cl, rows[d].validUntil)
           IN  Begin(s, [pc |-> "measure", ref |-> d, items |-> items,
                         copy |-> [rows[d] EXCEPT !.claims = RebuiltClaims(d, items)]])
  BY DEF MeasureBegin
<1> DEFINE cl    == IF HasBaseline(d) THEN 3 ELSE 1
           items == MeasurementItems(met, notMet, verdict, cl, rows[d].validUntil)
           copy  == [rows[d] EXCEPT !.claims = RebuiltClaims(d, items)]
<1>2. rows[d] \in Row /\ rows[d].validUntil \in Nat /\ cl \in 0 .. 3
  BY DEF TypeOK, Artifacts, Row
<1> HIDE DEF cl
<1>3. items \in SUBSET Item
  BY <1>2, MeasurementShapes
<1>4. RebuiltClaims(d, items) \in [Claims -> ClaimStatuses]
  BY RebuiltShapes
<1>5. /\ copy \in Row /\ copy.version = rows[d].version /\ copy.status = rows[d].status
      /\ copy.claims = RebuiltClaims(d, items)
  <2> HIDE DEF items
  <2> QED BY <1>2, <1>4 DEF Row
<1>6. Begin(s, [pc |-> "measure", ref |-> d, items |-> items, copy |-> copy])
  BY <1>1 DEF cl
<1> HIDE DEF items, copy
<1> QED BY <1>1, <1>3, <1>5, <1>6

\* The evidence a measurement leaves.
LEMMA MeasurementCommitted ==
    ASSUME TypeOK, NEW d \in Decisions, NEW items \in SUBSET Item, NEW copy,
           CommitMeasurement(d, copy, items)
    PROVE  /\ evidence' \in [Decisions -> SUBSET Item]
           /\ evidence'[d] = Superseding(evidence[d], items) \cup {[i EXCEPT !.at = serial] : i \in items}
           /\ \A e \in Decisions \ {d} : evidence'[e] = evidence[e]
           /\ serial' = serial + 1 /\ serial' \in Nat
<1> DEFINE after == Superseding(evidence[d], items) \cup {[i EXCEPT !.at = serial] : i \in items}
<1>1. evidence' = [evidence EXCEPT ![d] = after] /\ serial' = serial + 1
  BY DEF CommitMeasurement
<1>2. evidence[d] \in SUBSET Item /\ serial \in Nat
  BY DEF TypeOK
<1>3. after \in SUBSET Item
  BY <1>2, SupersedingShapes, DatedShapes
<1> HIDE DEF after
<1>4. evidence' \in [Decisions -> SUBSET Item] /\ evidence'[d] = after
      /\ \A e \in Decisions \ {d} : evidence'[e] = evidence[e]
  BY <1>1, <1>3 DEF TypeOK
<1> QED BY <1>1, <1>2, <1>4 DEF after

\* The evidence an attachment leaves.
LEMMA EvidenceAttached ==
    ASSUME TypeOK, NEW s \in Sessions, AttachEvidence(s)
    PROVE  /\ sess' = sess /\ ops' \in Nat
           /\ evidence' \in [Decisions -> SUBSET Item]
           /\ serial' = serial + 1 /\ serial' \in Nat
           /\ \E d \in Decisions, item \in Item :
                 /\ Stored(d) /\ item.by = "attach" /\ item.at = serial
                 /\ evidence'[d] = evidence[d] \cup {item}
                 /\ \A e \in Decisions \ {d} : evidence'[e] = evidence[e]
           /\ UNCHANGED <<rows, links, files, reports, worldVars, aborts, history>>
<1>1. PICK d \in Decisions, binds \in SUBSET Claims, input \in AttachInputs :
        /\ Stored(d)
        /\ Begin(s, Idle)
        /\ evidence' = [evidence EXCEPT ![d] = @ \cup
              {[type |-> input.type, by |-> "attach", verdict |-> input.verdict, binds |-> binds,
                cl |-> input.cl, validUntil |-> 0, at |-> serial]}]
        /\ serial' = serial + 1
        /\ UNCHANGED <<rows, links, files, reports, worldVars, aborts, history>>
  BY DEF AttachEvidence
<1> DEFINE item == [type |-> input.type, by |-> "attach", verdict |-> input.verdict, binds |-> binds,
                    cl |-> input.cl, validUntil |-> 0, at |-> serial]
<1>2. input.type \in EvidenceKinds /\ input.verdict \in Verdicts /\ input.cl \in 0 .. 3
  BY DEF AttachInputs, Verdicts, EvidenceKinds
<1>3. serial \in Nat
  BY DEF TypeOK
<1>4. item \in Item /\ item.by = "attach" /\ item.at = serial
  BY <1>2, <1>3 DEF Item
<1>5. evidence' = [evidence EXCEPT ![d] = @ \cup {item}]
  BY <1>1
<1> HIDE DEF item
<1>6. /\ evidence' \in [Decisions -> SUBSET Item] /\ evidence'[d] = evidence[d] \cup {item}
      /\ \A e \in Decisions \ {d} : evidence'[e] = evidence[e]
  BY <1>4, <1>5 DEF TypeOK
<1>7. sess' = sess /\ ops' \in Nat
  BY <1>1, BeginCounts DEF TypeOK
<1> QED BY <1>1, <1>3, <1>4, <1>6, <1>7

\* measure and evidence keep the types.
LEMMA EvidenceTypes ==
    ASSUME TypeOK, NEW s \in Sessions, MeasureBegin(s) \/ MeasureCommit(s) \/ AttachEvidence(s)
    PROVE  TypeOK'
<1> DEFINE h == sess[s]
<1>0. h \in Handler
  BY DEF TypeOK
<1>1. CASE MeasureBegin(s)
  <2>1. PICK d \in Decisions, items \in SUBSET Item, copy \in Row :
          Begin(s, [pc |-> "measure", ref |-> d, items |-> items, copy |-> copy])
    BY <1>1, MeasureBegun
  <2>2. [pc |-> "measure", ref |-> d, items |-> items, copy |-> copy] \in Handler
    BY DEF Handler
  <2>3. UNCHANGED <<storeVars, worldVars, aborts, history>>
    BY <1>1 DEF MeasureBegin
  <2>4. aborts' \in Nat
    BY <2>3 DEF TypeOK
  <2> QED BY <2>1, <2>2, <2>3, <2>4, BeginCounts, MoveTypes
<1>2. CASE MeasureCommit(s)
  <2>1. h.ref \in Decisions /\ h.ref \in Artifacts /\ h.copy \in Row /\ h.items \in SUBSET Item
    BY <1>0, <1>2, HandlerShapes DEF MeasureCommit, Copying, Artifacts
  <2>2. Idle \in Handler
    BY DEF Handler
  <2>3. sess' \in [Sessions -> Handler]
    BY <1>2, <2>2, SessionMoves DEF MeasureCommit, Done, Step
  <2>4. rows' \in [Artifacts -> Row] /\ stale' \in SUBSET Artifacts
    BY <1>2, <2>1, RowUpdated DEF MeasureCommit, CommitMeasurement
  <2>5. evidence' \in [Decisions -> SUBSET Item] /\ serial' \in Nat
    BY <1>2, <2>1, MeasurementCommitted DEF MeasureCommit
  <2>6. UNCHANGED <<links, files, worldVars, ops, aborts, archived, revived, raced>>
    BY <1>2 DEF MeasureCommit, Done, Step
  <2> QED BY <2>3, <2>4, <2>5, <2>6 DEF TypeOK, worldVars
<1>3. CASE AttachEvidence(s)
  <2>1. /\ sess' = sess /\ ops' \in Nat /\ evidence' \in [Decisions -> SUBSET Item] /\ serial' \in Nat
        /\ UNCHANGED <<rows, links, files, reports, worldVars, aborts, history>>
    BY <1>3, EvidenceAttached
  <2> QED BY <2>1 DEF TypeOK, worldVars, history
<1> QED BY <1>1, <1>2, <1>3

\* What RefreshLoad puts into its handler.
LEMMA RefreshLoaded ==
    ASSUME TypeOK, NEW s \in Sessions, RefreshLoad(s)
    PROVE  \E a \in Artifacts, action \in Actions, by \in Artifacts \cup {NoRef}, copy \in Row :
              /\ Stored(a)
              /\ copy.version = rows[a].version /\ copy.claims = rows[a].claims
              /\ copy.status # "absent"
              /\ action \in {"supersede", "deprecate"} => copy.status \in Terminal
              /\ a \in Decisions => /\ action \in {"waive", "supersede", "deprecate", "reopen"}
                                    /\ copy.status # "addressed"
              /\ action = "reopen" => a \in Decisions /\ copy.status = "refresh_due"
              /\ Begin(s, [pc |-> "write", ref |-> a, copy |-> copy, action |-> action, by |-> by])
<1>1. PICK a \in Artifacts : \E action \in RefreshActions(a), by \in {b \in Artifacts \ {a} : Stored(b)} \cup {NoRef} :
        /\ Stored(a)
        /\ Begin(s, [pc |-> "write", ref |-> a, copy |-> Changed(rows[a], action),
                     action |-> action, by |-> by])
  BY DEF RefreshLoad
<1>2. PICK action \in RefreshActions(a), by \in Artifacts \cup {NoRef} :
        /\ Stored(a)
        /\ Begin(s, [pc |-> "write", ref |-> a, copy |-> Changed(rows[a], action),
                     action |-> action, by |-> by])
  BY <1>1
<1>3. rows[a] \in Row /\ clock \in Nat /\ rows[a].status # "absent"
  BY <1>2 DEF TypeOK, Stored
<1> HIDE DEF RefreshActions
<1> DEFINE copy == Changed(rows[a], action)
<1>4. /\ copy \in Row /\ copy.version = rows[a].version /\ copy.claims = rows[a].claims
      /\ copy.status # "absent"
      /\ action \in {"supersede", "deprecate"} => copy.status \in Terminal
      /\ action \in Actions
      /\ a \in Decisions => /\ action \in {"waive", "supersede", "deprecate", "reopen"}
                            /\ copy.status # "addressed"
      /\ action = "reopen" => a \in Decisions /\ copy.status = "refresh_due"
  BY <1>3, ChangedShapes
<1> HIDE DEF copy
<1>5. Begin(s, [pc |-> "write", ref |-> a, copy |-> copy, action |-> action, by |-> by])
  BY <1>2 DEF copy
<1> QED BY <1>2, <1>4, <1>5

\* The refresh actions keep the types.
LEMMA RefreshTypes ==
    ASSUME TypeOK, NEW s \in Sessions, WriteSound(sess[s]), RefreshLoad(s) \/ RefreshWrite(s)
    PROVE  TypeOK'
<1> DEFINE h == sess[s]
<1>0. h \in Handler
  BY DEF TypeOK
<1>1. CASE RefreshLoad(s)
  <2>1. PICK a \in Artifacts, action \in Actions, by \in Artifacts \cup {NoRef}, copy \in Row :
          Begin(s, [pc |-> "write", ref |-> a, copy |-> copy, action |-> action, by |-> by])
    BY <1>1, RefreshLoaded
  <2>2. [pc |-> "write", ref |-> a, copy |-> copy, action |-> action, by |-> by] \in Handler
    BY DEF Handler
  <2>3. UNCHANGED <<storeVars, worldVars, aborts, history>>
    BY <1>1 DEF RefreshLoad
  <2>4. aborts' \in Nat
    BY <2>3 DEF TypeOK
  <2> QED BY <2>1, <2>2, <2>3, <2>4, BeginCounts, MoveTypes
<1>2. CASE RefreshWrite(s)
  <2>1. h.pc = "write" /\ h.ref \in Artifacts /\ h.copy \in Row /\ h.action \in Actions /\ h.by \in Artifacts \cup {NoRef}
    BY <1>0, <1>2, HandlerShapes DEF RefreshWrite, Copying
  <2>2. h.action = "reopen" => h.ref \in Decisions
    BY <2>1 DEF WriteSound
  <2>3. \E next \in Handler : sess' = [sess EXCEPT ![s] = next] /\ UNCHANGED ops
    <3>1. CASE h.action = "reopen"
      <4>1. [pc |-> "frame", ref |-> h.ref] \in Handler
        BY <2>2, <3>1 DEF Handler
      <4> QED BY <1>2, <3>1, <4>1 DEF RefreshWrite, Step
    <3>2. CASE h.action \in {"close", "characterize"}
      <4>1. Idle \in Handler
        BY DEF Handler
      <4> QED BY <1>2, <3>2, <4>1 DEF RefreshWrite, Step, Done
    <3>3. CASE h.action \notin {"reopen", "close", "characterize"}
      <4>1. [pc |-> "report", ref |-> h.ref, action |-> h.action] \in Handler
        BY <2>1 DEF Handler
      <4> QED BY <1>2, <3>3, <4>1 DEF RefreshWrite, Step
    <3> QED BY <3>1, <3>2, <3>3
  <2>4. sess' \in [Sessions -> Handler]
    BY <2>3, SessionMoves
  <2>5. rows' \in [Artifacts -> Row] /\ stale' \in SUBSET Artifacts
    BY <1>2, <2>1, RowUpdated DEF RefreshWrite
  <2>6. links' \subseteq (Artifacts \X Artifacts \X {"based_on", "revisits", "supersedes"})
    <3>1. links' = links \cup {<<n, h.ref, "supersedes">> : n \in {h.by} \ {NoRef}}
      BY <1>2 DEF RefreshWrite
    <3>2. \A n \in {h.by} \ {NoRef} : n \in Artifacts
      BY <2>1
    <3> QED BY <2>1, <3>1, <3>2 DEF TypeOK
  <2>7. archived' \subseteq Artifacts
    BY <1>2, <2>1 DEF RefreshWrite, TypeOK
  <2>8. revived' \subseteq Decisions
    BY <1>2 DEF RefreshWrite, TypeOK
  <2>9. raced' \subseteq Decisions
    <3>1. RevivedOvertakes(h.ref) \subseteq Decisions
      <4> SUFFICES ASSUME NEW t \in Sessions, sess[t].pc = "create" PROVE sess[t].ref \in Decisions
        BY DEF RevivedOvertakes
      <4> QED BY HandlerShapes DEF TypeOK
    <3> QED BY <1>2, <3>1 DEF RefreshWrite, TypeOK
  <2>10. UNCHANGED <<files, evidence, serial, worldVars, ops, aborts>>
    BY <1>2, <2>3 DEF RefreshWrite
  <2> QED BY <2>4, <2>5, <2>6, <2>7, <2>8, <2>9, <2>10 DEF TypeOK, worldVars
<1> QED BY <1>1, <1>2

\* reopen's later statements, frame and the report keep the types.
LEMMA ReopenTypes ==
    ASSUME TypeOK, NEW s \in Sessions,
           ReopenFrame(s) \/ ReopenLineage(s) \/ ReopenLink(s) \/ Report(s) \/ Frame(s)
    PROVE  TypeOK'
<1> DEFINE h == sess[s]
<1>0. h \in Handler /\ Idle \in Handler
  BY DEF TypeOK, Handler
<1>1. NewRow(0) \in Row
  BY DEF NewRow, Row, Unverified, Statuses, ClaimStatuses
<1>2. CASE ReopenFrame(s)
  <2>1. h.pc = "frame" /\ h.ref \in Decisions
    BY <1>0, <1>2, HandlerShapes DEF ReopenFrame
  <2>2. PICK p \in Problems : /\ Create(p, NewRow(0))
                              /\ Step(s, [pc |-> "lineage", ref |-> h.ref, problem |-> p, copy |-> NewRow(0)])
    BY <1>2 DEF ReopenFrame
  <2>3. [pc |-> "lineage", ref |-> h.ref, problem |-> p, copy |-> NewRow(0)] \in Handler
    BY <1>1, <2>1 DEF Handler
  <2>4. sess' \in [Sessions -> Handler]
    BY <2>2, <2>3, SessionMoves DEF Step
  <2>5. rows' \in [Artifacts -> Row]
    BY <1>1, <2>2, RowWritten DEF Create, Artifacts
  <2>6. UNCHANGED <<links, files, evidence, serial, worldVars, ops, aborts, history>>
    BY <1>2 DEF ReopenFrame, Step
  <2> QED BY <2>4, <2>5, <2>6 DEF TypeOK, worldVars, history
<1>3. CASE ReopenLineage(s)
  <2>1. h.ref \in Decisions /\ h.problem \in Problems /\ h.problem \in Artifacts /\ h.copy \in Row
    BY <1>0, <1>3, HandlerShapes DEF ReopenLineage, Artifacts
  <2>2. [pc |-> "revisit", ref |-> h.ref, problem |-> h.problem] \in Handler
    BY <2>1 DEF Handler
  <2>3. sess' \in [Sessions -> Handler]
    BY <1>3, <2>2, SessionMoves DEF ReopenLineage, Step
  <2>4. rows' \in [Artifacts -> Row] /\ stale' \in SUBSET Artifacts
    BY <1>3, <2>1, RowUpdated DEF ReopenLineage
  <2>5. UNCHANGED <<links, files, evidence, serial, worldVars, ops, aborts, archived, revived, raced>>
    BY <1>3 DEF ReopenLineage, Step
  <2> QED BY <2>3, <2>4, <2>5 DEF TypeOK, worldVars
<1>4. CASE ReopenLink(s)
  <2>1. h.ref \in Artifacts /\ h.problem \in Artifacts
    BY <1>0, <1>4, HandlerShapes DEF ReopenLink, Artifacts
  <2>2. [pc |-> "report", ref |-> h.ref, action |-> "reopen"] \in Handler
    BY <2>1 DEF Handler, Actions
  <2>3. sess' \in [Sessions -> Handler]
    BY <1>4, <2>2, SessionMoves DEF ReopenLink, Step
  <2>4. links' \subseteq (Artifacts \X Artifacts \X {"based_on", "revisits", "supersedes"})
    BY <1>4, <2>1 DEF ReopenLink, TypeOK
  <2>5. UNCHANGED <<rows, files, evidence, serial, worldVars, ops, aborts, history>>
    BY <1>4 DEF ReopenLink, Step
  <2> QED BY <2>3, <2>4, <2>5 DEF TypeOK, worldVars, history
<1>5. CASE Report(s)
  <2>1. sess' \in [Sessions -> Handler]
    BY <1>0, <1>5, SessionMoves DEF Report, Done, Step
  <2>2. UNCHANGED <<rows, links, files, evidence, serial, worldVars, ops, aborts, history>>
    BY <1>5 DEF Report, Done, Step
  <2> QED BY <2>1, <2>2 DEF TypeOK, worldVars, history
<1>6. CASE Frame(s)
  <2>1. PICK p \in Problems : Begin(s, Idle) /\ Create(p, NewRow(0))
    BY <1>6 DEF Frame
  <2>2. sess' \in [Sessions -> Handler] /\ ops' \in Nat
    BY <1>0, <2>1, BeginCounts, SessionMoves
  <2>3. rows' \in [Artifacts -> Row]
    BY <1>1, <2>1, RowWritten DEF Create, Artifacts
  <2>4. UNCHANGED <<links, files, evidence, serial, worldVars, aborts, history>>
    BY <1>6 DEF Frame
  <2> QED BY <2>2, <2>3, <2>4 DEF TypeOK, worldVars, history
<1> QED BY <1>2, <1>3, <1>4, <1>5, <1>6

\* Aborts, the clock and edits of the project's files keep the types.
LEMMA WorldTypes ==
    ASSUME TypeOK, Tick \/ Edit \/ \E s \in Sessions : Abort(s)
    PROVE  TypeOK'
<1>1. CASE Tick
  BY <1>1 DEF Tick, TypeOK, storeVars, history
<1>2. CASE Edit
  <2>1. PICK f \in Files, content \in Contents : tree' = [tree EXCEPT ![f] = content]
    BY <1>2 DEF Edit
  <2>2. tree' \in [Files -> Contents] /\ edits' \in Nat
    BY <1>2, <2>1 DEF Edit, TypeOK
  <2> QED BY <1>2, <2>2 DEF Edit, TypeOK, storeVars, history
<1>3. CASE \E s \in Sessions : Abort(s)
  <2>1. PICK s \in Sessions : Abort(s)
    BY <1>3
  <2>2. Idle \in Handler /\ sess' = [sess EXCEPT ![s] = Idle]
    BY <2>1 DEF Handler, Abort, Done, Step
  <2>3. ops' \in Nat /\ aborts' \in Nat /\ UNCHANGED <<storeVars, worldVars, history>>
    BY <2>1 DEF Abort, Done, Step, TypeOK
  <2> QED BY <2>2, <2>3, MoveTypes
<1> QED BY <1>1, <1>2, <1>3

----------------------------------------------------------------------------
(* Claims and the measurements of them.                                    *)

\* ClaimsFollowMeasurements in terms of Agrees.
LEMMA ClaimsAgree ==
    ClaimsFollowMeasurements <=>
        \A d \in Decisions \ stale, c \in Claims : Agrees(rows[d].claims[c], Measured(evidence[d], c))
<1>1. ASSUME NEW d \in Decisions, NEW c \in Claims
      PROVE  {i \in Active(d) : i.by = "measure" /\ c \in i.binds} = Measured(evidence[d], c)
  BY DEF Active, Measured
<1> QED BY <1>1 DEF ClaimsFollowMeasurements, Agrees

\* A status agrees with fewer measurements as well.
LEMMA AgreesWithFewer ==
    ASSUME NEW status, NEW more, NEW fewer, Agrees(status, more),
           \A i \in fewer : \E j \in more : j.verdict = i.verdict
    PROVE  Agrees(status, fewer)
  BY DEF Agrees

\* A status rebuilt from verdicts agrees with the measurements they are of.
LEMMA RebuiltAgrees ==
    ASSUME NEW verdicts, NEW measured, \A i \in measured : i.verdict \in verdicts
    PROVE  Agrees(ClaimStatusFromVerdicts(verdicts), measured)
<1>1. verdicts # {} => ClaimStatusFromVerdicts(verdicts) # "unverified"
  BY DEF ClaimStatusFromVerdicts
<1>2. "refutes" \in verdicts => ClaimStatusFromVerdicts(verdicts) # "supported"
  BY DEF ClaimStatusFromVerdicts
<1> HIDE DEF ClaimStatusFromVerdicts
<1> QED BY <1>1, <1>2 DEF Agrees

\* An attached item adds nothing to the measurements that will be in force.
LEMMA AttachedIsNotMeasured ==
    ASSUME NEW existing \in SUBSET Item, NEW items, NEW item \in Item, item.by = "attach", NEW c
    PROVE  /\ Measured(existing \cup {item}, c) \subseteq Measured(existing, c)
           /\ Measured(Superseding(existing \cup {item}, items) \cup items, c)
                 \subseteq Measured(Superseding(existing, items) \cup items, c)
<1>1. Superseding(existing \cup {item}, items)
         = Superseding(existing, items) \cup Superseding({item}, items)
  BY DEF Superseding
<1>2. \A j \in Superseding({item}, items) : j.by = "attach"
  BY SupersedingShapes
<1> QED BY <1>1, <1>2 DEF Measured

\* What measure computes from the evidence it reads agrees with what its
\* transaction will leave in force, if nothing is committed in between.
LEMMA BegunAgrees ==
    ASSUME NEW d, NEW items, NEW c \in Claims
    PROVE  Agrees(RebuiltClaims(d, items)[c], Measured(Superseding(evidence[d], items) \cup items, c))
<1> DEFINE after == {i \in Superseding(evidence[d], items) : i.verdict # "superseded"} \cup items
           verdicts == {i.verdict : i \in {j \in after : c \in j.binds}}
           measured == Measured(Superseding(evidence[d], items) \cup items, c)
<1>1. RebuiltClaims(d, items)[c] = ClaimStatusFromVerdicts(verdicts)
  BY DEF RebuiltClaims
<1>2. \A i \in measured : i.verdict \in verdicts
  BY DEF Measured
<1> HIDE DEF measured, verdicts
<1>3. Agrees(ClaimStatusFromVerdicts(verdicts), measured)
  BY <1>2, RebuiltAgrees
<1> QED BY <1>1, <1>3 DEF measured

\* What a commit leaves in force are the measurements its statuses were made for.
LEMMA CommittedAgrees ==
    ASSUME NEW existing \in SUBSET Item, NEW items \in SUBSET Item, NEW n \in Nat, NEW c, NEW status,
           Agrees(status, Measured(Superseding(existing, items) \cup items, c))
    PROVE  Agrees(status, Measured(Superseding(existing, items) \cup {[i EXCEPT !.at = n] : i \in items}, c))
<1> DEFINE dated == {[i EXCEPT !.at = n] : i \in items}
           more == Measured(Superseding(existing, items) \cup items, c)
<1>1. \A j \in dated : \E i \in items : j.by = i.by /\ j.binds = i.binds /\ j.verdict = i.verdict
  BY DatedShapes
<1> HIDE DEF dated
<1>2. \A j \in Measured(Superseding(existing, items) \cup dated, c) : \E i \in more : i.verdict = j.verdict
  BY <1>1 DEF Measured
<1> HIDE DEF more
<1>3. Agrees(status, Measured(Superseding(existing, items) \cup dated, c))
  BY <1>2, AgreesWithFewer DEF more
<1> QED BY <1>3 DEF dated

----------------------------------------------------------------------------
(* Steps that leave the decisions alone.                                   *)

\* Nothing the invariant says of a decision changes.
DecisionsKept ==
    /\ \A d \in Decisions : /\ rows'[d] = rows[d] /\ evidence'[d] = evidence[d]
                            /\ d \in stale' <=> d \in stale
                            /\ d \in archived' <=> d \in archived
    /\ \A d \in Decisions, p \in Problems : BasedOn(d, p)' <=> BasedOn(d, p)
    /\ UNCHANGED <<revived, raced, serial>>

\* A handler that holds no copy and creates nothing is sound.
LEMMA PlainSound ==
    ASSUME NEW h, h.pc \notin Copying \cup {"create", "track", "load"}
    PROVE  HandlerSound(h)
  BY DEF HandlerSound, CreateSound, RefSound, CopySound, WriteSound, MeasureSound, Copying

\* What is kept of the decisions keeps a handler sound.
LEMMA KeptHandler ==
    ASSUME TypeOK, DecisionsKept, NEW h \in Handler, HandlerSound(h)
    PROVE  HandlerSound(h)'
<1>1. CreateSound(h)'
  <2> SUFFICES ASSUME h.pc = "create"
               PROVE  /\ Stored(h.ref)' = FALSE
                      /\ \A e \in Decisions : Live(e)' /\ BasedOn(e, h.problem)' => {h.ref, e} \cap Excused' # {}
    BY DEF CreateSound
  <2>1. h.ref \in Decisions /\ h.problem \in Problems
    BY HandlerShapes
  <2>2. Stored(h.ref)' = FALSE
    BY <2>1 DEF DecisionsKept, HandlerSound, CreateSound, Stored
  <2>3. ASSUME NEW e \in Decisions, Live(e)', BasedOn(e, h.problem)'
        PROVE  {h.ref, e} \cap Excused' # {}
    <3>1. Live(e) /\ BasedOn(e, h.problem)
      BY <2>1, <2>3 DEF DecisionsKept, Live
    <3>2. {h.ref, e} \cap Excused # {}
      BY <3>1 DEF HandlerSound, CreateSound
    <3> QED BY <2>1, <3>2 DEF DecisionsKept, Excused
  <2> QED BY <2>2, <2>3
<1>2. RefSound(h)'
  BY DEF HandlerSound, RefSound, DecisionsKept, Stored
<1>3. CopySound(h)'
  BY DEF HandlerSound, CopySound, DecisionsKept
<1>4. WriteSound(h)'
  BY DEF HandlerSound, WriteSound
<1>5. MeasureSound(h)'
  <2> SUFFICES ASSUME h.pc = "measure", h.ref \notin stale', h.copy.version = rows'[h.ref].version,
                      NEW c \in Claims
               PROVE  Agrees(h.copy.claims[c], Measured(Superseding(evidence'[h.ref], h.items) \cup h.items, c))
    BY DEF MeasureSound, Agrees, Measured, Superseding, KeysOverlap
  <2>1. h.ref \in Decisions
    BY HandlerShapes
  <2>2. h.ref \notin stale /\ h.copy.version = rows[h.ref].version /\ evidence'[h.ref] = evidence[h.ref]
    BY <2>1 DEF DecisionsKept
  <2> QED BY <2>2 DEF HandlerSound, MeasureSound
<1> QED BY <1>1, <1>2, <1>3, <1>4, <1>5 DEF HandlerSound

\* What is kept of the decisions keeps what holds of the store.
LEMMA KeptStore ==
    ASSUME RecordsInv, DecisionsKept
    PROVE  /\ \A d \in Decisions : RowSound(d)'
           /\ ItemsDated' /\ ArchivedIsTerminal' /\ NewestMeasurementWins'
           /\ ClaimsFollowMeasurements' /\ OneLiveDecision'
<1>1. \A d \in Decisions : RowSound(d)'
  BY DEF RecordsInv, RowSound, DecisionsKept, Stored
<1>2. ItemsDated'
  BY DEF RecordsInv, ItemsDated, DecisionsKept
<1>3. ArchivedIsTerminal'
  BY DEF RecordsInv, ArchivedIsTerminal, DecisionsKept
<1>4. NewestMeasurementWins'
  BY DEF RecordsInv, NewestMeasurementWins, DecisionsKept, KeysOverlap
<1>5. ClaimsFollowMeasurements'
  BY DEF RecordsInv, ClaimsFollowMeasurements, DecisionsKept, Active
<1>6. OneLiveDecision'
  <2> SUFFICES ASSUME NEW p \in Problems, NEW d \in Decisions, NEW e \in Decisions,
                      d # e, Live(d)', Live(e)', BasedOn(d, p)', BasedOn(e, p)'
               PROVE  {d, e} \cap (revived' \cup raced' \cup stale') # {}
    BY DEF OneLiveDecision
  <2>1. Live(d) /\ Live(e) /\ BasedOn(d, p) /\ BasedOn(e, p)
    BY DEF DecisionsKept, Live
  <2>2. {d, e} \cap (revived \cup raced \cup stale) # {}
    BY <2>1 DEF RecordsInv, OneLiveDecision
  <2> QED BY <2>2 DEF DecisionsKept
<1> QED BY <1>1, <1>2, <1>3, <1>4, <1>5, <1>6

\* One session moves to a sound handler, and the decisions are kept.
LEMMA QuietStep ==
    ASSUME RecordsInv, TypeOK', DecisionsKept, NEW s \in Sessions, NEW next \in Handler,
           sess' = [sess EXCEPT ![s] = next], HandlerSound(next),
           next.pc = "create" =>
               \A t \in Sessions : sess[t].pc = "create" => sess[t].ref # next.ref
    PROVE  RecordsInv'
<1>0. TypeOK
  BY DEF RecordsInv
<1>1. sess'[s] = next /\ \A t \in Sessions \ {s} : sess'[t] = sess[t]
  BY <1>0, SessionMoves
<1>2. ASSUME NEW t \in Sessions PROVE HandlerSound(sess[t])'
  <2>1. PICK h : h = sess'[t]
    OBVIOUS
  <2>2. h \in Handler /\ HandlerSound(h)
    BY <1>0, <1>1, <2>1 DEF RecordsInv, TypeOK
  <2>3. HandlerSound(h)'
    BY <1>0, <2>2, KeptHandler
  <2> QED BY <2>1, <2>3 DEF HandlerSound, CreateSound, RefSound, CopySound, WriteSound, MeasureSound
<1>3. CreatesApart'
  BY <1>1 DEF CreatesApart, RecordsInv
<1>4. /\ \A d \in Decisions : RowSound(d)'
      /\ ItemsDated' /\ ArchivedIsTerminal' /\ NewestMeasurementWins'
      /\ ClaimsFollowMeasurements' /\ OneLiveDecision'
  BY KeptStore
<1> QED BY <1>2, <1>3, <1>4 DEF RecordsInv

\* An untouched store keeps the decisions.
LEMMA StoreKept ==
    ASSUME UNCHANGED <<rows, links, evidence, serial, history>>
    PROVE  DecisionsKept
  BY DEF DecisionsKept, BasedOn, history

\* The conflict check of decide.
LEMMA DecideCheckKeeps ==
    ASSUME RecordsInv, NEW s \in Sessions, DecideCheck(s)
    PROVE  RecordsInv'
<1>0. TypeOK /\ TypeOK'
  BY DecideTypes DEF RecordsInv
<1>1. PICK d \in Decisions, p \in Problems, fs \in SUBSET Files, until \in {0, clock} :
        /\ ~Stored(d)
        /\ \A t \in Sessions : sess[t].pc = "create" => sess[t].ref # d
        /\ ~\E e \in Decisions : Blocks(e) /\ BasedOn(e, p)
        /\ Begin(s, [pc |-> "create", ref |-> d, problem |-> p, fs |-> fs, validUntil |-> until])
        /\ UNCHANGED <<storeVars, worldVars, aborts, history>>
  BY DEF DecideCheck
<1>2. PICK next : next = [pc |-> "create", ref |-> d, problem |-> p, fs |-> fs, validUntil |-> until]
  OBVIOUS
<1>3. next.pc = "create" /\ next.ref = d /\ next.problem = p
  BY <1>2
<1>4. sess' = [sess EXCEPT ![s] = next] /\ next \in Handler
  BY <1>0, <1>1, <1>2, BeginCounts DEF Handler, TypeOK
<1>5. DecisionsKept
  BY <1>1, StoreKept DEF storeVars
<1>6. HandlerSound(next)
  <2>1. CreateSound(next)
    BY <1>1, <1>3 DEF CreateSound, Live, Blocks
  <2> QED BY <1>3, <2>1 DEF HandlerSound, RefSound, CopySound, WriteSound, MeasureSound, Copying
<1> QED BY <1>0, <1>1, <1>3, <1>4, <1>5, <1>6, QuietStep

\* The file list of decide, and what its handler does next.
LEMMA DecideTrackKeeps ==
    ASSUME RecordsInv, NEW s \in Sessions, DecideTrack(s)
    PROVE  RecordsInv'
<1>0. TypeOK /\ TypeOK'
  BY DecideTypes DEF RecordsInv
<1>1. sess[s] \in Handler /\ sess[s].pc = "track" /\ sess[s].ref \in Decisions
  BY <1>0, HandlerShapes DEF DecideTrack, TypeOK
<1>2. Stored(sess[s].ref)
  BY <1>1 DEF RecordsInv, HandlerSound, RefSound
<1>3. DecisionsKept
  BY StoreKept DEF DecideTrack, history
<1>4. \E next : /\ next = Idle \/ next = [pc |-> "load", ref |-> sess[s].ref]
                /\ sess' = [sess EXCEPT ![s] = next]
  BY DEF DecideTrack, Done, Step
<1>5. PICK next : /\ next = Idle \/ next = [pc |-> "load", ref |-> sess[s].ref]
                  /\ sess' = [sess EXCEPT ![s] = next]
  BY <1>4
<1>6. next \in Handler /\ next.pc # "create"
  BY <1>1, <1>5 DEF Handler, Idle
<1>7. HandlerSound(next)
  <2>1. CASE next = Idle
    BY <2>1, PlainSound DEF Idle, Copying
  <2>2. CASE next = [pc |-> "load", ref |-> sess[s].ref]
    <3>1. next.pc = "load" /\ next.ref = sess[s].ref
      BY <2>2
    <3> QED BY <1>2, <3>1 DEF HandlerSound, CreateSound, RefSound, CopySound, WriteSound, MeasureSound, Copying
  <2> QED BY <1>5, <2>1, <2>2
<1> QED BY <1>0, <1>3, <1>5, <1>6, <1>7, QuietStep

\* A fresh copy of a decision's row is sound.
LEMMA FreshCopySound ==
    ASSUME RecordsInv, NEW h, h.pc \in {"relist", "list"}, h.ref \in Decisions,
           Stored(h.ref), h.copy = rows[h.ref]
    PROVE  HandlerSound(h)
<1>1. rows[h.ref].status \notin {"absent", "addressed"} /\ rows[h.ref].version \in Nat
  BY DEF RecordsInv, RowSound, Stored, TypeOK, Artifacts, Row
<1> QED BY <1>1 DEF HandlerSound, CreateSound, RefSound, CopySound, WriteSound, MeasureSound, Copying

\* A handler that goes on with the copy it holds stays sound.
LEMMA SameCopySound ==
    ASSUME NEW g, NEW h, HandlerSound(g), g.pc \in {"relist", "list", "hash", "save"},
           h.pc \in {"relist", "list", "hash", "save"}, h.ref = g.ref, h.copy = g.copy
    PROVE  HandlerSound(h)
  BY DEF HandlerSound, CreateSound, RefSound, CopySound, WriteSound, MeasureSound, Copying

\* The statements of baseline, up to the one that writes the row.
LEMMA BaselineKeeps ==
    ASSUME RecordsInv, NEW s \in Sessions,
           \/ BaselineBegin(s) \/ BaselineLoad(s) \/ BaselineRelist(s)
           \/ BaselineList(s) \/ BaselineHash(s)
    PROVE  RecordsInv'
<1> DEFINE g == sess[s]
<1>0. TypeOK /\ TypeOK' /\ HandlerSound(g)
  BY BaselineTypes DEF RecordsInv
<1>1. DecisionsKept
  BY StoreKept DEF BaselineBegin, BaselineLoad, BaselineRelist, BaselineList, BaselineHash, storeVars
<1>2. g \in Handler
  BY <1>0 DEF TypeOK
<1>3. \E next : /\ sess' = [sess EXCEPT ![s] = next] /\ next \in Handler /\ next.pc # "create"
                /\ HandlerSound(next)
  <2>1. CASE BaselineBegin(s)
    <3>1. PICK d \in Decisions, fs \in SUBSET Files :
            /\ Stored(d)
            /\ Begin(s, [pc |-> IF fs = {} THEN "list" ELSE "relist", ref |-> d, copy |-> rows[d], fs |-> fs])
      BY <2>1 DEF BaselineBegin
    <3> DEFINE next == [pc |-> IF fs = {} THEN "list" ELSE "relist", ref |-> d, copy |-> rows[d], fs |-> fs]
    <3>2. rows[d] \in Row
      BY <1>0 DEF TypeOK, Artifacts
    <3>3. next \in Handler
      BY <3>2 DEF Handler
    <3>4. next.pc \in {"relist", "list"} /\ next.ref = d /\ next.copy = rows[d]
      OBVIOUS
    <3>5. sess' = [sess EXCEPT ![s] = next]
      BY <1>0, <3>1, BeginCounts
    <3> HIDE DEF next
    <3>6. HandlerSound(next)
      BY <3>1, <3>4, FreshCopySound
    <3> QED BY <3>3, <3>4, <3>5, <3>6
  <2>2. CASE BaselineLoad(s)
    <3>1. g.pc = "load" /\ g.ref \in Decisions
      BY <1>2, <2>2, HandlerShapes DEF BaselineLoad
    <3>2. Stored(g.ref) /\ rows[g.ref] \in Row
      BY <1>0, <3>1 DEF HandlerSound, RefSound, TypeOK, Artifacts
    <3> DEFINE next == [pc |-> "list", ref |-> g.ref, copy |-> rows[g.ref], fs |-> {}]
    <3>3. next \in Handler
      BY <3>1, <3>2 DEF Handler
    <3>4. next.pc = "list" /\ next.ref = g.ref /\ next.copy = rows[g.ref]
      OBVIOUS
    <3>5. sess' = [sess EXCEPT ![s] = next]
      BY <2>2 DEF BaselineLoad, Step
    <3> HIDE DEF next
    <3>6. HandlerSound(next)
      BY <3>1, <3>2, <3>4, FreshCopySound
    <3> QED BY <3>3, <3>4, <3>5, <3>6
  <2>3. CASE BaselineRelist(s)
    <3> DEFINE next == [g EXCEPT !.pc = "list"]
    <3>1. g.pc = "relist"
      BY <2>3 DEF BaselineRelist
    <3>2. next \in Handler /\ next.pc = "list" /\ next.ref = g.ref /\ next.copy = g.copy
      BY <1>2, <3>1, RelistShape
    <3>3. sess' = [sess EXCEPT ![s] = next]
      BY <2>3 DEF BaselineRelist, Step
    <3> HIDE DEF next, g
    <3>4. HandlerSound(next)
      BY <1>0, <3>1, <3>2, SameCopySound
    <3> QED BY <3>2, <3>3, <3>4
  <2>4. CASE BaselineList(s)
    <3>1. g.pc = "list" /\ g.ref \in Decisions /\ g.copy \in Row
      BY <1>2, <2>4, HandlerShapes DEF BaselineList, Copying
    <3>2. sess' \in [Sessions -> Handler]
      BY <1>0 DEF TypeOK
    <3>3. \E l : sess' = [sess EXCEPT ![s] = Idle]
               \/ sess' = [sess EXCEPT ![s] = [pc |-> "hash", ref |-> g.ref, copy |-> g.copy, listed |-> l]]
      BY <2>4 DEF BaselineList, Done, Step
    <3>4. CASE sess' = [sess EXCEPT ![s] = Idle]
      <4>1. Idle \in Handler /\ Idle.pc = "idle"
        BY DEF Handler, Idle
      <4>2. HandlerSound(Idle)
        BY <4>1, PlainSound DEF Copying
      <4> QED BY <3>4, <4>1, <4>2
    <3>5. CASE sess' # [sess EXCEPT ![s] = Idle]
      <4>1. PICK l : sess' = [sess EXCEPT ![s] = [pc |-> "hash", ref |-> g.ref, copy |-> g.copy, listed |-> l]]
        BY <3>3, <3>5
      <4> DEFINE next == [pc |-> "hash", ref |-> g.ref, copy |-> g.copy, listed |-> l]
      <4>2. next.pc = "hash" /\ next.ref = g.ref /\ next.copy = g.copy
        OBVIOUS
      <4> HIDE DEF next, g
      <4>3. sess'[s] = next
        BY <1>0, <4>1 DEF next, TypeOK
      <4>4. next \in Handler
        BY <3>2, <4>3
      <4>5. HandlerSound(next)
        BY <1>0, <3>1, <4>2, SameCopySound
      <4> QED BY <4>1, <4>2, <4>4, <4>5 DEF next
    <3> QED BY <3>4, <3>5
  <2>5. CASE BaselineHash(s)
    <3>1. g.pc = "hash" /\ g.ref \in Decisions /\ g.copy \in Row
      BY <1>2, <2>5, HandlerShapes DEF BaselineHash, Copying
    <3> DEFINE next == [pc |-> "save", ref |-> g.ref, copy |-> g.copy, fs |-> {}]
    <3>2. next \in Handler
      BY <3>1 DEF Handler
    <3>3. next.pc = "save" /\ next.ref = g.ref /\ next.copy = g.copy
      OBVIOUS
    <3>4. sess' = [sess EXCEPT ![s] = next]
      BY <2>5 DEF BaselineHash, Step
    <3> HIDE DEF next, g
    <3>5. HandlerSound(next)
      BY <1>0, <3>1, <3>3, SameCopySound
    <3> QED BY <3>2, <3>3, <3>4, <3>5
  <2> QED BY <2>1, <2>2, <2>3, <2>4, <2>5
<1>4. PICK next : /\ sess' = [sess EXCEPT ![s] = next] /\ next \in Handler /\ next.pc # "create"
                  /\ HandlerSound(next)
  BY <1>3
<1> QED BY <1>0, <1>1, <1>4, QuietStep

\* measure up to its transaction.
LEMMA MeasureBeginKeeps ==
    ASSUME RecordsInv, NEW s \in Sessions, MeasureBegin(s)
    PROVE  RecordsInv'
<1>0. TypeOK /\ TypeOK'
  BY EvidenceTypes DEF RecordsInv
<1>1. DecisionsKept
  BY StoreKept DEF MeasureBegin, storeVars
<1>2. PICK d \in Decisions, items \in SUBSET Item, copy \in Row :
        /\ Stored(d)
        /\ copy.version = rows[d].version /\ copy.status = rows[d].status
        /\ copy.claims = RebuiltClaims(d, items)
        /\ Begin(s, [pc |-> "measure", ref |-> d, items |-> items, copy |-> copy])
  BY <1>0, MeasureBegun
<1>3. PICK next : next = [pc |-> "measure", ref |-> d, items |-> items, copy |-> copy]
  OBVIOUS
<1>4. next.pc = "measure" /\ next.ref = d /\ next.items = items /\ next.copy = copy
  BY <1>3
<1>5. next \in Handler /\ sess' = [sess EXCEPT ![s] = next]
  BY <1>0, <1>2, <1>3, BeginCounts DEF Handler
<1>6. MeasureSound(next)
  BY <1>2, <1>4, BegunAgrees DEF MeasureSound
<1>7. rows[d].status \notin {"absent", "addressed"} /\ rows[d].version \in Nat
  BY <1>2 DEF RecordsInv, RowSound, Stored, TypeOK, Artifacts, Row
<1>8. HandlerSound(next)
  BY <1>2, <1>4, <1>6, <1>7 DEF HandlerSound, CreateSound, RefSound, CopySound, WriteSound, Copying
<1> QED BY <1>0, <1>1, <1>4, <1>5, <1>8, QuietStep

\* A refresh action loads its artifact.
LEMMA RefreshLoadKeeps ==
    ASSUME RecordsInv, NEW s \in Sessions, RefreshLoad(s)
    PROVE  RecordsInv'
<1>0. TypeOK /\ TypeOK'
  BY RefreshTypes DEF RecordsInv, HandlerSound
<1>1. DecisionsKept
  BY StoreKept DEF RefreshLoad, storeVars
<1>2. PICK a \in Artifacts, action \in Actions, by \in Artifacts \cup {NoRef}, copy \in Row :
        /\ Stored(a)
        /\ copy.version = rows[a].version /\ copy.claims = rows[a].claims
        /\ copy.status # "absent"
        /\ action \in {"supersede", "deprecate"} => copy.status \in Terminal
        /\ a \in Decisions => /\ action \in {"waive", "supersede", "deprecate", "reopen"}
                              /\ copy.status # "addressed"
        /\ action = "reopen" => a \in Decisions /\ copy.status = "refresh_due"
        /\ Begin(s, [pc |-> "write", ref |-> a, copy |-> copy, action |-> action, by |-> by])
  BY <1>0, RefreshLoaded
<1>3. PICK next : next = [pc |-> "write", ref |-> a, copy |-> copy, action |-> action, by |-> by]
  OBVIOUS
<1>4. next.pc = "write" /\ next.ref = a /\ next.copy = copy /\ next.action = action
  BY <1>3
<1>5. next \in Handler /\ sess' = [sess EXCEPT ![s] = next]
  BY <1>0, <1>2, <1>3, BeginCounts DEF Handler
<1>6. rows[a].version \in Nat
  BY <1>0 DEF TypeOK, Row
<1>7. HandlerSound(next)
  BY <1>2, <1>4, <1>6 DEF HandlerSound, CreateSound, RefSound, CopySound, WriteSound, MeasureSound, Copying
<1> QED BY <1>0, <1>1, <1>4, <1>5, <1>7, QuietStep

\* A session that lets go of its decision: the next handler holds no copy.
LEMMA PlainStep ==
    ASSUME RecordsInv, TypeOK', DecisionsKept, NEW s \in Sessions, NEW next \in Handler,
           sess' = [sess EXCEPT ![s] = next],
           next.pc \in {"idle", "frame", "lineage", "revisit", "report"}
    PROVE  RecordsInv'
<1>1. HandlerSound(next) /\ next.pc # "create"
  BY PlainSound DEF Copying
<1> QED BY <1>1, QuietStep

\* A new problem's row, and a problem's row overwritten, leave the decisions alone.
LEMMA ProblemWritten ==
    ASSUME TypeOK, NEW p \in Problems, NEW row \in Row,
           UNCHANGED <<links, evidence, serial, archived, revived, raced>>,
           \/ Create(p, row) /\ UNCHANGED stale
           \/ Update(p, row)
    PROVE  DecisionsKept
<1>1. p \in Artifacts /\ p \notin Decisions /\ Decisions \subseteq Artifacts
  BY ConstantsAssumption DEF Artifacts
<1>2. \A d \in Decisions : rows'[d] = rows[d] /\ (d \in stale' <=> d \in stale)
  <2>1. CASE Create(p, row) /\ UNCHANGED stale
    BY <1>1, <2>1, RowWritten DEF Create
  <2>2. CASE Update(p, row)
    BY <1>1, <2>2, RowUpdated
  <2> QED BY <2>1, <2>2
<1> QED BY <1>2 DEF DecisionsKept, BasedOn

\* frame, and the later statements of reopen.
LEMMA ReopenKeeps ==
    ASSUME RecordsInv, NEW s \in Sessions,
           ReopenFrame(s) \/ ReopenLineage(s) \/ ReopenLink(s) \/ Report(s) \/ Frame(s)
    PROVE  RecordsInv'
<1> DEFINE h == sess[s]
<1>0. TypeOK /\ TypeOK'
  BY ReopenTypes DEF RecordsInv
<1>1. h \in Handler /\ Idle \in Handler /\ Idle.pc = "idle"
  BY <1>0 DEF TypeOK, Handler, Idle
<1>2. NewRow(0) \in Row
  BY DEF NewRow, Row, Unverified, Statuses, ClaimStatuses
<1>3. CASE ReopenFrame(s)
  <2>1. h.ref \in Decisions
    BY <1>1, <1>3, HandlerShapes DEF ReopenFrame
  <2>2. PICK p \in Problems : /\ Create(p, NewRow(0))
                              /\ Step(s, [pc |-> "lineage", ref |-> h.ref, problem |-> p, copy |-> NewRow(0)])
    BY <1>3 DEF ReopenFrame
  <2>3. PICK next : next = [pc |-> "lineage", ref |-> h.ref, problem |-> p, copy |-> NewRow(0)]
    OBVIOUS
  <2>4. next \in Handler /\ next.pc = "lineage" /\ sess' = [sess EXCEPT ![s] = next]
    BY <1>2, <2>1, <2>2, <2>3 DEF Handler, Step
  <2>5. DecisionsKept
    BY <1>0, <1>2, <1>3, <2>2, ProblemWritten DEF ReopenFrame, history
  <2> QED BY <1>0, <2>4, <2>5, PlainStep
<1>4. CASE ReopenLineage(s)
  <2>1. h.ref \in Decisions /\ h.problem \in Problems /\ h.copy \in Row
    BY <1>1, <1>4, HandlerShapes DEF ReopenLineage
  <2>2. PICK next : next = [pc |-> "revisit", ref |-> h.ref, problem |-> h.problem]
    OBVIOUS
  <2>3. next \in Handler /\ next.pc = "revisit" /\ sess' = [sess EXCEPT ![s] = next]
    BY <1>4, <2>1, <2>2 DEF Handler, Step, ReopenLineage
  <2>4. DecisionsKept
    BY <1>0, <1>4, <2>1, ProblemWritten DEF ReopenLineage
  <2> QED BY <1>0, <2>3, <2>4, PlainStep
<1>5. CASE ReopenLink(s)
  <2>1. h.ref \in Artifacts
    BY <1>1, <1>5, HandlerShapes DEF ReopenLink, Artifacts
  <2>2. PICK next : next = [pc |-> "report", ref |-> h.ref, action |-> "reopen"]
    OBVIOUS
  <2>3. next \in Handler /\ next.pc = "report" /\ sess' = [sess EXCEPT ![s] = next]
    BY <1>5, <2>1, <2>2 DEF Handler, Step, ReopenLink, Actions
  <2>4. \A d, p : BasedOn(d, p)' <=> BasedOn(d, p)
    BY <1>5 DEF ReopenLink, BasedOn
  <2>5. DecisionsKept
    BY <1>5, <2>4 DEF ReopenLink, DecisionsKept, history
  <2> QED BY <1>0, <2>3, <2>5, PlainStep
<1>6. CASE Report(s)
  <2>1. sess' = [sess EXCEPT ![s] = Idle]
    BY <1>6 DEF Report, Done, Step
  <2>2. DecisionsKept
    BY <1>6, StoreKept DEF Report
  <2> QED BY <1>0, <1>1, <2>1, <2>2, PlainStep
<1>7. CASE Frame(s)
  <2>1. PICK p \in Problems : Begin(s, Idle) /\ Create(p, NewRow(0))
    BY <1>7 DEF Frame
  <2>2. sess' = [sess EXCEPT ![s] = Idle]
    BY <1>0, <2>1, BeginCounts
  <2>3. DecisionsKept
    BY <1>0, <1>2, <1>7, <2>1, ProblemWritten DEF Frame, history
  <2> QED BY <1>0, <1>1, <2>2, <2>3, PlainStep
<1> QED BY <1>3, <1>4, <1>5, <1>6, <1>7

\* Aborts, the clock, edits and stuttering.
LEMMA WorldKeeps ==
    ASSUME RecordsInv, Tick \/ Edit \/ (\E s \in Sessions : Abort(s)) \/ UNCHANGED vars
    PROVE  RecordsInv'
<1>0. TypeOK /\ TypeOK'
  <2>1. CASE UNCHANGED vars
    BY <2>1 DEF RecordsInv, vars, storeVars, worldVars, history, TypeOK
  <2> QED BY <2>1, WorldTypes DEF RecordsInv
<1>1. DecisionsKept
  BY StoreKept DEF Tick, Edit, Abort, vars, storeVars
<1>2. CASE \E s \in Sessions : Abort(s)
  <2>1. PICK s \in Sessions : Abort(s)
    BY <1>2
  <2>2. Idle \in Handler /\ Idle.pc = "idle" /\ sess' = [sess EXCEPT ![s] = Idle]
    BY <2>1 DEF Handler, Idle, Abort, Done, Step
  <2> QED BY <1>0, <1>1, <2>2, PlainStep
<1>3. CASE UNCHANGED sess
  <2>1. ASSUME NEW t \in Sessions PROVE HandlerSound(sess[t])'
    <3>1. PICK h : h = sess[t]
      OBVIOUS
    <3>2. h \in Handler /\ HandlerSound(h) /\ h = sess'[t]
      BY <1>0, <1>3, <3>1 DEF RecordsInv, TypeOK
    <3>3. HandlerSound(h)'
      BY <1>0, <1>1, <3>2, KeptHandler
    <3> QED BY <3>2, <3>3 DEF HandlerSound, CreateSound, RefSound, CopySound, WriteSound, MeasureSound
  <2>2. CreatesApart'
    BY <1>3 DEF RecordsInv, CreatesApart
  <2> QED BY <1>0, <1>1, <2>1, <2>2, KeptStore DEF RecordsInv
<1> QED BY <1>2, <1>3 DEF Tick, Edit, vars

----------------------------------------------------------------------------
(* Steps that write a decision's row.                                      *)

\* A decision's row is overwritten with a copy, its evidence perhaps with it;
\* whoever comes alive by it has an excuse.
DecisionUpdated(d, copy) ==
    /\ Update(d, copy)
    /\ copy.status \notin {"absent", "addressed"}
    /\ \A e \in Decisions \ {d} : /\ evidence'[e] = evidence[e]
                                  /\ e \in archived' <=> e \in archived
    /\ \A e \in Decisions, p \in Problems : BasedOn(e, p)' <=> BasedOn(e, p)
    /\ revived \subseteq revived' /\ raced \subseteq raced'
    /\ Live(d)' /\ ~Live(d) => d \in Excused'

\* The other handlers stay sound: a copy of the row is out of date from now on.
LEMMA UpdatedHandler ==
    ASSUME TypeOK, NEW d \in Decisions, Stored(d), NEW copy \in Row, DecisionUpdated(d, copy),
           NEW h \in Handler, HandlerSound(h)
    PROVE  HandlerSound(h)'
<1>0. d \in Artifacts /\ Decisions \subseteq Artifacts
  BY DEF Artifacts
<1>1. /\ rows'[d].version = copy.version + 1
      /\ rows'[d].status = copy.status
      /\ \A b \in Decisions \ {d} : rows'[b] = rows[b]
      /\ \A b \in Decisions \ {d} : b \in stale' <=> b \in stale
      /\ d \in stale' <=> (d \in stale \/ rows[d].version # copy.version)
  BY <1>0, RowUpdated DEF DecisionUpdated
<1>2. copy.version \in Nat /\ rows[d].version \in Nat
  BY <1>0 DEF TypeOK, Row
<1>3. Excused \subseteq Excused'
  BY DEF Excused, DecisionUpdated, Update
<1>4. h.pc \in Copying => h.copy \in Row
  BY HandlerShapes
<1>5. CreateSound(h)'
  <2> SUFFICES ASSUME h.pc = "create"
               PROVE  /\ Stored(h.ref)' = FALSE
                      /\ \A e \in Decisions : Live(e)' /\ BasedOn(e, h.problem)' => {h.ref, e} \cap Excused' # {}
    BY DEF CreateSound
  <2>1. h.ref \in Decisions /\ h.problem \in Problems /\ ~Stored(h.ref) /\ h.ref # d
    BY HandlerShapes DEF HandlerSound, CreateSound
  <2>2. Stored(h.ref)' = FALSE
    BY <1>1, <2>1 DEF Stored
  <2>3. ASSUME NEW e \in Decisions, Live(e)', BasedOn(e, h.problem)'
        PROVE  {h.ref, e} \cap Excused' # {}
    <3>1. BasedOn(e, h.problem)
      BY <2>1, <2>3 DEF DecisionUpdated
    <3>2. CASE Live(e)
      <4>1. {h.ref, e} \cap Excused # {}
        BY <2>1, <3>1, <3>2 DEF HandlerSound, CreateSound
      <4> QED BY <1>3, <4>1
    <3>3. CASE ~Live(e)
      <4>1. e = d
        BY <1>1, <2>3, <3>3 DEF Live
      <4> QED BY <2>3, <3>3, <4>1 DEF DecisionUpdated
    <3> QED BY <3>2, <3>3
  <2> QED BY <2>2, <2>3
<1>6. RefSound(h)'
  BY <1>1 DEF HandlerSound, RefSound, Stored, DecisionUpdated
<1>7. ASSUME h.pc \in Copying, h.ref = d, d \notin stale'
      PROVE  h.copy.version < rows'[d].version /\ h.copy.version \in Nat
  <2>1. h.copy.version <= rows[d].version /\ rows[d].version = copy.version
    BY <1>1, <1>7 DEF HandlerSound, CopySound
  <2>2. h.copy.version \in Nat
    BY <1>4, <1>7 DEF Row
  <2> QED BY <1>1, <1>2, <2>1, <2>2
<1>8. CopySound(h)'
  <2>1. CASE h.ref = d
    <3> SUFFICES ASSUME h.pc \in Copying
                 PROVE  /\ h.copy.status \notin {"absent", "addressed"}
                        /\ d \notin stale' => h.copy.version < rows'[d].version /\ h.copy.version \in Nat
      BY <1>1, <1>2, <2>1 DEF CopySound
    <3> QED BY <1>7, <2>1 DEF HandlerSound, CopySound
  <2>2. CASE h.ref # d
    BY <1>1, <2>2 DEF HandlerSound, CopySound
  <2> QED BY <2>1, <2>2
<1>9. WriteSound(h)'
  BY DEF HandlerSound, WriteSound
<1>10. MeasureSound(h)'
  <2> SUFFICES ASSUME h.pc = "measure", h.ref \notin stale', h.copy.version = rows'[h.ref].version,
                      NEW c \in Claims
               PROVE  Agrees(h.copy.claims[c], Measured(Superseding(evidence'[h.ref], h.items) \cup h.items, c))
    BY DEF MeasureSound, Agrees, Measured, Superseding, KeysOverlap
  <2>1. h.ref \in Decisions /\ h.pc \in Copying
    BY HandlerShapes DEF Copying
  <2>2. h.ref # d
    BY <1>1, <1>2, <1>7, <2>1
  <2>3. h.ref \notin stale /\ h.copy.version = rows[h.ref].version /\ evidence'[h.ref] = evidence[h.ref]
    BY <1>1, <2>1, <2>2 DEF DecisionUpdated
  <2> QED BY <2>3 DEF HandlerSound, MeasureSound
<1> QED BY <1>5, <1>6, <1>8, <1>9, <1>10 DEF HandlerSound

\* ClaimsFollowMeasurements after a step, in terms of Agrees.
LEMMA ClaimsAgreeNext ==
    ClaimsFollowMeasurements' <=>
        \A d \in Decisions \ stale', c \in Claims : Agrees(rows'[d].claims[c], Measured(evidence'[d], c))
<1>1. ASSUME NEW d \in Decisions, NEW c \in Claims
      PROVE  {i \in Active(d)' : i.by = "measure" /\ c \in i.binds} = Measured(evidence'[d], c)
  BY DEF Active, Measured
<1> QED BY <1>1 DEF ClaimsFollowMeasurements, Agrees

\* A decision's row is overwritten and the session goes on without a copy.
LEMMA UpdateStep ==
    ASSUME RecordsInv, TypeOK', NEW s \in Sessions, NEW next \in Handler,
           sess' = [sess EXCEPT ![s] = next],
           next.pc \in {"idle", "frame", "lineage", "revisit", "report"},
           NEW d \in Decisions, Stored(d), NEW copy \in Row, DecisionUpdated(d, copy),
           ItemsDated', NewestMeasurementWins',
           d \in archived' /\ d \notin stale' => copy.status \in Terminal,
           d \notin stale' => \A c \in Claims : Agrees(copy.claims[c], Measured(evidence'[d], c))
    PROVE  RecordsInv'
<1>0. TypeOK /\ d \in Artifacts /\ Decisions \subseteq Artifacts
  BY DEF RecordsInv, Artifacts
<1>1. /\ rows'[d].status = copy.status /\ rows'[d].claims = copy.claims
      /\ \A b \in Decisions \ {d} : rows'[b] = rows[b]
      /\ \A b \in Decisions \ {d} : b \in stale' <=> b \in stale
      /\ d \in stale => d \in stale'
  BY <1>0, RowUpdated DEF DecisionUpdated
<1>2. sess'[s] = next /\ \A t \in Sessions \ {s} : sess'[t] = sess[t]
  BY <1>0, SessionMoves
<1>3. ASSUME NEW t \in Sessions PROVE HandlerSound(sess[t])'
  <2>1. PICK h : h = sess'[t]
    OBVIOUS
  <2>2. h \in Handler /\ HandlerSound(h)
    <3>1. CASE t = s
      BY <1>2, <2>1, <3>1, PlainSound DEF Copying
    <3>2. CASE t # s
      BY <1>0, <1>2, <2>1, <3>2 DEF RecordsInv, TypeOK
    <3> QED BY <3>1, <3>2
  <2>3. HandlerSound(h)'
    BY <1>0, <2>2, UpdatedHandler
  <2> QED BY <2>1, <2>3 DEF HandlerSound, CreateSound, RefSound, CopySound, WriteSound, MeasureSound
<1>4. CreatesApart'
  BY <1>2 DEF CreatesApart, RecordsInv
<1>5. \A e \in Decisions : RowSound(e)'
  <2> TAKE e \in Decisions
  <2>1. CASE e = d
    BY <1>1, <2>1 DEF RowSound, Stored, DecisionUpdated
  <2>2. CASE e # d
    BY <1>1, <2>2 DEF RecordsInv, RowSound, Stored, DecisionUpdated
  <2> QED BY <2>1, <2>2
<1>6. ArchivedIsTerminal'
  BY <1>1 DEF RecordsInv, ArchivedIsTerminal, DecisionUpdated
<1>7. ClaimsFollowMeasurements'
  <2>1. \A e \in Decisions \ stale', c \in Claims : Agrees(rows'[e].claims[c], Measured(evidence'[e], c))
    <3> TAKE e \in Decisions \ stale', c \in Claims
    <3>1. CASE e = d
      BY <1>1, <3>1
    <3>2. CASE e # d
      <4>1. e \notin stale /\ rows'[e] = rows[e] /\ evidence'[e] = evidence[e]
        BY <1>1, <3>2 DEF DecisionUpdated
      <4> QED BY <4>1, ClaimsAgree DEF RecordsInv
    <3> QED BY <3>1, <3>2
  <2> QED BY <2>1, ClaimsAgreeNext
<1>8. OneLiveDecision'
  <2> SUFFICES ASSUME NEW p \in Problems, NEW x \in Decisions, NEW y \in Decisions,
                      x # y, Live(x)', Live(y)', BasedOn(x, p)', BasedOn(y, p)'
               PROVE  {x, y} \cap Excused' # {}
    BY DEF OneLiveDecision, Excused
  <2>1. BasedOn(x, p) /\ BasedOn(y, p)
    BY DEF DecisionUpdated
  <2>2. CASE Live(x) /\ Live(y)
    <3>1. {x, y} \cap Excused # {}
      BY <2>1, <2>2 DEF RecordsInv, OneLiveDecision, Excused
    <3>2. Excused \subseteq Excused'
      BY DEF Excused, DecisionUpdated, Update
    <3> QED BY <3>1, <3>2
  <2>3. CASE ~Live(x) \/ ~Live(y)
    <3>1. \A e \in Decisions : Live(e)' /\ ~Live(e) => e \in Excused'
      BY <1>1 DEF Live, DecisionUpdated
    <3> QED BY <2>3, <3>1
  <2> QED BY <2>2, <2>3
<1> QED BY <1>3, <1>4, <1>5, <1>6, <1>7, <1>8 DEF RecordsInv

\* A copy that is written back as it was loaded brings nobody to life who has
\* no excuse.
LEMMA SameStatusNoRevival ==
    ASSUME RecordsInv, NEW h \in Handler, HandlerSound(h), h.pc \in {"save", "measure"},
           Update(h.ref, h.copy)
    PROVE  Live(h.ref)' /\ ~Live(h.ref) => h.ref \in stale'
<1>1. h.ref \in Decisions /\ h.ref \in Artifacts /\ h.copy \in Row /\ TypeOK
  BY HandlerShapes DEF Copying, Artifacts, RecordsInv
<1>2. /\ rows'[h.ref].status = h.copy.status
      /\ h.ref \in stale' <=> (h.ref \in stale \/ rows[h.ref].version # h.copy.version)
  BY <1>1, RowUpdated
<1>3. h.ref \notin stale /\ rows[h.ref].version = h.copy.version => h.copy.status = rows[h.ref].status
  BY <1>1 DEF HandlerSound, CopySound, Copying
<1> QED BY <1>2, <1>3 DEF Live

\* The last statement of baseline.
LEMMA BaselineSaveKeeps ==
    ASSUME RecordsInv, NEW s \in Sessions, BaselineSave(s)
    PROVE  RecordsInv'
<1>0. TypeOK /\ TypeOK'
  BY BaselineTypes DEF RecordsInv
<1>1. PICK h : h = sess[s]
  OBVIOUS
<1>2. h \in Handler /\ HandlerSound(h) /\ h.pc = "save"
  BY <1>0, <1>1 DEF BaselineSave, RecordsInv, TypeOK
<1>3. h.ref \in Decisions /\ h.ref \in Artifacts /\ h.copy \in Row /\ h.pc \in Copying
  BY <1>2, HandlerShapes DEF Copying, Artifacts
<1>4. Update(h.ref, h.copy) /\ UNCHANGED <<links, evidence, serial, archived, revived, raced>>
  BY <1>1 DEF BaselineSave
<1>5. Idle \in Handler /\ Idle.pc = "idle" /\ sess' = [sess EXCEPT ![s] = Idle]
  BY DEF Handler, Idle, BaselineSave, Done, Step
<1>6. Stored(h.ref)
  BY <1>2, <1>3 DEF HandlerSound, RefSound
<1>7. DecisionUpdated(h.ref, h.copy)
  <2>1. Live(h.ref)' /\ ~Live(h.ref) => h.ref \in stale'
    BY <1>2, <1>4, SameStatusNoRevival
  <2> QED BY <1>2, <1>3, <1>4, <2>1 DEF DecisionUpdated, HandlerSound, CopySound, BasedOn, Excused
<1>8. ItemsDated' /\ NewestMeasurementWins'
  BY <1>4 DEF RecordsInv, ItemsDated, NewestMeasurementWins, KeysOverlap
<1>9. h.ref \notin stale' =>
         /\ h.ref \notin stale
         /\ h.copy.status = rows[h.ref].status /\ h.copy.claims = rows[h.ref].claims
  <2>1. h.ref \in stale' <=> (h.ref \in stale \/ rows[h.ref].version # h.copy.version)
    BY <1>0, <1>3, <1>4, RowUpdated
  <2> QED BY <1>2, <1>3, <2>1 DEF HandlerSound, CopySound
<1>10. h.ref \in archived' /\ h.ref \notin stale' => h.copy.status \in Terminal
  BY <1>3, <1>4, <1>9 DEF RecordsInv, ArchivedIsTerminal
<1>11. h.ref \notin stale' => \A c \in Claims : Agrees(h.copy.claims[c], Measured(evidence'[h.ref], c))
  BY <1>3, <1>4, <1>9, ClaimsAgree DEF RecordsInv
<1> QED BY <1>0, <1>3, <1>5, <1>6, <1>7, <1>8, <1>10, <1>11, UpdateStep

\* The transaction of measure.
LEMMA MeasureCommitKeeps ==
    ASSUME RecordsInv, NEW s \in Sessions, MeasureCommit(s)
    PROVE  RecordsInv'
<1>0. TypeOK /\ TypeOK'
  BY EvidenceTypes DEF RecordsInv
<1>1. PICK h : h = sess[s]
  OBVIOUS
<1>2. h \in Handler /\ HandlerSound(h) /\ h.pc = "measure"
  BY <1>0, <1>1 DEF MeasureCommit, RecordsInv, TypeOK
<1>3. /\ h.ref \in Decisions /\ h.ref \in Artifacts /\ h.copy \in Row /\ h.pc \in Copying
      /\ h.items \in SUBSET Item
  BY <1>2, HandlerShapes DEF Copying, Artifacts
<1>4. /\ CommitMeasurement(h.ref, h.copy, h.items)
      /\ UNCHANGED <<links, archived, revived, raced>>
  BY <1>1 DEF MeasureCommit
<1>5. Idle \in Handler /\ Idle.pc = "idle" /\ sess' = [sess EXCEPT ![s] = Idle]
  BY DEF Handler, Idle, MeasureCommit, Done, Step
<1>6. Stored(h.ref) /\ Update(h.ref, h.copy)
  BY <1>2, <1>3, <1>4 DEF HandlerSound, RefSound, CommitMeasurement
<1> DEFINE old == Superseding(evidence[h.ref], h.items)
           dated == {[i EXCEPT !.at = serial] : i \in h.items}
<1>7. /\ evidence'[h.ref] = old \cup dated
      /\ \A e \in Decisions \ {h.ref} : evidence'[e] = evidence[e]
      /\ serial' = serial + 1 /\ serial \in Nat
  BY <1>0, <1>3, <1>4, MeasurementCommitted DEF TypeOK
<1>8. DecisionUpdated(h.ref, h.copy)
  <2>1. Live(h.ref)' /\ ~Live(h.ref) => h.ref \in stale'
    BY <1>2, <1>6, SameStatusNoRevival
  <2> QED BY <1>2, <1>3, <1>4, <1>6, <1>7, <2>1 DEF DecisionUpdated, HandlerSound, CopySound, BasedOn, Excused
<1>9. evidence[h.ref] \in SUBSET Item
  BY <1>0, <1>3 DEF TypeOK
<1>10. \A j \in old : \E i \in evidence[h.ref] :
         /\ j.type = i.type /\ j.by = i.by /\ j.binds = i.binds /\ j.at = i.at
         /\ j = i \/ j.verdict = "superseded"
         /\ (i.type = "measurement" /\ \E n \in h.items : KeysOverlap(i.binds, n.binds))
               => j.verdict = "superseded"
  BY <1>9, SupersedingShapes
<1>11. \A j \in dated : \E i \in h.items : j.binds = i.binds /\ j.at = serial
  BY <1>3, <1>7, DatedShapes
<1> HIDE DEF old, dated
<1>12. \A d \in Decisions : \A i \in evidence[d] : i.at \in Nat /\ i.at < serial
  BY <1>0 DEF RecordsInv, ItemsDated, TypeOK, Item
<1>13. ItemsDated'
  <2> SUFFICES ASSUME NEW d \in Decisions, NEW j \in evidence'[d] PROVE j.at < serial'
    BY DEF ItemsDated
  <2>1. CASE d # h.ref
    BY <1>7, <1>12, <2>1
  <2>2. CASE d = h.ref
    <3>1. CASE j \in old
      BY <1>3, <1>7, <1>10, <1>12, <3>1
    <3>2. CASE j \in dated
      BY <1>7, <1>11, <3>2
    <3> QED BY <1>7, <2>2, <3>1, <3>2
  <2> QED BY <2>1, <2>2
<1>14. NewestMeasurementWins'
  <2> SUFFICES ASSUME NEW d \in Decisions, NEW x \in evidence'[d], NEW y \in evidence'[d],
                      y.by = "measure", x.type = "measurement", x.at < y.at, KeysOverlap(x.binds, y.binds)
               PROVE  x.verdict = "superseded"
    BY DEF NewestMeasurementWins, KeysOverlap
  <2>1. CASE d # h.ref
    BY <1>7, <2>1 DEF RecordsInv, NewestMeasurementWins
  <2>2. CASE d = h.ref
    <3>1. x \in old
      <4> SUFFICES ASSUME x \in dated PROVE FALSE
        BY <1>7, <2>2
      <4>1. x.at = serial
        BY <1>11
      <4>2. CASE y \in old
        BY <1>3, <1>7, <1>10, <1>12, <4>1, <4>2
      <4>3. CASE y \in dated
        BY <1>7, <1>11, <4>1, <4>3
      <4> QED BY <1>7, <2>2, <4>2, <4>3
    <3>2. PICK i \in evidence[h.ref] :
            /\ x.type = i.type /\ x.by = i.by /\ x.binds = i.binds /\ x.at = i.at
            /\ x = i \/ x.verdict = "superseded"
            /\ (i.type = "measurement" /\ \E n \in h.items : KeysOverlap(i.binds, n.binds))
                  => x.verdict = "superseded"
      BY <1>10, <3>1
    <3>3. CASE y \in dated
      <4>1. \E n \in h.items : KeysOverlap(i.binds, n.binds)
        BY <1>11, <3>2, <3>3
      <4> QED BY <3>2, <4>1
    <3>4. CASE y \in old
      <4>1. PICK k \in evidence[h.ref] : y.by = k.by /\ y.binds = k.binds /\ y.at = k.at
        BY <1>10, <3>4
      <4>2. i.verdict = "superseded"
        BY <1>3, <3>2, <4>1 DEF RecordsInv, NewestMeasurementWins
      <4> QED BY <3>2, <4>2
    <3> QED BY <1>7, <2>2, <3>3, <3>4
  <2> QED BY <2>1, <2>2
<1>15. h.ref \notin stale' => h.ref \notin stale /\ rows[h.ref].version = h.copy.version
  BY <1>0, <1>3, <1>6, RowUpdated
<1>16. h.ref \in archived' /\ h.ref \notin stale' => h.copy.status \in Terminal
  BY <1>2, <1>3, <1>4, <1>15 DEF RecordsInv, ArchivedIsTerminal, HandlerSound, CopySound
<1>17. ASSUME h.ref \notin stale', NEW c \in Claims
       PROVE  Agrees(h.copy.claims[c], Measured(evidence'[h.ref], c))
  <2>1. Agrees(h.copy.claims[c], Measured(Superseding(evidence[h.ref], h.items) \cup h.items, c))
    BY <1>2, <1>15, <1>17 DEF HandlerSound, MeasureSound
  <2> QED BY <1>3, <1>7, <1>9, <2>1, CommittedAgrees DEF old, dated
<1> QED BY <1>0, <1>3, <1>5, <1>6, <1>8, <1>13, <1>14, <1>16, <1>17, UpdateStep

\* The statement of waive, supersede, deprecate, reopen, close and characterize
\* that writes the row.
LEMMA RefreshWriteKeeps ==
    ASSUME RecordsInv, NEW s \in Sessions, RefreshWrite(s)
    PROVE  RecordsInv'
<1>0. TypeOK /\ TypeOK'
  BY RefreshTypes DEF RecordsInv, HandlerSound
<1>1. PICK h : h = sess[s]
  OBVIOUS
<1>2. h \in Handler /\ HandlerSound(h) /\ h.pc = "write"
  BY <1>0, <1>1 DEF RefreshWrite, RecordsInv, TypeOK
<1>3. h.ref \in Artifacts /\ h.copy \in Row /\ h.pc \in Copying /\ h.action \in Actions
  BY <1>2, HandlerShapes DEF Copying
<1>4. Update(h.ref, h.copy) /\ UNCHANGED <<evidence, serial>>
  BY <1>1 DEF RefreshWrite
<1>5. \E next \in Handler : /\ sess' = [sess EXCEPT ![s] = next]
                            /\ next.pc \in {"idle", "frame", "report"}
  <2>1. CASE h.action = "reopen"
    <3>1. [pc |-> "frame", ref |-> h.ref] \in Handler
      BY <1>2, <2>1 DEF Handler, HandlerSound, WriteSound
    <3> QED BY <1>1, <2>1, <3>1 DEF RefreshWrite, Step
  <2>2. CASE h.action \in {"close", "characterize"}
    <3>1. Idle \in Handler /\ Idle.pc = "idle"
      BY DEF Handler, Idle
    <3> QED BY <1>1, <2>2, <3>1 DEF RefreshWrite, Step, Done
  <2>3. CASE h.action \notin {"reopen", "close", "characterize"}
    <3>1. [pc |-> "report", ref |-> h.ref, action |-> h.action] \in Handler
      BY <1>3 DEF Handler
    <3> QED BY <1>1, <2>3, <3>1 DEF RefreshWrite, Step
  <2> QED BY <2>1, <2>2, <2>3
<1>6. PICK next \in Handler : /\ sess' = [sess EXCEPT ![s] = next]
                              /\ next.pc \in {"idle", "frame", "report"}
  BY <1>5
<1>7. \A d, p : BasedOn(d, p)' <=> BasedOn(d, p)
  BY DEF RefreshWrite, BasedOn
<1>8. /\ \A b \in Artifacts \ {h.ref} : rows'[b] = rows[b] /\ (b \in stale' <=> b \in stale)
      /\ rows'[h.ref].status = h.copy.status
      /\ h.ref \in stale' <=> (h.ref \in stale \/ rows[h.ref].version # h.copy.version)
  BY <1>0, <1>3, <1>4, RowUpdated
<1>9. CASE h.ref \notin Decisions
  <2>1. UNCHANGED <<revived, raced>>
    BY <1>1, <1>9 DEF RefreshWrite
  <2>2. \A d \in Decisions : d \in archived' <=> d \in archived
    BY <1>1, <1>9 DEF RefreshWrite
  <2>3. DecisionsKept
    BY <1>4, <1>7, <1>8, <1>9, <2>1, <2>2 DEF DecisionsKept, Artifacts
  <2> QED BY <1>0, <1>6, <2>3, PlainStep
<1>10. CASE h.ref \in Decisions
  <2>1. Stored(h.ref) /\ h.copy.status \notin {"absent", "addressed"}
    BY <1>2, <1>3, <1>10 DEF HandlerSound, RefSound, CopySound
  <2>2. revived \subseteq revived' /\ raced \subseteq raced'
    BY <1>1 DEF RefreshWrite
  <2>3. Live(h.ref)' /\ ~Live(h.ref) => h.ref \in revived'
    <3> SUFFICES ASSUME Live(h.ref)', ~Live(h.ref) PROVE h.ref \in revived'
      OBVIOUS
    <3>1. rows[h.ref].status \in Terminal
      BY <1>0, <1>10, <2>1 DEF RecordsInv, RowSound, Live, Terminal, Stored, TypeOK, Artifacts, Row, Statuses
    <3>2. h.copy.status \notin Terminal
      BY <1>8 DEF Live, Terminal
    <3> QED BY <1>1, <1>10, <3>1, <3>2 DEF RefreshWrite
  <2>4. \A e \in Decisions \ {h.ref} : e \in archived' <=> e \in archived
    BY <1>1 DEF RefreshWrite
  <2>5. DecisionUpdated(h.ref, h.copy)
    BY <1>4, <1>7, <2>1, <2>2, <2>3, <2>4 DEF DecisionUpdated, Excused
  <2>6. ItemsDated' /\ NewestMeasurementWins'
    BY <1>4 DEF RecordsInv, ItemsDated, NewestMeasurementWins, KeysOverlap
  <2>7. h.ref \in archived' => h.copy.status \in Terminal
    <3>1. h.action \in {"waive", "supersede", "deprecate", "reopen"}
      BY <1>2, <1>10 DEF HandlerSound, WriteSound
    <3>2. CASE h.action \in {"supersede", "deprecate"}
      BY <1>2, <3>2 DEF HandlerSound, WriteSound
    <3>3. CASE h.action \in {"waive", "reopen"}
      BY <1>1, <3>3 DEF RefreshWrite
    <3> QED BY <3>1, <3>2, <3>3
  <2>8. h.ref \notin stale' => h.ref \notin stale /\ h.copy.claims = rows[h.ref].claims
    BY <1>2, <1>3, <1>8, <1>10 DEF HandlerSound, CopySound
  <2>9. h.ref \notin stale' => \A c \in Claims : Agrees(h.copy.claims[c], Measured(evidence'[h.ref], c))
    BY <1>4, <1>10, <2>8, ClaimsAgree DEF RecordsInv
  <2> QED BY <1>0, <1>3, <1>6, <1>10, <2>1, <2>5, <2>6, <2>7, <2>9, UpdateStep
<1> QED BY <1>9, <1>10

\* The statement of decide that creates the decision.
LEMMA DecideCreateKeeps ==
    ASSUME RecordsInv, NEW s \in Sessions, DecideCreate(s)
    PROVE  RecordsInv'
<1>0. TypeOK /\ TypeOK'
  BY DecideTypes DEF RecordsInv
<1>1. PICK h : h = sess[s]
  OBVIOUS
<1>2. h \in Handler /\ HandlerSound(h) /\ h.pc = "create"
  BY <1>0, <1>1 DEF DecideCreate, RecordsInv, TypeOK
<1>3. /\ h.ref \in Decisions /\ h.problem \in Problems /\ h.fs \in SUBSET Files /\ h.validUntil \in Nat
      /\ ~Stored(h.ref)
  BY <1>2, HandlerShapes DEF HandlerSound, CreateSound
<1>4. /\ rows' = [rows EXCEPT ![h.ref] = NewRow(h.validUntil)]
      /\ links' = links \cup {<<h.ref, h.problem, "based_on">>}
      /\ raced' = raced \cup Overtaken(s, h.problem)
      /\ sess' = [sess EXCEPT ![s] = [pc |-> "track", ref |-> h.ref, fs |-> h.fs]]
      /\ UNCHANGED <<evidence, serial, stale, archived, revived>>
  BY <1>1 DEF DecideCreate, Create, Step
<1>5. /\ rows'[h.ref].status = "active" /\ rows'[h.ref].claims = Unverified
      /\ \A e \in Decisions \ {h.ref} : rows'[e] = rows[e]
  <2>1. NewRow(h.validUntil) \in Row
    BY <1>3 DEF NewRow, Row, Unverified, Statuses, ClaimStatuses
  <2>2. rows'[h.ref] = NewRow(h.validUntil) /\ \A e \in Decisions \ {h.ref} : rows'[e] = rows[e]
    BY <1>0, <1>3, <1>4, <2>1, RowWritten DEF Artifacts
  <2> QED BY <2>2 DEF NewRow
<1>6. PICK next : next = [pc |-> "track", ref |-> h.ref, fs |-> h.fs]
  OBVIOUS
<1>7. next \in Handler /\ next.pc = "track" /\ next.ref = h.ref
  BY <1>3, <1>6 DEF Handler
<1>8. sess'[s] = next /\ \A t \in Sessions \ {s} : sess'[t] = sess[t]
  BY <1>0, <1>4, <1>6, <1>7, SessionMoves
<1>9. \A e \in Decisions, q \in Problems :
         BasedOn(e, q)' <=> BasedOn(e, q) \/ (e = h.ref /\ q = h.problem)
  BY <1>4 DEF BasedOn
<1>10. evidence[h.ref] = {} /\ h.ref \notin archived /\ \A q \in Problems : ~BasedOn(h.ref, q)
  BY <1>3 DEF RecordsInv, RowSound
<1>11. Excused \subseteq Excused'
  BY <1>4 DEF Excused
<1>12. ASSUME NEW t \in Sessions PROVE HandlerSound(sess[t])'
  <2>1. PICK g : g = sess'[t]
    OBVIOUS
  <2>2. CASE t = s
    <3>1. g.pc = "track" /\ g.ref = h.ref
      BY <1>7, <1>8, <2>1, <2>2
    <3>2. HandlerSound(g)'
      BY <1>5, <3>1 DEF HandlerSound, CreateSound, RefSound, CopySound, WriteSound, MeasureSound, Copying, Stored
    <3> QED BY <2>1, <3>2 DEF HandlerSound, CreateSound, RefSound, CopySound, WriteSound, MeasureSound
  <2>3. CASE t # s
    <3>1. g = sess[t] /\ g \in Handler /\ HandlerSound(g)
      BY <1>0, <1>8, <2>1, <2>3 DEF RecordsInv, TypeOK
    <3>2. CreateSound(g)'
      <4> SUFFICES ASSUME g.pc = "create"
                   PROVE  /\ Stored(g.ref)' = FALSE
                          /\ \A e \in Decisions : Live(e)' /\ BasedOn(e, g.problem)' => {g.ref, e} \cap Excused' # {}
        BY DEF CreateSound
      <4>1. g.ref \in Decisions /\ g.problem \in Problems /\ ~Stored(g.ref)
        BY <3>1, HandlerShapes DEF HandlerSound, CreateSound
      <4>2. g.ref # h.ref
        BY <1>1, <1>2, <2>3, <3>1 DEF RecordsInv, CreatesApart
      <4>3. Stored(g.ref)' = FALSE
        BY <1>5, <4>1, <4>2 DEF Stored
      <4>4. ASSUME NEW e \in Decisions, Live(e)', BasedOn(e, g.problem)'
            PROVE  {g.ref, e} \cap Excused' # {}
        <5>1. CASE e = h.ref
          <6>1. g.problem = h.problem
            BY <1>9, <1>10, <4>1, <4>4, <5>1
          <6>2. g.ref \in Overtaken(s, h.problem)
            BY <2>3, <3>1, <6>1 DEF Overtaken
          <6> QED BY <1>4, <6>2 DEF Excused
        <5>2. CASE e # h.ref
          <6>1. Live(e) /\ BasedOn(e, g.problem)
            BY <1>5, <1>9, <4>1, <4>4, <5>2 DEF Live
          <6>2. {g.ref, e} \cap Excused # {}
            BY <3>1, <6>1 DEF HandlerSound, CreateSound
          <6> QED BY <1>11, <6>2
        <5> QED BY <5>1, <5>2
      <4> QED BY <4>3, <4>4
    <3>3. RefSound(g)'
      BY <1>5, <3>1 DEF HandlerSound, RefSound, Stored
    <3>4. g.pc \in Copying /\ g.ref \in Decisions => g.ref # h.ref
      BY <1>3, <3>1 DEF HandlerSound, RefSound
    <3>5. CopySound(g)'
      BY <1>4, <1>5, <3>1, <3>4 DEF HandlerSound, CopySound
    <3>6. WriteSound(g)'
      BY <3>1 DEF HandlerSound, WriteSound
    <3>7. MeasureSound(g)'
      <4> SUFFICES ASSUME g.pc = "measure", g.ref \notin stale', g.copy.version = rows'[g.ref].version,
                          NEW c \in Claims
                   PROVE  Agrees(g.copy.claims[c], Measured(Superseding(evidence'[g.ref], g.items) \cup g.items, c))
        BY DEF MeasureSound, Agrees, Measured, Superseding, KeysOverlap
      <4>1. g.ref \in Decisions /\ g.ref # h.ref
        BY <3>1, <3>4, HandlerShapes DEF Copying
      <4>2. g.ref \notin stale /\ g.copy.version = rows[g.ref].version /\ evidence'[g.ref] = evidence[g.ref]
        BY <1>4, <1>5, <4>1
      <4> QED BY <3>1, <4>2 DEF HandlerSound, MeasureSound
    <3>8. HandlerSound(g)'
      BY <3>2, <3>3, <3>5, <3>6, <3>7 DEF HandlerSound
    <3> QED BY <2>1, <3>8 DEF HandlerSound, CreateSound, RefSound, CopySound, WriteSound, MeasureSound
  <2> QED BY <2>2, <2>3
<1>13. CreatesApart'
  BY <1>7, <1>8 DEF CreatesApart, RecordsInv
<1>14. \A d \in Decisions : RowSound(d)'
  <2> TAKE d \in Decisions
  <2>1. CASE d = h.ref
    BY <1>5, <2>1 DEF RowSound, Stored
  <2>2. CASE d # h.ref
    BY <1>4, <1>5, <1>9, <2>2 DEF RecordsInv, RowSound, Stored
  <2> QED BY <2>1, <2>2
<1>15. ItemsDated' /\ NewestMeasurementWins'
  BY <1>4 DEF RecordsInv, ItemsDated, NewestMeasurementWins, KeysOverlap
<1>16. ArchivedIsTerminal'
  BY <1>4, <1>5, <1>10 DEF RecordsInv, ArchivedIsTerminal
<1>17. ClaimsFollowMeasurements'
  <2>1. \A e \in Decisions \ stale', c \in Claims : Agrees(rows'[e].claims[c], Measured(evidence'[e], c))
    <3> TAKE e \in Decisions \ stale', c \in Claims
    <3>1. CASE e = h.ref
      <4>1. Measured(evidence'[e], c) = {} /\ rows'[e].claims[c] = "unverified"
        BY <1>4, <1>5, <1>10, <3>1 DEF Measured, Unverified
      <4> QED BY <4>1 DEF Agrees
    <3>2. CASE e # h.ref
      <4>1. e \notin stale /\ rows'[e] = rows[e] /\ evidence'[e] = evidence[e]
        BY <1>4, <1>5, <3>2
      <4> QED BY <4>1, ClaimsAgree DEF RecordsInv
    <3> QED BY <3>1, <3>2
  <2> QED BY <2>1, ClaimsAgreeNext
<1>18. OneLiveDecision'
  <2> SUFFICES ASSUME NEW p \in Problems, NEW x \in Decisions, NEW y \in Decisions,
                      x # y, Live(x)', Live(y)', BasedOn(x, p)', BasedOn(y, p)'
               PROVE  {x, y} \cap Excused' # {}
    BY DEF OneLiveDecision, Excused
  <2>1. \A e \in Decisions : e # h.ref /\ Live(e)' /\ BasedOn(e, p)' => Live(e) /\ BasedOn(e, p)
    BY <1>5, <1>9 DEF Live
  <2>2. \A e \in Decisions : Live(e) /\ BasedOn(e, h.problem) => {h.ref, e} \cap Excused # {}
    BY <1>2 DEF HandlerSound, CreateSound
  <2>3. BasedOn(h.ref, p)' => p = h.problem
    BY <1>3, <1>9, <1>10
  <2>4. CASE x = h.ref
    BY <1>11, <2>1, <2>2, <2>3, <2>4
  <2>5. CASE y = h.ref
    BY <1>11, <2>1, <2>2, <2>3, <2>5
  <2>6. CASE x # h.ref /\ y # h.ref
    <3>1. {x, y} \cap Excused # {}
      BY <2>1, <2>6 DEF RecordsInv, OneLiveDecision, Excused
    <3> QED BY <1>11, <3>1
  <2> QED BY <2>4, <2>5, <2>6
<1> QED BY <1>0, <1>12, <1>13, <1>14, <1>15, <1>16, <1>17, <1>18 DEF RecordsInv

\* Evidence attached by a caller.
LEMMA AttachKeeps ==
    ASSUME RecordsInv, NEW s \in Sessions, AttachEvidence(s)
    PROVE  RecordsInv'
<1>0. TypeOK /\ TypeOK'
  BY EvidenceTypes DEF RecordsInv
<1>1. /\ sess' = sess /\ serial' = serial + 1
      /\ UNCHANGED <<rows, links, history>>
  BY <1>0, EvidenceAttached
<1>2. PICK d \in Decisions, item \in Item :
        /\ Stored(d) /\ item.by = "attach" /\ item.at = serial
        /\ evidence'[d] = evidence[d] \cup {item}
        /\ \A e \in Decisions \ {d} : evidence'[e] = evidence[e]
  BY <1>0, EvidenceAttached
<1>3. serial \in Nat /\ \A e \in Decisions : evidence[e] \in SUBSET Item
  BY <1>0 DEF TypeOK
<1>4. \A e \in Decisions : \A i \in evidence[e] : i.at \in Nat /\ i.at < serial
  BY <1>3 DEF RecordsInv, ItemsDated, Item
<1>5. ASSUME NEW t \in Sessions PROVE HandlerSound(sess[t])'
  <2>1. PICK h : h = sess[t]
    OBVIOUS
  <2>2. h \in Handler /\ HandlerSound(h) /\ h = sess'[t]
    BY <1>0, <1>1, <2>1 DEF RecordsInv, TypeOK
  <2>3. CreateSound(h)'
    BY <1>1, <2>2 DEF HandlerSound, CreateSound, Stored, Live, BasedOn, Excused, history
  <2>4. RefSound(h)' /\ CopySound(h)' /\ WriteSound(h)'
    BY <1>1, <2>2 DEF HandlerSound, RefSound, CopySound, WriteSound, Stored, history
  <2>5. MeasureSound(h)'
    <3> SUFFICES ASSUME h.pc = "measure", h.ref \notin stale', h.copy.version = rows'[h.ref].version,
                        NEW c \in Claims
                 PROVE  Agrees(h.copy.claims[c], Measured(Superseding(evidence'[h.ref], h.items) \cup h.items, c))
      BY DEF MeasureSound, Agrees, Measured, Superseding, KeysOverlap
    <3>1. h.ref \in Decisions
      BY <2>2, HandlerShapes
    <3>2. Agrees(h.copy.claims[c], Measured(Superseding(evidence[h.ref], h.items) \cup h.items, c))
      BY <1>1, <2>2 DEF HandlerSound, MeasureSound, history
    <3>3. CASE h.ref # d
      BY <1>2, <3>1, <3>2, <3>3
    <3>4. CASE h.ref = d
      <4>1. Measured(Superseding(evidence'[h.ref], h.items) \cup h.items, c)
              \subseteq Measured(Superseding(evidence[h.ref], h.items) \cup h.items, c)
        BY <1>2, <1>3, <3>4, AttachedIsNotMeasured
      <4> QED BY <3>2, <4>1, AgreesWithFewer
    <3> QED BY <3>3, <3>4
  <2>6. HandlerSound(h)'
    BY <2>3, <2>4, <2>5 DEF HandlerSound
  <2> QED BY <2>2, <2>6 DEF HandlerSound, CreateSound, RefSound, CopySound, WriteSound, MeasureSound
<1>6. CreatesApart' /\ ArchivedIsTerminal'
  BY <1>1 DEF RecordsInv, CreatesApart, ArchivedIsTerminal, history
<1>7. \A e \in Decisions : RowSound(e)'
  <2> TAKE e \in Decisions
  <2>1. CASE e = d
    BY <1>1, <1>2, <2>1 DEF RecordsInv, RowSound, Stored, history
  <2>2. CASE e # d
    BY <1>1, <1>2, <2>2 DEF RecordsInv, RowSound, Stored, BasedOn, history
  <2> QED BY <2>1, <2>2
<1>8. ItemsDated'
  <2> SUFFICES ASSUME NEW e \in Decisions, NEW j \in evidence'[e] PROVE j.at < serial'
    BY DEF ItemsDated
  <2>1. j \in evidence[e] \/ j.at = serial
    BY <1>2
  <2> QED BY <1>1, <1>3, <1>4, <2>1
<1>9. NewestMeasurementWins'
  <2> SUFFICES ASSUME NEW e \in Decisions, NEW x \in evidence'[e], NEW y \in evidence'[e],
                      y.by = "measure", x.type = "measurement", x.at < y.at, KeysOverlap(x.binds, y.binds)
               PROVE  x.verdict = "superseded"
    BY DEF NewestMeasurementWins, KeysOverlap
  <2>1. y \in evidence[e]
    BY <1>2
  <2>2. x \in evidence[e]
    BY <1>2, <1>3, <1>4, <2>1
  <2> QED BY <2>1, <2>2 DEF RecordsInv, NewestMeasurementWins
<1>10. ClaimsFollowMeasurements'
  <2>1. \A e \in Decisions \ stale', c \in Claims : Agrees(rows'[e].claims[c], Measured(evidence'[e], c))
    <3> TAKE e \in Decisions \ stale', c \in Claims
    <3>1. Agrees(rows[e].claims[c], Measured(evidence[e], c)) /\ rows' = rows
      BY <1>1, ClaimsAgree DEF RecordsInv, history
    <3>2. Measured(evidence'[e], c) \subseteq Measured(evidence[e], c)
      BY <1>2, <1>3, AttachedIsNotMeasured
    <3> QED BY <3>1, <3>2, AgreesWithFewer
  <2> QED BY <2>1, ClaimsAgreeNext
<1>11. OneLiveDecision'
  BY <1>1 DEF RecordsInv, OneLiveDecision, Live, BasedOn, history
<1> QED BY <1>0, <1>5, <1>6, <1>7, <1>8, <1>9, <1>10, <1>11 DEF RecordsInv

----------------------------------------------------------------------------
(* The invariant.                                                          *)

\* Init establishes the invariant: every problem decided before has one decision.
LEMMA RecordsInitial == Init => RecordsInv
<1> SUFFICES ASSUME Init PROVE RecordsInv
  OBVIOUS
<1> USE ConstantsAssumption
<1>1. /\ \A d \in Artifacts : rows[d] \in Row
      /\ \A d \in Decisions : rows[d].status # "addressed" /\ (d \in Decided => rows[d].status # "absent")
      /\ \A d \in Decisions : rows[d].claims = Unverified
  <2>1. NewRow(0) \in Row /\ [NewRow(0) EXCEPT !.version = 2] \in Row /\ NoRow \in Row
    BY DEF NewRow, NoRow, Row, Unverified, Statuses, ClaimStatuses
  <2>2. /\ NewRow(0).status = "active" /\ [NewRow(0) EXCEPT !.version = 2].status = "active" /\ NoRow.status = "absent"
        /\ NewRow(0).claims = Unverified /\ [NewRow(0) EXCEPT !.version = 2].claims = Unverified
        /\ NoRow.claims = Unverified
    BY DEF NewRow, NoRow
  <2>3. \A a \in Artifacts : rows[a] = CASE a \in Decided -> [NewRow(0) EXCEPT !.version = 2]
                                         [] a \in Framed -> NewRow(0)
                                         [] OTHER -> NoRow
    BY DEF Init
  <2>4. \A a \in Artifacts : /\ a \in Decided => rows[a] = [NewRow(0) EXCEPT !.version = 2]
                             /\ a \notin Decided /\ a \in Framed => rows[a] = NewRow(0)
                             /\ a \notin Decided /\ a \notin Framed => rows[a] = NoRow
    BY <2>3
  <2> HIDE DEF NewRow, NoRow
  <2> QED BY <2>1, <2>2, <2>4 DEF Artifacts
<1>2. \A d, p : BasedOn(d, p) => d \in Decided /\ p = DecidedFor[d]
  BY DEF Init, BasedOn
<1>3. TypeOK
  <2>1. rows \in [Artifacts -> Row]
    BY <1>1 DEF Init
  <2>2. links \subseteq (Artifacts \X Artifacts \X {"based_on", "revisits", "supersedes"})
    <3>1. \A d \in Decided : d \in Artifacts /\ DecidedFor[d] \in Artifacts
      BY DEF Artifacts
    <3> QED BY <3>1 DEF Init
  <2>3. files \in [Decisions -> FileList]
    <3>1. \A fs \in SUBSET Files : [f \in fs |-> 1] \in FileList
      BY FileLists DEF Contents
    <3> QED BY <3>1 DEF Init
  <2>4. tree \in [Files -> Contents] /\ sess \in [Sessions -> Handler] /\ evidence \in [Decisions -> SUBSET Item]
    BY DEF Init, Contents, Handler
  <2> QED BY <2>1, <2>2, <2>3, <2>4 DEF Init, TypeOK
<1>4. \A s \in Sessions : HandlerSound(sess[s])
  BY PlainSound DEF Init, Idle, Copying
<1>5. CreatesApart
  BY DEF Init, Idle, CreatesApart
<1>6. \A d \in Decisions : RowSound(d)
  BY <1>1, <1>2 DEF Init, RowSound, Stored
<1>7. ItemsDated /\ ArchivedIsTerminal /\ NewestMeasurementWins
  BY DEF Init, ItemsDated, ArchivedIsTerminal, NewestMeasurementWins
<1>8. ClaimsFollowMeasurements
  BY DEF Init, ClaimsFollowMeasurements, Active
<1>9. OneLiveDecision
  BY <1>2 DEF OneLiveDecision
<1> QED BY <1>3, <1>4, <1>5, <1>6, <1>7, <1>8, <1>9 DEF RecordsInv

\* Every step keeps the invariant.
LEMMA RecordsKept ==
    ASSUME RecordsInv, [Next]_vars
    PROVE  RecordsInv'
<1>1. ASSUME NEW s \in Sessions, SessionStep(s) PROVE RecordsInv'
  BY <1>1, DecideCheckKeeps, DecideCreateKeeps, DecideTrackKeeps, BaselineKeeps, BaselineSaveKeeps,
     MeasureBeginKeeps, MeasureCommitKeeps, AttachKeeps, RefreshLoadKeeps, RefreshWriteKeeps,
     ReopenKeeps, WorldKeeps DEF SessionStep
<1> QED BY <1>1, WorldKeeps DEF Next

----------------------------------------------------------------------------
(* The theorems.                                                           *)

\* The rows, links and evidence of the decisions and the copies the sessions'
\* handlers hold of them stay consistent, however the handlers interleave,
\* are cut short or overtake each other.
THEOREM RecordsSound == Spec => []RecordsInv
<1>1. RecordsInv /\ [Next]_vars => RecordsInv'
  BY RecordsKept
<1> QED BY <1>1, RecordsInitial, PTL DEF Spec

\* The artifacts, links, evidence and handlers have the shapes of their tables.
THEOREM RecordsTypes == Spec => []TypeOK
<1>1. RecordsInv => TypeOK
  BY DEF RecordsInv
<1> QED BY <1>1, RecordsSound, PTL

\* CommitMeasurement retires every older measurement of the same claims, however
\* the sessions that measure interleave.
THEOREM NewestWins == Spec => []NewestMeasurementWins
<1>1. RecordsInv => NewestMeasurementWins
  BY DEF RecordsInv
<1> QED BY <1>1, RecordsSound, PTL

\* The claim statuses in a row that was never overwritten from an old copy agree
\* with the measurements in force.
THEOREM ClaimsFollow == Spec => []ClaimsFollowMeasurements
<1>1. RecordsInv => ClaimsFollowMeasurements
  BY DEF RecordsInv
<1> QED BY <1>1, RecordsSound, PTL

\* The conflict check of Decide leaves a problem one live decision, but for
\* decisions with an excuse.
THEOREM LiveDecisionIsOne == Spec => []OneLiveDecision
<1>1. RecordsInv => OneLiveDecision
  BY DEF RecordsInv
<1> QED BY <1>1, RecordsSound, PTL

\* ScanStale is silent about a decision the operator archived, unless its row
\* was overwritten from an old copy.
THEOREM ArchivedIsQuiet == Spec => []ArchivedStaysQuiet
<1>1. RecordsInv => ArchivedStaysQuiet
  <2> SUFFICES ASSUME RecordsInv, NEW d \in Decisions, d \in archived, d \notin stale
               PROVE  ~ScanStale(d)
    BY DEF ArchivedStaysQuiet
  <2>1. rows[d].status \in Terminal
    BY DEF RecordsInv, ArchivedIsTerminal
  <2> QED BY <2>1 DEF ScanStale, ExpiredSurfaces, Degraded, PendingVerification, DriftReported, Live, Terminal
<1> QED BY <1>1, RecordsSound, PTL

\* A set of natural numbers that is not empty has a least element.
LEMMA LeastNatural ==
    ASSUME NEW T \in SUBSET Nat, T # {}
    PROVE  \E least \in T : \A other \in T : least <= other
<1> DEFINE R == OpToRel(<, Nat)
<1>1. \A m, n \in Nat : <<m, n>> \in R <=> m < n
  BY DEF OpToRel
<1>2. IsWellFoundedOn(R, Nat)
  BY NatLessThanWellFounded
<1> HIDE DEF R
<1>3. \E least \in T : \A other \in T : <<other, least>> \notin R
  BY <1>2, WFMin
<1>4. PICK least \in T : \A other \in T : <<other, least>> \notin R
  BY <1>3
<1>5. ASSUME NEW other \in T PROVE least <= other
  <2>1. other \in Nat /\ least \in Nat
    OBVIOUS
  <2>2. ~(other < least)
    BY <1>1, <1>4, <2>1
  <2> QED BY <2>1, <2>2
<1> QED BY <1>5

\* A score is a natural number, and one below 0.5 is not raised above it by time.
LEMMA ScoresDecay ==
    ASSUME NEW i \in Item, NEW now \in Nat, NEW later \in Nat, now <= later
    PROVE  /\ ScoreEvidence(i, now) \in Nat
           /\ ScoreEvidence(i, now) < 50 => ScoreEvidence(i, later) < 50
<1>1. PICK net : net = TypedVerdictToScore(i.type, i.verdict) - CLPenalty(i.cl)
  OBVIOUS
<1>2. net \in Int
  <2>1. TypedVerdictToScore(i.type, i.verdict) \in Nat
    BY DEF TypedVerdictToScore, VerdictToScore
  <2>2. CLPenalty(i.cl) \in Nat
    BY DEF CLPenalty
  <2> QED BY <1>1, <2>1, <2>2
<1>3. \A t : ScoreEvidence(i, t) = IF Expired(i.validUntil, t) THEN 10 ELSE IF net < 0 THEN 0 ELSE net
  BY <1>1 DEF ScoreEvidence
<1>4. Expired(i.validUntil, now) => Expired(i.validUntil, later)
  <2>1. i.validUntil \in Nat
    BY DEF Item
  <2> QED BY <2>1 DEF Expired
<1>5. \A x : (IF Expired(i.validUntil, x) THEN 10 ELSE IF net < 0 THEN 0 ELSE net) \in Nat
  BY <1>2
<1> HIDE DEF Expired
<1> QED BY <1>2, <1>3, <1>4, <1>5

\* The weakest link is below 0.5 exactly when some item is.
LEMMA WeakestLink ==
    ASSUME NEW items \in SUBSET Item, NEW now \in Nat
    PROVE  REff(items, now) < 50 <=> \E i \in items : ScoreEvidence(i, now) < 50
<1> DEFINE scores == {ScoreEvidence(i, now) : i \in items} \cup {100}
<1>1. \A i \in items : ScoreEvidence(i, now) \in Nat
  BY ScoresDecay
<1>2. scores \in SUBSET Nat /\ scores # {}
  BY <1>1
<1>3. REff(items, now) = CHOOSE least \in scores : \A other \in scores : least <= other
  BY DEF REff
<1>4. /\ \A i \in items : ScoreEvidence(i, now) \in scores
      /\ \A x \in scores : x = 100 \/ \E i \in items : x = ScoreEvidence(i, now)
  OBVIOUS
<1> HIDE DEF scores
<1>5. \E least \in scores : \A other \in scores : least <= other
  BY <1>2, LeastNatural
<1>6. REff(items, now) \in scores /\ \A other \in scores : REff(items, now) <= other
  BY <1>3, <1>5
<1>7. REff(items, now) \in Nat
  BY <1>2, <1>6
<1>8. ASSUME NEW i \in items, ScoreEvidence(i, now) < 50 PROVE REff(items, now) < 50
  BY <1>1, <1>4, <1>6, <1>7, <1>8
<1>9. ASSUME REff(items, now) < 50 PROVE \E i \in items : ScoreEvidence(i, now) < 50
  BY <1>4, <1>6, <1>9
<1> QED BY <1>8, <1>9

\* A decision on the report stays there while its row says the same, its evidence
\* only grows and its files and their hashes do not change, however late it gets.
LEMMA DebtKept ==
    ASSUME TypeOK, TypeOK', NEW d \in Decisions, ScanStale(d),
           rows'[d].status = rows[d].status, rows'[d].claims = rows[d].claims,
           rows'[d].validUntil = rows[d].validUntil,
           evidence[d] \subseteq evidence'[d], files'[d] = files[d], tree' = tree, clock <= clock'
    PROVE  ScanStale(d)'
<1>1. /\ clock \in Nat /\ clock' \in Nat /\ rows[d].validUntil \in Nat
      /\ evidence[d] \in SUBSET Item /\ evidence'[d] \in SUBSET Item
  BY DEF TypeOK, Artifacts, Row
<1>2. Stored(d)' /\ (Live(d)' <=> Live(d))
  BY DEF ScanStale, Stored, Live
<1>3. ExpiredSurfaces(d) => ExpiredSurfaces(d)'
  BY <1>1 DEF ExpiredSurfaces, Expired
<1>4. Degraded(d) => Degraded(d)'
  <2> SUFFICES ASSUME Degraded(d) PROVE Degraded(d)'
    OBVIOUS
  <2>1. Active(d) \in SUBSET Item /\ Active(d)' \in SUBSET Item /\ Active(d) \subseteq Active(d)'
    BY <1>1 DEF Active
  <2>2. PICK i \in Active(d) : ScoreEvidence(i, clock) < 50
    BY <1>1, <2>1, WeakestLink DEF Degraded
  <2>3. ScoreEvidence(i, clock') < 50
    BY <1>1, <2>1, <2>2, ScoresDecay
  <2>4. REff(Active(d)', clock') < 50
    BY <1>1, <2>1, <2>3, WeakestLink
  <2> QED BY <1>2, <2>1, <2>2, <2>4 DEF Degraded
<1>5. PendingVerification(d) => PendingVerification(d)'
  BY <1>1, <1>2, ConstantsAssumption DEF PendingVerification
<1>6. DriftReported(d) => DriftReported(d)'
  BY DEF DriftReported, Drifted, HasBaseline
<1> QED BY <1>2, <1>3, <1>4, <1>5, <1>6 DEF ScanStale

\* A decision overwritten from an up-to-date copy that its handler has not changed.
LEMMA SaveKeepsDebt ==
    ASSUME RecordsInv, NEW s \in Sessions, BaselineSave(s), NEW d \in Decisions, ~DebtSettled(d)
    PROVE  /\ rows'[d].status = rows[d].status /\ rows'[d].claims = rows[d].claims
           /\ rows'[d].validUntil = rows[d].validUntil
<1>0. TypeOK /\ d \in Artifacts
  BY DEF RecordsInv, Artifacts
<1>1. PICK h : h = sess[s]
  OBVIOUS
<1>2. h \in Handler /\ HandlerSound(h) /\ h.pc = "save"
  BY <1>0, <1>1 DEF BaselineSave, RecordsInv, TypeOK
<1>3. h.ref \in Decisions /\ h.ref \in Artifacts /\ h.copy \in Row /\ h.pc \in Copying
  BY <1>2, HandlerShapes DEF Copying, Artifacts
<1>4. Update(h.ref, h.copy)
  BY <1>1 DEF BaselineSave
<1>5. /\ rows'[h.ref].version = h.copy.version + 1 /\ rows'[h.ref].status = h.copy.status
      /\ rows'[h.ref].claims = h.copy.claims /\ rows'[h.ref].validUntil = h.copy.validUntil
      /\ \A b \in Artifacts \ {h.ref} : rows'[b] = rows[b]
      /\ h.ref \in stale' <=> (h.ref \in stale \/ rows[h.ref].version # h.copy.version)
  BY <1>0, <1>3, <1>4, RowUpdated
<1>6. CASE d # h.ref
  BY <1>0, <1>5, <1>6
<1>7. CASE d = h.ref
  <2>1. rows'[d] # rows[d] => d \notin stale'
    BY DEF DebtSettled
  <2>2. CASE rows'[d] = rows[d]
    BY <2>2
  <2>3. CASE d \notin stale'
    <3>1. h.ref \notin stale /\ h.copy.version = rows[h.ref].version
      BY <1>5, <1>7, <2>3
    <3> QED BY <1>2, <1>3, <1>5, <1>7, <3>1 DEF HandlerSound, CopySound
  <2> QED BY <2>1, <2>2, <2>3
<1> QED BY <1>6, <1>7

\* A refresh that settles nothing leaves the row alone or makes it refresh_due.
LEMMA RefreshKeepsDebt ==
    ASSUME RecordsInv, NEW s \in Sessions, RefreshWrite(s), NEW d \in Decisions, ~DebtSettled(d)
    PROVE  rows'[d] = rows[d] \/ rows'[d].status = "refresh_due"
<1>0. TypeOK /\ d \in Artifacts
  BY DEF RecordsInv, Artifacts
<1>1. PICK h : h = sess[s]
  OBVIOUS
<1>2. h \in Handler /\ HandlerSound(h) /\ h.pc = "write"
  BY <1>0, <1>1 DEF RefreshWrite, RecordsInv, TypeOK
<1>3. h.ref \in Artifacts /\ h.copy \in Row
  BY <1>2, HandlerShapes DEF Copying
<1>4. Update(h.ref, h.copy)
  BY <1>1 DEF RefreshWrite
<1>5. /\ rows'[h.ref].status = h.copy.status
      /\ \A b \in Artifacts \ {h.ref} : rows'[b] = rows[b]
  BY <1>0, <1>3, <1>4, RowUpdated
<1>6. CASE d # h.ref
  BY <1>0, <1>5, <1>6
<1>7. CASE d = h.ref
  <2>1. h.action \in {"waive", "supersede", "deprecate", "reopen"}
    BY <1>2, <1>7 DEF HandlerSound, WriteSound
  <2>2. CASE h.action = "reopen"
    BY <1>2, <1>5, <1>7, <2>2 DEF HandlerSound, WriteSound
  <2>3. CASE h.action \in {"waive", "supersede", "deprecate"}
    <3>1. PICK next : next = [pc |-> "report", ref |-> h.ref, action |-> h.action]
      OBVIOUS
    <3>2. next.pc = "report" /\ sess' = [sess EXCEPT ![s] = next]
      BY <1>1, <2>3, <3>1 DEF RefreshWrite, Step
    <3>3. sess'[s] = next
      BY <1>0, <3>2 DEF TypeOK
    <3> QED BY <1>1, <1>2, <1>7, <2>3, <3>2, <3>3 DEF DebtSettled
  <2> QED BY <2>1, <2>2, <2>3
<1> QED BY <1>6, <1>7

\* A measurement of another decision does not touch this one.
LEMMA MeasureKeepsDebt ==
    ASSUME RecordsInv, NEW s \in Sessions, MeasureCommit(s), NEW d \in Decisions, ~DebtSettled(d)
    PROVE  rows'[d] = rows[d] /\ evidence'[d] = evidence[d]
<1>0. TypeOK /\ d \in Artifacts /\ serial \in Nat
  BY DEF RecordsInv, Artifacts, TypeOK
<1>1. PICK h : h = sess[s]
  OBVIOUS
<1>2. h \in Handler /\ h.pc = "measure"
  BY <1>0, <1>1 DEF MeasureCommit, TypeOK
<1>3. h.ref \in Decisions /\ h.ref \in Artifacts /\ h.copy \in Row /\ h.items \in SUBSET Item
  BY <1>2, HandlerShapes DEF Copying, Artifacts
<1>4. CommitMeasurement(h.ref, h.copy, h.items) /\ sess' = [sess EXCEPT ![s] = Idle]
  BY <1>1 DEF MeasureCommit, Done, Step
<1>5. \A b \in Artifacts \ {h.ref} : rows'[b] = rows[b]
  BY <1>0, <1>3, <1>4, RowUpdated DEF CommitMeasurement
<1>6. serial' = serial + 1 /\ \A e \in Decisions \ {h.ref} : evidence'[e] = evidence[e]
  BY <1>0, <1>3, <1>4, MeasurementCommitted
<1>7. sess'[s].pc = "idle"
  BY <1>0, <1>4 DEF TypeOK, Idle
<1>8. d # h.ref
  BY <1>0, <1>1, <1>2, <1>6, <1>7 DEF DebtSettled
<1> QED BY <1>0, <1>5, <1>6, <1>8

\* A decision on the report is there before and after every other step.
LEMMA StepKeepsDebt ==
    ASSUME RecordsInv, [Next]_vars, NEW d \in Decisions, ScanStale(d), ~DebtSettled(d)
    PROVE  ScanStale(d)'
<1> DEFINE Same == /\ rows'[d].status = rows[d].status /\ rows'[d].claims = rows[d].claims
                   /\ rows'[d].validUntil = rows[d].validUntil
<1>0. TypeOK /\ TypeOK' /\ d \in Artifacts
  BY RecordsKept DEF RecordsInv, Artifacts
<1>1. files'[d] = files[d] /\ tree' = tree
  BY DEF DebtSettled
<1>2. clock <= clock'
  <2>1. clock \in Nat
    BY <1>0 DEF TypeOK
  <2>2. ASSUME NEW s \in Sessions, SessionStep(s) PROVE clock' = clock
    <3>1. CASE \/ DecideCheck(s) \/ DecideCreate(s) \/ DecideTrack(s) \/ MeasureBegin(s)
               \/ MeasureCommit(s) \/ AttachEvidence(s) \/ RefreshLoad(s) \/ Abort(s)
      BY <3>1 DEF DecideCheck, DecideCreate, DecideTrack, MeasureBegin, MeasureCommit,
                  AttachEvidence, RefreshLoad, Abort, worldVars
    <3>2. CASE \/ BaselineBegin(s) \/ BaselineLoad(s) \/ BaselineRelist(s) \/ BaselineList(s)
               \/ BaselineHash(s) \/ BaselineSave(s)
      BY <3>2 DEF BaselineBegin, BaselineLoad, BaselineRelist, BaselineList, BaselineHash,
                  BaselineSave, worldVars
    <3>3. CASE RefreshWrite(s)
      BY <3>3 DEF RefreshWrite, worldVars
    <3>4. CASE ReopenFrame(s) \/ ReopenLineage(s) \/ ReopenLink(s) \/ Report(s) \/ Frame(s)
      BY <3>4 DEF ReopenFrame, ReopenLineage, ReopenLink, Report, Frame, worldVars
    <3> QED BY <2>2, <3>1, <3>2, <3>3, <3>4 DEF SessionStep
  <2>3. Tick \/ Edit \/ UNCHANGED vars => clock' = clock \/ clock' = clock + 1
    BY DEF Tick, Edit, vars, worldVars
  <2> QED BY <2>1, <2>2, <2>3 DEF Next
<1> HIDE DEF Same
<1>3. ASSUME Same, evidence[d] \subseteq evidence'[d] PROVE ScanStale(d)'
  BY <1>0, <1>1, <1>2, <1>3, DebtKept DEF Same
<1>4. CASE UNCHANGED <<rows, evidence>>
  BY <1>3, <1>4 DEF Same
<1>5. ASSUME NEW s \in Sessions, SessionStep(s) PROVE ScanStale(d)'
  <2>1. CASE DecideCreate(s)
    <3>1. PICK h : h = sess[s]
      OBVIOUS
    <3>2. h \in Handler /\ HandlerSound(h) /\ h.pc = "create"
      BY <1>0, <2>1, <3>1 DEF DecideCreate, RecordsInv, TypeOK
    <3>3. h.ref \in Decisions /\ h.ref \in Artifacts /\ h.validUntil \in Nat /\ ~Stored(h.ref)
      BY <3>2, HandlerShapes DEF HandlerSound, CreateSound, Artifacts
    <3>4. rows' = [rows EXCEPT ![h.ref] = NewRow(h.validUntil)] /\ evidence' = evidence
      BY <2>1, <3>1 DEF DecideCreate, Create
    <3>5. d # h.ref
      BY <3>3 DEF ScanStale
    <3>6. rows'[d] = rows[d]
      BY <1>0, <3>4, <3>5 DEF TypeOK
    <3> QED BY <1>3, <3>4, <3>6 DEF Same
  <2>2. CASE BaselineSave(s)
    <3>1. evidence' = evidence
      BY <2>2 DEF BaselineSave
    <3> QED BY <1>3, <2>2, <3>1, SaveKeepsDebt DEF Same
  <2>3. CASE MeasureCommit(s)
    BY <1>3, <2>3, MeasureKeepsDebt DEF Same
  <2>4. CASE AttachEvidence(s)
    <3>1. rows' = rows /\ evidence[d] \subseteq evidence'[d]
      BY <1>0, <2>4, EvidenceAttached
    <3> QED BY <1>3, <3>1 DEF Same
  <2>5. CASE RefreshWrite(s)
    <3>1. rows'[d] = rows[d] \/ rows'[d].status = "refresh_due"
      BY <2>5, RefreshKeepsDebt
    <3>2. CASE rows'[d] = rows[d]
      <4>1. evidence' = evidence
        BY <2>5 DEF RefreshWrite
      <4> QED BY <1>3, <3>2, <4>1 DEF Same
    <3>3. CASE rows'[d].status = "refresh_due"
      BY <3>3 DEF ScanStale, Stored, ExpiredSurfaces, Terminal
    <3> QED BY <3>1, <3>2, <3>3
  <2>6. CASE ReopenFrame(s) \/ Frame(s)
    <3>1. PICK p \in Problems : Create(p, NewRow(0))
      BY <2>6 DEF ReopenFrame, Frame
    <3>2. p # d /\ evidence' = evidence
      BY <2>6, ConstantsAssumption DEF ReopenFrame, Frame
    <3>3. rows'[d] = rows[d]
      BY <1>0, <3>1, <3>2 DEF Create, TypeOK
    <3> QED BY <1>3, <3>2, <3>3 DEF Same
  <2>7. CASE ReopenLineage(s)
    <3>1. PICK h : h = sess[s]
      OBVIOUS
    <3>2. h \in Handler /\ h.pc = "lineage" /\ Update(h.problem, h.copy) /\ evidence' = evidence
      BY <1>0, <2>7, <3>1 DEF ReopenLineage, TypeOK
    <3>3. h.problem \in Problems /\ h.copy \in Row
      BY <3>2, HandlerShapes
    <3>4. h.problem \in Artifacts /\ h.problem # d
      BY <3>3, ConstantsAssumption DEF Artifacts
    <3>5. rows'[d] = rows[d]
      BY <1>0, <3>2, <3>3, <3>4, RowUpdated
    <3> QED BY <1>3, <3>2, <3>5 DEF Same
  <2>8. CASE \/ DecideCheck(s) \/ DecideTrack(s) \/ BaselineBegin(s) \/ BaselineLoad(s)
             \/ BaselineRelist(s) \/ BaselineList(s) \/ BaselineHash(s) \/ MeasureBegin(s)
             \/ RefreshLoad(s) \/ ReopenLink(s) \/ Report(s) \/ Abort(s)
    <3>1. UNCHANGED <<rows, evidence>>
      BY <2>8 DEF DecideCheck, DecideTrack, BaselineBegin, BaselineLoad, BaselineRelist, BaselineList,
                  BaselineHash, MeasureBegin, RefreshLoad, ReopenLink, Report, Abort, storeVars
    <3> QED BY <1>4, <3>1
  <2> QED BY <1>5, <2>1, <2>2, <2>3, <2>4, <2>5, <2>6, <2>7, <2>8 DEF SessionStep
<1>6. CASE Tick \/ Edit \/ UNCHANGED vars
  <2>1. UNCHANGED <<rows, evidence>>
    BY <1>6 DEF Tick, Edit, vars, storeVars
  <2> QED BY <1>4, <2>1
<1> QED BY <1>5, <1>6 DEF Next

\* ScanStale goes on reporting a decision until a waive, supersede, deprecate,
\* measurement or baseline of it, an edit of its files, or an old copy of its row.
THEOREM DebtIsKept == Spec => DebtStays
<1>1. RecordsInv /\ [Next]_vars => \A d \in Decisions : ScanStale(d) /\ ~ScanStale(d)' => DebtSettled(d)
  BY StepKeepsDebt
<1> QED BY <1>1, RecordsSound, PTL DEF Spec, DebtStays

\* Evidence is never deleted, rewritten or un-superseded: only the transaction of
\* measure touches items, and only to supersede measurements.
THEOREM EvidenceKept == Spec => EvidenceIsKept
<1> DEFINE Kept == \A d \in Decisions : \A i \in evidence[d] :
          i \in evidence'[d] \/ (i.type = "measurement"
                                 /\ [i EXCEPT !.verdict = "superseded"] \in evidence'[d])
<1>1. RecordsInv /\ [Next]_vars => [Kept]_evidence
  <2> SUFFICES ASSUME RecordsInv, [Next]_vars, evidence' # evidence PROVE Kept
    OBVIOUS
  <2>0. TypeOK
    BY DEF RecordsInv
  <2>1. PICK s \in Sessions : MeasureCommit(s) \/ AttachEvidence(s)
    BY DEF Next, SessionStep, vars, storeVars, DecideCheck, DecideCreate, DecideTrack, BaselineBegin,
           BaselineLoad, BaselineRelist, BaselineList, BaselineHash, BaselineSave, MeasureBegin,
           RefreshLoad, RefreshWrite, ReopenFrame, ReopenLineage, ReopenLink, Report, Frame, Abort,
           Tick, Edit
  <2>2. CASE AttachEvidence(s)
    <3>1. \E d \in Decisions, item \in Item :
            /\ evidence'[d] = evidence[d] \cup {item}
            /\ \A e \in Decisions \ {d} : evidence'[e] = evidence[e]
      BY <2>0, <2>2, EvidenceAttached
    <3> QED BY <3>1
  <2>3. CASE MeasureCommit(s)
    <3> DEFINE h == sess[s]
    <3>1. h.ref \in Decisions /\ h.items \in SUBSET Item /\ CommitMeasurement(h.ref, h.copy, h.items)
      BY <2>0, <2>3, HandlerShapes DEF MeasureCommit, TypeOK
    <3> HIDE DEF h
    <3>2. /\ Superseding(evidence[h.ref], h.items) \subseteq evidence'[h.ref]
          /\ \A e \in Decisions \ {h.ref} : evidence'[e] = evidence[e]
      BY <2>0, <3>1, MeasurementCommitted
    <3>3. \A i \in evidence[h.ref] :
             \/ i \in Superseding(evidence[h.ref], h.items)
             \/ i.type = "measurement" /\ [i EXCEPT !.verdict = "superseded"] \in Superseding(evidence[h.ref], h.items)
      BY DEF Superseding
    <3> QED BY <3>2, <3>3
  <2> QED BY <2>1, <2>2, <2>3
<1>2. EvidenceIsKept <=> [][Kept]_evidence
  BY DEF EvidenceIsKept
<1> HIDE DEF Kept
<1> QED BY <1>1, <1>2, RecordsSound, PTL DEF Spec
=============================================================================
