------------------------- MODULE Orchestrator_proofs -------------------------
(***************************************************************************)
(* TLAPS proofs about the orchestrator, for any number of tickets,         *)
(* sessions and timers, any workflow and any capacity.                     *)
(*                                                                         *)
(* The argument: what is in the mailbox about a session says that its      *)
(* worker has ended (MailInv).  So a handler that retries, releases or     *)
(* advances a session never leaves a live agent behind, and since a ticket *)
(* has one session or one retry, none of them can strand its claim.        *)
(***************************************************************************)
EXTENDS Orchestrator, TLAPS

\* What the messages and timers of a session say about its worker.
MailInv ==
    /\ \A s \in Session : down[s] # "none" => s \in Running
    /\ \A s \in worker : cast[s] = "none" /\ down[s] = "none" /\ s \notin downTimers
    /\ \A s \in Running : cast[s] # "none" => down[s] = "normal"
    /\ \A t \in Ticket : pending[t] # NoPending =>
          /\ TicketOf(pending[t].session) = t
          /\ pending[t].session \notin worker

SessionInv ==
    TypeOK /\ OneSessionPerTicket /\ WorkersTracked /\ ClaimsAreOwned /\ MailInv

-----------------------------------------------------------------------------
(* Facts about the operators of the model.                                 *)

\* A session belongs to a ticket.
LEMMA SessionTicket == \A s \in Session : TicketOf(s) \in Ticket
BY DEF Session, TicketOf

\* A generated session id is a session of its ticket that nothing refers to.
LEMMA FreshIsUnused ==
    ASSUME NEW t \in Ticket, HasFreshSession(t)
    PROVE  /\ FreshSession(t) \in Session
           /\ TicketOf(FreshSession(t)) = t
           /\ Unused(FreshSession(t))
<1> DEFINE i == CHOOSE i \in Slot : Unused(<<t, i>>)
<1>1. i \in Slot /\ Unused(<<t, i>>)
  BY DEF HasFreshSession
<1>2. FreshSession(t) = <<t, i>>
  BY DEF FreshSession
<1> HIDE DEF i
<1>3. <<t, i>> \in Session /\ TicketOf(<<t, i>>) = t
  BY <1>1 DEF Session, TicketOf
<1>4. QED
  BY <1>1, <1>2, <1>3

\* A generated token is no token of a timer of its ticket.
LEMMA FreshTokenType ==
    ASSUME NEW t \in Ticket, HasFreshToken(t)
    PROVE  FreshToken(t) \in Token
BY DEF HasFreshToken, FreshToken

\* An entry of the running map is never taken for an empty one.
LEMMA EntryIsEntry ==
    /\ \A e \in Entry : e # NoEntry
    /\ \A p \in Phase, c \in Phase : [phase |-> p, current |-> c] \in Entry
    /\ \A r \in [phase : Phase, token : Token] : r # NoRetry
BY WorkflowAssumption DEF Entry, NoEntry, NoRetry

\* What the running map holds of a running session.
LEMMA RunningEntry ==
    ASSUME TypeOK, NEW s \in Running
    PROVE  s \in Session /\ running[s] \in Entry /\ TicketOf(s) \in Ticket
BY SessionTicket DEF Running, TypeOK

-----------------------------------------------------------------------------
(* What the handlers do to one session.                                    *)

\* A handler takes from the mailbox at most what concerns session s.
Consumes(s) ==
    /\ UNCHANGED candidates
    /\ cast' = cast \/ cast' = [cast EXCEPT ![s] = "none"]
    /\ downTimers' = downTimers \/ downTimers' = downTimers \ {s}
    /\ \/ pending' = pending
       \/ \E t \in Ticket : pending' = [pending EXCEPT ![t] = NoPending]

\* Retrying a session whose worker has ended keeps the invariant.
LEMMA RetryKeeps ==
    ASSUME SessionInv, crash = "no", NEW s \in Running, s \notin worker,
           ScheduleRetry(s), Consumes(s)
    PROVE  SessionInv'
<1> DEFINE t == TicketOf(s)
           k == FreshToken(t)
<1>1. s \in Session /\ running[s] \in Entry /\ t \in Ticket /\ running[s].phase \in Phase
  BY RunningEntry DEF SessionInv, Entry
<1>2. k \in Token
  BY <1>1, FreshTokenType DEF ScheduleRetry
<1> HIDE DEF t, k
<1>3. /\ running' = [running EXCEPT ![s] = NoEntry]
      /\ down' = [down EXCEPT ![s] = "none"]
      /\ claimed' = claimed \union {t}
      /\ retries' = [retries EXCEPT ![t] = [phase |-> running[s].phase, token |-> k]]
      /\ timers' = timers \union {<<t, k>>}
      /\ attempts' = [attempts EXCEPT ![t] = IF @ < MaxAttempt THEN @ + 1 ELSE @]
      /\ UNCHANGED <<tracker, worker, crash>>
  BY DEF ScheduleRetry, t, k
<1>4. Running' = Running \ {s}
  BY <1>1, <1>3 DEF Running, SessionInv, TypeOK
<1>5. /\ Retrying' = Retrying \union {t}
      /\ retries'[t] = [phase |-> running[s].phase, token |-> k]
      /\ \A u \in Ticket \ {t} : retries'[u] = retries[u]
  BY <1>1, <1>2, <1>3, EntryIsEntry DEF Retrying, SessionInv, TypeOK
<1>6. \A r \in Running' : TicketOf(r) # t
  BY <1>4 DEF SessionInv, OneSessionPerTicket, t
<1>7. TypeOK'
  BY <1>1, <1>2, <1>3, BoundsAssumption DEF Consumes, SessionInv, TypeOK, NoEntry, NoPending
<1>8. OneSessionPerTicket' /\ WorkersTracked'
  BY <1>3, <1>4 DEF SessionInv, OneSessionPerTicket, WorkersTracked
<1>9. ClaimsAreOwned'
  <2>1. claimed' = {TicketOf(r) : r \in Running'} \union Retrying'
    BY <1>3, <1>4, <1>5 DEF SessionInv, ClaimsAreOwned, t
  <2>2. ASSUME NEW r \in Running'
        PROVE  /\ TicketOf(r) \notin Retrying'
               /\ r \in worker' \union downTimers' \/ cast'[r] # "none" \/ down'[r] # "none"
    <3>1. r \in Session /\ r # s
      BY <1>4, <2>2, RunningEntry DEF SessionInv
    <3>2. QED
      BY <1>3, <1>4, <1>5, <1>6, <2>2, <3>1
         DEF Consumes, SessionInv, ClaimsAreOwned, TypeOK
  <2>3. \A u \in Retrying' : <<u, retries'[u].token>> \in timers'
    BY <1>3, <1>5 DEF SessionInv, ClaimsAreOwned, Retrying
  <2>4. QED
    BY <2>1, <2>2, <2>3 DEF ClaimsAreOwned
<1>10. MailInv'
  <2>1. \A r \in Session : down'[r] # "none" => r \in Running'
    BY <1>1, <1>3, <1>4 DEF SessionInv, MailInv, TypeOK
  <2>2. \A r \in worker' : cast'[r] = "none" /\ down'[r] = "none" /\ r \notin downTimers'
    BY <1>1, <1>3 DEF Consumes, SessionInv, MailInv, TypeOK
  <2>3. \A r \in Running' : cast'[r] # "none" => down'[r] = "normal"
    BY <1>1, <1>3, <1>4 DEF Consumes, SessionInv, MailInv, TypeOK, Running
  <2>4. \A u \in Ticket : pending'[u] # NoPending =>
           TicketOf(pending'[u].session) = u /\ pending'[u].session \notin worker'
    BY <1>3 DEF Consumes, SessionInv, MailInv, TypeOK
  <2>5. QED
    BY <2>1, <2>2, <2>3, <2>4 DEF MailInv
<1>11. QED
  BY <1>7, <1>8, <1>9, <1>10 DEF SessionInv

\* Releasing the claim of a session whose worker has ended keeps it.
LEMMA ReleaseKeeps ==
    ASSUME SessionInv, crash = "no", NEW s \in Running, s \notin worker,
           ReleaseClaim(s), tracker' \in [Ticket -> {"active", "closed"}], Consumes(s)
    PROVE  SessionInv'
<1> DEFINE t == TicketOf(s)
<1>1. s \in Session /\ t \in Ticket
  BY RunningEntry DEF SessionInv
<1> HIDE DEF t
<1>2. /\ running' = [running EXCEPT ![s] = NoEntry]
      /\ down' = [down EXCEPT ![s] = "none"]
      /\ claimed' = claimed \ {t}
      /\ attempts' = [attempts EXCEPT ![t] = 0]
      /\ UNCHANGED <<worker, retries, timers, crash>>
  BY DEF ReleaseClaim, t
<1>3. Running' = Running \ {s} /\ Retrying' = Retrying
  BY <1>1, <1>2 DEF Running, Retrying, SessionInv, TypeOK
<1>4. t \notin Retrying /\ \A r \in Running' : TicketOf(r) # t
  BY <1>3 DEF SessionInv, OneSessionPerTicket, ClaimsAreOwned, t
<1>5. TypeOK'
  BY <1>1, <1>2, BoundsAssumption DEF Consumes, SessionInv, TypeOK, NoEntry, NoPending
<1>6. OneSessionPerTicket' /\ WorkersTracked'
  BY <1>2, <1>3 DEF SessionInv, OneSessionPerTicket, WorkersTracked
<1>7. ClaimsAreOwned'
  <2>1. claimed' = {TicketOf(r) : r \in Running'} \union Retrying'
    BY <1>2, <1>3, <1>4 DEF SessionInv, ClaimsAreOwned, t
  <2>2. ASSUME NEW r \in Running'
        PROVE  /\ TicketOf(r) \notin Retrying'
               /\ r \in worker' \union downTimers' \/ cast'[r] # "none" \/ down'[r] # "none"
    <3>1. r \in Session /\ r # s
      BY <1>3, <2>2, RunningEntry DEF SessionInv
    <3>2. QED
      BY <1>2, <1>3, <2>2, <3>1 DEF Consumes, SessionInv, ClaimsAreOwned, TypeOK
  <2>3. QED
    BY <1>2, <1>3, <2>1, <2>2 DEF SessionInv, ClaimsAreOwned
<1>8. MailInv'
  <2>1. \A r \in Session : down'[r] # "none" => r \in Running'
    BY <1>1, <1>2, <1>3 DEF SessionInv, MailInv, TypeOK
  <2>2. \A r \in worker' : cast'[r] = "none" /\ down'[r] = "none" /\ r \notin downTimers'
    BY <1>1, <1>2 DEF Consumes, SessionInv, MailInv, TypeOK
  <2>3. \A r \in Running' : cast'[r] # "none" => down'[r] = "normal"
    BY <1>1, <1>2, <1>3 DEF Consumes, SessionInv, MailInv, TypeOK, Running
  <2>4. \A u \in Ticket : pending'[u] # NoPending =>
           TicketOf(pending'[u].session) = u /\ pending'[u].session \notin worker'
    BY <1>2 DEF Consumes, SessionInv, MailInv, TypeOK
  <2>5. QED
    BY <2>1, <2>2, <2>3, <2>4 DEF MailInv
<1>9. QED
  BY <1>5, <1>6, <1>7, <1>8 DEF SessionInv

\* Going on to the next phase once the worker has ended keeps it.
LEMMA AdvanceKeeps ==
    ASSUME SessionInv, crash = "no", NEW s \in Running, s \notin worker,
           AdvanceMap[running[s].phase] \in Phase, StartNextPhase(s), Consumes(s)
    PROVE  SessionInv'
<1> DEFINE t == TicketOf(s)
           new == FreshSession(t)
           next == AdvanceMap[running[s].phase]
<1>1. s \in Session /\ t \in Ticket /\ running[s] \in Entry
  BY RunningEntry DEF SessionInv
<1>2. new \in Session /\ TicketOf(new) = t /\ Unused(new)
  BY <1>1, FreshIsUnused DEF StartNextPhase
<1>3. next \in Phase
  OBVIOUS
<1> HIDE DEF t, new, next
<1>4. /\ running' = [running EXCEPT ![s] = NoEntry,
                                  ![new] = [phase |-> next, current |-> next]]
      /\ down' = [down EXCEPT ![s] = "none"]
      /\ claimed' = claimed \union {t}
      /\ attempts' = [attempts EXCEPT ![t] = 0]
      /\ worker' = worker \union {new}
      /\ UNCHANGED <<tracker, retries, timers, crash>>
  BY DEF StartNextPhase, t, new, next
<1>5. /\ new \notin Running /\ new \notin worker /\ new \notin downTimers
      /\ cast[new] = "none" /\ down[new] = "none" /\ new # s
      /\ pending[t] # NoPending => pending[t].session # new
  BY <1>2 DEF Unused, Running, SessionInv, MailInv
<1>6. /\ Running' = (Running \ {s}) \union {new}
      /\ Retrying' = Retrying
  BY <1>1, <1>2, <1>3, <1>4, <1>5, EntryIsEntry DEF Running, Retrying, SessionInv, TypeOK
<1>7. t \notin Retrying /\ \A r \in Running \ {s} : TicketOf(r) # t
  BY DEF SessionInv, OneSessionPerTicket, ClaimsAreOwned, t
<1>8. TypeOK'
  <2>1. running' \in [Session -> Entry \union {NoEntry}]
    BY <1>1, <1>2, <1>3, <1>4, EntryIsEntry DEF SessionInv, TypeOK
  <2>2. QED
    BY <1>1, <1>2, <1>4, <2>1, BoundsAssumption
       DEF Consumes, SessionInv, TypeOK, NoPending
<1>9. OneSessionPerTicket' /\ WorkersTracked'
  BY <1>2, <1>4, <1>6, <1>7 DEF SessionInv, OneSessionPerTicket, WorkersTracked
<1>10. ClaimsAreOwned'
  <2>1. claimed' = {TicketOf(r) : r \in Running'} \union Retrying'
    BY <1>2, <1>4, <1>6, <1>7 DEF SessionInv, ClaimsAreOwned, t
  <2>2. ASSUME NEW r \in Running'
        PROVE  /\ TicketOf(r) \notin Retrying'
               /\ r \in worker' \union downTimers' \/ cast'[r] # "none" \/ down'[r] # "none"
    <3>1. CASE r = new
      BY <1>2, <1>4, <1>6, <1>7, <3>1
    <3>2. CASE r # new
      <4>1. r \in Session /\ r \in Running /\ r # s
        BY <1>5, <1>6, <2>2, <3>2, RunningEntry DEF SessionInv
      <4>2. QED
        BY <1>4, <1>6, <4>1 DEF Consumes, SessionInv, ClaimsAreOwned, TypeOK
    <3>3. QED
      BY <3>1, <3>2
  <2>3. QED
    BY <1>4, <1>6, <2>1, <2>2 DEF SessionInv, ClaimsAreOwned
<1>11. MailInv'
  <2>1. \A r \in Session : down'[r] # "none" => r \in Running'
    BY <1>1, <1>4, <1>6 DEF SessionInv, MailInv, TypeOK
  <2>2. \A r \in worker' : cast'[r] = "none" /\ down'[r] = "none" /\ r \notin downTimers'
    BY <1>1, <1>2, <1>4, <1>5 DEF Consumes, SessionInv, MailInv, TypeOK
  <2>3. \A r \in Running' : cast'[r] # "none" => down'[r] = "normal"
    BY <1>1, <1>2, <1>4, <1>5, <1>6 DEF Consumes, SessionInv, MailInv, TypeOK, Running
  <2>4. ASSUME NEW u \in Ticket, pending'[u] # NoPending
        PROVE  TicketOf(pending'[u].session) = u /\ pending'[u].session \notin worker'
    <3>1. pending'[u] = pending[u]
      BY <2>4 DEF Consumes, SessionInv, TypeOK
    <3>2. TicketOf(pending[u].session) = u /\ pending[u].session \notin worker
      BY <2>4, <3>1 DEF SessionInv, MailInv
    <3>3. pending[u].session # new
      BY <1>2, <1>5, <2>4, <3>1, <3>2
    <3>4. QED
      BY <1>4, <3>1, <3>2, <3>3
  <2>5. QED
    BY <2>1, <2>2, <2>3, <2>4 DEF MailInv
<1>12. QED
  BY <1>8, <1>9, <1>10, <1>11 DEF SessionInv

\* A message that changes no session, or whose handling raises, keeps it.
LEMMA IgnoreKeeps ==
    ASSUME SessionInv, NEW s \in Session, Consumes(s),
           UNCHANGED <<tracker, running, down, claimed, attempts, worker, retries, timers>>,
           \/ UNCHANGED crash /\ (s \notin Running \/ UNCHANGED <<cast, downTimers>>)
           \/ crash' \in {"phase_mismatch", "rejection", "haft_timeout"}
    PROVE  SessionInv'
<1>1. Running' = Running /\ Retrying' = Retrying
  BY DEF Running, Retrying
<1>2. TypeOK'
  BY DEF Consumes, SessionInv, TypeOK, NoPending
<1>3. OneSessionPerTicket' /\ WorkersTracked'
  BY <1>1 DEF SessionInv, OneSessionPerTicket, WorkersTracked
<1>4. ClaimsAreOwned'
  BY <1>1, RunningEntry DEF Consumes, SessionInv, ClaimsAreOwned, TypeOK
<1>5. MailInv'
  BY <1>1, RunningEntry DEF Consumes, SessionInv, MailInv, WorkersTracked, TypeOK
<1>6. QED
  BY <1>2, <1>3, <1>4, <1>5 DEF SessionInv

\* Handling the outcome of a session whose worker has ended keeps it.
LEMMA OutcomeKeeps ==
    ASSUME SessionInv, crash = "no", NEW s \in Running, s \notin worker,
           NEW result \in Results, HandleOutcome(s, result), Consumes(s)
    PROVE  SessionInv'
<1>1. s \in Session /\ running[s] \in Entry /\ TicketOf(s) \in Ticket
  BY RunningEntry DEF SessionInv
<1>2. CASE ScheduleRetry(s)
  BY <1>2, RetryKeeps
<1>3. CASE Decision(running[s].phase, result) = "advance" /\ AdvanceToNextPhase(s)
  <2>1. AdvanceMap[running[s].phase] \in Phase
    BY <1>1, <1>3, WorkflowAssumption DEF Decision, Entry
  <2>2. CASE Crash("phase_mismatch")
    BY <1>1, <2>2, IgnoreKeeps DEF Crash
  <2>3. CASE StartNextPhase(s)
    BY <2>1, <2>3, AdvanceKeeps
  <2>4. CASE ReleaseClaim(s) /\ UNCHANGED tracker
    BY <2>4, ReleaseKeeps DEF SessionInv, TypeOK
  <2>5. QED
    BY <1>3, <2>2, <2>3, <2>4 DEF AdvanceToNextPhase
<1>4. CASE MayClose(TicketOf(s)) /\ ReleaseClaim(s)
  <2>1. tracker' \in [Ticket -> {"active", "closed"}]
    BY <1>1, <1>4 DEF MayClose, SessionInv, TypeOK
  <2>2. QED
    BY <1>4, <2>1, ReleaseKeeps
<1>5. QED
  BY <1>2, <1>3, <1>4 DEF HandleOutcome

-----------------------------------------------------------------------------
(* Every step keeps the invariant.                                         *)

\* An orchestrator that has just started tracks nothing.
LEMMA InitSessionInv == Init => SessionInv
<1> SUFFICES ASSUME Init PROVE SessionInv
  OBVIOUS
<1>1. Running = {} /\ Retrying = {}
  BY DEF Init, Running, Retrying
<1>2. TypeOK
  BY BoundsAssumption DEF Init, TypeOK
<1>3. QED
  BY <1>1, <1>2 DEF SessionInv, Init, OneSessionPerTicket, WorkersTracked,
                    ClaimsAreOwned, MailInv

\* The tracker and the poller touch nothing the invariant relates.
LEMMA TrackerKeeps ==
    ASSUME SessionInv,
           Poll \/ \E t \in Ticket : Seed(t) \/ CloseExternally(t)
    PROVE  SessionInv'
<1>1. /\ tracker' \in [Ticket -> {"active", "closed"}]
      /\ candidates' \subseteq Ticket
      /\ UNCHANGED <<claimed, running, worker, cast, down, downTimers, pending,
                     retries, timers, attempts, crash>>
  BY DEF Poll, Seed, CloseExternally, SessionInv, TypeOK
<1>2. Running' = Running /\ Retrying' = Retrying
  BY <1>1 DEF Running, Retrying
<1>3. QED
  BY <1>1, <1>2 DEF SessionInv, TypeOK, OneSessionPerTicket, WorkersTracked,
                    ClaimsAreOwned, MailInv

\* Dispatching tickets that are not claimed keeps it, whatever list they were in.
LEMMA CandidatesKeeps == ASSUME SessionInv, Candidates PROVE SessionInv'
<1>1. PICK D \in Dispatchable(candidates) :
         LET started == {FreshSession(t) : t \in D} IN
         /\ \A t \in D : HasFreshSession(t)
         /\ running' = [s \in Session |->
                          IF s \in started
                            THEN [phase |-> EntryPhase, current |-> EntryPhase]
                            ELSE running[s]]
         /\ worker' = worker \union started
         /\ claimed' = claimed \union D
  BY DEF Candidates
<1> DEFINE started == {FreshSession(t) : t \in D}
<1>2. D \subseteq Ticket /\ D \intersect claimed = {} /\ crash = "no"
  BY DEF Dispatchable, Candidates, SessionInv, TypeOK
<1>3. \A t \in D : /\ FreshSession(t) \in Session
                   /\ TicketOf(FreshSession(t)) = t
                   /\ Unused(FreshSession(t))
  BY <1>1, <1>2, FreshIsUnused
<1>4. \A s \in started :
         /\ s \in Session /\ TicketOf(s) \in D /\ Unused(s)
         /\ s = FreshSession(TicketOf(s))
  BY <1>3
<1>5. \A t \in D : \E s \in started : TicketOf(s) = t
  BY <1>3
<1>6. /\ running' = [s \in Session |->
                       IF s \in started
                         THEN [phase |-> EntryPhase, current |-> EntryPhase]
                         ELSE running[s]]
      /\ worker' = worker \union started
      /\ claimed' = claimed \union D
      /\ candidates' = {}
      /\ UNCHANGED <<tracker, cast, down, downTimers, pending, retries, timers,
                     attempts, crash>>
  BY <1>1 DEF Candidates
<1> HIDE DEF started
<1>7. /\ Running' = Running \union started
      /\ Retrying' = Retrying
  <2>1. [phase |-> EntryPhase, current |-> EntryPhase] # NoEntry
    BY WorkflowAssumption, EntryIsEntry
  <2>2. QED
    BY <1>4, <1>6, <2>1 DEF Running, Retrying
<1>8. /\ \A s \in Running : TicketOf(s) \notin D
      /\ \A t \in D : t \notin Retrying
  BY <1>2 DEF SessionInv, ClaimsAreOwned
<1>9. TypeOK'
  <2>1. running' \in [Session -> Entry \union {NoEntry}]
    BY <1>6, WorkflowAssumption, EntryIsEntry DEF SessionInv, TypeOK
  <2>2. QED
    BY <1>2, <1>4, <1>6, <2>1 DEF SessionInv, TypeOK
<1>10. OneSessionPerTicket' /\ WorkersTracked'
  BY <1>4, <1>6, <1>7, <1>8 DEF SessionInv, OneSessionPerTicket, WorkersTracked
<1>11. ClaimsAreOwned'
  <2>1. claimed' = {TicketOf(s) : s \in Running'} \union Retrying'
    BY <1>2, <1>4, <1>5, <1>6, <1>7 DEF SessionInv, ClaimsAreOwned
  <2>2. \A s \in Running' :
           /\ TicketOf(s) \notin Retrying'
           /\ s \in worker' \union downTimers' \/ cast'[s] # "none" \/ down'[s] # "none"
    BY <1>2, <1>4, <1>6, <1>7, <1>8 DEF SessionInv, ClaimsAreOwned
  <2>3. QED
    BY <1>2, <1>6, <1>7, <2>1, <2>2 DEF SessionInv, ClaimsAreOwned
<1>12. MailInv'
  <2>1. \A s \in started : /\ cast[s] = "none" /\ down[s] = "none" /\ s \notin downTimers
                           /\ pending[TicketOf(s)] # NoPending =>
                                pending[TicketOf(s)].session # s
    BY <1>4 DEF Unused, SessionInv, MailInv, Running
  <2>2. \A t \in Ticket : pending[t] # NoPending => pending[t].session \notin started
    BY <2>1 DEF SessionInv, MailInv
  <2>3. QED
    BY <1>6, <1>7, <2>1, <2>2 DEF SessionInv, MailInv
<1>13. QED
  BY <1>9, <1>10, <1>11, <1>12 DEF SessionInv

\* The end of a worker puts its messages into the mailbox.
LEMMA WorkerKeeps ==
    ASSUME SessionInv, NEW s \in Session, WorkerReports(s) \/ WorkerCrashes(s)
    PROVE  SessionInv'
<1>1. s \in Running /\ s \in worker /\ down[s] = "none"
  BY DEF WorkerReports, WorkerCrashes, SessionInv, WorkersTracked, MailInv
<1>2. /\ Running' = Running /\ Retrying' = Retrying
      /\ worker' = worker \ {s}
      /\ UNCHANGED <<tracker, candidates, claimed, running, downTimers, pending,
                     retries, timers, attempts, crash>>
  BY DEF WorkerReports, WorkerCrashes, Running, Retrying
<1>3. /\ \/ down' = [down EXCEPT ![s] = "normal"]
         \/ down' = [down EXCEPT ![s] = "crash"] /\ cast' = cast
      /\ \/ cast' = cast
         \/ \E m \in Results \union {"await_pass", "await_block", "error", "terminal_error"} :
               cast' = [cast EXCEPT ![s] = m]
  BY DEF WorkerReports, WorkerCrashes
<1>4. TypeOK'
  BY <1>2, <1>3 DEF SessionInv, TypeOK
<1>5. OneSessionPerTicket' /\ WorkersTracked'
  BY <1>2 DEF SessionInv, OneSessionPerTicket, WorkersTracked
<1>6. /\ down'[s] # "none"
      /\ cast'[s] # "none" => down'[s] = "normal"
      /\ \A r \in Session \ {s} : down'[r] = down[r] /\ cast'[r] = cast[r]
  BY <1>1, <1>3 DEF SessionInv, TypeOK, MailInv
<1>7. ClaimsAreOwned'
  <2>1. \A r \in Running :
           crash = "no" =>
             r \in worker' \union downTimers \/ cast'[r] # "none" \/ down'[r] # "none"
    BY <1>2, <1>6, RunningEntry DEF SessionInv, ClaimsAreOwned
  <2>2. QED
    BY <1>2, <2>1 DEF SessionInv, ClaimsAreOwned
<1>8. MailInv'
  BY <1>1, <1>2, <1>6, RunningEntry DEF SessionInv, MailInv, WorkersTracked
<1>9. QED
  BY <1>4, <1>5, <1>7, <1>8 DEF SessionInv

\* The cast of a worker is handled: its worker has ended, and its DOWN is there.
LEMMA CastKeeps ==
    ASSUME SessionInv, NEW s \in Session, HandleCast(s)
    PROVE  SessionInv'
<1>1. crash = "no" /\ s \notin worker /\ cast' = [cast EXCEPT ![s] = "none"]
      /\ UNCHANGED <<candidates, downTimers>>
  BY DEF HandleCast, SessionInv, MailInv
<1>2. CASE s \notin Running
  BY <1>1, <1>2, IgnoreKeeps DEF HandleCast, Ignore, Consumes
<1>3. CASE s \in Running /\ cast[s] \in Results /\ HandleOutcome(s, cast[s]) /\ UNCHANGED pending
  BY <1>1, <1>3, OutcomeKeeps DEF Consumes
<1>4. CASE s \in Running /\ ScheduleRetry(s) /\ UNCHANGED pending
  BY <1>1, <1>4, RetryKeeps DEF Consumes
<1>5. CASE s \in Running /\ MayClose(TicketOf(s)) /\ ReleaseClaim(s) /\ UNCHANGED pending
  <2>1. tracker' \in [Ticket -> {"active", "closed"}]
    BY <1>5, SessionTicket DEF MayClose, SessionInv, TypeOK
  <2>2. QED
    BY <1>1, <1>5, <2>1, ReleaseKeeps DEF Consumes
<1>6. ASSUME s \in Running, NEW result \in Results, ParkHumanGate(s, result)
      PROVE  SessionInv'
  <2> USE DEF ParkHumanGate
  <2>1. Running' = Running /\ Retrying' = Retrying
    BY <1>6 DEF Ignore, Running, Retrying
  <2>2. cast[s] # "none" /\ down[s] = "normal" /\ TicketOf(s) \in Ticket
    BY <1>6, SessionTicket DEF HandleCast, SessionInv, MailInv
  <2>3. /\ pending'[TicketOf(s)] = [session |-> s, result |-> result]
        /\ \A t \in Ticket \ {TicketOf(s)} : pending'[t] = pending[t]
    BY <1>6, <2>2 DEF SessionInv, TypeOK
  <2>4. TypeOK'
    BY <1>1, <1>6, <2>2 DEF Ignore, SessionInv, TypeOK
  <2>5. OneSessionPerTicket' /\ WorkersTracked'
    BY <1>6, <2>1 DEF Ignore, SessionInv, OneSessionPerTicket, WorkersTracked
  <2>6. ClaimsAreOwned'
    BY <1>1, <1>6, <2>1, <2>2, RunningEntry DEF Ignore, SessionInv, ClaimsAreOwned, TypeOK
  <2>7. MailInv'
    <3>1. \A t \in Ticket : pending'[t] # NoPending =>
             TicketOf(pending'[t].session) = t /\ pending'[t].session \notin worker'
      BY <1>1, <1>6, <2>3 DEF Ignore, SessionInv, MailInv
    <3>2. QED
      BY <1>1, <1>6, <2>1, <3>1, RunningEntry DEF Ignore, SessionInv, MailInv, TypeOK, WorkersTracked
  <2>8. QED
    BY <2>4, <2>5, <2>6, <2>7 DEF SessionInv
<1>7. QED
  BY <1>2, <1>3, <1>4, <1>5, <1>6 DEF HandleCast, Results

\* The DOWN signal of a worker and the timer it starts.
LEMMA DownKeeps ==
    ASSUME SessionInv, NEW s \in Session, HandleDown(s) \/ NormalWorkerDown(s)
    PROVE  SessionInv'
<1>1. s \notin worker /\ crash = "no"
  BY DEF HandleDown, NormalWorkerDown, SessionInv, MailInv
<1>2. CASE HandleDown(s) /\ down[s] = "crash"
  <2>1. s \in Running
    BY <1>2 DEF SessionInv, MailInv
  <2>2. QED
    BY <1>1, <1>2, <2>1, RetryKeeps DEF HandleDown, Consumes
<1>3. CASE HandleDown(s) /\ down[s] = "normal"
  <2>1. /\ down' = [down EXCEPT ![s] = "none"]
        /\ downTimers' = downTimers \union {s}
        /\ UNCHANGED <<tracker, running, claimed, attempts, worker, retries, timers, crash,
                       candidates, cast, pending>>
        /\ cast[s] = "none"
    BY <1>3 DEF HandleDown
  <2>2. Running' = Running /\ Retrying' = Retrying
    BY <2>1 DEF Running, Retrying
  <2>3. TypeOK'
    BY <2>1 DEF SessionInv, TypeOK
  <2>4. OneSessionPerTicket' /\ WorkersTracked'
    BY <2>1, <2>2 DEF SessionInv, OneSessionPerTicket, WorkersTracked
  <2>5. ClaimsAreOwned'
    BY <1>1, <2>1, <2>2, RunningEntry DEF SessionInv, ClaimsAreOwned, TypeOK
  <2>6. MailInv'
    BY <1>1, <2>1, <2>2, RunningEntry DEF SessionInv, MailInv, TypeOK, WorkersTracked
  <2>7. QED
    BY <2>3, <2>4, <2>5, <2>6 DEF SessionInv
<1>4. CASE NormalWorkerDown(s) /\ s \in Running
  BY <1>1, <1>4, RetryKeeps DEF NormalWorkerDown, Consumes
<1>5. CASE NormalWorkerDown(s) /\ s \notin Running
  BY <1>5, IgnoreKeeps DEF NormalWorkerDown, Ignore, Consumes
<1>6. QED
  BY <1>2, <1>3, <1>4, <1>5 DEF HandleDown

\* A retry timer: its ticket has no session, so that it may be dispatched.
LEMMA TimerKeeps ==
    ASSUME SessionInv, NEW t \in Ticket, NEW k \in Token, RetryTimer(t, k)
    PROVE  SessionInv'
<1>1. /\ crash = "no"
      /\ timers' = timers \ {<<t, k>>}
      /\ UNCHANGED <<tracker, candidates, cast, down, downTimers, pending, crash>>
      /\ attempts' \in [Ticket -> 0..MaxAttempt]
  BY BoundsAssumption DEF RetryTimer, SessionInv, TypeOK
<1>2. CASE /\ retries[t] # NoRetry => retries[t].token # k
           /\ UNCHANGED <<retries, claimed, running, worker, attempts>>
  <2>1. Running' = Running /\ Retrying' = Retrying
    BY <1>2 DEF Running, Retrying
  <2>2. \A u \in Retrying : <<u, retries[u].token>> \in timers'
    BY <1>1, <1>2 DEF SessionInv, ClaimsAreOwned, Retrying
  <2>3. QED
    BY <1>1, <1>2, <2>1, <2>2 DEF SessionInv, TypeOK, OneSessionPerTicket,
                                  WorkersTracked, ClaimsAreOwned, MailInv
<1>3. CASE t \in Retrying /\ ClearRetry(t)
  <2>1. /\ Running' = Running /\ Retrying' = Retrying \ {t}
        /\ \A u \in Ticket \ {t} : retries'[u] = retries[u]
        /\ claimed' = claimed \ {t}
        /\ UNCHANGED <<running, worker>>
    BY <1>3 DEF ClearRetry, Running, Retrying, SessionInv, TypeOK
  <2>2. \A s \in Running : TicketOf(s) # t
    BY <1>1, <1>3 DEF SessionInv, ClaimsAreOwned
  <2>3. TypeOK'
    BY <1>1, <1>3, <2>1 DEF ClearRetry, SessionInv, TypeOK
  <2>4. ClaimsAreOwned'
    <3>1. claimed' = {TicketOf(s) : s \in Running'} \union Retrying'
      BY <1>1, <2>1, <2>2 DEF SessionInv, ClaimsAreOwned
    <3>2. \A u \in Retrying' : <<u, retries'[u].token>> \in timers'
      BY <1>1, <2>1 DEF SessionInv, ClaimsAreOwned, Retrying
    <3>3. QED
      BY <1>1, <2>1, <3>1, <3>2 DEF SessionInv, ClaimsAreOwned
  <2>5. QED
    BY <1>1, <2>1, <2>3, <2>4 DEF SessionInv, OneSessionPerTicket, WorkersTracked, MailInv
<1>4. CASE t \in Retrying /\ Redispatch(t)
  <2> DEFINE new == FreshSession(t)
             entry == [phase |-> retries[t].phase, current |-> EntryPhase]
  <2>1. new \in Session /\ TicketOf(new) = t /\ Unused(new)
    BY <1>4, FreshIsUnused DEF Redispatch
  <2>2. entry \in Entry
    BY <1>4, WorkflowAssumption DEF Retrying, SessionInv, TypeOK, Entry
  <2>3. /\ running' = [running EXCEPT ![new] = entry]
        /\ worker' = worker \union {new}
        /\ claimed' = claimed \union {t}
        /\ retries' = [retries EXCEPT ![t] = NoRetry]
    BY <1>4 DEF Redispatch
  <2> HIDE DEF new, entry
  <2>4. /\ new \notin Running /\ new \notin worker /\ new \notin downTimers
        /\ cast[new] = "none" /\ down[new] = "none"
        /\ pending[t] # NoPending => pending[t].session # new
    BY <2>1 DEF Unused, Running, SessionInv, MailInv
  <2>5. /\ Running' = Running \union {new} /\ Retrying' = Retrying \ {t}
        /\ \A u \in Ticket \ {t} : retries'[u] = retries[u]
    BY <2>1, <2>2, <2>3, EntryIsEntry DEF Running, Retrying, SessionInv, TypeOK
  <2>6. \A s \in Running : TicketOf(s) # t
    BY <1>1, <1>4 DEF SessionInv, ClaimsAreOwned
  <2>7. TypeOK'
    BY <1>1, <2>1, <2>2, <2>3 DEF SessionInv, TypeOK
  <2>8. OneSessionPerTicket' /\ WorkersTracked'
    BY <2>1, <2>3, <2>5, <2>6 DEF SessionInv, OneSessionPerTicket, WorkersTracked
  <2>9. ClaimsAreOwned'
    <3>1. claimed' = {TicketOf(s) : s \in Running'} \union Retrying'
      BY <1>1, <2>1, <2>3, <2>5 DEF SessionInv, ClaimsAreOwned
    <3>2. \A u \in Retrying' : <<u, retries'[u].token>> \in timers'
      BY <1>1, <2>5 DEF SessionInv, ClaimsAreOwned, Retrying
    <3>3. \A s \in Running' :
             /\ TicketOf(s) \notin Retrying'
             /\ s \in worker' \union downTimers' \/ cast'[s] # "none" \/ down'[s] # "none"
      BY <1>1, <2>1, <2>3, <2>5, <2>6 DEF SessionInv, ClaimsAreOwned
    <3>4. QED
      BY <3>1, <3>2, <3>3 DEF ClaimsAreOwned
  <2>10. MailInv'
    <3>1. \A u \in Ticket : pending[u] # NoPending => pending[u].session # new
      BY <2>1, <2>4 DEF SessionInv, MailInv
    <3>2. QED
      BY <1>1, <2>3, <2>4, <2>5, <3>1 DEF SessionInv, MailInv
  <2>11. QED
    BY <2>7, <2>8, <2>9, <2>10 DEF SessionInv
<1>5. QED
  BY <1>2, <1>3, <1>4 DEF RetryTimer, Retrying

\* Approvals, rejections and timeouts of a human gate, late ones included.
LEMMA HumanKeeps ==
    ASSUME SessionInv, NEW t \in Ticket,
           HumanApproval(t) \/ HumanRejection(t) \/ HumanTimeout(t)
    PROVE  SessionInv'
<1> DEFINE s == pending[t].session
<1>1. /\ crash = "no" /\ s \in Session /\ s \notin worker
      /\ pending[t].result \in Results
  BY DEF HumanApproval, HumanRejection, HumanTimeout, SessionInv, TypeOK, MailInv
<1>2. Consumes(s)
  BY DEF HumanApproval, HumanRejection, HumanTimeout, PopPending, Consumes
<1>3. UNCHANGED <<cast, downTimers>>
  BY DEF HumanApproval, HumanRejection, HumanTimeout
<1>4. CASE Ignore
  BY <1>1, <1>2, <1>3, <1>4, IgnoreKeeps DEF Ignore
<1>5. CASE Crash("rejection")
  BY <1>1, <1>2, <1>5, IgnoreKeeps DEF Crash
<1>6. CASE s \in Running /\ HandleOutcome(s, pending[t].result)
  BY <1>1, <1>2, <1>6, OutcomeKeeps
<1>7. CASE s \in Running /\ ReleaseClaim(s) /\ UNCHANGED tracker
  BY <1>1, <1>2, <1>7, ReleaseKeeps DEF SessionInv, TypeOK
<1>8. QED
  BY <1>4, <1>5, <1>6, <1>7 DEF HumanApproval, HumanRejection, HumanTimeout

\* An abort forgets every session and reaches every worker.
LEMMA AbortKeeps == ASSUME SessionInv, AbortActive PROVE SessionInv'
<1>1. Running' = {} /\ Retrying' = {} /\ worker' = {} /\ claimed' = {}
  BY DEF AbortActive, Running, Retrying, SessionInv, WorkersTracked
<1>2. TypeOK'
  BY <1>1, BoundsAssumption DEF AbortActive, SessionInv, TypeOK
<1>3. MailInv'
  BY <1>1 DEF AbortActive, SessionInv, MailInv
<1>4. QED
  BY <1>1, <1>2, <1>3 DEF SessionInv, OneSessionPerTicket, WorkersTracked, ClaimsAreOwned

\* A handler that raises, and a step of something else.
LEMMA QuietKeeps ==
    ASSUME SessionInv, HaftTimeout \/ UNCHANGED vars
    PROVE  SessionInv'
<1>1. /\ UNCHANGED <<tracker, candidates, claimed, running, worker, cast, down, downTimers,
                     pending, retries, timers, attempts>>
      /\ crash' \in {crash, "haft_timeout"}
  BY DEF HaftTimeout, Crash, vars
<1>2. Running' = Running /\ Retrying' = Retrying
  BY <1>1 DEF Running, Retrying
<1>3. QED
  BY <1>1, <1>2 DEF SessionInv, TypeOK, OneSessionPerTicket, WorkersTracked,
                    ClaimsAreOwned, MailInv

\* Every handler, worker, timer, signal and poll keeps the invariant.
LEMMA StepSessionInv == SessionInv /\ [Next]_vars => SessionInv'
<1> SUFFICES ASSUME SessionInv, [Next]_vars PROVE SessionInv'
  OBVIOUS
<1>1. CASE \E t \in Ticket : Seed(t) \/ CloseExternally(t)
  BY <1>1, TrackerKeeps
<1>2. CASE Poll
  BY <1>2, TrackerKeeps
<1>3. CASE Candidates
  BY <1>3, CandidatesKeeps
<1>4. CASE \E t \in Ticket : HumanApproval(t) \/ HumanRejection(t) \/ HumanTimeout(t)
  BY <1>4, HumanKeeps
<1>5. CASE \E t \in Ticket, k \in Token : RetryTimer(t, k)
  BY <1>5, TimerKeeps
<1>6. CASE \E s \in Session : WorkerReports(s) \/ WorkerCrashes(s)
  BY <1>6, WorkerKeeps
<1>7. CASE \E s \in Session : HandleCast(s)
  BY <1>7, CastKeeps
<1>8. CASE \E s \in Session : HandleDown(s) \/ NormalWorkerDown(s)
  BY <1>8, DownKeeps
<1>9. CASE AbortActive
  BY <1>9, AbortKeeps
<1>10. CASE HaftTimeout \/ UNCHANGED vars
  BY <1>10, QuietKeeps
<1>11. QED
  BY <1>1, <1>2, <1>3, <1>4, <1>5, <1>6, <1>7, <1>8, <1>9, <1>10 DEF Next

-----------------------------------------------------------------------------
(* Theorems.                                                               *)

\* Every state of the orchestrator is well typed: in particular a session is
\* never at the terminal phase, and a retry never of no phase.
THEOREM TypeCorrect == Spec => []TypeOK
<1>1. SessionInv => TypeOK
  BY DEF SessionInv
<1>2. QED
  BY InitSessionInv, StepSessionInv, <1>1, PTL DEF Spec

\* A ticket never has two sessions, for any number of tickets and any order of
\* messages, timers and signals.
THEOREM OneSession == Spec => []OneSessionPerTicket
<1>1. SessionInv => OneSessionPerTicket
  BY DEF SessionInv
<1>2. QED
  BY InitSessionInv, StepSessionInv, <1>1, PTL DEF Spec

\* No agent works for a session the orchestrator has forgotten.
THEOREM NoStrayWorker == Spec => []WorkersTracked
<1>1. SessionInv => WorkersTracked
  BY DEF SessionInv
<1>2. QED
  BY InitSessionInv, StepSessionInv, <1>1, PTL DEF Spec

\* No claim is stranded: a claimed ticket has a session or a retry, and each of
\* these a worker, a message or a timer that will end it.
THEOREM NoStrandedClaim == Spec => []ClaimsAreOwned
<1>1. SessionInv => ClaimsAreOwned
  BY DEF SessionInv
<1>2. QED
  BY InitSessionInv, StepSessionInv, <1>1, PTL DEF Spec

=============================================================================
