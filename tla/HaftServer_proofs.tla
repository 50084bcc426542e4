------------------------- MODULE HaftServer_proofs --------------------------
(***************************************************************************)
(* TLAPS proofs about the connection to Haft and its write-ahead log, for  *)
(* any tickets and requests, any threshold and any length of the pipe.     *)
(*                                                                         *)
(* The argument: an answer in the mailbox says that its request was        *)
(* carried out (AnswersAreOfCarried), whichever of the server's timeouts,  *)
(* restarts and replays it has survived, and a replay knows its place in a *)
(* file that nobody appends to meanwhile (ReplayHasPlace).                 *)
(***************************************************************************)
EXTENDS HaftServer, SequenceTheorems, TLAPS

\* A message of the port that is a request's id is the answer to a request that
\* Haft has seen to.
AnswersAreOfCarried ==
    \A i \in DOMAIN mailbox : mailbox[i] \in Write => mailbox[i] \in applied

\* A replay is at a line of its file, and waits for the answer to that line.
ReplayHasPlace ==
    /\ waiting.for \in {"replay_line", "replay"} => waiting.line \in DOMAIN wal[waiting.file]
    /\ waiting.for = "replay" => waiting.id = wal[waiting.file][waiting.line]

\* The inductive invariant.
HaftInv ==
    /\ TypeOK /\ AnswersAreOfCarried /\ ReplayHasPlace
    /\ StoredNotLost /\ OkMeansApplied /\ ReplayInOrder

-----------------------------------------------------------------------------
(* Facts about the operators of the model.                                 *)

\* What the server waits for has the shape its kind says.
LEMMA WaitingShape ==
    ASSUME TypeOK
    PROVE  /\ waiting.for \in {"idle", "ping", "dispatch", "replay_line", "replay"}
           /\ waiting.for = "dispatch" => waiting.id \in Write
           /\ waiting.for = "ping" => waiting.id = "ping"
           /\ waiting.for \in {"replay_line", "replay"} =>
                 waiting.file \in Ticket /\ waiting.line \in Nat \ {0}
BY DEF TypeOK, Idle, Pinging, Dispatching

\* The queues a step starts anew.
LEMMA NewQueues ==
    /\ <<>> \in Seq(Messages) /\ Len(<<>>) = 0
    /\ <<"old">> \in Seq(Messages) /\ Len(<<"old">>) = 1
BY DEF Messages

\* Taking the first message off a queue.
LEMMA TailOfQueue ==
    ASSUME NEW S, NEW q \in Seq(S), q # <<>>
    PROVE  /\ Head(q) \in S /\ Tail(q) \in Seq(S)
           /\ 1 \in DOMAIN q /\ Head(q) = q[1]
           /\ Len(q) \in Nat /\ Len(Tail(q)) = Len(q) - 1
           /\ \A i \in DOMAIN Tail(q) : i + 1 \in DOMAIN q /\ Tail(q)[i] = q[i + 1]
OBVIOUS

\* Putting a message into a queue.
LEMMA AppendToQueue ==
    ASSUME NEW S, NEW q \in Seq(S), NEW m \in S
    PROVE  /\ Append(q, m) \in Seq(S)
           /\ Len(q) \in Nat /\ Len(Append(q, m)) = Len(q) + 1
           /\ \A i \in DOMAIN q : i \in DOMAIN Append(q, m) /\ Append(q, m)[i] = q[i]
           /\ \A i \in DOMAIN Append(q, m) : i \in DOMAIN q \/ Append(q, m)[i] = m
           /\ Len(q) + 1 \in DOMAIN Append(q, m) /\ Append(q, m)[Len(q) + 1] = m
OBVIOUS

\* A timeout keeps what is in the pipe, but for the ids of pings.
LEMMA ForgetKeeps ==
    ASSUME NEW q \in Seq(Messages)
    PROVE  Forget(q) \in Seq(Messages) /\ Len(Forget(q)) = Len(q)
<1>1. DOMAIN Forget(q) = 1..Len(q) /\ Len(q) \in Nat
  BY DEF Forget
<1>2. \A i \in 1..Len(q) : Forget(q)[i] \in Messages
  BY DEF Forget, Messages
<1>3. Forget(q) \in [1..Len(q) -> Messages]
  BY <1>1, <1>2 DEF Forget
<1>4. QED
  BY <1>3, <1>1, SeqDef, LenProperties

\* A request stays stored when a line is appended to its file.
LEMMA AppendWalKeeps ==
    ASSUME TypeOK, StoredNotLost, NEW w \in Write, AppendWal(w), applied' = applied
    PROVE  /\ wal' \in [Ticket -> Seq(Write)] /\ stored' \subseteq Write
           /\ StoredNotLost'
<1>1. CASE TicketOf[w] = NoTicket
  BY <1>1 DEF AppendWal, walVars, TypeOK, StoredNotLost, InWal
<1>2. CASE TicketOf[w] # NoTicket
  <2> DEFINE t == TicketOf[w]
  <2>1. t \in Ticket
    BY <1>2, WriteAssumption
  <2>2. /\ wal' = [wal EXCEPT ![t] = Append(wal[t], w)]
        /\ stored' = stored \union {w}
    BY <1>2 DEF AppendWal
  <2>3. wal[t] \in Seq(Write)
    BY <2>1 DEF TypeOK
  <2> HIDE DEF t
  <2>4. Append(wal[t], w) \in Seq(Write)
    BY <2>3, AppendToQueue
  <2>5. wal' \in [Ticket -> Seq(Write)] /\ stored' \subseteq Write
    BY <2>1, <2>2, <2>4 DEF TypeOK
  <2>6. ASSUME NEW v \in Write, InWal(v)
        PROVE  InWal(v)'
    <3>0. PICK u \in Ticket : \E i \in DOMAIN wal[u] : wal[u][i] = v
      BY <2>6 DEF InWal
    <3>1. PICK i \in DOMAIN wal[u] : wal[u][i] = v
      BY <3>0
    <3>2. CASE u = t
      <4>1. i \in DOMAIN wal'[t] /\ wal'[t][i] = v
        BY <2>1, <2>2, <2>3, <3>1, <3>2, AppendToQueue DEF TypeOK
      <4>2. QED
        BY <2>1, <4>1 DEF InWal
    <3>3. CASE u # t
      <4>1. wal'[u] = wal[u]
        BY <2>2, <3>3 DEF TypeOK
      <4>2. QED
        BY <3>1, <4>1 DEF InWal
    <3>4. QED
      BY <3>2, <3>3
  <2>7. InWal(w)'
    <3>1. /\ Len(wal[t]) + 1 \in DOMAIN wal'[t]
          /\ wal'[t][Len(wal[t]) + 1] = w
      BY <2>1, <2>2, <2>3, AppendToQueue DEF TypeOK
    <3>2. QED
      BY <2>1, <3>1 DEF InWal
  <2>8. StoredNotLost'
    BY <2>2, <2>6, <2>7 DEF StoredNotLost, TypeOK
  <2>9. QED
    BY <2>5, <2>8
<1>3. QED
  BY <1>1, <1>2

\* The requests that Haft has seen to are only ever more.
LEMMA CarriedGrows ==
    ASSUME TypeOK, NEW r \in Messages, Carried(r)
    PROVE  /\ applied \subseteq applied' /\ applied' \subseteq Write
           /\ r \in Write => r \in applied'
BY DEF TypeOK, Carried

-----------------------------------------------------------------------------
(* Steps that leave the log alone.                                         *)

\* What the invariant says of the log and the callers survives when nothing of
\* theirs changes and more requests are carried out.
LEMMA LogKeeps ==
    ASSUME HaftInv, UNCHANGED <<waiting, wal, stored, reply>>, applied \subseteq applied'
    PROVE  ReplayHasPlace' /\ StoredNotLost' /\ OkMeansApplied' /\ ReplayInOrder'
<1>1. ReplayHasPlace'
  BY DEF HaftInv, ReplayHasPlace
<1>2. StoredNotLost'
  BY DEF HaftInv, StoredNotLost, InWal
<1>3. OkMeansApplied'
  BY DEF HaftInv, OkMeansApplied
<1>4. ReplayInOrder'
  BY DEF HaftInv, ReplayInOrder
<1>5. QED
  BY <1>1, <1>2, <1>3, <1>4

\* The mailbox keeps its promise when messages are taken off it.
LEMMA MailboxKeeps ==
    ASSUME HaftInv, applied \subseteq applied',
           mailbox' = mailbox \/ mailbox' = <<>> \/ (mailbox # <<>> /\ mailbox' = Tail(mailbox))
    PROVE  AnswersAreOfCarried' /\ mailbox' \in Seq(Messages)
<1>1. mailbox \in Seq(Messages)
  BY DEF HaftInv, TypeOK
<1>2. CASE mailbox' = mailbox
  BY <1>1, <1>2 DEF HaftInv, AnswersAreOfCarried
<1>3. CASE mailbox' = <<>>
  BY <1>3 DEF AnswersAreOfCarried
<1>4. CASE mailbox # <<>> /\ mailbox' = Tail(mailbox)
  <2>1. /\ Tail(mailbox) \in Seq(Messages)
        /\ \A i \in DOMAIN Tail(mailbox) :
              i + 1 \in DOMAIN mailbox /\ Tail(mailbox)[i] = mailbox[i + 1]
    BY <1>1, <1>4, TailOfQueue
  <2>2. QED
    BY <1>4, <2>1 DEF HaftInv, AnswersAreOfCarried
<1>5. QED
  BY <1>2, <1>3, <1>4

\* A message that is an answer to a carried out request may join the mailbox.
LEMMA MailboxGrows ==
    ASSUME HaftInv, applied \subseteq applied', NEW m \in Messages,
           m \in Write => m \in applied', mailbox' = Append(mailbox, m)
    PROVE  AnswersAreOfCarried' /\ mailbox' \in Seq(Messages)
<1>1. mailbox \in Seq(Messages)
  BY DEF HaftInv, TypeOK
<1>2. /\ mailbox' \in Seq(Messages)
      /\ \A i \in DOMAIN mailbox : mailbox'[i] = mailbox[i]
      /\ \A i \in DOMAIN mailbox' : i \in DOMAIN mailbox \/ mailbox'[i] = m
  BY <1>1, AppendToQueue
<1>3. QED
  BY <1>2 DEF HaftInv, AnswersAreOfCarried

\* A server that waits for nothing is in no replay.
LEMMA IdleHasNoReplay ==
    ASSUME waiting' = Idle
    PROVE  ReplayHasPlace' /\ ReplayInOrder'
BY DEF Idle, ReplayHasPlace, ReplayInOrder
-----------------------------------------------------------------------------
(* One lemma per action.                                                   *)

\* Haft answers a request in the step that carries it out.
LEMMA HaftAnswersKeeps == HaftInv /\ HaftAnswers => HaftInv'
<1> SUFFICES ASSUME HaftInv, HaftAnswers PROVE HaftInv'
  OBVIOUS
<1>1. Head(pipe) \in Messages /\ Tail(pipe) \in Seq(Messages) /\ Len(Tail(pipe)) <= MaxPipe
  BY TailOfQueue, BoundsAssumption DEF HaftInv, TypeOK, HaftAnswers
<1>2. applied \subseteq applied' /\ applied' \subseteq Write
      /\ (Head(pipe) \in Write => Head(pipe) \in applied')
  BY <1>1, CarriedGrows DEF HaftInv, HaftAnswers
<1>3. AnswersAreOfCarried' /\ mailbox' \in Seq(Messages)
  BY <1>1, <1>2, MailboxGrows DEF HaftAnswers
<1>4. ReplayHasPlace' /\ StoredNotLost' /\ OkMeansApplied' /\ ReplayInOrder'
  BY <1>2, LogKeeps DEF HaftAnswers, serverVars, walVars
<1>5. TypeOK'
  BY <1>1, <1>2, <1>3 DEF HaftInv, TypeOK, HaftAnswers, serverVars, walVars
<1>6. QED
  BY <1>3, <1>4, <1>5 DEF HaftInv

\* Haft exits, perhaps between carrying out a request and answering it.
LEMMA HaftExitsKeeps == HaftInv /\ HaftExits => HaftInv'
<1> SUFFICES ASSUME HaftInv, HaftExits PROVE HaftInv'
  OBVIOUS
<1>1. pipe # <<>> => Head(pipe) \in Messages
  BY TailOfQueue DEF HaftInv, TypeOK
<1>2. applied \subseteq applied' /\ applied' \subseteq Write
  BY <1>1, CarriedGrows DEF HaftInv, HaftExits, TypeOK
<1>3. AnswersAreOfCarried' /\ mailbox' \in Seq(Messages)
  BY <1>2, MailboxGrows, BoundsAssumption DEF HaftExits, Messages
<1>4. ReplayHasPlace' /\ StoredNotLost' /\ OkMeansApplied' /\ ReplayInOrder'
  BY <1>2, LogKeeps DEF HaftExits, serverVars, walVars
<1>5. pipe' \in Seq(Messages) /\ Len(pipe') <= MaxPipe
  BY BoundsAssumption DEF HaftExits
<1>6. TypeOK'
  BY <1>2, <1>3, <1>5 DEF HaftInv, TypeOK, HaftExits, serverVars, walVars
<1>7. QED
  BY <1>3, <1>4, <1>6 DEF HaftInv

\* An orphan carries out more requests and answers nobody.
LEMMA OrphanReadsKeeps == HaftInv /\ OrphanReads => HaftInv'
<1> SUFFICES ASSUME HaftInv, OrphanReads PROVE HaftInv'
  OBVIOUS
<1>1. Head(orphan) \in Messages /\ Tail(orphan) \in Seq(Messages)
  BY TailOfQueue DEF HaftInv, TypeOK, OrphanReads
<1>2. applied \subseteq applied' /\ applied' \subseteq Write
  BY <1>1, CarriedGrows DEF HaftInv, OrphanReads, TypeOK
<1>3. AnswersAreOfCarried' /\ mailbox' \in Seq(Messages)
  BY <1>2, MailboxKeeps DEF OrphanReads
<1>4. ReplayHasPlace' /\ StoredNotLost' /\ OkMeansApplied' /\ ReplayInOrder'
  BY <1>2, LogKeeps DEF OrphanReads, serverVars, walVars
<1>5. TypeOK'
  BY <1>1, <1>2, <1>3, NewQueues DEF HaftInv, TypeOK, OrphanReads, serverVars, walVars
<1>6. QED
  BY <1>3, <1>4, <1>5 DEF HaftInv

\* A restarted server has lost its mailbox and its place, and not the log.
LEMMA RestartKeeps ==
    ASSUME HaftInv, Restart,
           reply' = reply \/ \E w \in Write : reply' = [reply EXCEPT ![w] = "exit"]
    PROVE  HaftInv'
<1>1. AnswersAreOfCarried' /\ mailbox' \in Seq(Messages)
  BY MailboxKeeps DEF Restart
<1>2. ReplayHasPlace' /\ ReplayInOrder'
  BY IdleHasNoReplay DEF Restart
<1>3. StoredNotLost'
  BY DEF HaftInv, StoredNotLost, InWal, Restart, walVars
<1>4. OkMeansApplied'
  BY DEF HaftInv, TypeOK, OkMeansApplied, Restart
<1>5. pipe' \in Seq(Messages) /\ Len(pipe') <= MaxPipe
  <2>1. pipe' = <<>> \/ pipe' = <<"old">>
    BY DEF Restart
  <2>2. CASE pipe' = <<>>
    BY <2>2, BoundsAssumption
  <2>3. CASE pipe' = <<"old">>
    BY <2>3, BoundsAssumption DEF Messages
  <2>4. QED
    BY <2>1, <2>2, <2>3
<1>6. reply' \in [Write -> {"none", "ok", "error", "unavailable", "exit"}]
  BY DEF HaftInv, TypeOK
<1>7. orphan' \in Seq(Messages)
  BY DEF HaftInv, TypeOK, Restart
<1>8. available' \in BOOLEAN /\ open' \in BOOLEAN /\ misses' \in 0..Threshold /\ waiting' = Idle
  <2>1. available' \in BOOLEAN /\ open' \in BOOLEAN
    BY Zenon DEF Restart
  <2>2. misses' \in 0..Threshold /\ waiting' = Idle
    BY BoundsAssumption DEF Restart
  <2>3. QED
    BY <2>1, <2>2
<1>9. TypeOK'
  BY <1>1, <1>5, <1>6, <1>7, <1>8 DEF HaftInv, TypeOK, Restart, walVars
<1>10. QED
  BY <1>1, <1>2, <1>3, <1>4, <1>9 DEF HaftInv

\* A request is sent, or stored when Haft is unavailable, or takes the server down.
LEMMA DispatchKeeps == ASSUME NEW w \in Write PROVE HaftInv /\ Dispatch(w) => HaftInv'
<1> SUFFICES ASSUME HaftInv, Dispatch(w) PROVE HaftInv'
  OBVIOUS
<1>1. CASE available /\ open /\ Len(pipe) < MaxPipe /\ waiting' = Dispatching(w)
           /\ pipe' = Append(pipe, w)
           /\ UNCHANGED <<available, misses, open, mailbox, orphan, walVars, applied, reply>>
  <2>1. AnswersAreOfCarried' /\ mailbox' \in Seq(Messages)
    BY <1>1, MailboxKeeps
  <2>2. ReplayHasPlace' /\ ReplayInOrder'
    BY <1>1 DEF Dispatching, ReplayHasPlace, ReplayInOrder
  <2>3. StoredNotLost' /\ OkMeansApplied'
    BY <1>1 DEF HaftInv, StoredNotLost, InWal, OkMeansApplied, walVars
  <2>4. pipe' \in Seq(Messages) /\ Len(pipe') <= MaxPipe
    BY <1>1, AppendToQueue, BoundsAssumption DEF HaftInv, TypeOK, Messages
  <2>5. TypeOK'
    BY <1>1, <2>1, <2>4 DEF HaftInv, TypeOK, walVars
  <2>6. QED
    BY <2>1, <2>2, <2>3, <2>5 DEF HaftInv
<1>2. CASE Restart /\ reply' = [reply EXCEPT ![w] = "exit"]
  BY <1>2, RestartKeeps
<1>3. CASE AppendWal(w) /\ reply' = [reply EXCEPT ![w] = "unavailable"]
           /\ UNCHANGED <<serverVars, portVars, applied>>
  <2>1. AnswersAreOfCarried' /\ mailbox' \in Seq(Messages)
    BY <1>3, MailboxKeeps DEF portVars
  <2>2. ReplayHasPlace' /\ ReplayInOrder'
    BY <1>3, IdleHasNoReplay DEF Dispatch, IsIdle, serverVars
  <2>3. /\ wal' \in [Ticket -> Seq(Write)] /\ stored' \subseteq Write
        /\ StoredNotLost'
    BY <1>3, AppendWalKeeps DEF HaftInv
  <2>4. OkMeansApplied'
    BY <1>3 DEF HaftInv, TypeOK, OkMeansApplied
  <2>5. TypeOK'
    BY <1>3, <2>1, <2>3 DEF HaftInv, TypeOK, serverVars, portVars
  <2>6. QED
    BY <2>1, <2>2, <2>3, <2>4, <2>5 DEF HaftInv
<1>4. QED
  BY <1>1, <1>2, <1>3 DEF Dispatch

\* A ping is sent, or takes the server down; the log and the callers are left alone.
LEMMA PingKeeps == HaftInv /\ Ping => HaftInv'
<1> SUFFICES ASSUME HaftInv, Ping PROVE HaftInv'
  OBVIOUS
<1>1. CASE open
  <2>1. /\ Len(pipe) < MaxPipe /\ waiting' = Pinging /\ pipe' = Append(pipe, "ping")
        /\ UNCHANGED <<available, misses, open, mailbox, orphan, walVars, applied, reply>>
    BY <1>1 DEF Ping
  <2>2. AnswersAreOfCarried' /\ mailbox' \in Seq(Messages)
    BY <2>1, MailboxKeeps
  <2>3. ReplayHasPlace' /\ ReplayInOrder'
    BY <2>1 DEF Pinging, ReplayHasPlace, ReplayInOrder
  <2>4. StoredNotLost' /\ OkMeansApplied'
    BY <2>1 DEF HaftInv, StoredNotLost, InWal, OkMeansApplied, walVars
  <2>5. pipe' \in Seq(Messages) /\ Len(pipe') <= MaxPipe
    BY <2>1, AppendToQueue, BoundsAssumption DEF HaftInv, TypeOK, Messages
  <2>6. TypeOK'
    BY <2>1, <2>2, <2>5 DEF HaftInv, TypeOK, walVars
  <2>7. QED
    BY <2>2, <2>3, <2>4, <2>6 DEF HaftInv
<1>2. CASE ~open
  BY <1>2, RestartKeeps DEF Ping
<1>3. QED
  BY <1>1, <1>2

\* A message that nothing awaits: an exit is noted, an answer takes the server down.
LEMMA PortMessageKeeps == HaftInv /\ PortMessage => HaftInv'
<1> SUFFICES ASSUME HaftInv, PortMessage PROVE HaftInv'
  OBVIOUS
<1>1. CASE Head(mailbox) = "exit"
  <2>1. /\ available' = FALSE /\ mailbox # <<>> /\ mailbox' = Tail(mailbox)
        /\ UNCHANGED <<misses, waiting, open, pipe, orphan, walVars, applied, reply>>
    BY <1>1 DEF PortMessage
  <2>2. AnswersAreOfCarried' /\ mailbox' \in Seq(Messages)
    BY <2>1, MailboxKeeps
  <2>3. ReplayHasPlace' /\ StoredNotLost' /\ OkMeansApplied' /\ ReplayInOrder'
    BY <2>1, LogKeeps DEF walVars
  <2>4. TypeOK'
    BY <2>1, <2>2 DEF HaftInv, TypeOK, walVars
  <2>5. QED
    BY <2>2, <2>3, <2>4 DEF HaftInv
<1>2. CASE Head(mailbox) # "exit"
  BY <1>2, RestartKeeps DEF PortMessage
<1>3. QED
  BY <1>1, <1>2
-----------------------------------------------------------------------------
(* Replay.                                                                 *)

\* After its last line was answered a file is removed, and every request in it
\* was carried out; otherwise the replay moves on to a line whose predecessors were.
LEMMA ReplayGoesOnKeeps ==
    ASSUME HaftInv, waiting.for = "replay", wal[waiting.file][waiting.line] \in applied,
           ReplayGoesOn(waiting.file, waiting.line), UNCHANGED <<stored, applied>>
    PROVE  /\ available' \in BOOLEAN
           /\ waiting' \in {Idle} \union [for : {"replay_line"}, file : Ticket, line : Nat \ {0}]
           /\ wal' \in [Ticket -> Seq(Write)]
           /\ ReplayHasPlace' /\ StoredNotLost' /\ ReplayInOrder'
<1> DEFINE t == waiting.file
           n == waiting.line
<1>1. t \in Ticket /\ n \in Nat \ {0} /\ wal[t] \in Seq(Write) /\ n \in DOMAIN wal[t]
  BY WaitingShape DEF HaftInv, TypeOK, ReplayHasPlace
<1>2. \A i \in 1..n : wal[t][i] \in applied
  BY <1>1 DEF HaftInv, ReplayInOrder
<1>3. /\ ReplayGoesOn(t, n) /\ available \in BOOLEAN /\ wal \in [Ticket -> Seq(Write)]
      /\ StoredNotLost /\ UNCHANGED <<stored, applied>>
  BY DEF HaftInv, TypeOK
<1> HIDE DEF t, n
<1>4. CASE n < Len(wal[t]) /\ waiting' = ReplayAt(t, n + 1) /\ UNCHANGED <<wal, available>>
  <2>1. n + 1 \in Nat \ {0} /\ n + 1 \in DOMAIN wal[t]
    BY <1>1, <1>4
  <2>2. /\ waiting'.for = "replay_line" /\ waiting'.file = t /\ waiting'.line = n + 1
        /\ waiting' \in [for : {"replay_line"}, file : Ticket, line : Nat \ {0}]
    BY <1>1, <1>4, <2>1 DEF ReplayAt
  <2>3. ReplayHasPlace'
    BY <1>4, <2>1, <2>2 DEF ReplayHasPlace
  <2>4. ReplayInOrder'
    BY <1>1, <1>2, <1>3, <1>4, <2>2 DEF ReplayInOrder
  <2>5. StoredNotLost'
    BY <1>3, <1>4 DEF StoredNotLost, InWal
  <2>6. QED
    BY <1>3, <1>4, <2>2, <2>3, <2>4, <2>5
<1>5. CASE n = Len(wal[t]) /\ wal' = [wal EXCEPT ![t] = <<>>]
           /\ IF NonEmpty = {t}
                THEN waiting' = Idle /\ available' = TRUE
                ELSE /\ \E u \in NonEmpty \ {t} : waiting' = ReplayAt(u, 1)
                     /\ UNCHANGED available
  <2>1. wal' \in [Ticket -> Seq(Write)]
    BY <1>1, <1>3, <1>5
  <2>2. ASSUME NEW w \in stored
        PROVE  InWal(w)' \/ w \in applied
    <3>1. CASE InWal(w)
      <4>1. PICK u \in Ticket : \E i \in DOMAIN wal[u] : wal[u][i] = w
        BY <3>1 DEF InWal
      <4>2. CASE u = t
        BY <1>1, <1>2, <1>5, <4>1, <4>2
      <4>3. CASE u # t
        BY <1>3, <1>5, <4>1, <4>3 DEF InWal
      <4>4. QED
        BY <4>2, <4>3
    <3>2. QED
      BY <1>3, <3>1 DEF StoredNotLost
  <2>3. StoredNotLost'
    BY <1>3, <2>2 DEF StoredNotLost
  <2>4. CASE NonEmpty = {t}
    <3>1. waiting' = Idle /\ available' = TRUE
      BY <1>5, <2>4
    <3>2. QED
      BY <2>1, <2>3, <3>1, IdleHasNoReplay
  <2>5. CASE NonEmpty # {t}
    <3>1. PICK u \in NonEmpty \ {t} : waiting' = ReplayAt(u, 1)
      BY <1>5, <2>5
    <3>2. u \in Ticket /\ u # t /\ wal[u] # <<>> /\ wal'[u] = wal[u] /\ wal[u] \in Seq(Write)
      BY <1>3, <1>5 DEF NonEmpty
    <3>3. 1 \in DOMAIN wal'[u]
      BY <3>2, TailOfQueue
    <3>4. /\ waiting'.for = "replay_line" /\ waiting'.file = u /\ waiting'.line = 1
          /\ waiting' \in [for : {"replay_line"}, file : Ticket, line : Nat \ {0}]
      BY <3>1, <3>2 DEF ReplayAt
    <3>5. ReplayHasPlace' /\ ReplayInOrder'
      BY <3>3, <3>4 DEF ReplayHasPlace, ReplayInOrder
    <3>6. available' \in BOOLEAN
      BY <1>3, <1>5, <2>5
    <3>7. QED
      BY <2>1, <2>3, <3>4, <3>5, <3>6
  <2>6. QED
    BY <2>4, <2>5
<1>6. QED
  BY <1>3, <1>4, <1>5 DEF ReplayGoesOn

\* The replay sends the line it has its place at, or ends at a closed port.
LEMMA ReplayLineKeeps == HaftInv /\ ReplayLine => HaftInv'
<1> SUFFICES ASSUME HaftInv, ReplayLine PROVE HaftInv'
  OBVIOUS
<1> DEFINE t == waiting.file
           n == waiting.line
<1>1. /\ waiting.for = "replay_line" /\ t \in Ticket /\ n \in Nat \ {0}
      /\ wal[t] \in Seq(Write) /\ n \in DOMAIN wal[t] /\ wal[t][n] \in Write
  BY WaitingShape, ElementOfSeq DEF ReplayLine, HaftInv, TypeOK, ReplayHasPlace
<1>2. /\ AnswersAreOfCarried' /\ mailbox' \in Seq(Messages)
      /\ UNCHANGED <<misses, open, mailbox, orphan, stored, applied, reply>>
  BY MailboxKeeps DEF ReplayLine
<1>3. CASE open
  <2>1. /\ Len(pipe) < MaxPipe /\ waiting' = ReplaySent(t, n)
        /\ pipe' = Append(pipe, wal[t][n]) /\ UNCHANGED <<available, wal>>
    BY <1>3 DEF ReplayLine
  <2> HIDE DEF t, n
  <2>2. /\ waiting'.for = "replay" /\ waiting'.file = t /\ waiting'.line = n
        /\ waiting'.id = wal[t][n]
        /\ waiting' \in [for : {"replay"}, file : Ticket, line : Nat \ {0}, id : Write]
    BY <1>1, <2>1 DEF ReplaySent
  <2>3. ReplayHasPlace'
    BY <1>1, <2>1, <2>2 DEF ReplayHasPlace
  <2>4. ReplayInOrder'
    BY <1>1, <1>2, <2>1, <2>2 DEF HaftInv, ReplayInOrder, t, n
  <2>5. StoredNotLost' /\ OkMeansApplied'
    BY <1>2, <2>1 DEF HaftInv, StoredNotLost, InWal, OkMeansApplied
  <2>6. pipe' \in Seq(Messages) /\ Len(pipe') <= MaxPipe
    BY <1>1, <2>1, AppendToQueue, BoundsAssumption DEF HaftInv, TypeOK, Messages
  <2>7. TypeOK'
    BY <1>2, <2>1, <2>2, <2>6 DEF HaftInv, TypeOK
  <2>8. QED
    BY <1>2, <2>3, <2>4, <2>5, <2>7 DEF HaftInv
<1>4. CASE ~open
  <2>1. waiting' = Idle /\ available' = FALSE /\ UNCHANGED <<wal, pipe>>
    BY <1>4 DEF ReplayLine, ReplayFails
  <2>2. StoredNotLost' /\ OkMeansApplied'
    BY <1>2, <2>1 DEF HaftInv, StoredNotLost, InWal, OkMeansApplied
  <2>3. TypeOK'
    BY <1>2, <2>1 DEF HaftInv, TypeOK
  <2>4. QED
    BY <1>2, <2>1, <2>2, <2>3, IdleHasNoReplay DEF HaftInv
<1>5. QED
  BY <1>3, <1>4
-----------------------------------------------------------------------------
(* await_response.                                                         *)

\* A ping that fails leaves the server idle.
LEMMA PingFailsType ==
    ASSUME TypeOK, PingFails
    PROVE  misses' \in 0..Threshold /\ available' \in BOOLEAN /\ waiting' = Idle
<1>1. misses' \in 0..Threshold
  BY BoundsAssumption DEF PingFails, TypeOK
<1>2. (misses + 1 < Threshold) \in BOOLEAN
  OBVIOUS
<1>3. available' \in BOOLEAN /\ waiting' = Idle
  BY <1>2, Zenon DEF PingFails
<1>4. QED
  BY <1>1, <1>3

\* Only the answer to the awaited request is passed on as its own.
LEMMA AnsweredKeeps == HaftInv /\ Answered => HaftInv'
<1> SUFFICES ASSUME HaftInv, Answered PROVE HaftInv'
  OBVIOUS
<1>1. /\ AnswersAreOfCarried' /\ mailbox' \in Seq(Messages)
      /\ UNCHANGED <<open, pipe, orphan, stored, applied>>
  BY MailboxKeeps DEF Answered
<1>2. waiting.id \in Write => waiting.id \in applied
  BY TailOfQueue DEF HaftInv, TypeOK, AnswersAreOfCarried, Answered, Answers
<1>3. CASE /\ waiting.for = "dispatch" /\ waiting' = Idle
           /\ \E r \in {"ok", "exit"} : reply' = [reply EXCEPT ![waiting.id] = r]
           /\ UNCHANGED <<available, misses, wal>>
  <2>1. waiting.id \in applied
    BY <1>2, <1>3, WaitingShape DEF HaftInv
  <2>2. OkMeansApplied' /\ reply' \in [Write -> {"none", "ok", "error", "unavailable", "exit"}]
    BY <1>1, <1>3, <2>1 DEF HaftInv, TypeOK, OkMeansApplied
  <2>3. StoredNotLost'
    BY <1>1, <1>3 DEF HaftInv, StoredNotLost, InWal
  <2>4. TypeOK'
    BY <1>1, <1>3, <2>2 DEF HaftInv, TypeOK
  <2>5. QED
    BY <1>1, <1>3, <2>2, <2>3, <2>4, IdleHasNoReplay DEF HaftInv
<1>4. CASE /\ waiting.for = "ping" /\ misses' = 0
           /\ IF available \/ NonEmpty = {}
                THEN available' = TRUE /\ waiting' = Idle
                ELSE /\ \E t \in NonEmpty : waiting' = ReplayAt(t, 1)
                     /\ UNCHANGED available
           /\ UNCHANGED <<wal, reply>>
  <2>1. StoredNotLost' /\ OkMeansApplied'
    BY <1>1, <1>4 DEF HaftInv, StoredNotLost, InWal, OkMeansApplied
  <2>2. misses' \in 0..Threshold
    BY <1>4, BoundsAssumption
  <2>3. CASE available \/ NonEmpty = {}
    <3>1. available' = TRUE /\ waiting' = Idle
      BY <1>4, <2>3
    <3>2. TypeOK'
      BY <1>1, <1>4, <2>2, <3>1 DEF HaftInv, TypeOK
    <3>3. QED
      BY <1>1, <2>1, <3>1, <3>2, IdleHasNoReplay DEF HaftInv
  <2>4. CASE ~(available \/ NonEmpty = {})
    <3>1. PICK t \in NonEmpty : waiting' = ReplayAt(t, 1)
      BY <1>4, <2>4
    <3>2. t \in Ticket /\ wal[t] # <<>> /\ wal[t] \in Seq(Write) /\ UNCHANGED <<available, wal>>
      BY <1>4, <2>4 DEF NonEmpty, HaftInv, TypeOK
    <3>3. 1 \in DOMAIN wal'[t]
      BY <3>2, TailOfQueue
    <3>4. /\ waiting'.for = "replay_line" /\ waiting'.file = t /\ waiting'.line = 1
          /\ waiting' \in [for : {"replay_line"}, file : Ticket, line : Nat \ {0}]
      BY <3>1, <3>2 DEF ReplayAt
    <3>5. ReplayHasPlace' /\ ReplayInOrder'
      BY <3>3, <3>4 DEF ReplayHasPlace, ReplayInOrder
    <3>6. TypeOK'
      BY <1>1, <1>4, <2>2, <3>2, <3>4 DEF HaftInv, TypeOK
    <3>7. QED
      BY <1>1, <2>1, <3>5, <3>6 DEF HaftInv
  <2>5. QED
    BY <2>3, <2>4
<1>5. CASE /\ waiting.for = "replay" /\ ReplayGoesOn(waiting.file, waiting.line)
           /\ UNCHANGED <<misses, reply>>
  <2>1. waiting.id \in Write /\ waiting.id = wal[waiting.file][waiting.line]
    BY <1>5, WaitingShape, ElementOfSeq DEF HaftInv, TypeOK, ReplayHasPlace
  <2>2. /\ available' \in BOOLEAN
        /\ waiting' \in {Idle} \union [for : {"replay_line"}, file : Ticket, line : Nat \ {0}]
        /\ wal' \in [Ticket -> Seq(Write)]
        /\ ReplayHasPlace' /\ StoredNotLost' /\ ReplayInOrder'
    BY <1>1, <1>2, <1>5, <2>1, ReplayGoesOnKeeps
  <2>3. OkMeansApplied'
    BY <1>1, <1>5 DEF HaftInv, OkMeansApplied
  <2>4. TypeOK'
    BY <1>1, <1>5, <2>2 DEF HaftInv, TypeOK
  <2>5. QED
    BY <1>1, <2>2, <2>3, <2>4 DEF HaftInv
<1>6. QED
  BY <1>3, <1>4, <1>5 DEF Answered

\* A late answer is skipped without a word to the caller.
LEMMA OtherAnswerKeeps == HaftInv /\ OtherAnswer => HaftInv'
<1> SUFFICES ASSUME HaftInv, OtherAnswer PROVE HaftInv'
  OBVIOUS
<1>1. AnswersAreOfCarried' /\ mailbox' \in Seq(Messages)
  BY MailboxKeeps DEF OtherAnswer
<1>2. ReplayHasPlace' /\ StoredNotLost' /\ OkMeansApplied' /\ ReplayInOrder'
  BY LogKeeps DEF OtherAnswer, serverVars, walVars
<1>3. TypeOK'
  BY <1>1 DEF HaftInv, TypeOK, OtherAnswer, serverVars, walVars
<1>4. QED
  BY <1>1, <1>2, <1>3 DEF HaftInv

\* An exit ends the replay of a file and keeps the file.
LEMMA AwaitExitKeeps == HaftInv /\ AwaitExit => HaftInv'
<1> SUFFICES ASSUME HaftInv, AwaitExit PROVE HaftInv'
  OBVIOUS
<1>1. /\ AnswersAreOfCarried' /\ mailbox' \in Seq(Messages)
      /\ UNCHANGED <<open, pipe, orphan, stored, applied>>
  BY MailboxKeeps DEF AwaitExit
<1>2. waiting' = Idle /\ UNCHANGED wal
  BY DEF AwaitExit, PingFails, ReplayFails
<1>3. misses' \in 0..Threshold
  BY PingFailsType DEF AwaitExit, HaftInv, TypeOK
<1>4. available' \in BOOLEAN
  BY PingFailsType DEF AwaitExit, HaftInv, TypeOK, ReplayFails
<1>5. /\ reply' \in [Write -> {"none", "ok", "error", "unavailable", "exit"}]
      /\ \A w \in Write : reply'[w] = "ok" => reply[w] = "ok"
  BY WaitingShape DEF AwaitExit, HaftInv, TypeOK
<1>6. StoredNotLost' /\ OkMeansApplied'
  BY <1>1, <1>2, <1>5 DEF HaftInv, StoredNotLost, InWal, OkMeansApplied
<1>7. TypeOK'
  BY <1>1, <1>2, <1>3, <1>4, <1>5 DEF HaftInv, TypeOK
<1>8. QED
  BY <1>1, <1>2, <1>6, <1>7, IdleHasNoReplay DEF HaftInv

\* A request that timed out is in the log before its caller is gone.
LEMMA TimeoutKeeps == HaftInv /\ Timeout => HaftInv'
<1> SUFFICES ASSUME HaftInv, Timeout PROVE HaftInv'
  OBVIOUS
<1>1. /\ AnswersAreOfCarried' /\ mailbox' \in Seq(Messages)
      /\ UNCHANGED <<open, mailbox, orphan, applied>>
  BY MailboxKeeps DEF Timeout
<1>2. waiting' = Idle
  BY DEF Timeout, PingFails, ReplayFails
<1>3. pipe' \in Seq(Messages) /\ Len(pipe') <= MaxPipe
  BY ForgetKeeps DEF Timeout, HaftInv, TypeOK
<1>4. misses' \in 0..Threshold
  BY PingFailsType DEF Timeout, HaftInv, TypeOK
<1>5. available' \in BOOLEAN
  BY PingFailsType DEF Timeout, HaftInv, TypeOK, ReplayFails
<1>6. /\ reply' \in [Write -> {"none", "ok", "error", "unavailable", "exit"}]
      /\ \A w \in Write : reply'[w] = "ok" => reply[w] = "ok"
  BY WaitingShape DEF Timeout, HaftInv, TypeOK
<1>7. /\ wal' \in [Ticket -> Seq(Write)] /\ stored' \subseteq Write
      /\ StoredNotLost'
  <2>1. CASE waiting.for = "dispatch" /\ AppendWal(waiting.id)
    BY <1>1, <2>1, WaitingShape, AppendWalKeeps DEF HaftInv
  <2>2. CASE UNCHANGED <<wal, stored>>
    BY <1>1, <2>2 DEF HaftInv, TypeOK, StoredNotLost, InWal
  <2>3. QED
    BY <2>1, <2>2 DEF Timeout, ReplayFails, walVars
<1>8. OkMeansApplied'
  BY <1>1, <1>6 DEF HaftInv, OkMeansApplied
<1>9. TypeOK'
  BY <1>1, <1>2, <1>3, <1>4, <1>5, <1>6, <1>7 DEF HaftInv, TypeOK
<1>10. QED
  BY <1>1, <1>2, <1>7, <1>8, <1>9, IdleHasNoReplay DEF HaftInv

-----------------------------------------------------------------------------
(* The theorems.                                                           *)

\* The invariant holds when the server starts.
LEMMA HaftInvInit == Init => HaftInv
<1> SUFFICES ASSUME Init PROVE HaftInv
  OBVIOUS
<1>1. TypeOK
  <2>1. pipe \in Seq(Messages) /\ Len(pipe) <= MaxPipe
    BY BoundsAssumption DEF Init
  <2>2. mailbox \in Seq(Messages) /\ orphan \in Seq(Messages) /\ wal \in [Ticket -> Seq(Write)]
    BY DEF Init
  <2>3. misses \in 0..Threshold
    BY BoundsAssumption DEF Init
  <2>4. QED
    BY <2>1, <2>2, <2>3 DEF Init, TypeOK
<1>2. AnswersAreOfCarried /\ ReplayHasPlace /\ ReplayInOrder
  BY DEF Init, AnswersAreOfCarried, ReplayHasPlace, ReplayInOrder, Idle
<1>3. StoredNotLost /\ OkMeansApplied
  BY DEF Init, StoredNotLost, OkMeansApplied
<1>4. QED
  BY <1>1, <1>2, <1>3 DEF HaftInv

\* Every message, timeout, exit and restart keeps it.
LEMMA HaftInvStep == HaftInv /\ [Next]_vars => HaftInv'
<1> SUFFICES ASSUME HaftInv, [Next]_vars PROVE HaftInv'
  OBVIOUS
<1>1. CASE Server
  BY <1>1, AnsweredKeeps, OtherAnswerKeeps, AwaitExitKeeps, TimeoutKeeps, ReplayLineKeeps DEF Server
<1>2. CASE Haft \/ HaftExits
  BY <1>2, HaftAnswersKeeps, OrphanReadsKeeps, HaftExitsKeeps DEF Haft
<1>3. CASE PortMessage \/ Ping
  BY <1>3, PortMessageKeeps, PingKeeps
<1>4. CASE \E w \in Write : Dispatch(w)
  BY <1>4, DispatchKeeps
<1>5. CASE UNCHANGED vars
  <2>1. UNCHANGED <<waiting, wal, stored, reply, applied, mailbox>>
    BY <1>5 DEF vars, serverVars, portVars, walVars
  <2>2. ReplayHasPlace' /\ StoredNotLost' /\ OkMeansApplied' /\ ReplayInOrder'
    BY <2>1, LogKeeps
  <2>3. AnswersAreOfCarried'
    BY <2>1, MailboxKeeps
  <2>4. TypeOK'
    BY <1>5 DEF HaftInv, TypeOK, vars, serverVars, portVars, walVars
  <2>5. QED
    BY <2>2, <2>3, <2>4 DEF HaftInv
<1>6. QED
  BY <1>1, <1>2, <1>3, <1>4, <1>5 DEF Next

\* The connection keeps its types and the inductive invariant.
THEOREM ConnectionSound == Spec => []HaftInv
BY HaftInvInit, HaftInvStep, PTL DEF Spec

\* No failed replay, late answer, exit of Haft or restart of the server loses a
\* request the WAL took, for any number of tickets and requests.
THEOREM StoredIsNotLost == Spec => []StoredNotLost
<1>1. HaftInv => StoredNotLost
  BY DEF HaftInv
<1>2. QED
  BY <1>1, ConnectionSound, PTL

\* A caller that is told ok has had its own request carried out.
THEOREM OkIsApplied == Spec => []OkMeansApplied
<1>1. HaftInv => OkMeansApplied
  BY DEF HaftInv
<1>2. QED
  BY <1>1, ConnectionSound, PTL

\* A line of the WAL is sent again only when Haft has carried out the lines
\* before it.
THEOREM ReplayIsInOrder == Spec => []ReplayInOrder
<1>1. HaftInv => ReplayInOrder
  BY DEF HaftInv
<1>2. QED
  BY <1>1, ConnectionSound, PTL
=============================================================================
