----------------------------- MODULE HaftServer ------------------------------
(***************************************************************************)
(* Open-Sleigh's connection to Haft: the GenServer of haft_server.ex, its  *)
(* port to the `haft serve` subprocess, and the write-ahead log of         *)
(* haft/wal.ex that keeps requests Haft did not answer.                    *)
(*                                                                         *)
(* The server handles one message at a time and blocks in await_response   *)
(* until the answer, the exit of the subprocess or a timeout; Haft reads   *)
(* its input meanwhile, and also after the timeout.  When the server dies  *)
(* its supervisor starts a new one on a new port, and the former           *)
(* subprocess may still read what was already written to it.               *)
(***************************************************************************)
EXTENDS Naturals, Sequences

CONSTANTS
    Ticket,       \* ticket ids: one WAL file each
    Write,        \* requests of callers, each with an id of its own
    TicketOf,     \* the ticket_id argument of each request, or NoTicket
    NoTicket,
    Threshold,    \* health_failure_threshold
    MaxPipe       \* bound: requests written to Haft and not yet read

ASSUME WriteAssumption == TicketOf \in [Write -> Ticket \union {NoTicket}]
ASSUME BoundsAssumption ==
    /\ NoTicket \notin Ticket
    /\ Threshold \in Nat \ {0}
    /\ MaxPipe \in Nat \ {0}
    /\ {"ping", "old", "exit"} \intersect Write = {}

VARIABLES
    available,  \* available
    misses,     \* health_misses, up to Threshold
    waiting,    \* what await_response waits for, and on whose behalf
    open,       \* is the port open (its subprocess alive)?
    pipe,       \* requests written to the port and not yet read by Haft
    mailbox,    \* messages of the port the server has not received
    orphan,     \* what the subprocess of a dead server has left to read
    wal,        \* the lines of each WAL file
    stored,     \* requests that were ever appended to the WAL
    applied,    \* requests Haft has seen to
    reply       \* what the caller of each request was told

serverVars == <<available, misses, waiting>>
portVars   == <<open, pipe, mailbox, orphan>>
walVars    == <<wal, stored>>
vars == <<serverVars, portVars, walVars, applied, reply>>

Idle == [for |-> "idle"]
IsIdle == waiting = Idle

Dispatching(w) == [for |-> "dispatch", id |-> w]
Pinging        == [for |-> "ping", id |-> "ping"]

\* Replay of the WAL: between two lines, and waiting for the answer to one.
ReplayAt(t, n)     == [for |-> "replay_line", file |-> t, line |-> n]
ReplaySent(t, n)   == [for |-> "replay", file |-> t, line |-> n, id |-> wal[t][n]]

NonEmpty == {t \in Ticket : wal[t] # <<>>}

\* A ping nobody waits for any more: its id is used only once.
Forget(s) == [i \in DOMAIN s |-> IF s[i] = "ping" THEN "old" ELSE s[i]]

Init ==
    /\ available = TRUE
    /\ misses = 0
    /\ waiting = Idle
    /\ open = TRUE
    /\ pipe = <<>>
    /\ mailbox = <<>>
    /\ orphan = <<>>
    /\ wal = [t \in Ticket |-> <<>>]
    /\ stored = {}
    /\ applied = {}
    /\ reply = [w \in Write |-> "none"]

-----------------------------------------------------------------------------
(* The subprocess.                                                         *)

Carried(r) == applied' = applied \union ({r} \intersect Write)

\* Haft carries out the next request, or refuses it, and answers it.
HaftAnswers ==
    /\ open
    /\ pipe # <<>>
    /\ Carried(Head(pipe))
    /\ pipe' = Tail(pipe)
    /\ mailbox' = Append(mailbox, Head(pipe))
    /\ UNCHANGED <<serverVars, open, orphan, walVars, reply>>

\* Haft exits, perhaps between carrying out a request and answering it.
HaftExits ==
    /\ open
    /\ open' = FALSE
    /\ \/ UNCHANGED applied
       \/ pipe # <<>> /\ Carried(Head(pipe))
    /\ pipe' = <<>>
    /\ mailbox' = Append(mailbox, "exit")
    /\ UNCHANGED <<serverVars, orphan, walVars, reply>>

\* The subprocess of a former server reads on to the end of its input, or ends.
OrphanReads ==
    /\ orphan # <<>>
    /\ \/ Carried(Head(orphan)) /\ orphan' = Tail(orphan)
       \/ UNCHANGED applied /\ orphan' = <<>>
    /\ UNCHANGED <<serverVars, open, pipe, mailbox, walVars, reply>>

-----------------------------------------------------------------------------
(* The write-ahead log.                                                    *)

\* Mutant: only the latest request of a ticket is kept.
AppendWalOverwrite(w) ==
    IF TicketOf[w] = NoTicket THEN UNCHANGED walVars
    ELSE /\ wal' = [wal EXCEPT ![TicketOf[w]] = <<w>>]
         /\ stored' = stored \union {w}

\* append_wal: a request without a ticket_id is not stored, and nobody is told.
AppendWal(w) ==
    IF TicketOf[w] = NoTicket THEN UNCHANGED walVars
    ELSE /\ wal' = [wal EXCEPT ![TicketOf[w]] = Append(@, w)]
         /\ stored' = stored \union {w}

\* After line n of file t was answered.  The file is removed when all of its
\* lines were; files go in the order of their modification times, which are too
\* coarse to tell the order they were written in.
ReplayGoesOn(t, n) ==
    \/ /\ n < Len(wal[t])
       /\ waiting' = ReplayAt(t, n + 1)
       /\ UNCHANGED <<wal, available>>
    \/ /\ n = Len(wal[t])
       /\ wal' = [wal EXCEPT ![t] = <<>>]
       /\ IF NonEmpty = {t}
            THEN waiting' = Idle /\ available' = TRUE
            ELSE /\ \E u \in NonEmpty \ {t} : waiting' = ReplayAt(u, 1)
                 /\ UNCHANGED available

\* Mutant: a failed line is skipped.
ReplayFailsSkipping(t, n) == ReplayGoesOn(t, n)

\* A failed line ends the replay, and its file is kept as a whole.
ReplayFails(t, n) ==
    /\ waiting' = Idle
    /\ available' = FALSE
    /\ UNCHANGED wal

\* The next line is sent.  A port that is closed raises, which is rescued.
ReplayLine ==
    /\ waiting.for = "replay_line"
    /\ IF open
         THEN /\ Len(pipe) < MaxPipe
              /\ waiting' = ReplaySent(waiting.file, waiting.line)
              /\ pipe' = Append(pipe, wal[waiting.file][waiting.line])
              /\ UNCHANGED <<available, wal>>
         ELSE ReplayFails(waiting.file, waiting.line) /\ UNCHANGED pipe
    /\ UNCHANGED <<misses, open, mailbox, orphan, stored, applied, reply>>

-----------------------------------------------------------------------------
(* Requests, pings and messages of the port.                               *)

\* A handler raised.  The supervisor starts the server anew, on a new port;
\* the handshake may time out, or fail.  The WAL is not looked at.
Restart ==
    /\ orphan = <<>>   \* bound: one former subprocess at a time
    /\ orphan' = IF open THEN pipe ELSE <<>>
    /\ mailbox' = <<>>
    /\ waiting' = Idle
    /\ misses' = 0
    /\ \/ available' = TRUE  /\ open' = TRUE  /\ pipe' = <<>>
       \/ available' = FALSE /\ open' = TRUE  /\ pipe' = <<"old">>
       \/ available' = FALSE /\ open' = FALSE /\ pipe' = <<>>
    /\ UNCHANGED <<walVars, applied>>

\* handle_call of a request.
Dispatch(w) ==
    /\ IsIdle
    /\ reply[w] = "none"
    /\ \/ /\ available /\ open
          /\ Len(pipe) < MaxPipe
          /\ waiting' = Dispatching(w)
          /\ pipe' = Append(pipe, w)
          /\ UNCHANGED <<available, misses, open, mailbox, orphan, walVars, applied, reply>>
       \/ /\ available /\ ~open     \* Port.command raises
          /\ Restart
          /\ reply' = [reply EXCEPT ![w] = "exit"]
       \/ /\ ~available
          /\ AppendWal(w)
          /\ reply' = [reply EXCEPT ![w] = "unavailable"]
          /\ UNCHANGED <<serverVars, portVars, applied>>

Ping ==
    /\ IsIdle
    /\ UNCHANGED reply
    /\ IF open
         THEN /\ Len(pipe) < MaxPipe
              /\ waiting' = Pinging
              /\ pipe' = Append(pipe, "ping")
              /\ UNCHANGED <<available, misses, open, mailbox, orphan, walVars, applied>>
         ELSE Restart

\* handle_info of a message of the port that comes while nothing is awaited:
\* there is no clause for an answer.
PortMessage ==
    /\ IsIdle
    /\ mailbox # <<>>
    /\ UNCHANGED reply
    /\ IF Head(mailbox) = "exit"
         THEN /\ available' = FALSE
              /\ mailbox' = Tail(mailbox)
              /\ UNCHANGED <<misses, waiting, open, pipe, orphan, walVars, applied>>
         ELSE Restart

-----------------------------------------------------------------------------
(* await_response.                                                         *)

Awaiting == waiting.for \in {"dispatch", "ping", "replay"}

\* Mutant: whatever line comes next is taken for the answer.
AnswersAny(message) == message # "exit"

\* match_response_id.
Answers(message) == message = waiting.id

\* The answer that was waited for.  A caller gives up after 5 seconds, the
\* server after 10.
Answered ==
    /\ Awaiting
    /\ mailbox # <<>>
    /\ Answers(Head(mailbox))
    /\ mailbox' = Tail(mailbox)
    /\ \/ /\ waiting.for = "dispatch"
          /\ waiting' = Idle
          /\ \E r \in {"ok", "exit"} : reply' = [reply EXCEPT ![waiting.id] = r]
          /\ UNCHANGED <<available, misses, wal>>
       \/ /\ waiting.for = "ping"
          /\ misses' = 0
          /\ IF available \/ NonEmpty = {}
               THEN available' = TRUE /\ waiting' = Idle
               ELSE /\ \E t \in NonEmpty : waiting' = ReplayAt(t, 1)
                    /\ UNCHANGED available
          /\ UNCHANGED <<wal, reply>>
       \/ /\ waiting.for = "replay"
          /\ ReplayGoesOn(waiting.file, waiting.line)
          /\ UNCHANGED <<misses, reply>>
    /\ UNCHANGED <<open, pipe, orphan, stored, applied>>

\* A line with another id, a late answer to an earlier request say, is skipped.
OtherAnswer ==
    /\ Awaiting
    /\ mailbox # <<>>
    /\ ~Answers(Head(mailbox))
    /\ Head(mailbox) # "exit"
    /\ mailbox' = Tail(mailbox)
    /\ UNCHANGED <<serverVars, open, pipe, orphan, walVars, applied, reply>>

\* apply_health_result of a failed ping: below the threshold Haft counts as
\* available, whatever it counted as before.
PingFails ==
    /\ misses' = IF misses < Threshold THEN misses + 1 ELSE misses
    /\ available' = (misses + 1 < Threshold)
    /\ waiting' = Idle

\* The subprocess exits while its answer is awaited.  A dispatched request gets
\* port_exit_unexpected, which is not stored.
AwaitExit ==
    /\ Awaiting
    /\ mailbox # <<>>
    /\ Head(mailbox) = "exit"
    /\ mailbox' = Tail(mailbox)
    /\ \/ /\ waiting.for = "dispatch"
          /\ waiting' = Idle
          /\ \E r \in {"error", "exit"} : reply' = [reply EXCEPT ![waiting.id] = r]
          /\ UNCHANGED <<available, misses, wal>>
       \/ /\ waiting.for = "ping"
          /\ PingFails
          /\ UNCHANGED <<wal, reply>>
       \/ /\ waiting.for = "replay"
          /\ ReplayFails(waiting.file, waiting.line)
          /\ UNCHANGED <<misses, reply>>
    /\ UNCHANGED <<open, pipe, orphan, stored, applied>>

\* Mutant: await_response has no time limit for a dispatched request.
TimeoutOfPings ==
    /\ waiting.for \in {"ping", "replay"}
    /\ mailbox = <<>>
    /\ pipe' = Forget(pipe)
    /\ \/ /\ waiting.for = "ping"
          /\ PingFails
          /\ UNCHANGED wal
       \/ /\ waiting.for = "replay"
          /\ ReplayFails(waiting.file, waiting.line)
          /\ UNCHANGED misses
    /\ UNCHANGED <<open, mailbox, orphan, stored, applied, reply>>

\* No answer in time.  A dispatched request is stored; its caller gave up
\* before.  Haft may still carry the request out.
Timeout ==
    /\ Awaiting
    /\ mailbox = <<>>
    /\ pipe' = Forget(pipe)
    /\ \/ /\ waiting.for = "dispatch"
          /\ AppendWal(waiting.id)
          /\ available' = FALSE
          /\ waiting' = Idle
          /\ reply' = [reply EXCEPT ![waiting.id] = "exit"]
          /\ UNCHANGED misses
       \/ /\ waiting.for = "ping"
          /\ PingFails
          /\ UNCHANGED <<walVars, reply>>
       \/ /\ waiting.for = "replay"
          /\ ReplayFails(waiting.file, waiting.line)
          /\ UNCHANGED <<misses, stored, reply>>
    /\ UNCHANGED <<open, mailbox, orphan, applied>>

-----------------------------------------------------------------------------

Server == Answered \/ OtherAnswer \/ AwaitExit \/ Timeout \/ ReplayLine
Haft   == HaftAnswers \/ OrphanReads

Next ==
    \/ Server \/ Haft \/ HaftExits
    \/ PortMessage \/ Ping
    \/ \E w \in Write : Dispatch(w)

Spec == Init /\ [][Next]_vars

\* The server's receive ends by its timeout at the latest.
ServerFairness == WF_vars(Server)

\* Pings are sent every 10 seconds, and Haft reads its input as long as it runs.
RecoveryFairness == WF_vars(HaftAnswers) /\ WF_vars(OrphanReads) /\ WF_vars(Ping)

FairSpec == Spec /\ ServerFairness
RecoverySpec == FairSpec /\ RecoveryFairness

-----------------------------------------------------------------------------
(* Properties.                                                             *)

Messages == Write \union {"ping", "old", "exit"}

\* Type invariant of the connection.
TypeOK ==
    /\ available \in BOOLEAN
    /\ misses \in 0..Threshold
    /\ waiting \in {Idle, Pinging} \union {Dispatching(w) : w \in Write}
           \union [for : {"replay_line"}, file : Ticket, line : Nat \ {0}]
           \union [for : {"replay"}, file : Ticket, line : Nat \ {0}, id : Write]
    /\ open \in BOOLEAN
    /\ pipe \in Seq(Messages) /\ Len(pipe) <= MaxPipe
    /\ mailbox \in Seq(Messages)
    /\ orphan \in Seq(Messages)
    /\ wal \in [Ticket -> Seq(Write)]
    /\ stored \subseteq Write
    /\ applied \subseteq Write
    /\ reply \in [Write -> {"none", "ok", "error", "unavailable", "exit"}]

InWal(w) == \E t \in Ticket : \E i \in DOMAIN wal[t] : wal[t][i] = w

\* A request the WAL took stays there until Haft has carried it out: no
\* failed replay, late answer, exit or restart loses it.
StoredNotLost == \A w \in stored : InWal(w) \/ w \in applied

\* A caller that is told ok has had its own request carried out, not an earlier
\* one whose answer came late.
OkMeansApplied == \A w \in Write : reply[w] = "ok" => w \in applied

\* Replay goes through a file in the order it was written: a line is sent only
\* when Haft has carried out all lines before it.
ReplayInOrder ==
    waiting.for \in {"replay_line", "replay"} =>
        \A i \in 1..(waiting.line - 1) : wal[waiting.file][i] \in applied

\* The server never hangs on a Haft that does not answer.
ServerReturns == waiting # Idle ~> waiting = Idle

-----------------------------------------------------------------------------
(* What the documents say of the WAL and the code does not keep.           *)

\* "On reconnect, Haft.Supervisor replays" the WAL (HAFT_CONTRACT.md): once Haft
\* runs and answers every ping for good, what was stored gets carried out.
StoredIsReplayed ==
    <>[](open /\ misses = 0) => \A w \in Write : w \in stored ~> w \in applied

=============================================================================
