---- MODULE SharedSidecar ----
(***************************************************************************)
(* The shared embedding daemon (internal/embedding/sidecar_shared_unix.go,  *)
(* the daemon itself in embed-sidecar/src/main.rs).  Haft processes find    *)
(* the daemon behind a socket path, start it under a lock file when nobody  *)
(* answers, and reconnect once when a request fails.                        *)
(***************************************************************************)
EXTENDS Integers, FiniteSets

CONSTANTS
    Clients,       \* haft processes that embed
    MaxDaemons,    \* bound: the daemon processes that are ever started (one per call is enough)
    NoClient,
    MaxEmbeds,     \* bound: calls that make an adapter or embed
    MaxFaults      \* bound: processes that die, deadlines a live process misses, requests
                   \* answered with an error

ASSUME ConstantsAssumption ==
    /\ NoClient \notin Clients /\ MaxDaemons \in Nat
    /\ MaxEmbeds \in Nat /\ MaxFaults \in Nat

VARIABLES
    socket,   \* the daemon that bound the file at the socket path, dead or alive
    lock,     \* who holds the lock file
    daemon,   \* Daemons -> state of the process
    client,   \* Clients -> what the haft process does
    used,     \* what is spent of the bounds
    disowned  \* history: a starter died before its daemon answered, or gave a live daemon up

vars == <<socket, lock, daemon, client, used, disowned>>

Daemons  == 1 .. MaxDaemons
NoDaemon == 0

\* A daemon goes none, loading, clear, bind, serving, exiting, removed, dead.
\* A client is "off" before its adapter exists and after it could not be made,
\* "ready" with an adapter.  conn is the daemon connected to, accepted whether it
\* has taken the connection, dialing which of the three dials this is, for what
\* it is for.
Off == [at |-> "off", for |-> "new", dialing |-> "first", conn |-> NoDaemon,
        accepted |-> FALSE, started |-> NoDaemon]

Spend(what, max) == used[what] < max /\ used' = [used EXCEPT ![what] = @ + 1]

\* The listener is open from bind until the process ends.
Listening(d) == d # NoDaemon /\ daemon[d] \in {"serving", "exiting", "removed"}

Gone(d) == daemon[d] = "dead"

Goes(c, next) == client' = [client EXCEPT ![c] = next]

Unlocked(c) == IF lock = c THEN NoClient ELSE lock

----------------------------------------------------------------------------
(* The client.                                                             *)

\* resolveEmbedder asks for an adapter.
New(c) ==
    /\ client[c] = Off
    /\ Spend("embeds", MaxEmbeds)
    /\ Goes(c, [Off EXCEPT !.at = "dial"])
    /\ UNCHANGED <<socket, lock, daemon, disowned>>

\* The dial failed: try under the lock, then start a daemon, then wait for it.
DialFailed(c) ==
    Goes(c, [client[c] EXCEPT !.conn = NoDaemon, !.accepted = FALSE,
                              !.at = CASE client[c].dialing = "first"  -> "lock"
                                       [] client[c].dialing = "locked" -> "remove"
                                       [] client[c].dialing = "wait"   -> "wait"])

\* net.DialTimeout: a file whose listener is gone refuses.
Dial(c) ==
    /\ client[c].at = "dial"
    /\ IF Listening(socket)
       THEN Goes(c, [client[c] EXCEPT !.at = "handshake", !.conn = socket])
       ELSE DialFailed(c)
    /\ UNCHANGED <<socket, lock, daemon, used, disowned>>

\* The adapter is made, or has its new connection and repeats the request.
Handshake(c) ==
    /\ client[c].at = "handshake"
    /\ client[c].accepted
    /\ ~Gone(client[c].conn)
    /\ Goes(c, [client[c] EXCEPT !.at = IF client[c].for = "new" THEN "ready" ELSE "again",
                                 !.dialing = "first", !.started = NoDaemon])
    /\ lock' = Unlocked(c)
    /\ UNCHANGED <<socket, daemon, used, disowned>>

\* The daemon is gone, or the handshake does not come in five seconds.
HandshakeFails(c) ==
    /\ client[c].at = "handshake"
    /\ \/ Gone(client[c].conn) /\ UNCHANGED <<used, disowned>>
       \/ /\ ~Gone(client[c].conn)
          /\ Spend("faults", MaxFaults)
          /\ disowned' = (disowned \/ client[c].dialing = "locked")
    /\ DialFailed(c)
    /\ UNCHANGED <<socket, lock, daemon>>

\* Mutant: whoever gets the lock starts a daemon without dialling again.
LockAndStart(c) ==
    /\ client[c].at = "lock"
    /\ lock = NoClient
    /\ lock' = c
    /\ Goes(c, [client[c] EXCEPT !.at = "remove", !.dialing = "locked"])
    /\ UNCHANGED <<socket, daemon, used, disowned>>

\* withSharedSidecarLock
Lock(c) ==
    /\ client[c].at = "lock"
    /\ lock = NoClient
    /\ lock' = c
    /\ Goes(c, [client[c] EXCEPT !.at = "dial", !.dialing = "locked"])
    /\ UNCHANGED <<socket, daemon, used, disowned>>

\* os.Remove(socket), whoever has bound it.
Remove(c) ==
    /\ client[c].at = "remove"
    /\ socket' = NoDaemon
    /\ Goes(c, [client[c] EXCEPT !.at = "start"])
    /\ UNCHANGED <<lock, daemon, used, disowned>>

\* startSharedSidecarDaemon
Start(c) ==
    \E d \in Daemons :
        /\ client[c].at = "start"
        /\ daemon[d] = "none" /\ \A e \in 1 .. d - 1 : daemon[e] # "none"
        /\ daemon' = [daemon EXCEPT ![d] = "loading"]
        /\ Goes(c, [client[c] EXCEPT !.at = "dial", !.dialing = "wait", !.started = d])
        /\ UNCHANGED <<socket, lock, used, disowned>>

\* Mutant: the lock is not released on the error paths.
GiveUpLocked(c) ==
    /\ Goes(c, [Off EXCEPT !.at = IF client[c].for = "new" THEN "off" ELSE "ready"])
    /\ UNCHANGED lock

\* The call ends without a connection: newSidecarAdapter degrades to keyword recall,
\* Embed returns an error and keeps the adapter with its closed connection.
GiveUp(c) ==
    /\ Goes(c, [Off EXCEPT !.at = IF client[c].for = "new" THEN "off" ELSE "ready"])
    /\ lock' = Unlocked(c)

\* waitForSharedSidecar between two dials: the daemon it started has exited, its
\* startup takes too long and it is killed, or it is dialled again.
WaitExited(c) ==
    /\ client[c].at = "wait"
    /\ Gone(client[c].started)
    /\ GiveUp(c)
    /\ UNCHANGED <<socket, daemon, used, disowned>>

WaitTimeout(c) ==
    /\ client[c].at = "wait"
    /\ ~Gone(client[c].started)
    /\ daemon' = [daemon EXCEPT ![client[c].started] = "dead"]
    /\ GiveUp(c)
    /\ UNCHANGED <<socket, used, disowned>>

WaitAgain(c) ==
    /\ client[c].at = "wait"
    /\ ~Gone(client[c].started)
    /\ Goes(c, [client[c] EXCEPT !.at = "dial"])
    /\ UNCHANGED <<socket, lock, daemon, used, disowned>>

\* Embed sends its request over the connection it has.
Embed(c) ==
    /\ client[c].at = "ready"
    /\ Spend("embeds", MaxEmbeds)
    /\ Goes(c, [client[c] EXCEPT !.at = "first", !.for = "embed"])
    /\ UNCHANGED <<socket, lock, daemon, disowned>>

Connected(c) == client[c].conn # NoDaemon /\ ~Gone(client[c].conn)

\* The daemon answers.
EmbedAnswered(c) ==
    /\ client[c].at \in {"first", "again"}
    /\ Connected(c)
    /\ Goes(c, [client[c] EXCEPT !.at = "ready"])
    /\ UNCHANGED <<socket, lock, daemon, used, disowned>>

\* The connection is dead, or the answer is an error: the first time round
\* reconnectLocked closes the connection and looks for the daemon again.
EmbedFailed(c) ==
    /\ client[c].at \in {"first", "again"}
    /\ \/ ~Connected(c) /\ UNCHANGED used
       \/ Connected(c) /\ Spend("faults", MaxFaults)
    /\ Goes(c, IF client[c].at = "first"
               THEN [Off EXCEPT !.at = "dial", !.for = "embed"]
               ELSE [client[c] EXCEPT !.at = "ready"])
    /\ UNCHANGED <<socket, lock, daemon, disowned>>

\* The process ends in the middle of anything: the kernel releases its lock and
\* closes its connection, the daemon it started lives on in its own process group.
Crash(c) ==
    /\ client[c] # Off
    /\ Spend("faults", MaxFaults)
    /\ Goes(c, Off)
    /\ lock' = Unlocked(c)
    /\ disowned' = (disowned \/ client[c].started # NoDaemon)
    /\ UNCHANGED <<socket, daemon>>

\* Close, at the end of a session.
Close(c) ==
    /\ client[c].at = "ready"
    /\ Goes(c, Off)
    /\ UNCHANGED <<socket, lock, daemon, used, disowned>>

----------------------------------------------------------------------------
(* The daemon: run_socket.                                                 *)

Becomes(d, state) == daemon' = [daemon EXCEPT ![d] = state]

Load(d) == daemon[d] = "loading" /\ Becomes(d, "clear") /\ UNCHANGED <<socket, lock, client, used, disowned>>

\* A stale socket file is removed; the file may be another daemon's.
ClearStale(d) ==
    /\ daemon[d] = "clear"
    /\ socket' = NoDaemon
    /\ Becomes(d, "bind")
    /\ UNCHANGED <<lock, client, used, disowned>>

\* bind fails when there is a file again.
Bind(d) ==
    /\ daemon[d] = "bind"
    /\ IF socket = NoDaemon THEN socket' = d /\ Becomes(d, "serving")
       ELSE UNCHANGED socket /\ Becomes(d, "dead")
    /\ UNCHANGED <<lock, client, used, disowned>>

\* accept, and the handshake line of the client's thread.
Accept(d) ==
    \E c \in Clients :
        /\ daemon[d] = "serving"
        /\ client[c].at = "handshake" /\ client[c].conn = d /\ ~client[c].accepted
        /\ Goes(c, [client[c] EXCEPT !.accepted = TRUE])
        /\ UNCHANGED <<socket, lock, daemon, used, disowned>>

Active(d) == {c \in Clients : client[c].conn = d}

\* Mutant: a daemon with clients exits when it has been idle for long enough.
IdleExitAlways(d) ==
    /\ daemon[d] = "serving"
    /\ Becomes(d, "exiting")
    /\ UNCHANGED <<socket, lock, client, used, disowned>>

\* should_exit_idle: nobody is connected, nor waiting to be accepted when it looked.
IdleExit(d) ==
    /\ daemon[d] = "serving"
    /\ Active(d) = {}
    /\ Becomes(d, "exiting")
    /\ UNCHANGED <<socket, lock, client, used, disowned>>

\* The last statements: the socket file is removed, whoever has bound it by now,
\* and the process ends.
RemoveSocket(d) ==
    /\ daemon[d] = "exiting"
    /\ socket' = NoDaemon
    /\ Becomes(d, "removed")
    /\ UNCHANGED <<lock, client, used, disowned>>

Exit(d) == daemon[d] = "removed" /\ Becomes(d, "dead") /\ UNCHANGED <<socket, lock, client, used, disowned>>

\* The model does not load, the process is killed: the socket file stays.
Die(d) ==
    /\ daemon[d] \notin {"none", "dead"}
    /\ Spend("faults", MaxFaults)
    /\ Becomes(d, "dead")
    /\ UNCHANGED <<socket, lock, client, disowned>>

----------------------------------------------------------------------------

Init ==
    /\ socket = NoDaemon
    /\ lock = NoClient
    /\ daemon = [d \in Daemons |-> "none"]
    /\ client = [c \in Clients |-> Off]
    /\ used = [what \in {"embeds", "faults"} |-> 0]
    /\ disowned = FALSE

ClientStep(c) ==
    \/ Dial(c) \/ Handshake(c) \/ HandshakeFails(c) \/ Remove(c) \/ Start(c)
    \/ WaitExited(c) \/ WaitTimeout(c) \/ WaitAgain(c) \/ EmbedAnswered(c) \/ EmbedFailed(c)

DaemonStep(d) == Load(d) \/ ClearStale(d) \/ Bind(d) \/ Accept(d) \/ RemoveSocket(d) \/ Exit(d)

Next ==
    \/ \E c \in Clients : New(c) \/ Embed(c) \/ Lock(c) \/ ClientStep(c) \/ Crash(c) \/ Close(c)
    \/ \E d \in Daemons : DaemonStep(d) \/ IdleExit(d) \/ Die(d)

\* Processes that are alive go on, the lock file is granted in turn, and the loop of
\* waitForSharedSidecar looks at its deadline on every pass.
Fairness ==
    /\ \A c \in Clients : WF_vars(ClientStep(c)) /\ SF_vars(Lock(c)) /\ SF_vars(WaitTimeout(c))
    /\ \A d \in Daemons : WF_vars(DaemonStep(d))

Spec == Init /\ [][Next]_vars /\ Fairness

----------------------------------------------------------------------------
(* Properties.                                                             *)

\* The daemons that hold, or are about to hold, a loaded model.
Running == {d \in Daemons : daemon[d] \in {"loading", "clear", "bind", "serving"}}

\* The lock file makes it one daemon, and that one is found at the socket path: an
\* idle exit does not take the path from its successor.  It takes a starter that dies
\* before its daemon answers, or that waits five seconds for a live one, to break it.
OneReachableDaemon ==
    ~disowned => /\ Cardinality(Running) <= 1
                 /\ \A d \in Daemons : daemon[d] = "serving" => socket = d

\* A connection that was accepted ends only with its client or by the daemon's death,
\* never by an idle exit.
AcceptedIsServed ==
    \A c \in Clients :
        (client[c].accepted /\ client[c].conn # NoDaemon)
            => daemon[client[c].conn] \in {"serving", "dead"}

Busy(c) == client[c].at \notin {"off", "ready"}

\* A call of Embed, and the making of the adapter, ends.
CallsEnd == \A c \in Clients : Busy(c) ~> ~Busy(c)
====
