------------------------ MODULE SharedSidecar_proofs ------------------------
(***************************************************************************)
(* TLAPS proofs about the shared embedding daemon, for any number of haft  *)
(* processes, daemons, calls and faults.                                   *)
(*                                                                         *)
(* The argument: the lock file is held exactly while a client looks under  *)
(* it or waits for the daemon it started (LockIsHeld), so that a daemon    *)
(* that does not answer yet is the one the holder waits for, and a holder  *)
(* that starts one has seen every former daemon gone (OneIsUp).            *)
(***************************************************************************)
EXTENDS SharedSidecar, FiniteSetTheorems, TLAPS

Steps == {"off", "dial", "handshake", "lock", "remove", "start", "wait", "ready", "first", "again"}

DaemonState == {"none", "loading", "clear", "bind", "serving", "exiting", "removed", "dead"}

Client == [at : Steps, for : {"new", "embed"}, dialing : {"first", "locked", "wait"},
           conn : Daemons \union {NoDaemon}, accepted : BOOLEAN,
           started : Daemons \union {NoDaemon}]

\* The types of the variables.
TypeOK ==
    /\ socket \in Daemons \union {NoDaemon}
    /\ lock \in Clients \union {NoClient}
    /\ daemon \in [Daemons -> DaemonState]
    /\ client \in [Clients -> Client]
    /\ used \in [{"embeds", "faults"} -> Nat]
    /\ disowned \in BOOLEAN

\* A client has a connection from a dial that succeeds until it dials again; it
\* has started a daemon exactly when the third kind of dial is under way.
ClientSound(k) ==
    /\ k.at \in {"off", "dial", "lock", "remove", "start", "wait"} =>
          k.conn = NoDaemon /\ ~k.accepted
    /\ k.at = "handshake" => k.conn # NoDaemon
    /\ k.started # NoDaemon <=> k.dialing = "wait"
    /\ k.at \in {"remove", "start"} => k.dialing = "locked"
    /\ k.at = "wait" => k.dialing = "wait"
    /\ k.at \in {"off", "lock", "ready", "first", "again"} => k.dialing = "first"

\* The lock file is held exactly from the second dial to the end of the search
\* for a daemon.
LockIsHeld ==
    \A c \in Clients : ClientSound(client[c]) /\ (lock = c <=> client[c].dialing # "first")

\* A daemon that will serve, serves, or has not removed its socket file yet.
Early(d) == daemon[d] \in {"loading", "clear", "bind"}
AtPath(d) == daemon[d] \in {"serving", "exiting"}

\* A client that looks under the lock knows which daemon can be up.
Knows(k, d) ==
    /\ k.started \in {NoDaemon, d}
    /\ k.at \notin {"remove", "start"}
    /\ k.at = "handshake" /\ k.dialing = "locked" => k.conn = d

\* While nobody disowned a daemon: the one that is up is at the socket path from
\* bind until it removes the file, and before that its starter waits for it.
OneIsUp ==
    ~disowned =>
        /\ \A d \in Daemons : AtPath(d) => socket = d
        /\ \A d \in Daemons : Early(d) => lock \in Clients /\ client[lock].started = d
        /\ \A c \in Clients, d \in Daemons : Early(d) \/ AtPath(d) => Knows(client[c], d)

\* The inductive invariant.
SidecarInv == TypeOK /\ LockIsHeld /\ OneIsUp /\ AcceptedIsServed

-----------------------------------------------------------------------------
(* Facts about the operators of the model.                                 *)

\* No daemon has the number that stands for none.
LEMMA NoDaemonIsNone == NoDaemon \notin Daemons /\ NoDaemon = 0
BY ConstantsAssumption DEF Daemons, NoDaemon

\* The state before a client's adapter exists.
LEMMA OffIsSound ==
    /\ Off \in Client /\ ClientSound(Off) /\ Off.at = "off" /\ Off.dialing = "first"
    /\ Off.started = NoDaemon /\ ~Off.accepted /\ Off.conn = NoDaemon
BY DEF Off, Client, Steps, ClientSound

\* Spending a bound keeps its type.
LEMMA SpendType ==
    ASSUME TypeOK, NEW what \in {"embeds", "faults"}, NEW max, Spend(what, max)
    PROVE  used' \in [{"embeds", "faults"} -> Nat]
BY DEF TypeOK, Spend

\* One client moves on, in front of daemons that do not.
LEMMA ClientMoves ==
    ASSUME SidecarInv, NEW c \in Clients, NEW k \in Client, Goes(c, k),
           ClientSound(k),
           UNCHANGED <<socket, daemon>>,
           used' \in [{"embeds", "faults"} -> Nat], disowned' \in BOOLEAN, disowned => disowned',
           lock' = lock \/ (lock = c /\ lock' = NoClient) \/ (lock = NoClient /\ lock' = c),
           lock' = c <=> k.dialing # "first",
           ~disowned' => \A d \in Daemons : Early(d) /\ client[c].started = d => k.started = d,
           ~disowned' => \A d \in Daemons : Early(d) \/ AtPath(d) => Knows(k, d),
           k.accepted /\ k.conn # NoDaemon => daemon[k.conn] \in {"serving", "dead"}
    PROVE  SidecarInv'
<1>1. /\ client' = [client EXCEPT ![c] = k] /\ client'[c] = k
      /\ \A b \in Clients \ {c} : client'[b] = client[b]
  BY DEF Goes, SidecarInv, TypeOK
<1>2. TypeOK'
  BY <1>1 DEF SidecarInv, TypeOK
<1>3. LockIsHeld'
  <2> SUFFICES ASSUME NEW b \in Clients
               PROVE  ClientSound(client'[b]) /\ (lock' = b <=> client'[b].dialing # "first")
    BY DEF LockIsHeld
  <2>1. CASE b = c
    BY <1>1, <2>1
  <2>2. CASE b # c
    BY <1>1, <2>2, ConstantsAssumption DEF SidecarInv, LockIsHeld
  <2>3. QED
    BY <2>1, <2>2
<1>4. OneIsUp'
  <2> SUFFICES ASSUME ~disowned'
               PROVE  /\ \A d \in Daemons : AtPath(d) => socket = d
                      /\ \A d \in Daemons : Early(d) => lock' \in Clients /\ client'[lock'].started = d
                      /\ \A b \in Clients, d \in Daemons : Early(d) \/ AtPath(d) => Knows(client'[b], d)
    BY DEF OneIsUp, AtPath, Early
  <2>1. ~disowned /\ OneIsUp
    BY DEF SidecarInv
  <2>2. \A d \in Daemons : AtPath(d) => socket = d
    BY <2>1 DEF OneIsUp
  <2>3. ASSUME NEW d \in Daemons, Early(d)
        PROVE  lock' \in Clients /\ client'[lock'].started = d
    <3>1. lock \in Clients /\ client[lock].started = d
      BY <2>1, <2>3 DEF OneIsUp
    <3>2. CASE lock = c
      <4>1. k.started = d
        BY <2>3, <3>1, <3>2
      <4>2. lock' = c
        BY <4>1, NoDaemonIsNone DEF ClientSound
      <4>3. QED
        BY <1>1, <4>1, <4>2
    <3>3. CASE lock # c
      BY <1>1, <3>1, <3>3, ConstantsAssumption
    <3>4. QED
      BY <3>2, <3>3
  <2>4. ASSUME NEW b \in Clients, NEW d \in Daemons, Early(d) \/ AtPath(d)
        PROVE  Knows(client'[b], d)
    BY <1>1, <2>1, <2>4 DEF OneIsUp
  <2>5. QED
    BY <2>2, <2>3, <2>4
<1>5. AcceptedIsServed'
  BY <1>1 DEF SidecarInv, AcceptedIsServed
<1>6. QED
  BY <1>2, <1>3, <1>4, <1>5 DEF SidecarInv
\* What the invariant says of one client.
LEMMA ClientFacts ==
    ASSUME SidecarInv, NEW c \in Clients
    PROVE  /\ client[c] \in Client /\ ClientSound(client[c]) /\ used \in [{"embeds", "faults"} -> Nat]
           /\ disowned \in BOOLEAN
           /\ lock = c <=> client[c].dialing # "first"
           /\ ~disowned => \A d \in Daemons : Early(d) \/ AtPath(d) => Knows(client[c], d)
           /\ client[c].accepted /\ client[c].conn # NoDaemon
                 => daemon[client[c].conn] \in {"serving", "dead"}
BY DEF SidecarInv, TypeOK, LockIsHeld, OneIsUp, AcceptedIsServed

-----------------------------------------------------------------------------
(* Steps of a client that no daemon takes part in.                         *)

\* An adapter is asked for: the search for a daemon begins with a dial.
LEMMA NewKeeps == ASSUME NEW c \in Clients PROVE SidecarInv /\ New(c) => SidecarInv'
<1> SUFFICES ASSUME SidecarInv, New(c) PROVE SidecarInv'
  OBVIOUS
<1> DEFINE k == [Off EXCEPT !.at = "dial"]
<1>1. /\ client[c] = Off /\ Goes(c, k) /\ UNCHANGED <<socket, lock, daemon, disowned>>
      /\ used' \in [{"embeds", "faults"} -> Nat]
  BY SpendType DEF New, SidecarInv
<1>2. /\ k \in Client /\ k.at = "dial" /\ k.dialing = "first" /\ k.started = NoDaemon
      /\ k.conn = NoDaemon /\ ~k.accepted
  BY DEF Off, Client, Steps
<1> HIDE DEF k
<1>3. ClientSound(k) /\ \A d \in Daemons : Knows(k, d)
  BY <1>2 DEF ClientSound, Knows
<1>4. Off.started = NoDaemon /\ (lock = c <=> Off.dialing # "first")
  BY <1>1, ClientFacts, OffIsSound
<1>5. QED
  BY <1>1, <1>2, <1>3, <1>4, ClientFacts, OffIsSound, ClientMoves, NoDaemonIsNone

\* A request is sent, answered, or answered with an error the second time.
LEMMA EmbedKeeps ==
    ASSUME NEW c \in Clients PROVE SidecarInv /\ (Embed(c) \/ EmbedAnswered(c)) => SidecarInv'
<1>1. ASSUME SidecarInv, Embed(c) PROVE SidecarInv'
  <2> DEFINE k == [client[c] EXCEPT !.at = "first", !.for = "embed"]
  <2>1. /\ client[c].at = "ready" /\ Goes(c, k) /\ UNCHANGED <<socket, lock, daemon, disowned>>
        /\ used' \in [{"embeds", "faults"} -> Nat]
    BY <1>1, SpendType DEF Embed, SidecarInv
  <2>2. /\ k \in Client /\ k.at = "first" /\ k.dialing = client[c].dialing
        /\ k.started = client[c].started /\ k.conn = client[c].conn
        /\ (k.accepted <=> client[c].accepted)
    BY <1>1, ClientFacts DEF Client, Steps
  <2> HIDE DEF k
  <2>3. ClientSound(k) /\ k.dialing = "first" /\ k.started = NoDaemon
    BY <1>1, <2>1, <2>2, ClientFacts DEF ClientSound
  <2>4. \A d \in Daemons : Knows(k, d)
    BY <2>2, <2>3 DEF Knows
  <2>5. QED
    BY <1>1, <2>1, <2>2, <2>3, <2>4, ClientFacts, ClientMoves
<1>2. ASSUME SidecarInv, EmbedAnswered(c) PROVE SidecarInv'
  <2> DEFINE k == [client[c] EXCEPT !.at = "ready"]
  <2>1. /\ client[c].at \in {"first", "again"} /\ Goes(c, k)
        /\ UNCHANGED <<socket, lock, daemon, used, disowned>>
    BY <1>2 DEF EmbedAnswered
  <2>2. /\ k \in Client /\ k.at = "ready" /\ k.dialing = client[c].dialing
        /\ k.started = client[c].started /\ k.conn = client[c].conn
        /\ (k.accepted <=> client[c].accepted)
    BY <1>2, ClientFacts DEF Client, Steps
  <2> HIDE DEF k
  <2>3. ClientSound(k) /\ k.dialing = "first" /\ k.started = NoDaemon
    BY <1>2, <2>1, <2>2, ClientFacts DEF ClientSound
  <2>4. \A d \in Daemons : Knows(k, d)
    BY <2>2, <2>3 DEF Knows
  <2>5. QED
    BY <1>2, <2>1, <2>2, <2>3, <2>4, ClientFacts, ClientMoves
<1>3. QED
  BY <1>1, <1>2

\* A failed request is repeated once, over a new connection.
LEMMA EmbedFailedKeeps == ASSUME NEW c \in Clients PROVE SidecarInv /\ EmbedFailed(c) => SidecarInv'
<1> SUFFICES ASSUME SidecarInv, EmbedFailed(c) PROVE SidecarInv'
  OBVIOUS
<1> DEFINE k == IF client[c].at = "first" THEN [Off EXCEPT !.at = "dial", !.for = "embed"]
                ELSE [client[c] EXCEPT !.at = "ready"]
<1>1. /\ client[c].at \in {"first", "again"} /\ Goes(c, k)
      /\ UNCHANGED <<socket, lock, daemon, disowned>>
  BY DEF EmbedFailed
<1>2. used' \in [{"embeds", "faults"} -> Nat]
  BY SpendType DEF EmbedFailed, SidecarInv, TypeOK
<1>3. client[c] \in Client /\ client[c].dialing = "first" /\ client[c].started = NoDaemon
  BY <1>1, ClientFacts DEF ClientSound
<1>4. /\ k \in Client /\ k.dialing = "first" /\ k.started = NoDaemon
      /\ k.at \in {"dial", "ready"}
      /\ k.at = "dial" => k.conn = NoDaemon /\ ~k.accepted
      /\ k.at = "ready" => k.conn = client[c].conn /\ (k.accepted <=> client[c].accepted)
  BY <1>3 DEF Off, Client, Steps
<1> HIDE DEF k
<1>5. ClientSound(k) /\ \A d \in Daemons : Knows(k, d)
  BY <1>4 DEF ClientSound, Knows
<1>6. QED
  BY <1>1, <1>2, <1>3, <1>4, <1>5, ClientFacts, ClientMoves

\* A session ends.
LEMMA CloseKeeps == ASSUME NEW c \in Clients PROVE SidecarInv /\ Close(c) => SidecarInv'
<1> SUFFICES ASSUME SidecarInv, Close(c) PROVE SidecarInv'
  OBVIOUS
<1>1. client[c].at = "ready" /\ Goes(c, Off) /\ UNCHANGED <<socket, lock, daemon, used, disowned>>
  BY DEF Close
<1>2. client[c].dialing = "first" /\ client[c].started = NoDaemon
  BY <1>1, ClientFacts DEF ClientSound
<1>3. \A d \in Daemons : Knows(Off, d)
  BY OffIsSound DEF Knows
<1>4. QED
  BY <1>1, <1>2, <1>3, ClientFacts, OffIsSound, ClientMoves

\* A process that dies gives up its lock, and disowns the daemon it waited for.
LEMMA CrashKeeps == ASSUME NEW c \in Clients PROVE SidecarInv /\ Crash(c) => SidecarInv'
<1> SUFFICES ASSUME SidecarInv, Crash(c) PROVE SidecarInv'
  OBVIOUS
<1>1. /\ Goes(c, Off) /\ lock' = Unlocked(c) /\ UNCHANGED <<socket, daemon>>
      /\ disowned' = (disowned \/ client[c].started # NoDaemon)
      /\ used' \in [{"embeds", "faults"} -> Nat]
  BY SpendType DEF Crash, SidecarInv
<1>2. lock' = lock \/ (lock = c /\ lock' = NoClient)
  BY <1>1 DEF Unlocked
<1>3. lock' # c
  BY <1>1, ConstantsAssumption DEF Unlocked
<1>4. /\ disowned' \in BOOLEAN /\ (disowned => disowned')
      /\ (~disowned' => client[c].started = NoDaemon)
  BY <1>1, ClientFacts
<1>5. \A d \in Daemons : Knows(Off, d)
  BY OffIsSound DEF Knows
<1>6. QED
  BY <1>1, <1>2, <1>3, <1>4, <1>5, OffIsSound, ClientMoves, NoDaemonIsNone
-----------------------------------------------------------------------------
(* The search for a daemon.                                                *)

\* A client that looks under the lock has no daemon on the way.
LEMMA NoneEarlyUnderLock ==
    ASSUME SidecarInv, ~disowned, NEW c \in Clients, client[c].dialing = "locked", NEW d \in Daemons
    PROVE  ~Early(d)
<1> SUFFICES ASSUME Early(d) PROVE FALSE
  OBVIOUS
<1>1. lock \in Clients /\ client[lock].started = d
  BY DEF SidecarInv, OneIsUp
<1>2. lock = c
  BY ClientFacts
<1>3. client[c].started = NoDaemon
  BY ClientFacts DEF ClientSound
<1>4. QED
  BY <1>1, <1>2, <1>3, NoDaemonIsNone

\* A failed dial leads to the next kind of dial; under the lock it may say so only
\* when no daemon is up.
LEMMA FailedDialKeeps ==
    ASSUME SidecarInv, NEW c \in Clients, client[c].at \in {"dial", "handshake"}, DialFailed(c),
           UNCHANGED <<socket, lock, daemon>>,
           used' \in [{"embeds", "faults"} -> Nat], disowned' \in BOOLEAN, disowned => disowned',
           ~disowned' /\ client[c].dialing = "locked" => \A d \in Daemons : ~Early(d) /\ ~AtPath(d)
    PROVE  SidecarInv'
<1> DEFINE p == CASE client[c].dialing = "first"  -> "lock"
                  [] client[c].dialing = "locked" -> "remove"
                  [] client[c].dialing = "wait"   -> "wait"
           k == [client[c] EXCEPT !.conn = NoDaemon, !.accepted = FALSE, !.at = p]
<1>1. Goes(c, k)
  BY DEF DialFailed
<1>2. client[c] \in Client /\ client[c].dialing \in {"first", "locked", "wait"}
  BY ClientFacts DEF Client
<1>3. /\ p \in Steps
      /\ client[c].dialing = "first" => p = "lock"
      /\ client[c].dialing = "locked" => p = "remove"
      /\ client[c].dialing = "wait" => p = "wait"
  BY <1>2 DEF Steps
<1> HIDE DEF p
<1>4. /\ k \in Client /\ k.at = p /\ k.conn = NoDaemon /\ ~k.accepted
      /\ k.dialing = client[c].dialing /\ k.started = client[c].started
  BY <1>2, <1>3 DEF Client
<1> HIDE DEF k
<1>5. ClientSound(k)
  BY <1>2, <1>3, <1>4, ClientFacts DEF ClientSound
<1>6. ~disowned' => \A d \in Daemons : Early(d) \/ AtPath(d) => Knows(k, d)
  BY <1>2, <1>3, <1>4, ClientFacts DEF Knows
<1>7. lock' = c <=> k.dialing # "first"
  BY <1>4, ClientFacts
<1>8. QED
  BY <1>1, <1>4, <1>5, <1>6, <1>7, ClientMoves

\* A dial reaches the daemon at the socket path; under the lock it misses none.
LEMMA DialKeeps == ASSUME NEW c \in Clients PROVE SidecarInv /\ Dial(c) => SidecarInv'
<1> SUFFICES ASSUME SidecarInv, Dial(c) PROVE SidecarInv'
  OBVIOUS
<1>1. client[c].at = "dial" /\ UNCHANGED <<socket, lock, daemon, used, disowned>>
  BY DEF Dial
<1>2. CASE Listening(socket)
  <2> DEFINE k == [client[c] EXCEPT !.at = "handshake", !.conn = socket]
  <2>1. Goes(c, k) /\ socket \in Daemons \union {NoDaemon}
    BY <1>2 DEF Dial, SidecarInv, TypeOK
  <2>2. /\ k \in Client /\ k.at = "handshake" /\ k.conn = socket /\ ~k.accepted
        /\ k.dialing = client[c].dialing /\ k.started = client[c].started
    <3>1. client[c] \in Client /\ ~client[c].accepted
      BY <1>1, ClientFacts DEF ClientSound
    <3>2. QED
      BY <2>1, <3>1 DEF Client, Steps
  <2> HIDE DEF k
  <2>3. ClientSound(k)
    BY <1>1, <1>2, <2>2, ClientFacts DEF ClientSound, Listening
  <2>4. ASSUME ~disowned, NEW d \in Daemons, Early(d) \/ AtPath(d)
        PROVE  Knows(k, d)
    <3>1. AtPath(d) => socket = d
      BY <2>4 DEF SidecarInv, OneIsUp
    <3>2. client[c].dialing = "locked" => ~Early(d)
      BY <2>4, NoneEarlyUnderLock
    <3>3. Knows(client[c], d)
      BY <2>4, ClientFacts
    <3>4. QED
      BY <2>2, <2>4, <3>1, <3>2, <3>3 DEF Knows
  <2>5. QED
    BY <1>1, <2>1, <2>2, <2>3, <2>4, ClientFacts, ClientMoves
<1>3. CASE ~Listening(socket)
  <2>1. DialFailed(c)
    BY <1>3 DEF Dial
  <2>2. ASSUME ~disowned, client[c].dialing = "locked", NEW d \in Daemons
        PROVE  ~Early(d) /\ ~AtPath(d)
    <3>1. AtPath(d) => socket = d
      BY <2>2 DEF SidecarInv, OneIsUp
    <3>2. ~AtPath(d)
      BY <1>3, <3>1, NoDaemonIsNone DEF Listening, AtPath
    <3>3. QED
      BY <2>2, <3>2, NoneEarlyUnderLock
  <2>3. QED
    BY <1>1, <2>1, <2>2, ClientFacts, FailedDialKeeps
<1>4. QED
  BY <1>2, <1>3

\* A daemon that dies in the handshake was the last one up, if it was dialled under
\* the lock; giving up a live one disowns it.
LEMMA HandshakeFailsKeeps ==
    ASSUME NEW c \in Clients PROVE SidecarInv /\ HandshakeFails(c) => SidecarInv'
<1> SUFFICES ASSUME SidecarInv, HandshakeFails(c) PROVE SidecarInv'
  OBVIOUS
<1>1. client[c].at = "handshake" /\ DialFailed(c) /\ UNCHANGED <<socket, lock, daemon>>
  BY DEF HandshakeFails
<1>2. used' \in [{"embeds", "faults"} -> Nat]
  BY SpendType DEF HandshakeFails, SidecarInv, TypeOK
<1>3. CASE Gone(client[c].conn) /\ UNCHANGED disowned
  <2>1. ASSUME ~disowned, client[c].dialing = "locked", NEW d \in Daemons
        PROVE  ~Early(d) /\ ~AtPath(d)
    <3>1. Early(d) \/ AtPath(d) => client[c].conn = d
      BY <1>1, <2>1, ClientFacts DEF Knows
    <3>2. QED
      BY <1>3, <3>1 DEF Gone, Early, AtPath
  <2>2. QED
    BY <1>1, <1>2, <1>3, <2>1, ClientFacts, FailedDialKeeps
<1>4. CASE disowned' = (disowned \/ client[c].dialing = "locked")
  <2>1. disowned' \in BOOLEAN /\ (disowned => disowned') /\ (client[c].dialing = "locked" => disowned')
    BY <1>4, ClientFacts
  <2>2. QED
    BY <1>1, <1>2, <2>1, FailedDialKeeps
<1>5. QED
  BY <1>3, <1>4 DEF HandshakeFails

\* A client that is served ends its search; if it waited for a daemon, this is it.
LEMMA HandshakeKeeps == ASSUME NEW c \in Clients PROVE SidecarInv /\ Handshake(c) => SidecarInv'
<1> SUFFICES ASSUME SidecarInv, Handshake(c) PROVE SidecarInv'
  OBVIOUS
<1> DEFINE q == IF client[c].for = "new" THEN "ready" ELSE "again"
           k == [client[c] EXCEPT !.at = q, !.dialing = "first", !.started = NoDaemon]
<1>1. /\ client[c].accepted /\ ~Gone(client[c].conn) /\ Goes(c, k) /\ lock' = Unlocked(c)
      /\ UNCHANGED <<socket, daemon, used, disowned>>
  BY DEF Handshake
<1>2. client[c] \in Client /\ q \in {"ready", "again"}
  BY ClientFacts
<1> HIDE DEF q
<1>3. /\ k \in Client /\ k.at \in {"ready", "again"} /\ k.dialing = "first" /\ k.started = NoDaemon
      /\ k.conn = client[c].conn /\ (k.accepted <=> client[c].accepted)
  BY <1>2, NoDaemonIsNone DEF Client, Steps
<1> HIDE DEF k
<1>4. ClientSound(k) /\ \A d \in Daemons : Knows(k, d)
  BY <1>3 DEF ClientSound, Knows
<1>5. lock' = lock \/ (lock = c /\ lock' = NoClient)
  BY <1>1 DEF Unlocked
<1>6. lock' # c
  BY <1>1, ConstantsAssumption DEF Unlocked
<1>7. ASSUME ~disowned, NEW d \in Daemons, Early(d), client[c].started = d
      PROVE  FALSE
  <2>1. client[c].at = "handshake" /\ client[c].conn # NoDaemon
    BY ClientFacts DEF Handshake, ClientSound
  <2>2. client[c].conn \in Daemons /\ daemon[client[c].conn] = "serving"
    BY <1>1, <1>2, <2>1, ClientFacts DEF Gone, Client
  <2>3. client[c].started \in {NoDaemon, client[c].conn}
    BY <1>7, <2>2, ClientFacts DEF AtPath, Knows
  <2>4. QED
    BY <1>7, <2>2, <2>3, NoDaemonIsNone DEF Early
<1>8. QED
  BY <1>1, <1>3, <1>4, <1>5, <1>6, <1>7, ClientFacts, ClientMoves
\* Whoever gets the lock dials again.
LEMMA LockKeeps == ASSUME NEW c \in Clients PROVE SidecarInv /\ Lock(c) => SidecarInv'
<1> SUFFICES ASSUME SidecarInv, Lock(c) PROVE SidecarInv'
  OBVIOUS
<1> DEFINE k == [client[c] EXCEPT !.at = "dial", !.dialing = "locked"]
<1>1. /\ client[c].at = "lock" /\ lock = NoClient /\ lock' = c /\ Goes(c, k)
      /\ UNCHANGED <<socket, daemon, used, disowned>>
  BY DEF Lock
<1>2. /\ client[c] \in Client /\ client[c].started = NoDaemon
      /\ client[c].conn = NoDaemon /\ ~client[c].accepted
  BY <1>1, ClientFacts DEF ClientSound
<1>3. /\ k \in Client /\ k.at = "dial" /\ k.dialing = "locked" /\ k.started = NoDaemon
      /\ k.conn = NoDaemon /\ ~k.accepted
  BY <1>2 DEF Client, Steps
<1> HIDE DEF k
<1>4. ClientSound(k) /\ \A d \in Daemons : Knows(k, d)
  BY <1>3 DEF ClientSound, Knows
<1>5. QED
  BY <1>1, <1>2, <1>3, <1>4, ClientFacts, ClientMoves, NoDaemonIsNone

\* The daemon that was started is dialled again.
LEMMA WaitAgainKeeps == ASSUME NEW c \in Clients PROVE SidecarInv /\ WaitAgain(c) => SidecarInv'
<1> SUFFICES ASSUME SidecarInv, WaitAgain(c) PROVE SidecarInv'
  OBVIOUS
<1> DEFINE k == [client[c] EXCEPT !.at = "dial"]
<1>1. client[c].at = "wait" /\ Goes(c, k) /\ UNCHANGED <<socket, lock, daemon, used, disowned>>
  BY DEF WaitAgain
<1>2. /\ client[c] \in Client /\ client[c].dialing = "wait"
      /\ client[c].conn = NoDaemon /\ ~client[c].accepted
  BY <1>1, ClientFacts DEF ClientSound
<1>3. /\ k \in Client /\ k.at = "dial" /\ k.dialing = "wait" /\ k.started = client[c].started
      /\ k.conn = NoDaemon /\ ~k.accepted
  BY <1>2 DEF Client, Steps
<1> HIDE DEF k
<1>4. ClientSound(k)
  BY <1>2, <1>3, ClientFacts DEF ClientSound
<1>5. ~disowned => \A d \in Daemons : Early(d) \/ AtPath(d) => Knows(k, d)
  BY <1>3, ClientFacts DEF Knows
<1>6. QED
  BY <1>1, <1>2, <1>3, <1>4, <1>5, ClientFacts, ClientMoves

\* What a client is after it gave up.
LEMMA GaveUp ==
    ASSUME SidecarInv, NEW c \in Clients, GiveUp(c)
    PROVE  \E k \in Client :
              /\ Goes(c, k) /\ ClientSound(k) /\ k.dialing = "first" /\ k.started = NoDaemon
              /\ ~k.accepted /\ \A d \in Daemons : Knows(k, d)
              /\ lock' = lock \/ (lock = c /\ lock' = NoClient)
              /\ lock' # c
<1> DEFINE k == [Off EXCEPT !.at = IF client[c].for = "new" THEN "off" ELSE "ready"]
<1>1. /\ k \in Client /\ k.at \in {"off", "ready"} /\ k.dialing = "first" /\ k.started = NoDaemon
      /\ k.conn = NoDaemon /\ ~k.accepted
  BY DEF Off, Client, Steps
<1>2. Goes(c, k)
  BY DEF GiveUp
<1> HIDE DEF k
<1>3. ClientSound(k) /\ \A d \in Daemons : Knows(k, d)
  BY <1>1 DEF ClientSound, Knows
<1>4. (lock' = lock \/ (lock = c /\ lock' = NoClient)) /\ lock' # c
  BY ConstantsAssumption DEF GiveUp, Unlocked
<1>5. QED
  BY <1>1, <1>2, <1>3, <1>4

\* A client whose daemon is gone gives up, and leaves none behind.
LEMMA WaitExitedKeeps == ASSUME NEW c \in Clients PROVE SidecarInv /\ WaitExited(c) => SidecarInv'
<1> SUFFICES ASSUME SidecarInv, WaitExited(c) PROVE SidecarInv'
  OBVIOUS
<1>1. /\ Gone(client[c].started) /\ GiveUp(c) /\ UNCHANGED <<socket, daemon, used, disowned>>
  BY DEF WaitExited
<1>2. PICK k \in Client :
        /\ Goes(c, k) /\ ClientSound(k) /\ k.dialing = "first" /\ k.started = NoDaemon
        /\ ~k.accepted /\ \A d \in Daemons : Knows(k, d)
        /\ lock' = lock \/ (lock = c /\ lock' = NoClient)
        /\ lock' # c
  BY <1>1, GaveUp
<1>3. \A d \in Daemons : Early(d) => client[c].started # d
  BY <1>1 DEF Gone, Early
<1>4. QED
  BY <1>1, <1>2, <1>3, ClientFacts, ClientMoves
-----------------------------------------------------------------------------
(* Steps of a client that concern a daemon or the socket file.             *)

\* The lock is with the right client when one client has moved on.
LEMMA LockMoves ==
    ASSUME SidecarInv, NEW c \in Clients, NEW k \in Client, Goes(c, k), ClientSound(k),
           lock' = lock \/ (lock = c /\ lock' = NoClient),
           lock' = c <=> k.dialing # "first"
    PROVE  LockIsHeld'
<1>1. client'[c] = k /\ \A b \in Clients \ {c} : client'[b] = client[b]
  BY DEF Goes, SidecarInv, TypeOK
<1>2. ASSUME NEW b \in Clients
      PROVE  ClientSound(client'[b]) /\ (lock' = b <=> client'[b].dialing # "first")
  <2>1. CASE b = c
    BY <1>1, <2>1
  <2>2. CASE b # c
    BY <1>1, <2>2, ConstantsAssumption DEF SidecarInv, LockIsHeld
  <2>3. QED
    BY <2>1, <2>2
<1>3. QED
  BY <1>2 DEF LockIsHeld

\* A client kills the daemon it has waited for too long, the only one that is up.
LEMMA WaitTimeoutKeeps == ASSUME NEW c \in Clients PROVE SidecarInv /\ WaitTimeout(c) => SidecarInv'
<1> SUFFICES ASSUME SidecarInv, WaitTimeout(c) PROVE SidecarInv'
  OBVIOUS
<1> DEFINE s == client[c].started
<1>1. /\ client[c].at = "wait" /\ daemon' = [daemon EXCEPT ![s] = "dead"] /\ GiveUp(c)
      /\ UNCHANGED <<socket, used, disowned>>
  BY DEF WaitTimeout
<1>2. s \in Daemons
  BY <1>1, ClientFacts DEF ClientSound, Client
<1>3. PICK k \in Client :
        /\ Goes(c, k) /\ ClientSound(k) /\ k.dialing = "first" /\ k.started = NoDaemon
        /\ ~k.accepted /\ \A d \in Daemons : Knows(k, d)
        /\ lock' = lock \/ (lock = c /\ lock' = NoClient)
        /\ lock' # c
  BY <1>1, GaveUp
<1>4. LockIsHeld'
  BY <1>3, LockMoves
<1>5. TypeOK'
  <2>1. lock' \in Clients \union {NoClient} /\ client' \in [Clients -> Client]
    BY <1>3 DEF Goes, SidecarInv, TypeOK
  <2>2. daemon' \in [Daemons -> DaemonState]
    BY <1>1 DEF SidecarInv, TypeOK, DaemonState
  <2>3. QED
    BY <1>1, <2>1, <2>2 DEF SidecarInv, TypeOK
<1>6. OneIsUp'
  <2>1. ASSUME ~disowned, NEW d \in Daemons
        PROVE  daemon'[d] \notin {"loading", "clear", "bind", "serving", "exiting"}
    <3>1. Early(d) \/ AtPath(d) => d = s
      BY <1>2, <2>1, ClientFacts, NoDaemonIsNone DEF Knows
    <3>2. QED
      BY <1>1, <1>2, <2>1, <3>1 DEF SidecarInv, TypeOK, DaemonState, Early, AtPath
  <2>2. QED
    BY <1>1, <2>1 DEF OneIsUp, Early, AtPath
<1>7. AcceptedIsServed'
  <2>1. client'[c] = k /\ \A b \in Clients \ {c} : client'[b] = client[b]
    BY <1>3 DEF Goes, SidecarInv, TypeOK
  <2>2. \A d \in Daemons : daemon[d] \in {"serving", "dead"} => daemon'[d] \in {"serving", "dead"}
    BY <1>1, <1>2 DEF SidecarInv, TypeOK
  <2>3. ASSUME NEW b \in Clients, client'[b].accepted, client'[b].conn # NoDaemon
        PROVE  daemon'[client'[b].conn] \in {"serving", "dead"}
    <3>1. b # c /\ client'[b] = client[b]
      BY <1>3, <2>1, <2>3
    <3>2. client[b].conn \in Daemons /\ daemon[client[b].conn] \in {"serving", "dead"}
      BY <2>3, <3>1, ClientFacts DEF Client
    <3>3. QED
      BY <2>2, <3>1, <3>2
  <2>4. QED
    BY <2>3 DEF AcceptedIsServed
<1>8. QED
  BY <1>4, <1>5, <1>6, <1>7 DEF SidecarInv

\* A client that is about to start a daemon has seen every other one gone.
LEMMA NoneUpToRemove ==
    ASSUME SidecarInv, ~disowned, NEW c \in Clients, client[c].at \in {"remove", "start"},
           NEW d \in Daemons
    PROVE  ~Early(d) /\ ~AtPath(d)
BY ClientFacts DEF Knows

\* The socket file is removed when no daemon is reachable by it.
LEMMA RemoveKeeps == ASSUME NEW c \in Clients PROVE SidecarInv /\ Remove(c) => SidecarInv'
<1> SUFFICES ASSUME SidecarInv, Remove(c) PROVE SidecarInv'
  OBVIOUS
<1> DEFINE k == [client[c] EXCEPT !.at = "start"]
<1>1. /\ client[c].at = "remove" /\ socket' = NoDaemon /\ Goes(c, k)
      /\ UNCHANGED <<lock, daemon, used, disowned>>
  BY DEF Remove
<1>2. client[c] \in Client /\ ~client[c].accepted /\ client[c].conn = NoDaemon
  BY <1>1, ClientFacts DEF ClientSound
<1>3. /\ k \in Client /\ k.at = "start" /\ k.dialing = client[c].dialing
      /\ k.started = client[c].started /\ k.conn = NoDaemon /\ ~k.accepted
  BY <1>2 DEF Client, Steps
<1> HIDE DEF k
<1>4. ClientSound(k)
  BY <1>1, <1>3, ClientFacts DEF ClientSound
<1>5. LockIsHeld'
  BY <1>1, <1>3, <1>4, LockMoves, ClientFacts
<1>6. client'[c] = k /\ \A b \in Clients \ {c} : client'[b] = client[b]
  BY <1>1 DEF Goes, SidecarInv, TypeOK
<1>7. TypeOK'
  BY <1>1, <1>3 DEF Goes, SidecarInv, TypeOK
<1>8. OneIsUp'
  BY <1>1, NoneUpToRemove DEF OneIsUp, Early, AtPath
<1>9. AcceptedIsServed'
  BY <1>1, <1>3, <1>6 DEF SidecarInv, AcceptedIsServed
<1>10. QED
  BY <1>5, <1>7, <1>8, <1>9 DEF SidecarInv

\* The daemon that is started is the only one up, and its starter waits for it.
LEMMA StartKeeps == ASSUME NEW c \in Clients PROVE SidecarInv /\ Start(c) => SidecarInv'
<1> SUFFICES ASSUME SidecarInv, Start(c) PROVE SidecarInv'
  OBVIOUS
<1>1. PICK d \in Daemons :
        /\ client[c].at = "start" /\ daemon[d] = "none"
        /\ daemon' = [daemon EXCEPT ![d] = "loading"]
        /\ Goes(c, [client[c] EXCEPT !.at = "dial", !.dialing = "wait", !.started = d])
        /\ UNCHANGED <<socket, lock, used, disowned>>
  BY DEF Start
<1> DEFINE k == [client[c] EXCEPT !.at = "dial", !.dialing = "wait", !.started = d]
<1>2. /\ client[c] \in Client /\ ~client[c].accepted /\ client[c].conn = NoDaemon
      /\ client[c].dialing = "locked" /\ lock = c
  BY <1>1, ClientFacts DEF ClientSound
<1>3. /\ k \in Client /\ k.at = "dial" /\ k.dialing = "wait" /\ k.started = d
      /\ k.conn = NoDaemon /\ ~k.accepted
  BY <1>2 DEF Client, Steps
<1>4. Goes(c, k)
  BY <1>1
<1> HIDE DEF k
<1>5. ClientSound(k)
  BY <1>3, NoDaemonIsNone DEF ClientSound
<1>6. LockIsHeld'
  BY <1>1, <1>2, <1>3, <1>4, <1>5, LockMoves
<1>7. client'[c] = k /\ \A b \in Clients \ {c} : client'[b] = client[b]
  BY <1>4 DEF Goes, SidecarInv, TypeOK
<1>8. daemon'[d] = "loading" /\ \A e \in Daemons \ {d} : daemon'[e] = daemon[e]
  BY <1>1 DEF SidecarInv, TypeOK
<1>9. TypeOK'
  <2>1. client' \in [Clients -> Client] /\ daemon' \in [Daemons -> DaemonState]
    BY <1>1, <1>3, <1>4 DEF Goes, SidecarInv, TypeOK, DaemonState
  <2>2. QED
    BY <1>1, <2>1 DEF SidecarInv, TypeOK
<1>10. OneIsUp'
  <2> SUFFICES ASSUME ~disowned PROVE OneIsUp'
    BY <1>1 DEF OneIsUp
  <2>1. \A e \in Daemons : Early(e)' \/ AtPath(e)' => e = d
    BY <1>1, <1>8, NoneUpToRemove DEF Early, AtPath
  <2>2. ~AtPath(d)' /\ lock' = c /\ client'[c].started = d
    BY <1>1, <1>2, <1>3, <1>7, <1>8 DEF AtPath
  <2>3. ASSUME NEW b \in Clients
        PROVE  Knows(client'[b], d)
    <3>1. CASE b = c
      BY <1>3, <1>7, <3>1 DEF Knows
    <3>2. CASE b # c
      <4>1. client'[b] = client[b] /\ client[b].dialing = "first" /\ ClientSound(client[b])
        BY <1>2, <1>7, <3>2, ClientFacts
      <4>2. QED
        BY <4>1 DEF Knows, ClientSound
    <3>3. QED
      BY <3>1, <3>2
  <2>4. QED
    BY <2>1, <2>2, <2>3 DEF OneIsUp
<1>11. AcceptedIsServed'
  <2>1. ASSUME NEW b \in Clients, client'[b].accepted, client'[b].conn # NoDaemon
        PROVE  daemon'[client'[b].conn] \in {"serving", "dead"}
    <3>1. b # c /\ client'[b] = client[b]
      BY <1>3, <1>7, <2>1
    <3>2. client[b].conn \in Daemons /\ daemon[client[b].conn] \in {"serving", "dead"}
      BY <2>1, <3>1, ClientFacts DEF Client
    <3>3. QED
      BY <1>1, <1>8, <3>1, <3>2
  <2>2. QED
    BY <2>1 DEF AcceptedIsServed
<1>12. QED
  BY <1>6, <1>9, <1>10, <1>11 DEF SidecarInv
-----------------------------------------------------------------------------
(* Steps of a daemon.                                                      *)

\* While a daemon is on the way no other one is up.
LEMMA EarlyIsAlone ==
    ASSUME SidecarInv, ~disowned, NEW d \in Daemons, Early(d),
           NEW e \in Daemons, Early(e) \/ AtPath(e)
    PROVE  e = d
<1>1. lock \in Clients /\ client[lock].started = d
  BY DEF SidecarInv, OneIsUp
<1>2. Knows(client[lock], e)
  BY <1>1, ClientFacts
<1>3. QED
  BY <1>1, <1>2, NoDaemonIsNone DEF Knows

\* One daemon moves on, in front of clients that do not.
LEMMA DaemonMoves ==
    ASSUME SidecarInv, NEW d \in Daemons, NEW st \in DaemonState, Becomes(d, st),
           UNCHANGED <<lock, client, disowned>>,
           used' \in [{"embeds", "faults"} -> Nat], socket' \in Daemons \union {NoDaemon},
           ~disowned => /\ st \in {"loading", "clear", "bind"} => Early(d)
                        /\ st \in {"serving", "exiting"} => socket' = d /\ (Early(d) \/ AtPath(d))
                        /\ \A e \in Daemons \ {d} : AtPath(e) => socket' = e,
           st \in {"serving", "dead"} \/ daemon[d] \notin {"serving", "dead"} \/ Active(d) = {}
    PROVE  SidecarInv'
<1>1. /\ daemon' = [daemon EXCEPT ![d] = st] /\ daemon'[d] = st
      /\ \A e \in Daemons \ {d} : daemon'[e] = daemon[e]
  BY DEF Becomes, SidecarInv, TypeOK
<1>2. TypeOK'
  BY <1>1 DEF SidecarInv, TypeOK
<1>3. LockIsHeld'
  BY DEF SidecarInv, LockIsHeld
<1>4. OneIsUp'
  <2> SUFFICES ASSUME ~disowned PROVE OneIsUp'
    BY DEF OneIsUp
  <2>1. \A e \in Daemons : AtPath(e)' => socket' = e
    BY <1>1 DEF AtPath
  <2>2. \A e \in Daemons : Early(e)' => Early(e)
    BY <1>1 DEF Early
  <2>3. \A e \in Daemons : Early(e)' \/ AtPath(e)' => Early(e) \/ AtPath(e)
    BY <1>1 DEF Early, AtPath
  <2>4. QED
    BY <2>1, <2>2, <2>3 DEF SidecarInv, OneIsUp
<1>5. AcceptedIsServed'
  <2>1. ASSUME NEW c \in Clients, client[c].accepted, client[c].conn # NoDaemon
        PROVE  daemon'[client[c].conn] \in {"serving", "dead"}
    <3>1. client[c].conn \in Daemons /\ daemon[client[c].conn] \in {"serving", "dead"}
      BY <2>1, ClientFacts DEF Client
    <3>2. client[c].conn = d => c \in Active(d)
      BY DEF Active
    <3>3. QED
      BY <1>1, <3>1, <3>2
  <2>2. QED
    BY <2>1 DEF AcceptedIsServed
<1>6. QED
  BY <1>2, <1>3, <1>4, <1>5 DEF SidecarInv

\* A daemon loads its model.
LEMMA LoadKeeps == ASSUME NEW d \in Daemons PROVE SidecarInv /\ Load(d) => SidecarInv'
<1> SUFFICES ASSUME SidecarInv, Load(d) PROVE SidecarInv'
  OBVIOUS
<1>1. /\ daemon[d] = "loading" /\ Becomes(d, "clear") /\ Early(d) /\ "clear" \in DaemonState
      /\ UNCHANGED <<socket, lock, client, used, disowned>>
  BY DEF Load, Early, DaemonState
<1>2. /\ used' \in [{"embeds", "faults"} -> Nat] /\ socket' \in Daemons \union {NoDaemon}
      /\ ~disowned => \A e \in Daemons : AtPath(e) => socket' = e
  BY <1>1 DEF SidecarInv, TypeOK, OneIsUp
<1>3. QED
  BY <1>1, <1>2, DaemonMoves

\* The file a daemon removes before it binds is no live daemon's.
LEMMA ClearStaleKeeps == ASSUME NEW d \in Daemons PROVE SidecarInv /\ ClearStale(d) => SidecarInv'
<1> SUFFICES ASSUME SidecarInv, ClearStale(d) PROVE SidecarInv'
  OBVIOUS
<1>1. /\ daemon[d] = "clear" /\ Becomes(d, "bind") /\ Early(d) /\ "bind" \in DaemonState
      /\ socket' = NoDaemon /\ UNCHANGED <<lock, client, used, disowned>>
  BY DEF ClearStale, Early, DaemonState
<1>2. used' \in [{"embeds", "faults"} -> Nat]
  BY <1>1 DEF SidecarInv, TypeOK
<1>3. ~disowned => \A e \in Daemons \ {d} : ~AtPath(e)
  BY <1>1, EarlyIsAlone
<1>4. QED
  BY <1>1, <1>2, <1>3, DaemonMoves

\* The daemon that binds is the only one up.
LEMMA BindKeeps == ASSUME NEW d \in Daemons PROVE SidecarInv /\ Bind(d) => SidecarInv'
<1> SUFFICES ASSUME SidecarInv, Bind(d) PROVE SidecarInv'
  OBVIOUS
<1>1. /\ daemon[d] = "bind" /\ Early(d) /\ UNCHANGED <<lock, client, used, disowned>>
      /\ "serving" \in DaemonState /\ "dead" \in DaemonState
  BY DEF Bind, Early, DaemonState
<1>2. used' \in [{"embeds", "faults"} -> Nat] /\ socket \in Daemons \union {NoDaemon}
  BY <1>1 DEF SidecarInv, TypeOK
<1>3. ~disowned => \A e \in Daemons \ {d} : ~AtPath(e)
  BY <1>1, EarlyIsAlone
<1>4. CASE socket' = d /\ Becomes(d, "serving")
  BY <1>1, <1>2, <1>3, <1>4, DaemonMoves
<1>5. CASE UNCHANGED socket /\ Becomes(d, "dead")
  BY <1>1, <1>2, <1>3, <1>5, DaemonMoves
<1>6. QED
  BY <1>4, <1>5 DEF Bind

\* Only a daemon that serves accepts.
LEMMA AcceptKeeps == ASSUME NEW d \in Daemons PROVE SidecarInv /\ Accept(d) => SidecarInv'
<1> SUFFICES ASSUME SidecarInv, Accept(d) PROVE SidecarInv'
  OBVIOUS
<1>1. PICK c \in Clients :
        /\ daemon[d] = "serving" /\ client[c].at = "handshake" /\ client[c].conn = d
        /\ Goes(c, [client[c] EXCEPT !.accepted = TRUE])
        /\ UNCHANGED <<socket, lock, daemon, used, disowned>>
  BY DEF Accept
<1> DEFINE k == [client[c] EXCEPT !.accepted = TRUE]
<1>2. client[c] \in Client
  BY ClientFacts
<1>3. /\ k \in Client /\ k.at = "handshake" /\ k.dialing = client[c].dialing
      /\ k.started = client[c].started /\ k.conn = d
  BY <1>1, <1>2 DEF Client
<1>4. Goes(c, k)
  BY <1>1
<1> HIDE DEF k
<1>5. ClientSound(k)
  BY <1>1, <1>3, ClientFacts DEF ClientSound
<1>6. ~disowned => \A e \in Daemons : Early(e) \/ AtPath(e) => Knows(k, e)
  BY <1>1, <1>3, ClientFacts DEF Knows
<1>7. QED
  BY <1>1, <1>3, <1>4, <1>5, <1>6, ClientFacts, ClientMoves

\* A daemon with a client does not exit, and one that exits is still at its path.
LEMMA IdleExitKeeps == ASSUME NEW d \in Daemons PROVE SidecarInv /\ IdleExit(d) => SidecarInv'
<1> SUFFICES ASSUME SidecarInv, IdleExit(d) PROVE SidecarInv'
  OBVIOUS
<1>1. /\ AtPath(d) /\ Active(d) = {} /\ Becomes(d, "exiting") /\ "exiting" \in DaemonState
      /\ UNCHANGED <<socket, lock, client, used, disowned>>
  BY DEF IdleExit, AtPath, DaemonState
<1>2. /\ used' \in [{"embeds", "faults"} -> Nat] /\ socket' \in Daemons \union {NoDaemon}
      /\ ~disowned => \A e \in Daemons : AtPath(e) => socket' = e
  BY <1>1 DEF SidecarInv, TypeOK, OneIsUp
<1>3. QED
  BY <1>1, <1>2, DaemonMoves

\* The file an exiting daemon removes is its own.
LEMMA RemoveSocketKeeps == ASSUME NEW d \in Daemons PROVE SidecarInv /\ RemoveSocket(d) => SidecarInv'
<1> SUFFICES ASSUME SidecarInv, RemoveSocket(d) PROVE SidecarInv'
  OBVIOUS
<1>1. /\ daemon[d] = "exiting" /\ AtPath(d) /\ Becomes(d, "removed") /\ "removed" \in DaemonState
      /\ socket' = NoDaemon /\ UNCHANGED <<lock, client, used, disowned>>
  BY DEF RemoveSocket, AtPath, DaemonState
<1>2. used' \in [{"embeds", "faults"} -> Nat]
  BY <1>1 DEF SidecarInv, TypeOK
<1>3. ~disowned => \A e \in Daemons \ {d} : ~AtPath(e)
  BY <1>1 DEF SidecarInv, OneIsUp
<1>4. QED
  BY <1>1, <1>2, <1>3, DaemonMoves

\* A process ends, by itself or killed.
LEMMA DeathKeeps ==
    ASSUME NEW d \in Daemons PROVE SidecarInv /\ (Exit(d) \/ Die(d)) => SidecarInv'
<1> SUFFICES ASSUME SidecarInv, Exit(d) \/ Die(d) PROVE SidecarInv'
  OBVIOUS
<1>1. Becomes(d, "dead") /\ UNCHANGED <<socket, lock, client, disowned>> /\ "dead" \in DaemonState
  BY DEF Exit, Die, DaemonState
<1>2. used' \in [{"embeds", "faults"} -> Nat]
  BY SpendType DEF SidecarInv, TypeOK, Exit, Die
<1>3. /\ socket' \in Daemons \union {NoDaemon}
      /\ ~disowned => \A e \in Daemons : AtPath(e) => socket' = e
  BY <1>1 DEF SidecarInv, TypeOK, OneIsUp
<1>4. QED
  BY <1>1, <1>2, <1>3, DaemonMoves

-----------------------------------------------------------------------------
(* The theorems.                                                           *)

\* Nobody has started anything.
LEMMA SidecarInvInit == Init => SidecarInv
<1> SUFFICES ASSUME Init PROVE SidecarInv
  OBVIOUS
<1>1. TypeOK
  BY OffIsSound DEF Init, TypeOK, DaemonState
<1>2. \A c \in Clients : client[c] = Off /\ lock # c
  BY ConstantsAssumption DEF Init
<1>3. LockIsHeld /\ AcceptedIsServed
  BY <1>2, OffIsSound DEF LockIsHeld, AcceptedIsServed
<1>4. OneIsUp
  BY DEF Init, OneIsUp, Early, AtPath
<1>5. QED
  BY <1>1, <1>3, <1>4 DEF SidecarInv

\* Every step of every process keeps the invariant.
LEMMA SidecarInvStep == SidecarInv /\ [Next]_vars => SidecarInv'
<1> SUFFICES ASSUME SidecarInv, [Next]_vars PROVE SidecarInv'
  OBVIOUS
<1>1. ASSUME NEW c \in Clients, New(c) \/ Embed(c) \/ Lock(c) \/ ClientStep(c) \/ Crash(c) \/ Close(c)
      PROVE  SidecarInv'
  BY <1>1, NewKeeps, EmbedKeeps, LockKeeps, CrashKeeps, CloseKeeps, DialKeeps, HandshakeKeeps,
     HandshakeFailsKeeps, RemoveKeeps, StartKeeps, WaitExitedKeeps, WaitTimeoutKeeps,
     WaitAgainKeeps, EmbedFailedKeeps DEF ClientStep
<1>2. ASSUME NEW d \in Daemons, DaemonStep(d) \/ IdleExit(d) \/ Die(d)
      PROVE  SidecarInv'
  BY <1>2, LoadKeeps, ClearStaleKeeps, BindKeeps, AcceptKeeps, IdleExitKeeps, RemoveSocketKeeps,
     DeathKeeps DEF DaemonStep
<1>3. CASE UNCHANGED vars
  BY <1>3 DEF vars, SidecarInv, TypeOK, LockIsHeld, OneIsUp, Early, AtPath, AcceptedIsServed
<1>4. QED
  BY <1>1, <1>2, <1>3 DEF Next

\* The daemons and their clients keep the inductive invariant.
THEOREM SidecarSound == Spec => []SidecarInv
BY SidecarInvInit, SidecarInvStep, PTL DEF Spec

\* A connection that was accepted is never ended by an idle exit.
THEOREM AcceptedAreServed == Spec => []AcceptedIsServed
<1>1. SidecarInv => AcceptedIsServed
  BY DEF SidecarInv
<1>2. QED
  BY <1>1, SidecarSound, PTL

\* However many processes look for the daemon at once, one daemon runs and it is
\* found at the socket path, as long as no starter dies or gives a live daemon up.
THEOREM OneDaemon == Spec => []OneReachableDaemon
<1>1. ASSUME SidecarInv PROVE OneReachableDaemon
  <2> SUFFICES ASSUME ~disowned
               PROVE  /\ Cardinality(Running) <= 1
                      /\ \A d \in Daemons : daemon[d] = "serving" => socket = d
    BY DEF OneReachableDaemon
  <2>1. \A d \in Daemons : daemon[d] = "serving" => socket = d
    BY <1>1 DEF SidecarInv, OneIsUp, AtPath
  <2>2. \A d \in Running, e \in Running : d = e
    <3> SUFFICES ASSUME NEW d \in Running, NEW e \in Running PROVE d = e
      OBVIOUS
    <3>1. /\ d \in Daemons /\ (Early(d) \/ daemon[d] = "serving")
          /\ e \in Daemons /\ (Early(e) \/ daemon[e] = "serving")
      BY DEF Running, Early
    <3>2. CASE Early(d)
      BY <1>1, <3>1, <3>2, EarlyIsAlone DEF AtPath
    <3>3. CASE Early(e)
      BY <1>1, <3>1, <3>3, EarlyIsAlone DEF AtPath
    <3>4. CASE daemon[d] = "serving" /\ daemon[e] = "serving"
      BY <2>1, <3>1, <3>4
    <3>5. QED
      BY <3>1, <3>2, <3>3, <3>4
  <2>3. CASE Running = {}
    BY <2>1, <2>3, FS_EmptySet
  <2>4. CASE Running # {}
    <3>1. PICK d \in Running : TRUE
      BY <2>4
    <3>2. Running = {d}
      BY <2>2, <3>1
    <3>3. Cardinality({d}) = 1
      BY FS_Singleton
    <3>4. QED
      BY <2>1, <3>2, <3>3
  <2>5. QED
    BY <2>3, <2>4
<1>2. QED
  BY <1>1, SidecarSound, PTL
=============================================================================
