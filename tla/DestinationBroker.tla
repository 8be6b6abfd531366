-------------------------- MODULE DestinationBroker --------------------------
(***************************************************************************)
(* One session of NodeDestinationBroker: a CONNECT proxy that looks a host *)
(* up, vets every address of the answer, dials the first one and becomes a *)
(* tunnel.  A connection has two sockets, `client` (towards the sandboxed  *)
(* process, the peer) and `up` (towards the destination).                  *)
(*                                                                         *)
(* Timers, the resolver, the network and the peer race each other: each    *)
(* is an action of its own.                                                *)
(***************************************************************************)
EXTENDS Integers, Sequences, FiniteSets

CONSTANTS Connection,      \* the connections peers may open
          Host,            \* the authorities they may ask for
          Explicit,        \* those that an explicit destination rule matches
          Local,           \* those that are names of the loopback interface
          LoopbackRule,    \* was a loopback rule given?
          Answers,         \* what the resolver may say: sequences of Address
          MaxConnections,
          Null

Address == {"public", "private", "loopback"}

ASSUME BrokerConstants == /\ Explicit \subseteq Host /\ Local \subseteq Host
                          /\ LoopbackRule \in BOOLEAN
                          /\ Answers \subseteq Seq(Address)
                          /\ MaxConnections \in Nat \ {0}
                          /\ IsFiniteSet(Connection)

VARIABLES session,  \* "none", "listening", "closing" or "closed"
          conn,     \* the connections
          alive     \* the launcher has not died of an unhandled 'error' event

broker == <<session, conn, alive>>

Conn == [stage : {"none", "header", "resolve", "dial", "tunnel", "done"},
         client : {"none", "open", "ended", "closed"},           \* ended: end() was called
         up : {"none", "dialing", "open", "stray", "closed"},    \* stray: open, and nobody's
         tracked : BOOLEAN,       \* is the client in `sockets`?  An open upstream is.
         armed : BOOLEAN,         \* the handshake timer's listener has not run yet
         host : Host \cup {Null}, answer : Seq(Address),
         late : BOOLEAN]          \* close() came while this connection was being set up

Fresh == [stage |-> "none", client |-> "none", up |-> "none", tracked |-> FALSE,
          armed |-> FALSE, host |-> Null, answer |-> <<>>, late |-> FALSE]

BrokerInit == session = "none" /\ conn = [c \in Connection |-> Fresh] /\ alive = TRUE

Connected(c) == conn[c].client \in {"open", "ended"}
Clients == {c \in Connection : Connected(c)}
Upstreams == {c \in Connection : conn[c].up = "open"}
\* sockets.size
Size == Cardinality({c \in Clients : conn[c].tracked}) + Cardinality(Upstreams)

\* The launcher is gone, and its sockets with it.
Dies == /\ alive' = FALSE
        /\ conn' = [c \in Connection |-> Fresh]

\* The connection goes on as r.
Becomes(c, r) == conn' = [conn EXCEPT ![c] = r] /\ UNCHANGED alive

\* reject(): the connection goes on as r and its client gets a status line.  A
\* socket that was ended and not destroyed fails to write it, and before the
\* tunnel stands nobody listens to its 'error'.
Reject(c, r) == CASE r.client = "open" -> Becomes(c, [r EXCEPT !.client = "ended"])
                  [] r.client = "ended" -> Dies
                  [] r.client = "closed" -> Becomes(c, r)

-----------------------------------------------------------------------------
(* DestinationGuard *)

AuthorityAllowed(h) == h \in Explicit \/ (LoopbackRule /\ h \in Local)

All(answer, a) == \A k \in DOMAIN answer : answer[k] = a

\* Mutant: only the address that is dialled is looked at.
AuthorizeFirst(h, answer) ==
    /\ AuthorityAllowed(h) /\ answer # <<>>
    /\ IF LoopbackRule /\ h \in Local THEN answer[1] = "loopback" ELSE answer[1] = "public"

\* authorize(): a loopback rule takes precedence over an explicit one.
Authorize(h, answer) ==
    /\ AuthorityAllowed(h) /\ answer # <<>>
    /\ IF LoopbackRule /\ h \in Local THEN All(answer, "loopback")
                                      ELSE All(answer, "public")

-----------------------------------------------------------------------------
(* The server and accept() *)

\* start(): no destination, or one that cannot be brokered, never gets here.
Listen == session = "none" /\ session' = "listening" /\ UNCHANGED <<conn, alive>>

\* Mutant: without a limit.
ConnectUnchecked(c) ==
    /\ session = "listening" /\ conn[c].stage = "none"
    /\ Becomes(c, [conn[c] EXCEPT !.stage = "header", !.client = "open", !.tracked = TRUE,
                                  !.armed = TRUE])
    /\ UNCHANGED session

\* server.maxConnections counts clients and drops the next one unheard; the
\* handler counts both halves and says 503, without a timer.
Connect(c) ==
    /\ session = "listening" /\ conn[c].stage = "none"
    /\ Becomes(c,
           IF Cardinality(Clients) >= MaxConnections
           THEN [conn[c] EXCEPT !.stage = "done", !.client = "closed"]
           ELSE IF Size >= MaxConnections
           THEN [conn[c] EXCEPT !.stage = "done", !.client = "ended"]
           ELSE [conn[c] EXCEPT !.stage = "header", !.client = "open", !.tracked = TRUE,
                                !.armed = TRUE])
    /\ UNCHANGED session

\* The header is complete, or too long.  The listener is still there after a
\* timeout, so this may come after a 408.
ReadHeader(c) ==
    /\ conn[c].stage = "header" /\ Connected(c)
    /\ \/ Reject(c, [conn[c] EXCEPT !.stage = "done"])     \* 431, 405 or 400
       \/ \E h \in Host :
              IF AuthorityAllowed(h)
              THEN Becomes(c, [conn[c] EXCEPT !.stage = "resolve", !.host = h])
              ELSE Reject(c, [conn[c] EXCEPT !.stage = "done", !.host = h])     \* 403
    /\ UNCHANGED session

\* The resolver answers; nobody asks whether the client is still there.
Resolved(c, answer) ==
    /\ conn[c].stage = "resolve"
    /\ IF Authorize(conn[c].host, answer)
       THEN Becomes(c, [conn[c] EXCEPT !.stage = "dial", !.up = "dialing", !.answer = answer])
       ELSE Reject(c, [conn[c] EXCEPT !.stage = "done", !.answer = answer])     \* 403
    /\ UNCHANGED session

\* The resolver fails or takes longer than handshakeTimeoutMs: 502.
ResolveFails(c) == /\ conn[c].stage = "resolve"
                   /\ Reject(c, [conn[c] EXCEPT !.stage = "done"])
                   /\ UNCHANGED session

\* Mutant: the upstream half is not added to `open`.
DialledUntracked(c) ==
    /\ conn[c].up = "dialing"
    /\ Becomes(c, IF conn[c].stage = "dial" THEN [conn[c] EXCEPT !.stage = "tunnel", !.up = "stray"]
                                            ELSE [conn[c] EXCEPT !.up = "stray"])
    /\ UNCHANGED session

\* connect(2) succeeds: 200 and the tunnel, or nobody waits for it any more.  An
\* ended client cannot be written to, and destroyBoth runs; of a closed one
\* nothing more is heard.
Dialled(c) ==
    /\ conn[c].up = "dialing"
    /\ LET r == conn[c]
       IN  Becomes(c, IF r.stage # "dial" THEN [r EXCEPT !.up = "stray"]
                      ELSE IF r.client = "ended"
                      THEN [r EXCEPT !.stage = "tunnel", !.client = "closed", !.up = "closed"]
                      ELSE [r EXCEPT !.stage = "tunnel", !.up = "open"])
    /\ UNCHANGED session

\* connect(2) fails: 502, if anybody waits.
DialFails(c) == /\ conn[c].up = "dialing"
                /\ LET r == [conn[c] EXCEPT !.up = "closed", !.stage = "done"]
                   IN  IF conn[c].stage = "dial" THEN Reject(c, r) ELSE Becomes(c, r)
                /\ UNCHANGED session

\* withTimeout gives up on the dial, which goes on: 502.
DialTimesOut(c) == /\ conn[c].stage = "dial"
                   /\ Reject(c, [conn[c] EXCEPT !.stage = "done"])
                   /\ UNCHANGED session

\* Mutant: the timer is only set once the header is read.
HandshakeTimerLate(c) ==
    /\ conn[c].armed /\ conn[c].stage \in {"resolve", "dial", "done"}
    /\ Connected(c)
    /\ Reject(c, [conn[c] EXCEPT !.armed = FALSE])
    /\ UNCHANGED session

\* handshakeTimeoutMs without a word from the client: 408, once.
HandshakeTimer(c) ==
    /\ conn[c].armed /\ conn[c].stage # "tunnel" /\ Connected(c)
    /\ Reject(c, [conn[c] EXCEPT !.armed = FALSE])
    /\ UNCHANGED session

-----------------------------------------------------------------------------
(* The tunnel, and how sockets end *)

\* idleTimeoutMs: each half has its own timer and destroys itself.
IdleClient(c) == /\ conn[c].stage = "tunnel" /\ Connected(c)
                 /\ Becomes(c, [conn[c] EXCEPT !.client = "closed"])
                 /\ UNCHANGED session
IdleUpstream(c) == /\ conn[c].up = "open"
                   /\ Becomes(c, [conn[c] EXCEPT !.up = "closed"])
                   /\ UNCHANGED session

\* The peer closes its end; the upstream of a tunnel is ended, not destroyed.
PeerCloses(c) == /\ Connected(c)
                 /\ Becomes(c, [conn[c] EXCEPT !.client = "closed"])
                 /\ UNCHANGED session

\* The connection to the peer breaks.  Only a tunnel listens for that.
PeerBreaks(c) == /\ Connected(c)
                 /\ IF conn[c].stage # "tunnel" THEN Dies
                    ELSE Becomes(c, [conn[c] EXCEPT !.client = "closed",
                                                    !.up = IF @ = "open" THEN "closed" ELSE @])
                 /\ UNCHANGED session

\* The destination closes: the client is ended.  A stray socket just goes.
DestinationCloses(c) ==
    /\ conn[c].up \in {"open", "stray"}
    /\ Becomes(c, [conn[c] EXCEPT !.up = "closed",
                                  !.client = IF @ = "open" /\ conn[c].stage = "tunnel" THEN "ended"
                                             ELSE @])
    /\ UNCHANGED session

-----------------------------------------------------------------------------
(* close() *)

\* Every socket of `sockets` is destroyed, server.close() is called.
Close ==
    /\ session = "listening" /\ session' = "closing"
    /\ conn' = [c \in Connection |-> LET r == conn[c] IN
                    [r EXCEPT !.client = IF r.tracked /\ c \in Clients THEN "closed" ELSE @,
                              !.up = IF @ = "open" THEN "closed" ELSE @,
                              !.late = r.stage \in {"resolve", "dial"}]]
    /\ UNCHANGED alive

\* Mutant: close() also waits for what was dialled.
ClosedWaitsForAll ==
    /\ session = "closing" /\ Clients = {} /\ session' = "closed"
    /\ \A c \in Connection : conn[c].up \notin {"dialing", "open", "stray"}
    /\ UNCHANGED <<conn, alive>>

\* server.close() calls back when the last client is gone, then the Unix socket
\* is removed.
Closed == session = "closing" /\ Clients = {} /\ session' = "closed" /\ UNCHANGED <<conn, alive>>

Handshake(c) == \/ ReadHeader(c) \/ (\E answer \in Answers : Resolved(c, answer))
                \/ ResolveFails(c) \/ Dialled(c) \/ DialFails(c) \/ DialTimesOut(c)
                \/ HandshakeTimer(c)
Ends(c) == \/ IdleClient(c) \/ IdleUpstream(c) \/ PeerCloses(c) \/ PeerBreaks(c)
           \/ DestinationCloses(c)

\* Timers fire and calls with a timeout return.  Nothing is assumed of peers,
\* the resolver and destinations: reject() only ends a socket, and a peer may
\* keep its side of it for as long as it likes.
BrokerFairness ==
    \A c \in Connection : WF_broker(HandshakeTimer(c) \/ DialTimesOut(c) \/ ResolveFails(c))
=============================================================================
