---------------------------- MODULE NetworkProbe ----------------------------
(***************************************************************************)
(* The egress canary (NodeNetworkProbe): a broker with the session's own   *)
(* allowlist must refuse two destinations, asked at the same time; a       *)
(* second broker, with a local sink behind it, must carry traffic.         *)
(***************************************************************************)
EXTENDS Naturals, FiniteSets

VARIABLES
  broker,   \* the broker code on this machine: the destinations it accepts, whether an
            \* approved tunnel carries bytes, whether it listens on a Unix socket
  net       \* NodeNetworkProbe.probe: pc, what it holds, what it has seen, what failed

Denied == {"arbitrary", "metadata"}
NetCodes == {"broker-unavailable", "allowed-destination-refused", "relay-failed",
             "arbitrary-destination-allowed", "metadata-destination-allowed"}

\* Two temporary directories, two broker sessions and the sink.
Resources == {"scratch", "session", "tunnel-scratch", "tunnel-session", "sink"}

\* thrown: an error is on its way out; failed: the releases that rejected.
NetInit ==
  net = [pc |-> "idle", open |-> {}, failed |-> {}, thrown |-> FALSE,
         seen |-> [d \in Denied |-> "unknown"], result |-> "pending", relayed |-> FALSE]

Acquired(r, next) == [net EXCEPT !.pc = next, !.open = @ \cup {r}]
Returns(code, next) == [net EXCEPT !.pc = next, !.result = code]

\* mkdtemp, in front of every try.
MakeScratch ==
  /\ net.pc = "begin"
  /\ net' \in {Acquired("scratch", "start"), [net EXCEPT !.pc = "threw"]}
  /\ UNCHANGED broker

\* The broker for the requested destinations; its catch block removes the
\* directory.
StartBroker ==
  /\ net.pc = "start"
  /\ net' \in {Acquired("session", "denials"), Returns("broker-unavailable", "remove")}
  /\ UNCHANGED broker

\* connectAccepted: dial and CONNECT.  No broker to dial, an early close, a
\* timeout and any answer but 200 are all a refusal; an accepting broker may
\* be seen to refuse, a refusing one is never seen to accept.
Connect(d) ==
  /\ net.pc = "denials"
  /\ net.seen[d] = "unknown"
  /\ net' \in {[net EXCEPT !.seen[d] = "refused"]}
          \cup (IF d \in broker.accepts THEN {[net EXCEPT !.seen[d] = "accepted"]} ELSE {})
  /\ UNCHANGED broker

\* Promise.all of the two connections.
JudgeDenials ==
  /\ net.pc = "denials"
  /\ \A d \in Denied : net.seen[d] # "unknown"
  /\ net' = CASE net.seen["arbitrary"] = "accepted" ->
                   Returns("arbitrary-destination-allowed", "close-session")
              [] net.seen["arbitrary"] # "accepted" /\ net.seen["metadata"] = "accepted" ->
                   Returns("metadata-destination-allowed", "close-session")
              [] OTHER -> [net EXCEPT !.pc = "tunnel"]
  /\ UNCHANGED broker

-----------------------------------------------------------------------------
(* checkApprovedTunnel: a directory, the sink, the second broker.          *)

\* mkdtemp once more: its error goes through the outer finally block.
MakeTunnelScratch ==
  /\ net.pc = "tunnel"
  /\ net' \in {Acquired("tunnel-scratch", "sink"),
               [net EXCEPT !.pc = "close-session", !.thrown = TRUE]}
  /\ UNCHANGED broker

\* EchoSink.start; its catch block removes the directory.
StartSink ==
  /\ net.pc = "sink"
  /\ net' \in {Acquired("sink", "second"),
               Returns("allowed-destination-refused", "remove-tunnel")}
  /\ UNCHANGED broker

\* Mutant: the catch block of the second broker forgets the sink.
StartTunnelKeepsSink ==
  /\ net.pc = "second"
  /\ net' \in {Acquired("tunnel-session", "relay"),
               Returns("broker-unavailable", "remove-tunnel")}
  /\ UNCHANGED broker

\* The second broker; its catch block closes the sink, then removes the
\* directory.
StartTunnel ==
  /\ net.pc = "second"
  /\ net' \in {Acquired("tunnel-session", "relay"),
               Returns("broker-unavailable", "close-sink")}
  /\ UNCHANGED broker

\* relayCheck: connect through the broker, write, read the same bytes back.
Relay ==
  /\ net.pc = "relay"
  /\ \/ /\ broker.carries
        /\ net' = [net EXCEPT !.pc = "close-tunnel", !.relayed = TRUE]
     \/ \E code \in {"allowed-destination-refused", "relay-failed"} :
          net' = Returns(code, "close-tunnel")
  /\ UNCHANGED broker

-----------------------------------------------------------------------------
(* The releases.  Each catch and finally block is an end of one chain: the *)
(* tunnel's session, the sink, the tunnel's directory; then the session    *)
(* and its directory.  A release that rejects skips the rest of its block. *)

Released(r, next) == [net EXCEPT !.pc = next, !.open = @ \ {r}]
Rejected(r, next) == [net EXCEPT !.pc = next, !.thrown = TRUE, !.failed = @ \cup {r}]

\* session.close(): the server is closed in any case; removing its Unix socket
\* may fail.
CloseBroker(r, next, outside) ==
  \/ net' = Released(r, next)
  \/ broker.unix /\ net' = [Rejected(r, outside) EXCEPT !.open = @ \ {r}]

CloseTunnel ==
  /\ net.pc = "close-tunnel"
  /\ CloseBroker("tunnel-session", "close-sink", "close-session")
  /\ UNCHANGED broker

\* sink.close() never rejects.
CloseSink ==
  /\ net.pc = "close-sink"
  /\ net' = Released("sink", "remove-tunnel")
  /\ UNCHANGED broker

RemoveTunnelScratch ==
  /\ net.pc = "remove-tunnel"
  /\ net' \in {Released("tunnel-scratch", "close-session"),
               Rejected("tunnel-scratch", "close-session")}
  /\ UNCHANGED broker

CloseSession ==
  /\ net.pc = "close-session"
  /\ CloseBroker("session", "remove", "threw")
  /\ UNCHANGED broker

\* The last release; a probe without a code has passed.
RemoveScratch ==
  /\ net.pc = "remove"
  /\ net' \in {IF net.thrown THEN Released("scratch", "threw")
               ELSE [Released("scratch", "reported") EXCEPT
                       !.result = IF @ = "pending" THEN "passed" ELSE @],
               Rejected("scratch", "threw")}
  /\ UNCHANGED broker

NetSteps ==
  MakeScratch \/ StartBroker \/ (\E d \in Denied : Connect(d)) \/ JudgeDenials
    \/ MakeTunnelScratch \/ StartSink \/ StartTunnel \/ Relay
    \/ CloseTunnel \/ CloseSink \/ RemoveTunnelScratch \/ CloseSession \/ RemoveScratch
=============================================================================
