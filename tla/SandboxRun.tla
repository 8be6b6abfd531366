------------------------------ MODULE SandboxRun ------------------------------
(***************************************************************************)
(* RunSandboxed.execute(): a private scratch directory, the policy, the    *)
(* destination broker, the confined command, and what must be undone on    *)
(* every way out.                                                          *)
(***************************************************************************)
EXTENDS DestinationBroker

VARIABLES launch,   \* how far execute() is
          wanted,   \* does the policy name destinations?
          scratch,  \* the scratch directory exists
          outcome   \* what the caller will see: Null, "exit", "refused", "failed", or
                    \* "unremoved" when the scratch directory could not be removed

run == <<launch, wanted, scratch, outcome>>
vars == <<broker, run>>

Init == /\ BrokerInit
        /\ launch = "context" /\ wanted \in BOOLEAN /\ scratch = FALSE /\ outcome = Null

\* execute() goes on at a stage.
Goto(stage) == launch' = stage /\ UNCHANGED <<wanted, scratch, outcome>>

\* execute() throws inside the try block: on to the finally block.
Throw(how) == launch' = "cleanup" /\ outcome' = how /\ UNCHANGED <<wanted, scratch>>

\* resolveContext and selectRunner: an unsafe workspace or no back end refuse
\* before anything exists.
SelectRunner == /\ launch = "context"
                /\ \/ Goto("scratch")
                   \/ launch' = "over" /\ outcome' = "refused" /\ UNCHANGED <<wanted, scratch>>
                /\ UNCHANGED broker

MakeScratch == /\ launch = "scratch"
               /\ \/ launch' = "policy" /\ scratch' = TRUE /\ UNCHANGED <<wanted, outcome>>
                  \/ launch' = "over" /\ outcome' = "failed" /\ UNCHANGED <<wanted, scratch>>
               /\ UNCHANGED broker

\* buildPolicy: the grants are read, the policy is built.
BuildPolicy == /\ launch = "policy"
               /\ Goto(IF wanted THEN "broker" ELSE "gaps") \/ Throw("failed")
               /\ UNCHANGED broker

\* Mutant: a broker that does not start is no obstacle.
StartBrokerOrNot == /\ launch = "broker"
                    /\ Goto("gaps")
                    /\ Listen \/ UNCHANGED broker

\* No broker, or one that does not start, is a policy gap.
StartBroker == /\ launch = "broker"
               /\ \/ Listen /\ Goto("gaps")
                  \/ UNCHANGED broker /\ Throw("refused")

\* runner.unenforceable
CheckGaps == /\ launch = "gaps"
             /\ Goto("audit") \/ Throw("refused")
             /\ UNCHANGED broker

\* run.start is on record before the command starts.
AuditStart == /\ launch = "audit"
              /\ Goto("running") \/ Throw("failed")
              /\ UNCHANGED broker

\* runner.run: the command exits, or could not be started.
CommandEnds == /\ launch = "running"
               /\ Goto("finish") \/ Throw("failed")
               /\ UNCHANGED broker

AuditFinish == /\ launch = "finish"
               /\ Throw("exit") \/ Throw("failed")
               /\ UNCHANGED broker

\* finally: brokerSession.close()
CleanUp == /\ launch = "cleanup"
           /\ IF session = "listening" THEN Close /\ Goto("closing")
                                       ELSE UNCHANGED broker /\ Goto("remove")

\* Mutant: close() and remove() in one finally block.
ClosedSkipsRemoval ==
    /\ launch = "closing" /\ Closed
    /\ \/ Goto("remove")
       \/ launch' = "over" /\ outcome' = "failed" /\ UNCHANGED <<wanted, scratch>>

\* close() returns, or throws because the Unix socket cannot be removed.
BrokerClosed == /\ launch = "closing" /\ Closed
                /\ launch' = "remove" /\ outcome' \in {outcome, "failed"}
                /\ UNCHANGED <<wanted, scratch>>

RemoveScratch == /\ launch = "remove" /\ launch' = "over"
                 /\ \/ scratch' = FALSE /\ UNCHANGED outcome
                    \/ scratch' = TRUE /\ outcome' = "unremoved"
                 /\ UNCHANGED <<wanted, broker>>

Launch == \/ SelectRunner \/ MakeScratch \/ BuildPolicy \/ StartBroker \/ CheckGaps \/ AuditStart
          \/ AuditFinish \/ CleanUp \/ BrokerClosed \/ RemoveScratch

Next == /\ alive
        /\ \/ Launch \/ CommandEnds
           \/ \E c \in Connection : /\ (launch = "running" /\ Connect(c)) \/ Handshake(c) \/ Ends(c)
                                    /\ UNCHANGED run

\* Every await of execute() ends, but for the command's.
Spec == Init /\ [][Next]_vars
LiveSpec == Spec /\ WF_vars(alive /\ Launch) /\ BrokerFairness

-----------------------------------------------------------------------------
(* Properties *)

\* The limit counts clients; upstreams dialled for clients that left come on
\* top.
TypeOK == /\ launch \in {"context", "scratch", "policy", "broker", "gaps", "audit", "running",
                         "finish", "cleanup", "closing", "remove", "over"}
          /\ wanted \in BOOLEAN /\ scratch \in BOOLEAN /\ alive \in BOOLEAN
          /\ session \in {"none", "listening", "closing", "closed"}
          /\ conn \in [Connection -> Conn]
          /\ Cardinality(Clients) <= MaxConnections

\* Whatever the resolver says and when: nothing is ever dialled but the first
\* address of an answer of which every address suits the rule that let the
\* authority in.
EgressIsVetted ==
    \A c \in Connection : conn[c].up # "none" =>
        /\ conn[c].answer # <<>>
        /\ \/ conn[c].host \in Explicit /\ All(conn[c].answer, "public")
           \/ LoopbackRule /\ conn[c].host \in Local /\ All(conn[c].answer, "loopback")

\* "if ... the selected mechanism cannot enforce the complete policy, the command
\* does not start": while the command runs it has the scratch directory, and
\* the broker if it may reach any destination.
FailClosed == alive /\ launch = "running" => scratch /\ (wanted <=> session = "listening")

\* When execute() is over, with a result or with an error of any of its steps,
\* there is no scratch directory, unless the caller was told that it cannot be
\* removed, no listening broker and no client, and the upstreams left are those
\* that were being set up when close() came or had been given up.  Those, and a
\* launcher that dies before execute() is over, are what the comments the next
\* property quotes do not allow.
NothingIsLeft ==
    launch = "over" =>
        /\ scratch => outcome = "unremoved"
        /\ session \in {"none", "closed"} /\ Clients = {}
        /\ \A c \in Connection : conn[c].up \in {"open", "stray"} =>
               conn[c].late \/ conn[c].stage = "done"

\* "Scratch ... is private while the command runs and removed on every exit path"
\* (RunSandboxed.ts:210-211) and "The upstream half is tracked too.  Without it
\* close() leaves live sockets behind" (NodeDestinationBroker.ts:222-224): the
\* launcher's end leaves no scratch directory it did not report, and close() no
\* live socket.  The code refutes both halves.
RemovedOnEveryExit ==
    launch = "over" \/ ~alive =>
        /\ scratch => outcome = "unremoved"
        /\ \A c \in Connection : conn[c].up \notin {"open", "stray"}

\* A client that connects is answered: it gets its tunnel or a status line, or is
\* gone, and the look-up and the dial made for it come to an end, whatever its
\* peer, the resolver and the destination do.  That its slot is free again is not
\* said: reject() only calls end(), the timer fires once, and a peer that was
\* answered keeps its connection until it or close() ends it.
HandshakesEnd ==
    \A c \in Connection :
        /\ conn[c].stage = "header" ~>
               conn[c].stage = "tunnel" \/ conn[c].client \in {"ended", "closed"} \/ ~alive
        /\ conn[c].stage \in {"resolve", "dial"} ~> conn[c].stage \in {"tunnel", "done"} \/ ~alive

\* Clients that close() does not know of: told 503, they are in no list.
Untracked == {c \in Clients : ~conn[c].tracked}

\* Once the command has ended the run ends, unless a peer that was told 503 never
\* hangs up: server.close() waits for it.  No other peer, and no destination,
\* can hold it up.
RunEnds == []<>(Untracked = {}) => (launch = "finish" ~> launch = "over" \/ ~alive)
=============================================================================
