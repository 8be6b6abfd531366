--------------------------- MODULE SandboxRunProofs ---------------------------
(***************************************************************************)
(* For any number of connections, any limit and any answers of the         *)
(* resolver: nothing is dialled that was not vetted, the command only runs *)
(* behind its broker, and a run that is over leaves nothing behind but     *)
(* what was being dialled.                                                 *)
(***************************************************************************)
EXTENDS SandboxRun, FiniteSetTheorems, TLAPS

\* Where execute() is decides what the broker and the scratch directory are.
LaunchInv ==
    /\ launch \in {"context", "scratch"} => scratch = FALSE
    /\ launch \notin {"context", "scratch", "over"} => scratch = TRUE
    /\ launch = "over" => scratch = FALSE \/ outcome = "unremoved"
    /\ launch \in {"context", "scratch", "policy", "broker"} => session = "none"
    /\ launch \in {"gaps", "audit", "running", "finish"} =>
           \/ wanted = TRUE /\ session = "listening"
           \/ wanted = FALSE /\ session = "none"
    /\ launch = "cleanup" => session \in {"none", "listening"}
    /\ launch = "closing" => session = "closing"
    /\ launch \in {"remove", "over"} => session \in {"none", "closed"}
    /\ launch = "broker" => wanted = TRUE

\* A connection r of a session s, at every point of its set-up.
Sound(r, s) ==
    /\ r.up # "none" => /\ r.answer # <<>>
                        /\ \/ r.host \in Explicit /\ All(r.answer, "public")
                           \/ LoopbackRule /\ r.host \in Local /\ All(r.answer, "loopback")
    /\ r.up = "dialing" => r.stage \in {"dial", "done"}
    /\ r.stage = "dial" => r.up = "dialing"
    /\ r.up = "open" => r.stage = "tunnel"
    /\ r.up = "stray" => r.stage = "done"
    /\ r.stage \in {"none", "header", "resolve"} => r.up = "none"
    /\ r.stage = "none" <=> r.client = "none"
    /\ r.client \in {"open", "ended"} /\ ~r.tracked => r.stage = "done"
    /\ s = "none" => r.stage = "none"
    /\ s \in {"closing", "closed"} =>
           /\ r.stage \in {"resolve", "dial"} \/ r.up = "open" => r.late
           /\ r.client \in {"open", "ended"} => ~r.tracked
    /\ s = "closed" => r.client \notin {"open", "ended"}

ConnInv == \A c \in Connection : Sound(conn[c], session)

IInv == TypeOK /\ LaunchInv /\ ConnInv

-----------------------------------------------------------------------------
(* Broker steps *)

\* A dead launcher has no sockets.
LEMMA FreshIsSound == ASSUME NEW s PROVE Sound(Fresh, s) /\ Fresh \in Conn
  BY DEF Sound, Fresh, Conn, All

\* Clients only grow by Connect, and never above the limit.
LEMMA FewerClients ==
    ASSUME conn \in [Connection -> Conn], Cardinality(Clients) <= MaxConnections,
           \A c \in Connection : Connected(c)' => Connected(c)
    PROVE  Cardinality(Clients)' <= MaxConnections
<1>1. Clients' \subseteq Clients /\ IsFiniteSet(Clients)
  BY FS_Subset, BrokerConstants DEF Clients
<1>2. Cardinality(Clients') <= Cardinality(Clients)
  BY <1>1, FS_Subset
<1>3. Cardinality(Clients) \in Nat /\ Cardinality(Clients') \in Nat /\ MaxConnections \in Nat
  BY <1>1, FS_Subset, FS_CardinalityType, BrokerConstants
<1> QED BY <1>2, <1>3

\* What a step has to show of the one connection it changes.
LEMMA OneConnection ==
    ASSUME IInv, NEW c \in Connection, NEW r \in Conn,
           conn' = [conn EXCEPT ![c] = r], Sound(r, session),
           r.client \in {"open", "ended"} => Connected(c),
           UNCHANGED <<session, alive, run>>
    PROVE  IInv'
<1>1. conn' \in [Connection -> Conn]
  BY DEF IInv, TypeOK
<1>2. \A d \in Connection : conn'[d] = IF d = c THEN r ELSE conn[d]
  BY DEF IInv, TypeOK
<1>3. Cardinality(Clients)' <= MaxConnections
  <2>1. \A d \in Connection : Connected(d)' => Connected(d)
    BY <1>2 DEF Connected
  <2> QED BY <2>1, FewerClients DEF IInv, TypeOK
<1>4. ConnInv'
  BY <1>2 DEF IInv, ConnInv
<1>5. TypeOK'
  BY <1>1, <1>3 DEF IInv, TypeOK, run
<1>6. LaunchInv'
  BY DEF IInv, LaunchInv, run
<1> QED BY <1>4, <1>5, <1>6 DEF IInv

LEMMA DiesStep ==
    ASSUME IInv, Dies, UNCHANGED <<session, run>>
    PROVE  IInv'
<1>1. \A d \in Connection : conn'[d] = Fresh
  BY DEF Dies
<1>2. conn' \in [Connection -> Conn] /\ alive' = FALSE
  BY FreshIsSound DEF Dies
<1>3. Cardinality(Clients)' <= MaxConnections
  <2>1. \A d \in Connection : Connected(d)' => Connected(d)
    BY <1>1 DEF Connected, Fresh
  <2> QED BY <2>1, FewerClients DEF IInv, TypeOK
<1>4. ConnInv'
  BY <1>1, FreshIsSound DEF IInv, ConnInv
<1>5. TypeOK'
  BY <1>2, <1>3 DEF IInv, TypeOK, run
<1>6. LaunchInv'
  BY DEF IInv, LaunchInv, run
<1> QED BY <1>4, <1>5, <1>6 DEF IInv

\* reject() of a connection that goes on as r.
LEMMA RejectStep ==
    ASSUME IInv, NEW c \in Connection, NEW r \in Conn, Reject(c, r), Connected(c) \/ r.client = "closed",
           Sound(r, session), r.client = conn[c].client,
           UNCHANGED <<session, run>>
    PROVE  IInv'
<1>1. CASE r.client = "open"
  <2> DEFINE q == [r EXCEPT !.client = "ended"]
  <2>1. q \in Conn /\ Sound(q, session)
    BY <1>1 DEF Conn, Sound
  <2>2. conn' = [conn EXCEPT ![c] = q] /\ UNCHANGED alive
    BY <1>1 DEF Reject, Becomes
  <2>3. Connected(c)
    BY <1>1 DEF Connected
  <2> HIDE DEF q
  <2> QED BY <2>1, <2>2, <2>3, OneConnection DEF run
<1>2. CASE r.client = "ended"
  BY <1>2, DiesStep DEF Reject
<1>3. CASE r.client = "closed"
  <2>1. conn' = [conn EXCEPT ![c] = r] /\ UNCHANGED alive
    BY <1>3 DEF Reject, Becomes
  <2> QED BY <1>3, <2>1, OneConnection DEF run
<1>4. r.client \in {"open", "ended", "closed"}
  BY DEF Connected
<1> QED BY <1>1, <1>2, <1>3, <1>4

\* Connect: the limit is checked before the client is counted.
LEMMA ConnectStep ==
    ASSUME IInv, NEW c \in Connection, Connect(c), UNCHANGED run
    PROVE  IInv'
<1>1. conn[c] \in Conn /\ Sound(conn[c], session) /\ conn[c].stage = "none" /\ session = "listening"
  BY DEF IInv, TypeOK, ConnInv, Connect
<1> DEFINE turned == [conn[c] EXCEPT !.stage = "done", !.client = "closed"]
           refused == [conn[c] EXCEPT !.stage = "done", !.client = "ended"]
           admitted == [conn[c] EXCEPT !.stage = "header", !.client = "open", !.tracked = TRUE,
                                       !.armed = TRUE]
           r == IF Cardinality(Clients) >= MaxConnections THEN turned
                ELSE IF Size >= MaxConnections THEN refused ELSE admitted
<1>2. conn' = [conn EXCEPT ![c] = r] /\ UNCHANGED <<session, alive>>
  BY DEF Connect, Becomes
<1>3. turned \in Conn /\ refused \in Conn /\ admitted \in Conn
  BY <1>1 DEF Conn
<1>4. Sound(turned, session) /\ Sound(refused, session) /\ Sound(admitted, session)
  BY <1>1 DEF Sound, Conn
<1>5. CASE Cardinality(Clients) >= MaxConnections
  <2>1. turned.client = "closed" /\ r = turned
    BY <1>1, <1>5 DEF Conn
  <2> HIDE DEF turned, r
  <2> QED BY <1>2, <1>3, <1>4, <2>1, OneConnection
<1>6. CASE ~(Cardinality(Clients) >= MaxConnections)
  <2>1. r \in Conn /\ Sound(r, session)
    <3> HIDE DEF turned, refused, admitted
    <3> QED BY <1>3, <1>4
  <2> HIDE DEF r
  <2>2. \A d \in Connection : conn'[d] = IF d = c THEN r ELSE conn[d]
    BY <1>2 DEF IInv, TypeOK
  <2>3. Clients' \subseteq Clients \cup {c}
    BY <2>2 DEF Clients, Connected
  <2>4. IsFiniteSet(Clients) /\ Cardinality(Clients) \in Nat /\ MaxConnections \in Nat
    BY FS_Subset, FS_CardinalityType, BrokerConstants DEF Clients
  <2>5. /\ IsFiniteSet(Clients \cup {c})
        /\ Cardinality(Clients \cup {c}) <= Cardinality(Clients) + 1
    <3>1. CASE c \in Clients
      <4>1. Clients \cup {c} = Clients
        BY <3>1
      <4>2. IsFiniteSet(Clients \cup {c}) /\ Cardinality(Clients \cup {c}) = Cardinality(Clients)
        BY <2>4, <4>1, Zenon
      <4> QED BY <2>4, <4>2
    <3>2. CASE c \notin Clients
      <4>1. /\ IsFiniteSet(Clients \cup {c})
            /\ Cardinality(Clients \cup {c}) = Cardinality(Clients) + 1
        BY <2>4, <3>2, FS_AddElement
      <4> QED BY <2>4, <4>1
    <3> QED BY <3>1, <3>2
  <2>6. IsFiniteSet(Clients') /\ Cardinality(Clients') <= Cardinality(Clients \cup {c})
    BY <2>3, <2>5, FS_Subset
  <2>7. Cardinality(Clients') \in Nat /\ Cardinality(Clients \cup {c}) \in Nat
    BY <2>5, <2>6, FS_CardinalityType
  <2>8. Cardinality(Clients)' <= MaxConnections
    BY <1>6, <2>4, <2>5, <2>6, <2>7
  <2>9. ConnInv'
    BY <1>2, <2>1, <2>2 DEF IInv, ConnInv
  <2>10. TypeOK'
    <3>1. conn' \in [Connection -> Conn]
      BY <1>2, <2>1 DEF IInv, TypeOK
    <3> QED BY <1>2, <2>8, <3>1 DEF IInv, TypeOK, run
  <2>11. LaunchInv'
    BY <1>2 DEF IInv, LaunchInv, run
  <2> QED BY <2>9, <2>10, <2>11 DEF IInv
<1> QED BY <1>5, <1>6

\* The steps of onData and its timers.
LEMMA HandshakeStep ==
    ASSUME IInv, NEW c \in Connection, Handshake(c), UNCHANGED run
    PROVE  IInv'
<1>1. conn[c] \in Conn /\ Sound(conn[c], session)
  BY DEF IInv, TypeOK, ConnInv
<1>2. CASE ReadHeader(c)
  <2> DEFINE r == [conn[c] EXCEPT !.stage = "done"]
  <2>1. conn[c].stage = "header" /\ Connected(c) /\ UNCHANGED session
    BY <1>2 DEF ReadHeader
  <2>2. r \in Conn /\ Sound(r, session) /\ r.client = conn[c].client
    BY <1>1, <2>1 DEF Conn, Sound
  <2>3. CASE Reject(c, r)
    <3> HIDE DEF r
    <3> QED BY <2>1, <2>2, <2>3, RejectStep
  <2>4. CASE \E h \in Host : IF AuthorityAllowed(h)
                            THEN Becomes(c, [conn[c] EXCEPT !.stage = "resolve", !.host = h])
                            ELSE Reject(c, [conn[c] EXCEPT !.stage = "done", !.host = h])
    <3>1. PICK h \in Host : IF AuthorityAllowed(h)
                            THEN Becomes(c, [conn[c] EXCEPT !.stage = "resolve", !.host = h])
                            ELSE Reject(c, [conn[c] EXCEPT !.stage = "done", !.host = h])
      BY <2>4
    <3> DEFINE go == [conn[c] EXCEPT !.stage = "resolve", !.host = h]
               no == [conn[c] EXCEPT !.stage = "done", !.host = h]
    <3>2. go \in Conn /\ no \in Conn /\ go.client = conn[c].client /\ no.client = conn[c].client
      BY <1>1 DEF Conn
    <3>3. conn[c].tracked /\ session \notin {"none", "closing", "closed"}
      BY <1>1, <2>1 DEF Sound, Connected, Conn
    <3>4. Sound(go, session) /\ Sound(no, session)
      BY <1>1, <2>1, <3>3 DEF Sound, Conn
    <3>5. CASE AuthorityAllowed(h)
      <4>1. conn' = [conn EXCEPT ![c] = go] /\ UNCHANGED alive
        BY <3>1, <3>5 DEF Becomes
      <4> HIDE DEF go
      <4> QED BY <2>1, <3>2, <3>4, <4>1, OneConnection
    <3>6. CASE ~AuthorityAllowed(h)
      <4>1. Reject(c, no)
        BY <3>1, <3>6
      <4> HIDE DEF no
      <4> QED BY <2>1, <3>2, <3>4, <4>1, RejectStep
    <3> QED BY <3>5, <3>6
  <2> QED BY <1>2, <2>3, <2>4 DEF ReadHeader
<1>3. CASE \E answer \in Answers : Resolved(c, answer)
  <2>1. PICK answer \in Answers : Resolved(c, answer)
    BY <1>3
  <2> DEFINE go == [conn[c] EXCEPT !.stage = "dial", !.up = "dialing", !.answer = answer]
             no == [conn[c] EXCEPT !.stage = "done", !.answer = answer]
  <2>2. conn[c].stage = "resolve" /\ conn[c].up = "none" /\ conn[c].client # "none" /\ UNCHANGED session
    BY <1>1, <2>1 DEF Resolved, Sound, Conn
  <2>3. go \in Conn /\ no \in Conn /\ go.client = conn[c].client /\ no.client = conn[c].client
    BY <1>1, BrokerConstants DEF Conn
  <2>4. Sound(no, session) /\ (no.client = "closed" \/ Connected(c))
    BY <1>1, <2>2 DEF Sound, Conn, Connected
  <2>5. CASE Authorize(conn[c].host, answer)
    <3>1. conn' = [conn EXCEPT ![c] = go] /\ UNCHANGED alive
      BY <2>1, <2>5 DEF Resolved, Becomes
    <3>2. Sound(go, session)
      BY <1>1, <2>2, <2>5 DEF Sound, Conn, Authorize, AuthorityAllowed
    <3> HIDE DEF go
    <3> QED BY <2>2, <2>3, <3>1, <3>2, OneConnection DEF Connected
  <2>6. CASE ~Authorize(conn[c].host, answer)
    <3>1. Reject(c, no)
      BY <2>1, <2>6 DEF Resolved
    <3> HIDE DEF no
    <3> QED BY <2>2, <2>3, <2>4, <3>1, RejectStep
  <2> QED BY <2>5, <2>6
<1>4. CASE ResolveFails(c) \/ DialTimesOut(c)
  <2> DEFINE no == [conn[c] EXCEPT !.stage = "done"]
  <2>1. conn[c].stage \in {"resolve", "dial"} /\ Reject(c, no) /\ UNCHANGED session
    BY <1>4 DEF ResolveFails, DialTimesOut
  <2>2. no \in Conn /\ no.client = conn[c].client
    BY <1>1 DEF Conn
  <2>3. Sound(no, session)
    BY <1>1, <2>1 DEF Sound, Conn
  <2>4. no.client \in {"open", "ended", "closed"}
    BY <1>1, <2>1, <2>2 DEF Conn, Sound
  <2>5. no.client = "closed" \/ Connected(c)
    BY <2>2, <2>4 DEF Connected
  <2> HIDE DEF no
  <2> QED BY <2>1, <2>2, <2>3, <2>5, RejectStep
<1>5. CASE Dialled(c)
  <2> DEFINE r == conn[c]
             s == IF r.stage # "dial" THEN [r EXCEPT !.up = "stray"]
                  ELSE IF r.client = "ended"
                  THEN [r EXCEPT !.stage = "tunnel", !.client = "closed", !.up = "closed"]
                  ELSE [r EXCEPT !.stage = "tunnel", !.up = "open"]
  <2>1. conn[c].up = "dialing" /\ UNCHANGED session /\ conn' = [conn EXCEPT ![c] = s] /\ UNCHANGED alive
    BY <1>5 DEF Dialled, Becomes
  <2>2. s \in Conn
    BY <1>1 DEF Conn
  <2>3. Sound(s, session) /\ (s.client \in {"open", "ended"} => Connected(c))
    BY <1>1, <2>1 DEF Sound, Conn, Connected
  <2> HIDE DEF s
  <2> QED BY <2>1, <2>2, <2>3, OneConnection
<1>6. CASE DialFails(c)
  <2> DEFINE no == [conn[c] EXCEPT !.up = "closed", !.stage = "done"]
  <2>1. /\ conn[c].up = "dialing" /\ UNCHANGED session
        /\ IF conn[c].stage = "dial" THEN Reject(c, no) ELSE Becomes(c, no)
    BY <1>6 DEF DialFails
  <2>2. no \in Conn /\ no.client = conn[c].client
    BY <1>1 DEF Conn
  <2>3. Sound(no, session)
    BY <1>1, <2>1 DEF Sound, Conn
  <2>4. CASE conn[c].stage = "dial"
    <3>1. no.client \in {"open", "ended", "closed"}
      BY <1>1, <2>2, <2>4 DEF Conn, Sound
    <3>2. no.client = "closed" \/ Connected(c)
      BY <2>2, <3>1 DEF Connected
    <3>3. Reject(c, no)
      BY <2>1, <2>4
    <3> HIDE DEF no
    <3> QED BY <2>1, <2>2, <2>3, <3>2, <3>3, RejectStep
  <2>5. CASE conn[c].stage # "dial"
    <3>1. conn' = [conn EXCEPT ![c] = no] /\ UNCHANGED alive
      BY <2>1, <2>5 DEF Becomes
    <3> HIDE DEF no
    <3> QED BY <2>1, <2>2, <2>3, <3>1, OneConnection DEF Connected
  <2> QED BY <2>4, <2>5
<1>7. CASE HandshakeTimer(c)
  <2> DEFINE no == [conn[c] EXCEPT !.armed = FALSE]
  <2>1. Connected(c) /\ UNCHANGED session /\ Reject(c, no)
    BY <1>7 DEF HandshakeTimer
  <2>2. no \in Conn /\ no.client = conn[c].client
    BY <1>1 DEF Conn
  <2>3. Sound(no, session)
    BY <1>1 DEF Sound, Conn
  <2> HIDE DEF no
  <2> QED BY <2>1, <2>2, <2>3, RejectStep
<1> QED BY <1>2, <1>3, <1>4, <1>5, <1>6, <1>7 DEF Handshake

\* Halves of a tunnel, peers and destinations that go.
LEMMA EndsStep ==
    ASSUME IInv, NEW c \in Connection, Ends(c), UNCHANGED run
    PROVE  IInv'
<1>1. conn[c] \in Conn /\ Sound(conn[c], session)
  BY DEF IInv, TypeOK, ConnInv
<1>2. CASE IdleClient(c) \/ PeerCloses(c)
  <2> DEFINE r == [conn[c] EXCEPT !.client = "closed"]
  <2>1. Connected(c) /\ UNCHANGED <<session, alive>> /\ conn' = [conn EXCEPT ![c] = r]
    BY <1>2 DEF IdleClient, PeerCloses, Becomes
  <2>2. r \in Conn /\ Sound(r, session)
    BY <1>1, <2>1 DEF Conn, Sound, Connected
  <2> HIDE DEF r
  <2> QED BY <2>1, <2>2, OneConnection
<1>3. CASE IdleUpstream(c)
  <2> DEFINE r == [conn[c] EXCEPT !.up = "closed"]
  <2>1. conn[c].up = "open" /\ UNCHANGED <<session, alive>> /\ conn' = [conn EXCEPT ![c] = r]
    BY <1>3 DEF IdleUpstream, Becomes
  <2>2. r \in Conn /\ Sound(r, session) /\ r.client = conn[c].client
    BY <1>1, <2>1 DEF Conn, Sound
  <2> HIDE DEF r
  <2> QED BY <2>1, <2>2, OneConnection DEF Connected
<1>4. CASE PeerBreaks(c)
  <2> DEFINE r == [conn[c] EXCEPT !.client = "closed", !.up = IF @ = "open" THEN "closed" ELSE @]
  <2>1. Connected(c) /\ UNCHANGED session /\ (IF conn[c].stage # "tunnel" THEN Dies ELSE Becomes(c, r))
    BY <1>4 DEF PeerBreaks
  <2>2. r \in Conn /\ Sound(r, session)
    BY <1>1, <2>1 DEF Conn, Sound, Connected
  <2>3. CASE conn[c].stage # "tunnel"
    BY <2>1, <2>3, DiesStep
  <2>4. CASE conn[c].stage = "tunnel"
    <3>1. conn' = [conn EXCEPT ![c] = r] /\ UNCHANGED alive
      BY <2>1, <2>4 DEF Becomes
    <3> HIDE DEF r
    <3> QED BY <2>1, <2>2, <3>1, OneConnection
  <2> QED BY <2>3, <2>4
<1>5. CASE DestinationCloses(c)
  <2> DEFINE r == [conn[c] EXCEPT !.up = "closed",
                                  !.client = IF @ = "open" /\ conn[c].stage = "tunnel" THEN "ended" ELSE @]
  <2>1. /\ conn[c].up \in {"open", "stray"} /\ UNCHANGED <<session, alive>>
        /\ conn' = [conn EXCEPT ![c] = r]
    BY <1>5 DEF DestinationCloses, Becomes
  <2>2. r \in Conn
    BY <1>1 DEF Conn
  <2>3. Sound(r, session) /\ (r.client \in {"open", "ended"} => Connected(c))
    BY <1>1, <2>1 DEF Conn, Sound, Connected
  <2> HIDE DEF r
  <2> QED BY <2>1, <2>2, <2>3, OneConnection
<1> QED BY <1>2, <1>3, <1>4, <1>5 DEF Ends

-----------------------------------------------------------------------------
(* Steps of the launcher *)

\* close(): what `sockets` holds is gone, what is being set up is late.
LEMMA CloseStep ==
    ASSUME IInv, Close
    PROVE  /\ conn' \in [Connection -> Conn]
           /\ Cardinality(Clients)' <= MaxConnections
           /\ ConnInv' /\ session' = "closing" /\ alive' = alive
<1> DEFINE G(c) == conn[c].stage \in {"resolve", "dial"}
           F(c) == [conn[c] EXCEPT !.client = IF conn[c].tracked /\ c \in Clients THEN "closed" ELSE @,
                                   !.up = IF @ = "open" THEN "closed" ELSE @,
                                   !.late = G(c)]
<1>1. /\ conn' = [c \in Connection |-> F(c)]
      /\ session = "listening" /\ session' = "closing" /\ alive' = alive
  BY DEF Close
<1>2. ASSUME NEW c \in Connection
      PROVE  F(c) \in Conn /\ Sound(F(c), "closing") /\ (F(c).client \in {"open", "ended"} => Connected(c))
  <2>1. conn[c] \in Conn /\ Sound(conn[c], "listening")
    BY <1>1 DEF IInv, TypeOK, ConnInv
  <2>2. c \in Clients <=> conn[c].client \in {"open", "ended"}
    BY DEF Clients, Connected
  <2>3. F(c) \in Conn
    <3>1. G(c) = TRUE \/ G(c) = FALSE
      OBVIOUS
    <3> HIDE DEF G
    <3> QED BY <2>1, <3>1 DEF Conn
  <2>4. Sound(F(c), "closing")
    BY <2>1, <2>2 DEF Conn, Sound
  <2>5. F(c).client \in {"open", "ended"} => Connected(c)
    BY <2>1 DEF Conn, Connected
  <2> QED BY <2>3, <2>4, <2>5
<1> HIDE DEF F
<1>3. \A c \in Connection : conn'[c] = F(c)
  BY <1>1
<1>4. conn' \in [Connection -> Conn]
  BY <1>1, <1>2
<1>5. ConnInv'
  BY <1>1, <1>2, <1>3 DEF ConnInv
<1>6. Cardinality(Clients)' <= MaxConnections
  <2>1. \A c \in Connection : Connected(c)' => Connected(c)
    BY <1>2, <1>3 DEF Connected
  <2> QED BY <2>1, FewerClients DEF IInv, TypeOK
<1> QED BY <1>1, <1>4, <1>5, <1>6

\* A step that leaves the connections alone moves the session on to s.
LEMMA SessionStep ==
    ASSUME IInv, UNCHANGED <<conn, alive>>,
           \/ session' = session
           \/ session = "none" /\ session' = "listening"
           \/ session = "closing" /\ session' = "closed" /\ Clients = {}
    PROVE  /\ ConnInv' /\ conn' \in [Connection -> Conn] /\ alive' \in BOOLEAN
           /\ Cardinality(Clients)' <= MaxConnections
           /\ session' \in {"none", "listening", "closing", "closed"}
<1>1. Clients' = Clients
  BY DEF Clients, Connected
<1>2. ConnInv'
  <2> SUFFICES ASSUME NEW c \in Connection PROVE Sound(conn[c], session')
    BY DEF ConnInv
  <2>1. Sound(conn[c], session) /\ (Clients = {} => conn[c].client \notin {"open", "ended"})
    BY DEF IInv, ConnInv, Clients, Connected
  <2> QED BY <2>1 DEF Sound
<1> QED BY <1>1, <1>2 DEF IInv, TypeOK

LEMMA LaunchStep ==
    ASSUME IInv, Launch \/ CommandEnds
    PROVE  IInv'
<1>1. CASE UNCHANGED broker
  <2>1. /\ ConnInv' /\ conn' \in [Connection -> Conn] /\ alive' \in BOOLEAN
        /\ Cardinality(Clients)' <= MaxConnections /\ session' = session
        /\ session' \in {"none", "listening", "closing", "closed"}
    BY <1>1, SessionStep DEF broker
  <2>2. session' = session /\ wanted \in BOOLEAN /\ scratch \in BOOLEAN
    BY <1>1 DEF IInv, TypeOK, broker
  <2> DEFINE Stages == {"context", "scratch", "policy", "broker", "gaps", "audit", "running",
                        "finish", "cleanup", "closing", "remove", "over"}
             Goal == /\ LaunchInv' /\ launch' \in Stages
                     /\ wanted' \in BOOLEAN /\ scratch' \in BOOLEAN
  <2> SUFFICES Goal
    BY <2>1 DEF IInv, TypeOK
  <2>3. CASE SelectRunner
    BY <2>2, <2>3 DEF IInv, LaunchInv, SelectRunner, Goto
  <2>4. CASE MakeScratch
    <3>1. launch = "scratch" /\ scratch = FALSE /\ wanted' = wanted /\ session = "none"
      BY <2>2, <2>4 DEF IInv, LaunchInv, MakeScratch
    <3>2. CASE launch' = "policy" /\ scratch' = TRUE
      BY <2>2, <3>1, <3>2 DEF LaunchInv
    <3>3. CASE launch' = "over" /\ scratch' = scratch
      BY <2>2, <3>1, <3>3 DEF LaunchInv
    <3> QED BY <2>4, <3>2, <3>3 DEF MakeScratch
  <2>5. CASE BuildPolicy
    <3>1. /\ launch = "policy" /\ wanted' = wanted /\ scratch' = scratch
          /\ launch' \in {"broker", "gaps", "cleanup"}
          /\ launch' = "broker" => wanted = TRUE
          /\ launch' = "gaps" => wanted = FALSE
      <4>1. CASE wanted = TRUE
        BY <2>5, <4>1 DEF BuildPolicy, Goto, Throw
      <4>2. CASE wanted = FALSE
        BY <2>5, <4>2 DEF BuildPolicy, Goto, Throw
      <4> QED BY <2>2, <4>1, <4>2
    <3> QED BY <2>2, <3>1 DEF IInv, LaunchInv
  <2>6. CASE StartBroker
    BY <2>2, <2>6 DEF IInv, LaunchInv, StartBroker, Listen, Throw
  <2>7. CASE CheckGaps
    BY <2>2, <2>7 DEF IInv, LaunchInv, CheckGaps, Goto, Throw
  <2>8. CASE AuditStart
    BY <2>2, <2>8 DEF IInv, LaunchInv, AuditStart, Goto, Throw
  <2>9. CASE CommandEnds
    BY <2>2, <2>9 DEF IInv, LaunchInv, CommandEnds, Goto, Throw
  <2>10. CASE AuditFinish
    BY <2>2, <2>10 DEF IInv, LaunchInv, AuditFinish, Throw
  <2>11. CASE CleanUp
    BY <2>2, <2>11 DEF IInv, LaunchInv, CleanUp, Close, Goto
  <2>12. CASE BrokerClosed
    BY <2>2, <2>12 DEF BrokerClosed, Closed
  <2>13. CASE RemoveScratch
    BY <2>2, <2>13 DEF IInv, LaunchInv, RemoveScratch
  <2> QED BY <2>3, <2>4, <2>5, <2>6, <2>7, <2>8, <2>9, <2>10, <2>11, <2>12, <2>13 DEF Launch
<1>2. CASE StartBroker /\ Listen
  <2>1. /\ ConnInv' /\ conn' \in [Connection -> Conn] /\ alive' \in BOOLEAN
        /\ Cardinality(Clients)' <= MaxConnections
    BY <1>2, SessionStep DEF Listen
  <2>2. launch = "broker" /\ (Goto("gaps") \/ UNCHANGED broker)
    BY <1>2 DEF StartBroker, Listen
  <2>3. session = "none" /\ session' = "listening"
    BY <1>2 DEF Listen
  <2>4. launch' = "gaps" /\ launch = "broker" /\ UNCHANGED <<wanted, scratch, outcome>>
    BY <2>2, <2>3 DEF Goto, broker
  <2>5. LaunchInv'
    BY <2>3, <2>4 DEF IInv, TypeOK, LaunchInv
  <2> QED BY <2>1, <2>3, <2>4, <2>5 DEF IInv, TypeOK
<1>3. CASE CleanUp /\ Close
  <2>1. /\ ConnInv' /\ conn' \in [Connection -> Conn] /\ alive' = alive
        /\ Cardinality(Clients)' <= MaxConnections /\ session' = "closing"
    BY <1>3, CloseStep
  <2>2. launch = "cleanup" /\ launch' = "closing" /\ UNCHANGED <<wanted, scratch, outcome>>
    BY <1>3, <2>1 DEF CleanUp, Goto, Close, broker
  <2>3. LaunchInv'
    BY <2>1, <2>2 DEF IInv, TypeOK, LaunchInv
  <2> QED BY <2>1, <2>2, <2>3 DEF IInv, TypeOK
<1>4. CASE BrokerClosed
  <2>1. /\ ConnInv' /\ conn' \in [Connection -> Conn] /\ alive' \in BOOLEAN
        /\ Cardinality(Clients)' <= MaxConnections
    BY <1>4, SessionStep DEF BrokerClosed, Closed
  <2>2. launch = "closing" /\ launch' = "remove" /\ session' = "closed" /\ UNCHANGED <<wanted, scratch>>
    BY <1>4 DEF BrokerClosed, Closed
  <2>3. LaunchInv'
    BY <2>2 DEF IInv, TypeOK, LaunchInv
  <2> QED BY <2>1, <2>2, <2>3 DEF IInv, TypeOK
<1> QED
  BY <1>1, <1>2, <1>3, <1>4
     DEF Launch, CommandEnds, SelectRunner, MakeScratch, BuildPolicy, StartBroker, CheckGaps,
         AuditStart, AuditFinish, CleanUp, RemoveScratch

-----------------------------------------------------------------------------
(* The theorems *)

\* The inductive invariant: what the stage of the launcher says of the session
\* and the scratch directory, and what the stage of a connection says of its
\* two sockets.
THEOREM Invariance == Spec => []IInv
<1>1. Init => IInv
  <2> SUFFICES ASSUME Init PROVE IInv
    OBVIOUS
  <2>1. conn \in [Connection -> Conn] /\ \A c \in Connection : conn[c] = Fresh
    BY FreshIsSound DEF Init, BrokerInit
  <2>2. Clients = {}
    BY <2>1 DEF Clients, Connected, Fresh
  <2>3. Cardinality(Clients) <= MaxConnections
    BY <2>2, FS_EmptySet, BrokerConstants
  <2>4. ConnInv
    BY <2>1, FreshIsSound DEF ConnInv
  <2> QED BY <2>1, <2>3, <2>4 DEF Init, BrokerInit, IInv, TypeOK, LaunchInv
<1>2. IInv /\ [Next]_vars => IInv'
  <2> SUFFICES ASSUME IInv, [Next]_vars PROVE IInv'
    OBVIOUS
  <2>1. CASE Launch \/ CommandEnds
    BY <2>1, LaunchStep
  <2>2. ASSUME NEW c \in Connection, Connect(c) \/ Handshake(c) \/ Ends(c), UNCHANGED run
        PROVE  IInv'
    BY <2>2, ConnectStep, HandshakeStep, EndsStep
  <2>3. CASE UNCHANGED vars
    <3>1. ConnInv' /\ conn' = conn /\ session' = session /\ alive' = alive /\ Clients' = Clients
      BY <2>3 DEF IInv, ConnInv, Clients, Connected, vars, broker
    <3>2. LaunchInv'
      BY <2>3 DEF IInv, LaunchInv, vars, broker, run
    <3> QED BY <2>3, <3>1, <3>2 DEF IInv, TypeOK, vars, run
  <2> QED BY <2>1, <2>2, <2>3 DEF Next
<1> QED BY <1>1, <1>2, PTL DEF Spec

\* Every reachable state is well typed, with at most maxConnections clients.
THEOREM TypeCorrect == Spec => []TypeOK
<1>1. IInv => TypeOK
  BY DEF IInv
<1> QED BY <1>1, Invariance, PTL

\* Nothing is dialled but addresses of an answer that authorize() let pass as a
\* whole.
THEOREM EgressTheorem == Spec => []EgressIsVetted
<1>1. IInv => EgressIsVetted
  BY DEF IInv, ConnInv, Sound, EgressIsVetted
<1> QED BY <1>1, Invariance, PTL

\* RunSandboxed only runs the command behind the broker its policy needs.
THEOREM FailClosedTheorem == Spec => []FailClosed
<1>1. IInv => FailClosed
  BY DEF IInv, TypeOK, LaunchInv, FailClosed
<1> QED BY <1>1, Invariance, PTL

\* When execute() is over, its scratch directory, its server and its clients are
\* gone, and the upstreams left were being dialled when close() came.
THEOREM NothingLeftTheorem == Spec => []NothingIsLeft
<1>1. ASSUME IInv, launch = "over"
      PROVE  /\ scratch => outcome = "unremoved"
             /\ session \in {"none", "closed"} /\ Clients = {}
             /\ \A c \in Connection : conn[c].up \in {"open", "stray"} =>
                    conn[c].late \/ conn[c].stage = "done"
  <2>1. (scratch => outcome = "unremoved") /\ session \in {"none", "closed"}
    BY <1>1 DEF IInv, LaunchInv
  <2>2. ASSUME NEW c \in Connection
        PROVE  /\ ~Connected(c)
               /\ conn[c].up \in {"open", "stray"} => conn[c].late \/ conn[c].stage = "done"
    <3>1. Sound(conn[c], session) /\ conn[c] \in Conn
      BY <1>1 DEF IInv, ConnInv, TypeOK
    <3> QED BY <2>1, <3>1 DEF Sound, Connected, Conn
  <2> QED BY <2>1, <2>2 DEF Clients
<1>2. IInv => NothingIsLeft
  BY <1>1 DEF NothingIsLeft
<1> QED BY <1>2, Invariance, PTL
=============================================================================
