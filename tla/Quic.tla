-------------------------------- MODULE Quic --------------------------------
(***************************************************************************)
(* transports/quic/src/lib.rs: DualQuicTransport over two QuicTransports,   *)
(* one per address family, with the host that calls it and the network and  *)
(* quiche that feed it.  poll() is split into the steps of its loops; no    *)
(* call of the host falls between them, since one thread does both.         *)
(*                                                                         *)
(* A definition marked "Slip" repeats the next unmarked one with a          *)
(* plausible mistake.                                                       *)
(***************************************************************************)
EXTENDS QuicConnection

CONSTANTS
    Families,      \* the sockets in use: a subset of Ipv4 and Ipv6
    MaxConns,      \* bound: connection ids of each family
    MaxInput,      \* bound: datagrams that bring stream input
    MaxCalls,      \* bound: calls on streams and connections
    MaxBytes,      \* bound: bytes in a queue of writes
    MaxFaults,     \* bound: errors of sockets, of stream_send and of dials
    Impostors      \* whether certificates may prove something else than they
                   \* should, or nothing

ASSUME QuicAssumption ==
    /\ Families \subseteq {"Ipv4", "Ipv6"} /\ Families # {}
    /\ \A bound \in {MaxConns, MaxInput, MaxCalls, MaxBytes, MaxFaults} : bound \in Nat
    /\ Impostors \in BOOLEAN

VARIABLES
    transport,  \* transport[f]: the QuicTransport of family f
    poll,       \* the poll() in progress
    ready,      \* events poll() has returned and the host has not handled yet
    conn, stream, heard,  \* what the events told: see TransportContract
    inputs, calls, faults \* used up of MaxInput, MaxCalls and MaxFaults

contract == <<conn, stream, heard>>
vars == <<transport, poll, ready, conn, stream, heard, inputs, calls, faults>>

Local == 1 .. MaxConns

\* external_id and internal_id: ids of the two families interleave.
ExternalId(f, n) == IF f = "Ipv4" THEN 2 * n - 1 ELSE 2 * n
Family(id) == IF id % 2 = 0 THEN "Ipv6" ELSE "Ipv4"
InternalId(id) == IF id % 2 = 0 THEN id \div 2 ELSE (id + 1) \div 2

Ids == {ExternalId(f, n) : f \in Families, n \in Local}

Contract == INSTANCE TransportContract

\* Connections of which the host cannot be told everything in order: poll()
\* has lost events of them, or they were refused in the handshake.  The
\* contract knows the former only.
Excused == Contract!Gaps \cup {"refused"}

\* map_event
Tag(f, n, events) ==
    [i \in DOMAIN events |->
       [kind |-> events[i].kind, id |-> ExternalId(f, n), stream |-> events[i].stream]]

\* Slip: mapped once when it is queued and again when it is taken.
MapEventsTwice(f, queue) ==
    [i \in DOMAIN queue |->
       [kind |-> queue[i].told.kind,
        id |-> IF queue[i].id = None THEN None
               ELSE ExternalId(f, ExternalId(f, queue[i].id)),
        stream |-> queue[i].told.stream]]

\* A queued event is [id, told], told as the connection pushed it.
MapEvents(f, queue) ==
    [i \in DOMAIN queue |->
       [kind |-> queue[i].told.kind,
        id |-> IF queue[i].id = None THEN None ELSE ExternalId(f, queue[i].id),
        stream |-> queue[i].told.stream]]

Queued(n, events) == [i \in DOMAIN events |-> [id |-> n, told |-> events[i]]]

NewTransport ==
    [connections |-> [n \in Local |-> None], cid_to_connection |-> {},
     peer_connections |-> [p \in Peers |-> {}], pending_events |-> << >>,
     listening |-> FALSE, next_connection_id |-> 1]

Idle == [step |-> "idle", family |-> "Ipv4", todo |-> {}, gone |-> {}, events |-> << >>]

Init ==
    /\ transport = [f \in Families |-> NewTransport]
    /\ poll = Idle
    /\ ready = << >>
    /\ Contract!Init
    /\ inputs = 0
    /\ calls = 0
    /\ faults = 0

Fault == faults < MaxFaults /\ faults' = faults + 1

Live(f) == {n \in Local : transport[f].connections[n] # None}

-----------------------------------------------------------------------------
\* Indexes.

IndexPeer(t, p, n) == [t EXCEPT !.peer_connections[p] = @ \cup {n}]
RemovePeer(t, p, n) ==
    IF p = None THEN t ELSE [t EXCEPT !.peer_connections[p] = @ \ {n}]

\* identity_update: the connection's peer id has changed from old.
Reindex(t, old, n) ==
    IF t.connections[n].peer_id = old THEN t
    ELSE IndexPeer(RemovePeer(t, old, n), t.connections[n].peer_id, n)

\* Slip: connections stay in the peer index.
RemoveKeepsPeers(t, gone) ==
    [t EXCEPT !.connections = [n \in Local |-> IF n \in gone THEN None ELSE @[n]],
              !.cid_to_connection = @ \ gone]

\* unindex_connection for every closed connection.
RemoveClosed(t, gone) ==
    [t EXCEPT !.connections = [n \in Local |-> IF n \in gone THEN None ELSE @[n]],
              !.cid_to_connection = @ \ gone,
              !.peer_connections = [p \in Peers |->
                 @[p] \ {n \in gone : t.connections[n].peer_id = p}]]

\* connections.insert, cid_to_connection.insert
Insert(t, n, c) ==
    [t EXCEPT !.connections[n] = c, !.cid_to_connection = @ \cup {n},
              !.next_connection_id = n + 1]

\* allocate_connection_id: the counter never comes round here, so the next id
\* is unused.
Allocates(f, n) == n = transport[f].next_connection_id /\ n \in Local

-----------------------------------------------------------------------------
\* Calls of the host, between two polls.

Calling == poll.step = "idle" /\ ready = << >> /\ heard = Contract!Silence

\* What the certificate of a remote can prove, when the peer was dialed (None
\* if nobody was).
Certificates(peer) ==
    IF Impostors THEN Peers \cup {None}
    ELSE IF peer = None THEN Peers ELSE {peer}

Dial(f, p) ==
    /\ Calling
    /\ \E n \in Local, cert \in Certificates(p) :
         /\ Allocates(f, n)
         /\ transport' = [transport EXCEPT
                            ![f] = IndexPeer(Insert(@, n, New(FALSE, p, cert)), p, n)]
         /\ Contract!Dial(ExternalId(f, n))
    /\ UNCHANGED <<poll, ready, inputs, calls, faults>>

\* Resolution, quiche::connect or the first send fails: the id is spent.
DialFails(f) ==
    /\ Calling
    /\ Fault
    /\ \E n \in Local : Allocates(f, n)
    /\ transport' = [transport EXCEPT ![f].next_connection_id = @ + 1]
    /\ UNCHANGED <<poll, ready, contract, inputs, calls>>

Listen(f) ==
    /\ Calling
    /\ ~transport[f].listening
    /\ transport' = [transport EXCEPT
                       ![f].listening = TRUE,
                       ![f].pending_events = @ \o Queued(None, <<Told("Listening", None)>>)]
    /\ UNCHANGED <<poll, ready, contract, inputs, calls, faults>>

\* A call on connection id: what the connection pushed waits for the next
\* poll, also when the call returns an error.
Call(id, r) ==
    LET f == Family(id)
        n == InternalId(id)
    IN  /\ IF r.ok THEN UNCHANGED faults ELSE Fault
        /\ calls < MaxCalls
        /\ calls' = calls + 1
        /\ transport' = [transport EXCEPT
                           ![f].connections[n] = r.conn,
                           ![f].pending_events = @ \o Queued(n, r.events)]
        /\ UNCHANGED <<poll, ready, contract, inputs>>

\* The host knows the connection; ConnectionNotFound changes nothing.
Callable(id) == Calling /\ conn[id] # "none" /\ InternalId(id) \in Live(Family(id))

Conn(id) == transport[Family(id)].connections[InternalId(id)]

OpenStreamCall(id) ==
    /\ Callable(id)
    /\ CanOpen(Conn(id))
    /\ Call(id, OpenStream(Conn(id)))

\* The host writes to streams it has opened or been told of, until it is told
\* their end; on an excused connection, to any stream there is.
Usable(id, s) ==
    /\ Callable(id)
    /\ \/ stream[id][s] \in {"open", "half"}
       \/ /\ Conn(id).stream_states[s] # None
          /\ \/ stream[id][s] = "none" /\ IsLocalInitiated(Conn(id), s)
             \/ conn[id] \in Excused

SendStreamCall(id, s) ==
    /\ Usable(id, s)
    /\ MayWrite(Conn(id), s)
    /\ \E n \in 1 .. MaxBytes :
         /\ Len(Pending(Conn(id), s)) + n <= MaxBytes
         /\ LET c == QueueBytes(Conn(id), s, n)
            IN  \E d \in Drains(c) : Call(id, DrainSendQueue(c, d))

CloseStreamWriteCall(id, s) ==
    /\ Usable(id, s)
    /\ MayWrite(Conn(id), s)
    /\ LET c == QueueFin(Conn(id), s)
       IN  \E d \in Drains(c) : Call(id, DrainSendQueue(c, d))

ResetStreamCall(id, s) ==
    /\ Usable(id, s)
    /\ Conn(id).stream_states[s] # None
    /\ \E outcome \in ResetOutcomes : Call(id, ResetStream(Conn(id), s, outcome))

CloseCall(id) ==
    /\ Callable(id)
    /\ Conn(id).state # "Closing"
    /\ \E d \in Drains(Conn(id)) : Call(id, Close(Conn(id), d))

\* verify_connection_peer_id
VerifyPeerCall(id, p) ==
    LET f == Family(id)
        n == InternalId(id)
        old == Conn(id).peer_id
        bound == Reindex([transport[f] EXCEPT !.connections[n].peer_id = p], old, n)
        verified == Queued(n, <<Told("PeerIdentityVerified", None)>>)
    IN  /\ Callable(id)
        /\ conn[id] = "connected"
        /\ old # p
        /\ calls < MaxCalls
        /\ calls' = calls + 1
        /\ transport' = [transport EXCEPT
                           ![f] = [bound EXCEPT !.pending_events = bound.pending_events \o verified]]
        /\ UNCHANGED <<poll, ready, contract, inputs, faults>>

-----------------------------------------------------------------------------
\* poll(): the datagrams, then the streams of every connection, then Closed.

EnterFamily(f, events) ==
    /\ poll' = [step |-> "recv", family |-> f, todo |-> {}, gone |-> {},
                events |-> events \o MapEvents(f, transport[f].pending_events)]

BeginPoll ==
    LET f == IF "Ipv4" \in Families THEN "Ipv4" ELSE "Ipv6"
    IN  /\ Calling
        /\ EnterFamily(f, << >>)
        /\ transport' = [transport EXCEPT ![f].pending_events = << >>]
        /\ UNCHANGED <<ready, contract, inputs, calls, faults>>

\* An error leaves poll() with the `?` operator: every event collected so far,
\* of both families, is lost.
PollFails(who) ==
    /\ Fault
    /\ poll' = Idle
    /\ Contract!PollFails({poll.events[i].id : i \in DOMAIN poll.events} \cup who)
    /\ UNCHANGED <<ready, calls>>

SocketFails ==
    /\ poll.step = "recv"
    /\ PollFails({})
    /\ UNCHANGED <<transport, inputs>>

\* The connection is closing; the host will be told an Error, and Connected
\* never.
Refused(id) ==
    /\ conn' = [conn EXCEPT ![id] = "refused"]
    /\ UNCHANGED <<stream, heard>>

\* The outcome of recv_packet for connection n of the family being polled;
\* t is the transport with n in it, before the packet.
Received(t, n, r, before) ==
    LET f  == poll.family
        t2 == Reindex([t EXCEPT !.connections[n] = r.conn], t.connections[n].peer_id, n)
        verified == r.conn.peer_id # t.connections[n].peer_id
        new == before \o r.events
                 \o (IF verified THEN <<Told("PeerIdentityVerified", None)>> ELSE << >>)
        refused == r.conn.state = "Closing" /\ t.connections[n].state = "Connecting"
    IN  \/ /\ r.ok
           /\ transport' = [transport EXCEPT ![f] = t2]
           /\ poll' = [poll EXCEPT !.events = @ \o Tag(f, n, new)]
           /\ IF refused THEN Refused(ExternalId(f, n)) ELSE UNCHANGED contract
           /\ UNCHANGED <<ready, calls, faults>>
        \/ /\ ~r.ok
           /\ transport' = [transport EXCEPT ![f] = [t EXCEPT !.connections[n] = r.conn]]
           /\ PollFails({ExternalId(f, n)})

\* An Initial with an unknown destination id, while listening.
AcceptConnection ==
    LET f == poll.family
    IN  /\ poll.step = "recv"
        /\ transport[f].listening
        /\ \E n \in Local :
             /\ Allocates(f, n)
             /\ \E cert \in Certificates(None) :
                  LET c == New(TRUE, None, cert)
                      First(r) == Received(Insert(transport[f], n, c), n, r,
                                           <<Told("IncomingConnection", None)>>)
                  IN  First(RecvError(c)) \/ \E d \in Drains(c) : First(DrainSendQueue(c, d))
        /\ UNCHANGED inputs

\* A datagram for a connection, found by its destination id or else by its
\* source address, has turned it into c.
RecvFrom(n, c) ==
    \E d \in Drains(c), flushed \in IF Refuses(c) THEN BOOLEAN ELSE {TRUE} :
      Received(transport[poll.family], n, RecvPacket(c, d, flushed), << >>)

Receiver(n) == poll.step = "recv" /\ n \in Live(poll.family)
At(n) == transport[poll.family].connections[n]
Input == inputs < MaxInput /\ inputs' = inputs + 1

\* An acknowledgement, or anything for a closing connection, which quiche
\* ignores: room to send.
RecvAck(n) ==
    /\ Receiver(n)
    /\ RecvFrom(n, At(n))
    /\ UNCHANGED inputs

RecvRefused(n) ==
    /\ Receiver(n)
    /\ Input
    /\ Received(transport[poll.family], n, RecvError(At(n)), << >>)

\* The last datagram of the handshake, which may bring stream input with it.
RecvHandshake(n) ==
    LET c == [At(n) EXCEPT !.established = TRUE]
    IN  /\ Receiver(n)
        /\ At(n).state = "Connecting" /\ ~At(n).closed
        /\ \/ RecvFrom(n, c) /\ UNCHANGED inputs
           \/ /\ Input
              /\ \E s \in Streams : RemoteWrites(c, s) /\ RecvFrom(n, StreamInput(c, s, "data"))

RecvStreamInput(n, s, unit) ==
    /\ Receiver(n)
    /\ Input
    /\ At(n).state = "Connected" /\ At(n).established /\ ~At(n).closed
    /\ RemoteWrites(At(n), s)
    /\ StreamInput(At(n), s, unit) # At(n)
    /\ RecvFrom(n, StreamInput(At(n), s, unit))

\* quiche has given the connection up, or the remote has.
RecvClose(n) ==
    /\ Receiver(n)
    /\ ~At(n).closed
    /\ RecvFrom(n, [At(n) EXCEPT !.closed = TRUE])
    /\ UNCHANGED inputs

\* WouldBlock
EndOfDatagrams ==
    /\ poll.step = "recv"
    /\ poll' = [poll EXCEPT !.step = "streams", !.todo = Live(poll.family)]
    /\ UNCHANGED <<transport, ready, contract, inputs, calls, faults>>

\* One turn of the loop over connections, in any order.
PollConnection(n) ==
    LET f == poll.family
        Step(r) ==
          /\ transport' = [transport EXCEPT ![f].connections[n] = r.conn]
          /\ \/ /\ r.ok
                /\ poll' = [poll EXCEPT !.todo = @ \ {n},
                                        !.gone = IF At(n).closed THEN @ \cup {n} ELSE @,
                                        !.events = @ \o Tag(f, n, r.events)]
                /\ UNCHANGED <<ready, contract, calls, faults>>
             \/ /\ ~r.ok
                /\ PollFails({ExternalId(f, n)})
    IN  /\ poll.step = "streams"
        /\ n \in poll.todo
        /\ \E d \in Drains(ReadStreams(At(n)).conn) : Step(PollStreams(At(n), d))
        /\ UNCHANGED inputs

\* Closed connections go; then the other family, or the host.
EndOfStreams ==
    LET f == poll.family
        closed == [i \in DOMAIN SetToSeq(poll.gone) |->
                     [kind |-> "Closed", id |-> ExternalId(f, SetToSeq(poll.gone)[i]),
                      stream |-> None]]
        events == poll.events \o closed
        removed == [transport EXCEPT ![f] = RemoveClosed(@, poll.gone)]
    IN  /\ poll.step = "streams"
        /\ poll.todo = {}
        /\ \/ /\ f = "Ipv4" /\ "Ipv6" \in Families
              /\ EnterFamily("Ipv6", events)
              /\ transport' = [removed EXCEPT !["Ipv6"].pending_events = << >>]
              /\ UNCHANGED ready
           \/ /\ f = "Ipv6" \/ "Ipv6" \notin Families
              /\ poll' = Idle
              /\ ready' = events
              /\ transport' = removed
        /\ UNCHANGED <<contract, inputs, calls, faults>>

\* What an event tells of its connection or stream.
TellsConn == [IncomingConnection |-> "incoming", Connected |-> "connected", Closed |-> "closed"]
TellsStream ==
    [StreamOpened |-> "open", IncomingStream |-> "open", StreamData |-> "open",
     StreamRemoteWriteClosed |-> "half", StreamClosed |-> "closed"]

\* Of an excused connection only Connected counts.
PhaseAfter(phase, kind) ==
    CASE phase \notin Excused /\ kind \in DOMAIN TellsConn -> TellsConn[kind]
      [] phase = "unconnected" /\ kind = "Connected" -> "gapped"
      [] OTHER -> phase

\* The host handles the next event that poll() returned.
Handle ==
    LET e == Head(ready)
        counts == e.id # None /\ conn[e.id] \notin Excused
    IN  /\ ready # << >>
        /\ ready' = Tail(ready)
        /\ heard' = [event |-> e, turn |-> ~heard.turn]
        /\ conn' = IF e.id = None THEN conn
                   ELSE [conn EXCEPT ![e.id] = PhaseAfter(@, e.kind)]
        /\ stream' = IF counts /\ e.kind \in DOMAIN TellsStream
                     THEN [stream EXCEPT ![e.id][e.stream] = TellsStream[e.kind]] ELSE stream
        /\ UNCHANGED <<transport, poll, inputs, calls, faults>>

Handled ==
    /\ ready = << >>
    /\ heard # Contract!Silence
    /\ Contract!Handled
    /\ UNCHANGED <<transport, poll, ready, inputs, calls, faults>>

Next ==
    \/ BeginPoll \/ SocketFails \/ AcceptConnection \/ EndOfDatagrams \/ EndOfStreams
    \/ Handle \/ Handled
    \/ \E f \in Families : DialFails(f) \/ Listen(f) \/ \E p \in Peers : Dial(f, p)
    \/ \E id \in Ids :
         \/ OpenStreamCall(id) \/ CloseCall(id)
         \/ \E s \in Streams :
              SendStreamCall(id, s) \/ CloseStreamWriteCall(id, s) \/ ResetStreamCall(id, s)
         \/ \E p \in Peers : VerifyPeerCall(id, p)
    \/ \E n \in Local :
         \/ RecvAck(n) \/ RecvRefused(n) \/ RecvHandshake(n) \/ RecvClose(n) \/ PollConnection(n)
         \/ \E s \in Streams, unit \in {"data", "fin", "reset"} : RecvStreamInput(n, s, unit)

Spec == Init /\ [][Next]_vars

-----------------------------------------------------------------------------
\* What a connection pushes, and what waits in the queue of its transport.
ToldEvent == [kind : Contract!ConnEvents, stream : {None}]
               \cup [kind : Contract!StreamEvents, stream : Streams]
QueuedEvent == [id : Local, told : ToldEvent] \cup [id : {None}, told : {Told("Listening", None)}]

QuicTransport ==
    [connections : [Local -> Connection \cup {None}], cid_to_connection : SUBSET Local,
     peer_connections : [Peers -> SUBSET Local], pending_events : Seq(QueuedEvent),
     listening : BOOLEAN, next_connection_id : 1 .. MaxConns + 1]

Polling == [step : {"idle", "recv", "streams"}, family : {"Ipv4", "Ipv6"},
            todo : SUBSET Local, gone : SUBSET Local, events : Seq(Contract!Event)]

\* Every variable has its type; events name connections and streams.
TypeOK ==
    /\ transport \in [Families -> QuicTransport]
    /\ poll \in Polling
    /\ ready \in Seq(Contract!Event)
    /\ conn \in [Ids -> Contract!ConnPhases \cup {"refused"}]
    /\ stream \in [Ids -> [Streams -> Contract!StreamPhases]]
    /\ heard \in [event : Contract!Event \cup {Contract!PollError, None}, turn : BOOLEAN]
    /\ inputs \in 0 .. MaxInput /\ calls \in 0 .. MaxCalls /\ faults \in 0 .. MaxFaults

\* The refinement, for remotes that prove to be who they should be (Impostors
\* is FALSE): whatever the network, quiche and the host do, what poll() returns
\* keeps the contract of the trait Transport, and a connection is excused from
\* it by nothing but a poll() that returned an error to the host.
ImplementsContract == Contract!Spec

\* peer_connections and cid_to_connection hold exactly the live connections,
\* each under the peer its endpoint names, through handshakes, failed polls,
\* rebinding of identities and removal.
IndexesAgree ==
    \A f \in Families :
      /\ transport[f].cid_to_connection = Live(f)
      /\ \A p \in Peers : transport[f].peer_connections[p] =
                          {n \in Live(f) : transport[f].connections[n].peer_id = p}

\* A FIN waits behind all bytes written before it, and gc_closed_streams and
\* the early local_write_closed flag lose neither: while quiche has not taken
\* the FIN of a half-closed stream, it is still the last in its queue.
FinIsNotLost ==
    \A f \in Families : \A n \in Live(f), s \in Streams :
      LET c == transport[f].connections[n]
          w == Pending(c, s)
      IN  /\ \A i \in DOMAIN w : w[i] = "fin" => i = Len(w)
          /\ c.stream_states[s] # None /\ c.send[s] \in {"unused", "open"} =>
                (c.stream_states[s].local_write_closed <=> w # << >> /\ Last(w) = "fin")
          /\ c.stream_states[s] = None /\ stream[ExternalId(f, n)][s] # "none" => c.send[s] \in {"fin", "shut"}

\* The certificate proves a peer, and the one that was dialed.
ProvesPeer(c) == c.cert # None /\ c.expected \in {None, c.cert}

\* Until close(), which closes them implicitly, the transport has a state for
\* every stream the host has been told of and not been told the end of.
ServesStreams(id) ==
    Conn(id).state # "Closing" =>
      \A s \in Streams : stream[id][s] \in {"open", "half"} =>
        /\ Conn(id).stream_states[s] # None
        /\ stream[id][s] = "half" => Conn(id).stream_states[s].remote_write_closed

\* What the host has been told of a connection is true of it.  Connected means
\* that the certificate was verified and, on a dial, proves the peer that was
\* dialed, also when a failed poll() left the handshake half done; and unless
\* poll() has lost events of the connection, its open streams are served.
ToldIsTrue ==
    \A id \in Ids :
      /\ conn[id] \in {"connected", "gapped"} /\ InternalId(id) \in Live(Family(id))
           => ProvesPeer(Conn(id))
      /\ conn[id] = "connected" /\ Calling =>
           /\ InternalId(id) \in Live(Family(id))
           /\ Conn(id).established /\ Conn(id).peer_id # None
           /\ ServesStreams(id)

\* "No stream events precede this" (TransportEvent::Connected), and "No stream
\* events may precede `Connected`" (the trait Transport): no exception is made
\* for a handshake that is refused or a poll() that fails.
StreamsFollowConnected ==
    heard.event # None /\ heard.event.kind \in Contract!StreamEvents =>
      conn[heard.event.id] \in {"connected", "gapped"}

\* "Pending writes are dropped" (Transport::reset_stream): nothing is queued
\* behind a reset.
ResetDropsWrites ==
    \A f \in Families : \A n \in Live(f), s \in Streams :
      LET c == transport[f].connections[n]
      IN  c.send[s] = "shut" /\ c.stream_states[s] # None /\ c.stream_states[s].closed_notified
            => Pending(c, s) = << >>
=============================================================================
