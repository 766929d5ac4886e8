----------------------------- MODULE SwarmCore ------------------------------
(***************************************************************************)
(* The Sans-I/O swarm core (crates/swarm/src/core.rs).  The struct         *)
(* SwarmCore is the record k; every method is an operator from k to the k  *)
(* it leaves behind, with the same calls in the same order.  Swarm.tla     *)
(* runs them against a transport, a driver and an application.             *)
(*                                                                         *)
(* Abstractions.  Bytes are left out: how far a chunk of data takes a      *)
(* negotiation, what a ping payload or an Identify message spells and      *)
(* whether a ping has expired are inputs of the operators.  There is one   *)
(* user protocol.  active_connections is written and never read, and       *)
(* local_addresses only ends up in a message: both are left out.           *)
(*                                                                         *)
(* A definition marked "Slip" repeats the next unmarked one with a         *)
(* plausible mistake, to show that a property of the runs notices it.      *)
(***************************************************************************)
EXTENDS Naturals, Sequences, FiniteSets

CONSTANTS
    Peers,       \* verified peer ids
    Conns,       \* connection ids, ordered as the BTreeMap keys are
    StreamIds,   \* stream ids, reused by every connection
    Payloads,    \* ping payloads
    PayloadLen,  \* PING_PAYLOAD_LEN in units of data
    None,        \* an absent Option / map entry
    Malformed    \* an Identify message that does not decode

\* ensure_peer_id_for_conn: a placeholder derived from the connection id.
Synthetic(c) == <<"synthetic", c>>

Synthetics == {Synthetic(c) : c \in Conns}

PeerIds == Peers \cup Synthetics

ASSUME PeersAssumption ==
    /\ IsFiniteSet(Peers)
    /\ None \notin PeerIds
    /\ Peers \cap Synthetics = {}

ASSUME ConnsAssumption == Conns \subseteq Nat /\ IsFiniteSet(Conns) /\ None \notin Conns

ASSUME CoreStreamsAssumption == None \notin StreamIds

ASSUME CorePayloadAssumption == PayloadLen \in Nat \ {0}

Ping == INSTANCE PingProtocol WITH RequestTimeout <- 0

Identify == INSTANCE IdentifyProtocol

-----------------------------------------------------------------------------
(* The state.                                                              *)

ProtocolKind == {"Ping", "IdentifyResponder", "IdentifyInitiator", "User"}

StreamKeys == Conns \X StreamIds

\* What a decoded Identify message tells the core: does the peer list the
\* user protocol?
IdentifyInfo == BOOLEAN

ErrorKinds ==
    {"Transport", "Multistream", "Identify", "Ping", "IdentifyStreamRejected",
     "OpenStreamFailed", "UnsupportedProtocol", "Driver"}

EventKinds ==
    {"ConnectionEstablished", "ConnectionClosed", "IdentifyReceived", "PeerReady",
     "PingRttMeasured", "PingTimeout", "UserStreamReady", "UserStreamData",
     "UserStreamRemoteWriteClosed", "UserStreamClosed"} \cup ErrorKinds

\* None stands for an entry that the maps of the core do not have.
ASSUME AbsentAssumption ==
    None \notin ProtocolKind /\ None \notin Payloads /\ None \notin IdentifyInfo

SwarmEvent ==
    [kind : EventKinds, peer : PeerIds \cup {None}, stream : StreamIds \cup {None}]

SwarmAction ==
    [kind   : {"OpenStream", "SendStream", "CloseStreamWrite", "ResetStream", "CloseConnection"},
     conn   : Conns,
     stream : StreamIds \cup {None},
     token  : Nat]

\* pending_opens is a map from token to (conn, target): a set of such records.
PendingOpen == [token : Nat, conn : Conns, target : ProtocolKind]

CoreState ==
    [ping                 : [PeerIds -> Ping!PeerPingState],
     identify             : [PeerIds -> Identify!PeerIdentifyState],
     conn_to_peer         : [Conns -> PeerIds \cup {None}],
     peer_to_conn         : [PeerIds -> Conns \cup {None}],
     inbound_negotiators  : SUBSET StreamKeys,
     outbound_negotiators : [StreamKeys -> ProtocolKind \cup {None}],
     stream_owner         : [StreamKeys -> ProtocolKind \cup {None}],
     pending_opens        : SUBSET PendingOpen,
     next_open_token      : Nat,
     pending_pings        : [PeerIds -> Payloads \cup {None}],
     peer_info            : [PeerIds -> IdentifyInfo \cup {None}],
     ready_peers          : SUBSET PeerIds,
     established_peers    : SUBSET PeerIds,
     events               : Seq(SwarmEvent),
     actions              : Seq(SwarmAction)]

\* SwarmCore::new
NewCore ==
    [ping                 |-> [p \in PeerIds |-> Ping!Absent],
     identify             |-> [p \in PeerIds |-> Identify!Absent],
     conn_to_peer         |-> [c \in Conns |-> None],
     peer_to_conn         |-> [p \in PeerIds |-> None],
     inbound_negotiators  |-> {},
     outbound_negotiators |-> [cs \in StreamKeys |-> None],
     stream_owner         |-> [cs \in StreamKeys |-> None],
     pending_opens        |-> {},
     next_open_token      |-> 1,
     pending_pings        |-> [p \in PeerIds |-> None],
     peer_info            |-> [p \in PeerIds |-> None],
     ready_peers          |-> {},
     established_peers    |-> {},
     events               |-> << >>,
     actions              |-> << >>]

-----------------------------------------------------------------------------
(* Output queues.                                                          *)

Event(kind, p, s) == [kind |-> kind, peer |-> p, stream |-> s]

StreamAction(kind, c, s) == [kind |-> kind, conn |-> c, stream |-> s, token |-> 0]

\* Slip: push_front.
EmitFirst(k, kind, p, s) == [k EXCEPT !.events = <<Event(kind, p, s)>> \o @]

Emit(k, kind, p, s) == [k EXCEPT !.events = Append(@, Event(kind, p, s))]

\* emit_error: the error kind and the peer it names.
EmitError(k, kind, p) == Emit(k, kind, p, None)

Act(k, kind, c, s) == [k EXCEPT !.actions = Append(@, StreamAction(kind, c, s))]

\* is_idle
IsIdle(k) == k.actions = << >> /\ k.events = << >>

\* poll_output: actions before events, each in FIFO order.
PopAction(k) == [k EXCEPT !.actions = Tail(@)]

PopEvent(k) == [k EXCEPT !.events = Tail(@)]

-----------------------------------------------------------------------------
(* Lookups.                                                                *)

EstablishedPeerForConn(k, c) ==
    IF k.conn_to_peer[c] \in k.established_peers THEN k.conn_to_peer[c] ELSE None

\* conn_for_owned_stream and require_user_stream_conn: the first connection,
\* in key order, that is mapped to p and owns stream s for kind.
OwningConns(k, p, s, kind) ==
    {c \in Conns : k.conn_to_peer[c] = p /\ k.stream_owner[<<c, s>>] = kind}

ConnForOwnedStream(k, p, s, kind) ==
    LET cs == OwningConns(k, p, s, kind)
    IN  IF cs = {} THEN None ELSE CHOOSE c \in cs : \A d \in cs : c <= d

\* Slip: a stream under negotiation is not counted.
HasPendingPingOpen(k, p) ==
    /\ k.peer_to_conn[p] # None
    /\ \E o \in k.pending_opens : o.conn = k.peer_to_conn[p] /\ o.target = "Ping"

HasPendingPingStream(k, p) ==
    /\ k.peer_to_conn[p] # None
    /\ \/ \E s \in StreamIds : k.outbound_negotiators[<<k.peer_to_conn[p], s>>] = "Ping"
       \/ \E o \in k.pending_opens : o.conn = k.peer_to_conn[p] /\ o.target = "Ping"

-----------------------------------------------------------------------------
(* Draining the protocol handlers: execute_ping_action, handle_ping_event, *)
(* execute_identify_action, handle_identify_event.  Ping actions go to the *)
(* connection that owns the stream, Identify actions to the peer's primary *)
(* connection.                                                             *)

PingEventKind(e) ==
    CASE e.kind = "RttMeasured" -> "PingRttMeasured"
      [] e.kind = "Timeout" -> "PingTimeout"
      [] e.kind = "ProtocolViolation" -> "Ping"
      [] OTHER -> None

PingActionKind(a) == IF a.kind = "Send" THEN "SendStream" ELSE a.kind

\* A ping handler queues at most one action, and at most one event (the first)
\* that the swarm passes on.
DrainPing(k, p, r) ==
    LET k1 == [k EXCEPT !.ping = [@ EXCEPT ![p] = r.st]]
        c  == ConnForOwnedStream(k, p, r.actions[1].stream, "Ping")
        k2 == IF r.actions = << >> \/ c = None
              THEN k1
              ELSE Act(k1, PingActionKind(r.actions[1]), c, r.actions[1].stream)
    IN  IF r.events = << >> \/ PingEventKind(r.events[1]) = None
        THEN k2
        ELSE Emit(k2, PingEventKind(r.events[1]), p, None)

TryEmitPeerReady(k, p) ==
    IF p \in k.ready_peers \/ k.peer_info[p] = None \/ k.peer_to_conn[p] = None
    THEN k
    ELSE Emit([k EXCEPT !.ready_peers = @ \cup {p}], "PeerReady", p, None)

HandleIdentifyEvent(k, p, info) ==
    IF info = Malformed
    THEN EmitError(k, "Identify", None)
    ELSE TryEmitPeerReady(
           Emit([k EXCEPT !.peer_info = [@ EXCEPT ![p] = info]], "IdentifyReceived", p, None), p)

ExecuteIdentifyActions(k, p, s, commands) ==
    IF k.peer_to_conn[p] = None
    THEN k
    ELSE [k EXCEPT !.actions =
            @ \o [i \in DOMAIN commands |-> StreamAction(commands[i], k.peer_to_conn[p], s)]]

DrainIdentify(k, p, s, r) ==
    LET k1 == ExecuteIdentifyActions([k EXCEPT !.identify = [@ EXCEPT ![p] = r.st]],
                                     p, s, r.commands)
    IN  IF r.received = << >> THEN k1 ELSE HandleIdentifyEvent(k1, p, r.received[1])

-----------------------------------------------------------------------------
(* Connections.                                                            *)

\* queue_open_protocol_stream, next_open_token; the caller has checked that
\* the peer is connected (require_conn).
QueueOpenProtocolStream(k, p, target) ==
    LET c == k.peer_to_conn[p]
        t == k.next_open_token
    IN  [k EXCEPT !.next_open_token = @ + 1,
                  !.pending_opens   = @ \cup {[token |-> t, conn |-> c, target |-> target]},
                  !.actions         = Append(@, [kind |-> "OpenStream", conn |-> c,
                                                 stream |-> None, token |-> t])]

EnsurePeerIdForConn(k, c) ==
    IF k.conn_to_peer[c] # None
    THEN k
    ELSE [k EXCEPT !.conn_to_peer = [@ EXCEPT ![c] = Synthetic(c)],
                   !.peer_to_conn = [@ EXCEPT ![Synthetic(c)] = c]]

\* Slip: pending_opens is not pruned.
ForgetConnKeepsOpens(k, c) ==
    [k EXCEPT
       !.stream_owner         = [cs \in StreamKeys |-> IF cs[1] = c THEN None ELSE @[cs]],
       !.inbound_negotiators  = {cs \in @ : cs[1] # c},
       !.outbound_negotiators = [cs \in StreamKeys |-> IF cs[1] = c THEN None ELSE @[cs]]]

\* Slip: negotiations of a closed connection are not pruned.
ForgetConnKeepsNegotiators(k, c) ==
    [k EXCEPT
       !.stream_owner  = [cs \in StreamKeys |-> IF cs[1] = c THEN None ELSE @[cs]],
       !.pending_opens = {o \in @ : o.conn # c}]

\* The retain() calls at the end of supersede_connection and
\* handle_connection_closed.
ForgetConn(k, c) ==
    [k EXCEPT
       !.stream_owner         = [cs \in StreamKeys |-> IF cs[1] = c THEN None ELSE @[cs]],
       !.inbound_negotiators  = {cs \in @ : cs[1] # c},
       !.outbound_negotiators = [cs \in StreamKeys |-> IF cs[1] = c THEN None ELSE @[cs]],
       !.pending_opens        = {o \in @ : o.conn # c}]

\* Slip: the protocols are not told.
ForgetPeerKeepsProtocols(k, p) ==
    [k EXCEPT !.peer_info         = [@ EXCEPT ![p] = None],
              !.ready_peers       = @ \ {p},
              !.established_peers = @ \ {p}]

\* RemovePeer for both protocols and the per-peer bookkeeping.
ForgetPeer(k, p) ==
    [k EXCEPT !.ping              = Ping!RemovePeer(@, p),
              !.identify          = Identify!RemovePeer(@, p),
              !.peer_info         = [@ EXCEPT ![p] = None],
              !.ready_peers       = @ \ {p},
              !.established_peers = @ \ {p}]

\* supersede_connection keeps the peer's queued ping for the next connection.
SupersedeConnection(k, old) ==
    LET p  == k.conn_to_peer[old]
        k1 == IF p = None
              THEN k
              ELSE [ForgetPeer(k, p) EXCEPT !.conn_to_peer = [@ EXCEPT ![old] = None]]
    IN  Act(ForgetConn(k1, old), "CloseConnection", old, None)

MapConn(k, c, p) ==
    [k EXCEPT !.conn_to_peer = [@ EXCEPT ![c] = p],
              !.peer_to_conn = [@ EXCEPT ![p] = c]]

\* Slip: a queued ping is not carried to the new connection.
AnnounceWithoutRequeue(k, p) ==
    QueueOpenProtocolStream(Emit([k EXCEPT !.established_peers = @ \cup {p}],
                                 "ConnectionEstablished", p, None),
                            p, "IdentifyInitiator")

\* register_connection, the part for a connection not seen before.
AnnounceConnection(k, p) ==
    LET k1 == Emit([k EXCEPT !.established_peers = @ \cup {p}],
                   "ConnectionEstablished", p, None)
        k2 == QueueOpenProtocolStream(k1, p, "IdentifyInitiator")
    IN  IF /\ k2.pending_pings[p] # None
           /\ k2.ping[p].outbound_stream = None
           /\ ~HasPendingPingStream(k2, p)
        THEN QueueOpenProtocolStream(k2, p, "Ping")
        ELSE k2

\* Slip: the connection the peer already has is left alone.
RegisterSecondConnection(k, c, p) ==
    LET k1 == MapConn(k, c, p)
    IN  IF k.conn_to_peer[c] = None THEN AnnounceConnection(k1, p) ELSE k1

RegisterConnection(k, c, p) ==
    LET existing == k.peer_to_conn[p]
        k1 == IF existing \notin {None, c} THEN SupersedeConnection(k, existing) ELSE k
        k2 == MapConn(k1, c, p)
    IN  IF k.conn_to_peer[c] = None THEN AnnounceConnection(k2, p) ELSE k2

\* Move p's entry of a map to q, if there is one.
Moved(f, p, q) ==
    IF f[p] = None THEN f ELSE [f EXCEPT ![p] = None, ![q] = f[p]]

MovedMember(S, p, q) == IF p \in S THEN (S \ {p}) \cup {q} ELSE S

MigrateBufferedEvents(events, old, new) ==
    [i \in DOMAIN events |->
       IF events[i].peer = old THEN [events[i] EXCEPT !.peer = new] ELSE events[i]]

\* Slip: only the swarm's own tables are migrated.
MigrateWithoutProtocols(k, stale, new) ==
    [k EXCEPT !.peer_to_conn      = [@ EXCEPT ![stale] = None],
              !.pending_pings     = Moved(@, stale, new),
              !.peer_info         = Moved(@, stale, new),
              !.ready_peers       = MovedMember(@, stale, new),
              !.established_peers = MovedMember(@, stale, new),
              !.events            = MigrateBufferedEvents(@, stale, new)]

\* upgrade_connection_identity, the arm Some(stale).
MigrateStale(k, stale, new) ==
    [k EXCEPT !.peer_to_conn      = [@ EXCEPT ![stale] = None],
              !.ping              = Ping!MigratePeer(@, stale, new),
              !.identify          = Identify!MigratePeer(@, stale, new),
              !.pending_pings     = Moved(@, stale, new),
              !.peer_info         = Moved(@, stale, new),
              !.ready_peers       = MovedMember(@, stale, new),
              !.established_peers = MovedMember(@, stale, new),
              !.events            = MigrateBufferedEvents(@, stale, new)]

\* Slip: the verified peer is announced and not recorded.
UpgradeWithoutRecording(k, c, new) ==
    LET stale == k.conn_to_peer[c]
        k1    == IF stale = None THEN k ELSE MigrateStale(k, stale, new)
        k2    == TryEmitPeerReady(Emit(MapConn(k1, c, new), "ConnectionEstablished", new, None), new)
    IN  IF stale = new THEN k ELSE QueueOpenProtocolStream(k2, new, "IdentifyInitiator")

UpgradeConnectionIdentity(k, c, new) ==
    LET stale == k.conn_to_peer[c]
        k1    == IF stale = None THEN k ELSE MigrateStale(k, stale, new)
        k2    == [MapConn(k1, c, new) EXCEPT !.established_peers = @ \cup {new}]
        k3    == TryEmitPeerReady(Emit(k2, "ConnectionEstablished", new, None), new)
    IN  IF stale = new THEN k ELSE QueueOpenProtocolStream(k3, new, "IdentifyInitiator")

\* Slip: peer_to_conn keeps the closed connection.
ClosedKeepsPeerToConn(k, c) ==
    LET p  == k.conn_to_peer[c]
        k1 == [k EXCEPT !.conn_to_peer = [@ EXCEPT ![c] = None]]
        k2 == IF p = None \/ k.peer_to_conn[p] # c
              THEN k1
              ELSE Emit(ForgetPeer(k1, p), "ConnectionClosed", p, None)
    IN  ForgetConn(k2, c)

HandleConnectionClosed(k, c) ==
    LET p  == k.conn_to_peer[c]
        k1 == [k EXCEPT !.conn_to_peer = [@ EXCEPT ![c] = None]]
        k2 == IF p = None \/ k.peer_to_conn[p] # c
              THEN k1
              ELSE Emit([ForgetPeer(k1, p) EXCEPT
                           !.peer_to_conn  = [@ EXCEPT ![p] = None],
                           !.pending_pings = [@ EXCEPT ![p] = None]],
                        "ConnectionClosed", p, None)
    IN  ForgetConn(k2, c)

\* TransportEvent::Connected, with or without a verified peer (None).
HandleConnected(k, c, p) ==
    IF p = None THEN EnsurePeerIdForConn(k, c) ELSE RegisterConnection(k, c, p)

-----------------------------------------------------------------------------
(* Streams.                                                                *)

SetOwner(k, c, s, kind) ==
    [k EXCEPT !.stream_owner = [@ EXCEPT ![<<c, s>>] = kind]]

\* StreamOpened reported by the driver: start the dialer's negotiation.
HandleStreamOpened(k, c, s, token) ==
    LET opens == {o \in k.pending_opens : o.token = token}
        o     == CHOOSE o \in opens : TRUE
        k1    == [k EXCEPT !.pending_opens = @ \ opens]
    IN  IF opens = {}
        THEN EmitError(k, "Driver", None)
        ELSE IF o.conn # c
        THEN EmitError(k1, "Driver", EstablishedPeerForConn(k1, c))
        ELSE [Act(k1, "SendStream", c, s) EXCEPT
                !.outbound_negotiators = [@ EXCEPT ![<<c, s>>] = o.target]]

HandleOpenStreamFailed(k, token) ==
    LET opens == {o \in k.pending_opens : o.token = token}
        p     == IF opens = {} THEN None
                 ELSE EstablishedPeerForConn(k, (CHOOSE o \in opens : TRUE).conn)
    IN  EmitError([k EXCEPT !.pending_opens = @ \ opens], "OpenStreamFailed", p)

\* IncomingStream: start the listener's negotiation, which sends its header.
HandleIncomingStream(k, c, s) ==
    Act([k EXCEPT !.inbound_negotiators = @ \cup {<<c, s>>}], "SendStream", c, s)

\* dispatch_protocol_data; chunk = [len, payload, oversize].
DispatchProtocolData(k, c, s, chunk) ==
    LET k1 == EnsurePeerIdForConn(k, c)
        p  == k1.conn_to_peer[c]
    IN  CASE k.stream_owner[<<c, s>>] = "Ping" ->
               DrainPing(k1, p, Ping!OnStreamData(k1.ping[p], p, s, chunk.len, chunk.payload))
          [] k.stream_owner[<<c, s>>] = "IdentifyInitiator" ->
               DrainIdentify(k1, p, s, Identify!OnStreamData(k1.identify[p], s, chunk.oversize))
          [] k.stream_owner[<<c, s>>] = "IdentifyResponder" -> k1
          [] k.stream_owner[<<c, s>>] = "User" -> Emit(k1, "UserStreamData", p, s)
          [] OTHER -> k

\* decoded is what an Identify message on this stream spells.
HandleStreamRemoteWriteClosed(k, c, s, decoded) ==
    LET k1 == EnsurePeerIdForConn(k, c)
        p  == k1.conn_to_peer[c]
    IN  CASE k.stream_owner[<<c, s>>] = "Ping" ->
               DrainPing(k1, p, Ping!OnStreamRemoteWriteClosed(k1.ping[p], p, s))
          [] k.stream_owner[<<c, s>>] = "IdentifyInitiator" ->
               DrainIdentify(k1, p, s,
                 Identify!OnStreamRemoteWriteClosed(k1.identify[p], s, decoded))
          [] k.stream_owner[<<c, s>>] = "IdentifyResponder" -> k1
          [] k.stream_owner[<<c, s>>] = "User" ->
               Emit(k1, "UserStreamRemoteWriteClosed", p, s)
          [] OTHER -> k

\* Slip: the owner of a closed user stream is not forgotten.
StreamClosedKeepsOwner(k, c, s) ==
    IF k.stream_owner[<<c, s>>] = "User" /\ k.conn_to_peer[c] # None
    THEN Emit(k, "UserStreamClosed", k.conn_to_peer[c], s)
    ELSE k

HandleStreamClosed(k, c, s) ==
    LET kind == k.stream_owner[<<c, s>>]
        p    == k.conn_to_peer[c]
        k1   == SetOwner(k, c, s, None)
        k2   == CASE kind = "Ping" /\ p # None ->
                       DrainPing(k1, p, Ping!OnStreamClosed(k1.ping[p], s))
                  [] kind \in {"IdentifyInitiator", "IdentifyResponder"} /\ p # None ->
                       DrainIdentify(k1, p, s, Identify!OnStreamClosed(k1.identify[p], s))
                  [] kind = "User" /\ p # None -> Emit(k1, "UserStreamClosed", p, s)
                  [] OTHER -> k1
    IN  [k2 EXCEPT !.inbound_negotiators  = @ \ {<<c, s>>},
                   !.outbound_negotiators = [@ EXCEPT ![<<c, s>>] = None]]

-----------------------------------------------------------------------------
(* Negotiation.  outcome is how far the received data takes the            *)
(* multistream-select handshake; rest holds the chunk of application data  *)
(* pipelined behind it, if any.                                            *)

OnInboundNegotiated(k, c, s, protocol) ==
    LET k1 == EnsurePeerIdForConn(k, c)
        p  == k1.conn_to_peer[c]
        r  == Identify!RegisterOutboundStream(k1.identify[p], s)
    IN  CASE protocol = "Ping" ->
               LET owned == SetOwner(k1, c, s, "Ping")
               IN  DrainPing(owned, p, Ping!RegisterInboundStream(owned.ping[p], p, s))
          [] protocol = "Identify" /\ r.ok ->
               DrainIdentify(SetOwner(k1, c, s, "IdentifyResponder"), p, s, r)
          [] protocol = "Identify" /\ ~r.ok ->
               Act(EmitError(k1, "IdentifyStreamRejected", p), "ResetStream", c, s)
          [] protocol = "User" ->
               Emit(SetOwner(k1, c, s, "User"), "UserStreamReady", p, s)

\* The queued ping fires as soon as its stream is negotiated.
SendDeferredPing(k, p) ==
    IF k.pending_pings[p] = None
    THEN k
    ELSE LET r  == Ping!SendPing(k.ping[p], p, k.pending_pings[p])
             k1 == [k EXCEPT !.pending_pings = [@ EXCEPT ![p] = None]]
         IN  IF r.ok THEN DrainPing(k1, p, r) ELSE EmitError(k1, "Ping", p)

OnOutboundNegotiated(k, c, s, target) ==
    LET k1 == SetOwner(EnsurePeerIdForConn(k, c), c, s, target)
        p  == k1.conn_to_peer[c]
        r  == Ping!RegisterOutboundStream(k1.ping[p], p, s)
    IN  CASE target = "Ping" /\ r.ok -> SendDeferredPing(DrainPing(k1, p, r), p)
          [] target = "Ping" /\ ~r.ok ->
               Act(SetOwner(EmitError(k1, "Ping", p), c, s, None), "ResetStream", c, s)
          [] target = "IdentifyInitiator" ->
               DrainIdentify(k1, p, s, Identify!RegisterInboundStream(k1.identify[p], s))
          [] target = "IdentifyResponder" -> k1
          [] OTHER -> Emit(k1, "UserStreamReady", p, s)  \* a user protocol

DispatchRest(k, c, s, rest) ==
    IF rest = None THEN k ELSE DispatchProtocolData(k, c, s, rest)

\* feed_inbound_negotiator
FeedInboundNegotiator(k, c, s, outcome, protocol, rest) ==
    LET k1 == [k EXCEPT !.inbound_negotiators = @ \ {<<c, s>>}]
        sent == Act(k1, "SendStream", c, s)
    IN  CASE outcome = "negotiated" ->
               DispatchRest(OnInboundNegotiated(sent, c, s, protocol), c, s, rest)
          [] outcome = "not_available" -> Act(sent, "ResetStream", c, s)
          [] outcome = "error" ->
               Act(EmitError(k1, "Multistream", EstablishedPeerForConn(k, c)), "ResetStream", c, s)

\* feed_outbound_negotiator; proposed: the remote's header was in the data,
\* and the dialer answers it with its proposal.
FeedOutboundNegotiator(k, c, s, proposed, outcome, rest) ==
    LET target == k.outbound_negotiators[<<c, s>>]
        k1 == IF proposed THEN Act(k, "SendStream", c, s) ELSE k
        k2 == [k1 EXCEPT !.outbound_negotiators = [@ EXCEPT ![<<c, s>>] = None]]
        p  == EstablishedPeerForConn(k, c)
    IN  CASE outcome = "waiting" -> k1
          [] outcome = "negotiated" ->
               DispatchRest(OnOutboundNegotiated(k2, c, s, target), c, s, rest)
          [] outcome = "not_available" ->
               Act(EmitError(k2, "UnsupportedProtocol", p), "ResetStream", c, s)
          [] outcome = "error" ->
               Act(EmitError(k2, "Multistream", p), "ResetStream", c, s)

-----------------------------------------------------------------------------
(* Time and the application's calls.  A refused call leaves k as it is.    *)

\* handle_tick, for one peer whose ping expired.
HandleTick(k, p) == DrainPing(k, p, Ping!OnTick(k.ping[p], p))

DoPing(k, p, payload) ==
    LET queued == [k EXCEPT !.pending_pings = [@ EXCEPT ![p] = payload]]
        r      == Ping!SendPing(k.ping[p], p, payload)
    IN  IF k.peer_to_conn[p] = None THEN k
        ELSE IF k.ping[p].outbound_stream # None
        THEN IF r.ok THEN DrainPing(k, p, r) ELSE k
        ELSE IF HasPendingPingStream(k, p)
        THEN queued
        ELSE QueueOpenProtocolStream(queued, p, "Ping")

OpenUserStream(k, p) ==
    IF \/ k.peer_to_conn[p] = None
       \/ p \in k.ready_peers /\ k.peer_info[p] # TRUE
    THEN k
    ELSE QueueOpenProtocolStream(k, p, "User")

\* Slip: the lookup's failure is not looked at.
UserStreamCallUnchecked(k, p, s, kind) == Act(k, kind, ConnForOwnedStream(k, p, s, "User"), s)

\* send_user_stream, close_user_stream_write, reset_user_stream
UserStreamCall(k, p, s, kind) ==
    LET c == ConnForOwnedStream(k, p, s, "User")
    IN  IF c = None THEN k ELSE Act(k, kind, c, s)

Disconnect(k, p) ==
    IF k.peer_to_conn[p] = None
    THEN k
    ELSE Act(k, "CloseConnection", k.peer_to_conn[p], None)

-----------------------------------------------------------------------------
(* Facts about a core.                                                     *)

\* The debug_assert of queue_open_protocol_stream.
MapsAgree(k) ==
    \A p \in PeerIds :
      k.peer_to_conn[p] # None => k.conn_to_peer[k.peer_to_conn[p]] = p

\* register_connection: a second connection must not "orphan in conn_to_peer".
NoOrphan(k) ==
    \A c \in Conns :
      k.conn_to_peer[c] # None => k.peer_to_conn[k.conn_to_peer[c]] = c
=============================================================================
