---------------------------- MODULE SwarmProofs -----------------------------
(***************************************************************************)
(* Theorems about Swarm, for every set of peers, connections, streams and  *)
(* payloads, any bounds and either driver.                                 *)
(*                                                                         *)
(* The maps.  peer_to_conn and conn_to_peer are written by five operations *)
(* only: EnsurePeerIdForConn, RegisterConnection, MigrateStale, MapConn    *)
(* and HandleConnectionClosed.  The first part shows that every other      *)
(* operator of SwarmCore leaves both alone (SameMaps), however it          *)
(* composes; then, what those five do to MapsAgree and NoOrphan; then it   *)
(* carries both through the actions.  Neither map property is inductive    *)
(* alone: Connected may only map a connection that is not mapped yet, so   *)
(* mapped connections must be live ones (MappedIsLive).                    *)
(*                                                                         *)
(* The streams: types, one owner per stream, actions that name streams of  *)
(* their own connection, protocols that know only the streams the swarm    *)
(* has given them, one outbound ping stream at a time, and nothing left of *)
(* what is gone.  Sound relates a core to what the transport knows: the    *)
(* streams opened so far, those it still reports on, the live connections. *)
(* Each operator of SwarmCore is reduced to a relation between the core    *)
(* before and after it (Outputs: only queues grow; Acts: the handlers of   *)
(* one peer ran and forgot at most; Pinged, Identified: one of them        *)
(* learned a stream; Unmapped, Forgotten, Join: a connection goes, its     *)
(* streams go, a peer gets one), and Sound is shown to survive the         *)
(* relation.  StreamInv says it of the swarm's core, and every action      *)
(* keeps it.                                                               *)
(***************************************************************************)
EXTENDS Swarm, FiniteSetTheorems, SequenceTheorems, WellFoundedInduction, TLAPS

\* k has the two maps, whatever else it holds.
HasMaps(k) ==
    /\ {"conn_to_peer", "peer_to_conn"} \subseteq DOMAIN k
    /\ k.conn_to_peer \in [Conns -> PeerIds \cup {None}]
    /\ k.peer_to_conn \in [PeerIds -> Conns \cup {None}]

\* j has the maps of k.
SameMaps(k, j) ==
    /\ DOMAIN j = DOMAIN k
    /\ j.conn_to_peer = k.conn_to_peer
    /\ j.peer_to_conn = k.peer_to_conn

\* j has the maps of k, or those k has once c has a peer id.
AtMostEnsured(k, j, c) ==
    SameMaps(k, j) \/ SameMaps(EnsurePeerIdForConn(k, c), j)

-----------------------------------------------------------------------------
(* Operators that leave the maps alone.                                    *)

\* SameMaps composes.
LEMMA SameMapsTrans ==
    ASSUME NEW k, NEW j, NEW l, SameMaps(k, j), SameMaps(j, l)
    PROVE  SameMaps(k, l)
BY DEF SameMaps

\* A core with the same maps still has them.
LEMMA SameMapsHas ==
    ASSUME NEW k, NEW j, HasMaps(k), SameMaps(k, j)
    PROVE  HasMaps(j)
BY DEF SameMaps, HasMaps

\* emit_error and the events pushed by the handlers.
LEMMA EmitSame ==
    ASSUME NEW k, HasMaps(k), NEW kind, NEW p, NEW s
    PROVE  SameMaps(k, Emit(k, kind, p, s)) /\ SameMaps(k, EmitError(k, kind, p))
BY DEF Emit, EmitError, SameMaps, HasMaps

\* The actions pushed by the handlers, and poll_output.
LEMMA ActSame ==
    ASSUME NEW k, HasMaps(k), NEW kind, NEW c, NEW s
    PROVE  /\ SameMaps(k, Act(k, kind, c, s))
           /\ SameMaps(k, PopAction(k))
           /\ SameMaps(k, PopEvent(k))
BY DEF Act, PopAction, PopEvent, SameMaps, HasMaps

\* queue_open_protocol_stream
LEMMA QueueOpenSame ==
    ASSUME NEW k, HasMaps(k), NEW p, NEW target
    PROVE  SameMaps(k, QueueOpenProtocolStream(k, p, target))
BY DEF QueueOpenProtocolStream, SameMaps, HasMaps

\* The retain() calls, and the per-peer bookkeeping.
LEMMA ForgetSame ==
    ASSUME NEW k, HasMaps(k), NEW c, NEW p
    PROVE  SameMaps(k, ForgetConn(k, c)) /\ SameMaps(k, ForgetPeer(k, p))
BY DEF ForgetConn, ForgetPeer, SameMaps, HasMaps

\* stream_owner.insert and stream_owner.remove
LEMMA SetOwnerSame ==
    ASSUME NEW k, HasMaps(k), NEW c, NEW s, NEW kind
    PROVE  SameMaps(k, SetOwner(k, c, s, kind))
BY DEF SetOwner, SameMaps, HasMaps

\* drain_ping_outputs
LEMMA DrainPingSame ==
    ASSUME NEW k, HasMaps(k), NEW p, NEW r
    PROVE  SameMaps(k, DrainPing(k, p, r))
PROOF
  <1> DEFINE k1 == [k EXCEPT !.ping = [@ EXCEPT ![p] = r.st]]
             c  == ConnForOwnedStream(k, p, r.actions[1].stream, "Ping")
             k2 == IF r.actions = << >> \/ c = None
                   THEN k1
                   ELSE Act(k1, PingActionKind(r.actions[1]), c, r.actions[1].stream)
             k3 == IF r.events = << >> \/ PingEventKind(r.events[1]) = None
                   THEN k2
                   ELSE Emit(k2, PingEventKind(r.events[1]), p, None)
  <1>1. SameMaps(k, k1) /\ HasMaps(k1)
    BY DEF SameMaps, HasMaps
  <1> HIDE DEF k1, c
  <1>2. SameMaps(k1, k2) /\ HasMaps(k2)
    <2>1. SameMaps(k1, k1) BY DEF SameMaps
    <2> QED BY <1>1, <2>1, ActSame, SameMapsHas
  <1> HIDE DEF k2
  <1>3. SameMaps(k2, k3)
    <2>1. SameMaps(k2, k2) BY DEF SameMaps
    <2> QED BY <1>2, <2>1, EmitSame
  <1>4. SameMaps(k, k3)
    BY <1>1, <1>2, <1>3, SameMapsTrans
  <1> QED BY <1>4 DEF DrainPing, k3, k2, k1, c

\* try_emit_peer_ready
LEMMA TryReadySame ==
    ASSUME NEW k, HasMaps(k), NEW p
    PROVE  SameMaps(k, TryEmitPeerReady(k, p))
PROOF
  <1> DEFINE l == [k EXCEPT !.ready_peers = @ \cup {p}]
  <1>1. SameMaps(k, k) BY DEF SameMaps
  <1>2. SameMaps(k, l) /\ HasMaps(l) BY DEF SameMaps, HasMaps
  <1> HIDE DEF l
  <1>3. SameMaps(k, Emit(l, "PeerReady", p, None)) BY <1>2, EmitSame, SameMapsTrans
  <1> QED BY <1>1, <1>3 DEF TryEmitPeerReady, l

\* drain_identify_outputs
LEMMA DrainIdentifySame ==
    ASSUME NEW k, HasMaps(k), NEW p, NEW s, NEW r
    PROVE  SameMaps(k, DrainIdentify(k, p, s, r))
PROOF
  <1> DEFINE k0 == [k EXCEPT !.identify = [@ EXCEPT ![p] = r.st]]
             k1 == ExecuteIdentifyActions(k0, p, s, r.commands)
             i  == r.received[1]
             k2 == [k1 EXCEPT !.peer_info = [@ EXCEPT ![p] = i]]
             k3 == Emit(k2, "IdentifyReceived", p, None)
             k4 == TryEmitPeerReady(k3, p)
  <1>1. SameMaps(k, k0) /\ HasMaps(k0)
    BY DEF SameMaps, HasMaps
  <1> HIDE DEF k0
  <1>2. SameMaps(k0, k1) /\ HasMaps(k1)
    BY <1>1 DEF SameMaps, HasMaps, ExecuteIdentifyActions
  <1> HIDE DEF k1, i
  <1>3. SameMaps(k1, k2) /\ HasMaps(k2)
    BY <1>2 DEF SameMaps, HasMaps
  <1> HIDE DEF k2
  <1>4. SameMaps(k2, k3) /\ HasMaps(k3)
    BY <1>3, EmitSame, SameMapsHas
  <1> HIDE DEF k3
  <1>5. SameMaps(k3, k4)
    BY <1>4, TryReadySame
  <1> HIDE DEF k4
  <1>6. SameMaps(k, k1) /\ SameMaps(k, k4)
    BY <1>1, <1>2, <1>3, <1>4, <1>5, SameMapsTrans
  <1>7. SameMaps(k, EmitError(k1, "Identify", None))
    BY <1>6, <1>2, EmitSame, SameMapsTrans
  <1>8. SameMaps(k, HandleIdentifyEvent(k1, p, i))
    BY <1>6, <1>7 DEF HandleIdentifyEvent, k4, k3, k2
  <1> QED BY <1>6, <1>8 DEF DrainIdentify, k1, k0, i

\* register_connection's announcement: an event and one or two opens.
LEMMA AnnounceSame ==
    ASSUME NEW k, HasMaps(k), NEW p
    PROVE  SameMaps(k, AnnounceConnection(k, p))
PROOF
  <1> DEFINE k0 == [k EXCEPT !.established_peers = @ \cup {p}]
             k1 == Emit(k0, "ConnectionEstablished", p, None)
             k2 == QueueOpenProtocolStream(k1, p, "IdentifyInitiator")
  <1>1. SameMaps(k, k0) /\ HasMaps(k0)
    BY DEF SameMaps, HasMaps
  <1> HIDE DEF k0
  <1>2. SameMaps(k, k1) /\ HasMaps(k1)
    BY <1>1, EmitSame, SameMapsTrans, SameMapsHas
  <1> HIDE DEF k1
  <1>3. SameMaps(k, k2) /\ HasMaps(k2)
    BY <1>2, QueueOpenSame, SameMapsTrans, SameMapsHas
  <1> HIDE DEF k2
  <1>4. SameMaps(k, QueueOpenProtocolStream(k2, p, "Ping"))
    BY <1>3, QueueOpenSame, SameMapsTrans
  <1> QED BY <1>3, <1>4 DEF AnnounceConnection, k2, k1, k0
-----------------------------------------------------------------------------
(* The handlers.                                                           *)

\* handle_stream_opened and handle_open_stream_failed
LEMMA OpenedSame ==
    ASSUME NEW k, HasMaps(k), NEW c, NEW s, NEW token
    PROVE  /\ SameMaps(k, HandleStreamOpened(k, c, s, token))
           /\ SameMaps(k, HandleOpenStreamFailed(k, token))
PROOF
  <1> DEFINE opens == {o \in k.pending_opens : o.token = token}
             o     == CHOOSE o \in opens : TRUE
             k1    == [k EXCEPT !.pending_opens = @ \ opens]
             k2    == Act(k1, "SendStream", c, s)
             k3    == [k2 EXCEPT !.outbound_negotiators = [@ EXCEPT ![<<c, s>>] = o.target]]
  <1> HIDE DEF opens, o
  <1>1. SameMaps(k, k1) /\ HasMaps(k1)
    BY DEF SameMaps, HasMaps
  <1> HIDE DEF k1
  <1>2. SameMaps(k, k2) /\ HasMaps(k2)
    BY <1>1, ActSame, SameMapsTrans, SameMapsHas
  <1> HIDE DEF k2
  <1>3. SameMaps(k2, k3)
    BY <1>2 DEF SameMaps, HasMaps
  <1> HIDE DEF k3
  <1>4. SameMaps(k, k3)
    BY <1>2, <1>3, SameMapsTrans
  <1>5. SameMaps(k, EmitError(k, "Driver", None))
    BY EmitSame
  <1>6. \A p : /\ SameMaps(k, EmitError(k1, "Driver", p))
               /\ SameMaps(k, EmitError(k1, "OpenStreamFailed", p))
    BY <1>1, EmitSame, SameMapsTrans
  <1>7. SameMaps(k, HandleStreamOpened(k, c, s, token))
    BY <1>4, <1>5, <1>6 DEF HandleStreamOpened, k3, k2, k1, o, opens
  <1>8. SameMaps(k, HandleOpenStreamFailed(k, token))
    BY <1>6 DEF HandleOpenStreamFailed, k1, opens
  <1> QED BY <1>7, <1>8

\* handle_incoming_stream
LEMMA IncomingSame ==
    ASSUME NEW k, HasMaps(k), NEW c, NEW s
    PROVE  SameMaps(k, HandleIncomingStream(k, c, s))
PROOF
  <1> DEFINE k1 == [k EXCEPT !.inbound_negotiators = @ \cup {<<c, s>>}]
  <1>1. SameMaps(k, k1) /\ HasMaps(k1)
    BY DEF SameMaps, HasMaps
  <1> HIDE DEF k1
  <1>2. SameMaps(k, Act(k1, "SendStream", c, s))
    BY <1>1, ActSame, SameMapsTrans
  <1> QED BY <1>2 DEF HandleIncomingStream, k1

\* handle_stream_closed looks the peer up and never makes one up.
LEMMA StreamClosedSame ==
    ASSUME NEW k, HasMaps(k), NEW c, NEW s
    PROVE  SameMaps(k, HandleStreamClosed(k, c, s))
PROOF
  <1> DEFINE kind == k.stream_owner[<<c, s>>]
             p    == k.conn_to_peer[c]
             k1   == SetOwner(k, c, s, None)
             k2   == CASE kind = "Ping" /\ p # None ->
                            DrainPing(k1, p, Ping!OnStreamClosed(k1.ping[p], s))
                       [] kind \in {"IdentifyInitiator", "IdentifyResponder"} /\ p # None ->
                            DrainIdentify(k1, p, s, Identify!OnStreamClosed(k1.identify[p], s))
                       [] kind = "User" /\ p # None -> Emit(k1, "UserStreamClosed", p, s)
                       [] OTHER -> k1
             k3   == [k2 EXCEPT !.inbound_negotiators  = @ \ {<<c, s>>},
                                !.outbound_negotiators = [@ EXCEPT ![<<c, s>>] = None]]
  <1> HIDE DEF kind, p
  <1>1. SameMaps(k, k1) /\ HasMaps(k1)
    BY SetOwnerSame, SameMapsHas
  <1> HIDE DEF k1
  <1>2. SameMaps(k1, k2)
    <2> DEFINE d1 == DrainPing(k1, p, Ping!OnStreamClosed(k1.ping[p], s))
               d2 == DrainIdentify(k1, p, s, Identify!OnStreamClosed(k1.identify[p], s))
               d3 == Emit(k1, "UserStreamClosed", p, s)
    <2>1. SameMaps(k1, k1) BY DEF SameMaps
    <2>2. SameMaps(k1, d1) BY <1>1, DrainPingSame
    <2>3. SameMaps(k1, d2) BY <1>1, DrainIdentifySame
    <2>4. SameMaps(k1, d3) BY <1>1, EmitSame
    <2> HIDE DEF d1, d2, d3
    <2>5. k2 \in {k1, d1, d2, d3} BY Zenon DEF d1, d2, d3
    <2> HIDE DEF k2
    <2> QED BY <2>1, <2>2, <2>3, <2>4, <2>5
  <1> HIDE DEF k2
  <1>3. SameMaps(k, k2) /\ HasMaps(k2)
    BY <1>1, <1>2, SameMapsTrans, SameMapsHas
  <1>4. SameMaps(k2, k3)
    BY <1>3 DEF SameMaps, HasMaps
  <1> HIDE DEF k3
  <1>5. SameMaps(k, k3)
    BY <1>3, <1>4, SameMapsTrans
  <1> QED BY <1>5 DEF HandleStreamClosed, k3, k2, k1, kind, p

\* The deferred ping, handle_tick, and the application's calls.
LEMMA CallsSame ==
    ASSUME NEW k, HasMaps(k), NEW p, NEW s, NEW payload, NEW kind
    PROVE  /\ SameMaps(k, SendDeferredPing(k, p))
           /\ SameMaps(k, HandleTick(k, p))
           /\ SameMaps(k, DoPing(k, p, payload))
           /\ SameMaps(k, OpenUserStream(k, p))
           /\ SameMaps(k, UserStreamCall(k, p, s, kind))
           /\ SameMaps(k, Disconnect(k, p))
PROOF
  <1>0. SameMaps(k, k) BY DEF SameMaps
  <1>1. SameMaps(k, SendDeferredPing(k, p))
    <2> DEFINE r  == Ping!SendPing(k.ping[p], p, k.pending_pings[p])
               k1 == [k EXCEPT !.pending_pings = [@ EXCEPT ![p] = None]]
    <2>1. SameMaps(k, k1) /\ HasMaps(k1) BY DEF SameMaps, HasMaps
    <2> HIDE DEF k1, r
    <2>2. SameMaps(k, DrainPing(k1, p, r)) BY <2>1, DrainPingSame, SameMapsTrans
    <2>3. SameMaps(k, EmitError(k1, "Ping", p)) BY <2>1, EmitSame, SameMapsTrans
    <2> QED BY <1>0, <2>2, <2>3 DEF SendDeferredPing, k1, r
  <1>2. SameMaps(k, HandleTick(k, p))
    BY DrainPingSame DEF HandleTick
  <1>3. SameMaps(k, DoPing(k, p, payload))
    <2> DEFINE queued == [k EXCEPT !.pending_pings = [@ EXCEPT ![p] = payload]]
               r      == Ping!SendPing(k.ping[p], p, payload)
    <2>1. SameMaps(k, queued) /\ HasMaps(queued) BY DEF SameMaps, HasMaps
    <2> HIDE DEF queued, r
    <2>2. SameMaps(k, DrainPing(k, p, r)) BY DrainPingSame
    <2>3. SameMaps(k, QueueOpenProtocolStream(queued, p, "Ping"))
      BY <2>1, QueueOpenSame, SameMapsTrans
    <2> QED BY <1>0, <2>1, <2>2, <2>3 DEF DoPing, queued, r
  <1>4. SameMaps(k, OpenUserStream(k, p))
    BY <1>0, QueueOpenSame DEF OpenUserStream
  <1>5. SameMaps(k, UserStreamCall(k, p, s, kind))
    <2> DEFINE c == ConnForOwnedStream(k, p, s, "User")
    <2> HIDE DEF c
    <2>1. SameMaps(k, Act(k, kind, c, s)) BY ActSame
    <2> QED BY <1>0, <2>1 DEF UserStreamCall, c
  <1>6. SameMaps(k, Disconnect(k, p))
    BY <1>0, ActSame DEF Disconnect
  <1> QED BY <1>1, <1>2, <1>3, <1>4, <1>5, <1>6
-----------------------------------------------------------------------------
(* The handlers that may give a connection a placeholder peer.             *)

\* ensure_peer_id_for_conn
LEMMA EnsureHas ==
    ASSUME NEW k, HasMaps(k), NEW c \in Conns
    PROVE  /\ HasMaps(EnsurePeerIdForConn(k, c))
           /\ EnsurePeerIdForConn(k, c).conn_to_peer[c] # None
           /\ AtMostEnsured(k, EnsurePeerIdForConn(k, c), c)
PROOF
  <1>1. Synthetic(c) \in PeerIds
    BY DEF PeerIds, Synthetics
  <1>2. Synthetic(c) # None
    BY <1>1, PeersAssumption
  <1> HIDE DEF Synthetic
  <1>3. HasMaps(EnsurePeerIdForConn(k, c))
    BY <1>1 DEF HasMaps, EnsurePeerIdForConn
  <1>4. EnsurePeerIdForConn(k, c).conn_to_peer[c] # None
    BY <1>2 DEF HasMaps, EnsurePeerIdForConn
  <1> QED BY <1>3, <1>4 DEF AtMostEnsured, SameMaps

\* AtMostEnsured composes: a second placeholder is never made.
LEMMA EnsuredTrans ==
    ASSUME NEW k, NEW j, NEW l, NEW c \in Conns, HasMaps(k),
           AtMostEnsured(k, j, c), AtMostEnsured(j, l, c)
    PROVE  AtMostEnsured(k, l, c) /\ HasMaps(j)
PROOF
  <1> DEFINE e == EnsurePeerIdForConn(k, c)
             f == EnsurePeerIdForConn(j, c)
  <1>1. HasMaps(e) /\ e.conn_to_peer[c] # None
    BY EnsureHas
  <1>2. HasMaps(j)
    BY <1>1, SameMapsHas DEF AtMostEnsured
  <1>3. SameMaps(k, j) => SameMaps(e, f)
    BY <1>2 DEF SameMaps, HasMaps, EnsurePeerIdForConn
  <1>4. SameMaps(e, j) => f = j
    <2> HIDE DEF e
    <2> QED BY <1>1 DEF SameMaps, EnsurePeerIdForConn
  <1> HIDE DEF e, f
  <1>5. SameMaps(k, l) \/ SameMaps(e, l)
    BY <1>3, <1>4, SameMapsTrans DEF AtMostEnsured, e, f
  <1> QED BY <1>2, <1>5 DEF AtMostEnsured, e

\* SameMaps is a special case.
LEMMA SameIsEnsured ==
    ASSUME NEW k, NEW j, NEW c, SameMaps(k, j)
    PROVE  AtMostEnsured(k, j, c)
BY DEF AtMostEnsured

\* dispatch_protocol_data
LEMMA DispatchEnsured ==
    ASSUME NEW k, HasMaps(k), NEW c \in Conns, NEW s, NEW chunk
    PROVE  AtMostEnsured(k, DispatchProtocolData(k, c, s, chunk), c)
PROOF
  <1> DEFINE k1 == EnsurePeerIdForConn(k, c)
             p  == k1.conn_to_peer[c]
             d1 == DrainPing(k1, p, Ping!OnStreamData(k1.ping[p], p, s, chunk.len, chunk.payload))
             d2 == DrainIdentify(k1, p, s, Identify!OnStreamData(k1.identify[p], s, chunk.oversize))
             d3 == Emit(k1, "UserStreamData", p, s)
  <1>1. HasMaps(k1)
    BY EnsureHas
  <1>2. SameMaps(k, k) /\ SameMaps(k1, k1)
    BY DEF SameMaps
  <1> HIDE DEF k1, p
  <1>3. SameMaps(k1, d1) /\ SameMaps(k1, d2) /\ SameMaps(k1, d3)
    BY <1>1, DrainPingSame, DrainIdentifySame, EmitSame
  <1> HIDE DEF d1, d2, d3
  <1>4. DispatchProtocolData(k, c, s, chunk) \in {k, k1, d1, d2, d3}
    BY Zenon DEF DispatchProtocolData, d1, d2, d3, k1, p
  <1> QED BY <1>2, <1>3, <1>4 DEF AtMostEnsured, k1

\* handle_stream_remote_write_closed
LEMMA RemoteClosedEnsured ==
    ASSUME NEW k, HasMaps(k), NEW c \in Conns, NEW s, NEW decoded
    PROVE  AtMostEnsured(k, HandleStreamRemoteWriteClosed(k, c, s, decoded), c)
PROOF
  <1> DEFINE k1 == EnsurePeerIdForConn(k, c)
             p  == k1.conn_to_peer[c]
             d1 == DrainPing(k1, p, Ping!OnStreamRemoteWriteClosed(k1.ping[p], p, s))
             d2 == DrainIdentify(k1, p, s,
                     Identify!OnStreamRemoteWriteClosed(k1.identify[p], s, decoded))
             d3 == Emit(k1, "UserStreamRemoteWriteClosed", p, s)
  <1>1. HasMaps(k1)
    BY EnsureHas
  <1>2. SameMaps(k, k) /\ SameMaps(k1, k1)
    BY DEF SameMaps
  <1> HIDE DEF k1, p
  <1>3. SameMaps(k1, d1) /\ SameMaps(k1, d2) /\ SameMaps(k1, d3)
    BY <1>1, DrainPingSame, DrainIdentifySame, EmitSame
  <1> HIDE DEF d1, d2, d3
  <1>4. HandleStreamRemoteWriteClosed(k, c, s, decoded) \in {k, k1, d1, d2, d3}
    BY Zenon DEF HandleStreamRemoteWriteClosed, d1, d2, d3, k1, p
  <1> QED BY <1>2, <1>3, <1>4 DEF AtMostEnsured, k1

\* on_inbound_negotiated, for the protocols a listener offers
LEMMA InboundNegotiatedEnsured ==
    ASSUME NEW k, HasMaps(k), NEW c \in Conns, NEW s,
           NEW protocol \in {"Ping", "Identify", "User"}
    PROVE  AtMostEnsured(k, OnInboundNegotiated(k, c, s, protocol), c)
PROOF
  <1> DEFINE k1 == EnsurePeerIdForConn(k, c)
             p  == k1.conn_to_peer[c]
             r  == Identify!RegisterOutboundStream(k1.identify[p], s)
             o1 == SetOwner(k1, c, s, "Ping")
             o2 == SetOwner(k1, c, s, "IdentifyResponder")
             o3 == SetOwner(k1, c, s, "User")
             e  == EmitError(k1, "IdentifyStreamRejected", p)
             d1 == DrainPing(o1, p, Ping!RegisterInboundStream(o1.ping[p], p, s))
             d2 == DrainIdentify(o2, p, s, r)
             d3 == Act(e, "ResetStream", c, s)
             d4 == Emit(o3, "UserStreamReady", p, s)
  <1>1. HasMaps(k1)
    BY EnsureHas
  <1> HIDE DEF k1, p, r
  <1>2. /\ SameMaps(k1, o1) /\ SameMaps(k1, o2) /\ SameMaps(k1, o3) /\ SameMaps(k1, e)
        /\ HasMaps(o1) /\ HasMaps(o2) /\ HasMaps(o3) /\ HasMaps(e)
    BY <1>1, SetOwnerSame, EmitSame, SameMapsHas
  <1> HIDE DEF o1, o2, o3, e
  <1>3. /\ SameMaps(k1, d1) /\ SameMaps(k1, d2) /\ SameMaps(k1, d3) /\ SameMaps(k1, d4)
    BY <1>2, DrainPingSame, DrainIdentifySame, ActSame, EmitSame, SameMapsTrans
  <1> HIDE DEF d1, d2, d3, d4
  <1>4. OnInboundNegotiated(k, c, s, protocol) \in {d1, d2, d3, d4}
    <2>1. CASE protocol = "Ping"
      BY <2>1 DEF OnInboundNegotiated, d1, o1, k1, p
    <2>2. CASE protocol = "Identify" /\ r.ok
      BY <2>2 DEF OnInboundNegotiated, d2, o2, r, k1, p
    <2>3. CASE protocol = "Identify" /\ ~r.ok
      BY <2>3 DEF OnInboundNegotiated, d3, e, r, k1, p
    <2>4. CASE protocol = "User"
      BY <2>4 DEF OnInboundNegotiated, d4, o3, k1, p
    <2> QED BY <2>1, <2>2, <2>3, <2>4
  <1> QED BY <1>3, <1>4 DEF AtMostEnsured, k1
\* on_outbound_negotiated
LEMMA OutboundNegotiatedEnsured ==
    ASSUME NEW k, HasMaps(k), NEW c \in Conns, NEW s, NEW target
    PROVE  AtMostEnsured(k, OnOutboundNegotiated(k, c, s, target), c)
PROOF
  <1> DEFINE k0 == EnsurePeerIdForConn(k, c)
             k1 == SetOwner(k0, c, s, target)
             p  == k1.conn_to_peer[c]
             r  == Ping!RegisterOutboundStream(k1.ping[p], p, s)
             f  == DrainPing(k1, p, r)
             g  == EmitError(k1, "Ping", p)
             h  == SetOwner(g, c, s, None)
             d1 == SendDeferredPing(f, p)
             d2 == Act(h, "ResetStream", c, s)
             d3 == DrainIdentify(k1, p, s, Identify!RegisterInboundStream(k1.identify[p], s))
             d4 == Emit(k1, "UserStreamReady", p, s)
  <1>1. HasMaps(k0)
    BY EnsureHas
  <1> HIDE DEF k0
  <1>2. SameMaps(k0, k1) /\ HasMaps(k1)
    BY <1>1, SetOwnerSame, SameMapsHas
  <1> HIDE DEF k1, p, r
  <1>3. SameMaps(k0, f) /\ HasMaps(f) /\ SameMaps(k0, g) /\ HasMaps(g)
    BY <1>2, DrainPingSame, EmitSame, SameMapsTrans, SameMapsHas
  <1> HIDE DEF f, g
  <1>4. SameMaps(k0, h) /\ HasMaps(h)
    BY <1>3, SetOwnerSame, SameMapsTrans, SameMapsHas
  <1> HIDE DEF h
  <1>5. SameMaps(k0, d1)
    BY <1>3, CallsSame, SameMapsTrans
  <1>6. SameMaps(k0, d2) /\ SameMaps(k0, d3) /\ SameMaps(k0, d4)
    BY <1>2, <1>4, ActSame, DrainIdentifySame, EmitSame, SameMapsTrans
  <1> HIDE DEF d1, d2, d3, d4
  <1>7. OnOutboundNegotiated(k, c, s, target) \in {k1, d1, d2, d3, d4}
    <2>1. CASE target = "Ping" /\ r.ok
      BY <2>1 DEF OnOutboundNegotiated, d1, f, r, k1, k0, p
    <2>2. CASE target = "Ping" /\ ~r.ok
      BY <2>2 DEF OnOutboundNegotiated, d2, h, g, r, k1, k0, p
    <2>3. CASE target = "IdentifyInitiator"
      BY <2>3 DEF OnOutboundNegotiated, d3, k1, k0, p
    <2>4. CASE target = "IdentifyResponder"
      BY <2>4 DEF OnOutboundNegotiated, k1, k0, p
    <2>5. CASE target \notin {"Ping", "IdentifyInitiator", "IdentifyResponder"}
      BY <2>5 DEF OnOutboundNegotiated, d4, k1, k0, p
    <2> QED BY <2>1, <2>2, <2>3, <2>4, <2>5
  <1> QED BY <1>2, <1>5, <1>6, <1>7 DEF AtMostEnsured, k0

\* Data pipelined behind a negotiation goes to the handler just registered.
LEMMA RestEnsured ==
    ASSUME NEW k, HasMaps(k), NEW j, NEW c \in Conns, NEW s, NEW rest,
           AtMostEnsured(k, j, c)
    PROVE  AtMostEnsured(k, DispatchRest(j, c, s, rest), c)
PROOF
  <1>1. SameMaps(j, j)
    BY DEF SameMaps
  <1>2. HasMaps(j)
    BY <1>1, EnsuredTrans, SameIsEnsured
  <1>3. AtMostEnsured(j, DispatchProtocolData(j, c, s, rest), c)
    BY <1>2, DispatchEnsured
  <1>4. AtMostEnsured(k, DispatchProtocolData(j, c, s, rest), c)
    BY <1>3, EnsuredTrans
  <1> QED BY <1>4 DEF DispatchRest

\* feed_inbound_negotiator
LEMMA FeedInboundEnsured ==
    ASSUME NEW k, HasMaps(k), NEW c \in Conns, NEW s, NEW protocol, NEW rest,
           NEW outcome \in {"negotiated", "not_available", "error"},
           outcome = "negotiated" => protocol \in {"Ping", "Identify", "User"}
    PROVE  AtMostEnsured(k, FeedInboundNegotiator(k, c, s, outcome, protocol, rest), c)
PROOF
  <1> DEFINE k1   == [k EXCEPT !.inbound_negotiators = @ \ {<<c, s>>}]
             sent == Act(k1, "SendStream", c, s)
             e    == EmitError(k1, "Multistream", EstablishedPeerForConn(k, c))
             n    == OnInboundNegotiated(sent, c, s, protocol)
  <1>1. SameMaps(k, k1) /\ HasMaps(k1)
    BY DEF SameMaps, HasMaps
  <1> HIDE DEF k1
  <1>2. SameMaps(k, sent) /\ HasMaps(sent) /\ SameMaps(k, e) /\ HasMaps(e)
    BY <1>1, ActSame, EmitSame, SameMapsTrans, SameMapsHas
  <1> HIDE DEF sent, e
  <1>3. CASE outcome = "negotiated"
    <2>1. AtMostEnsured(sent, n, c)
      BY <1>2, <1>3, InboundNegotiatedEnsured
    <2> HIDE DEF n
    <2>2. AtMostEnsured(k, n, c)
      BY <1>2, <2>1, SameIsEnsured, EnsuredTrans
    <2>3. AtMostEnsured(k, DispatchRest(n, c, s, rest), c)
      BY <2>2, RestEnsured
    <2> QED BY <1>3, <2>3 DEF FeedInboundNegotiator, n, sent, k1
  <1>4. CASE outcome = "not_available"
    <2>1. SameMaps(k, Act(sent, "ResetStream", c, s))
      BY <1>2, ActSame, SameMapsTrans
    <2> QED BY <1>4, <2>1, SameIsEnsured DEF FeedInboundNegotiator, sent, k1
  <1>5. CASE outcome = "error"
    <2>1. SameMaps(k, Act(e, "ResetStream", c, s))
      BY <1>2, ActSame, SameMapsTrans
    <2> QED BY <1>5, <2>1, SameIsEnsured DEF FeedInboundNegotiator, e, k1
  <1> QED BY <1>3, <1>4, <1>5

\* feed_outbound_negotiator
LEMMA FeedOutboundEnsured ==
    ASSUME NEW k, HasMaps(k), NEW c \in Conns, NEW s, NEW proposed \in BOOLEAN, NEW rest,
           NEW outcome \in {"waiting", "negotiated", "not_available", "error"}
    PROVE  AtMostEnsured(k, FeedOutboundNegotiator(k, c, s, proposed, outcome, rest), c)
PROOF
  <1> DEFINE target == k.outbound_negotiators[<<c, s>>]
             k1 == IF proposed THEN Act(k, "SendStream", c, s) ELSE k
             k2 == [k1 EXCEPT !.outbound_negotiators = [@ EXCEPT ![<<c, s>>] = None]]
             p  == EstablishedPeerForConn(k, c)
             e1 == EmitError(k2, "UnsupportedProtocol", p)
             e2 == EmitError(k2, "Multistream", p)
             n  == OnOutboundNegotiated(k2, c, s, target)
  <1> HIDE DEF target, p
  <1>1. SameMaps(k, k1) /\ HasMaps(k1)
    <2>1. SameMaps(k, k) BY DEF SameMaps
    <2> QED BY <2>1, ActSame, SameMapsHas
  <1> HIDE DEF k1
  <1>2. SameMaps(k1, k2) /\ HasMaps(k2)
    BY <1>1 DEF SameMaps, HasMaps
  <1> HIDE DEF k2
  <1>3. SameMaps(k, k2)
    BY <1>1, <1>2, SameMapsTrans
  <1>4. SameMaps(k, e1) /\ HasMaps(e1) /\ SameMaps(k, e2) /\ HasMaps(e2)
    BY <1>2, <1>3, EmitSame, SameMapsTrans, SameMapsHas
  <1> HIDE DEF e1, e2
  <1>5. CASE outcome = "waiting"
    BY <1>1, <1>5, SameIsEnsured DEF FeedOutboundNegotiator, k1
  <1>6. CASE outcome = "negotiated"
    <2>1. AtMostEnsured(k2, n, c)
      BY <1>2, OutboundNegotiatedEnsured
    <2> HIDE DEF n
    <2>2. AtMostEnsured(k, n, c)
      BY <1>3, <2>1, SameIsEnsured, EnsuredTrans
    <2>3. AtMostEnsured(k, DispatchRest(n, c, s, rest), c)
      BY <2>2, RestEnsured
    <2> QED BY <1>6, <2>3 DEF FeedOutboundNegotiator, n, target, k2, k1
  <1>7. CASE outcome = "not_available"
    <2>1. SameMaps(k, Act(e1, "ResetStream", c, s))
      BY <1>4, ActSame, SameMapsTrans
    <2> QED BY <1>7, <2>1, SameIsEnsured DEF FeedOutboundNegotiator, e1, k2, k1, p
  <1>8. CASE outcome = "error"
    <2>1. SameMaps(k, Act(e2, "ResetStream", c, s))
      BY <1>4, ActSame, SameMapsTrans
    <2> QED BY <1>8, <2>1, SameIsEnsured DEF FeedOutboundNegotiator, e2, k2, k1, p
  <1> QED BY <1>5, <1>6, <1>7, <1>8
-----------------------------------------------------------------------------
(* What the operations that write the maps do to MapsAgree and NoOrphan.   *)

\* The placeholder of a connection is never the peer of another one.
OwnPlaceholder(k) ==
    \A c \in Conns : k.conn_to_peer[c] \in Synthetics => k.conn_to_peer[c] = Synthetic(c)

\* Every connection is mapped both ways.
Paired(k) == NoOrphan(k) /\ OwnPlaceholder(k)

\* j maps no connection that k does not map, except perhaps c.
MapsOnly(k, j, c) ==
    \A d \in Conns : d # c /\ j.conn_to_peer[d] # None => k.conn_to_peer[d] # None

\* Placeholders of different connections differ.
LEMMA SyntheticInjective ==
    ASSUME NEW c, NEW d, Synthetic(c) = Synthetic(d)
    PROVE  c = d
BY DEF Synthetic

\* Facts about the maps are facts about any core that shares them.
LEMMA SameMapsKeeps ==
    ASSUME NEW k, NEW j, NEW c, SameMaps(k, j)
    PROVE  /\ MapsAgree(k) => MapsAgree(j)
           /\ Paired(k) => Paired(j)
           /\ MapsOnly(k, j, c)
           /\ j.conn_to_peer = k.conn_to_peer
BY DEF SameMaps, MapsAgree, Paired, NoOrphan, OwnPlaceholder, MapsOnly

\* ensure_peer_id_for_conn keeps the maps consistent.
LEMMA EnsureKeeps ==
    ASSUME NEW k, HasMaps(k), NEW c \in Conns
    PROVE  LET j == EnsurePeerIdForConn(k, c)
           IN  /\ MapsAgree(k) => MapsAgree(j)
               /\ Paired(k) => Paired(j)
               /\ MapsOnly(k, j, c)
PROOF
  <1> DEFINE j == EnsurePeerIdForConn(k, c)
             y == Synthetic(c)
  <1>1. CASE k.conn_to_peer[c] # None
    BY <1>1 DEF EnsurePeerIdForConn, MapsOnly
  <1>2. CASE k.conn_to_peer[c] = None
    <2>1. y \in PeerIds /\ y \in Synthetics /\ y # None
      BY PeersAssumption DEF PeerIds, Synthetics
    <2>2. \A d \in Conns : Synthetic(d) = y => d = c
      BY SyntheticInjective
    <2> HIDE DEF y
    <2>3. /\ j.conn_to_peer = [k.conn_to_peer EXCEPT ![c] = y]
          /\ j.peer_to_conn = [k.peer_to_conn EXCEPT ![y] = c]
      BY <1>2 DEF EnsurePeerIdForConn, HasMaps, y
    <2> HIDE DEF j
    <2>4. MapsAgree(k) => MapsAgree(j)
      <3> SUFFICES ASSUME MapsAgree(k), NEW q \in PeerIds, j.peer_to_conn[q] # None
                   PROVE  j.conn_to_peer[j.peer_to_conn[q]] = q
        BY DEF MapsAgree
      <3>1. CASE q = y
        BY <2>1, <2>3, <3>1 DEF HasMaps
      <3>2. CASE q # y
        <4>1. j.peer_to_conn[q] = k.peer_to_conn[q] /\ k.peer_to_conn[q] \in Conns
          BY <2>3, <3>2 DEF HasMaps
        <4>2. k.conn_to_peer[k.peer_to_conn[q]] = q /\ q # None
          BY <4>1, PeersAssumption DEF MapsAgree
        <4>3. k.peer_to_conn[q] # c
          BY <1>2, <4>2
        <4> QED BY <2>3, <4>1, <4>2, <4>3 DEF HasMaps
      <3> QED BY <3>1, <3>2
    <2>5. OwnPlaceholder(k) => OwnPlaceholder(j)
      BY <2>1, <2>3 DEF OwnPlaceholder, HasMaps, y
    <2>6. Paired(k) => NoOrphan(j)
      <3> SUFFICES ASSUME Paired(k), NEW d \in Conns, j.conn_to_peer[d] # None
                   PROVE  j.peer_to_conn[j.conn_to_peer[d]] = d
        BY DEF NoOrphan
      <3>1. CASE d = c
        BY <2>1, <2>3, <3>1 DEF HasMaps
      <3>2. CASE d # c
        <4>1. j.conn_to_peer[d] = k.conn_to_peer[d] /\ k.conn_to_peer[d] \in PeerIds
          BY <2>3, <3>2 DEF HasMaps
        <4>2. k.conn_to_peer[d] # y
          BY <2>1, <2>2, <3>2 DEF Paired, OwnPlaceholder
        <4>3. k.peer_to_conn[k.conn_to_peer[d]] = d
          BY <4>1 DEF Paired, NoOrphan
        <4> QED BY <2>3, <4>1, <4>2, <4>3 DEF HasMaps
      <3> QED BY <3>1, <3>2
    <2>7. MapsOnly(k, j, c)
      BY <2>3 DEF MapsOnly, HasMaps
    <2> QED BY <2>4, <2>5, <2>6, <2>7 DEF Paired, j
  <1> QED BY <1>1, <1>2

\* So do the handlers that call it.
LEMMA EnsuredKeeps ==
    ASSUME NEW k, NEW j, HasMaps(k), NEW c \in Conns, AtMostEnsured(k, j, c)
    PROVE  /\ HasMaps(j)
           /\ MapsAgree(k) => MapsAgree(j)
           /\ Paired(k) => Paired(j)
           /\ MapsOnly(k, j, c)
PROOF
  <1> DEFINE e == EnsurePeerIdForConn(k, c)
  <1>1. /\ HasMaps(e)
        /\ MapsAgree(k) => MapsAgree(e)
        /\ Paired(k) => Paired(e)
        /\ MapsOnly(k, e, c)
    BY EnsureHas, EnsureKeeps
  <1> HIDE DEF e
  <1>2. CASE SameMaps(k, j)
    BY <1>2, SameMapsHas, SameMapsKeeps
  <1>3. CASE SameMaps(e, j)
    <2>1. /\ HasMaps(j)
          /\ MapsAgree(e) => MapsAgree(j)
          /\ Paired(e) => Paired(j)
          /\ j.conn_to_peer = e.conn_to_peer
      BY <1>1, <1>3, SameMapsHas, SameMapsKeeps
    <2>2. MapsOnly(k, j, c)
      BY <1>1, <2>1 DEF MapsOnly
    <2> QED BY <1>1, <2>1, <2>2
  <1> QED BY <1>2, <1>3 DEF AtMostEnsured, e

\* map_conn writes both directions at once.
LEMMA MapConnMaps ==
    ASSUME NEW k, HasMaps(k), NEW c \in Conns, NEW p \in PeerIds
    PROVE  LET j == MapConn(k, c, p)
           IN  /\ HasMaps(j)
               /\ j.conn_to_peer = [k.conn_to_peer EXCEPT ![c] = p]
               /\ j.peer_to_conn = [k.peer_to_conn EXCEPT ![p] = c]
BY DEF MapConn, HasMaps

\* supersede_connection takes the old connection off conn_to_peer.
LEMMA SupersedeMaps ==
    ASSUME NEW k, HasMaps(k), NEW old \in Conns
    PROVE  LET j == SupersedeConnection(k, old)
           IN  /\ HasMaps(j)
               /\ j.conn_to_peer = [k.conn_to_peer EXCEPT ![old] = None]
               /\ j.peer_to_conn = k.peer_to_conn
PROOF
  <1> DEFINE p  == k.conn_to_peer[old]
             f  == ForgetPeer(k, p)
             k1 == IF p = None THEN k ELSE [f EXCEPT !.conn_to_peer = [@ EXCEPT ![old] = None]]
             g  == ForgetConn(k1, old)
             j  == Act(g, "CloseConnection", old, None)
  <1>1. SameMaps(k, f) /\ HasMaps(f)
    BY ForgetSame, SameMapsHas
  <1> HIDE DEF f
  <1>2. /\ HasMaps(k1)
        /\ k1.conn_to_peer = [k.conn_to_peer EXCEPT ![old] = None]
        /\ k1.peer_to_conn = k.peer_to_conn
    BY <1>1 DEF SameMaps, HasMaps
  <1> HIDE DEF k1
  <1>3. SameMaps(k1, g) /\ HasMaps(g)
    BY <1>2, ForgetSame, SameMapsHas
  <1> HIDE DEF g
  <1>4. SameMaps(k1, j) /\ HasMaps(j)
    BY <1>2, <1>3, ActSame, SameMapsTrans, SameMapsHas
  <1>5. SupersedeConnection(k, old) = j
    BY DEF SupersedeConnection, j, g, k1, f
  <1> HIDE DEF j
  <1> QED BY <1>2, <1>4, <1>5 DEF SameMaps
\* register_connection on a connection that has no peer yet.
LEMMA RegisterKeeps ==
    ASSUME NEW k, HasMaps(k), NEW c \in Conns, NEW p \in Peers,
           k.conn_to_peer[c] = None, MapsAgree(k)
    PROVE  LET j == RegisterConnection(k, c, p)
           IN  /\ HasMaps(j)
               /\ MapsAgree(j)
               /\ Paired(k) => Paired(j)
               /\ MapsOnly(k, j, c)
PROOF
  <1> DEFINE x  == k.peer_to_conn[p]
             k1 == IF x \notin {None, c} THEN SupersedeConnection(k, x) ELSE k
             k2 == MapConn(k1, c, p)
             j  == AnnounceConnection(k2, p)
  <1>1. p \in PeerIds /\ p \notin Synthetics /\ p # None
    BY PeersAssumption DEF PeerIds
  <1>2. x \in Conns \cup {None}
    BY <1>1 DEF HasMaps
  <1>3. /\ HasMaps(k1)
        /\ k1.peer_to_conn = k.peer_to_conn
        /\ \A d \in Conns : k1.conn_to_peer[d] =
             IF d = x /\ x \notin {None, c} THEN None ELSE k.conn_to_peer[d]
    <2>1. CASE x \notin {None, c}
      <3>1. /\ HasMaps(k1)
            /\ k1.conn_to_peer = [k.conn_to_peer EXCEPT ![x] = None]
            /\ k1.peer_to_conn = k.peer_to_conn
        BY <1>2, <2>1, SupersedeMaps
      <3> QED BY <2>1, <3>1 DEF HasMaps
    <2>2. CASE x \in {None, c}
      BY <2>2
    <2> QED BY <2>1, <2>2
  <1> HIDE DEF k1
  <1>4. /\ HasMaps(k2)
        /\ k2.conn_to_peer = [k1.conn_to_peer EXCEPT ![c] = p]
        /\ k2.peer_to_conn = [k1.peer_to_conn EXCEPT ![p] = c]
    BY <1>1, <1>3, MapConnMaps
  <1> HIDE DEF k2
  <1>5. /\ \A d \in Conns \ {c} : k2.conn_to_peer[d] =
             IF d = x /\ x # None THEN None ELSE k.conn_to_peer[d]
        /\ k2.conn_to_peer[c] = p
        /\ \A q \in PeerIds \ {p} : k2.peer_to_conn[q] = k.peer_to_conn[q]
        /\ k2.peer_to_conn[p] = c
    BY <1>1, <1>3, <1>4 DEF HasMaps
  <1>6. MapsAgree(k2)
    <2> SUFFICES ASSUME NEW q \in PeerIds, k2.peer_to_conn[q] # None
                 PROVE  k2.conn_to_peer[k2.peer_to_conn[q]] = q
      BY DEF MapsAgree
    <2>1. CASE q = p
      BY <1>5, <2>1
    <2>2. CASE q # p
      <3>1. k2.peer_to_conn[q] = k.peer_to_conn[q] /\ k.peer_to_conn[q] \in Conns
        BY <1>5, <2>2 DEF HasMaps
      <3>2. k.conn_to_peer[k.peer_to_conn[q]] = q /\ q # None
        BY <3>1, PeersAssumption DEF MapsAgree
      <3>3. k.peer_to_conn[q] # c
        BY <3>2
      <3>4. ~(k.peer_to_conn[q] = x /\ x # None)
        BY <1>1, <2>2, <3>2 DEF MapsAgree
      <3> QED BY <1>5, <3>1, <3>2, <3>3, <3>4
    <2> QED BY <2>1, <2>2
  <1>7. Paired(k) => NoOrphan(k2)
    <2> SUFFICES ASSUME Paired(k), NEW d \in Conns, k2.conn_to_peer[d] # None
                 PROVE  k2.peer_to_conn[k2.conn_to_peer[d]] = d
      BY DEF NoOrphan
    <2>1. CASE d = c
      BY <1>5, <2>1
    <2>2. CASE d # c
      <3>1. k2.conn_to_peer[d] = k.conn_to_peer[d] /\ ~(d = x /\ x # None)
        BY <1>5, <2>2
      <3>2. k.peer_to_conn[k.conn_to_peer[d]] = d /\ k.conn_to_peer[d] \in PeerIds
        BY <3>1 DEF Paired, NoOrphan, HasMaps
      <3>3. d # None
        BY ConnsAssumption
      <3>4. k.conn_to_peer[d] # p
        BY <3>1, <3>2, <3>3
      <3> QED BY <1>5, <3>1, <3>2, <3>4
    <2> QED BY <2>1, <2>2
  <1>8. Paired(k) => OwnPlaceholder(k2)
    <2>1. None \notin Synthetics
      BY PeersAssumption DEF PeerIds
    <2> HIDE DEF x
    <2> QED BY <1>1, <1>5, <2>1 DEF Paired, OwnPlaceholder
  <1>9. MapsOnly(k, k2, c)
    BY <1>5 DEF MapsOnly
  <1>10. SameMaps(k2, j)
    BY <1>4, AnnounceSame
  <1>11. RegisterConnection(k, c, p) = j
    BY DEF RegisterConnection, j, k2, k1
  <1> HIDE DEF j
  <1>12. HasMaps(j) /\ MapsAgree(j) /\ (Paired(k) => Paired(j)) /\ j.conn_to_peer = k2.conn_to_peer
    BY <1>4, <1>6, <1>7, <1>8, <1>10, SameMapsHas, SameMapsKeeps DEF Paired
  <1>13. MapsOnly(k, j, c)
    BY <1>9, <1>12 DEF MapsOnly
  <1> QED BY <1>11, <1>12, <1>13

\* handle_connection_closed
LEMMA ClosedKeeps ==
    ASSUME NEW k, HasMaps(k), NEW c \in Conns, MapsAgree(k)
    PROVE  LET j == HandleConnectionClosed(k, c)
           IN  /\ HasMaps(j)
               /\ MapsAgree(j)
               /\ Paired(k) => Paired(j)
               /\ MapsOnly(k, j, c)
               /\ j.conn_to_peer[c] = None
PROOF
  <1> DEFINE p  == k.conn_to_peer[c]
             k1 == [k EXCEPT !.conn_to_peer = [@ EXCEPT ![c] = None]]
             f  == ForgetPeer(k1, p)
             g  == [f EXCEPT !.peer_to_conn  = [@ EXCEPT ![p] = None],
                             !.pending_pings = [@ EXCEPT ![p] = None]]
             k2 == IF p = None \/ k.peer_to_conn[p] # c THEN k1
                   ELSE Emit(g, "ConnectionClosed", p, None)
             j  == ForgetConn(k2, c)
             own == p # None /\ k.peer_to_conn[p] = c
  <1>1. /\ HasMaps(k1)
        /\ k1.conn_to_peer = [k.conn_to_peer EXCEPT ![c] = None]
        /\ k1.peer_to_conn = k.peer_to_conn
    BY DEF HasMaps
  <1> HIDE DEF k1
  <1>2. SameMaps(k1, f) /\ HasMaps(f)
    BY <1>1, ForgetSame, SameMapsHas
  <1> HIDE DEF f
  <1>3. /\ HasMaps(g)
        /\ g.conn_to_peer = k1.conn_to_peer
        /\ g.peer_to_conn = [k.peer_to_conn EXCEPT ![p] = None]
    <2> HIDE DEF p
    <2> QED BY <1>1, <1>2 DEF SameMaps, HasMaps
  <1> HIDE DEF g
  <1>4. /\ HasMaps(k2)
        /\ k2.conn_to_peer = [k.conn_to_peer EXCEPT ![c] = None]
        /\ k2.peer_to_conn = IF own THEN [k.peer_to_conn EXCEPT ![p] = None] ELSE k.peer_to_conn
    <2> DEFINE e == Emit(g, "ConnectionClosed", p, None)
    <2>1. SameMaps(g, e) /\ HasMaps(e)
      BY <1>3, EmitSame, SameMapsHas
    <2> HIDE DEF e, p
    <2>2. CASE own
      BY <1>1, <1>3, <2>1, <2>2 DEF SameMaps, e
    <2>3. CASE ~own
      BY <1>1, <2>3
    <2> QED BY <2>2, <2>3
  <1> HIDE DEF k2
  <1>5. SameMaps(k2, j) /\ HasMaps(j)
    BY <1>4, ForgetSame, SameMapsHas
  <1>6. HandleConnectionClosed(k, c) = j
    BY DEF HandleConnectionClosed, j, k2, g, f, k1
  <1> HIDE DEF j
  <1>7. /\ j.conn_to_peer[c] = None
        /\ \A d \in Conns \ {c} : j.conn_to_peer[d] = k.conn_to_peer[d]
        /\ \A q \in PeerIds : j.peer_to_conn[q] = IF own /\ q = p THEN None ELSE k.peer_to_conn[q]
    <2> HIDE DEF p
    <2> QED BY <1>4, <1>5 DEF SameMaps, HasMaps
  <1>8. MapsAgree(j)
    <2> SUFFICES ASSUME NEW q \in PeerIds, j.peer_to_conn[q] # None
                 PROVE  j.conn_to_peer[j.peer_to_conn[q]] = q
      BY DEF MapsAgree
    <2>1. j.peer_to_conn[q] = k.peer_to_conn[q] /\ ~(own /\ q = p)
      BY <1>7
    <2>2. k.conn_to_peer[k.peer_to_conn[q]] = q /\ k.peer_to_conn[q] \in Conns /\ q # None
      BY <2>1, PeersAssumption DEF MapsAgree, HasMaps
    <2>3. k.peer_to_conn[q] # c
      BY <2>1, <2>2
    <2> QED BY <1>7, <2>1, <2>2, <2>3
  <1>9. Paired(k) => NoOrphan(j)
    <2> SUFFICES ASSUME Paired(k), NEW d \in Conns, j.conn_to_peer[d] # None
                 PROVE  j.peer_to_conn[j.conn_to_peer[d]] = d
      BY DEF NoOrphan
    <2>1. d # c /\ j.conn_to_peer[d] = k.conn_to_peer[d]
      BY <1>7
    <2>2. k.peer_to_conn[k.conn_to_peer[d]] = d /\ k.conn_to_peer[d] \in PeerIds
      BY <2>1 DEF Paired, NoOrphan, HasMaps
    <2> QED BY <1>7, <2>1, <2>2
  <1>10. Paired(k) => OwnPlaceholder(j)
    <2>1. None \notin Synthetics
      BY PeersAssumption DEF PeerIds
    <2> QED BY <1>7, <2>1 DEF Paired, OwnPlaceholder
  <1>11. MapsOnly(k, j, c)
    BY <1>7 DEF MapsOnly
  <1> QED BY <1>5, <1>6, <1>7, <1>8, <1>9, <1>10, <1>11 DEF Paired
\* upgrade_connection_identity keeps the maps in agreement.  It may orphan
\* another connection of the same peer, so Paired is not kept.
LEMMA UpgradeKeeps ==
    ASSUME NEW k, HasMaps(k), NEW c \in Conns, NEW new \in Peers, MapsAgree(k)
    PROVE  LET j == UpgradeConnectionIdentity(k, c, new)
           IN  HasMaps(j) /\ MapsAgree(j) /\ MapsOnly(k, j, c)
PROOF
  <1> DEFINE stale == k.conn_to_peer[c]
             m  == MigrateStale(k, stale, new)
             k1 == IF stale = None THEN k ELSE m
             k2 == MapConn(k1, c, new)
             k3 == [k2 EXCEPT !.established_peers = @ \cup {new}]
             k4 == Emit(k3, "ConnectionEstablished", new, None)
             k5 == TryEmitPeerReady(k4, new)
             k6 == QueueOpenProtocolStream(k5, new, "IdentifyInitiator")
  <1>1. new \in PeerIds /\ new # None /\ stale \in PeerIds \cup {None}
    BY PeersAssumption DEF PeerIds, HasMaps
  <1>2. CASE stale = new
    BY <1>2 DEF UpgradeConnectionIdentity, MapsOnly
  <1>3. CASE stale # new
    <2>1. /\ HasMaps(k1)
          /\ k1.conn_to_peer = k.conn_to_peer
          /\ \A q \in PeerIds : k1.peer_to_conn[q] = IF q = stale THEN None ELSE k.peer_to_conn[q]
      <3>1. CASE stale = None
        <4>1. \A q \in PeerIds : q # stale
          BY <3>1, PeersAssumption
        <4> HIDE DEF stale
        <4> QED BY <3>1, <4>1
      <3>2. CASE stale # None
        <4> HIDE DEF stale
        <4>1. /\ HasMaps(m)
              /\ m.conn_to_peer = k.conn_to_peer
              /\ m.peer_to_conn = [k.peer_to_conn EXCEPT ![stale] = None]
          BY <3>2, <1>1 DEF MigrateStale, HasMaps
        <4> HIDE DEF m
        <4> QED BY <3>2, <4>1, <1>1 DEF HasMaps
      <3> QED BY <3>1, <3>2
    <2> HIDE DEF k1
    <2>2. /\ HasMaps(k2)
          /\ k2.conn_to_peer = [k1.conn_to_peer EXCEPT ![c] = new]
          /\ k2.peer_to_conn = [k1.peer_to_conn EXCEPT ![new] = c]
      BY <1>1, <2>1, MapConnMaps
    <2> HIDE DEF k2
    <2>3. SameMaps(k2, k3) /\ HasMaps(k3)
      BY <2>2 DEF SameMaps, HasMaps
    <2> HIDE DEF k3
    <2>4. SameMaps(k2, k4) /\ HasMaps(k4)
      BY <2>3, EmitSame, SameMapsTrans, SameMapsHas
    <2> HIDE DEF k4
    <2>5. SameMaps(k2, k5) /\ HasMaps(k5)
      BY <2>4, TryReadySame, SameMapsTrans, SameMapsHas
    <2> HIDE DEF k5
    <2>6. SameMaps(k2, k6) /\ HasMaps(k6)
      BY <2>5, QueueOpenSame, SameMapsTrans, SameMapsHas
    <2>7. UpgradeConnectionIdentity(k, c, new) = k6
      BY <1>3 DEF UpgradeConnectionIdentity, k6, k5, k4, k3, k2, k1
    <2> HIDE DEF k6
    <2>8. /\ \A d \in Conns \ {c} : k6.conn_to_peer[d] = k.conn_to_peer[d]
          /\ k6.conn_to_peer[c] = new
          /\ \A q \in PeerIds \ {new} :
               k6.peer_to_conn[q] = IF q = stale THEN None ELSE k.peer_to_conn[q]
          /\ k6.peer_to_conn[new] = c
      <3> HIDE DEF stale
      <3> QED BY <1>1, <2>1, <2>2, <2>6 DEF SameMaps, HasMaps
    <2>9. MapsAgree(k6)
      <3> SUFFICES ASSUME NEW q \in PeerIds, k6.peer_to_conn[q] # None
                   PROVE  k6.conn_to_peer[k6.peer_to_conn[q]] = q
        BY DEF MapsAgree
      <3>1. CASE q = new
        BY <2>8, <3>1
      <3>2. CASE q # new
        <4>1. q # stale /\ k6.peer_to_conn[q] = k.peer_to_conn[q]
          BY <2>8, <3>2
        <4>2. k.conn_to_peer[k.peer_to_conn[q]] = q /\ k.peer_to_conn[q] \in Conns
          BY <4>1 DEF MapsAgree, HasMaps
        <4>3. k.peer_to_conn[q] # c
          BY <4>1, <4>2
        <4> QED BY <2>8, <4>1, <4>2, <4>3
      <3> QED BY <3>1, <3>2
    <2>10. MapsOnly(k, k6, c)
      BY <2>8 DEF MapsOnly
    <2> QED BY <2>6, <2>7, <2>9, <2>10
  <1> QED BY <1>2, <1>3

-----------------------------------------------------------------------------
(* The invariant.                                                          *)

\* A connection has a peer only between Connected and Closed.
MappedIsLive == \A c \in Conns : core.conn_to_peer[c] # None => Live(c)

\* The transport's side of the state.
WireOK ==
    /\ conns \in [Conns -> ConnStates]
    /\ remote \in [Conns -> Peers \cup {None}]
    /\ \A c \in Conns : conns[c] # "unused" => remote[c] \in Peers
    /\ AuthAtHandshake => \A c \in Conns : conns[c] # "unverified"

MapInv ==
    /\ HasMaps(core)
    /\ WireOK
    /\ MappedIsLive
    /\ MapsAgree(core)
    /\ AuthAtHandshake => Paired(core)

\* A step that leaves the connections as they are, and the maps too unless
\* it concerns a live connection, keeps the invariant.
LEMMA QuietStep ==
    ASSUME MapInv, UNCHANGED <<conns, remote>>,
           \/ SameMaps(core, core')
           \/ \E c \in Conns : Live(c) /\ AtMostEnsured(core, core', c)
    PROVE  MapInv'
PROOF
  <1>1. WireOK'
    BY DEF MapInv, WireOK
  <1>2. CASE SameMaps(core, core')
    <2>1. /\ HasMaps(core')
          /\ MapsAgree(core')
          /\ AuthAtHandshake => Paired(core')
          /\ core'.conn_to_peer = core.conn_to_peer
      BY <1>2, SameMapsHas, SameMapsKeeps DEF MapInv
    <2>2. MappedIsLive'
      BY <2>1 DEF MapInv, MappedIsLive, Live
    <2>3. MapsAgree(core)' /\ HasMaps(core)' /\ (AuthAtHandshake => Paired(core)')
      BY <2>1
    <2> QED BY <1>1, <2>2, <2>3 DEF MapInv
  <1>3. ASSUME NEW c \in Conns, Live(c), AtMostEnsured(core, core', c)
        PROVE  MapInv'
    <2>1. /\ HasMaps(core')
          /\ MapsAgree(core')
          /\ AuthAtHandshake => Paired(core')
          /\ MapsOnly(core, core', c)
      BY <1>3, EnsuredKeeps DEF MapInv
    <2>2. MappedIsLive'
      BY <1>3, <2>1 DEF MapInv, MappedIsLive, MapsOnly, Live
    <2>3. MapsAgree(core)' /\ HasMaps(core)' /\ (AuthAtHandshake => Paired(core)')
      BY <2>1
    <2> QED BY <1>1, <2>2, <2>3 DEF MapInv
  <1> QED BY <1>2, <1>3
\* Connected maps a connection that had no peer.
LEMMA ConnectedStep ==
    ASSUME MapInv, NEW c \in Conns, NEW p \in Peers, Connected(c, p)
    PROVE  MapInv'
PROOF
  <1>1. core.conn_to_peer[c] = None
    BY DEF MapInv, MappedIsLive, Live, Connected
  <1>2. conns' = [conns EXCEPT ![c] = IF AuthAtHandshake THEN "connected" ELSE "unverified"]
    BY DEF Connected
  <1>3. WireOK'
    <2>1. remote' = [remote EXCEPT ![c] = p]
      BY DEF Connected
    <2> QED BY <1>2, <2>1 DEF MapInv, WireOK, ConnStates
  <1>4. /\ HasMaps(core')
        /\ MapsAgree(core')
        /\ AuthAtHandshake => Paired(core')
        /\ MapsOnly(core, core', c)
    <2>1. CASE AuthAtHandshake
      <3>1. p # None
        BY PeersAssumption DEF PeerIds
      <3>2. core' = RegisterConnection(core, c, p)
        BY <2>1, <3>1 DEF Connected, HandleConnected
      <3> QED BY <1>1, <3>2, RegisterKeeps DEF MapInv
    <2>2. CASE ~AuthAtHandshake
      <3>1. core' = EnsurePeerIdForConn(core, c)
        BY <2>2 DEF Connected, HandleConnected
      <3>2. AtMostEnsured(core, core', c)
        BY <3>1, EnsureHas DEF MapInv
      <3> QED BY <2>2, <3>2, EnsuredKeeps DEF MapInv
    <2> QED BY <2>1, <2>2
  <1>5. MappedIsLive'
    BY <1>2, <1>4 DEF MapInv, WireOK, MappedIsLive, MapsOnly, Live
  <1>6. MapsAgree(core)' /\ HasMaps(core)' /\ (AuthAtHandshake => Paired(core)')
    BY <1>4
  <1> QED BY <1>3, <1>5, <1>6 DEF MapInv

\* PeerIdentityVerified never happens when the handshake authenticates.
LEMMA VerifiedStep ==
    ASSUME MapInv, NEW c \in Conns, PeerIdentityVerified(c)
    PROVE  MapInv'
PROOF
  <1>1. ~AuthAtHandshake
    BY DEF MapInv, WireOK, PeerIdentityVerified
  <1>2. conns' = [conns EXCEPT ![c] = "connected"] /\ remote' = remote /\ remote[c] \in Peers
    BY DEF MapInv, WireOK, PeerIdentityVerified
  <1>3. WireOK'
    BY <1>1, <1>2 DEF MapInv, WireOK, ConnStates
  <1>4. core' = UpgradeConnectionIdentity(core, c, remote[c])
    BY DEF PeerIdentityVerified
  <1>5. HasMaps(core') /\ MapsAgree(core') /\ MapsOnly(core, core', c)
    BY <1>2, <1>4, UpgradeKeeps DEF MapInv
  <1>6. MappedIsLive'
    BY <1>2, <1>5 DEF MapInv, WireOK, MappedIsLive, MapsOnly, Live
  <1>7. MapsAgree(core)' /\ HasMaps(core)'
    BY <1>5
  <1> QED BY <1>1, <1>3, <1>6, <1>7 DEF MapInv

\* Closed takes the connection off both maps.
LEMMA ClosedStep ==
    ASSUME MapInv, NEW c \in Conns, Closed(c)
    PROVE  MapInv'
PROOF
  <1>1. conns' = [conns EXCEPT ![c] = "closed"] /\ remote' = remote /\ Live(c)
    BY DEF Closed
  <1>2. WireOK'
    BY <1>1 DEF MapInv, WireOK, ConnStates, Live
  <1>3. core' = HandleConnectionClosed(core, c)
    BY DEF Closed
  <1>4. /\ HasMaps(core')
        /\ MapsAgree(core')
        /\ AuthAtHandshake => Paired(core')
        /\ MapsOnly(core, core', c)
        /\ core'.conn_to_peer[c] = None
    BY <1>3, ClosedKeeps DEF MapInv
  <1>5. MappedIsLive'
    BY <1>1, <1>4 DEF MapInv, WireOK, MappedIsLive, MapsOnly, Live
  <1>6. MapsAgree(core)' /\ HasMaps(core)' /\ (AuthAtHandshake => Paired(core)')
    BY <1>4
  <1> QED BY <1>2, <1>5, <1>6 DEF MapInv

\* StreamData, in each of the three hands the stream may be in.
LEMMA StreamDataStep ==
    ASSUME MapInv, NEW c \in Conns, NEW s, StreamData(c, s)
    PROVE  MapInv'
PROOF
  <1>1. Live(c) /\ UNCHANGED <<conns, remote>> /\ HasMaps(core)
    BY DEF StreamData, MapInv
  <1>2. AtMostEnsured(core, core', c)
    <2>1. CASE \E chunk \in Chunks : DataForOwner(c, s, chunk)
      BY <1>1, <2>1, DispatchEnsured DEF DataForOwner
    <2>2. ASSUME NEW rest, DataForListener(c, s, rest)
          PROVE  AtMostEnsured(core, core', c)
      <3>1. CASE \E protocol \in {"Ping", "Identify", "User"} :
                   core' = FeedInboundNegotiator(core, c, s, "negotiated", protocol, rest)
        BY <1>1, <3>1, FeedInboundEnsured
      <3>2. CASE core' = FeedInboundNegotiator(core, c, s, "not_available", None, None)
        BY <1>1, <3>2, FeedInboundEnsured
      <3>3. CASE core' = FeedInboundNegotiator(core, c, s, "error", None, None)
        BY <1>1, <3>3, FeedInboundEnsured
      <3> QED BY <2>2, <3>1, <3>2, <3>3 DEF DataForListener
    <2>3. ASSUME NEW rest, DataForDialer(c, s, rest)
          PROVE  AtMostEnsured(core, core', c)
      BY <1>1, <2>3, FeedOutboundEnsured DEF DataForDialer
    <2> QED BY <2>1, <2>2, <2>3 DEF StreamData
  <1> QED BY <1>1, <1>2, QuietStep

\* The other transport events leave connections and maps alone.
LEMMA StreamEventStep ==
    ASSUME MapInv, NEW c \in Conns, NEW s,
           \/ IncomingStream(c, s)
           \/ StreamRemoteWriteClosed(c, s)
           \/ StreamClosed(c, s)
           \/ TransportError(c)
    PROVE  MapInv'
PROOF
  <1>1. HasMaps(core)
    BY DEF MapInv
  <1>2. CASE IncomingStream(c, s)
    <2>1. SameMaps(core, core') BY <1>1, <1>2, IncomingSame DEF IncomingStream
    <2> QED BY <1>2, <2>1, QuietStep DEF IncomingStream
  <1>3. CASE StreamRemoteWriteClosed(c, s)
    <2>1. AtMostEnsured(core, core', c)
      BY <1>1, <1>3, RemoteClosedEnsured DEF StreamRemoteWriteClosed
    <2> QED BY <1>3, <2>1, QuietStep DEF StreamRemoteWriteClosed
  <1>4. CASE StreamClosed(c, s)
    <2>1. SameMaps(core, core') BY <1>1, <1>4, StreamClosedSame DEF StreamClosed
    <2> QED BY <1>4, <2>1, QuietStep DEF StreamClosed
  <1>5. CASE TransportError(c)
    <2>1. SameMaps(core, core') BY <1>1, <1>5, EmitSame DEF TransportError
    <2> QED BY <1>5, <2>1, QuietStep DEF TransportError
  <1> QED BY <1>2, <1>3, <1>4, <1>5

\* Executing an action changes at most the connection it closes.
LEMMA DispatchStep ==
    ASSUME MapInv, DispatchAction
    PROVE  MapInv'
PROOF
  <1> DEFINE a == Head(core.actions)
             k == PopAction(core)
  <1>1. SameMaps(core, k) /\ HasMaps(k)
    BY ActSame, SameMapsHas DEF MapInv
  <1>2. \A kind, p : SameMaps(core, EmitError(k, kind, p))
    BY <1>1, EmitSame, SameMapsTrans
  <1>3. \A c, s, t : /\ SameMaps(core, HandleStreamOpened(k, c, s, t))
                     /\ SameMaps(core, HandleOpenStreamFailed(k, t))
    BY <1>1, OpenedSame, SameMapsTrans
  <1> HIDE DEF k
  <1>4. remote' = remote
    BY DEF DispatchAction
  <1>5. CASE DispatchOpenStream(a)
    <2>1. SameMaps(core, core') /\ conns' = conns
      BY <1>3, <1>5 DEF DispatchOpenStream, k
    <2> QED BY <1>4, <2>1, QuietStep
  <1>6. CASE DispatchStreamAction(a)
    <2>1. SameMaps(core, core') /\ conns' = conns
      BY <1>1, <1>2, <1>6 DEF DispatchStreamAction, DispatchFails, k
    <2> QED BY <1>4, <2>1, QuietStep
  <1>7. CASE DispatchCloseConnection(a)
    <2>1. SameMaps(core, core')
      BY <1>1, <1>2, <1>7 DEF DispatchCloseConnection, DispatchFails, k
    <2>2. CASE conns' = conns
      BY <1>4, <2>1, <2>2, QuietStep
    <2>3. CASE Live(a.conn) /\ conns' = [conns EXCEPT ![a.conn] = "closing"]
      <3> HIDE DEF a
      <3>1. WireOK'
        BY <1>4, <2>3 DEF MapInv, WireOK, ConnStates, Live
      <3>2. /\ HasMaps(core')
            /\ MapsAgree(core')
            /\ AuthAtHandshake => Paired(core')
            /\ core'.conn_to_peer = core.conn_to_peer
        BY <2>1, SameMapsHas, SameMapsKeeps DEF MapInv
      <3>3. MappedIsLive'
        BY <2>3, <3>2 DEF MapInv, WireOK, MappedIsLive, Live
      <3>4. MapsAgree(core)' /\ HasMaps(core)' /\ (AuthAtHandshake => Paired(core)')
        BY <3>2
      <3> QED BY <3>1, <3>3, <3>4 DEF MapInv
    <2> QED BY <1>7, <2>2, <2>3 DEF DispatchCloseConnection
  <1>8. DispatchOpenStream(a) \/ DispatchStreamAction(a) \/ DispatchCloseConnection(a)
    BY Zenon DEF DispatchAction, a
  <1> QED BY <1>5, <1>6, <1>7, <1>8

\* BeginPoll, Tick, DeliverEvent and the application's calls.
LEMMA DriverStep ==
    ASSUME MapInv, BeginPoll \/ Tick \/ DeliverEvent \/ Call
    PROVE  MapInv'
PROOF
  <1>1. HasMaps(core) /\ SameMaps(core, core)
    BY DEF MapInv, SameMaps
  <1>2. CASE BeginPoll
    <2>1. SameMaps(core, core') BY <1>1, <1>2 DEF BeginPoll
    <2> QED BY <1>2, <2>1, QuietStep DEF BeginPoll
  <1>3. CASE Tick
    <2>1. SameMaps(core, core') BY <1>1, <1>3, CallsSame DEF Tick
    <2> QED BY <1>3, <2>1, QuietStep DEF Tick
  <1>4. CASE DeliverEvent
    <2>1. SameMaps(core, core') BY <1>1, <1>4, ActSame DEF DeliverEvent
    <2> QED BY <1>4, <2>1, QuietStep DEF DeliverEvent
  <1>5. CASE Call
    <2>1. SameMaps(core, core')
      BY <1>1, <1>5, CallsSame
         DEF Call, AppPing, AppOpenUserStream, AppDisconnect, AppUserStreamCall
    <2>2. UNCHANGED <<conns, remote>>
      BY <1>5 DEF Call, AppPing, AppOpenUserStream, AppDisconnect, AppUserStreamCall
    <2> QED BY <2>1, <2>2, QuietStep
  <1> QED BY <1>2, <1>3, <1>4, <1>5

\* MapInv is an inductive invariant of the swarm.
THEOREM MapInvariant == Spec => []MapInv
PROOF
  <1>1. Init => MapInv
    <2> SUFFICES ASSUME Init PROVE MapInv
      OBVIOUS
    <2>1. /\ core.conn_to_peer = [c \in Conns |-> None]
          /\ core.peer_to_conn = [p \in PeerIds |-> None]
          /\ {"conn_to_peer", "peer_to_conn"} \subseteq DOMAIN core
      BY DEF Init, NewCore
    <2>2. WireOK
      BY DEF Init, WireOK, ConnStates
    <2>3. None \notin Synthetics
      BY PeersAssumption DEF PeerIds
    <2> QED BY <2>1, <2>2, <2>3
            DEF MapInv, HasMaps, MappedIsLive, MapsAgree, Paired, NoOrphan, OwnPlaceholder
  <1>2. MapInv /\ [Next]_vars => MapInv'
    <2> SUFFICES ASSUME MapInv, [Next]_vars PROVE MapInv'
      OBVIOUS
    <2>1. CASE Feed
      BY <2>1, ConnectedStep, VerifiedStep, ClosedStep, StreamDataStep, StreamEventStep DEF Feed
    <2>2. CASE DispatchAction
      BY <2>2, DispatchStep
    <2>3. CASE BeginPoll \/ Tick \/ DeliverEvent \/ Call
      BY <2>3, DriverStep
    <2>4. CASE UNCHANGED vars
      <3>1. SameMaps(core, core') BY <2>4 DEF vars, SameMaps
      <3> QED BY <2>4, <3>1, QuietStep DEF vars
    <2> QED BY <2>1, <2>2, <2>3, <2>4 DEF Next
  <1> QED BY <1>1, <1>2, PTL DEF Spec

\* peer_to_conn never points at a connection that conn_to_peer gives to
\* another peer, or to none: the debug_assert of queue_open_protocol_stream
\* cannot fail, with either driver and whenever identities arrive.
THEOREM MapsStayInAgreement == Spec => []PeersKeepTheirConnection
PROOF
  <1>1. MapInv => PeersKeepTheirConnection
    BY DEF MapInv, PeersKeepTheirConnection
  <1> QED BY <1>1, MapInvariant, PTL

\* With a transport that authenticates in the handshake, as QUIC does, no
\* connection is orphaned: "Last connection wins" leaves just that one.
THEOREM LastConnectionWins == Spec => [](AuthAtHandshake => NoOrphanedConnection)
PROOF
  <1>1. MapInv => (AuthAtHandshake => NoOrphanedConnection)
    BY DEF MapInv, Paired, NoOrphanedConnection
  <1> QED BY <1>1, MapInvariant, PTL

-----------------------------------------------------------------------------
(* The streams.                                                             *)

\* What the application can make sense of: an event about a peer or a stream
\* names it.
SwarmHeard ==
    {e \in SwarmEvent :
       /\ e.kind \in {"ConnectionEstablished", "ConnectionClosed", "PeerReady",
                      "UserStreamReady", "UserStreamClosed"} => e.peer # None
       /\ e.kind \in {"UserStreamReady", "UserStreamClosed"} => e.stream # None}

\* A core of the right type, with events that say whom they are about.
Typed(k) == k \in CoreState /\ k.events \in Seq(SwarmHeard)

\* The actions of k name streams of O only.
ActionsIn(k, O) ==
    \A i \in DOMAIN k.actions :
      k.actions[i].stream # None => <<k.actions[i].conn, k.actions[i].stream>> \in O

\* One of the three tables has the stream.
InTable(k, cs) ==
    \/ cs \in k.inbound_negotiators
    \/ k.outbound_negotiators[cs] # None
    \/ k.stream_owner[cs] # None

\* The tables of k hold streams of O only.
TablesIn(k, O) == \A cs \in StreamKeys : InTable(k, cs) => cs \in O

\* Streams are being opened on connections of L only.
OpensIn(k, L) == \A o \in k.pending_opens : o.conn \in L

\* What every operator of SwarmCore keeps.
Good(k, O, L) == Typed(k) /\ ActionsIn(k, O) /\ TablesIn(k, O) /\ OpensIn(k, L)

\* j has the tables of k.
SameTables(k, j) ==
    /\ j.stream_owner = k.stream_owner
    /\ j.inbound_negotiators = k.inbound_negotiators
    /\ j.outbound_negotiators = k.outbound_negotiators
    /\ j.pending_opens = k.pending_opens

\* Everything k keeps of peer p is the same in j.
SamePeer(k, j, p) ==
    /\ j.ping[p] = k.ping[p]
    /\ j.identify[p] = k.identify[p]
    /\ j.pending_pings[p] = k.pending_pings[p]
    /\ j.peer_info[p] = k.peer_info[p]

\* j is k but for its queues and its lists of peers.
Outputs(k, j, O, L) ==
    /\ Good(j, O, L)
    /\ SameTables(k, j)
    /\ \A p \in PeerIds : SamePeer(k, j, p)

\* A protocol's state of a peer afterwards: no stream that it did not know.
Shrinks(st, st2) ==
    /\ st2.outbound_stream \in {st.outbound_stream, None}
    /\ st2.inbound_streams \subseteq st.inbound_streams

\* The handlers of peer p ran: no stream of it is new to them.
Acts(k, j, p, O, L) ==
    /\ Good(j, O, L)
    /\ SameTables(k, j)
    /\ \A q \in PeerIds : q # p => SamePeer(k, j, q)
    /\ Shrinks(k.ping[p], j.ping[p])
    /\ Shrinks(k.identify[p], j.identify[p])

-----------------------------------------------------------------------------
(* How the relations compose.                                              *)

\* Outputs composes.
LEMMA OutputsTrans ==
    ASSUME NEW k, NEW j, NEW l, NEW O, NEW L, Outputs(k, j, O, L), Outputs(j, l, O, L)
    PROVE  Outputs(k, l, O, L)
BY DEF Outputs, SameTables, SamePeer

\* Queues that grow are a special case of a handler that ran.
LEMMA OutputsAct ==
    ASSUME NEW k, NEW j, NEW p \in PeerIds, NEW O, NEW L, Outputs(k, j, O, L)
    PROVE  Acts(k, j, p, O, L)
BY DEF Outputs, Acts, SamePeer, Shrinks

\* Two handlers of the same peer.
LEMMA ActsTrans ==
    ASSUME NEW k, NEW j, NEW l, NEW p \in PeerIds, NEW O, NEW L,
           Acts(k, j, p, O, L), Acts(j, l, p, O, L)
    PROVE  Acts(k, l, p, O, L)
<1>1. SameTables(k, l)
  BY DEF Acts, SameTables
<1>2. Shrinks(k.ping[p], l.ping[p]) /\ Shrinks(k.identify[p], l.identify[p])
  BY DEF Acts, Shrinks
<1>3. ASSUME NEW q \in PeerIds, q # p PROVE SamePeer(k, l, q)
  BY <1>3 DEF Acts, SamePeer
<1> QED
  BY <1>1, <1>2, <1>3 DEF Acts

\* Nothing happened.
LEMMA OutputsRefl ==
    ASSUME NEW k, NEW O, NEW L, Good(k, O, L)
    PROVE  Outputs(k, k, O, L)
BY DEF Outputs, SameTables, SamePeer

\* More streams and connections to name.
LEMMA GoodGrows ==
    ASSUME NEW k, NEW O, NEW L, Good(k, O, L), NEW O2, O \subseteq O2, NEW L2, L \subseteq L2
    PROVE  Good(k, O2, L2)
BY DEF Good, ActionsIn, TablesIn, OpensIn

\* The tables of k are good in any core that shares them.
LEMMA SameGood ==
    ASSUME NEW O, NEW L, NEW k, Good(k, O, L), NEW j, Typed(j), ActionsIn(j, O), SameTables(k, j)
    PROVE  Good(j, O, L)
<1>1. TablesIn(j, O)
  <2> SUFFICES ASSUME NEW cs \in StreamKeys, InTable(j, cs) PROVE cs \in O
    BY DEF TablesIn
  <2>1. InTable(k, cs)
    BY DEF InTable, SameTables
  <2> QED
    BY <2>1 DEF Good, TablesIn
<1>2. OpensIn(j, L)
  BY DEF Good, OpensIn, SameTables
<1> QED
  BY <1>1, <1>2 DEF Good

-----------------------------------------------------------------------------
(* Queues.                                                                 *)

\* An event is queued.
LEMMA EmitOut ==
    ASSUME NEW O, NEW L, NEW k, Good(k, O, L), NEW kind, NEW p, NEW s,
           Event(kind, p, s) \in SwarmHeard
    PROVE  Outputs(k, Emit(k, kind, p, s), O, L)
<1> DEFINE j == Emit(k, kind, p, s)
<1>1. k \in CoreState /\ k.events \in Seq(SwarmHeard)
  BY DEF Good, Typed
<1>2. Append(k.events, Event(kind, p, s)) \in Seq(SwarmHeard)
  BY <1>1
<1>3. Append(k.events, Event(kind, p, s)) \in Seq(SwarmEvent)
  BY <1>1 DEF SwarmHeard, CoreState
<1> PICK es : es = Append(k.events, Event(kind, p, s)) OBVIOUS
<1>4. j = [k EXCEPT !.events = es]
  BY DEF Emit
<1>5. j \in CoreState
  BY <1>1, <1>3, <1>4 DEF CoreState
<1>6. /\ j.events = es /\ j.actions = k.actions /\ SameTables(k, j)
      /\ \A q \in PeerIds : SamePeer(k, j, q)
  BY <1>1, <1>4 DEF CoreState, SameTables, SamePeer
<1> HIDE DEF j
<1>7. Typed(j)
  BY <1>2, <1>5, <1>6 DEF Typed
<1>8. ActionsIn(j, O)
  BY <1>6 DEF Good, ActionsIn
<1> QED
  BY <1>7, <1>8, <1>6, SameGood DEF Outputs, j

\* emit_error: errors may name no peer.
LEMMA ErrorOut ==
    ASSUME NEW O, NEW L, NEW k, Good(k, O, L), NEW kind \in ErrorKinds, NEW p \in PeerIds \cup {None}
    PROVE  Outputs(k, EmitError(k, kind, p), O, L)
<1>1. Event(kind, p, None) \in SwarmHeard
  BY DEF Event, SwarmHeard, SwarmEvent, EventKinds, ErrorKinds
<1> QED
  BY <1>1, EmitOut DEF EmitError

\* The actions that ask nothing back.
StreamActions == {"SendStream", "CloseStreamWrite", "ResetStream", "CloseConnection"}

\* An action on a stream of its connection, or on none, is queued.
LEMMA ActOut ==
    ASSUME NEW O, NEW L, NEW k, Good(k, O, L), NEW kind \in StreamActions,
           NEW c \in Conns, NEW s \in StreamIds \cup {None}, s # None => <<c, s>> \in O
    PROVE  Outputs(k, Act(k, kind, c, s), O, L)
<1> DEFINE j == Act(k, kind, c, s)
           a == StreamAction(kind, c, s)
<1>1. k \in CoreState /\ k.actions \in Seq(SwarmAction) /\ a \in SwarmAction
  BY DEF Good, Typed, CoreState, StreamAction, SwarmAction, StreamActions
<1>2. a.conn = c /\ a.stream = s
  BY DEF StreamAction
<1> HIDE DEF a
<1> PICK es : es = Append(k.actions, a) OBVIOUS
<1>3. /\ es \in Seq(SwarmAction)
      /\ \A i \in DOMAIN es : es[i] = a \/ (i \in DOMAIN k.actions /\ es[i] = k.actions[i])
  BY <1>1, AppendProperties
<1>4. j = [k EXCEPT !.actions = es]
  BY DEF Act, a
<1>5. j \in CoreState
  BY <1>1, <1>3, <1>4 DEF CoreState
<1>6. /\ j.events = k.events /\ j.actions = es /\ SameTables(k, j)
      /\ \A q \in PeerIds : SamePeer(k, j, q)
  BY <1>1, <1>4 DEF CoreState, SameTables, SamePeer
<1> HIDE DEF j
<1>7. ActionsIn(j, O)
  BY <1>2, <1>3, <1>6 DEF Good, ActionsIn
<1>8. Typed(j)
  BY <1>1, <1>5, <1>6 DEF Typed, Good
<1> QED
  BY <1>6, <1>7, <1>8, SameGood DEF Outputs, j

\* poll_output
LEMMA PopOut ==
    ASSUME NEW O, NEW L, NEW k, Good(k, O, L)
    PROVE  /\ k.actions # << >> => Outputs(k, PopAction(k), O, L)
           /\ k.events # << >> => Outputs(k, PopEvent(k), O, L)
<1>1. /\ k \in CoreState /\ k.actions \in Seq(SwarmAction) /\ k.events \in Seq(SwarmHeard)
      /\ k.events \in Seq(SwarmEvent)
  BY DEF Good, Typed, CoreState
<1>2. ASSUME k.actions # << >> PROVE Outputs(k, PopAction(k), O, L)
  <2> DEFINE j == PopAction(k)
  <2> PICK es : es = Tail(k.actions) OBVIOUS
  <2>1. /\ es \in Seq(SwarmAction)
        /\ \A i \in DOMAIN es : i + 1 \in DOMAIN k.actions /\ es[i] = k.actions[i + 1]
    BY <1>1, <1>2
  <2>2. j = [k EXCEPT !.actions = es]
    BY DEF PopAction
  <2>3. j \in CoreState
    BY <1>1, <2>1, <2>2 DEF CoreState
  <2>4. /\ j.events = k.events /\ j.actions = es /\ SameTables(k, j)
        /\ \A q \in PeerIds : SamePeer(k, j, q)
    BY <1>1, <2>2 DEF CoreState, SameTables, SamePeer
  <2> HIDE DEF j
  <2>5. ActionsIn(j, O)
    BY <2>1, <2>4 DEF Good, ActionsIn
  <2>6. Typed(j)
    BY <1>1, <2>3, <2>4 DEF Typed
  <2> QED
    BY <2>4, <2>5, <2>6, SameGood DEF Outputs, j
<1>3. ASSUME k.events # << >> PROVE Outputs(k, PopEvent(k), O, L)
  <2> DEFINE j == PopEvent(k)
  <2> PICK es : es = Tail(k.events) OBVIOUS
  <2>1. es \in Seq(SwarmEvent) /\ es \in Seq(SwarmHeard)
    BY <1>1, <1>3
  <2>2. j = [k EXCEPT !.events = es]
    BY DEF PopEvent
  <2>3. j \in CoreState
    BY <1>1, <2>1, <2>2 DEF CoreState
  <2>4. /\ j.events = es /\ j.actions = k.actions /\ SameTables(k, j)
        /\ \A q \in PeerIds : SamePeer(k, j, q)
    BY <1>1, <2>2 DEF CoreState, SameTables, SamePeer
  <2> HIDE DEF j
  <2>5. Typed(j)
    BY <2>1, <2>3, <2>4 DEF Typed
  <2>6. ActionsIn(j, O)
    BY <2>4 DEF Good, ActionsIn
  <2> QED
    BY <2>4, <2>5, <2>6, SameGood DEF Outputs, j
<1> QED
  BY <1>2, <1>3

-----------------------------------------------------------------------------
(* Lookups and the protocols.                                              *)

\* established_peer_for_conn
LEMMA EstablishedType ==
    ASSUME NEW k \in CoreState, NEW c \in Conns
    PROVE  EstablishedPeerForConn(k, c) \in PeerIds \cup {None}
BY DEF EstablishedPeerForConn, CoreState

\* The lookup finds a connection that owns the stream, or none.
LEMMA OwningConn ==
    ASSUME NEW k, NEW p, NEW s, NEW kind, NEW c, c = ConnForOwnedStream(k, p, s, kind)
    PROVE  c = None \/ c \in OwningConns(k, p, s, kind)
<1> DEFINE S == OwningConns(k, p, s, kind)
           R == {ss \in Nat \X Nat : ss[1] < ss[2]}
<1>1. CASE S = {}
  BY <1>1 DEF ConnForOwnedStream
<1>2. CASE S # {}
  <2>1. S \subseteq Nat
    BY ConnsAssumption DEF OwningConns
  <2>2. IsWellFoundedOn(R, Nat)
    <3>1. OpToRel(<, Nat) = R
      BY Zenon DEF OpToRel
    <3> QED
      BY <3>1, NatLessThanWellFounded, Zenon
  <2>3. PICK x \in S : \A y \in S : ~(<<y, x>> \in R)
    <3> HIDE DEF S, R
    <3> QED
      BY <1>2, <2>1, <2>2, WFMin
  <2> HIDE DEF S
  <2>4. ASSUME NEW d \in S PROVE x <= d
    <3>1. x \in Nat /\ d \in Nat
      BY <2>1
    <3>2. ~(<<d, x>> \in R)
      BY <2>3
    <3> QED
      BY <3>1, <3>2
  <2>5. (CHOOSE m \in S : \A d \in S : m <= d) \in S
    BY <2>3, <2>4
  <2> QED
    BY <1>2, <2>5 DEF ConnForOwnedStream, S
<1> QED
  BY <1>1, <1>2

\* What a handler of the ping protocol may return.
PingResult(st, r) ==
    /\ r.st \in Ping!PeerPingState
    /\ r.actions \in Seq(Ping!PingAction)
    /\ r.events \in Seq(Ping!PingEvent)

\* The messages of the ping protocol have their types.
LEMMA PingMsg ==
    ASSUME NEW p \in PeerIds, NEW s \in StreamIds
    PROVE  /\ \A kind \in Ping!EventKinds : <<Ping!Msg(kind, p, s)>> \in Seq(Ping!PingEvent)
           /\ \A kind \in Ping!ActionKinds : <<Ping!Msg(kind, p, s)>> \in Seq(Ping!PingAction)
           /\ << >> \in Seq(Ping!PingEvent) /\ << >> \in Seq(Ping!PingAction)
<1>1. \A kind \in Ping!EventKinds : Ping!Msg(kind, p, s) \in Ping!PingEvent
  BY DEF Ping!Msg, Ping!PingEvent
<1>2. \A kind \in Ping!ActionKinds : Ping!Msg(kind, p, s) \in Ping!PingAction
  BY DEF Ping!Msg, Ping!PingAction
<1> QED
  BY <1>1, <1>2

\* The results that forget at most, by their shape.
LEMMA PingShapes ==
    ASSUME NEW st, NEW x \in Ping!PeerPingState, Shrinks(st, x), NEW p \in PeerIds,
           NEW s \in StreamIds, NEW r,
           \/ r = Ping!Violation(x, p, s)
           \/ r = Ping!Quiet(x)
           \/ r = Ping!Done(x, <<Ping!Msg("Send", p, s)>>, << >>)
           \/ \E kind \in Ping!EventKinds : r = Ping!Done(x, << >>, <<Ping!Msg(kind, p, s)>>)
    PROVE  PingResult(st, r) /\ Shrinks(st, r.st)
<1>0. /\ "ProtocolViolation" \in Ping!EventKinds
      /\ {"Send", "ResetStream"} \subseteq Ping!ActionKinds
  BY DEF Ping!EventKinds, Ping!ActionKinds
<1>1. CASE r = Ping!Violation(x, p, s)
  BY <1>0, <1>1, PingMsg DEF PingResult, Ping!Violation, Ping!Done
<1>2. CASE r = Ping!Quiet(x)
  BY <1>2, PingMsg DEF PingResult, Ping!Quiet, Ping!Done
<1>3. CASE r = Ping!Done(x, <<Ping!Msg("Send", p, s)>>, << >>)
  BY <1>0, <1>3, PingMsg DEF PingResult, Ping!Done
<1>4. ASSUME NEW kind \in Ping!EventKinds, r = Ping!Done(x, << >>, <<Ping!Msg(kind, p, s)>>)
      PROVE  PingResult(st, r) /\ Shrinks(st, r.st)
  BY <1>4, PingMsg DEF PingResult, Ping!Done
<1> QED
  BY <1>1, <1>2, <1>3, <1>4

\* register_outbound_stream and register_inbound_stream
LEMMA PingRegisters ==
    ASSUME NEW st \in Ping!PeerPingState, NEW p \in PeerIds, NEW s \in StreamIds
    PROVE  /\ LET r == Ping!RegisterOutboundStream(st, p, s)
              IN  /\ PingResult(st, r) /\ r.st.inbound_streams = st.inbound_streams
                  /\ r.ok => r.st.outbound_stream = s
                  /\ r.ok => st.outbound_stream \in {None, s}
                  /\ ~r.ok => r.st = st
           /\ LET r == Ping!RegisterInboundStream(st, p, s)
              IN  /\ PingResult(st, r) /\ r.st.outbound_stream = st.outbound_stream
                  /\ r.st.inbound_streams \subseteq st.inbound_streams \cup {s}
<1>0. /\ {"OutboundStreamRegistered", "StreamLimitExceeded", "InboundStreamAccepted"} \subseteq Ping!EventKinds
      /\ "ResetStream" \in Ping!ActionKinds
  BY DEF Ping!EventKinds, Ping!ActionKinds
<1>1. LET r == Ping!RegisterOutboundStream(st, p, s)
      IN  /\ PingResult(st, r) /\ r.st.inbound_streams = st.inbound_streams
          /\ r.ok => r.st.outbound_stream = s
          /\ r.ok => st.outbound_stream \in {None, s}
          /\ ~r.ok => r.st = st
  <2> DEFINE st2 == [st EXCEPT !.tracked = TRUE, !.outbound_stream = s]
  <2>1. /\ st2 \in Ping!PeerPingState /\ st2.outbound_stream = s
        /\ st2.inbound_streams = st.inbound_streams
    BY DEF Ping!PeerPingState
  <2> HIDE DEF st2
  <2> QED
    BY <1>0, <2>1, PingMsg
    DEF PingResult, Ping!RegisterOutboundStream, Ping!Done, Ping!Quiet, Ping!Refused, st2
<1>2. LET r == Ping!RegisterInboundStream(st, p, s)
      IN  /\ PingResult(st, r) /\ r.st.outbound_stream = st.outbound_stream
          /\ r.st.inbound_streams \subseteq st.inbound_streams \cup {s}
  <2> DEFINE st2 == [st EXCEPT !.tracked = TRUE, !.inbound_streams = @ \cup {s}]
  <2>1. /\ st2 \in Ping!PeerPingState /\ st2.outbound_stream = st.outbound_stream
        /\ st2.inbound_streams = st.inbound_streams \cup {s}
    BY DEF Ping!PeerPingState
  <2> HIDE DEF st2
  <2> QED
    BY <1>0, <2>1, PingMsg
    DEF PingResult, Ping!RegisterInboundStream, Ping!Done, Ping!Quiet, Ping!Refused, st2
<1> QED
  BY <1>1, <1>2

\* send_ping and close_outbound_stream_write
LEMMA PingSends ==
    ASSUME NEW st \in Ping!PeerPingState, NEW p \in PeerIds, NEW payload \in Payloads
    PROVE  LET r == Ping!SendPing(st, p, payload)
           IN  PingResult(st, r) /\ Shrinks(st, r.st)
<1> DEFINE pend == [payload |-> payload, age |-> 0]
           st2 == [st EXCEPT !.pending_ping = pend]
<1>1. pend \in Ping!PendingPing
  BY DEF Ping!PendingPing, Ping!AgeCap
<1> HIDE DEF pend
<1>2. /\ st2 \in Ping!PeerPingState /\ st2.outbound_stream = st.outbound_stream
      /\ st2.inbound_streams = st.inbound_streams
  BY <1>1 DEF Ping!PeerPingState
<1> HIDE DEF st2
<1>3. st.outbound_stream # None => st.outbound_stream \in StreamIds
  BY DEF Ping!PeerPingState
<1>4. "Send" \in Ping!ActionKinds /\ << >> \in Seq(Ping!PingAction) /\ << >> \in Seq(Ping!PingEvent)
  BY DEF Ping!ActionKinds
<1> QED
  BY <1>2, <1>3, <1>4, PingMsg
  DEF PingResult, Shrinks, Ping!SendPing, Ping!Done, Ping!Refused, st2, pend

\* on_stream_data
LEMMA PingReceives ==
    ASSUME NEW st \in Ping!PeerPingState, NEW p \in PeerIds, NEW s \in StreamIds,
           NEW len \in Nat, NEW payload
    PROVE  LET r == Ping!OnStreamData(st, p, s, len, payload)
           IN  PingResult(st, r) /\ Shrinks(st, r.st)
<1> DEFINE buf == st.recv_bufs[s] + len
           emptied == [st EXCEPT !.recv_bufs = [@ EXCEPT ![s] = 0]]
           filled == [st EXCEPT !.recv_bufs = [@ EXCEPT ![s] = buf]]
           taken == [emptied EXCEPT !.pending_ping = None]
           Fits(x) == x \in Ping!PeerPingState /\ Shrinks(st, x)
           r == Ping!OnStreamData(st, p, s, len, payload)
<1>0. /\ {"RttMeasured", "ProtocolViolation"} \subseteq Ping!EventKinds
      /\ {"Send", "ResetStream"} \subseteq Ping!ActionKinds
  BY DEF Ping!EventKinds, Ping!ActionKinds
<1>1. st.recv_bufs[s] \in Nat /\ 0 \in 0 .. PayloadLen - 1
  BY CorePayloadAssumption DEF Ping!PeerPingState
<1>2. Fits(emptied) /\ Fits(st)
  BY <1>1 DEF Ping!PeerPingState, Shrinks
<1>3. buf < PayloadLen => Fits(filled)
  BY <1>1, CorePayloadAssumption DEF Ping!PeerPingState, Shrinks
<1>4. Fits(taken)
  <2>1. emptied \in Ping!PeerPingState /\ Shrinks(st, emptied)
    BY <1>2
  <2> HIDE DEF emptied
  <2> QED
    BY <2>1 DEF Ping!PeerPingState, Shrinks
<1> HIDE DEF taken
<1>5. \/ \E x \in {st, emptied, taken} : r = Ping!Violation(x, p, s)
      \/ buf < PayloadLen /\ r = Ping!Quiet(filled)
      \/ r = Ping!Done(taken, << >>, <<Ping!Msg("RttMeasured", p, s)>>)
      \/ r = Ping!Done(emptied, <<Ping!Msg("Send", p, s)>>, << >>)
  <2> HIDE DEF emptied, filled
  <2>1. \/ r = Ping!Violation(st, p, s) \/ r = Ping!Violation(emptied, p, s)
        \/ buf < PayloadLen /\ r = Ping!Quiet(filled)
        \/ r = Ping!ProcessCompletePayload(emptied, p, s, payload)
    BY DEF Ping!OnStreamData, emptied, filled
  <2>2. \/ Ping!ProcessCompletePayload(emptied, p, s, payload) = Ping!Violation(taken, p, s)
        \/ Ping!ProcessCompletePayload(emptied, p, s, payload)
             = Ping!Done(taken, << >>, <<Ping!Msg("RttMeasured", p, s)>>)
        \/ Ping!ProcessCompletePayload(emptied, p, s, payload)
             = Ping!Done(emptied, <<Ping!Msg("Send", p, s)>>, << >>)
    BY DEF Ping!ProcessCompletePayload, taken
  <2> QED
    BY <2>1, <2>2
<1> HIDE DEF emptied, filled, r
<1>6. PingResult(st, r) /\ Shrinks(st, r.st)
  <2>1. CASE \E x \in {st, emptied, taken} : r = Ping!Violation(x, p, s)
    BY <1>2, <1>4, <2>1, PingShapes
  <2>2. CASE buf < PayloadLen /\ r = Ping!Quiet(filled)
    BY <1>3, <2>2, PingShapes
  <2>3. CASE r = Ping!Done(taken, << >>, <<Ping!Msg("RttMeasured", p, s)>>)
    BY <1>0, <1>4, <2>3, PingShapes
  <2>4. CASE r = Ping!Done(emptied, <<Ping!Msg("Send", p, s)>>, << >>)
    BY <1>2, <2>4, PingShapes
  <2> QED
    BY <1>5, <2>1, <2>2, <2>3, <2>4
<1> QED
  BY <1>6 DEF r

\* on_stream_remote_write_closed, on_stream_closed and on_tick
LEMMA PingEnds ==
    ASSUME NEW st \in Ping!PeerPingState, NEW p \in PeerIds, NEW s \in StreamIds
    PROVE  /\ LET r == Ping!OnStreamRemoteWriteClosed(st, p, s)
              IN  PingResult(st, r) /\ Shrinks(st, r.st)
           /\ LET r == Ping!OnStreamClosed(st, s)
              IN  /\ PingResult(st, r) /\ Shrinks(st, r.st)
                  /\ ~Ping!IsKnown(r.st, s)
           /\ st.outbound_stream # None =>
                LET r == Ping!OnTick(st, p)
                IN  PingResult(st, r) /\ Shrinks(st, r.st)
<1> DEFINE bufs == [st.recv_bufs EXCEPT ![s] = 0]
           cleared == [st EXCEPT !.outbound_stream = None, !.pending_ping = None,
                                 !.recv_bufs = bufs]
           dropped == [st EXCEPT !.inbound_streams = @ \ {s}, !.recv_bufs = bufs]
           gone == [st EXCEPT !.inbound_streams = @ \ {s},
                              !.recv_bufs       = [@ EXCEPT ![s] = 0],
                              !.outbound_stream = IF @ = s THEN None ELSE @,
                              !.pending_ping    = IF st.outbound_stream = s THEN None ELSE @]
           Fits(x) == x \in Ping!PeerPingState /\ Shrinks(st, x)
<1>0. /\ {"OutboundStreamClosed", "ProtocolViolation", "Timeout"} \subseteq Ping!EventKinds
      /\ "ResetStream" \in Ping!ActionKinds
  BY DEF Ping!EventKinds, Ping!ActionKinds
<1>1. bufs \in [StreamIds -> 0 .. PayloadLen - 1]
  BY CorePayloadAssumption DEF Ping!PeerPingState
<1> HIDE DEF bufs
<1>2. Fits(cleared) /\ Fits(dropped) /\ Fits(st)
  BY <1>1 DEF Ping!PeerPingState, Shrinks
<1>3. Fits(gone) /\ ~Ping!IsKnown(gone, s)
  <2>1. gone = [st EXCEPT !.inbound_streams = @ \ {s}, !.recv_bufs = bufs,
                          !.outbound_stream = IF @ = s THEN None ELSE @,
                          !.pending_ping    = IF st.outbound_stream = s THEN None ELSE @]
    BY DEF bufs
  <2> HIDE DEF gone
  <2> QED
    BY <1>1, <2>1, CoreStreamsAssumption DEF Ping!PeerPingState, Shrinks, Ping!IsKnown
<1>4. LET r == Ping!OnStreamRemoteWriteClosed(st, p, s)
      IN  PingResult(st, r) /\ Shrinks(st, r.st)
  <2> DEFINE r == Ping!OnStreamRemoteWriteClosed(st, p, s)
  <2> HIDE DEF cleared, dropped
  <2>1. r \in {Ping!Quiet(dropped), Ping!Quiet(st), Ping!Violation(cleared, p, s),
               Ping!Done(cleared, << >>, <<Ping!Msg("OutboundStreamClosed", p, s)>>)}
    BY DEF Ping!OnStreamRemoteWriteClosed, cleared, dropped, bufs
  <2> HIDE DEF r
  <2>2. CASE r \in {Ping!Quiet(dropped), Ping!Quiet(st)}
    BY <1>2, <2>2, PingShapes DEF r
  <2>3. CASE r = Ping!Violation(cleared, p, s)
    BY <1>2, <2>3, PingShapes DEF r
  <2>4. CASE r = Ping!Done(cleared, << >>, <<Ping!Msg("OutboundStreamClosed", p, s)>>)
    BY <1>0, <1>2, <2>4, PingShapes DEF r
  <2> QED
    BY <2>1, <2>2, <2>3, <2>4
<1>5. LET r == Ping!OnStreamClosed(st, s)
      IN  /\ PingResult(st, r) /\ Shrinks(st, r.st)
          /\ ~Ping!IsKnown(r.st, s)
  <2> HIDE DEF gone
  <2> QED
    BY <1>3, PingMsg DEF PingResult, Ping!OnStreamClosed, Ping!Quiet, Ping!Done, gone
<1>6. ASSUME st.outbound_stream # None
      PROVE  LET r == Ping!OnTick(st, p) IN PingResult(st, r) /\ Shrinks(st, r.st)
  <2> PICK o \in StreamIds : o = st.outbound_stream
    BY <1>6 DEF Ping!PeerPingState
  <2> DEFINE b == [st.recv_bufs EXCEPT ![o] = 0]
             x == [st EXCEPT !.outbound_stream = None, !.pending_ping = None,
                             !.recv_bufs = b]
  <2>0. b \in [StreamIds -> 0 .. PayloadLen - 1]
    BY CorePayloadAssumption DEF Ping!PeerPingState
  <2> HIDE DEF b
  <2>1. Fits(x)
    BY <2>0 DEF Ping!PeerPingState, Shrinks
  <2> HIDE DEF x
  <2>2. <<Ping!Msg("Timeout", p, o), Ping!Msg("OutboundStreamClosed", p, o)>> \in Seq(Ping!PingEvent)
    BY <1>0 DEF Ping!Msg, Ping!PingEvent
  <2>3. Ping!OnTick(st, p) =
          Ping!Done(x, <<Ping!Msg("ResetStream", p, o)>>,
                    <<Ping!Msg("Timeout", p, o), Ping!Msg("OutboundStreamClosed", p, o)>>)
    BY DEF Ping!OnTick, x, b
  <2> QED
    BY <1>0, <2>1, <2>2, <2>3, PingMsg DEF PingResult, Ping!Done
<1> QED
  BY <1>4, <1>5, <1>6

-----------------------------------------------------------------------------
(* What the swarm keeps true of its core.                                  *)

\* Stream s of p's connection belongs to kind.
OwnedBy(k, p, s, kind) ==
    k.peer_to_conn[p] # None /\ k.stream_owner[<<k.peer_to_conn[p], s>>] = kind

\* The protocols know the streams that the swarm has given them.
OwnedAt(k, p, s) ==
    /\ Ping!IsKnown(k.ping[p], s) => OwnedBy(k, p, s, "Ping")
    /\ k.identify[p].outbound_stream = s => OwnedBy(k, p, s, "IdentifyResponder")
    /\ s \in k.identify[p].inbound_streams => OwnedBy(k, p, s, "IdentifyInitiator")

\* So it is for every peer and stream.
Owned(k) == \A p \in PeerIds, s \in StreamIds : OwnedAt(k, p, s)

\* Nothing is kept of a peer without a connection.
IsBare(k, p) ==
    /\ k.ping[p] = Ping!Absent
    /\ k.identify[p] = Identify!Absent
    /\ k.pending_pings[p] = None
    /\ k.peer_info[p] = None

\* So it is for every such peer.
Bare(k) == \A p \in PeerIds : k.peer_to_conn[p] = None => IsBare(k, p)

\* The outbound ping streams of connection c: asked for, under negotiation, in use.
Opening(k, c) == {o \in k.pending_opens : o.conn = c /\ o.target = "Ping"}
Dialing(k, c) == {s \in StreamIds : k.outbound_negotiators[<<c, s>>] = "Ping"}
Pinging(k, c) ==
    {s \in StreamIds : /\ k.conn_to_peer[c] # None
                       /\ k.ping[k.conn_to_peer[c]].outbound_stream = s}

\* The three sets have one element between them, or none.
AtMostOne(A, B, C) ==
    /\ \A x, y \in A : x = y
    /\ \A x, y \in B : x = y
    /\ \A x, y \in C : x = y
    /\ A = {} \/ B = {}
    /\ A = {} \/ C = {}
    /\ B = {} \/ C = {}

\* ping() opens at most one stream per connection.
Single(k) == \A c \in Conns : AtMostOne(Opening(k, c), Dialing(k, c), Pinging(k, c))

\* No outbound ping stream of c is in the making or in use.
NoPing(k, c) == Opening(k, c) = {} /\ Dialing(k, c) = {} /\ Pinging(k, c) = {}

\* No stream is in two tables.
Exclusive(k) ==
    \A cs \in StreamKeys :
      /\ ~(cs \in k.inbound_negotiators /\ k.outbound_negotiators[cs] # None)
      /\ ~(cs \in k.inbound_negotiators /\ k.stream_owner[cs] # None)
      /\ ~(k.outbound_negotiators[cs] # None /\ k.stream_owner[cs] # None)

\* The two maps agree, and map connections of L.
Mapped(k, L) ==
    /\ MapsAgree(k)
    /\ AuthAtHandshake => Paired(k)
    /\ \A c \in Conns : k.conn_to_peer[c] # None => c \in L

\* O are the streams opened so far, R those the transport still reports on, L
\* the live connections.  Before an identity is verified, actions may name a
\* stream that another connection has.
Scope(O, R, L) ==
    /\ L \subseteq Conns
    /\ O \subseteq StreamKeys /\ R \subseteq O
    /\ \A c \in Conns, s \in StreamIds : <<c, s>> \in R => c \in L
    /\ ~AuthAtHandshake => O = StreamKeys

\* All of it.
Sound(k, O, R, L) ==
    /\ Good(k, O, L)
    /\ TablesIn(k, R) /\ Exclusive(k)
    /\ Mapped(k, L)
    /\ AuthAtHandshake => Owned(k) /\ Bare(k) /\ Single(k)
    /\ Scope(O, R, L)

\* From k to j the protocols forget at most, and nothing happens to a peer
\* without a connection.
Within(k, j) ==
    \A q \in PeerIds :
      /\ Shrinks(k.ping[q], j.ping[q])
      /\ Shrinks(k.identify[q], j.identify[q])
      /\ k.peer_to_conn[q] = None => SamePeer(k, j, q)

\* The maps of a core, by its type.
LEMMA GoodMaps ==
    ASSUME NEW k, NEW O, NEW L, Good(k, O, L)
    PROVE  HasMaps(k) /\ k \in CoreState
BY DEF Good, Typed, CoreState, HasMaps

\* Mapped depends on the two maps only.
LEMMA MappedSame ==
    ASSUME NEW k, NEW j, NEW L, Mapped(k, L), SameMaps(k, j)
    PROVE  Mapped(j, L)
<1>1. /\ MapsAgree(k) => MapsAgree(j)
      /\ Paired(k) => Paired(j)
  BY SameMapsKeeps
<1> QED
  BY <1>1 DEF Mapped, SameMaps

\* Fewer outbound ping streams.
LEMMA SingleLess ==
    ASSUME NEW k, NEW j, Single(k),
           \A c \in Conns : /\ Opening(j, c) \subseteq Opening(k, c)
                            /\ Dialing(j, c) \subseteq Dialing(k, c)
                            /\ Pinging(j, c) \subseteq Pinging(k, c)
    PROVE  Single(j)
BY DEF Single, AtMostOne

\* The ping handler of k's peers only lost streams.
LEMMA PingingLess ==
    ASSUME NEW k \in CoreState, NEW j, SameMaps(k, j), NEW c \in Conns,
           \A q \in PeerIds : Shrinks(k.ping[q], j.ping[q])
    PROVE  Pinging(j, c) \subseteq Pinging(k, c)
<1> SUFFICES ASSUME NEW s \in StreamIds, j.conn_to_peer[c] # None,
                    j.ping[j.conn_to_peer[c]].outbound_stream = s
             PROVE  k.ping[k.conn_to_peer[c]].outbound_stream = s
  BY DEF Pinging, SameMaps
<1>1. PICK q \in PeerIds : q = k.conn_to_peer[c]
  BY DEF SameMaps, CoreState
<1> QED
  BY <1>1, CoreStreamsAssumption DEF SameMaps, Shrinks

\* What the protocols still know is owned.
LEMMA OwnedLess ==
    ASSUME NEW k, NEW j, NEW p, NEW s \in StreamIds, OwnedAt(k, p, s),
           Shrinks(k.ping[p], j.ping[p]), Shrinks(k.identify[p], j.identify[p]),
           \A kind \in ProtocolKind : OwnedBy(k, p, s, kind) => OwnedBy(j, p, s, kind)
    PROVE  OwnedAt(j, p, s)
<1>1. Ping!IsKnown(j.ping[p], s) => Ping!IsKnown(k.ping[p], s)
  BY CoreStreamsAssumption DEF Shrinks, Ping!IsKnown
<1>2. /\ j.identify[p].outbound_stream = s => k.identify[p].outbound_stream = s
      /\ s \in j.identify[p].inbound_streams => s \in k.identify[p].inbound_streams
  BY CoreStreamsAssumption DEF Shrinks
<1>3. {"Ping", "IdentifyResponder", "IdentifyInitiator"} \subseteq ProtocolKind
  BY DEF ProtocolKind
<1> QED
  BY <1>1, <1>2, <1>3 DEF OwnedAt

\* A step on the queues and the protocols keeps a core sound.
LEMMA SoundWithin ==
    ASSUME NEW O, NEW R, NEW L, NEW k, NEW j, Sound(k, O, R, L),
           Good(j, O, L), SameTables(k, j), SameMaps(k, j), Within(k, j)
    PROVE  Sound(j, O, R, L)
<1>0. k \in CoreState
  BY GoodMaps DEF Sound
<1>1. TablesIn(j, R) /\ Exclusive(j)
  BY DEF Sound, SameTables, TablesIn, InTable, Exclusive
<1>2. Mapped(j, L)
  BY MappedSame DEF Sound
<1>3. ASSUME AuthAtHandshake PROVE Owned(j)
  <2> SUFFICES ASSUME NEW p \in PeerIds, NEW s \in StreamIds PROVE OwnedAt(j, p, s)
    BY DEF Owned
  <2>1. OwnedAt(k, p, s) /\ Shrinks(k.ping[p], j.ping[p]) /\ Shrinks(k.identify[p], j.identify[p])
    BY <1>3 DEF Sound, Owned, Within
  <2>2. \A kind \in ProtocolKind : OwnedBy(k, p, s, kind) => OwnedBy(j, p, s, kind)
    BY DEF OwnedBy, SameTables, SameMaps
  <2> QED
    BY <2>1, <2>2, OwnedLess
<1>4. ASSUME AuthAtHandshake PROVE Bare(j)
  BY <1>4 DEF Sound, Bare, IsBare, Within, SamePeer, SameMaps
<1>5. ASSUME AuthAtHandshake PROVE Single(j)
  <2>1. ASSUME NEW c \in Conns
        PROVE  /\ Opening(j, c) \subseteq Opening(k, c)
               /\ Dialing(j, c) \subseteq Dialing(k, c)
    BY DEF Opening, Dialing, SameTables
  <2>2. ASSUME NEW c \in Conns PROVE Pinging(j, c) \subseteq Pinging(k, c)
    BY <1>0, PingingLess DEF Within
  <2>3. Single(k)
    BY <1>5 DEF Sound
  <2> QED
    BY <2>1, <2>2, <2>3, SingleLess
<1> QED
  BY <1>1, <1>2, <1>3, <1>4, <1>5 DEF Sound

\* Queues alone.
LEMMA SoundOutputs ==
    ASSUME NEW O, NEW R, NEW L, NEW k, NEW j, Sound(k, O, R, L),
           Outputs(k, j, O, L), SameMaps(k, j)
    PROVE  Sound(j, O, R, L)
<1>1. Within(k, j)
  BY DEF Within, Outputs, SamePeer, Shrinks
<1> QED
  BY <1>1, SoundWithin DEF Outputs

\* The handlers of one connected peer.
LEMMA SoundActs ==
    ASSUME NEW O, NEW R, NEW L, NEW k, NEW j, NEW p \in PeerIds, Sound(k, O, R, L),
           Acts(k, j, p, O, L), SameMaps(k, j), AuthAtHandshake => k.peer_to_conn[p] # None
    PROVE  Sound(j, O, R, L)
<1>1. AuthAtHandshake => Within(k, j)
  BY DEF Within, Acts, SamePeer, Shrinks
<1>2. CASE AuthAtHandshake
  BY <1>1, <1>2, SoundWithin DEF Acts
<1>3. CASE ~AuthAtHandshake
  <2>1. TablesIn(j, R) /\ Exclusive(j)
    BY DEF Sound, Acts, SameTables, TablesIn, InTable, Exclusive
  <2>2. Mapped(j, L)
    BY MappedSame DEF Sound
  <2> QED
    BY <1>3, <2>1, <2>2 DEF Sound, Acts
<1> QED
  BY <1>2, <1>3

-----------------------------------------------------------------------------
(* The protocols' outputs.                                                 *)

\* j is k after p's ping handler left st behind: only queues differ besides.
Pinged(k, j, p, st, O, L) ==
    /\ Good(j, O, L)
    /\ SameTables(k, j)
    /\ SameMaps(k, j)
    /\ \A q \in PeerIds : q # p => SamePeer(k, j, q)
    /\ j.ping[p] = st
    /\ j.identify[p] = k.identify[p]
    /\ j.pending_pings[p] = k.pending_pings[p]
    /\ j.peer_info[p] = k.peer_info[p]

\* j is k after p's Identify handler left st behind; the peer's info may be new.
Identified(k, j, p, st, O, L) ==
    /\ Good(j, O, L)
    /\ SameTables(k, j)
    /\ SameMaps(k, j)
    /\ \A q \in PeerIds : q # p => SamePeer(k, j, q)
    /\ j.identify[p] = st
    /\ j.ping[p] = k.ping[p]
    /\ j.pending_pings[p] = k.pending_pings[p]

\* Queues may follow.
LEMMA PingedOutputs ==
    ASSUME NEW O, NEW L, NEW k, NEW j, NEW l, NEW p \in PeerIds, NEW st,
           Pinged(k, j, p, st, O, L), Outputs(j, l, O, L), SameMaps(j, l)
    PROVE  Pinged(k, l, p, st, O, L)
BY DEF Pinged, Outputs, SameTables, SameMaps, SamePeer

\* Likewise for Identify.
LEMMA IdentifiedOutputs ==
    ASSUME NEW O, NEW L, NEW k, NEW j, NEW l, NEW p \in PeerIds, NEW st,
           Identified(k, j, p, st, O, L), Outputs(j, l, O, L), SameMaps(j, l)
    PROVE  Identified(k, l, p, st, O, L)
BY DEF Identified, Outputs, SameTables, SameMaps, SamePeer

\* drain_ping_outputs: the action goes to a connection that owns the stream.
LEMMA DrainPingIs ==
    ASSUME NEW O, NEW L, NEW k, Good(k, O, L), NEW p \in PeerIds, NEW st, NEW r, PingResult(st, r)
    PROVE  Pinged(k, DrainPing(k, p, r), p, r.st, O, L)
<1> DEFINE f  == [k.ping EXCEPT ![p] = r.st]
           k1 == [k EXCEPT !.ping = f]
           a  == r.actions[1]
           c  == ConnForOwnedStream(k, p, a.stream, "Ping")
           k2 == IF r.actions = << >> \/ c = None
                 THEN k1
                 ELSE Act(k1, PingActionKind(a), c, a.stream)
           e  == PingEventKind(r.events[1])
           k3 == IF r.events = << >> \/ e = None THEN k2 ELSE Emit(k2, e, p, None)
<1>0. k \in CoreState /\ HasMaps(k)
  BY GoodMaps
<1>1. f \in [PeerIds -> Ping!PeerPingState] /\ f[p] = r.st /\ \A q \in PeerIds : q # p => f[q] = k.ping[q]
  BY <1>0 DEF PingResult, CoreState
<1> HIDE DEF f
<1>2. Pinged(k, k1, p, r.st, O, L)
  <2>1. k1 \in CoreState
    BY <1>0, <1>1 DEF CoreState
  <2>2. /\ SameTables(k, k1) /\ SameMaps(k, k1) /\ k1.actions = k.actions /\ k1.events = k.events
        /\ k1.ping = f /\ k1.identify = k.identify /\ k1.pending_pings = k.pending_pings
        /\ k1.peer_info = k.peer_info
    BY <1>0 DEF CoreState, SameTables, SameMaps
  <2> HIDE DEF k1
  <2>3. Typed(k1) /\ ActionsIn(k1, O)
    BY <2>1, <2>2 DEF Good, Typed, ActionsIn
  <2>4. Good(k1, O, L)
    BY <2>2, <2>3, SameGood
  <2> QED
    BY <1>1, <2>2, <2>4 DEF Pinged, SamePeer
<1> HIDE DEF k1
<1>3. Pinged(k, k2, p, r.st, O, L)
  <2>1. CASE r.actions = << >> \/ c = None
    BY <1>2, <2>1
  <2>2. CASE ~(r.actions = << >> \/ c = None)
    <3>1. a \in Ping!PingAction
      BY <2>2 DEF PingResult
    <3>2. a.stream \in StreamIds /\ PingActionKind(a) \in StreamActions
      BY <3>1 DEF Ping!PingAction, Ping!ActionKinds, PingActionKind, StreamActions
    <3> PICK s \in StreamIds : s = a.stream
      BY <3>2
    <3> PICK kind \in StreamActions : kind = PingActionKind(a)
      BY <3>2
    <3> HIDE DEF a
    <3>3. c \in OwningConns(k, p, s, "Ping")
      BY <2>2, OwningConn
    <3> PICK d \in Conns : d = c /\ k.stream_owner[<<d, s>>] = "Ping"
      BY <3>3 DEF OwningConns
    <3> HIDE DEF c
    <3>4. <<d, s>> \in O
      <4>1. InTable(k, <<d, s>>) /\ <<d, s>> \in StreamKeys
        BY AbsentAssumption DEF InTable, ProtocolKind, StreamKeys
      <4> QED
        BY <4>1 DEF Good, TablesIn
    <3>5. Good(k1, O, L) /\ HasMaps(k1)
      BY <1>2, GoodMaps DEF Pinged
    <3>6. Outputs(k1, Act(k1, kind, d, s), O, L) /\ SameMaps(k1, Act(k1, kind, d, s))
      BY <3>4, <3>5, ActOut, ActSame
    <3>7. k2 = Act(k1, kind, d, s)
      BY <2>2
    <3> QED
      BY <1>2, <3>6, <3>7, PingedOutputs
  <2> QED
    BY <2>1, <2>2
<1> HIDE DEF k2
<1>4. Pinged(k, k3, p, r.st, O, L)
  <2>1. CASE r.events = << >> \/ e = None
    BY <1>3, <2>1
  <2>2. CASE ~(r.events = << >> \/ e = None)
    <3>1. e \in {"PingRttMeasured", "PingTimeout", "Ping", None}
      BY Zenon DEF PingEventKind
    <3> PICK kind : kind = e
      OBVIOUS
    <3> HIDE DEF e
    <3>2. Event(kind, p, None) \in SwarmHeard
      BY <2>2, <3>1 DEF Event, SwarmHeard, SwarmEvent, EventKinds, ErrorKinds
    <3>3. Good(k2, O, L) /\ HasMaps(k2)
      BY <1>3, GoodMaps DEF Pinged
    <3>4. Outputs(k2, Emit(k2, kind, p, None), O, L) /\ SameMaps(k2, Emit(k2, kind, p, None))
      BY <3>2, <3>3, EmitOut, EmitSame
    <3> QED
      BY <1>3, <2>2, <3>4, PingedOutputs
  <2> QED
    BY <2>1, <2>2
<1> QED
  BY <1>4 DEF DrainPing, k3, e, k2, c, a, k1, f

\* drain_ping_outputs after a handler that forgets at most.
LEMMA DrainPingActs ==
    ASSUME NEW O, NEW L, NEW k, Good(k, O, L), NEW p \in PeerIds, NEW r,
           PingResult(k.ping[p], r), Shrinks(k.ping[p], r.st)
    PROVE  /\ Acts(k, DrainPing(k, p, r), p, O, L)
           /\ SameMaps(k, DrainPing(k, p, r))
<1> PICK j : j = DrainPing(k, p, r)
  OBVIOUS
<1>1. Pinged(k, j, p, r.st, O, L)
  BY DrainPingIs
<1> QED
  BY <1>1 DEF Pinged, Acts, Shrinks

\* The same, for a core that is sound.
LEMMA DrainPingSound ==
    ASSUME NEW O, NEW R, NEW L, NEW k, Sound(k, O, R, L), NEW p \in PeerIds, NEW r,
           PingResult(k.ping[p], r), Shrinks(k.ping[p], r.st),
           AuthAtHandshake => k.peer_to_conn[p] # None
    PROVE  Sound(DrainPing(k, p, r), O, R, L)
<1>1. Good(k, O, L)
  BY DEF Sound
<1> QED
  BY <1>1, DrainPingActs, SoundActs

\* What a handler of the Identify protocol may return.
IdentifyResult(r) ==
    /\ r.st \in Identify!PeerIdentifyState
    /\ r.commands \in Seq({"SendStream", "CloseStreamWrite"})
    /\ r.received \in Seq(IdentifyInfo \cup {Malformed})

\* The handlers of the Identify protocol: types, and the streams they know.
LEMMA IdentifyHandlers ==
    ASSUME NEW st \in Identify!PeerIdentifyState, NEW s \in StreamIds
    PROVE  /\ LET r == Identify!RegisterOutboundStream(st, s)
              IN  /\ IdentifyResult(r) /\ r.st.inbound_streams = st.inbound_streams
                  /\ r.st.outbound_stream \in {st.outbound_stream, s}
           /\ LET r == Identify!RegisterInboundStream(st, s)
              IN  /\ IdentifyResult(r) /\ r.st.outbound_stream = st.outbound_stream
                  /\ r.st.inbound_streams = st.inbound_streams \cup {s}
           /\ \A oversize : LET r == Identify!OnStreamData(st, s, oversize)
                            IN  IdentifyResult(r) /\ Shrinks(st, r.st)
           /\ \A decoded \in IdentifyInfo \cup {Malformed} :
                LET r == Identify!OnStreamRemoteWriteClosed(st, s, decoded)
                IN  IdentifyResult(r) /\ Shrinks(st, r.st)
           /\ LET r == Identify!OnStreamClosed(st, s)
              IN  /\ IdentifyResult(r) /\ Shrinks(st, r.st)
                  /\ r.st.outbound_stream # s /\ s \notin r.st.inbound_streams
<1> DEFINE out  == [st EXCEPT !.tracked = TRUE, !.outbound_stream = s]
           in   == [st EXCEPT !.tracked = TRUE, !.inbound_streams = @ \cup {s}]
           read == [st EXCEPT !.inbound_streams = @ \ {s}]
<1>a. /\ out \in Identify!PeerIdentifyState /\ out.outbound_stream = s
      /\ out.inbound_streams = st.inbound_streams
      /\ in \in Identify!PeerIdentifyState /\ in.outbound_stream = st.outbound_stream
      /\ in.inbound_streams = st.inbound_streams \cup {s}
      /\ read \in Identify!PeerIdentifyState /\ Shrinks(st, read) /\ Shrinks(st, st)
  BY DEF Identify!PeerIdentifyState, Shrinks
<1>b. /\ << >> \in Seq({"SendStream", "CloseStreamWrite"})
      /\ <<"CloseStreamWrite">> \in Seq({"SendStream", "CloseStreamWrite"})
      /\ <<"SendStream", "CloseStreamWrite">> \in Seq({"SendStream", "CloseStreamWrite"})
      /\ << >> \in Seq(IdentifyInfo \cup {Malformed})
      /\ \A d \in IdentifyInfo \cup {Malformed} : <<d>> \in Seq(IdentifyInfo \cup {Malformed})
  OBVIOUS
<1> HIDE DEF out, in, read
<1>1. LET r == Identify!RegisterOutboundStream(st, s)
      IN  /\ IdentifyResult(r) /\ r.st.inbound_streams = st.inbound_streams
          /\ r.st.outbound_stream \in {st.outbound_stream, s}
  BY <1>a, <1>b
  DEF IdentifyResult, Identify!RegisterOutboundStream, Identify!Refused, Identify!Done, out
<1>2. LET r == Identify!RegisterInboundStream(st, s)
      IN  /\ IdentifyResult(r) /\ r.st.outbound_stream = st.outbound_stream
          /\ r.st.inbound_streams = st.inbound_streams \cup {s}
  BY <1>a, <1>b DEF IdentifyResult, Identify!RegisterInboundStream, Identify!Done, in
<1>3. ASSUME NEW oversize
      PROVE  LET r == Identify!OnStreamData(st, s, oversize)
             IN  IdentifyResult(r) /\ Shrinks(st, r.st)
  BY <1>a, <1>b DEF IdentifyResult, Identify!OnStreamData, Identify!Done, read
<1>4. ASSUME NEW decoded \in IdentifyInfo \cup {Malformed}
      PROVE  LET r == Identify!OnStreamRemoteWriteClosed(st, s, decoded)
             IN  IdentifyResult(r) /\ Shrinks(st, r.st)
  BY <1>a, <1>b DEF IdentifyResult, Identify!OnStreamRemoteWriteClosed, Identify!Done, read
<1>5. LET r == Identify!OnStreamClosed(st, s)
      IN  /\ IdentifyResult(r) /\ Shrinks(st, r.st)
          /\ r.st.outbound_stream # s /\ s \notin r.st.inbound_streams
  <2> DEFINE left == [st EXCEPT !.outbound_stream = IF @ = s THEN None ELSE @,
                                !.inbound_streams = @ \ {s}]
  <2>1. /\ left \in Identify!PeerIdentifyState /\ Shrinks(st, left)
        /\ left.outbound_stream # s /\ s \notin left.inbound_streams
    BY CoreStreamsAssumption DEF Identify!PeerIdentifyState, Shrinks
  <2> HIDE DEF left
  <2>2. /\ Identify!Absent \in Identify!PeerIdentifyState /\ Shrinks(st, Identify!Absent)
        /\ Identify!Absent.outbound_stream # s /\ s \notin Identify!Absent.inbound_streams
    BY CoreStreamsAssumption DEF Identify!Absent, Identify!PeerIdentifyState, Shrinks
  <2>3. \E x \in {left, Identify!Absent} : Identify!OnStreamClosed(st, s) = Identify!Done(x, << >>, << >>)
    BY DEF Identify!OnStreamClosed, left
  <2> QED
    BY <2>1, <2>2, <2>3 DEF IdentifyResult, Identify!Done
<1> QED
  BY <1>1, <1>2, <1>3, <1>4, <1>5

\* Stream s of p's connection may be named.
Routes(k, p, s, O) == k.peer_to_conn[p] = None \/ <<k.peer_to_conn[p], s>> \in O

\* execute_identify_action: the actions go to the peer's connection.
LEMMA ExecuteOut ==
    ASSUME NEW O, NEW L, NEW k, Good(k, O, L), NEW p \in PeerIds, NEW s \in StreamIds,
           Routes(k, p, s, O), NEW commands \in Seq({"SendStream", "CloseStreamWrite"})
    PROVE  LET j == ExecuteIdentifyActions(k, p, s, commands)
           IN  Outputs(k, j, O, L) /\ SameMaps(k, j)
<1> DEFINE j == ExecuteIdentifyActions(k, p, s, commands)
<1>0. k \in CoreState /\ HasMaps(k)
  BY GoodMaps
<1>1. CASE k.peer_to_conn[p] = None
  BY <1>1, OutputsRefl DEF ExecuteIdentifyActions, SameMaps
<1>2. CASE k.peer_to_conn[p] # None
  <2> PICK c \in Conns : c = k.peer_to_conn[p] /\ <<c, s>> \in O
    BY <1>0, <1>2 DEF Routes, HasMaps
  <2> DEFINE new == [i \in DOMAIN commands |-> StreamAction(commands[i], c, s)]
  <2>1. /\ new \in Seq(SwarmAction)
        /\ \A i \in DOMAIN new : new[i].conn = c /\ new[i].stream = s
    <3>1. ASSUME NEW i \in DOMAIN commands
          PROVE  /\ StreamAction(commands[i], c, s) \in SwarmAction
                 /\ StreamAction(commands[i], c, s).conn = c
                 /\ StreamAction(commands[i], c, s).stream = s
      BY DEF StreamAction, SwarmAction
    <3> QED
      BY <3>1
  <2> HIDE DEF new
  <2> PICK as : as = k.actions \o new
    OBVIOUS
  <2>2. k.actions \in Seq(SwarmAction)
    BY <1>0 DEF CoreState
  <2>3. /\ as \in Seq(SwarmAction)
        /\ \A i \in DOMAIN as : \/ i \in DOMAIN k.actions /\ as[i] = k.actions[i]
                                \/ as[i].conn = c /\ as[i].stream = s
    BY <2>1, <2>2
  <2>4. j = [k EXCEPT !.actions = as]
    BY <1>2 DEF ExecuteIdentifyActions, new
  <2>5. j \in CoreState
    BY <1>0, <2>3, <2>4 DEF CoreState
  <2>6. /\ j.events = k.events /\ j.actions = as /\ SameTables(k, j) /\ SameMaps(k, j)
        /\ \A q \in PeerIds : SamePeer(k, j, q)
    BY <1>0, <2>4 DEF CoreState, SameTables, SamePeer, SameMaps
  <2> HIDE DEF j
  <2>7. ActionsIn(j, O)
    BY <2>3, <2>6 DEF Good, ActionsIn
  <2>8. Typed(j)
    BY <2>5, <2>6 DEF Typed, Good
  <2> QED
    BY <2>6, <2>7, <2>8, SameGood DEF Outputs, j
<1> QED
  BY <1>1, <1>2

\* try_emit_peer_ready
LEMMA TryReadyOut ==
    ASSUME NEW O, NEW L, NEW k, Good(k, O, L), NEW p \in PeerIds
    PROVE  Outputs(k, TryEmitPeerReady(k, p), O, L) /\ SameMaps(k, TryEmitPeerReady(k, p))
<1>0. k \in CoreState /\ HasMaps(k)
  BY GoodMaps
<1> DEFINE l == [k EXCEPT !.ready_peers = @ \cup {p}]
<1>1. Outputs(k, l, O, L)
  <2>1. /\ l \in CoreState /\ l.events = k.events /\ l.actions = k.actions
        /\ SameTables(k, l) /\ \A q \in PeerIds : SamePeer(k, l, q)
    BY <1>0 DEF CoreState, SameTables, SamePeer
  <2> HIDE DEF l
  <2>2. Typed(l) /\ ActionsIn(l, O)
    BY <2>1 DEF Typed, Good, ActionsIn
  <2> QED
    BY <2>1, <2>2, SameGood DEF Outputs
<1>2. Event("PeerReady", p, None) \in SwarmHeard
  BY PeersAssumption DEF Event, SwarmHeard, SwarmEvent, EventKinds
<1> HIDE DEF l
<1>3. Outputs(l, Emit(l, "PeerReady", p, None), O, L)
  BY <1>1, <1>2, EmitOut DEF Outputs
<1>4. Outputs(k, Emit(l, "PeerReady", p, None), O, L)
  BY <1>1, <1>3, OutputsTrans
<1>5. Outputs(k, TryEmitPeerReady(k, p), O, L)
  BY <1>4, OutputsRefl DEF TryEmitPeerReady, l
<1> QED
  BY <1>0, <1>5, TryReadySame

\* drain_identify_outputs
LEMMA DrainIdentifyIs ==
    ASSUME NEW O, NEW L, NEW k, Good(k, O, L), NEW p \in PeerIds, NEW s \in StreamIds,
           Routes(k, p, s, O), NEW r, IdentifyResult(r)
    PROVE  Identified(k, DrainIdentify(k, p, s, r), p, r.st, O, L)
<1> DEFINE f  == [k.identify EXCEPT ![p] = r.st]
           k0 == [k EXCEPT !.identify = f]
           k1 == ExecuteIdentifyActions(k0, p, s, r.commands)
           i  == r.received[1]
           g  == [k1.peer_info EXCEPT ![p] = i]
           k2 == [k1 EXCEPT !.peer_info = g]
           k3 == Emit(k2, "IdentifyReceived", p, None)
           k4 == TryEmitPeerReady(k3, p)
<1>0. k \in CoreState /\ HasMaps(k)
  BY GoodMaps
<1>1. /\ f \in [PeerIds -> Identify!PeerIdentifyState] /\ f[p] = r.st
      /\ \A q \in PeerIds : q # p => f[q] = k.identify[q]
  BY <1>0 DEF IdentifyResult, CoreState
<1> HIDE DEF f
<1>2. Identified(k, k0, p, r.st, O, L) /\ Routes(k0, p, s, O)
  <2>1. k0 \in CoreState
    BY <1>0, <1>1 DEF CoreState
  <2>2. /\ SameTables(k, k0) /\ SameMaps(k, k0) /\ k0.actions = k.actions /\ k0.events = k.events
        /\ k0.identify = f /\ k0.ping = k.ping /\ k0.pending_pings = k.pending_pings
        /\ k0.peer_info = k.peer_info
    BY <1>0 DEF CoreState, SameTables, SameMaps
  <2> HIDE DEF k0
  <2>3. Typed(k0) /\ ActionsIn(k0, O) /\ Routes(k0, p, s, O)
    BY <2>1, <2>2 DEF Good, Typed, ActionsIn, Routes, SameMaps
  <2>4. Good(k0, O, L)
    BY <2>2, <2>3, SameGood
  <2> QED
    BY <1>1, <2>2, <2>3, <2>4 DEF Identified, SamePeer
<1> HIDE DEF k0
<1>3. Identified(k, k1, p, r.st, O, L)
  <2>1. Outputs(k0, k1, O, L) /\ SameMaps(k0, k1)
    BY <1>2, ExecuteOut DEF Identified, IdentifyResult
  <2> HIDE DEF k1
  <2> QED
    BY <1>2, <2>1, IdentifiedOutputs
<1> HIDE DEF k1
<1>4. Good(k1, O, L) /\ k1 \in CoreState /\ HasMaps(k1)
  BY <1>3, GoodMaps DEF Identified
<1>5. CASE r.received = << >>
  BY <1>3, <1>5 DEF DrainIdentify, k1, k0, f
<1>6. CASE r.received # << >> /\ i = Malformed
  <2>1. Outputs(k1, EmitError(k1, "Identify", None), O, L) /\ SameMaps(k1, EmitError(k1, "Identify", None))
    BY <1>4, ErrorOut, EmitSame DEF ErrorKinds
  <2>2. DrainIdentify(k, p, s, r) = EmitError(k1, "Identify", None)
    BY <1>6 DEF DrainIdentify, HandleIdentifyEvent, k1, k0, f
  <2> QED
    BY <1>3, <2>1, <2>2, IdentifiedOutputs
<1>7. CASE r.received # << >> /\ i # Malformed
  <2>1. i \in IdentifyInfo
    BY <1>7 DEF IdentifyResult
  <2> HIDE DEF i
  <2>2. g \in [PeerIds -> IdentifyInfo \cup {None}] /\ \A q \in PeerIds : q # p => g[q] = k1.peer_info[q]
    BY <1>4, <2>1 DEF CoreState
  <2> HIDE DEF g
  <2>3. Identified(k, k2, p, r.st, O, L)
    <3>1. k2 \in CoreState
      BY <1>4, <2>2 DEF CoreState
    <3>2. /\ SameTables(k1, k2) /\ SameMaps(k1, k2) /\ k2.actions = k1.actions /\ k2.events = k1.events
          /\ k2.identify = k1.identify /\ k2.ping = k1.ping /\ k2.pending_pings = k1.pending_pings
          /\ k2.peer_info = g
      BY <1>4 DEF CoreState, SameTables, SameMaps
    <3> HIDE DEF k2
    <3>3. Typed(k2) /\ ActionsIn(k2, O)
      BY <1>4, <3>1, <3>2 DEF Good, Typed, ActionsIn
    <3>4. Good(k2, O, L)
      BY <1>4, <3>2, <3>3, SameGood
    <3> QED
      BY <1>3, <2>2, <3>2, <3>4 DEF Identified, SamePeer, SameTables, SameMaps
  <2> HIDE DEF k2
  <2>4. Event("IdentifyReceived", p, None) \in SwarmHeard
    BY DEF Event, SwarmHeard, SwarmEvent, EventKinds
  <2>5. Outputs(k2, k3, O, L) /\ SameMaps(k2, k3)
    BY <2>3, <2>4, EmitOut, EmitSame, GoodMaps DEF Identified
  <2> HIDE DEF k3
  <2>6. Outputs(k3, k4, O, L) /\ SameMaps(k3, k4)
    BY <2>5, TryReadyOut DEF Outputs
  <2> HIDE DEF k4
  <2>7. Identified(k, k4, p, r.st, O, L)
    BY <2>3, <2>5, <2>6, IdentifiedOutputs
  <2>8. DrainIdentify(k, p, s, r) = k4
    BY <1>7 DEF DrainIdentify, HandleIdentifyEvent, k4, k3, k2, g, i, k1, k0, f
  <2> QED
    BY <2>7, <2>8
<1> QED
  BY <1>5, <1>6, <1>7

\* drain_identify_outputs after a handler that forgets at most.
LEMMA DrainIdentifySound ==
    ASSUME NEW O, NEW R, NEW L, NEW k, Sound(k, O, R, L), NEW p \in PeerIds, NEW s \in StreamIds,
           Routes(k, p, s, O), NEW r, IdentifyResult(r), Shrinks(k.identify[p], r.st),
           AuthAtHandshake => k.peer_to_conn[p] # None
    PROVE  Sound(DrainIdentify(k, p, s, r), O, R, L)
<1> PICK j : j = DrainIdentify(k, p, s, r)
  OBVIOUS
<1>1. Good(k, O, L)
  BY DEF Sound
<1>2. Identified(k, j, p, r.st, O, L)
  BY <1>1, DrainIdentifyIs
<1>3. Acts(k, j, p, O, L) /\ SameMaps(k, j)
  BY <1>2 DEF Identified, Acts, Shrinks
<1> QED
  BY <1>3, SoundActs

-----------------------------------------------------------------------------
(* The tables.                                                             *)

\* A change of the tables that takes no stream from its owner.
LEMMA SoundTables ==
    ASSUME NEW O, NEW R, NEW L, NEW k, NEW j, Sound(k, O, R, L), Typed(j),
           j.actions = k.actions, SameMaps(k, j), \A p \in PeerIds : SamePeer(k, j, p),
           TablesIn(j, R), Exclusive(j), OpensIn(j, L), AuthAtHandshake => Single(j),
           \A cs \in StreamKeys : k.stream_owner[cs] # None => j.stream_owner[cs] = k.stream_owner[cs]
    PROVE  Sound(j, O, R, L)
<1>1. Good(j, O, L)
  BY DEF Sound, Good, ActionsIn, TablesIn, Scope
<1>2. Mapped(j, L)
  BY MappedSame DEF Sound
<1>3. ASSUME AuthAtHandshake PROVE Owned(j)
  <2> SUFFICES ASSUME NEW p \in PeerIds, NEW s \in StreamIds PROVE OwnedAt(j, p, s)
    BY DEF Owned
  <2>1. OwnedAt(k, p, s) /\ Shrinks(k.ping[p], j.ping[p]) /\ Shrinks(k.identify[p], j.identify[p])
    BY <1>3 DEF Sound, Owned, SamePeer, Shrinks
  <2>2. ASSUME NEW kind \in ProtocolKind, OwnedBy(k, p, s, kind) PROVE OwnedBy(j, p, s, kind)
    <3>1. HasMaps(k)
      BY GoodMaps DEF Sound
    <3>2. <<k.peer_to_conn[p], s>> \in StreamKeys
      BY <2>2, <3>1 DEF OwnedBy, HasMaps, StreamKeys
    <3> QED
      BY <2>2, <3>2, AbsentAssumption DEF OwnedBy, SameMaps
  <2> QED
    BY <2>1, <2>2, OwnedLess
<1>4. ASSUME AuthAtHandshake PROVE Bare(j)
  BY <1>4 DEF Sound, Bare, IsBare, SamePeer, SameMaps
<1> QED
  BY <1>1, <1>2, <1>3, <1>4 DEF Sound

\* stream_owner.insert of a stream that is in no table
LEMMA SetOwnerSound ==
    ASSUME NEW O, NEW R, NEW L, NEW k, Sound(k, O, R, L), NEW c \in Conns, NEW s \in StreamIds,
           <<c, s>> \in R, ~InTable(k, <<c, s>>), NEW kind \in ProtocolKind
    PROVE  LET j == SetOwner(k, c, s, kind)
           IN  /\ Sound(j, O, R, L) /\ SameMaps(k, j) /\ \A p \in PeerIds : SamePeer(k, j, p)
               /\ j.stream_owner[<<c, s>>] = kind
               /\ NoPing(k, c) => NoPing(j, c)
<1> DEFINE j == SetOwner(k, c, s, kind)
           f == [k.stream_owner EXCEPT ![<<c, s>>] = kind]
<1>0. k \in CoreState /\ HasMaps(k) /\ <<c, s>> \in StreamKeys
  BY GoodMaps DEF Sound, StreamKeys
<1>1. /\ f \in [StreamKeys -> ProtocolKind \cup {None}] /\ f[<<c, s>>] = kind
      /\ \A cs \in StreamKeys : cs # <<c, s>> => f[cs] = k.stream_owner[cs]
  BY <1>0 DEF CoreState
<1> HIDE DEF f
<1>2. j = [k EXCEPT !.stream_owner = f]
  BY DEF SetOwner, f
<1>3. j \in CoreState
  BY <1>0, <1>1, <1>2 DEF CoreState
<1>4. /\ SameMaps(k, j) /\ j.actions = k.actions /\ j.events = k.events /\ \A p \in PeerIds : SamePeer(k, j, p)
      /\ j.stream_owner = f /\ j.inbound_negotiators = k.inbound_negotiators
      /\ j.outbound_negotiators = k.outbound_negotiators /\ j.pending_opens = k.pending_opens
      /\ j.ping = k.ping
  BY <1>0, <1>2 DEF CoreState, SameMaps, SamePeer
<1> HIDE DEF j
<1>5. Typed(j)
  BY <1>3, <1>4 DEF Typed, Sound, Good
<1>6. TablesIn(j, R)
  <2> SUFFICES ASSUME NEW cs \in StreamKeys, InTable(j, cs) PROVE cs \in R
    BY DEF TablesIn
  <2>1. cs = <<c, s>> \/ InTable(k, cs)
    BY <1>1, <1>4 DEF InTable
  <2> QED
    BY <2>1 DEF Sound, TablesIn
<1>7. Exclusive(j)
  BY <1>1, <1>4 DEF Sound, Exclusive, InTable
<1>8. OpensIn(j, L)
  BY <1>4 DEF Sound, Good, OpensIn
<1>9. \A d : Opening(j, d) = Opening(k, d) /\ Dialing(j, d) = Dialing(k, d) /\ Pinging(j, d) = Pinging(k, d)
  BY <1>4 DEF Opening, Dialing, Pinging, SameMaps
<1>10. AuthAtHandshake => Single(j)
  BY <1>9 DEF Sound, Single
<1>11. \A cs \in StreamKeys : k.stream_owner[cs] # None => j.stream_owner[cs] = k.stream_owner[cs]
  BY <1>1, <1>4 DEF InTable
<1>12. Sound(j, O, R, L)
  BY <1>4, <1>5, <1>6, <1>7, <1>8, <1>10, <1>11, SoundTables
<1>13. NoPing(k, c) => NoPing(j, c)
  BY <1>9 DEF NoPing
<1> QED
  BY <1>1, <1>4, <1>12, <1>13 DEF j

\* A stream leaves its negotiation.
LEMMA LeavesNegotiation ==
    ASSUME NEW O, NEW R, NEW L, NEW k, Sound(k, O, R, L), NEW cs \in StreamKeys, NEW j,
           \/ /\ j = [k EXCEPT !.inbound_negotiators = @ \ {cs}]
              /\ cs \in k.inbound_negotiators
           \/ /\ j = [k EXCEPT !.outbound_negotiators = [@ EXCEPT ![cs] = None]]
              /\ k.outbound_negotiators[cs] # None
    PROVE  Sound(j, O, R, L) /\ SameMaps(k, j) /\ ~InTable(j, cs)
<1>0. k \in CoreState /\ HasMaps(k)
  BY GoodMaps DEF Sound
<1> DEFINE f == [k.outbound_negotiators EXCEPT ![cs] = None]
<1>1. /\ f \in [StreamKeys -> ProtocolKind \cup {None}] /\ f[cs] = None
      /\ \A ds \in StreamKeys : ds # cs => f[ds] = k.outbound_negotiators[ds]
  BY <1>0 DEF CoreState
<1> HIDE DEF f
<1>2. /\ j \in CoreState
      /\ SameMaps(k, j) /\ j.actions = k.actions /\ j.events = k.events /\ \A p \in PeerIds : SamePeer(k, j, p)
      /\ j.stream_owner = k.stream_owner /\ j.pending_opens = k.pending_opens /\ j.ping = k.ping
      /\ \/ /\ cs \in k.inbound_negotiators /\ j.inbound_negotiators = k.inbound_negotiators \ {cs}
            /\ j.outbound_negotiators = k.outbound_negotiators
         \/ /\ k.outbound_negotiators[cs] # None /\ j.inbound_negotiators = k.inbound_negotiators
            /\ j.outbound_negotiators = f
  <2>1. CASE j = [k EXCEPT !.inbound_negotiators = @ \ {cs}] /\ cs \in k.inbound_negotiators
    BY <1>0, <2>1 DEF CoreState, SameMaps, SamePeer
  <2>2. CASE /\ j = [k EXCEPT !.outbound_negotiators = [@ EXCEPT ![cs] = None]]
             /\ k.outbound_negotiators[cs] # None
    <3>1. j = [k EXCEPT !.outbound_negotiators = f]
      BY <2>2 DEF f
    <3> QED
      BY <1>0, <1>1, <2>2, <3>1 DEF CoreState, SameMaps, SamePeer
  <2> QED
    BY <2>1, <2>2
<1>3. Typed(j)
  BY <1>2 DEF Typed, Sound, Good
<1>4. ~InTable(j, cs)
  BY <1>1, <1>2 DEF Sound, Exclusive, InTable
<1>5. TablesIn(j, R)
  <2> SUFFICES ASSUME NEW ds \in StreamKeys, InTable(j, ds) PROVE ds \in R
    BY DEF TablesIn
  <2>1. InTable(k, ds)
    BY <1>1, <1>2, <1>4 DEF InTable
  <2> QED
    BY <2>1 DEF Sound, TablesIn
<1>6. Exclusive(j)
  BY <1>1, <1>2 DEF Sound, Exclusive
<1>7. OpensIn(j, L)
  BY <1>2 DEF Sound, Good, OpensIn
<1>8. ASSUME AuthAtHandshake PROVE Single(j)
  <2>1. ASSUME NEW d \in Conns, NEW s \in Dialing(j, d) PROVE s \in Dialing(k, d)
    <3>1. <<d, s>> \in StreamKeys /\ j.outbound_negotiators[<<d, s>>] = "Ping"
      BY <2>1 DEF Dialing, StreamKeys
    <3>2. <<d, s>> # cs
      BY <1>4, <3>1, AbsentAssumption DEF InTable, ProtocolKind
    <3> QED
      BY <1>1, <1>2, <2>1, <3>1, <3>2 DEF Dialing
  <2>2. ASSUME NEW d \in Conns
        PROVE  Opening(j, d) \subseteq Opening(k, d) /\ Pinging(j, d) \subseteq Pinging(k, d)
    BY <1>2 DEF Opening, Pinging, SameMaps
  <2>3. Single(k)
    BY <1>8 DEF Sound
  <2> QED
    BY <2>1, <2>2, <2>3, SingleLess
<1> QED
  BY <1>2, <1>3, <1>4, <1>5, <1>6, <1>7, <1>8, SoundTables

\* The dialer's negotiation of the only outbound ping stream of c is over.
LEMMA LastPing ==
    ASSUME NEW k \in CoreState, Single(k), NEW c \in Conns, NEW s \in StreamIds,
           k.outbound_negotiators[<<c, s>>] = "Ping", NEW j,
           j = [k EXCEPT !.outbound_negotiators = [@ EXCEPT ![<<c, s>>] = None]]
    PROVE  NoPing(j, c)
<1>1. s \in Dialing(k, c)
  BY DEF Dialing
<1>2. Opening(k, c) = {} /\ Pinging(k, c) = {} /\ \A t \in Dialing(k, c) : t = s
  BY <1>1 DEF Single, AtMostOne
<1>3. /\ j.outbound_negotiators = [k.outbound_negotiators EXCEPT ![<<c, s>>] = None]
      /\ j.conn_to_peer = k.conn_to_peer /\ j.ping = k.ping /\ j.pending_opens = k.pending_opens
  BY DEF CoreState
<1>4. Opening(j, c) = {} /\ Pinging(j, c) = {}
  BY <1>2, <1>3 DEF Opening, Pinging
<1>5. ASSUME NEW t \in Dialing(j, c) PROVE FALSE
  <2>1. t \in StreamIds /\ j.outbound_negotiators[<<c, t>>] = "Ping"
    BY <1>5 DEF Dialing
  <2>2. <<c, t>> \in StreamKeys /\ <<c, s>> \in StreamKeys
    BY <2>1 DEF StreamKeys
  <2>3. t # s
    BY <1>3, <2>1, <2>2, AbsentAssumption DEF CoreState, ProtocolKind
  <2>4. t \in Dialing(k, c)
    BY <1>3, <2>1, <2>2, <2>3 DEF Dialing, CoreState
  <2> QED
    BY <1>2, <2>3, <2>4
<1> QED
  BY <1>4, <1>5 DEF NoPing

\* The peer's handlers may name the streams of the connection it is mapped to.
LEMMA RoutesOf ==
    ASSUME NEW O, NEW R, NEW L, NEW k, Sound(k, O, R, L), NEW p \in PeerIds, NEW c \in Conns,
           NEW s \in StreamIds, <<c, s>> \in O, AuthAtHandshake => k.peer_to_conn[p] = c
    PROVE  Routes(k, p, s, O)
<1>1. HasMaps(k)
  BY GoodMaps DEF Sound
<1>2. k.peer_to_conn[p] # None => <<k.peer_to_conn[p], s>> \in StreamKeys
  BY <1>1 DEF HasMaps, StreamKeys
<1> QED
  BY <1>2 DEF Routes, Sound, Scope

\* ensure_peer_id_for_conn
LEMMA EnsureSound ==
    ASSUME NEW O, NEW R, NEW L, NEW k, Sound(k, O, R, L), NEW c \in Conns, c \in L
    PROVE  LET j == EnsurePeerIdForConn(k, c)
           IN  /\ Sound(j, O, R, L) /\ SameTables(k, j) /\ \A q \in PeerIds : SamePeer(k, j, q)
               /\ j.conn_to_peer[c] \in PeerIds
               /\ AuthAtHandshake => j.peer_to_conn[j.conn_to_peer[c]] = c
               /\ AuthAtHandshake /\ NoPing(k, c) => NoPing(j, c)
<1> DEFINE j == EnsurePeerIdForConn(k, c)
<1>0. k \in CoreState /\ HasMaps(k) /\ Mapped(k, L)
  BY GoodMaps DEF Sound
<1>1. CASE k.conn_to_peer[c] # None
  <2>1. j = k
    BY <1>1 DEF EnsurePeerIdForConn
  <2>2. k.conn_to_peer[c] \in PeerIds
    BY <1>0, <1>1 DEF HasMaps
  <2>3. AuthAtHandshake => k.peer_to_conn[k.conn_to_peer[c]] = c
    BY <1>0, <1>1 DEF Mapped, Paired, NoOrphan
  <2> QED
    BY <2>1, <2>2, <2>3 DEF SameTables, SamePeer
<1>2. CASE k.conn_to_peer[c] = None
  <2> PICK y \in PeerIds : y = Synthetic(c)
    BY DEF PeerIds, Synthetics
  <2> DEFINE f == [k.conn_to_peer EXCEPT ![c] = y]
             g == [k.peer_to_conn EXCEPT ![y] = c]
  <2>1. /\ f \in [Conns -> PeerIds \cup {None}] /\ f[c] = y
        /\ \A d \in Conns : d # c => f[d] = k.conn_to_peer[d]
        /\ g \in [PeerIds -> Conns \cup {None}] /\ g[y] = c
        /\ \A q \in PeerIds : q # y => g[q] = k.peer_to_conn[q]
    BY <1>0 DEF CoreState
  <2> HIDE DEF f, g
  <2>2. j = [k EXCEPT !.conn_to_peer = f, !.peer_to_conn = g]
    BY <1>2 DEF EnsurePeerIdForConn, f, g
  <2>3. /\ j \in CoreState /\ j.conn_to_peer = f /\ j.peer_to_conn = g
        /\ SameTables(k, j) /\ j.actions = k.actions /\ j.events = k.events /\ j.ping = k.ping
        /\ \A q \in PeerIds : SamePeer(k, j, q)
    BY <1>0, <2>1, <2>2 DEF CoreState, SameTables, SamePeer
  <2>4. /\ MapsAgree(k) => MapsAgree(j)
        /\ Paired(k) => Paired(j)
    BY <1>0, EnsureKeeps
  <2> HIDE DEF j
  <2>5. Mapped(j, L)
    BY <1>0, <2>1, <2>3, <2>4 DEF Mapped
  <2>6. Typed(j) /\ ActionsIn(j, O)
    BY <2>3 DEF Typed, Sound, Good, ActionsIn
  <2>7. Good(j, O, L) /\ TablesIn(j, R) /\ Exclusive(j)
    <3>1. Good(j, O, L)
      BY <2>3, <2>6, SameGood DEF Sound
    <3> QED
      BY <2>3, <3>1 DEF Sound, SameTables, TablesIn, InTable, Exclusive
  <2>8. ASSUME AuthAtHandshake PROVE k.peer_to_conn[y] = None
    <3> SUFFICES ASSUME k.peer_to_conn[y] # None PROVE FALSE
      OBVIOUS
    <3> PICK d \in Conns : d = k.peer_to_conn[y]
      BY <1>0 DEF HasMaps
    <3>1. k.conn_to_peer[d] = y
      BY <1>0 DEF Mapped, MapsAgree
    <3>2. k.conn_to_peer[d] = Synthetic(d)
      BY <1>0, <2>8, <3>1 DEF Mapped, Paired, OwnPlaceholder, Synthetics
    <3>3. c = d
      BY <3>1, <3>2, SyntheticInjective
    <3> QED
      BY <1>2, <3>1, <3>3, PeersAssumption
  <2>9. ASSUME AuthAtHandshake PROVE Owned(j)
    <3> SUFFICES ASSUME NEW p \in PeerIds, NEW s \in StreamIds PROVE OwnedAt(j, p, s)
      BY DEF Owned
    <3>1. OwnedAt(k, p, s) /\ Shrinks(k.ping[p], j.ping[p]) /\ Shrinks(k.identify[p], j.identify[p])
      BY <2>3, <2>9 DEF Sound, Owned, SamePeer, Shrinks
    <3>2. \A kind \in ProtocolKind : OwnedBy(k, p, s, kind) => OwnedBy(j, p, s, kind)
      BY <2>1, <2>3, <2>8, <2>9 DEF OwnedBy, SameTables
    <3> QED
      BY <3>1, <3>2, OwnedLess
  <2>10. ASSUME AuthAtHandshake PROVE Bare(j)
    <3>1. c # None
      BY ConnsAssumption
    <3> QED
      BY <2>1, <2>3, <2>10, <3>1 DEF Sound, Bare, IsBare, SamePeer
  <2>11. ASSUME AuthAtHandshake, NEW d \in Conns
         PROVE  /\ Opening(j, d) = Opening(k, d)
                /\ Dialing(j, d) = Dialing(k, d)
                /\ Pinging(j, d) \subseteq Pinging(k, d)
    <3>1. Opening(j, d) = Opening(k, d) /\ Dialing(j, d) = Dialing(k, d)
      BY <2>3 DEF Opening, Dialing, SameTables
    <3>2. CASE d # c
      BY <2>1, <2>3, <3>1, <3>2 DEF Pinging
    <3>3. CASE d = c
      <4>1. k.ping[y] = Ping!Absent
        BY <2>8, <2>11 DEF Sound, Bare, IsBare
      <4>2. \A s \in StreamIds : k.ping[y].outbound_stream # s
        BY <4>1, CoreStreamsAssumption DEF Ping!Absent
      <4>3. Pinging(j, d) = {}
        BY <2>1, <2>3, <3>3, <4>2 DEF Pinging
      <4> QED
        BY <3>1, <4>3
    <3> QED
      BY <3>2, <3>3
  <2>12. AuthAtHandshake => Single(j)
    BY <2>11, SingleLess DEF Sound
  <2>13. AuthAtHandshake /\ NoPing(k, c) => NoPing(j, c)
    BY <2>11 DEF NoPing
  <2>14. Sound(j, O, R, L)
    BY <2>5, <2>7, <2>9, <2>10, <2>12 DEF Sound
  <2> QED
    BY <2>1, <2>3, <2>13, <2>14 DEF j
<1> QED
  BY <1>1, <1>2

\* queue_open_protocol_stream
LEMMA QueueOpenSound ==
    ASSUME NEW O, NEW R, NEW L, NEW k, Sound(k, O, R, L), NEW p \in PeerIds,
           k.peer_to_conn[p] # None, NEW target \in ProtocolKind,
           AuthAtHandshake /\ target = "Ping" => NoPing(k, k.peer_to_conn[p])
    PROVE  LET j == QueueOpenProtocolStream(k, p, target)
           IN  /\ Sound(j, O, R, L) /\ SameMaps(k, j) /\ \A q \in PeerIds : SamePeer(k, j, q)
               /\ target = "Ping" => HasPendingPingStream(j, p)
               /\ target # "Ping" =>
                    \A d \in Conns : NoPing(k, d) => NoPing(j, d)
<1> DEFINE j == QueueOpenProtocolStream(k, p, target)
<1>0. k \in CoreState /\ HasMaps(k) /\ Mapped(k, L) /\ Good(k, O, L)
  BY GoodMaps DEF Sound
<1> PICK c \in Conns : c = k.peer_to_conn[p]
  BY <1>0 DEF HasMaps
<1>1. c \in L
  BY <1>0, PeersAssumption DEF Mapped, MapsAgree
<1> PICK t \in Nat : t = k.next_open_token
  BY <1>0 DEF CoreState
<1> PICK o : o = [token |-> t, conn |-> c, target |-> target]
  OBVIOUS
<1>2. o \in PendingOpen /\ o.conn = c /\ o.target = target
  BY DEF PendingOpen
<1> PICK a : a = [kind |-> "OpenStream", conn |-> c, stream |-> None, token |-> t]
  OBVIOUS
<1>3. a \in SwarmAction /\ a.stream = None
  BY DEF SwarmAction
<1> PICK as : as = Append(k.actions, a)
  OBVIOUS
<1>4. /\ as \in Seq(SwarmAction)
      /\ \A i \in DOMAIN as : as[i] = a \/ (i \in DOMAIN k.actions /\ as[i] = k.actions[i])
  BY <1>0, <1>3, AppendProperties DEF CoreState
<1> PICK os : os = k.pending_opens \cup {o}
  OBVIOUS
<1>5. os \in SUBSET PendingOpen
  BY <1>0, <1>2 DEF CoreState
<1> PICK t1 \in Nat : t1 = t + 1
  OBVIOUS
<1>6. j = [k EXCEPT !.next_open_token = t1, !.pending_opens = os, !.actions = as]
  BY <1>0 DEF QueueOpenProtocolStream, CoreState
<1>7. /\ j \in CoreState /\ SameMaps(k, j) /\ j.events = k.events /\ j.actions = as
      /\ \A q \in PeerIds : SamePeer(k, j, q)
      /\ j.stream_owner = k.stream_owner /\ j.inbound_negotiators = k.inbound_negotiators
      /\ j.outbound_negotiators = k.outbound_negotiators /\ j.pending_opens = os /\ j.ping = k.ping
      /\ j.peer_to_conn = k.peer_to_conn /\ j.conn_to_peer = k.conn_to_peer
  <2>1. j \in CoreState
    BY <1>0, <1>4, <1>5, <1>6 DEF CoreState
  <2> QED
    BY <1>0, <1>6, <2>1 DEF CoreState, SameMaps, SamePeer
<1> HIDE DEF j
<1>8. Typed(j)
  BY <1>0, <1>7 DEF Typed, Good
<1>9. Good(j, O, L)
  <2>1. ActionsIn(j, O)
    BY <1>0, <1>3, <1>4, <1>7 DEF Good, ActionsIn
  <2>2. TablesIn(j, O)
    BY <1>0, <1>7 DEF Good, TablesIn, InTable
  <2>3. OpensIn(j, L)
    BY <1>0, <1>1, <1>2, <1>7 DEF Good, OpensIn
  <2> QED
    BY <1>8, <2>1, <2>2, <2>3 DEF Good
<1>10. TablesIn(j, R) /\ Exclusive(j)
  BY <1>7 DEF Sound, TablesIn, InTable, Exclusive
<1>11. Mapped(j, L)
  BY <1>0, <1>7, MappedSame
<1>12. ASSUME AuthAtHandshake PROVE Owned(j) /\ Bare(j)
  <2>1. ASSUME NEW q \in PeerIds, NEW s \in StreamIds PROVE OwnedAt(j, q, s)
    <3>1. OwnedAt(k, q, s) /\ j.identify[q] = k.identify[q]
      BY <1>7, <1>12 DEF Sound, Owned, SamePeer
    <3> QED
      BY <1>7, <3>1 DEF OwnedAt, OwnedBy
  <2>2. Bare(j)
    BY <1>7, <1>12 DEF Sound, Bare, IsBare, SamePeer
  <2> QED
    BY <2>1, <2>2 DEF Owned
<1>13. ASSUME NEW d \in Conns
       PROVE  /\ Dialing(j, d) = Dialing(k, d) /\ Pinging(j, d) = Pinging(k, d)
              /\ Opening(j, d) = IF d = c /\ target = "Ping" THEN Opening(k, d) \cup {o} ELSE Opening(k, d)
  BY <1>2, <1>7 DEF Opening, Dialing, Pinging
<1>14. ASSUME AuthAtHandshake PROVE Single(j)
  <2> SUFFICES ASSUME NEW d \in Conns PROVE AtMostOne(Opening(j, d), Dialing(j, d), Pinging(j, d))
    BY DEF Single
  <2>1. AtMostOne(Opening(k, d), Dialing(k, d), Pinging(k, d))
    BY <1>14 DEF Sound, Single
  <2>2. CASE d = c /\ target = "Ping"
    <3>1. NoPing(k, d)
      BY <1>14, <2>2
    <3> QED
      BY <1>13, <2>2, <3>1 DEF NoPing, AtMostOne
  <2>3. CASE ~(d = c /\ target = "Ping")
    BY <1>13, <2>1, <2>3
  <2> QED
    BY <2>2, <2>3
<1>15. Sound(j, O, R, L)
  BY <1>9, <1>10, <1>11, <1>12, <1>14 DEF Sound
<1>16. target = "Ping" => HasPendingPingStream(j, p)
  BY <1>2, <1>7 DEF HasPendingPingStream
<1>17. target # "Ping" => \A d \in Conns : NoPing(k, d) => NoPing(j, d)
  BY <1>13 DEF NoPing
<1> QED
  BY <1>7, <1>15, <1>16, <1>17 DEF j

\* More streams and connections in scope.
LEMMA SoundGrows ==
    ASSUME NEW O, NEW R, NEW L, NEW k, Sound(k, O, R, L), NEW O2, NEW R2, NEW L2,
           Scope(O2, R2, L2), O \subseteq O2, R \subseteq R2, L \subseteq L2
    PROVE  Sound(k, O2, R2, L2)
<1>1. Good(k, O2, L2)
  BY GoodGrows DEF Sound
<1>2. TablesIn(k, R2) /\ Mapped(k, L2)
  BY DEF Sound, TablesIn, Mapped
<1> QED
  BY <1>1, <1>2 DEF Sound

\* Queues start no ping stream.
LEMMA NoPingOutputs ==
    ASSUME NEW O, NEW L, NEW k, NEW j, Outputs(k, j, O, L), SameMaps(k, j), HasMaps(k),
           NEW c \in Conns, NoPing(k, c)
    PROVE  NoPing(j, c)
<1>1. Opening(j, c) = Opening(k, c) /\ Dialing(j, c) = Dialing(k, c)
  BY DEF Opening, Dialing, Outputs, SameTables
<1>2. Pinging(j, c) \subseteq Pinging(k, c)
  BY DEF Pinging, Outputs, SamePeer, SameMaps, HasMaps
<1> QED
  BY <1>1, <1>2 DEF NoPing

\* Errors and stream actions, for a core that is sound.
LEMMA ErrorSound ==
    ASSUME NEW O, NEW R, NEW L, NEW k, Sound(k, O, R, L), NEW kind \in ErrorKinds,
           NEW p \in PeerIds \cup {None}
    PROVE  /\ Sound(EmitError(k, kind, p), O, R, L)
           /\ Outputs(k, EmitError(k, kind, p), O, L) /\ SameMaps(k, EmitError(k, kind, p))
<1>1. Good(k, O, L) /\ HasMaps(k)
  BY GoodMaps DEF Sound
<1>2. Outputs(k, EmitError(k, kind, p), O, L) /\ SameMaps(k, EmitError(k, kind, p))
  BY <1>1, ErrorOut, EmitSame
<1> QED
  BY <1>2, SoundOutputs

\* Events, for a core that is sound.
LEMMA EmitSound ==
    ASSUME NEW O, NEW R, NEW L, NEW k, Sound(k, O, R, L), NEW kind, NEW p, NEW s,
           Event(kind, p, s) \in SwarmHeard
    PROVE  /\ Sound(Emit(k, kind, p, s), O, R, L)
           /\ Outputs(k, Emit(k, kind, p, s), O, L) /\ SameMaps(k, Emit(k, kind, p, s))
<1>1. Good(k, O, L) /\ HasMaps(k)
  BY GoodMaps DEF Sound
<1>2. Outputs(k, Emit(k, kind, p, s), O, L) /\ SameMaps(k, Emit(k, kind, p, s))
  BY <1>1, EmitOut, EmitSame
<1> QED
  BY <1>2, SoundOutputs

\* Actions, for a core that is sound.
LEMMA ActSound ==
    ASSUME NEW O, NEW R, NEW L, NEW k, Sound(k, O, R, L), NEW kind \in StreamActions,
           NEW c \in Conns, NEW s \in StreamIds \cup {None}, s # None => <<c, s>> \in O
    PROVE  /\ Sound(Act(k, kind, c, s), O, R, L)
           /\ Outputs(k, Act(k, kind, c, s), O, L) /\ SameMaps(k, Act(k, kind, c, s))
<1>1. Good(k, O, L) /\ HasMaps(k)
  BY GoodMaps DEF Sound
<1>2. Outputs(k, Act(k, kind, c, s), O, L) /\ SameMaps(k, Act(k, kind, c, s))
  BY <1>1, ActOut, ActSame
<1> QED
  BY <1>2, SoundOutputs

\* handle_incoming_stream
LEMMA IncomingSound ==
    ASSUME NEW O, NEW R, NEW L, NEW k, Sound(k, O, R, L), NEW c \in Conns, NEW s \in StreamIds,
           <<c, s>> \in R, ~InTable(k, <<c, s>>)
    PROVE  Sound(HandleIncomingStream(k, c, s), O, R, L)
<1> DEFINE j == [k EXCEPT !.inbound_negotiators = @ \cup {<<c, s>>}]
<1>0. k \in CoreState /\ HasMaps(k) /\ <<c, s>> \in StreamKeys /\ <<c, s>> \in O
  BY GoodMaps DEF Sound, StreamKeys, Scope
<1>1. /\ j \in CoreState
      /\ SameMaps(k, j) /\ j.actions = k.actions /\ j.events = k.events /\ \A p \in PeerIds : SamePeer(k, j, p)
      /\ j.stream_owner = k.stream_owner /\ j.pending_opens = k.pending_opens /\ j.ping = k.ping
      /\ j.inbound_negotiators = k.inbound_negotiators \cup {<<c, s>>}
      /\ j.outbound_negotiators = k.outbound_negotiators
  BY <1>0 DEF CoreState, SameMaps, SamePeer
<1> HIDE DEF j
<1>2. Typed(j)
  BY <1>1 DEF Typed, Sound, Good
<1>3. TablesIn(j, R)
  BY <1>1 DEF Sound, TablesIn, InTable
<1>4. Exclusive(j)
  BY <1>1 DEF Sound, Exclusive, InTable
<1>5. OpensIn(j, L)
  BY <1>1 DEF Sound, Good, OpensIn
<1>6. AuthAtHandshake => Single(j)
  BY <1>1 DEF Sound, Single, Opening, Dialing, Pinging, SameMaps
<1>7. Sound(j, O, R, L)
  BY <1>1, <1>2, <1>3, <1>4, <1>5, <1>6, SoundTables
<1>8. Sound(Act(j, "SendStream", c, s), O, R, L)
  BY <1>0, <1>7, ActSound DEF StreamActions
<1> QED
  BY <1>8 DEF HandleIncomingStream, j

\* A token is taken from pending_opens.
LEMMA PruneSound ==
    ASSUME NEW O, NEW R, NEW L, NEW k, Sound(k, O, R, L), NEW opens \in SUBSET k.pending_opens,
           NEW j, j = [k EXCEPT !.pending_opens = @ \ opens]
    PROVE  /\ Sound(j, O, R, L) /\ SameMaps(k, j)
           /\ j.stream_owner = k.stream_owner /\ j.inbound_negotiators = k.inbound_negotiators
           /\ j.outbound_negotiators = k.outbound_negotiators
           /\ \A o \in opens : AuthAtHandshake /\ o.target = "Ping" /\ o.conn \in Conns
                                 => NoPing(j, o.conn)
<1>0. k \in CoreState /\ HasMaps(k)
  BY GoodMaps DEF Sound
<1>1. /\ j \in CoreState
      /\ SameMaps(k, j) /\ j.actions = k.actions /\ j.events = k.events /\ \A p \in PeerIds : SamePeer(k, j, p)
      /\ j.stream_owner = k.stream_owner /\ j.pending_opens = k.pending_opens \ opens /\ j.ping = k.ping
      /\ j.inbound_negotiators = k.inbound_negotiators
      /\ j.outbound_negotiators = k.outbound_negotiators
  BY <1>0 DEF CoreState, SameMaps, SamePeer
<1>2. Typed(j)
  BY <1>1 DEF Typed, Sound, Good
<1>3. TablesIn(j, R)
  BY <1>1 DEF Sound, TablesIn, InTable
<1>4. Exclusive(j)
  BY <1>1 DEF Sound, Exclusive, InTable
<1>5. OpensIn(j, L)
  BY <1>1 DEF Sound, Good, OpensIn
<1>6. \A d \in Conns : /\ Opening(j, d) = Opening(k, d) \ opens
                       /\ Dialing(j, d) = Dialing(k, d)
                       /\ Pinging(j, d) = Pinging(k, d)
  BY <1>1 DEF Opening, Dialing, Pinging, SameMaps
<1>7. ASSUME AuthAtHandshake PROVE Single(j)
  <2>1. Single(k)
    BY <1>7 DEF Sound
  <2>2. \A d \in Conns : /\ Opening(j, d) \subseteq Opening(k, d)
                         /\ Dialing(j, d) \subseteq Dialing(k, d)
                         /\ Pinging(j, d) \subseteq Pinging(k, d)
    BY <1>6
  <2> QED
    BY ONLY <2>1, <2>2, SingleLess
<1>8. Sound(j, O, R, L)
  BY <1>1, <1>2, <1>3, <1>4, <1>5, <1>7, SoundTables
<1>9. ASSUME NEW o \in opens, AuthAtHandshake, o.target = "Ping", o.conn \in Conns
      PROVE  NoPing(j, o.conn)
  <2>1. o \in Opening(k, o.conn)
    BY <1>9 DEF Opening
  <2>2. AtMostOne(Opening(k, o.conn), Dialing(k, o.conn), Pinging(k, o.conn))
    BY <1>9 DEF Sound, Single
  <2> QED
    BY <1>6, <1>9, <2>1, <2>2 DEF NoPing, AtMostOne
<1> QED
  BY <1>1, <1>8, <1>9

\* The dialer's negotiation begins.
LEMMA DialSound ==
    ASSUME NEW O, NEW R, NEW L, NEW k, Sound(k, O, R, L), NEW c \in Conns, NEW s \in StreamIds,
           <<c, s>> \in R, ~InTable(k, <<c, s>>), NEW target \in ProtocolKind,
           AuthAtHandshake /\ target = "Ping" => NoPing(k, c)
    PROVE  Sound([k EXCEPT !.outbound_negotiators = [@ EXCEPT ![<<c, s>>] = target]], O, R, L)
<1> DEFINE f == [k.outbound_negotiators EXCEPT ![<<c, s>>] = target]
           j == [k EXCEPT !.outbound_negotiators = f]
<1>0. k \in CoreState /\ HasMaps(k) /\ <<c, s>> \in StreamKeys
  BY GoodMaps DEF Sound, StreamKeys
<1>1. /\ f \in [StreamKeys -> ProtocolKind \cup {None}] /\ f[<<c, s>>] = target
      /\ \A cs \in StreamKeys : cs # <<c, s>> => f[cs] = k.outbound_negotiators[cs]
  BY <1>0 DEF CoreState
<1> HIDE DEF f
<1>2. /\ j \in CoreState
      /\ SameMaps(k, j) /\ j.actions = k.actions /\ j.events = k.events /\ \A p \in PeerIds : SamePeer(k, j, p)
      /\ j.stream_owner = k.stream_owner /\ j.pending_opens = k.pending_opens /\ j.ping = k.ping
      /\ j.inbound_negotiators = k.inbound_negotiators /\ j.outbound_negotiators = f
  BY <1>0, <1>1 DEF CoreState, SameMaps, SamePeer
<1> HIDE DEF j
<1>3. Typed(j)
  BY <1>2 DEF Typed, Sound, Good
<1>4. TablesIn(j, R)
  <2> SUFFICES ASSUME NEW cs \in StreamKeys, InTable(j, cs) PROVE cs \in R
    BY DEF TablesIn
  <2>1. cs = <<c, s>> \/ InTable(k, cs)
    BY <1>1, <1>2 DEF InTable
  <2> QED
    BY <2>1 DEF Sound, TablesIn
<1>5. Exclusive(j)
  BY <1>1, <1>2 DEF Sound, Exclusive, InTable
<1>6. OpensIn(j, L)
  BY <1>2 DEF Sound, Good, OpensIn
<1>7. ASSUME AuthAtHandshake PROVE Single(j)
  <2> SUFFICES ASSUME NEW d \in Conns PROVE AtMostOne(Opening(j, d), Dialing(j, d), Pinging(j, d))
    BY DEF Single
  <2>1. AtMostOne(Opening(k, d), Dialing(k, d), Pinging(k, d))
    BY <1>7 DEF Sound, Single
  <2>2. Opening(j, d) = Opening(k, d) /\ Pinging(j, d) = Pinging(k, d)
    BY <1>2 DEF Opening, Pinging, SameMaps
  <2>3. CASE d = c /\ target = "Ping"
    <3>1. NoPing(k, d)
      BY <1>7, <2>3
    <3>2. ASSUME NEW t \in Dialing(j, d) PROVE t = s
      <4>1. t \in StreamIds /\ f[<<d, t>>] = "Ping" /\ <<d, t>> \in StreamKeys
        BY <1>2, <3>2 DEF Dialing, StreamKeys
      <4>2. t # s => t \in Dialing(k, d)
        BY <1>1, <4>1 DEF Dialing
      <4> QED
        BY <3>1, <4>2 DEF NoPing
    <3> QED
      BY <2>2, <3>1, <3>2 DEF NoPing, AtMostOne
  <2>4. CASE ~(d = c /\ target = "Ping")
    <3>1. Dialing(j, d) \subseteq Dialing(k, d)
      <4> SUFFICES ASSUME NEW t \in Dialing(j, d) PROVE t \in Dialing(k, d)
        OBVIOUS
      <4>1. t \in StreamIds /\ f[<<d, t>>] = "Ping" /\ <<d, t>> \in StreamKeys
        BY <1>2 DEF Dialing, StreamKeys
      <4>2. <<d, t>> # <<c, s>>
        BY <1>1, <2>4, <4>1
      <4> QED
        BY <1>1, <4>1, <4>2 DEF Dialing
    <3> QED
      BY <2>1, <2>2, <3>1 DEF AtMostOne
  <2> QED
    BY <2>3, <2>4
<1>8. Sound(j, O, R, L)
  BY <1>2, <1>3, <1>4, <1>5, <1>6, <1>7, SoundTables
<1> QED
  BY <1>8 DEF j, f

\* handle_stream_opened and handle_open_stream_failed
LEMMA OpenedSound ==
    ASSUME NEW O, NEW R, NEW L, NEW k, Sound(k, O, R, L), NEW token
    PROVE  /\ \A c \in Conns, s \in StreamIds :
                <<c, s>> \in R /\ ~InTable(k, <<c, s>>)
                  => Sound(HandleStreamOpened(k, c, s, token), O, R, L)
           /\ Sound(HandleOpenStreamFailed(k, token), O, R, L)
<1> DEFINE opens == {x \in k.pending_opens : x.token = token}
           o     == CHOOSE x \in opens : TRUE
           k1    == [k EXCEPT !.pending_opens = @ \ opens]
<1>0. k \in CoreState
  BY GoodMaps DEF Sound
<1>1. opens # {} => o \in opens
  OBVIOUS
<1>2. \A x \in opens : x \in k.pending_opens /\ x.conn \in Conns /\ x.target \in ProtocolKind
  BY <1>0 DEF CoreState, PendingOpen
<1>3. /\ opens \in SUBSET k.pending_opens
      /\ HandleOpenStreamFailed(k, token) =
           EmitError(k1, "OpenStreamFailed",
                     IF opens = {} THEN None ELSE EstablishedPeerForConn(k, o.conn))
      /\ \A c, s : HandleStreamOpened(k, c, s, token) =
           IF opens = {}
           THEN EmitError(k, "Driver", None)
           ELSE IF o.conn # c
           THEN EmitError(k1, "Driver", EstablishedPeerForConn(k1, c))
           ELSE [Act(k1, "SendStream", c, s) EXCEPT
                   !.outbound_negotiators = [@ EXCEPT ![<<c, s>>] = o.target]]
  BY DEF HandleOpenStreamFailed, HandleStreamOpened
<1> HIDE DEF opens, o
<1>4. /\ Sound(k1, O, R, L) /\ SameMaps(k, k1)
      /\ k1.stream_owner = k.stream_owner /\ k1.inbound_negotiators = k.inbound_negotiators
      /\ k1.outbound_negotiators = k.outbound_negotiators
      /\ opens # {} /\ AuthAtHandshake /\ o.target = "Ping" => NoPing(k1, o.conn)
  BY <1>1, <1>2, <1>3, PruneSound
<1> HIDE DEF k1
<1>5. {"Driver", "OpenStreamFailed"} \subseteq ErrorKinds
  BY DEF ErrorKinds
<1>6. Sound(HandleOpenStreamFailed(k, token), O, R, L)
  <2>1. (IF opens = {} THEN None ELSE EstablishedPeerForConn(k, o.conn)) \in PeerIds \cup {None}
    BY <1>0, <1>1, <1>2, EstablishedType
  <2> QED
    BY <1>3, <1>4, <1>5, <2>1, ErrorSound
<1>7. ASSUME NEW c \in Conns, NEW s \in StreamIds, <<c, s>> \in R, ~InTable(k, <<c, s>>)
      PROVE  Sound(HandleStreamOpened(k, c, s, token), O, R, L)
  <2>1. CASE opens = {}
    BY <1>3, <1>5, <2>1, ErrorSound
  <2>2. CASE opens # {} /\ o.conn # c
    <3> PICK p \in PeerIds \cup {None} : p = EstablishedPeerForConn(k1, c)
      BY <1>4, EstablishedType, GoodMaps DEF Sound
    <3>1. HandleStreamOpened(k, c, s, token) = EmitError(k1, "Driver", p)
      BY <1>3, <2>2
    <3> QED
      BY <1>4, <1>5, <3>1, ErrorSound
  <2>3. CASE opens # {} /\ o.conn = c
    <3> PICK target \in ProtocolKind : target = o.target
      BY <1>1, <1>2, <2>3
    <3> PICK k2 : k2 = Act(k1, "SendStream", c, s)
      OBVIOUS
    <3>1. <<c, s>> \in O
      BY <1>7 DEF Sound, Scope
    <3>2. Sound(k2, O, R, L) /\ Outputs(k1, k2, O, L) /\ SameMaps(k1, k2)
      BY <1>4, <3>1, ActSound DEF StreamActions
    <3>3. ~InTable(k2, <<c, s>>)
      BY <1>4, <1>7, <3>2 DEF InTable, Outputs, SameTables
    <3>4. AuthAtHandshake /\ target = "Ping" => NoPing(k2, c)
      BY <1>4, <2>3, <3>2, NoPingOutputs, GoodMaps DEF Sound
    <3>5. Sound([k2 EXCEPT !.outbound_negotiators = [@ EXCEPT ![<<c, s>>] = target]], O, R, L)
      BY <1>7, <3>2, <3>3, <3>4, DialSound
    <3> QED
      BY <1>3, <2>3, <3>5
  <2> QED
    BY <2>1, <2>2, <2>3
<1> QED
  BY <1>6, <1>7

-----------------------------------------------------------------------------
(* Data and the end of streams.                                            *)

\* The peer that ensure_peer_id_for_conn leaves c with, and its handlers.
EnsuredPeer(k, c, p, O, R, L) ==
    /\ Sound(k, O, R, L) /\ k.conn_to_peer[c] = p
    /\ AuthAtHandshake => k.peer_to_conn[p] = c

\* What the handlers of p are given is typed, and they may name c's streams.
LEMMA EnsuredFacts ==
    ASSUME NEW O, NEW R, NEW L, NEW k, NEW c \in Conns, NEW s \in StreamIds, NEW p \in PeerIds,
           EnsuredPeer(k, c, p, O, R, L), <<c, s>> \in O
    PROVE  /\ Sound(k, O, R, L) /\ Good(k, O, L) /\ k \in CoreState
           /\ k.ping[p] \in Ping!PeerPingState
           /\ k.identify[p] \in Identify!PeerIdentifyState
           /\ Routes(k, p, s, O)
           /\ AuthAtHandshake => k.peer_to_conn[p] # None
<1>1. Sound(k, O, R, L) /\ Good(k, O, L) /\ k \in CoreState
  BY GoodMaps DEF EnsuredPeer, Sound
<1>2. Routes(k, p, s, O)
  BY <1>1, RoutesOf DEF EnsuredPeer
<1>3. AuthAtHandshake => k.peer_to_conn[p] # None
  BY ConnsAssumption DEF EnsuredPeer
<1> QED
  BY <1>1, <1>2, <1>3 DEF CoreState

\* dispatch_protocol_data
LEMMA DispatchSound ==
    ASSUME NEW O, NEW R, NEW L, NEW k, Sound(k, O, R, L), NEW c \in Conns, c \in L,
           NEW s \in StreamIds, <<c, s>> \in O, NEW chunk, chunk.len \in Nat
    PROVE  Sound(DispatchProtocolData(k, c, s, chunk), O, R, L)
<1> PICK k1 : k1 = EnsurePeerIdForConn(k, c)
  OBVIOUS
<1> PICK p \in PeerIds : p = k1.conn_to_peer[c]
  BY EnsureSound
<1>1. EnsuredPeer(k1, c, p, O, R, L)
  BY EnsureSound DEF EnsuredPeer
<1>2. /\ Sound(k1, O, R, L) /\ Good(k1, O, L) /\ k1 \in CoreState
      /\ k1.ping[p] \in Ping!PeerPingState
      /\ k1.identify[p] \in Identify!PeerIdentifyState
      /\ Routes(k1, p, s, O)
      /\ AuthAtHandshake => k1.peer_to_conn[p] # None
  BY <1>1, EnsuredFacts
<1> DEFINE d1 == DrainPing(k1, p, Ping!OnStreamData(k1.ping[p], p, s, chunk.len, chunk.payload))
           d2 == DrainIdentify(k1, p, s, Identify!OnStreamData(k1.identify[p], s, chunk.oversize))
           d3 == Emit(k1, "UserStreamData", p, s)
<1>3. Sound(d1, O, R, L)
  <2> PICK r : r = Ping!OnStreamData(k1.ping[p], p, s, chunk.len, chunk.payload)
    OBVIOUS
  <2>1. PingResult(k1.ping[p], r) /\ Shrinks(k1.ping[p], r.st)
    BY <1>2, PingReceives
  <2> QED
    BY <1>2, <2>1, DrainPingSound
<1>4. Sound(d2, O, R, L)
  <2> PICK r : r = Identify!OnStreamData(k1.identify[p], s, chunk.oversize)
    OBVIOUS
  <2>1. IdentifyResult(r) /\ Shrinks(k1.identify[p], r.st)
    BY <1>2, IdentifyHandlers
  <2> QED
    BY <1>2, <2>1, DrainIdentifySound
<1>5. Sound(d3, O, R, L)
  <2>1. Event("UserStreamData", p, s) \in SwarmHeard
    BY DEF Event, SwarmHeard, SwarmEvent, EventKinds
  <2> QED
    BY <1>2, <2>1, EmitSound
<1> HIDE DEF d1, d2, d3
<1>6. DispatchProtocolData(k, c, s, chunk) \in {d1, d2, k1, d3, k}
  BY Zenon DEF DispatchProtocolData, d1, d2, d3
<1> QED
  BY <1>2, <1>3, <1>4, <1>5, <1>6

\* handle_stream_remote_write_closed
LEMMA RemoteClosedSound ==
    ASSUME NEW O, NEW R, NEW L, NEW k, Sound(k, O, R, L), NEW c \in Conns, c \in L,
           NEW s \in StreamIds, <<c, s>> \in O, NEW decoded \in IdentifyInfo \cup {Malformed}
    PROVE  Sound(HandleStreamRemoteWriteClosed(k, c, s, decoded), O, R, L)
<1> PICK k1 : k1 = EnsurePeerIdForConn(k, c)
  OBVIOUS
<1> PICK p \in PeerIds : p = k1.conn_to_peer[c]
  BY EnsureSound
<1>1. EnsuredPeer(k1, c, p, O, R, L)
  BY EnsureSound DEF EnsuredPeer
<1>2. /\ Sound(k1, O, R, L) /\ Good(k1, O, L) /\ k1 \in CoreState
      /\ k1.ping[p] \in Ping!PeerPingState
      /\ k1.identify[p] \in Identify!PeerIdentifyState
      /\ Routes(k1, p, s, O)
      /\ AuthAtHandshake => k1.peer_to_conn[p] # None
  BY <1>1, EnsuredFacts
<1> DEFINE d1 == DrainPing(k1, p, Ping!OnStreamRemoteWriteClosed(k1.ping[p], p, s))
           d2 == DrainIdentify(k1, p, s,
                   Identify!OnStreamRemoteWriteClosed(k1.identify[p], s, decoded))
           d3 == Emit(k1, "UserStreamRemoteWriteClosed", p, s)
<1>3. Sound(d1, O, R, L)
  <2> PICK r : r = Ping!OnStreamRemoteWriteClosed(k1.ping[p], p, s)
    OBVIOUS
  <2>1. PingResult(k1.ping[p], r) /\ Shrinks(k1.ping[p], r.st)
    BY <1>2, PingEnds
  <2> QED
    BY <1>2, <2>1, DrainPingSound
<1>4. Sound(d2, O, R, L)
  <2> PICK r : r = Identify!OnStreamRemoteWriteClosed(k1.identify[p], s, decoded)
    OBVIOUS
  <2>1. IdentifyResult(r) /\ Shrinks(k1.identify[p], r.st)
    BY <1>2, IdentifyHandlers
  <2> QED
    BY <1>2, <2>1, DrainIdentifySound
<1>5. Sound(d3, O, R, L)
  <2>1. Event("UserStreamRemoteWriteClosed", p, s) \in SwarmHeard
    BY DEF Event, SwarmHeard, SwarmEvent, EventKinds
  <2> QED
    BY <1>2, <2>1, EmitSound
<1> HIDE DEF d1, d2, d3
<1>6. HandleStreamRemoteWriteClosed(k, c, s, decoded) \in {d1, d2, k1, d3, k}
  BY Zenon DEF HandleStreamRemoteWriteClosed, d1, d2, d3
<1> QED
  BY <1>2, <1>3, <1>4, <1>5, <1>6

\* handle_stream_closed: the stream is in no table and known to no protocol.
LEMMA StreamClosedSound ==
    ASSUME NEW O, NEW R, NEW L, NEW k, Sound(k, O, R, L), NEW c \in Conns,
           NEW s \in StreamIds, <<c, s>> \in O, NEW R2, R2 = R \ {<<c, s>>}
    PROVE  Sound(HandleStreamClosed(k, c, s), O, R2, L)
<1> PICK kind : kind = k.stream_owner[<<c, s>>]
  OBVIOUS
<1> PICK p : p = k.conn_to_peer[c]
  OBVIOUS
<1>0. k \in CoreState /\ HasMaps(k) /\ <<c, s>> \in StreamKeys /\ Good(k, O, L) /\ Mapped(k, L)
  BY GoodMaps DEF Sound, StreamKeys
<1> PICK f : f = [k.stream_owner EXCEPT ![<<c, s>>] = None]
  OBVIOUS
<1>1. /\ f \in [StreamKeys -> ProtocolKind \cup {None}] /\ f[<<c, s>>] = None
      /\ \A cs \in StreamKeys : cs # <<c, s>> => f[cs] = k.stream_owner[cs]
  BY <1>0 DEF CoreState
<1> PICK k1 : k1 = SetOwner(k, c, s, None)
  OBVIOUS
<1>2. /\ k1 \in CoreState /\ SameMaps(k, k1) /\ k1.actions = k.actions /\ k1.events = k.events
      /\ \A q \in PeerIds : SamePeer(k, k1, q)
      /\ k1.stream_owner = f /\ k1.inbound_negotiators = k.inbound_negotiators
      /\ k1.outbound_negotiators = k.outbound_negotiators /\ k1.pending_opens = k.pending_opens
      /\ k1.ping = k.ping /\ k1.identify = k.identify
  <2>1. k1 = [k EXCEPT !.stream_owner = f]
    BY DEF SetOwner
  <2> QED
    BY <1>0, <1>1, <2>1 DEF CoreState, SameMaps, SamePeer
<1>3. Good(k1, O, L)
  <2>1. Typed(k1) /\ ActionsIn(k1, O) /\ OpensIn(k1, L)
    BY <1>0, <1>2 DEF Good, Typed, ActionsIn, OpensIn
  <2>2. TablesIn(k1, O)
    BY <1>0, <1>1, <1>2 DEF Good, TablesIn, InTable
  <2> QED
    BY <2>1, <2>2 DEF Good
<1>4. p # None => p \in PeerIds /\ Routes(k1, p, s, O)
  <2>1. ASSUME p # None PROVE p \in PeerIds /\ Routes(k, p, s, O)
    <3>1. p \in PeerIds
      BY <1>0, <2>1 DEF HasMaps
    <3>2. AuthAtHandshake => k.peer_to_conn[p] = c
      BY <1>0, <2>1 DEF Mapped, Paired, NoOrphan
    <3> QED
      BY <3>1, <3>2, RoutesOf
  <2> QED
    BY <1>2, <2>1 DEF Routes, SameMaps
<1> DEFINE r1 == Ping!OnStreamClosed(k1.ping[p], s)
           r2 == Identify!OnStreamClosed(k1.identify[p], s)
           d1 == DrainPing(k1, p, r1)
           d2 == DrainIdentify(k1, p, s, r2)
           d3 == Emit(k1, "UserStreamClosed", p, s)
           k2 == CASE kind = "Ping" /\ p # None -> d1
                   [] kind \in {"IdentifyInitiator", "IdentifyResponder"} /\ p # None -> d2
                   [] kind = "User" /\ p # None -> d3
                   [] OTHER -> k1
           After(j) ==
             /\ Good(j, O, L) /\ SameTables(k1, j) /\ SameMaps(k1, j)
             /\ \A q \in PeerIds : /\ Shrinks(k1.ping[q], j.ping[q])
                                   /\ Shrinks(k1.identify[q], j.identify[q])
                                   /\ q # p => SamePeer(k1, j, q)
<1>5. ASSUME p # None
      PROVE  After(d1) /\ ~Ping!IsKnown(d1.ping[p], s)
  <2>1. k1.ping[p] \in Ping!PeerPingState
    BY <1>2, <1>4, <1>5 DEF CoreState
  <2>2. PingResult(k1.ping[p], r1) /\ Shrinks(k1.ping[p], r1.st) /\ ~Ping!IsKnown(r1.st, s)
    BY <1>4, <1>5, <2>1, PingEnds
  <2> HIDE DEF r1
  <2>3. Pinged(k1, d1, p, r1.st, O, L)
    BY <1>3, <1>4, <1>5, <2>2, DrainPingIs
  <2> HIDE DEF d1
  <2> QED
    BY <2>2, <2>3 DEF Pinged, SamePeer, Shrinks
<1>6. ASSUME p # None
      PROVE  /\ After(d2) /\ d2.identify[p].outbound_stream # s
             /\ s \notin d2.identify[p].inbound_streams
  <2>1. k1.identify[p] \in Identify!PeerIdentifyState
    BY <1>2, <1>4, <1>6 DEF CoreState
  <2>2. /\ IdentifyResult(r2) /\ Shrinks(k1.identify[p], r2.st)
        /\ r2.st.outbound_stream # s /\ s \notin r2.st.inbound_streams
    BY <2>1, IdentifyHandlers
  <2> HIDE DEF r2
  <2>3. Identified(k1, d2, p, r2.st, O, L)
    BY <1>3, <1>4, <1>6, <2>2, DrainIdentifyIs
  <2> HIDE DEF d2
  <2> QED
    BY <2>2, <2>3 DEF Identified, SamePeer, Shrinks
<1>7. ASSUME p # None PROVE After(d3)
  <2>1. Event("UserStreamClosed", p, s) \in SwarmHeard
    BY <1>4, <1>7, CoreStreamsAssumption DEF Event, SwarmHeard, SwarmEvent, EventKinds
  <2>2. Outputs(k1, d3, O, L) /\ SameMaps(k1, d3)
    BY <1>3, <2>1, EmitOut, EmitSame, GoodMaps
  <2> HIDE DEF d3
  <2> QED
    BY <2>2 DEF Outputs, SamePeer, Shrinks
<1>8. After(k1)
  BY <1>3 DEF SameTables, SameMaps, SamePeer, Shrinks
<1> HIDE DEF d1, d2, d3
<1>9. /\ k2 \in {d1, d2, d3, k1}
      /\ kind = "Ping" /\ p # None => k2 = d1
      /\ kind \in {"IdentifyInitiator", "IdentifyResponder"} /\ p # None => k2 = d2
      /\ p = None => k2 = k1
  <2>1. CASE p = None
    BY <2>1
  <2>2. CASE p # None
    BY <2>2
  <2> QED
    BY <2>1, <2>2
<1>10. HandleStreamClosed(k, c, s) =
         [k2 EXCEPT !.inbound_negotiators  = @ \ {<<c, s>>},
                    !.outbound_negotiators = [@ EXCEPT ![<<c, s>>] = None]]
  BY DEF HandleStreamClosed, k2, d1, d2, d3, r1, r2
<1> HIDE DEF k2
<1>11. /\ After(k2)
       /\ kind = "Ping" /\ p # None => ~Ping!IsKnown(k2.ping[p], s)
       /\ kind \in {"IdentifyInitiator", "IdentifyResponder"} /\ p # None =>
            /\ k2.identify[p].outbound_stream # s
            /\ s \notin k2.identify[p].inbound_streams
  <2> HIDE DEF After
  <2> QED
    BY <1>5, <1>6, <1>7, <1>8, <1>9
<1> PICK j : j = HandleStreamClosed(k, c, s)
  OBVIOUS
<1>12. k2 \in CoreState /\ HasMaps(k2)
  BY <1>11, GoodMaps
<1> PICK g : g = [k2.outbound_negotiators EXCEPT ![<<c, s>>] = None]
  OBVIOUS
<1>13. /\ g \in [StreamKeys -> ProtocolKind \cup {None}] /\ g[<<c, s>>] = None
       /\ \A cs \in StreamKeys : cs # <<c, s>> => g[cs] = k.outbound_negotiators[cs]
  BY <1>0, <1>2, <1>11, <1>12 DEF CoreState, SameTables
<1>14. /\ j \in CoreState /\ SameMaps(k2, j) /\ j.actions = k2.actions /\ j.events = k2.events
       /\ j.ping = k2.ping /\ j.identify = k2.identify /\ j.pending_pings = k2.pending_pings
       /\ j.peer_info = k2.peer_info
       /\ j.stream_owner = k2.stream_owner /\ j.inbound_negotiators = k2.inbound_negotiators \ {<<c, s>>}
       /\ j.outbound_negotiators = g /\ j.pending_opens = k2.pending_opens
  <2> PICK h \in SUBSET StreamKeys : h = k2.inbound_negotiators \ {<<c, s>>}
    BY <1>12 DEF CoreState
  <2>1. j = [k2 EXCEPT !.inbound_negotiators = h, !.outbound_negotiators = g]
    BY <1>10
  <2>2. j \in CoreState
    BY <1>12, <1>13, <2>1 DEF CoreState
  <2> QED
    BY <1>12, <2>1, <2>2 DEF CoreState, SameMaps
<1>15. /\ j.stream_owner = f /\ j.inbound_negotiators = k.inbound_negotiators \ {<<c, s>>}
       /\ j.pending_opens = k.pending_opens /\ SameMaps(k, j)
       /\ \A q \in PeerIds : /\ Shrinks(k.ping[q], j.ping[q])
                             /\ Shrinks(k.identify[q], j.identify[q])
                             /\ q # p => SamePeer(k, j, q)
  BY <1>2, <1>11, <1>14 DEF SameTables, SameMaps, SamePeer
<1> HIDE DEF After
<1>16. ~InTable(j, <<c, s>>) /\ \A cs \in StreamKeys : InTable(j, cs) => InTable(k, cs)
  BY <1>1, <1>13, <1>14, <1>15 DEF InTable
<1>17. TablesIn(j, R2) /\ TablesIn(j, O)
  BY <1>16 DEF TablesIn, Sound, Good
<1>18. Exclusive(j)
  BY <1>1, <1>13, <1>14, <1>15 DEF Sound, Exclusive
<1>19. Good(j, O, L)
  <2>1. Good(k2, O, L)
    BY <1>11 DEF After
  <2> QED
    BY <1>14, <1>17, <2>1 DEF Good, Typed, ActionsIn, OpensIn
<1>20. Mapped(j, L)
  BY <1>0, <1>15, MappedSame
<1>21. ASSUME AuthAtHandshake PROVE Owned(j)
  <2> SUFFICES ASSUME NEW q \in PeerIds, NEW t \in StreamIds PROVE OwnedAt(j, q, t)
    BY DEF Owned
  <2>1. OwnedAt(k, q, t) /\ Shrinks(k.ping[q], j.ping[q]) /\ Shrinks(k.identify[q], j.identify[q])
    BY <1>15, <1>21 DEF Sound, Owned
  <2>2. CASE k.peer_to_conn[q] # c \/ t # s
    <3>1. \A x \in ProtocolKind : OwnedBy(k, q, t, x) => OwnedBy(j, q, t, x)
      <4>1. k.peer_to_conn[q] # None =>
              /\ <<k.peer_to_conn[q], t>> \in StreamKeys
              /\ <<k.peer_to_conn[q], t>> # <<c, s>>
        BY <1>0, <2>2 DEF HasMaps, StreamKeys
      <4> QED
        BY <1>1, <1>15, <4>1 DEF OwnedBy, SameMaps
    <3> QED
      BY <2>1, <3>1, OwnedLess
  <2>3. CASE k.peer_to_conn[q] = c /\ t = s
    <3>1. q = p /\ p # None
      BY <1>0, <2>3, PeersAssumption, ConnsAssumption DEF Mapped, MapsAgree
    <3>2. /\ Ping!IsKnown(j.ping[q], s) => kind = "Ping"
          /\ j.identify[q].outbound_stream = s => kind = "IdentifyResponder"
          /\ s \in j.identify[q].inbound_streams => kind = "IdentifyInitiator"
      BY <2>1, <2>3, CoreStreamsAssumption DEF OwnedAt, OwnedBy, Shrinks, Ping!IsKnown
    <3> QED
      BY <1>11, <1>14, <2>3, <3>1, <3>2 DEF OwnedAt
  <2> QED
    BY <2>2, <2>3
<1>22. ASSUME AuthAtHandshake PROVE Bare(j)
  <2> SUFFICES ASSUME NEW q \in PeerIds, j.peer_to_conn[q] = None PROVE IsBare(j, q)
    BY DEF Bare
  <2>1. k.peer_to_conn[q] = None /\ IsBare(k, q)
    BY <1>15, <1>22 DEF SameMaps, Sound, Bare
  <2>2. q # p
    BY <1>0, <1>22, <2>1, ConnsAssumption, PeersAssumption DEF Mapped, Paired, NoOrphan
  <2> QED
    BY <1>15, <2>1, <2>2 DEF IsBare, SamePeer
<1>23. ASSUME AuthAtHandshake PROVE Single(j)
  <2>1. ASSUME NEW d \in Conns, NEW t \in Dialing(j, d) PROVE t \in Dialing(k, d)
    <3>1. t \in StreamIds /\ <<d, t>> \in StreamKeys /\ g[<<d, t>>] = "Ping"
      BY <1>14, <2>1 DEF Dialing, StreamKeys
    <3>2. <<d, t>> # <<c, s>>
      BY <1>13, <3>1, AbsentAssumption DEF ProtocolKind
    <3> QED
      BY <1>13, <3>1, <3>2 DEF Dialing
  <2>2. ASSUME NEW d \in Conns
        PROVE  Opening(j, d) \subseteq Opening(k, d) /\ Pinging(j, d) \subseteq Pinging(k, d)
    <3>1. Pinging(j, d) \subseteq Pinging(k, d)
      BY <1>0, <1>15, PingingLess
    <3> QED
      BY <1>15, <3>1 DEF Opening
  <2>3. Single(k)
    BY <1>23 DEF Sound
  <2> QED
    BY ONLY <2>1, <2>2, <2>3, SingleLess
<1>24. Scope(O, R2, L)
  BY DEF Sound, Scope
<1> QED
  BY <1>17, <1>18, <1>19, <1>20, <1>21, <1>22, <1>23, <1>24 DEF Sound

-----------------------------------------------------------------------------
(* Negotiated streams.                                                     *)

\* From k to st, p's ping handler learns of stream s of c at most, and of an
\* outbound stream only if there was none.
Learns(k, p, c, s, st) ==
    /\ k.stream_owner[<<c, s>>] = "Ping"
    /\ AuthAtHandshake => k.peer_to_conn[p] = c
    /\ st.outbound_stream \in {k.ping[p].outbound_stream, None, s}
    /\ st.inbound_streams \subseteq k.ping[p].inbound_streams \cup {s}
    /\ AuthAtHandshake =>
         NoPing(k, c) \/ st.outbound_stream \in {k.ping[p].outbound_stream, None}

\* Ping learns of a stream that the swarm has just given it.
LEMMA PingedSound ==
    ASSUME NEW O, NEW R, NEW L, NEW k, Sound(k, O, R, L), NEW p \in PeerIds, NEW c \in Conns,
           NEW s \in StreamIds, NEW j, NEW st, Pinged(k, j, p, st, O, L), Learns(k, p, c, s, st)
    PROVE  Sound(j, O, R, L)
<1>0. k \in CoreState /\ HasMaps(k) /\ Mapped(k, L)
  BY GoodMaps DEF Sound
<1>1. TablesIn(j, R) /\ Exclusive(j)
  BY DEF Sound, Pinged, SameTables, TablesIn, InTable, Exclusive
<1>2. Mapped(j, L)
  BY <1>0, MappedSame DEF Pinged
<1>3. ASSUME AuthAtHandshake PROVE Owned(j)
  <2> SUFFICES ASSUME NEW q \in PeerIds, NEW t \in StreamIds PROVE OwnedAt(j, q, t)
    BY DEF Owned
  <2>1. OwnedAt(k, q, t)
    BY <1>3 DEF Sound, Owned
  <2>2. \A x : OwnedBy(k, q, t, x) => OwnedBy(j, q, t, x)
    BY DEF OwnedBy, Pinged, SameTables, SameMaps
  <2>3. CASE q # p
    BY <2>1, <2>2, <2>3 DEF OwnedAt, Pinged, SamePeer
  <2>4. CASE q = p
    <3>1. Ping!IsKnown(j.ping[p], t) => Ping!IsKnown(k.ping[p], t) \/ t = s
      BY CoreStreamsAssumption DEF Pinged, Ping!IsKnown, Learns
    <3>2. OwnedBy(k, p, s, "Ping")
      BY <1>3, ConnsAssumption DEF OwnedBy, Learns
    <3> QED
      BY <2>1, <2>2, <2>4, <3>1, <3>2 DEF OwnedAt, Pinged
  <2> QED
    BY <2>3, <2>4
<1>4. ASSUME AuthAtHandshake PROVE Bare(j)
  <2> SUFFICES ASSUME NEW q \in PeerIds, j.peer_to_conn[q] = None PROVE IsBare(j, q)
    BY DEF Bare
  <2>1. k.peer_to_conn[q] = None /\ IsBare(k, q) /\ q # p
    BY <1>4, ConnsAssumption DEF Pinged, SameMaps, Sound, Bare, Learns
  <2> QED
    BY <2>1 DEF IsBare, Pinged, SamePeer
<1>5. ASSUME AuthAtHandshake PROVE Single(j)
  <2> SUFFICES ASSUME NEW d \in Conns PROVE AtMostOne(Opening(j, d), Dialing(j, d), Pinging(j, d))
    BY DEF Single
  <2>1. AtMostOne(Opening(k, d), Dialing(k, d), Pinging(k, d))
    BY <1>5 DEF Sound, Single
  <2>2. Opening(j, d) = Opening(k, d) /\ Dialing(j, d) = Dialing(k, d)
    BY DEF Opening, Dialing, Pinged, SameTables
  <2>3. CASE d = c /\ NoPing(k, c)
    <3>1. \A x, y \in Pinging(j, d) : x = y
      BY DEF Pinging
    <3> QED
      BY <2>2, <2>3, <3>1 DEF NoPing, AtMostOne
  <2>4. CASE d # c \/ ~NoPing(k, c)
    <3>1. Pinging(j, d) \subseteq Pinging(k, d)
      <4> SUFFICES ASSUME NEW t \in StreamIds, k.conn_to_peer[d] # None,
                          j.ping[k.conn_to_peer[d]].outbound_stream = t
                   PROVE  k.ping[k.conn_to_peer[d]].outbound_stream = t
        BY DEF Pinging, Pinged, SameMaps
      <4> PICK q \in PeerIds : q = k.conn_to_peer[d]
        BY <1>0 DEF HasMaps
      <4>1. CASE q # p
        BY <4>1 DEF Pinged, SamePeer
      <4>2. CASE q = p
        <5>1. d = c
          BY <1>0, <1>5, <4>2 DEF Mapped, Paired, NoOrphan, Learns
        <5> QED
          BY <1>5, <2>4, <4>2, <5>1, CoreStreamsAssumption DEF Pinged, Learns
      <4> QED
        BY <4>1, <4>2
    <3> QED
      BY <2>1, <2>2, <3>1 DEF AtMostOne
  <2> QED
    BY <2>3, <2>4
<1>6. Good(j, O, L)
  BY DEF Pinged
<1> QED
  BY <1>1, <1>2, <1>3, <1>4, <1>5, <1>6 DEF Sound

\* Stream s of c is new to Identify's state of p, and the swarm has given it.
Hears(k, p, c, s, st) ==
    /\ \/ st.outbound_stream = k.identify[p].outbound_stream
       \/ st.outbound_stream = s /\ k.stream_owner[<<c, s>>] = "IdentifyResponder"
    /\ \/ st.inbound_streams = k.identify[p].inbound_streams
       \/ /\ st.inbound_streams = k.identify[p].inbound_streams \cup {s}
          /\ k.stream_owner[<<c, s>>] = "IdentifyInitiator"

\* Identify learns of a stream that the swarm has just given it.
LEMMA IdentifiedSound ==
    ASSUME NEW O, NEW R, NEW L, NEW k, Sound(k, O, R, L), NEW p \in PeerIds, NEW c \in Conns,
           NEW s \in StreamIds, AuthAtHandshake => k.peer_to_conn[p] = c,
           NEW j, NEW st, Identified(k, j, p, st, O, L), Hears(k, p, c, s, st)
    PROVE  Sound(j, O, R, L)
<1>0. k \in CoreState /\ HasMaps(k) /\ Mapped(k, L)
  BY GoodMaps DEF Sound
<1>1. TablesIn(j, R) /\ Exclusive(j)
  BY DEF Sound, Identified, SameTables, TablesIn, InTable, Exclusive
<1>2. Mapped(j, L)
  BY <1>0, MappedSame DEF Identified
<1>3. ASSUME AuthAtHandshake PROVE Owned(j)
  <2> SUFFICES ASSUME NEW q \in PeerIds, NEW t \in StreamIds PROVE OwnedAt(j, q, t)
    BY DEF Owned
  <2>1. OwnedAt(k, q, t)
    BY <1>3 DEF Sound, Owned
  <2>2. \A x : OwnedBy(k, q, t, x) => OwnedBy(j, q, t, x)
    BY DEF OwnedBy, Identified, SameTables, SameMaps
  <2>3. CASE q # p
    BY <2>1, <2>2, <2>3 DEF OwnedAt, Identified, SamePeer
  <2>4. CASE q = p
    <3>1. /\ st.outbound_stream = t => OwnedBy(k, p, t, "IdentifyResponder")
          /\ t \in st.inbound_streams => OwnedBy(k, p, t, "IdentifyInitiator")
      BY <1>3, <2>1, <2>4, ConnsAssumption DEF OwnedAt, OwnedBy, Hears
    <3> QED
      BY <2>1, <2>2, <2>4, <3>1 DEF OwnedAt, Identified
  <2> QED
    BY <2>3, <2>4
<1>4. ASSUME AuthAtHandshake PROVE Bare(j)
  <2> SUFFICES ASSUME NEW q \in PeerIds, j.peer_to_conn[q] = None PROVE IsBare(j, q)
    BY DEF Bare
  <2>1. k.peer_to_conn[q] = None /\ IsBare(k, q) /\ q # p
    BY <1>4, ConnsAssumption DEF Identified, SameMaps, Sound, Bare
  <2> QED
    BY <2>1 DEF IsBare, Identified, SamePeer
<1>5. ASSUME AuthAtHandshake PROVE Single(j)
  <2>1. Single(k)
    BY <1>5 DEF Sound
  <2>2. ASSUME NEW d \in Conns
        PROVE  /\ Opening(j, d) \subseteq Opening(k, d)
               /\ Dialing(j, d) \subseteq Dialing(k, d)
    BY DEF Opening, Dialing, Identified, SameTables
  <2>3. ASSUME NEW d \in Conns PROVE Pinging(j, d) \subseteq Pinging(k, d)
    <3>1. \A q \in PeerIds : Shrinks(k.ping[q], j.ping[q])
      BY DEF Identified, SamePeer, Shrinks
    <3> QED
      BY <1>0, <3>1, PingingLess DEF Identified
  <2> QED
    BY ONLY <2>1, <2>2, <2>3, SingleLess
<1>6. Good(j, O, L)
  BY DEF Identified
<1> QED
  BY <1>1, <1>2, <1>3, <1>4, <1>5, <1>6 DEF Sound

\* A ping is queued for the peer, or taken from the queue.
LEMMA PendingSound ==
    ASSUME NEW O, NEW R, NEW L, NEW k, Sound(k, O, R, L), NEW p \in PeerIds,
           NEW x \in Payloads \cup {None}, AuthAtHandshake => k.peer_to_conn[p] # None,
           NEW j, j = [k EXCEPT !.pending_pings = [@ EXCEPT ![p] = x]]
    PROVE  /\ Sound(j, O, R, L) /\ SameMaps(k, j) /\ SameTables(k, j) /\ j.ping = k.ping
           /\ j.pending_pings[p] = x
<1>0. k \in CoreState /\ HasMaps(k) /\ Good(k, O, L)
  BY GoodMaps DEF Sound
<1> PICK f : f = [k.pending_pings EXCEPT ![p] = x]
  OBVIOUS
<1>1. f \in [PeerIds -> Payloads \cup {None}] /\ f[p] = x /\ \A q \in PeerIds : q # p => f[q] = k.pending_pings[q]
  BY <1>0 DEF CoreState
<1>2. /\ j \in CoreState /\ SameMaps(k, j) /\ SameTables(k, j) /\ j.actions = k.actions /\ j.events = k.events
      /\ j.ping = k.ping /\ j.identify = k.identify /\ j.peer_info = k.peer_info /\ j.pending_pings = f
  BY <1>0, <1>1 DEF CoreState, SameMaps, SameTables
<1>3. Typed(j) /\ ActionsIn(j, O)
  BY <1>0, <1>2 DEF Good, Typed, ActionsIn
<1>4. Good(j, O, L)
  BY <1>0, <1>2, <1>3, SameGood
<1>5. Acts(k, j, p, O, L)
  BY <1>1, <1>2, <1>4 DEF Acts, SamePeer, Shrinks
<1> QED
  BY <1>1, <1>2, <1>5, SoundActs

\* The deferred ping fires.
LEMMA DeferredSound ==
    ASSUME NEW O, NEW R, NEW L, NEW k, Sound(k, O, R, L), NEW p \in PeerIds,
           AuthAtHandshake => k.peer_to_conn[p] # None
    PROVE  Sound(SendDeferredPing(k, p), O, R, L)
<1>1. CASE k.pending_pings[p] = None
  BY <1>1 DEF SendDeferredPing
<1>2. CASE k.pending_pings[p] # None
  <2>0. k \in CoreState
    BY GoodMaps DEF Sound
  <2> PICK payload \in Payloads : payload = k.pending_pings[p]
    BY <1>2, <2>0 DEF CoreState
  <2> PICK k1 : k1 = [k EXCEPT !.pending_pings = [@ EXCEPT ![p] = None]]
    OBVIOUS
  <2> PICK r : r = Ping!SendPing(k.ping[p], p, payload)
    OBVIOUS
  <2>1. Sound(k1, O, R, L) /\ SameMaps(k, k1) /\ k1.ping = k.ping
    BY PendingSound
  <2>2. PingResult(k1.ping[p], r) /\ Shrinks(k1.ping[p], r.st)
    BY <2>0, <2>1, PingSends DEF CoreState
  <2>3. AuthAtHandshake => k1.peer_to_conn[p] # None
    BY <2>1 DEF SameMaps
  <2>4. Sound(DrainPing(k1, p, r), O, R, L)
    BY <2>1, <2>2, <2>3, DrainPingSound
  <2>5. Sound(EmitError(k1, "Ping", p), O, R, L)
    BY <2>1, ErrorSound DEF ErrorKinds
  <2> QED
    BY <1>2, <2>4, <2>5 DEF SendDeferredPing
<1> QED
  BY <1>1, <1>2

\* on_inbound_negotiated
LEMMA InboundSound ==
    ASSUME NEW O, NEW R, NEW L, NEW k, Sound(k, O, R, L), NEW c \in Conns, NEW s \in StreamIds,
           <<c, s>> \in R, ~InTable(k, <<c, s>>), NEW protocol \in {"Ping", "Identify", "User"}
    PROVE  Sound(OnInboundNegotiated(k, c, s, protocol), O, R, L)
<1>0. c \in L /\ <<c, s>> \in O
  BY DEF Sound, Scope
<1> PICK k1 : k1 = EnsurePeerIdForConn(k, c)
  OBVIOUS
<1> PICK p \in PeerIds : p = k1.conn_to_peer[c]
  BY <1>0, EnsureSound
<1>1. EnsuredPeer(k1, c, p, O, R, L) /\ SameTables(k, k1)
  BY <1>0, EnsureSound DEF EnsuredPeer
<1>2. /\ Sound(k1, O, R, L) /\ Good(k1, O, L) /\ k1 \in CoreState
      /\ k1.ping[p] \in Ping!PeerPingState
      /\ k1.identify[p] \in Identify!PeerIdentifyState
      /\ Routes(k1, p, s, O)
      /\ AuthAtHandshake => k1.peer_to_conn[p] # None
  BY <1>0, <1>1, EnsuredFacts
<1>3. ~InTable(k1, <<c, s>>)
  BY <1>1 DEF SameTables, InTable
<1>4. ASSUME NEW kind \in ProtocolKind, NEW o, o = SetOwner(k1, c, s, kind)
      PROVE  /\ Sound(o, O, R, L) /\ SameMaps(k1, o) /\ o.stream_owner[<<c, s>>] = kind
             /\ o.ping[p] = k1.ping[p] /\ o.identify[p] = k1.identify[p]
             /\ Routes(o, p, s, O) /\ Good(o, O, L)
             /\ AuthAtHandshake => o.peer_to_conn[p] = c
  BY <1>1, <1>2, <1>3, <1>4, SetOwnerSound DEF SamePeer, Routes, SameMaps, EnsuredPeer, Sound
<1> PICK r : r = Identify!RegisterOutboundStream(k1.identify[p], s)
  OBVIOUS
<1>5. /\ IdentifyResult(r) /\ r.st.inbound_streams = k1.identify[p].inbound_streams
      /\ r.st.outbound_stream \in {k1.identify[p].outbound_stream, s}
  BY <1>2, IdentifyHandlers
<1>6. CASE protocol = "Ping"
  <2> PICK o : o = SetOwner(k1, c, s, "Ping")
    OBVIOUS
  <2>1. /\ Sound(o, O, R, L) /\ o.stream_owner[<<c, s>>] = "Ping"
        /\ o.ping[p] = k1.ping[p] /\ Good(o, O, L)
        /\ AuthAtHandshake => o.peer_to_conn[p] = c
    BY <1>4 DEF ProtocolKind
  <2> PICK q : q = Ping!RegisterInboundStream(o.ping[p], p, s)
    OBVIOUS
  <2>2. /\ PingResult(o.ping[p], q) /\ q.st.outbound_stream = o.ping[p].outbound_stream
        /\ q.st.inbound_streams \subseteq o.ping[p].inbound_streams \cup {s}
    BY <1>2, <2>1, PingRegisters
  <2> PICK j : j = DrainPing(o, p, q)
    OBVIOUS
  <2> PICK st : st = q.st
    OBVIOUS
  <2>3. Pinged(o, j, p, st, O, L)
    BY <2>1, <2>2, DrainPingIs
  <2>a. Learns(o, p, c, s, st)
    BY <2>1, <2>2 DEF Learns
  <2>4. Sound(j, O, R, L)
    BY <2>1, <2>3, <2>a, PingedSound
  <2>5. OnInboundNegotiated(k, c, s, protocol) = j
    BY <1>6 DEF OnInboundNegotiated
  <2> QED
    BY <2>4, <2>5
<1>7. CASE protocol = "Identify" /\ r.ok
  <2> PICK o : o = SetOwner(k1, c, s, "IdentifyResponder")
    OBVIOUS
  <2>1. /\ Sound(o, O, R, L) /\ o.stream_owner[<<c, s>>] = "IdentifyResponder"
        /\ o.identify[p] = k1.identify[p] /\ Good(o, O, L) /\ Routes(o, p, s, O)
        /\ AuthAtHandshake => o.peer_to_conn[p] = c
    BY <1>4 DEF ProtocolKind
  <2> PICK j : j = DrainIdentify(o, p, s, r)
    OBVIOUS
  <2> PICK st : st = r.st
    OBVIOUS
  <2>2. Identified(o, j, p, st, O, L)
    BY <1>5, <2>1, DrainIdentifyIs
  <2>a. Hears(o, p, c, s, st)
    BY <1>5, <2>1 DEF Hears
  <2>3. Sound(j, O, R, L)
    BY <2>1, <2>2, <2>a, IdentifiedSound
  <2>4. OnInboundNegotiated(k, c, s, protocol) = j
    BY <1>7 DEF OnInboundNegotiated
  <2> QED
    BY <2>3, <2>4
<1>8. CASE protocol = "Identify" /\ ~r.ok
  <2> PICK e : e = EmitError(k1, "IdentifyStreamRejected", p)
    OBVIOUS
  <2>1. Sound(e, O, R, L)
    BY <1>2, ErrorSound DEF ErrorKinds
  <2>2. Sound(Act(e, "ResetStream", c, s), O, R, L)
    BY <1>0, <2>1, ActSound DEF StreamActions
  <2>3. OnInboundNegotiated(k, c, s, protocol) = Act(e, "ResetStream", c, s)
    BY <1>8 DEF OnInboundNegotiated
  <2> QED
    BY <2>2, <2>3
<1>9. CASE protocol = "User"
  <2> PICK o : o = SetOwner(k1, c, s, "User")
    OBVIOUS
  <2>1. Sound(o, O, R, L)
    BY <1>4 DEF ProtocolKind
  <2>2. Event("UserStreamReady", p, s) \in SwarmHeard
    BY CoreStreamsAssumption, PeersAssumption DEF Event, SwarmHeard, SwarmEvent, EventKinds
  <2>3. Sound(Emit(o, "UserStreamReady", p, s), O, R, L)
    BY <2>1, <2>2, EmitSound
  <2>4. OnInboundNegotiated(k, c, s, protocol) = Emit(o, "UserStreamReady", p, s)
    BY <1>9 DEF OnInboundNegotiated
  <2> QED
    BY <2>3, <2>4
<1> QED
  BY <1>6, <1>7, <1>8, <1>9

\* stream_owner.remove of a stream whose registration was refused
LEMMA DisownSound ==
    ASSUME NEW O, NEW R, NEW L, NEW k, Sound(k, O, R, L), NEW c \in Conns, NEW s \in StreamIds,
           ~AuthAtHandshake
    PROVE  Sound(SetOwner(k, c, s, None), O, R, L)
<1> PICK j : j = SetOwner(k, c, s, None)
  OBVIOUS
<1>0. k \in CoreState /\ HasMaps(k) /\ <<c, s>> \in StreamKeys /\ Good(k, O, L) /\ Mapped(k, L)
  BY GoodMaps DEF Sound, StreamKeys
<1> PICK f : f = [k.stream_owner EXCEPT ![<<c, s>>] = None]
  OBVIOUS
<1>1. /\ f \in [StreamKeys -> ProtocolKind \cup {None}] /\ f[<<c, s>>] = None
      /\ \A cs \in StreamKeys : cs # <<c, s>> => f[cs] = k.stream_owner[cs]
  BY <1>0 DEF CoreState
<1>2. /\ j \in CoreState /\ SameMaps(k, j) /\ j.actions = k.actions /\ j.events = k.events
      /\ j.stream_owner = f /\ j.inbound_negotiators = k.inbound_negotiators
      /\ j.outbound_negotiators = k.outbound_negotiators /\ j.pending_opens = k.pending_opens
  <2>1. j = [k EXCEPT !.stream_owner = f]
    BY DEF SetOwner
  <2> QED
    BY <1>0, <1>1, <2>1 DEF CoreState, SameMaps
<1>3. \A cs \in StreamKeys : InTable(j, cs) => InTable(k, cs)
  BY <1>1, <1>2 DEF InTable
<1>4. Good(j, O, L) /\ TablesIn(j, R)
  BY <1>0, <1>2, <1>3 DEF Good, Typed, ActionsIn, OpensIn, TablesIn, Sound
<1>5. Exclusive(j)
  BY <1>1, <1>2 DEF Sound, Exclusive
<1>6. Mapped(j, L)
  BY <1>0, <1>2, MappedSame
<1> QED
  BY <1>4, <1>5, <1>6 DEF Sound

\* on_outbound_negotiated
LEMMA OutboundSound ==
    ASSUME NEW O, NEW R, NEW L, NEW k, Sound(k, O, R, L), NEW c \in Conns, NEW s \in StreamIds,
           <<c, s>> \in R, ~InTable(k, <<c, s>>), NEW target \in ProtocolKind,
           AuthAtHandshake /\ target = "Ping" => NoPing(k, c)
    PROVE  Sound(OnOutboundNegotiated(k, c, s, target), O, R, L)
<1>0. c \in L /\ <<c, s>> \in O
  BY DEF Sound, Scope
<1> PICK k0 : k0 = EnsurePeerIdForConn(k, c)
  OBVIOUS
<1> PICK p \in PeerIds : p = k0.conn_to_peer[c]
  BY <1>0, EnsureSound
<1>1. /\ EnsuredPeer(k0, c, p, O, R, L) /\ SameTables(k, k0)
      /\ AuthAtHandshake /\ target = "Ping" => NoPing(k0, c)
  BY <1>0, EnsureSound DEF EnsuredPeer
<1>2. /\ Sound(k0, O, R, L) /\ Good(k0, O, L) /\ k0 \in CoreState
      /\ k0.ping[p] \in Ping!PeerPingState
      /\ k0.identify[p] \in Identify!PeerIdentifyState
      /\ Routes(k0, p, s, O)
      /\ AuthAtHandshake => k0.peer_to_conn[p] # None
  BY <1>0, <1>1, EnsuredFacts
<1>3. ~InTable(k0, <<c, s>>)
  BY <1>1 DEF SameTables, InTable
<1> PICK k1 : k1 = SetOwner(k0, c, s, target)
  OBVIOUS
<1>4. /\ Sound(k1, O, R, L) /\ SameMaps(k0, k1) /\ k1.stream_owner[<<c, s>>] = target
      /\ k1.ping[p] = k0.ping[p] /\ k1.identify[p] = k0.identify[p]
      /\ AuthAtHandshake /\ target = "Ping" => NoPing(k1, c)
  BY <1>1, <1>2, <1>3, SetOwnerSound DEF SamePeer
<1>5. /\ k1.conn_to_peer[c] = p /\ Routes(k1, p, s, O) /\ Good(k1, O, L)
      /\ AuthAtHandshake => k1.peer_to_conn[p] = c
  BY <1>1, <1>2, <1>4 DEF Routes, SameMaps, EnsuredPeer, Sound
<1> PICK r : r = Ping!RegisterOutboundStream(k1.ping[p], p, s)
  OBVIOUS
<1>6. /\ PingResult(k1.ping[p], r) /\ r.st.inbound_streams = k1.ping[p].inbound_streams
      /\ r.ok => r.st.outbound_stream = s
  BY <1>2, <1>4, PingRegisters
<1>7. CASE target = "Ping" /\ r.ok
  <2> PICK st : st = r.st
    OBVIOUS
  <2> PICK j : j = DrainPing(k1, p, r)
    OBVIOUS
  <2>1. Pinged(k1, j, p, st, O, L)
    BY <1>5, <1>6, DrainPingIs
  <2>2. Learns(k1, p, c, s, st)
    BY <1>4, <1>5, <1>6, <1>7 DEF Learns
  <2>3. Sound(j, O, R, L)
    BY <1>4, <2>1, <2>2, PingedSound
  <2>4. AuthAtHandshake => j.peer_to_conn[p] # None
    BY <1>5, <2>1, ConnsAssumption DEF Pinged, SameMaps
  <2>5. Sound(SendDeferredPing(j, p), O, R, L)
    BY <2>3, <2>4, DeferredSound
  <2>6. OnOutboundNegotiated(k, c, s, target) = SendDeferredPing(j, p)
    BY <1>5, <1>7 DEF OnOutboundNegotiated
  <2> QED
    BY <2>5, <2>6
<1>8. CASE target = "Ping" /\ ~r.ok
  <2>1. ~AuthAtHandshake
    <3> SUFFICES ASSUME AuthAtHandshake PROVE FALSE
      OBVIOUS
    <3>1. Pinging(k1, c) = {}
      BY <1>4, <1>8 DEF NoPing
    <3>2. k1.ping[p].outbound_stream \notin StreamIds
      BY <1>5, <3>1, PeersAssumption DEF Pinging
    <3>3. k1.ping[p].outbound_stream = None
      BY <1>2, <1>4, <3>2 DEF Ping!PeerPingState
    <3> QED
      BY <1>8, <3>3 DEF Ping!RegisterOutboundStream, Ping!Done
  <2> PICK e : e = EmitError(k1, "Ping", p)
    OBVIOUS
  <2>2. Sound(e, O, R, L)
    BY <1>4, ErrorSound DEF ErrorKinds
  <2> PICK d : d = SetOwner(e, c, s, None)
    OBVIOUS
  <2>3. Sound(d, O, R, L)
    BY <2>1, <2>2, DisownSound
  <2>4. Sound(Act(d, "ResetStream", c, s), O, R, L)
    BY <1>0, <2>3, ActSound DEF StreamActions
  <2>5. OnOutboundNegotiated(k, c, s, target) = Act(d, "ResetStream", c, s)
    BY <1>5, <1>8 DEF OnOutboundNegotiated
  <2> QED
    BY <2>4, <2>5
<1>9. CASE target = "IdentifyInitiator"
  <2> PICK q : q = Identify!RegisterInboundStream(k1.identify[p], s)
    OBVIOUS
  <2>1. /\ IdentifyResult(q) /\ q.st.outbound_stream = k1.identify[p].outbound_stream
        /\ q.st.inbound_streams = k1.identify[p].inbound_streams \cup {s}
    BY <1>2, <1>4, IdentifyHandlers
  <2> PICK j : j = DrainIdentify(k1, p, s, q)
    OBVIOUS
  <2> PICK st : st = q.st
    OBVIOUS
  <2>2. Identified(k1, j, p, st, O, L)
    BY <1>5, <2>1, DrainIdentifyIs
  <2>a. Hears(k1, p, c, s, st)
    BY <1>4, <1>9, <2>1 DEF Hears
  <2>3. Sound(j, O, R, L)
    BY <1>4, <1>5, <2>2, <2>a, IdentifiedSound
  <2>4. OnOutboundNegotiated(k, c, s, target) = j
    BY <1>5, <1>9 DEF OnOutboundNegotiated
  <2> QED
    BY <2>3, <2>4
<1>10. CASE target = "IdentifyResponder"
  BY <1>4, <1>10 DEF OnOutboundNegotiated
<1>11. CASE target = "User"
  <2>1. Event("UserStreamReady", p, s) \in SwarmHeard
    BY CoreStreamsAssumption, PeersAssumption DEF Event, SwarmHeard, SwarmEvent, EventKinds
  <2>2. Sound(Emit(k1, "UserStreamReady", p, s), O, R, L)
    BY <1>4, <2>1, EmitSound
  <2>3. OnOutboundNegotiated(k, c, s, target) = Emit(k1, "UserStreamReady", p, s)
    BY <1>5, <1>11 DEF OnOutboundNegotiated
  <2> QED
    BY <2>2, <2>3
<1> QED
  BY <1>7, <1>8, <1>9, <1>10, <1>11 DEF ProtocolKind

\* The data behind the negotiation.
LEMMA RestSound ==
    ASSUME NEW O, NEW R, NEW L, NEW k, Sound(k, O, R, L), NEW c \in Conns, c \in L,
           NEW s \in StreamIds, <<c, s>> \in O, NEW rest, rest # None => rest.len \in Nat
    PROVE  Sound(DispatchRest(k, c, s, rest), O, R, L)
BY DispatchSound DEF DispatchRest

\* feed_inbound_negotiator
LEMMA FeedInboundSound ==
    ASSUME NEW O, NEW R, NEW L, NEW k, Sound(k, O, R, L), NEW c \in Conns, NEW s \in StreamIds,
           <<c, s>> \in R, <<c, s>> \in k.inbound_negotiators,
           NEW outcome \in {"negotiated", "not_available", "error"}, NEW protocol,
           outcome = "negotiated" => protocol \in {"Ping", "Identify", "User"},
           NEW rest, rest # None => rest.len \in Nat
    PROVE  Sound(FeedInboundNegotiator(k, c, s, outcome, protocol, rest), O, R, L)
<1>0. c \in L /\ <<c, s>> \in O /\ <<c, s>> \in StreamKeys /\ k \in CoreState
  BY GoodMaps DEF Sound, Scope, StreamKeys
<1> PICK k1 : k1 = [k EXCEPT !.inbound_negotiators = @ \ {<<c, s>>}]
  OBVIOUS
<1>1. Sound(k1, O, R, L) /\ ~InTable(k1, <<c, s>>)
  BY <1>0, LeavesNegotiation
<1> PICK sent : sent = Act(k1, "SendStream", c, s)
  OBVIOUS
<1>2. Sound(sent, O, R, L) /\ Outputs(k1, sent, O, L)
  BY <1>0, <1>1, ActSound DEF StreamActions
<1>3. ~InTable(sent, <<c, s>>)
  BY <1>1, <1>2 DEF Outputs, SameTables, InTable
<1>4. CASE outcome = "negotiated"
  <2> PICK j : j = OnInboundNegotiated(sent, c, s, protocol)
    OBVIOUS
  <2>1. Sound(j, O, R, L)
    BY <1>2, <1>3, <1>4, InboundSound
  <2>2. Sound(DispatchRest(j, c, s, rest), O, R, L)
    BY <1>0, <2>1, RestSound
  <2> QED
    BY <1>4, <2>2 DEF FeedInboundNegotiator
<1>5. CASE outcome = "not_available"
  <2>1. Sound(Act(sent, "ResetStream", c, s), O, R, L)
    BY <1>0, <1>2, ActSound DEF StreamActions
  <2> QED
    BY <1>5, <2>1 DEF FeedInboundNegotiator
<1>6. CASE outcome = "error"
  <2> PICK p \in PeerIds \cup {None} : p = EstablishedPeerForConn(k, c)
    BY <1>0, EstablishedType
  <2> PICK e : e = EmitError(k1, "Multistream", p)
    OBVIOUS
  <2>1. Sound(e, O, R, L)
    BY <1>1, ErrorSound DEF ErrorKinds
  <2>2. Sound(Act(e, "ResetStream", c, s), O, R, L)
    BY <1>0, <2>1, ActSound DEF StreamActions
  <2> QED
    BY <1>6, <2>2 DEF FeedInboundNegotiator
<1> QED
  BY <1>4, <1>5, <1>6

\* feed_outbound_negotiator
LEMMA FeedOutboundSound ==
    ASSUME NEW O, NEW R, NEW L, NEW k, Sound(k, O, R, L), NEW c \in Conns, NEW s \in StreamIds,
           <<c, s>> \in R, k.outbound_negotiators[<<c, s>>] # None, NEW proposed \in BOOLEAN,
           NEW outcome \in {"waiting", "negotiated", "not_available", "error"},
           NEW rest, rest # None => rest.len \in Nat
    PROVE  Sound(FeedOutboundNegotiator(k, c, s, proposed, outcome, rest), O, R, L)
<1>0. c \in L /\ <<c, s>> \in O /\ <<c, s>> \in StreamKeys /\ k \in CoreState /\ Good(k, O, L)
  BY GoodMaps DEF Sound, Scope, StreamKeys
<1> PICK target \in ProtocolKind : target = k.outbound_negotiators[<<c, s>>]
  BY <1>0 DEF CoreState
<1> PICK k1 : k1 = IF proposed THEN Act(k, "SendStream", c, s) ELSE k
  OBVIOUS
<1>1. Sound(k1, O, R, L) /\ Outputs(k, k1, O, L)
  BY <1>0, ActSound, OutputsRefl DEF StreamActions
<1>2. k1.outbound_negotiators[<<c, s>>] = target /\ k1 \in CoreState
  BY <1>1, GoodMaps DEF Outputs, SameTables
<1> PICK k2 : k2 = [k1 EXCEPT !.outbound_negotiators = [@ EXCEPT ![<<c, s>>] = None]]
  OBVIOUS
<1>3. Sound(k2, O, R, L) /\ ~InTable(k2, <<c, s>>)
  BY <1>0, <1>1, <1>2, LeavesNegotiation, AbsentAssumption
<1>4. AuthAtHandshake /\ target = "Ping" => NoPing(k2, c)
  BY <1>1, <1>2, LastPing DEF Sound
<1> PICK p \in PeerIds \cup {None} : p = EstablishedPeerForConn(k, c)
  BY <1>0, EstablishedType
<1>5. CASE outcome = "waiting"
  BY <1>1, <1>5 DEF FeedOutboundNegotiator
<1>6. CASE outcome = "negotiated"
  <2> PICK j : j = OnOutboundNegotiated(k2, c, s, target)
    OBVIOUS
  <2>1. Sound(j, O, R, L)
    BY <1>3, <1>4, OutboundSound
  <2>2. Sound(DispatchRest(j, c, s, rest), O, R, L)
    BY <1>0, <2>1, RestSound
  <2> QED
    BY <1>6, <2>2 DEF FeedOutboundNegotiator
<1>7. CASE outcome \in {"not_available", "error"}
  <2>1. ASSUME NEW kind \in {"UnsupportedProtocol", "Multistream"}
        PROVE  Sound(Act(EmitError(k2, kind, p), "ResetStream", c, s), O, R, L)
    <3> PICK e : e = EmitError(k2, kind, p)
      OBVIOUS
    <3>1. Sound(e, O, R, L)
      BY <1>3, ErrorSound DEF ErrorKinds
    <3> QED
      BY <1>0, <3>1, ActSound DEF StreamActions
  <2> QED
    BY <1>7, <2>1 DEF FeedOutboundNegotiator
<1> QED
  BY <1>5, <1>6, <1>7

-----------------------------------------------------------------------------
(* Time and the application's calls.                                       *)

\* handle_tick
LEMMA TickSound ==
    ASSUME NEW O, NEW R, NEW L, NEW k, Sound(k, O, R, L), NEW p \in PeerIds,
           k.ping[p].outbound_stream # None
    PROVE  Sound(HandleTick(k, p), O, R, L)
<1>0. k \in CoreState
  BY GoodMaps DEF Sound
<1>1. k.ping[p] \in Ping!PeerPingState
  BY <1>0 DEF CoreState
<1> PICK s \in StreamIds : s = k.ping[p].outbound_stream
  BY <1>1 DEF Ping!PeerPingState
<1> PICK r : r = Ping!OnTick(k.ping[p], p)
  OBVIOUS
<1>2. PingResult(k.ping[p], r) /\ Shrinks(k.ping[p], r.st)
  BY <1>1, PingEnds
<1>3. AuthAtHandshake => k.peer_to_conn[p] # None
  BY DEF Sound, Owned, OwnedAt, OwnedBy, Ping!IsKnown
<1> QED
  BY <1>2, <1>3, DrainPingSound DEF HandleTick

\* SwarmCore::ping
LEMMA DoPingSound ==
    ASSUME NEW O, NEW R, NEW L, NEW k, Sound(k, O, R, L), NEW p \in PeerIds, NEW payload \in Payloads
    PROVE  Sound(DoPing(k, p, payload), O, R, L)
<1>1. CASE k.peer_to_conn[p] = None
  BY <1>1 DEF DoPing
<1>2. CASE k.peer_to_conn[p] # None
  <2>0. k \in CoreState /\ Mapped(k, L) /\ HasMaps(k)
    BY GoodMaps DEF Sound
  <2> PICK queued : queued = [k EXCEPT !.pending_pings = [@ EXCEPT ![p] = payload]]
    OBVIOUS
  <2>1. Sound(queued, O, R, L) /\ SameMaps(k, queued) /\ SameTables(k, queued) /\ queued.ping = k.ping
    BY <1>2, PendingSound
  <2> PICK r : r = Ping!SendPing(k.ping[p], p, payload)
    OBVIOUS
  <2>2. PingResult(k.ping[p], r) /\ Shrinks(k.ping[p], r.st)
    BY <2>0, PingSends DEF CoreState
  <2>3. Sound(DrainPing(k, p, r), O, R, L)
    BY <1>2, <2>2, DrainPingSound
  <2>4. ASSUME k.ping[p].outbound_stream = None, ~HasPendingPingStream(k, p)
        PROVE  Sound(QueueOpenProtocolStream(queued, p, "Ping"), O, R, L)
    <3> PICK c \in Conns : c = k.peer_to_conn[p]
      BY <1>2, <2>0 DEF HasMaps
    <3>1. queued.peer_to_conn[p] = c /\ c # None /\ queued.conn_to_peer[c] = p
      BY <1>2, <2>0, <2>1 DEF SameMaps, Mapped, MapsAgree
    <3>2. Opening(queued, c) = {} /\ Dialing(queued, c) = {}
      BY <1>2, <2>1, <2>4 DEF HasPendingPingStream, Opening, Dialing, SameTables
    <3>3. Pinging(queued, c) = {}
      BY <2>1, <2>4, <3>1, CoreStreamsAssumption DEF Pinging
    <3>4. NoPing(queued, c)
      BY <3>2, <3>3 DEF NoPing
    <3> QED
      BY <2>1, <3>1, <3>4, QueueOpenSound DEF ProtocolKind
  <2> QED
    BY <1>2, <2>1, <2>3, <2>4 DEF DoPing
<1> QED
  BY <1>1, <1>2

\* open_user_stream and disconnect
LEMMA OpenUserSound ==
    ASSUME NEW O, NEW R, NEW L, NEW k, Sound(k, O, R, L), NEW p \in PeerIds
    PROVE  Sound(OpenUserStream(k, p), O, R, L) /\ Sound(Disconnect(k, p), O, R, L)
<1>0. HasMaps(k)
  BY GoodMaps DEF Sound
<1>1. Sound(OpenUserStream(k, p), O, R, L)
  <2>1. k.peer_to_conn[p] # None => Sound(QueueOpenProtocolStream(k, p, "User"), O, R, L)
    BY QueueOpenSound DEF ProtocolKind
  <2> QED
    BY <2>1 DEF OpenUserStream
<1>2. Sound(Disconnect(k, p), O, R, L)
  <2>1. k.peer_to_conn[p] # None => Sound(Act(k, "CloseConnection", k.peer_to_conn[p], None), O, R, L)
    BY <1>0, ActSound DEF StreamActions, HasMaps
  <2> QED
    BY <2>1 DEF Disconnect
<1> QED
  BY <1>1, <1>2

\* send_user_stream, close_user_stream_write, reset_user_stream
LEMMA UserCallsSound ==
    ASSUME NEW O, NEW R, NEW L, NEW k, Sound(k, O, R, L), NEW p \in PeerIds, NEW s \in StreamIds,
           NEW kind \in {"SendStream", "CloseStreamWrite", "ResetStream"}
    PROVE  Sound(UserStreamCall(k, p, s, kind), O, R, L)
<1>0. Good(k, O, L)
  BY DEF Sound
<1> PICK c : c = ConnForOwnedStream(k, p, s, "User")
  OBVIOUS
<1>1. ASSUME c # None PROVE Sound(Act(k, kind, c, s), O, R, L)
  <2>1. c \in OwningConns(k, p, s, "User")
    BY <1>1, OwningConn
  <2>2. c \in Conns /\ k.stream_owner[<<c, s>>] = "User"
    BY <2>1 DEF OwningConns
  <2>3. InTable(k, <<c, s>>) /\ <<c, s>> \in StreamKeys
    BY <2>2, AbsentAssumption DEF InTable, ProtocolKind, StreamKeys
  <2>4. <<c, s>> \in O
    BY <1>0, <2>3 DEF Good, TablesIn
  <2> QED
    BY <2>2, <2>4, ActSound DEF StreamActions
<1> QED
  BY <1>1 DEF UserStreamCall

-----------------------------------------------------------------------------
(* Connections come and go.                                                *)

\* A core that differs in its lists of peers only is as sound.
LEMMA SoundSame ==
    ASSUME NEW O, NEW R, NEW L, NEW k, Sound(k, O, R, L), NEW j, j \in CoreState,
           SameTables(k, j), SameMaps(k, j), \A p \in PeerIds : SamePeer(k, j, p),
           j.actions = k.actions, j.events = k.events
    PROVE  Sound(j, O, R, L)
<1>1. Typed(j) /\ ActionsIn(j, O)
  BY DEF Typed, Sound, Good, ActionsIn
<1>2. Good(j, O, L)
  BY <1>1, SameGood DEF Sound
<1>3. Outputs(k, j, O, L)
  BY <1>2 DEF Outputs
<1> QED
  BY <1>3, SoundOutputs

\* An empty protocol state has its type.
LEMMA AbsentTypes ==
    Ping!Absent \in Ping!PeerPingState /\ Identify!Absent \in Identify!PeerIdentifyState
BY CorePayloadAssumption
   DEF Ping!Absent, Ping!PeerPingState, Identify!Absent, Identify!PeerIdentifyState

\* j is k without connection c of peer p: neither the maps nor the protocols
\* know it any more.
Unmapped(k, j, c, p) ==
    /\ j.conn_to_peer[c] = None /\ j.peer_to_conn[p] = None
    /\ \A d \in Conns : d # c => j.conn_to_peer[d] = k.conn_to_peer[d]
    /\ \A q \in PeerIds : q # p => j.peer_to_conn[q] = k.peer_to_conn[q] /\ SamePeer(k, j, q)
    /\ IsBare(j, p)
    /\ SameTables(k, j)

\* Taking a connection off the maps, with all that is kept of its peer.
LEMMA UnmapSound ==
    ASSUME NEW O, NEW R, NEW L, NEW k, Sound(k, O, R, L), NEW c \in Conns, NEW p \in PeerIds,
           k.conn_to_peer[c] = p, k.peer_to_conn[p] = c,
           NEW j \in CoreState, Unmapped(k, j, c, p), j.actions = k.actions, j.events = k.events
    PROVE  Sound(j, O, R, L)
<1>0. k \in CoreState /\ HasMaps(k) /\ HasMaps(j) /\ Mapped(k, L)
  BY GoodMaps DEF Sound, CoreState, HasMaps
<1>1. Typed(j) /\ ActionsIn(j, O)
  BY DEF Typed, Sound, Good, ActionsIn
<1>2. Good(j, O, L)
  BY <1>1, SameGood DEF Sound, Unmapped
<1>3. TablesIn(j, R) /\ Exclusive(j)
  BY DEF Sound, Unmapped, SameTables, TablesIn, InTable, Exclusive
<1>4. Mapped(j, L)
  <2>1. MapsAgree(j)
    <3> SUFFICES ASSUME NEW q \in PeerIds, j.peer_to_conn[q] # None
                 PROVE  j.conn_to_peer[j.peer_to_conn[q]] = q
      BY DEF MapsAgree
    <3>1. q # p /\ j.peer_to_conn[q] = k.peer_to_conn[q]
      BY DEF Unmapped
    <3> PICK d \in Conns : d = k.peer_to_conn[q]
      BY <1>0, <3>1 DEF HasMaps
    <3>2. k.conn_to_peer[d] = q
      BY <1>0, <3>1 DEF Mapped, MapsAgree
    <3>3. d # c
      BY <3>1, <3>2
    <3> QED
      BY <3>1, <3>2, <3>3 DEF Unmapped
  <2>2. ASSUME AuthAtHandshake PROVE NoOrphan(j)
    <3> SUFFICES ASSUME NEW d \in Conns, j.conn_to_peer[d] # None
                 PROVE  j.peer_to_conn[j.conn_to_peer[d]] = d
      BY DEF NoOrphan
    <3>1. d # c /\ j.conn_to_peer[d] = k.conn_to_peer[d]
      BY DEF Unmapped
    <3> PICK q \in PeerIds : q = k.conn_to_peer[d]
      BY <1>0, <3>1 DEF HasMaps
    <3>2. k.peer_to_conn[q] = d
      BY <1>0, <2>2, <3>1 DEF Mapped, Paired, NoOrphan
    <3>3. q # p
      BY <3>1, <3>2
    <3> QED
      BY <3>1, <3>2, <3>3 DEF Unmapped
  <2>3. ASSUME AuthAtHandshake PROVE OwnPlaceholder(j)
    <3>1. None \notin Synthetics
      BY PeersAssumption DEF PeerIds
    <3> QED
      BY <1>0, <2>3, <3>1 DEF Mapped, Paired, OwnPlaceholder, Unmapped
  <2>4. \A d \in Conns : j.conn_to_peer[d] # None => d \in L
    BY <1>0 DEF Mapped, Unmapped
  <2> QED
    BY <2>1, <2>2, <2>3, <2>4 DEF Mapped, Paired
<1>5. ASSUME AuthAtHandshake PROVE Owned(j)
  <2> SUFFICES ASSUME NEW q \in PeerIds, NEW s \in StreamIds PROVE OwnedAt(j, q, s)
    BY DEF Owned
  <2>1. CASE q = p
    BY <2>1, CoreStreamsAssumption
       DEF OwnedAt, Unmapped, IsBare, Ping!Absent, Identify!Absent, Ping!IsKnown
  <2>2. CASE q # p
    <3>1. OwnedAt(k, q, s)
      BY <1>5 DEF Sound, Owned
    <3> QED
      BY <2>2, <3>1 DEF OwnedAt, OwnedBy, Unmapped, SamePeer, SameTables
  <2> QED
    BY <2>1, <2>2
<1>6. ASSUME AuthAtHandshake PROVE Bare(j)
  BY <1>6 DEF Sound, Bare, IsBare, Unmapped, SamePeer
<1>7. ASSUME AuthAtHandshake PROVE Single(j)
  <2>1. Single(k)
    BY <1>7 DEF Sound
  <2>2. ASSUME NEW d \in Conns
        PROVE  /\ Opening(j, d) \subseteq Opening(k, d)
               /\ Dialing(j, d) \subseteq Dialing(k, d)
    BY DEF Opening, Dialing, Unmapped, SameTables
  <2>3. ASSUME NEW d \in Conns PROVE Pinging(j, d) \subseteq Pinging(k, d)
    <3>1. CASE d = c
      BY <3>1 DEF Pinging, Unmapped
    <3>2. CASE d # c /\ k.conn_to_peer[d] # None
      <4> PICK q \in PeerIds : q = k.conn_to_peer[d]
        BY <1>0, <3>2 DEF HasMaps
      <4>1. q # p
        BY <1>0, <1>7, <3>2 DEF Mapped, Paired, NoOrphan
      <4> QED
        BY <3>2, <4>1 DEF Pinging, Unmapped, SamePeer
    <3>3. CASE d # c /\ k.conn_to_peer[d] = None
      BY <3>3 DEF Pinging, Unmapped
    <3> QED
      BY <3>1, <3>2, <3>3
  <2> QED
    BY ONLY <2>1, <2>2, <2>3, SingleLess
<1> QED
  BY <1>2, <1>3, <1>4, <1>5, <1>6, <1>7 DEF Sound

\* The retain() calls: nothing of c is left in the tables.
Without(R, c) == {cs \in R : cs[1] # c}

\* What they leave of k.
Forgotten(k, j, c) ==
    /\ j.pending_opens = {o \in k.pending_opens : o.conn # c}
    /\ \A cs \in StreamKeys : j.outbound_negotiators[cs] =
         IF cs[1] = c THEN None ELSE k.outbound_negotiators[cs]

\* They keep a core sound whose maps do not know c.
LEMMA ForgetConnSound ==
    ASSUME NEW O, NEW R, NEW L, NEW k, Sound(k, O, R, L), NEW c \in Conns,
           k.conn_to_peer[c] = None, \A q \in PeerIds : k.peer_to_conn[q] # c,
           NEW j, j = ForgetConn(k, c)
    PROVE  /\ Sound(j, O, Without(R, c), L \ {c}) /\ Sound(j, O, R, L)
           /\ j \in CoreState /\ SameMaps(k, j) /\ Forgotten(k, j, c)
<1>0. k \in CoreState /\ HasMaps(k) /\ Mapped(k, L) /\ Good(k, O, L)
  BY GoodMaps DEF Sound
<1> PICK f : f = [cs \in StreamKeys |-> IF cs[1] = c THEN None ELSE k.stream_owner[cs]]
  OBVIOUS
<1> PICK g : g = [cs \in StreamKeys |-> IF cs[1] = c THEN None ELSE k.outbound_negotiators[cs]]
  OBVIOUS
<1> PICK h : h = {cs \in k.inbound_negotiators : cs[1] # c}
  OBVIOUS
<1> PICK os : os = {o \in k.pending_opens : o.conn # c}
  OBVIOUS
<1>1. /\ f \in [StreamKeys -> ProtocolKind \cup {None}]
      /\ g \in [StreamKeys -> ProtocolKind \cup {None}]
      /\ h \in SUBSET StreamKeys /\ os \in SUBSET PendingOpen
  BY <1>0 DEF CoreState
<1>2. j = [k EXCEPT !.stream_owner = f, !.inbound_negotiators = h,
                    !.outbound_negotiators = g, !.pending_opens = os]
  BY DEF ForgetConn
<1>3. j \in CoreState
  BY <1>0, <1>1, <1>2 DEF CoreState
<1>4. /\ SameMaps(k, j) /\ j.actions = k.actions /\ j.events = k.events
      /\ \A q \in PeerIds : SamePeer(k, j, q)
      /\ j.stream_owner = f /\ j.inbound_negotiators = h
      /\ j.outbound_negotiators = g /\ j.pending_opens = os
  BY <1>0, <1>2 DEF CoreState, SameMaps, SamePeer
<1>5. \A cs \in StreamKeys : /\ InTable(j, cs) => InTable(k, cs) /\ cs[1] # c
                             /\ cs[1] # c => f[cs] = k.stream_owner[cs] /\ g[cs] = k.outbound_negotiators[cs]
  BY <1>4 DEF InTable
<1>6. Typed(j) /\ ActionsIn(j, O)
  BY <1>0, <1>3, <1>4 DEF Typed, Good, ActionsIn
<1>7. TablesIn(j, Without(R, c)) /\ TablesIn(j, O)
  BY <1>0, <1>5 DEF Sound, TablesIn, Without, Good
<1>8. OpensIn(j, L \ {c})
  BY <1>0, <1>4 DEF Good, OpensIn
<1>9. Exclusive(j)
  <2> SUFFICES ASSUME NEW cs \in StreamKeys
               PROVE  /\ ~(cs \in j.inbound_negotiators /\ j.outbound_negotiators[cs] # None)
                      /\ ~(cs \in j.inbound_negotiators /\ j.stream_owner[cs] # None)
                      /\ ~(j.outbound_negotiators[cs] # None /\ j.stream_owner[cs] # None)
    BY DEF Exclusive
  <2> QED
    BY <1>4 DEF Sound, Exclusive
<1>10. Mapped(j, L \ {c})
  <2>1. Mapped(j, L)
    BY <1>0, <1>4, MappedSame
  <2> QED
    BY <1>4, <2>1 DEF Mapped, SameMaps
<1>11. ASSUME AuthAtHandshake PROVE Owned(j)
  <2> SUFFICES ASSUME NEW q \in PeerIds, NEW s \in StreamIds PROVE OwnedAt(j, q, s)
    BY DEF Owned
  <2>1. OwnedAt(k, q, s) /\ SamePeer(k, j, q)
    BY <1>4, <1>11 DEF Sound, Owned
  <2>2. \A x : OwnedBy(k, q, s, x) => OwnedBy(j, q, s, x)
    <3> SUFFICES ASSUME k.peer_to_conn[q] # None
                 PROVE  j.stream_owner[<<k.peer_to_conn[q], s>>] = k.stream_owner[<<k.peer_to_conn[q], s>>]
      BY <1>4 DEF OwnedBy, SameMaps
    <3> PICK d \in Conns : d = k.peer_to_conn[q]
      BY <1>0 DEF HasMaps
    <3>1. <<d, s>> \in StreamKeys /\ <<d, s>>[1] # c
      BY DEF StreamKeys
    <3> QED
      BY <1>4, <1>5, <3>1
  <2> QED
    BY <2>1, <2>2 DEF OwnedAt, SamePeer
<1>12. ASSUME AuthAtHandshake PROVE Bare(j)
  BY <1>4, <1>12 DEF Sound, Bare, IsBare, SamePeer, SameMaps
<1>13. ASSUME AuthAtHandshake PROVE Single(j)
  <2>1. Single(k)
    BY <1>13 DEF Sound
  <2>2. ASSUME NEW d \in Conns PROVE Opening(j, d) \subseteq Opening(k, d)
    BY <1>4 DEF Opening
  <2>3. ASSUME NEW d \in Conns PROVE Dialing(j, d) \subseteq Dialing(k, d)
    <3> SUFFICES ASSUME NEW s \in Dialing(j, d) PROVE s \in Dialing(k, d)
      OBVIOUS
    <3>1. s \in StreamIds /\ g[<<d, s>>] = "Ping" /\ <<d, s>> \in StreamKeys
      BY <1>4 DEF Dialing, StreamKeys
    <3>2. "Ping" # None
      BY AbsentAssumption DEF ProtocolKind
    <3> QED
      BY <3>1, <3>2 DEF Dialing
  <2>4. ASSUME NEW d \in Conns PROVE Pinging(j, d) \subseteq Pinging(k, d)
    <3>1. \A q \in PeerIds : Shrinks(k.ping[q], j.ping[q])
      BY <1>4 DEF SamePeer, Shrinks
    <3> QED
      BY <1>0, <1>4, <3>1, PingingLess
  <2> QED
    BY ONLY <2>1, <2>2, <2>3, <2>4, SingleLess
<1>14. Scope(O, Without(R, c), L \ {c})
  <2>1. \A d \in Conns, s \in StreamIds : <<d, s>> \in Without(R, c) => d \in L \ {c}
    BY DEF Sound, Scope, Without
  <2> QED
    BY <2>1 DEF Sound, Scope, Without
<1>15. Sound(j, O, Without(R, c), L \ {c})
  BY <1>6, <1>7, <1>8, <1>9, <1>10, <1>11, <1>12, <1>13, <1>14 DEF Sound, Good
<1>16. Sound(j, O, R, L)
  <2>1. Scope(O, R, L) /\ Without(R, c) \subseteq R /\ L \ {c} \subseteq L
    BY DEF Sound, Without
  <2> QED
    BY ONLY <1>15, <2>1, SoundGrows
<1> QED
  BY <1>1, <1>3, <1>4, <1>15, <1>16 DEF Forgotten

\* RemovePeer for both protocols and the per-peer bookkeeping, with the maps
\* and the queued ping: what unmaps a connection.
Unmap(k, c, p) ==
    [ForgetPeer([k EXCEPT !.conn_to_peer = [@ EXCEPT ![c] = None]], p) EXCEPT
       !.peer_to_conn  = [@ EXCEPT ![p] = None],
       !.pending_pings = [@ EXCEPT ![p] = None]]

\* It leaves nothing of the connection but its streams.
LEMMA UnmapIs ==
    ASSUME NEW k \in CoreState, NEW c \in Conns, NEW p \in PeerIds, NEW j, j = Unmap(k, c, p)
    PROVE  /\ j \in CoreState /\ Unmapped(k, j, c, p)
           /\ j.actions = k.actions /\ j.events = k.events
           /\ j.ready_peers = k.ready_peers \ {p}
           /\ j.established_peers = k.established_peers \ {p}
<1> PICK a : a = [k.conn_to_peer EXCEPT ![c] = None]
  OBVIOUS
<1> PICK b : b = [k.peer_to_conn EXCEPT ![p] = None]
  OBVIOUS
<1> PICK d : d = [k.pending_pings EXCEPT ![p] = None]
  OBVIOUS
<1> PICK e : e = [k.ping EXCEPT ![p] = Ping!Absent]
  OBVIOUS
<1> PICK f : f = [k.identify EXCEPT ![p] = Identify!Absent]
  OBVIOUS
<1> PICK g : g = [k.peer_info EXCEPT ![p] = None]
  OBVIOUS
<1> PICK r : r = k.ready_peers \ {p}
  OBVIOUS
<1> PICK s : s = k.established_peers \ {p}
  OBVIOUS
<1>1. /\ a \in [Conns -> PeerIds \cup {None}] /\ b \in [PeerIds -> Conns \cup {None}]
      /\ d \in [PeerIds -> Payloads \cup {None}] /\ g \in [PeerIds -> IdentifyInfo \cup {None}]
      /\ r \in SUBSET PeerIds /\ s \in SUBSET PeerIds
  BY DEF CoreState
<1>2. e \in [PeerIds -> Ping!PeerPingState] /\ f \in [PeerIds -> Identify!PeerIdentifyState]
  BY AbsentTypes DEF CoreState
<1>3. /\ a[c] = None /\ \A x \in Conns : x # c => a[x] = k.conn_to_peer[x]
      /\ b[p] = None /\ d[p] = None /\ e[p] = Ping!Absent /\ f[p] = Identify!Absent /\ g[p] = None
      /\ \A q \in PeerIds : q # p =>
           /\ b[q] = k.peer_to_conn[q] /\ d[q] = k.pending_pings[q] /\ e[q] = k.ping[q]
           /\ f[q] = k.identify[q] /\ g[q] = k.peer_info[q]
  BY DEF CoreState
<1>4. j = [k EXCEPT !.conn_to_peer = a, !.ping = e, !.identify = f, !.peer_info = g,
                    !.ready_peers = r, !.established_peers = s,
                    !.peer_to_conn = b, !.pending_pings = d]
  BY DEF Unmap, ForgetPeer, Ping!RemovePeer, Identify!RemovePeer, CoreState
<1>5. j \in CoreState
  BY ONLY k \in CoreState, <1>1, <1>2, <1>4 DEF CoreState
<1>6. /\ j.conn_to_peer = a /\ j.peer_to_conn = b /\ j.pending_pings = d
      /\ j.ping = e /\ j.identify = f /\ j.peer_info = g
      /\ j.ready_peers = r /\ j.established_peers = s
      /\ j.actions = k.actions /\ j.events = k.events /\ SameTables(k, j)
  BY <1>4 DEF CoreState, SameTables
<1>7. Unmapped(k, j, c, p)
  <2>1. \A q \in PeerIds : q # p => j.peer_to_conn[q] = k.peer_to_conn[q] /\ SamePeer(k, j, q)
    BY <1>3, <1>6 DEF SamePeer
  <2>2. IsBare(j, p)
    BY <1>3, <1>6 DEF IsBare
  <2> QED
    BY <1>3, <1>6, <2>1, <2>2 DEF Unmapped
<1> QED
  BY <1>5, <1>6, <1>7

\* handle_connection_closed
LEMMA ClosedSound ==
    ASSUME NEW O, NEW R, NEW L, NEW k, Sound(k, O, R, L), NEW c \in Conns
    PROVE  Sound(HandleConnectionClosed(k, c), O, Without(R, c), L \ {c})
<1>0. k \in CoreState /\ HasMaps(k) /\ Mapped(k, L) /\ Good(k, O, L)
  BY GoodMaps DEF Sound
<1>1. CASE k.conn_to_peer[c] # None /\ k.peer_to_conn[k.conn_to_peer[c]] = c
  <2> PICK p \in PeerIds : p = k.conn_to_peer[c]
    BY <1>0, <1>1 DEF HasMaps
  <2> PICK h : h = Unmap(k, c, p)
    OBVIOUS
  <2>1. /\ h \in CoreState /\ Unmapped(k, h, c, p)
        /\ h.actions = k.actions /\ h.events = k.events
    BY <1>0, UnmapIs
  <2>2. Sound(h, O, R, L)
    BY <1>1, <2>1, UnmapSound
  <2> PICK e : e = Emit(h, "ConnectionClosed", p, None)
    OBVIOUS
  <2>3. Event("ConnectionClosed", p, None) \in SwarmHeard
    BY PeersAssumption DEF Event, SwarmHeard, SwarmEvent, EventKinds
  <2>4. Sound(e, O, R, L)
    BY <2>2, <2>3, EmitSound
  <2>5. e.conn_to_peer = h.conn_to_peer /\ e.peer_to_conn = h.peer_to_conn
    BY <2>1 DEF Emit, CoreState
  <2>6. e.conn_to_peer[c] = None
    BY <2>1, <2>5 DEF Unmapped
  <2>7. ASSUME NEW q \in PeerIds PROVE e.peer_to_conn[q] # c
    <3>1. CASE q = p
      BY <2>1, <2>5, <3>1, ConnsAssumption DEF Unmapped
    <3>2. CASE q # p
      <4>1. e.peer_to_conn[q] = k.peer_to_conn[q]
        BY <2>1, <2>5, <3>2 DEF Unmapped
      <4>2. k.peer_to_conn[q] # c
        BY <1>0, <1>1, <3>2, ConnsAssumption DEF Mapped, MapsAgree
      <4> QED
        BY <4>1, <4>2
    <3> QED
      BY <3>1, <3>2
  <2>8. HandleConnectionClosed(k, c) = ForgetConn(e, c)
    BY <1>1 DEF HandleConnectionClosed, Unmap
  <2> QED
    BY <2>4, <2>6, <2>7, <2>8, ForgetConnSound
<1>2. CASE ~(k.conn_to_peer[c] # None /\ k.peer_to_conn[k.conn_to_peer[c]] = c)
  <2> PICK f : f = [k.conn_to_peer EXCEPT ![c] = None]
    OBVIOUS
  <2> PICK h : h = [k EXCEPT !.conn_to_peer = f]
    OBVIOUS
  <2>1. f \in [Conns -> PeerIds \cup {None}] /\ f[c] = None /\ \A d \in Conns : d # c => f[d] = k.conn_to_peer[d]
    BY <1>0 DEF CoreState
  <2>2. h \in CoreState
    BY <1>0, <2>1 DEF CoreState
  <2>3. /\ h.conn_to_peer = f /\ h.peer_to_conn = k.peer_to_conn
        /\ h.actions = k.actions /\ h.events = k.events /\ SameTables(k, h)
        /\ \A q \in PeerIds : SamePeer(k, h, q)
    BY <1>0 DEF CoreState, SameTables, SamePeer
  <2>4. ASSUME NEW q \in PeerIds PROVE k.peer_to_conn[q] # c
    BY <1>0, <1>2, PeersAssumption, ConnsAssumption DEF Mapped, MapsAgree
  <2>5. Sound(h, O, R, L)
    <3>1. CASE k.conn_to_peer[c] = None
      <4>1. SameMaps(k, h)
        BY <1>0, <2>1, <2>3, <3>1 DEF SameMaps, HasMaps
      <4> QED
        BY <2>2, <2>3, <4>1, SoundSame
    <3>2. CASE k.conn_to_peer[c] # None
      <4>1. ~AuthAtHandshake
        BY <1>0, <1>2, <3>2 DEF Mapped, Paired, NoOrphan
      <4>2. Typed(h) /\ ActionsIn(h, O)
        BY <2>2, <2>3 DEF Typed, Sound, Good, ActionsIn
      <4>3. Good(h, O, L)
        BY <1>0, <2>3, <4>2, SameGood
      <4>4. TablesIn(h, R) /\ Exclusive(h)
        BY <2>3 DEF Sound, SameTables, TablesIn, InTable, Exclusive
      <4>5. MapsAgree(h)
        BY <1>0, <2>1, <2>3, <2>4 DEF MapsAgree, Mapped, HasMaps
      <4>6. Mapped(h, L)
        BY <1>0, <2>1, <2>3, <4>1, <4>5 DEF Mapped
      <4> QED
        BY <4>1, <4>3, <4>4, <4>6 DEF Sound
    <3> QED
      BY <3>1, <3>2
  <2>6. h.conn_to_peer[c] = None /\ \A q \in PeerIds : h.peer_to_conn[q] # c
    BY <2>1, <2>3, <2>4
  <2>7. HandleConnectionClosed(k, c) = ForgetConn(h, c)
    BY <1>2 DEF HandleConnectionClosed
  <2> PICK j : j = ForgetConn(h, c)
    OBVIOUS
  <2>8. Sound(j, O, Without(R, c), L \ {c})
    BY ONLY <2>5, <2>6, c \in Conns, j = ForgetConn(h, c), ForgetConnSound
  <2> QED
    BY <2>7, <2>8
<1> QED
  BY <1>1, <1>2

\* map_conn, and a ping queued for the peer.
Join(k, c, p, x) ==
    [k EXCEPT !.conn_to_peer = [@ EXCEPT ![c] = p],
              !.peer_to_conn = [@ EXCEPT ![p] = c],
              !.pending_pings = [@ EXCEPT ![p] = x]]

\* A new connection is mapped to a peer that has none.
LEMMA JoinSound ==
    ASSUME NEW O, NEW R, NEW L, NEW k, Sound(k, O, R, L), AuthAtHandshake,
           NEW c \in Conns, c \in L, NEW p \in Peers, NEW x \in Payloads \cup {None},
           k.conn_to_peer[c] = None, k.peer_to_conn[p] = None,
           Opening(k, c) = {}, Dialing(k, c) = {},
           NEW j, j = Join(k, c, p, x)
    PROVE  /\ Sound(j, O, R, L) /\ NoPing(j, c) /\ j.peer_to_conn[p] = c
           /\ j.ping[p].outbound_stream = None
<1>0. /\ k \in CoreState /\ HasMaps(k) /\ Mapped(k, L) /\ Good(k, O, L)
      /\ p \in PeerIds /\ p \notin Synthetics /\ p # None
  BY GoodMaps, PeersAssumption DEF Sound, PeerIds
<1> PICK a : a = [k.conn_to_peer EXCEPT ![c] = p]
  OBVIOUS
<1> PICK b : b = [k.peer_to_conn EXCEPT ![p] = c]
  OBVIOUS
<1> PICK d : d = [k.pending_pings EXCEPT ![p] = x]
  OBVIOUS
<1>1. /\ a \in [Conns -> PeerIds \cup {None}] /\ b \in [PeerIds -> Conns \cup {None}]
      /\ d \in [PeerIds -> Payloads \cup {None}]
      /\ a[c] = p /\ \A y \in Conns : y # c => a[y] = k.conn_to_peer[y]
      /\ b[p] = c /\ \A q \in PeerIds : q # p => b[q] = k.peer_to_conn[q] /\ d[q] = k.pending_pings[q]
  BY <1>0 DEF CoreState
<1>2. j = [k EXCEPT !.conn_to_peer = a, !.peer_to_conn = b, !.pending_pings = d]
  BY DEF Join
<1>3. j \in CoreState
  BY ONLY <1>0, <1>1, <1>2 DEF CoreState
<1>4. /\ j.conn_to_peer = a /\ j.peer_to_conn = b /\ j.pending_pings = d
      /\ j.ping = k.ping /\ j.identify = k.identify /\ j.peer_info = k.peer_info
      /\ j.actions = k.actions /\ j.events = k.events /\ SameTables(k, j)
  BY <1>0, <1>2 DEF CoreState, SameTables
<1>5. IsBare(k, p)
  BY <1>0 DEF Sound, Bare
<1>6. Typed(j) /\ ActionsIn(j, O)
  BY <1>0, <1>3, <1>4 DEF Typed, Good, ActionsIn
<1>7. Good(j, O, L)
  BY <1>0, <1>4, <1>6, SameGood
<1>8. TablesIn(j, R) /\ Exclusive(j)
  BY <1>4 DEF Sound, SameTables, TablesIn, InTable, Exclusive
<1>9. Mapped(j, L)
  <2>1. MapsAgree(j)
    <3> SUFFICES ASSUME NEW q \in PeerIds, b[q] # None PROVE a[b[q]] = q
      BY <1>4 DEF MapsAgree
    <3>1. CASE q = p
      BY <1>1, <3>1
    <3>2. CASE q # p
      <4> PICK y \in Conns : y = k.peer_to_conn[q]
        BY <1>0, <1>1, <3>2 DEF HasMaps
      <4>1. b[q] = y /\ k.conn_to_peer[y] = q /\ y # c
        BY <1>0, <1>1, <3>2, PeersAssumption DEF Mapped, MapsAgree
      <4> QED
        BY <1>1, <4>1
    <3> QED
      BY <3>1, <3>2
  <2>2. NoOrphan(j)
    <3> SUFFICES ASSUME NEW y \in Conns, a[y] # None PROVE b[a[y]] = y
      BY <1>4 DEF NoOrphan
    <3>1. CASE y = c
      BY <1>1, <3>1
    <3>2. CASE y # c
      <4> PICK q \in PeerIds : q = k.conn_to_peer[y]
        BY <1>0, <1>1, <3>2 DEF HasMaps
      <4>1. a[y] = q /\ k.peer_to_conn[q] = y
        BY <1>0, <1>1, <3>2 DEF Mapped, Paired, NoOrphan
      <4>2. q # p
        BY <4>1, ConnsAssumption
      <4> QED
        BY <1>1, <4>1, <4>2
    <3> QED
      BY <3>1, <3>2
  <2>3. OwnPlaceholder(j)
    BY <1>0, <1>1, <1>4 DEF Mapped, Paired, OwnPlaceholder
  <2> QED
    BY <1>0, <1>1, <1>4, <2>1, <2>2, <2>3 DEF Mapped, Paired
<1>10. Owned(j)
  <2> SUFFICES ASSUME NEW q \in PeerIds, NEW s \in StreamIds PROVE OwnedAt(j, q, s)
    BY DEF Owned
  <2>1. CASE q = p
    BY <1>4, <1>5, <2>1, CoreStreamsAssumption
       DEF OwnedAt, IsBare, Ping!Absent, Identify!Absent, Ping!IsKnown
  <2>2. CASE q # p
    <3>1. OwnedAt(k, q, s)
      BY DEF Sound, Owned
    <3> QED
      BY <1>1, <1>4, <2>2, <3>1 DEF OwnedAt, OwnedBy, SameTables
  <2> QED
    BY <2>1, <2>2
<1>11. Bare(j)
  <2> SUFFICES ASSUME NEW q \in PeerIds, j.peer_to_conn[q] = None PROVE IsBare(j, q)
    BY DEF Bare
  <2>1. q # p
    BY <1>1, <1>4, ConnsAssumption
  <2>2. IsBare(k, q)
    BY <1>1, <1>4, <2>1 DEF Sound, Bare
  <2> QED
    BY <1>1, <1>4, <2>1, <2>2 DEF IsBare
<1>12. \A y \in Conns : Opening(j, y) = Opening(k, y) /\ Dialing(j, y) = Dialing(k, y)
  BY <1>4 DEF Opening, Dialing, SameTables
<1>13. \A y \in Conns : Pinging(j, y) \subseteq Pinging(k, y)
  <2> SUFFICES ASSUME NEW y \in Conns PROVE Pinging(j, y) \subseteq Pinging(k, y)
    OBVIOUS
  <2>1. CASE y = c
    <3>1. \A s \in StreamIds : j.ping[p].outbound_stream # s
      BY <1>4, <1>5, CoreStreamsAssumption DEF IsBare, Ping!Absent
    <3> QED
      BY <1>1, <1>4, <2>1, <3>1 DEF Pinging
  <2>2. CASE y # c
    BY <1>1, <1>4, <2>2 DEF Pinging
  <2> QED
    BY <2>1, <2>2
<1>14. Single(j)
  <2>1. Single(k)
    BY DEF Sound
  <2> QED
    BY <1>12, <1>13, <2>1, SingleLess
<1>15. NoPing(j, c)
  <2>1. Pinging(k, c) = {}
    BY DEF Pinging
  <2> QED
    BY <1>12, <1>13, <2>1 DEF NoPing
<1>16. j.ping[p].outbound_stream = None
  BY <1>4, <1>5 DEF IsBare, Ping!Absent
<1> QED
  BY <1>1, <1>4, <1>7, <1>8, <1>9, <1>10, <1>11, <1>14, <1>15, <1>16 DEF Sound

\* register_connection, the part for a connection not seen before: Identify's
\* stream is asked for, and a ping's if one is queued.
LEMMA AnnounceSound ==
    ASSUME NEW O, NEW R, NEW L, NEW k, Sound(k, O, R, L), NEW p \in PeerIds, NEW c \in Conns,
           k.peer_to_conn[p] = c, NoPing(k, c), k.ping[p].outbound_stream = None,
           NEW j, j = AnnounceConnection(k, p)
    PROVE  /\ Sound(j, O, R, L) /\ SameMaps(k, j)
           /\ k.pending_pings[p] # None => HasPendingPingStream(j, p)
<1>0. k \in CoreState /\ HasMaps(k) /\ c # None
  BY GoodMaps, ConnsAssumption DEF Sound
<1> PICK k0 : k0 = [k EXCEPT !.established_peers = @ \cup {p}]
  OBVIOUS
<1>1. /\ k0 \in CoreState /\ SameTables(k, k0) /\ SameMaps(k, k0)
      /\ \A q \in PeerIds : SamePeer(k, k0, q)
      /\ k0.actions = k.actions /\ k0.events = k.events
  BY <1>0 DEF CoreState, SameTables, SameMaps, SamePeer
<1>2. Sound(k0, O, R, L) /\ HasMaps(k0)
  <2>1. Sound(k0, O, R, L)
    BY <1>1, SoundSame
  <2> QED
    BY <2>1, GoodMaps DEF Sound
<1>3. NoPing(k0, c)
  <2>1. Outputs(k, k0, O, L)
    BY <1>1, <1>2 DEF Outputs, Sound
  <2> QED
    BY <1>0, <1>1, <2>1, NoPingOutputs
<1> PICK k1 : k1 = Emit(k0, "ConnectionEstablished", p, None)
  OBVIOUS
<1>4. Event("ConnectionEstablished", p, None) \in SwarmHeard
  BY PeersAssumption DEF Event, SwarmHeard, SwarmEvent, EventKinds
<1>5. Sound(k1, O, R, L) /\ Outputs(k0, k1, O, L) /\ SameMaps(k0, k1)
  BY <1>2, <1>4, EmitSound
<1>6. NoPing(k1, c)
  BY <1>2, <1>3, <1>5, NoPingOutputs
<1>7. k1.peer_to_conn[p] = c /\ SamePeer(k, k1, p)
  <2>1. SamePeer(k, k0, p) /\ SamePeer(k0, k1, p)
    BY <1>1, <1>5 DEF Outputs
  <2> QED
    BY <1>1, <1>5, <2>1 DEF SameMaps, SamePeer
<1> PICK k2 : k2 = QueueOpenProtocolStream(k1, p, "IdentifyInitiator")
  OBVIOUS
<1>8. /\ Sound(k2, O, R, L) /\ SameMaps(k1, k2) /\ SamePeer(k1, k2, p) /\ NoPing(k2, c)
  BY <1>0, <1>5, <1>6, <1>7, QueueOpenSound DEF ProtocolKind
<1>9. /\ k2.peer_to_conn[p] = c /\ k2.pending_pings[p] = k.pending_pings[p]
      /\ k2.ping[p].outbound_stream = None
  BY <1>7, <1>8 DEF SameMaps, SamePeer
<1> PICK k3 : k3 = QueueOpenProtocolStream(k2, p, "Ping")
  OBVIOUS
<1>10. Sound(k3, O, R, L) /\ HasPendingPingStream(k3, p)
  BY <1>0, <1>8, <1>9, QueueOpenSound DEF ProtocolKind
<1>11. j = IF k2.pending_pings[p] # None /\ k2.ping[p].outbound_stream = None
              /\ ~HasPendingPingStream(k2, p) THEN k3 ELSE k2
  BY DEF AnnounceConnection
<1>12. SameMaps(k, j)
  BY <1>0, AnnounceSame
<1> QED
  BY <1>8, <1>9, <1>10, <1>11, <1>12

\* supersede_connection and map_conn, in terms of the steps above.
LEMMA SupersedeIs ==
    ASSUME NEW k \in CoreState, NEW c \in Conns, NEW old \in Conns, old # c, NEW p \in PeerIds,
           k.conn_to_peer[old] = p, k.conn_to_peer[c] = None,
           NEW h1, h1 = Unmap(k, old, p), NEW h2, h2 = ForgetConn(h1, old),
           NEW x, x = k.pending_pings[p], NEW h3, h3 = Join(h2, c, p, x),
           NEW h4, h4 = Act(h3, "CloseConnection", old, None),
           NEW j, j = MapConn(SupersedeConnection(k, old), c, p)
    PROVE  j = h4
<1>pa. PICK a : a = [[k.conn_to_peer EXCEPT ![old] = None] EXCEPT ![c] = p]
  OBVIOUS
<1>pb. PICK b : b = [k.peer_to_conn EXCEPT ![p] = c]
  OBVIOUS
<1>pe. PICK e : e = [k.ping EXCEPT ![p] = Ping!Absent]
  OBVIOUS
<1>pf. PICK f : f = [k.identify EXCEPT ![p] = Identify!Absent]
  OBVIOUS
<1>pg. PICK g : g = [k.peer_info EXCEPT ![p] = None]
  OBVIOUS
<1>pr. PICK r : r = k.ready_peers \ {p}
  OBVIOUS
<1>ps. PICK s : s = k.established_peers \ {p}
  OBVIOUS
<1>pas. PICK as : as = Append(k.actions, StreamAction("CloseConnection", old, None))
  OBVIOUS
<1>pt. PICK t : t = [cs \in StreamKeys |-> IF cs[1] = old THEN None ELSE k.stream_owner[cs]]
  OBVIOUS
<1>pu. PICK u : u = [cs \in StreamKeys |-> IF cs[1] = old THEN None ELSE k.outbound_negotiators[cs]]
  OBVIOUS
<1>pv. PICK v : v = {cs \in k.inbound_negotiators : cs[1] # old}
  OBVIOUS
<1>pw. PICK w : w = {o \in k.pending_opens : o.conn # old}
  OBVIOUS
<1>0. p # None
  BY PeersAssumption
<1>pa0. PICK a0 : a0 = [k.conn_to_peer EXCEPT ![old] = None]
  OBVIOUS
<1>1. j = [k EXCEPT !.ping = e, !.identify = f, !.peer_info = g, !.ready_peers = r,
                    !.established_peers = s, !.conn_to_peer = a, !.stream_owner = t,
                    !.inbound_negotiators = v, !.outbound_negotiators = u, !.pending_opens = w,
                    !.actions = as, !.peer_to_conn = b]
  <2>pj1. PICK j1 : j1 = ForgetPeer(k, p)
    OBVIOUS
  <2>1. j1 = [k EXCEPT !.ping = e, !.identify = f, !.peer_info = g, !.ready_peers = r,
                       !.established_peers = s]
    BY ONLY <2>pj1, <1>pe, <1>pf, <1>pg, <1>pr, <1>ps, k \in CoreState
       DEF ForgetPeer, CoreState, Ping!RemovePeer, Identify!RemovePeer
  <2>pj2. PICK j2 : j2 = [j1 EXCEPT !.conn_to_peer = [@ EXCEPT ![old] = None]]
    OBVIOUS
  <2>2. j2 = [k EXCEPT !.ping = e, !.identify = f, !.peer_info = g, !.ready_peers = r,
                       !.established_peers = s, !.conn_to_peer = a0]
    BY ONLY <2>1, <2>pj2, <1>pa0, k \in CoreState DEF CoreState
  <2>pj3. PICK j3 : j3 = ForgetConn(j2, old)
    OBVIOUS
  <2>3. j3 = [k EXCEPT !.ping = e, !.identify = f, !.peer_info = g, !.ready_peers = r,
                       !.established_peers = s, !.conn_to_peer = a0, !.stream_owner = t,
                       !.inbound_negotiators = v, !.outbound_negotiators = u, !.pending_opens = w]
    BY ONLY <2>2, <2>pj3, <1>pt, <1>pu, <1>pv, <1>pw, k \in CoreState DEF CoreState, ForgetConn
  <2>pj4. PICK j4 : j4 = Act(j3, "CloseConnection", old, None)
    OBVIOUS
  <2>4. j4 = [k EXCEPT !.ping = e, !.identify = f, !.peer_info = g, !.ready_peers = r,
                       !.established_peers = s, !.conn_to_peer = a0, !.stream_owner = t,
                       !.inbound_negotiators = v, !.outbound_negotiators = u, !.pending_opens = w,
                       !.actions = as]
    BY ONLY <2>3, <2>pj4, <1>pas, k \in CoreState DEF CoreState, Act
  <2>5. SupersedeConnection(k, old) = j4
    BY <1>0, <2>pj1, <2>pj2, <2>pj3, <2>pj4 DEF SupersedeConnection
  <2>6. j = [j4 EXCEPT !.conn_to_peer = [@ EXCEPT ![c] = p], !.peer_to_conn = [@ EXCEPT ![p] = c]]
    BY <2>5 DEF MapConn
  <2>7. j4.conn_to_peer = a0 /\ j4.peer_to_conn = k.peer_to_conn
    BY ONLY <2>4, k \in CoreState DEF CoreState
  <2>8. j = [j4 EXCEPT !.conn_to_peer = a, !.peer_to_conn = b]
    BY ONLY <2>6, <2>7, <1>pa, <1>pa0, <1>pb
  <2> QED
    BY ONLY <2>4, <2>8, k \in CoreState DEF CoreState
<1>2. /\ [[k.peer_to_conn EXCEPT ![p] = None] EXCEPT ![p] = c] = b
      /\ [[k.pending_pings EXCEPT ![p] = None] EXCEPT ![p] = k.pending_pings[p]] = k.pending_pings
  BY <1>pb DEF CoreState
<1>3. h4 = [k EXCEPT !.ping = e, !.identify = f, !.peer_info = g, !.ready_peers = r,
                    !.established_peers = s, !.conn_to_peer = a, !.stream_owner = t,
                    !.inbound_negotiators = v, !.outbound_negotiators = u, !.pending_opens = w,
                    !.actions = as, !.peer_to_conn = b]
  <2>pb0. PICK b0 : b0 = [k.peer_to_conn EXCEPT ![p] = None]
    OBVIOUS
  <2>pd0. PICK d0 : d0 = [k.pending_pings EXCEPT ![p] = None]
    OBVIOUS
  <2>pg1. PICK g1 : g1 = [k EXCEPT !.conn_to_peer = a0]
    OBVIOUS
  <2>pg2. PICK g2 : g2 = ForgetPeer(g1, p)
    OBVIOUS
  <2>1. g2 = [k EXCEPT !.ping = e, !.identify = f, !.peer_info = g, !.ready_peers = r,
                       !.established_peers = s, !.conn_to_peer = a0]
    BY ONLY <2>pg1, <2>pg2, <1>pe, <1>pf, <1>pg, <1>pr, <1>ps, k \in CoreState
       DEF ForgetPeer, CoreState, Ping!RemovePeer, Identify!RemovePeer
  <2>2. h1 = [k EXCEPT !.ping = e, !.identify = f, !.peer_info = g, !.ready_peers = r,
                       !.established_peers = s, !.conn_to_peer = a0,
                       !.peer_to_conn = b0, !.pending_pings = d0]
    BY ONLY <2>1, <2>pb0, <2>pd0, <2>pg1, <2>pg2, <1>pa0, k \in CoreState, h1 = Unmap(k, old, p)
       DEF Unmap, CoreState
  <2>3. h2 = [k EXCEPT !.ping = e, !.identify = f, !.peer_info = g, !.ready_peers = r,
                       !.established_peers = s, !.conn_to_peer = a0,
                       !.peer_to_conn = b0, !.pending_pings = d0, !.stream_owner = t,
                       !.inbound_negotiators = v, !.outbound_negotiators = u, !.pending_opens = w]
    BY ONLY <2>2, <1>pt, <1>pu, <1>pv, <1>pw, k \in CoreState, h2 = ForgetConn(h1, old)
       DEF CoreState, ForgetConn
  <2>4. h3 = [k EXCEPT !.ping = e, !.identify = f, !.peer_info = g, !.ready_peers = r,
                       !.established_peers = s, !.conn_to_peer = a,
                       !.peer_to_conn = b, !.stream_owner = t,
                       !.inbound_negotiators = v, !.outbound_negotiators = u, !.pending_opens = w]
    <3>1. h2.conn_to_peer = a0 /\ h2.peer_to_conn = b0 /\ h2.pending_pings = d0
      BY ONLY <2>3, k \in CoreState DEF CoreState
    <3>2. h3 = [h2 EXCEPT !.conn_to_peer = a, !.peer_to_conn = b, !.pending_pings = k.pending_pings]
      <4>1. /\ a = [a0 EXCEPT ![c] = p] /\ b = [b0 EXCEPT ![p] = c]
            /\ k.pending_pings = [d0 EXCEPT ![p] = k.pending_pings[p]]
        BY ONLY <1>2, <1>pa, <1>pa0, <2>pb0, <2>pd0
      <4> QED
        BY ONLY <3>1, <4>1, x = k.pending_pings[p], h3 = Join(h2, c, p, x) DEF Join
    <3> QED
      BY ONLY <2>3, <3>2, k \in CoreState DEF CoreState
  <2> QED
    BY ONLY <2>4, <1>pas, k \in CoreState, h4 = Act(h3, "CloseConnection", old, None) DEF CoreState, Act
<1> QED
  BY <1>1, <1>3

\* Registering a connection of p, from k to j, has a stream opened for the ping
\* that was queued for p, and gives no other peer a connection.
TakesPing(k, j, p) ==
    /\ k.pending_pings[p] # None => HasPendingPingStream(j, p)
    /\ \A q \in PeerIds : q # p => j.peer_to_conn[q] = k.peer_to_conn[q]

\* register_connection for a connection that was not live before: the peer
\* keeps its queued ping, and the new connection opens a stream for it.
LEMMA RegisterSound ==
    ASSUME NEW O, NEW R, NEW L, NEW k, Sound(k, O, R, L), AuthAtHandshake,
           NEW c \in Conns, c \notin L, NEW p \in Peers,
           NEW j, j = RegisterConnection(k, c, p)
    PROVE  Sound(j, O, R, L \cup {c}) /\ TakesPing(k, j, p)
<1>0. /\ k \in CoreState /\ HasMaps(k) /\ Mapped(k, L) /\ Good(k, O, L)
      /\ p \in PeerIds /\ p # None /\ k.conn_to_peer[c] = None
  BY GoodMaps, PeersAssumption DEF Sound, PeerIds, Mapped
<1> PICK M : M = L \cup {c}
  OBVIOUS
<1>1. c \in M /\ Sound(k, O, R, M)
  <2>1. Scope(O, R, M)
    BY DEF Sound, Scope
  <2>2. O \subseteq O /\ R \subseteq R /\ L \subseteq M
    OBVIOUS
  <2> QED
    BY <2>1, <2>2, SoundGrows
<1>2. Opening(k, c) = {} /\ Dialing(k, c) = {}
  <2>1. Opening(k, c) = {}
    BY <1>0 DEF Opening, Good, OpensIn
  <2>2. ASSUME NEW s \in StreamIds PROVE k.outbound_negotiators[<<c, s>>] = None
    <3>1. <<c, s>> \in StreamKeys /\ <<c, s>> \notin R
      BY DEF StreamKeys, Sound, Scope
    <3> QED
      BY <3>1 DEF Sound, TablesIn, InTable
  <2>3. None # "Ping"
    BY AbsentAssumption DEF ProtocolKind
  <2> QED
    BY <2>1, <2>2, <2>3 DEF Dialing
<1> PICK x \in Payloads \cup {None} : x = k.pending_pings[p]
  BY <1>0 DEF CoreState
<1> PICK old : old = k.peer_to_conn[p]
  OBVIOUS
<1>3. CASE old = None
  <2> PICK h : h = Join(k, c, p, x)
    OBVIOUS
  <2>1. Sound(h, O, R, M) /\ NoPing(h, c) /\ h.peer_to_conn[p] = c /\ h.ping[p].outbound_stream = None
    <3>1. k.peer_to_conn[p] = None
      BY <1>3
    <3> QED
      BY ONLY <1>0, <1>1, <1>2, <3>1, AuthAtHandshake, c \in Conns, p \in Peers,
         x \in Payloads \cup {None}, h = Join(k, c, p, x), JoinSound
  <2>2. h = MapConn(k, c, p)
    BY <1>0 DEF MapConn, CoreState, Join
  <2>3. j = AnnounceConnection(h, p)
    BY <1>0, <1>3, <2>2 DEF RegisterConnection
  <2>4. /\ Sound(j, O, R, M) /\ SameMaps(h, j)
        /\ h.pending_pings[p] # None => HasPendingPingStream(j, p)
    BY ONLY <1>0, <2>1, <2>3, c \in Conns, AnnounceSound
  <2>5. /\ h.pending_pings[p] = k.pending_pings[p]
        /\ \A q \in PeerIds : q # p => h.peer_to_conn[q] = k.peer_to_conn[q]
    BY <1>0, <2>2 DEF MapConn, CoreState
  <2> QED
    BY <2>4, <2>5 DEF SameMaps, TakesPing
<1>4. CASE old # None
  <2>1. old \in Conns /\ k.conn_to_peer[old] = p /\ old # c
    BY <1>0, <1>4 DEF HasMaps, Mapped, MapsAgree
  <2> PICK h1 : h1 = Unmap(k, old, p)
    OBVIOUS
  <2>2. /\ h1 \in CoreState /\ Unmapped(k, h1, old, p)
        /\ h1.actions = k.actions /\ h1.events = k.events
    BY <1>0, <2>1, UnmapIs
  <2>3. Sound(h1, O, R, M)
    BY <1>0, <1>1, <2>1, <2>2, UnmapSound
  <2> PICK h2 : h2 = ForgetConn(h1, old)
    OBVIOUS
  <2>4. h1.conn_to_peer[old] = None /\ \A q \in PeerIds : h1.peer_to_conn[q] # old
    <3> SUFFICES ASSUME NEW q \in PeerIds PROVE h1.peer_to_conn[q] # old
      BY <2>2 DEF Unmapped
    <3>1. q # p => h1.peer_to_conn[q] = k.peer_to_conn[q]
      BY <2>2 DEF Unmapped
    <3>2. q # p => k.peer_to_conn[q] # old
      BY <1>0, <1>4, <2>1 DEF Mapped, MapsAgree
    <3>3. q = p => h1.peer_to_conn[q] = None
      BY <2>2 DEF Unmapped
    <3> QED
      BY <1>4, <3>1, <3>2, <3>3
  <2>5. Sound(h2, O, R, M) /\ h2 \in CoreState /\ SameMaps(h1, h2) /\ Forgotten(h1, h2, old)
    BY ONLY <2>1, <2>3, <2>4, h2 = ForgetConn(h1, old), ForgetConnSound
  <2>6. h2.conn_to_peer[c] = None /\ h2.peer_to_conn[p] = None
    BY <1>0, <2>1, <2>2, <2>5 DEF Unmapped, SameMaps
  <2>7. Opening(h2, c) = {} /\ Dialing(h2, c) = {}
    <3>1. h1.pending_opens = k.pending_opens /\ h1.outbound_negotiators = k.outbound_negotiators
      BY <2>2 DEF Unmapped, SameTables
    <3>2. Opening(h2, c) = {}
      BY <1>2, <2>5, <3>1 DEF Opening, Forgotten
    <3>3. ASSUME NEW s \in StreamIds PROVE h2.outbound_negotiators[<<c, s>>] = k.outbound_negotiators[<<c, s>>]
      <4>1. <<c, s>> \in StreamKeys /\ <<c, s>>[1] = c
        BY DEF StreamKeys
      <4> QED
        BY <2>1, <2>5, <3>1, <4>1 DEF Forgotten
    <3> QED
      BY <1>2, <3>2, <3>3 DEF Dialing
  <2> PICK h3 : h3 = Join(h2, c, p, x)
    OBVIOUS
  <2>8. Sound(h3, O, R, M) /\ NoPing(h3, c) /\ h3.peer_to_conn[p] = c /\ h3.ping[p].outbound_stream = None
    BY ONLY <1>1, <2>5, <2>6, <2>7, AuthAtHandshake, c \in Conns, p \in Peers,
       x \in Payloads \cup {None}, h3 = Join(h2, c, p, x), JoinSound
  <2> PICK h4 : h4 = Act(h3, "CloseConnection", old, None)
    OBVIOUS
  <2>9. Sound(h4, O, R, M) /\ Outputs(h3, h4, O, M) /\ SameMaps(h3, h4)
    <3>1. "CloseConnection" \in StreamActions /\ None \in StreamIds \cup {None}
      BY DEF StreamActions
    <3> QED
      BY ONLY <2>1, <2>8, <3>1, h4 = Act(h3, "CloseConnection", old, None), ActSound
  <2>10. NoPing(h4, c) /\ h4.peer_to_conn[p] = c /\ h4.ping[p].outbound_stream = None
    <3>1. NoPing(h4, c)
      BY ONLY <2>8, <2>9, c \in Conns, NoPingOutputs, GoodMaps DEF Sound
    <3> QED
      BY <1>0, <2>8, <2>9, <3>1 DEF SameMaps, Outputs, SamePeer
  <2>11. MapConn(SupersedeConnection(k, old), c, p) = h4
    BY ONLY <1>0, <2>1, c \in Conns, h1 = Unmap(k, old, p), h2 = ForgetConn(h1, old),
       x = k.pending_pings[p], h3 = Join(h2, c, p, x),
       h4 = Act(h3, "CloseConnection", old, None), SupersedeIs
  <2>12. j = AnnounceConnection(h4, p)
    BY <1>0, <1>4, <2>1, <2>11 DEF RegisterConnection
  <2>13. /\ Sound(j, O, R, M) /\ SameMaps(h4, j)
         /\ h4.pending_pings[p] # None => HasPendingPingStream(j, p)
    BY ONLY <1>0, <2>9, <2>10, <2>12, c \in Conns, AnnounceSound
  <2>14. h4.pending_pings[p] = k.pending_pings[p]
    <3>1. h4.pending_pings[p] = h3.pending_pings[p]
      BY <1>0, <2>9 DEF Outputs, SamePeer
    <3> QED
      BY <1>0, <2>5, <3>1 DEF CoreState, Join
  <2>15. ASSUME NEW q \in PeerIds, q # p PROVE h4.peer_to_conn[q] = k.peer_to_conn[q]
    <3>1. h4.peer_to_conn[q] = h3.peer_to_conn[q] /\ h2.peer_to_conn[q] = h1.peer_to_conn[q]
      BY <2>5, <2>9 DEF SameMaps
    <3>2. h3.peer_to_conn[q] = h2.peer_to_conn[q]
      BY <2>5, <2>15 DEF CoreState, Join
    <3> QED
      BY <2>2, <2>15, <3>1, <3>2 DEF Unmapped
  <2> QED
    BY <2>13, <2>14, <2>15 DEF SameMaps, TakesPing
<1> QED
  BY <1>3, <1>4

\* migrate_buffered_events: the events name another peer.
LEMMA MigratedEvents ==
    ASSUME NEW S, S = SwarmHeard \/ S = SwarmEvent, NEW events \in Seq(S), NEW old,
           NEW new \in PeerIds
    PROVE  MigrateBufferedEvents(events, old, new) \in Seq(S)
<1>1. ASSUME NEW e \in S PROVE [e EXCEPT !.peer = new] \in S
  <2> PICK f : f = [e EXCEPT !.peer = new]
    OBVIOUS
  <2>1. new # None /\ e \in SwarmEvent
    BY PeersAssumption DEF SwarmHeard
  <2>2. f \in SwarmEvent
    BY <2>1 DEF SwarmEvent
  <2>3. f.kind = e.kind /\ f.stream = e.stream /\ f.peer = new
    BY <2>1 DEF SwarmEvent
  <2>4. e \in SwarmHeard => f \in SwarmHeard
    BY <2>1, <2>2, <2>3 DEF SwarmHeard
  <2> QED
    BY <2>2, <2>4
<1>2. Len(events) \in Nat /\ DOMAIN events = 1 .. Len(events) /\ \A i \in 1 .. Len(events) : events[i] \in S
  OBVIOUS
<1>3. \A i \in 1 .. Len(events) :
        (IF events[i].peer = old THEN [events[i] EXCEPT !.peer = new] ELSE events[i]) \in S
  BY <1>1, <1>2
<1> PICK f : f = MigrateBufferedEvents(events, old, new)
  OBVIOUS
<1> PICK n \in Nat : n = Len(events)
  BY <1>2
<1>4. f = [i \in 1 .. n |-> IF events[i].peer = old THEN [events[i] EXCEPT !.peer = new] ELSE events[i]]
  BY <1>2 DEF MigrateBufferedEvents
<1>5. f \in [1 .. n -> S]
  BY <1>3, <1>4
<1>6. f \in Seq(S)
  BY ONLY n \in Nat, <1>5
<1> QED
  BY <1>6

\* A map with p's entry moved to q has the type it had.
LEMMA MovedType ==
    ASSUME NEW P, NEW T, NEW f \in [P -> T], None \in T, NEW p \in P, NEW q \in P
    PROVE  Moved(f, p, q) \in [P -> T]
BY DEF Moved

\* So have the protocols.
LEMMA MigrateType ==
    ASSUME NEW p \in PeerIds, NEW q \in PeerIds,
           NEW f \in [PeerIds -> Ping!PeerPingState], NEW g \in [PeerIds -> Identify!PeerIdentifyState]
    PROVE  /\ Ping!MigratePeer(f, p, q) \in [PeerIds -> Ping!PeerPingState]
           /\ Identify!MigratePeer(g, p, q) \in [PeerIds -> Identify!PeerIdentifyState]
BY AbsentTypes DEF Ping!MigratePeer, Identify!MigratePeer

\* upgrade_connection_identity, the arm Some(stale): the queues and maps of the
\* stale peer move to the new one, the tables of streams stay.
LEMMA MigrateStaleIs ==
    ASSUME NEW k, Typed(k), NEW p \in PeerIds, NEW q \in PeerIds, NEW j, j = MigrateStale(k, p, q)
    PROVE  /\ Typed(j) /\ SameTables(k, j) /\ j.actions = k.actions
           /\ j.conn_to_peer = k.conn_to_peer
           /\ j.peer_to_conn = [k.peer_to_conn EXCEPT ![p] = None]
<1>0. k \in CoreState /\ k.events \in Seq(SwarmHeard) /\ k.events \in Seq(SwarmEvent)
  BY DEF Typed, CoreState
<1>a. PICK a : a = [k.peer_to_conn EXCEPT ![p] = None]
  OBVIOUS
<1>b. PICK b : b = Ping!MigratePeer(k.ping, p, q)
  OBVIOUS
<1>c. PICK c : c = Identify!MigratePeer(k.identify, p, q)
  OBVIOUS
<1>d. PICK d : d = Moved(k.pending_pings, p, q)
  OBVIOUS
<1>e. PICK e : e = Moved(k.peer_info, p, q)
  OBVIOUS
<1>f. PICK f : f = MovedMember(k.ready_peers, p, q)
  OBVIOUS
<1>g. PICK g : g = MovedMember(k.established_peers, p, q)
  OBVIOUS
<1>h. PICK h : h = MigrateBufferedEvents(k.events, p, q)
  OBVIOUS
<1>1. a \in [PeerIds -> Conns \cup {None}] /\ f \in SUBSET PeerIds /\ g \in SUBSET PeerIds
  BY <1>0, <1>a, <1>f, <1>g DEF CoreState, MovedMember
<1>2. /\ b \in [PeerIds -> Ping!PeerPingState] /\ c \in [PeerIds -> Identify!PeerIdentifyState]
  BY <1>0, <1>b, <1>c, MigrateType DEF CoreState
<1>3. d \in [PeerIds -> Payloads \cup {None}]
  <2>1. k.pending_pings \in [PeerIds -> Payloads \cup {None}] /\ None \in Payloads \cup {None}
    BY <1>0 DEF CoreState
  <2> QED
    BY ONLY <1>d, <2>1, p \in PeerIds, q \in PeerIds, MovedType
<1>4. e \in [PeerIds -> IdentifyInfo \cup {None}]
  <2>1. k.peer_info \in [PeerIds -> IdentifyInfo \cup {None}] /\ None \in IdentifyInfo \cup {None}
    BY <1>0 DEF CoreState
  <2> QED
    BY ONLY <1>e, <2>1, p \in PeerIds, q \in PeerIds, MovedType
<1>5. h \in Seq(SwarmHeard) /\ h \in Seq(SwarmEvent)
  BY ONLY <1>0, <1>h, q \in PeerIds, MigratedEvents
<1>6. j = [k EXCEPT !.peer_to_conn = a, !.ping = b, !.identify = c, !.pending_pings = d,
                    !.peer_info = e, !.ready_peers = f, !.established_peers = g, !.events = h]
  BY <1>a, <1>b, <1>c, <1>d, <1>e, <1>f, <1>g, <1>h DEF MigrateStale
<1>7. j \in CoreState
  BY ONLY <1>0, <1>1, <1>2, <1>3, <1>4, <1>5, <1>6 DEF CoreState
<1>8. /\ j.events = h /\ j.actions = k.actions /\ SameTables(k, j)
      /\ j.conn_to_peer = k.conn_to_peer /\ j.peer_to_conn = a
  BY ONLY <1>0, <1>6 DEF CoreState, SameTables
<1> QED
  BY <1>5, <1>7, <1>8, <1>a DEF Typed

\* upgrade_connection_identity
LEMMA UpgradeSound ==
    ASSUME NEW O, NEW R, NEW L, NEW k, Sound(k, O, R, L), ~AuthAtHandshake,
           NEW c \in Conns, c \in L, NEW new \in Peers
    PROVE  Sound(UpgradeConnectionIdentity(k, c, new), O, R, L)
<1>0. /\ k \in CoreState /\ HasMaps(k) /\ Mapped(k, L) /\ Good(k, O, L)
      /\ new \in PeerIds /\ new # None /\ c # None
  BY GoodMaps, PeersAssumption, ConnsAssumption DEF Sound, PeerIds
<1>a. PICK stale : stale = k.conn_to_peer[c]
  OBVIOUS
<1>1. CASE stale = new
  BY <1>1, <1>a DEF UpgradeConnectionIdentity
<1>2. CASE stale # new
  <2>a. PICK k1 : k1 = IF stale = None THEN k ELSE MigrateStale(k, stale, new)
    OBVIOUS
  <2>1. /\ Typed(k1) /\ SameTables(k, k1) /\ k1.actions = k.actions
        /\ k1.conn_to_peer = k.conn_to_peer
        /\ k1.peer_to_conn \in [PeerIds -> Conns \cup {None}]
        /\ \A q \in PeerIds : k1.peer_to_conn[q] = IF q = stale THEN None ELSE k.peer_to_conn[q]
    <3>1. CASE stale = None
      BY <1>0, <2>a, <3>1, PeersAssumption DEF Good, SameTables, HasMaps
    <3>2. CASE stale # None
      <4>1. stale \in PeerIds
        BY <1>0, <1>a, <3>2 DEF HasMaps
      <4>2. /\ Typed(k1) /\ SameTables(k, k1) /\ k1.actions = k.actions
            /\ k1.conn_to_peer = k.conn_to_peer
            /\ k1.peer_to_conn = [k.peer_to_conn EXCEPT ![stale] = None]
        BY <1>0, <2>a, <3>2, <4>1, MigrateStaleIs DEF Good
      <4> QED
        BY <1>0, <4>1, <4>2 DEF HasMaps
    <3> QED
      BY <3>1, <3>2
  <2>b. PICK a : a = [k1.conn_to_peer EXCEPT ![c] = new]
    OBVIOUS
  <2>c. PICK b : b = [k1.peer_to_conn EXCEPT ![new] = c]
    OBVIOUS
  <2>d. PICK e : e = k1.established_peers \cup {new}
    OBVIOUS
  <2>e. PICK k2 : k2 = [k1 EXCEPT !.conn_to_peer = a, !.peer_to_conn = b, !.established_peers = e]
    OBVIOUS
  <2>2. k1 \in CoreState /\ k1.events \in Seq(SwarmHeard)
    BY <2>1 DEF Typed
  <2>3. /\ a \in [Conns -> PeerIds \cup {None}] /\ b \in [PeerIds -> Conns \cup {None}]
        /\ e \in SUBSET PeerIds
    BY <1>0, <2>2, <2>b, <2>c, <2>d DEF CoreState
  <2>4. /\ a[c] = new /\ \A d \in Conns : d # c => a[d] = k.conn_to_peer[d]
        /\ b[new] = c
        /\ \A q \in PeerIds : q # new => b[q] = IF q = stale THEN None ELSE k.peer_to_conn[q]
    BY <1>0, <2>1, <2>b, <2>c DEF HasMaps
  <2>5. k2 \in CoreState
    BY ONLY <2>2, <2>3, <2>e DEF CoreState
  <2>6. /\ k2.conn_to_peer = a /\ k2.peer_to_conn = b /\ SameTables(k1, k2)
        /\ k2.actions = k1.actions /\ k2.events = k1.events
    BY ONLY <2>2, <2>e DEF CoreState, SameTables
  <2>7. Typed(k2) /\ SameTables(k, k2) /\ k2.actions = k.actions
    BY <2>1, <2>2, <2>5, <2>6 DEF Typed, SameTables
  <2>8. Good(k2, O, L)
    <3>1. ActionsIn(k2, O)
      BY <1>0, <2>7 DEF Good, ActionsIn
    <3> QED
      BY <1>0, <2>7, <3>1, SameGood
  <2>9. TablesIn(k2, R) /\ Exclusive(k2)
    BY <2>7 DEF Sound, SameTables, TablesIn, InTable, Exclusive
  <2>10. MapsAgree(k2)
    <3> SUFFICES ASSUME NEW q \in PeerIds, b[q] # None PROVE a[b[q]] = q
      BY <2>6 DEF MapsAgree
    <3>1. CASE q = new
      BY <2>4, <3>1
    <3>2. CASE q # new
      <4> PICK d : d = k.peer_to_conn[q]
        OBVIOUS
      <4>1. q # stale /\ b[q] = d /\ d # None
        BY <2>4, <3>2
      <4>2. d \in Conns /\ k.conn_to_peer[d] = q
        BY <1>0, <4>1 DEF HasMaps, Mapped, MapsAgree
      <4>3. d # c
        BY <1>a, <4>1, <4>2
      <4> QED
        BY <2>4, <4>1, <4>2, <4>3
    <3> QED
      BY <3>1, <3>2
  <2>11. Mapped(k2, L)
    <3>1. \A d \in Conns : a[d] # None => d \in L
      BY <1>0, <2>4 DEF Mapped
    <3> QED
      BY <2>6, <2>10, <3>1 DEF Mapped
  <2>12. Sound(k2, O, R, L)
    BY <2>8, <2>9, <2>11 DEF Sound
  <2>f. PICK k3 : k3 = Emit(k2, "ConnectionEstablished", new, None)
    OBVIOUS
  <2>13. Event("ConnectionEstablished", new, None) \in SwarmHeard
    BY <1>0 DEF Event, SwarmHeard, SwarmEvent, EventKinds
  <2>14. Sound(k3, O, R, L) /\ SameMaps(k2, k3)
    BY <2>12, <2>13, <2>f, EmitSound
  <2>g. PICK k4 : k4 = TryEmitPeerReady(k3, new)
    OBVIOUS
  <2>15. Sound(k4, O, R, L) /\ SameMaps(k3, k4)
    <3>1. Good(k3, O, L) /\ HasMaps(k3)
      BY <2>14, GoodMaps DEF Sound
    <3>2. Outputs(k3, k4, O, L) /\ SameMaps(k3, k4)
      BY <1>0, <2>g, <3>1, TryReadyOut, TryReadySame
    <3> QED
      BY <2>14, <3>2, SoundOutputs
  <2>16. k4.peer_to_conn[new] # None
    BY <1>0, <2>4, <2>6, <2>14, <2>15 DEF SameMaps
  <2>17. Sound(QueueOpenProtocolStream(k4, new, "IdentifyInitiator"), O, R, L)
    BY <1>0, <2>15, <2>16, QueueOpenSound DEF ProtocolKind
  <2>18. k2 = [MapConn(k1, c, new) EXCEPT !.established_peers = @ \cup {new}]
    BY <2>2, <2>b, <2>c, <2>d, <2>e DEF MapConn, CoreState
  <2>19. UpgradeConnectionIdentity(k, c, new) = QueueOpenProtocolStream(k4, new, "IdentifyInitiator")
    BY <1>2, <1>a, <2>a, <2>f, <2>g, <2>18 DEF UpgradeConnectionIdentity
  <2> QED
    BY <2>17, <2>19
<1> QED
  BY <1>1, <1>2

-----------------------------------------------------------------------------
(* The invariant of the swarm.                                             *)

\* Connections between Connected and Closed.
LiveConns == {c \in Conns : Live(c)}

\* Streams that the transport still reports on.
ReportedKeys == {cs \in StreamKeys : Reported(cs[1], cs[2])}

\* Streams that actions may name: those opened so far, where identities come
\* with the connection.
OpenedKeys == IF AuthAtHandshake THEN {cs \in StreamKeys : streams[cs] # "idle"} ELSE StreamKeys

\* The types, and a core that is sound for what the transport knows.
StreamInv ==
    /\ polling \in BOOLEAN
    /\ streams \in [StreamKeys -> WireStates]
    /\ app \in AppView
    /\ Sound(core, OpenedKeys, ReportedKeys, LiveConns)

\* A stream is reported while it and its connection last.
LEMMA ReportedIs ==
    ASSUME NEW c \in Conns, NEW s \in StreamIds
    PROVE  /\ <<c, s>> \in StreamKeys
           /\ <<c, s>> \in ReportedKeys <=> Live(c) /\ streams[<<c, s>>] \in {"open", "half"}
           /\ c \in LiveConns <=> Live(c)
BY DEF ReportedKeys, LiveConns, Reported, StreamKeys

\* What the transport knows is a scope for the core.
LEMMA ScopeHolds == Scope(OpenedKeys, ReportedKeys, LiveConns)
<1>1. LiveConns \subseteq Conns /\ OpenedKeys \subseteq StreamKeys
  BY DEF LiveConns, OpenedKeys
<1>2. ReportedKeys \subseteq OpenedKeys
  <2> SUFFICES ASSUME NEW cs \in ReportedKeys PROVE cs \in OpenedKeys
    OBVIOUS
  <2>1. cs \in StreamKeys /\ cs = <<cs[1], cs[2]>> /\ streams[<<cs[1], cs[2]>>] \in {"open", "half"}
    BY DEF ReportedKeys, Reported, StreamKeys
  <2> QED
    BY <2>1 DEF OpenedKeys
<1>3. \A c \in Conns, s \in StreamIds : <<c, s>> \in ReportedKeys => c \in LiveConns
  BY ReportedIs
<1>4. ~AuthAtHandshake => OpenedKeys = StreamKeys
  BY DEF OpenedKeys
<1> QED
  BY <1>1, <1>2, <1>3, <1>4 DEF Scope

\* The same after a step.
LEMMA ScopeHoldsNext == Scope(OpenedKeys', ReportedKeys', LiveConns')
<1>1. LiveConns' \subseteq Conns /\ OpenedKeys' \subseteq StreamKeys
  BY DEF LiveConns, OpenedKeys
<1>2. ReportedKeys' \subseteq OpenedKeys'
  <2> SUFFICES ASSUME NEW cs \in ReportedKeys' PROVE cs \in OpenedKeys'
    OBVIOUS
  <2>1. cs \in StreamKeys /\ cs = <<cs[1], cs[2]>> /\ streams'[<<cs[1], cs[2]>>] \in {"open", "half"}
    BY DEF ReportedKeys, Reported, StreamKeys
  <2> QED
    BY <2>1 DEF OpenedKeys
<1>3. \A c \in Conns, s \in StreamIds : <<c, s>> \in ReportedKeys' => c \in LiveConns'
  BY DEF ReportedKeys, LiveConns, Reported, StreamKeys
<1>4. ~AuthAtHandshake => OpenedKeys' = StreamKeys
  BY DEF OpenedKeys
<1> QED
  BY <1>1, <1>2, <1>3, <1>4 DEF Scope

\* A step that leaves the transport as it is.
LEMMA StaySound ==
    ASSUME StreamInv, conns' = conns, streams' = streams, polling' \in BOOLEAN, app' \in AppView,
           Sound(core', OpenedKeys, ReportedKeys, LiveConns)
    PROVE  StreamInv'
<1>1. OpenedKeys' = OpenedKeys /\ ReportedKeys' = ReportedKeys /\ LiveConns' = LiveConns
  BY DEF OpenedKeys, ReportedKeys, LiveConns, Reported, Live
<1> QED
  BY <1>1 DEF StreamInv

\* The application's view of an event.
LEMMA ToldType ==
    ASSUME NEW v \in AppView, NEW e \in SwarmHeard
    PROVE  Told(v, e) \in AppView
<1>0. /\ e.peer \in PeerIds \cup {None} /\ e.stream \in StreamIds \cup {None}
      /\ e.kind \in {"ConnectionEstablished", "ConnectionClosed", "PeerReady",
                      "UserStreamReady", "UserStreamClosed"} => e.peer \in PeerIds
      /\ e.kind \in {"UserStreamReady", "UserStreamClosed"} => e.stream \in StreamIds
  BY DEF SwarmHeard, SwarmEvent
<1> PICK p : p = e.peer
  OBVIOUS
<1> PICK others : others = {ps \in v.streams : ps[1] # p}
  OBVIOUS
<1>1. others \in SUBSET (PeerIds \X StreamIds)
  BY DEF AppView
<1>2. CASE e.kind = "ConnectionEstablished"
  <2>1. Told(v, e) = [connected |-> v.connected \cup {p}, ready |-> v.ready \ {p}, streams |-> others]
    BY <1>2 DEF Told
  <2> QED
    BY <1>0, <1>1, <1>2, <2>1 DEF AppView
<1>3. CASE e.kind = "ConnectionClosed"
  <2>1. Told(v, e) = [connected |-> v.connected \ {p}, ready |-> v.ready \ {p}, streams |-> others]
    BY <1>3 DEF Told
  <2> QED
    BY <1>0, <1>1, <1>3, <2>1 DEF AppView
<1>4. CASE e.kind = "PeerReady"
  <2>1. Told(v, e) = [v EXCEPT !.ready = @ \cup {p}]
    BY <1>4 DEF Told
  <2> QED
    BY <1>0, <1>4, <2>1 DEF AppView
<1>5. CASE e.kind = "UserStreamReady"
  <2>1. Told(v, e) = [v EXCEPT !.streams = @ \cup {<<p, e.stream>>}]
    BY <1>5 DEF Told
  <2>2. <<p, e.stream>> \in PeerIds \X StreamIds
    BY <1>0, <1>5
  <2> QED
    BY <2>1, <2>2 DEF AppView
<1>6. CASE e.kind = "UserStreamClosed"
  <2>1. Told(v, e) = [v EXCEPT !.streams = @ \ {<<p, e.stream>>}]
    BY <1>6 DEF Told
  <2> QED
    BY <2>1 DEF AppView
<1>7. CASE e.kind \notin {"ConnectionEstablished", "ConnectionClosed", "PeerReady",
                          "UserStreamReady", "UserStreamClosed"}
  BY <1>7 DEF Told
<1> QED
  BY <1>2, <1>3, <1>4, <1>5, <1>6, <1>7

-----------------------------------------------------------------------------
(* Its steps.                                                              *)

\* Tick, DeliverEvent, BeginPoll and the application's calls.
LEMMA DriverSound ==
    ASSUME StreamInv, BeginPoll \/ Tick \/ DeliverEvent \/ Call
    PROVE  StreamInv'
<1>0. Sound(core, OpenedKeys, ReportedKeys, LiveConns) /\ polling \in BOOLEAN /\ app \in AppView
  BY DEF StreamInv
<1> PICK O : O = OpenedKeys
  OBVIOUS
<1> PICK R : R = ReportedKeys
  OBVIOUS
<1> PICK L : L = LiveConns
  OBVIOUS
<1> PICK k : k = core
  OBVIOUS
<1>1. CASE BeginPoll
  BY <1>0, <1>1, StaySound DEF BeginPoll
<1>2. CASE Tick
  <2>1. conns' = conns /\ streams' = streams /\ polling' \in BOOLEAN /\ app' = app
    BY <1>2 DEF Tick
  <2>2. Sound(core', O, R, L)
    <3>1. CASE core' = core
      BY <1>0, <3>1
    <3>2. ASSUME NEW p \in PeerIds, k.ping[p].outbound_stream # None, core' = HandleTick(k, p)
          PROVE  Sound(core', O, R, L)
      BY <1>0, <3>2, TickSound
    <3> QED
      BY <1>2, <3>1, <3>2 DEF Tick
  <2> QED
    BY <1>0, <2>1, <2>2, StaySound
<1>3. CASE DeliverEvent
  <2>1. /\ conns' = conns /\ streams' = streams /\ polling' = polling /\ core' = PopEvent(k)
        /\ app' = Told(app, Head(k.events)) /\ k.events # << >>
    BY <1>3 DEF DeliverEvent
  <2>2. Good(k, O, L) /\ HasMaps(k) /\ k.events \in Seq(SwarmHeard)
    BY <1>0, GoodMaps DEF Sound, Good, Typed
  <2>3. Outputs(k, PopEvent(k), O, L) /\ SameMaps(k, PopEvent(k))
    BY <2>1, <2>2, PopOut, ActSame
  <2>4. Sound(core', O, R, L)
    BY <1>0, <2>1, <2>3, SoundOutputs
  <2>5. Head(k.events) \in SwarmHeard
    BY <2>1, <2>2
  <2>6. app' \in AppView
    BY <1>0, <2>1, <2>5, ToldType
  <2> QED
    BY <1>0, <2>1, <2>4, <2>6, StaySound
<1>4. CASE Call
  <2>1. conns' = conns /\ streams' = streams /\ polling' = polling /\ app' = app
    BY <1>4 DEF Call, AppPing, AppOpenUserStream, AppDisconnect, AppUserStreamCall
  <2>2. ASSUME NEW p \in Peers PROVE p \in PeerIds
    BY DEF PeerIds
  <2>3. Sound(core', O, R, L)
    <3>0. PICK p \in Peers :
            \/ \E payload \in Payloads : AppPing(p, payload)
            \/ AppOpenUserStream(p)
            \/ AppDisconnect(p)
            \/ \E s \in StreamIds : AppUserStreamCall(p, s)
      BY <1>4 DEF Call
    <3>1. ASSUME NEW payload \in Payloads, AppPing(p, payload) PROVE Sound(core', O, R, L)
      BY <1>0, <2>2, <3>1, DoPingSound DEF AppPing
    <3>2. CASE AppOpenUserStream(p)
      <4>1. core' = OpenUserStream(k, p)
        BY <3>2 DEF AppOpenUserStream
      <4> QED
        BY <1>0, <2>2, <4>1, OpenUserSound
    <3>3. CASE AppDisconnect(p)
      <4>1. core' = Disconnect(k, p)
        BY <3>3 DEF AppDisconnect
      <4> QED
        BY <1>0, <2>2, <4>1, OpenUserSound
    <3>4. ASSUME NEW s \in StreamIds, AppUserStreamCall(p, s) PROVE Sound(core', O, R, L)
      BY <1>0, <2>2, <3>4, UserCallsSound DEF AppUserStreamCall
    <3> QED
      BY <3>0, <3>1, <3>2, <3>3, <3>4
  <2> QED
    BY <1>0, <2>1, <2>3, StaySound
<1> QED
  BY <1>1, <1>2, <1>3, <1>4

\* A stream becomes known: the scope grows by it, and no table has it yet.
LEMMA OpenGrows ==
    ASSUME MapInv, StreamInv, NEW c \in Conns, NEW s \in StreamIds, Live(c), conns' = conns,
           streams[<<c, s>>] = "idle", Wire(c, s, "open"), NEW k,
           Sound(k, OpenedKeys, ReportedKeys, LiveConns)
    PROVE  /\ streams' \in [StreamKeys -> WireStates]
           /\ Sound(k, OpenedKeys', ReportedKeys', LiveConns')
           /\ <<c, s>> \in ReportedKeys' /\ ~InTable(k, <<c, s>>)
<1>0. <<c, s>> \in StreamKeys /\ <<c, s>> \notin ReportedKeys
  BY ReportedIs
<1>1. /\ streams' \in [StreamKeys -> WireStates] /\ streams'[<<c, s>>] = "open"
      /\ \A ds \in StreamKeys : ds # <<c, s>> => streams'[ds] = streams[ds]
  BY <1>0 DEF StreamInv, Wire, WireStates
<1>2. LiveConns' = LiveConns
  BY DEF LiveConns, Live
<1>3. ReportedKeys \subseteq ReportedKeys'
  <2> SUFFICES ASSUME NEW ds \in ReportedKeys PROVE ds \in ReportedKeys'
    OBVIOUS
  <2>1. ds \in StreamKeys /\ ds # <<c, s>> /\ Reported(ds[1], ds[2]) /\ ds = <<ds[1], ds[2]>>
    BY <1>0 DEF ReportedKeys, StreamKeys
  <2>2. Reported(ds[1], ds[2])'
    BY <1>1, <2>1 DEF Reported, Live
  <2> QED
    BY <2>1, <2>2 DEF ReportedKeys
<1>4. OpenedKeys \subseteq OpenedKeys'
  BY <1>0, <1>1 DEF OpenedKeys
<1>5. <<c, s>> \in ReportedKeys'
  BY <1>0, <1>1 DEF ReportedKeys, Reported, Live
<1>6. ~InTable(k, <<c, s>>)
  BY <1>0 DEF Sound, TablesIn
<1>7. Sound(k, OpenedKeys', ReportedKeys', LiveConns')
  <2> PICK O : O = OpenedKeys
    OBVIOUS
  <2> PICK R : R = ReportedKeys
    OBVIOUS
  <2> PICK L : L = LiveConns
    OBVIOUS
  <2> PICK O2 : O2 = OpenedKeys'
    OBVIOUS
  <2> PICK R2 : R2 = ReportedKeys'
    OBVIOUS
  <2> PICK L2 : L2 = LiveConns'
    OBVIOUS
  <2>1. O \subseteq O2 /\ R \subseteq R2 /\ L \subseteq L2 /\ Scope(O2, R2, L2) /\ Sound(k, O, R, L)
    BY <1>2, <1>3, <1>4, ScopeHoldsNext
  <2>2. Sound(k, O2, R2, L2)
    BY ONLY <2>1, SoundGrows
  <2> QED
    BY <2>2
<1> QED
  BY <1>1, <1>5, <1>6, <1>7

\* The fields of StreamInv after a step.
LEMMA StepSound ==
    ASSUME polling' \in BOOLEAN, streams' \in [StreamKeys -> WireStates], app' \in AppView,
           Sound(core', OpenedKeys', ReportedKeys', LiveConns')
    PROVE  StreamInv'
BY DEF StreamInv

\* IncomingStream
LEMMA IncomingInv ==
    ASSUME MapInv, StreamInv, NEW c \in Conns, NEW s \in StreamIds, IncomingStream(c, s)
    PROVE  StreamInv'
<1>1. /\ Live(c) /\ conns' = conns /\ streams[<<c, s>>] = "idle" /\ Wire(c, s, "open")
      /\ polling' = polling /\ app' = app /\ core' = HandleIncomingStream(core, c, s)
  BY DEF IncomingStream, NextStream
<1>2. Sound(core, OpenedKeys, ReportedKeys, LiveConns) /\ polling \in BOOLEAN /\ app \in AppView
  BY DEF StreamInv
<1> PICK k : k = core
  OBVIOUS
<1>3. /\ streams' \in [StreamKeys -> WireStates]
      /\ Sound(k, OpenedKeys', ReportedKeys', LiveConns')
      /\ <<c, s>> \in ReportedKeys' /\ ~InTable(k, <<c, s>>)
  BY <1>1, <1>2, OpenGrows
<1>4. Sound(HandleIncomingStream(k, c, s), OpenedKeys', ReportedKeys', LiveConns')
  BY <1>3, IncomingSound
<1> QED
  BY <1>1, <1>2, <1>3, <1>4, StepSound

\* Connected
LEMMA ConnectedInv ==
    ASSUME MapInv, StreamInv, NEW c \in Conns, NEW p \in Peers, Connected(c, p)
    PROVE  StreamInv'
<1>1. /\ conns[c] = "unused" /\ streams' = streams /\ polling' = polling /\ app' = app
      /\ conns' = [conns EXCEPT ![c] = IF AuthAtHandshake THEN "connected" ELSE "unverified"]
      /\ core' = HandleConnected(core, c, IF AuthAtHandshake THEN p ELSE None)
  BY DEF Connected
<1>2. /\ Sound(core, OpenedKeys, ReportedKeys, LiveConns) /\ polling \in BOOLEAN /\ app \in AppView
      /\ streams \in [StreamKeys -> WireStates]
  BY DEF StreamInv
<1>3. LiveConns' = LiveConns \cup {c} /\ c \notin LiveConns
  BY <1>1 DEF LiveConns, Live, MapInv, WireOK
<1>4. OpenedKeys' = OpenedKeys
  BY <1>1 DEF OpenedKeys
<1>5. ReportedKeys \subseteq ReportedKeys'
  <2> SUFFICES ASSUME NEW ds \in ReportedKeys PROVE ds \in ReportedKeys'
    OBVIOUS
  <2>1. ds \in StreamKeys /\ Reported(ds[1], ds[2]) /\ ds[1] \in Conns
    BY DEF ReportedKeys, StreamKeys
  <2>2. ds[1] \in LiveConns'
    BY <1>3, <2>1 DEF LiveConns, Reported
  <2> QED
    BY <1>1, <2>1, <2>2 DEF ReportedKeys, Reported, LiveConns
<1> PICK k : k = core
  OBVIOUS
<1> PICK O : O = OpenedKeys
  OBVIOUS
<1> PICK R : R = ReportedKeys
  OBVIOUS
<1> PICK L : L = LiveConns
  OBVIOUS
<1> PICK R2 : R2 = ReportedKeys'
  OBVIOUS
<1> PICK M : M = L \cup {c}
  OBVIOUS
<1>6. /\ Scope(O, R2, M) /\ R \subseteq R2 /\ L \subseteq M /\ c \in M /\ O \subseteq O
      /\ Sound(k, O, R, L) /\ c \notin L
  BY <1>2, <1>3, <1>4, <1>5, ScopeHoldsNext
<1>7. Sound(core', O, R2, M)
  <2>1. CASE AuthAtHandshake
    <3> PICK j : j = RegisterConnection(k, c, p)
      OBVIOUS
    <3>1. core' = j
      BY <1>1, <2>1, PeersAssumption DEF HandleConnected, PeerIds
    <3>2. Sound(j, O, R, M)
      BY <1>6, <2>1, RegisterSound
    <3>3. M \subseteq M
      OBVIOUS
    <3> QED
      BY ONLY <1>6, <3>1, <3>2, <3>3, SoundGrows
  <2>2. CASE ~AuthAtHandshake
    <3>1. core' = EnsurePeerIdForConn(k, c)
      BY <1>1, <2>2 DEF HandleConnected
    <3>2. Sound(k, O, R2, M)
      BY ONLY <1>6, SoundGrows
    <3> QED
      BY <1>6, <3>1, <3>2, EnsureSound
  <2> QED
    BY <2>1, <2>2
<1> QED
  BY <1>1, <1>2, <1>3, <1>4, <1>7, StepSound

\* Closed
LEMMA ClosedInv ==
    ASSUME MapInv, StreamInv, NEW c \in Conns, Closed(c)
    PROVE  StreamInv'
<1>1. /\ streams' = streams /\ polling' = polling /\ app' = app
      /\ conns' = [conns EXCEPT ![c] = "closed"] /\ core' = HandleConnectionClosed(core, c)
  BY DEF Closed
<1>2. /\ Sound(core, OpenedKeys, ReportedKeys, LiveConns) /\ polling \in BOOLEAN /\ app \in AppView
      /\ streams \in [StreamKeys -> WireStates]
  BY DEF StreamInv
<1>3. LiveConns' = LiveConns \ {c}
  BY <1>1 DEF LiveConns, Live, MapInv, WireOK
<1>4. OpenedKeys' = OpenedKeys
  BY <1>1 DEF OpenedKeys
<1>5. ReportedKeys' = Without(ReportedKeys, c)
  <2>1. \A ds \in StreamKeys : ds[1] \in Conns
    BY DEF StreamKeys
  <2>2. \A d \in Conns : Live(d)' <=> Live(d) /\ d # c
    BY <1>1 DEF Live, MapInv, WireOK
  <2> QED
    BY <1>1, <2>1, <2>2 DEF ReportedKeys, Reported, Without
<1>6. Sound(core', OpenedKeys, Without(ReportedKeys, c), LiveConns \ {c})
  BY <1>1, <1>2, ClosedSound
<1> QED
  BY <1>1, <1>2, <1>3, <1>4, <1>5, <1>6, StepSound

\* PeerIdentityVerified
LEMMA VerifiedInv ==
    ASSUME MapInv, StreamInv, NEW c \in Conns, PeerIdentityVerified(c)
    PROVE  StreamInv'
<1>1. /\ streams' = streams /\ polling' = polling /\ app' = app /\ conns[c] = "unverified"
      /\ conns' = [conns EXCEPT ![c] = "connected"]
      /\ core' = UpgradeConnectionIdentity(core, c, remote[c])
  BY DEF PeerIdentityVerified
<1>2. /\ Sound(core, OpenedKeys, ReportedKeys, LiveConns) /\ polling \in BOOLEAN /\ app \in AppView
      /\ streams \in [StreamKeys -> WireStates]
  BY DEF StreamInv
<1>3. ~AuthAtHandshake /\ remote[c] \in Peers /\ c \in LiveConns
  BY <1>1 DEF MapInv, WireOK, LiveConns, Live
<1>4. \A d \in Conns : Live(d)' <=> Live(d)
  BY <1>1 DEF Live, MapInv, WireOK
<1>5. LiveConns' = LiveConns /\ OpenedKeys' = OpenedKeys
  BY <1>1, <1>4 DEF LiveConns, OpenedKeys
<1>6. ReportedKeys' = ReportedKeys
  <2>1. \A ds \in StreamKeys : ds[1] \in Conns
    BY DEF StreamKeys
  <2> QED
    BY <1>1, <1>4, <2>1 DEF ReportedKeys, Reported
<1>7. Sound(core', OpenedKeys, ReportedKeys, LiveConns)
  BY <1>1, <1>2, <1>3, UpgradeSound
<1> QED
  BY <1>1, <1>2, <1>5, <1>6, <1>7, StepSound

\* StreamData
LEMMA StreamDataInv ==
    ASSUME StreamInv, NEW c \in Conns, NEW s \in StreamIds, StreamData(c, s)
    PROVE  StreamInv'
<1>1. /\ conns' = conns /\ streams' = streams /\ polling' = polling /\ app' = app
      /\ Live(c) /\ streams[<<c, s>>] = "open"
  BY DEF StreamData
<1>2. Sound(core, OpenedKeys, ReportedKeys, LiveConns) /\ polling \in BOOLEAN /\ app \in AppView
  BY DEF StreamInv
<1> PICK O : O = OpenedKeys
  OBVIOUS
<1> PICK R : R = ReportedKeys
  OBVIOUS
<1> PICK L : L = LiveConns
  OBVIOUS
<1> PICK k : k = core
  OBVIOUS
<1>3. <<c, s>> \in R /\ c \in L /\ <<c, s>> \in O
  <2>1. <<c, s>> \in R /\ c \in L
    BY <1>1, ReportedIs
  <2> QED
    BY <2>1, ScopeHolds DEF Scope
<1>4. \A rest \in Chunks \cup {None} : rest # None => rest.len \in Nat
  BY CorePayloadAssumption DEF Chunks
<1>5. ASSUME NEW chunk \in Chunks, DataForOwner(c, s, chunk) PROVE Sound(core', O, R, L)
  <2>1. core' = DispatchProtocolData(k, c, s, chunk)
    BY <1>5 DEF DataForOwner
  <2>2. chunk.len \in Nat
    BY CorePayloadAssumption DEF Chunks
  <2> QED
    BY <1>2, <1>3, <2>1, <2>2, DispatchSound
<1>6. ASSUME NEW rest \in Chunks \cup {None}, DataForListener(c, s, rest) PROVE Sound(core', O, R, L)
  <2>1. <<c, s>> \in k.inbound_negotiators
    BY <1>6 DEF DataForListener
  <2>2. PICK outcome \in {"negotiated", "not_available", "error"},
             protocol \in {"Ping", "Identify", "User", None}, data \in {rest, None} :
          /\ core' = FeedInboundNegotiator(k, c, s, outcome, protocol, data)
          /\ outcome = "negotiated" => protocol \in {"Ping", "Identify", "User"}
    BY <1>6 DEF DataForListener
  <2>3. data # None => data.len \in Nat
    BY <1>4
  <2>4. Sound(FeedInboundNegotiator(k, c, s, outcome, protocol, data), O, R, L)
    BY <1>2, <1>3, <2>1, <2>2, <2>3, FeedInboundSound
  <2> QED
    BY <2>2, <2>4
<1>7. ASSUME NEW rest \in Chunks \cup {None}, DataForDialer(c, s, rest) PROVE Sound(core', O, R, L)
  <2>1. k.outbound_negotiators[<<c, s>>] # None
    BY <1>7 DEF DataForDialer
  <2>2. PICK proposed \in BOOLEAN, outcome \in {"waiting", "negotiated", "not_available", "error"},
             data \in {rest, None} :
          core' = FeedOutboundNegotiator(k, c, s, proposed, outcome, data)
    BY <1>7 DEF DataForDialer
  <2>3. data # None => data.len \in Nat
    BY <1>4
  <2>4. Sound(FeedOutboundNegotiator(k, c, s, proposed, outcome, data), O, R, L)
    BY <1>2, <1>3, <2>1, <2>3, FeedOutboundSound
  <2> QED
    BY <2>2, <2>4
<1>8. Sound(core', O, R, L)
  BY <1>5, <1>6, <1>7 DEF StreamData
<1> QED
  BY <1>1, <1>2, <1>8, StaySound

\* StreamRemoteWriteClosed, StreamClosed and the transport's errors
LEMMA StreamEndInv ==
    ASSUME MapInv, StreamInv, NEW c \in Conns, NEW s \in StreamIds,
           StreamRemoteWriteClosed(c, s) \/ StreamClosed(c, s)
    PROVE  StreamInv'
<1>2. /\ Sound(core, OpenedKeys, ReportedKeys, LiveConns) /\ polling \in BOOLEAN /\ app \in AppView
      /\ streams \in [StreamKeys -> WireStates]
  BY DEF StreamInv
<1> PICK O : O = OpenedKeys
  OBVIOUS
<1> PICK R : R = ReportedKeys
  OBVIOUS
<1> PICK L : L = LiveConns
  OBVIOUS
<1> PICK k : k = core
  OBVIOUS
<1>3. PICK state \in {"half", "closed"} :
        /\ streams' = [streams EXCEPT ![<<c, s>>] = state]
        /\ state = "half" <=> StreamRemoteWriteClosed(c, s)
        /\ state = "closed" => StreamClosed(c, s)
  BY DEF StreamRemoteWriteClosed, StreamClosed, Wire
<1>4. /\ Live(c) /\ streams[<<c, s>>] \in {"open", "half"} /\ conns' = conns
      /\ polling' = polling /\ app' = app
  BY DEF StreamRemoteWriteClosed, StreamClosed, Reported
<1>5. <<c, s>> \in R /\ c \in L /\ <<c, s>> \in O /\ <<c, s>> \in StreamKeys
  <2>1. <<c, s>> \in R /\ c \in L /\ <<c, s>> \in StreamKeys
    BY <1>4, ReportedIs
  <2> QED
    BY <2>1, ScopeHolds DEF Scope
<1>6. /\ streams' \in [StreamKeys -> WireStates] /\ streams'[<<c, s>>] = state
      /\ \A ds \in StreamKeys : ds # <<c, s>> => streams'[ds] = streams[ds]
  BY <1>2, <1>3, <1>5 DEF WireStates
<1>7. OpenedKeys' = O /\ LiveConns' = L
  <2>1. \A ds \in StreamKeys : streams'[ds] # "idle" <=> streams[ds] # "idle"
    BY <1>4, <1>5, <1>6
  <2> QED
    BY <1>4, <2>1 DEF OpenedKeys, LiveConns, Live
<1>8. \A ds \in StreamKeys :
        ds \in ReportedKeys' <=> ds \in R /\ (ds = <<c, s>> => state = "half")
  <2> SUFFICES ASSUME NEW d \in Conns, NEW t \in StreamIds
               PROVE  <<d, t>> \in ReportedKeys' <=> <<d, t>> \in R /\ (<<d, t>> = <<c, s>> => state = "half")
    BY DEF StreamKeys
  <2>1. <<d, t>> \in StreamKeys
    BY DEF StreamKeys
  <2>2. <<d, t>> \in ReportedKeys' <=> Live(d)' /\ streams'[<<d, t>>] \in {"open", "half"}
    BY <2>1 DEF ReportedKeys, Reported
  <2>3. Live(d)' <=> Live(d)
    BY <1>4 DEF Live
  <2>4. <<d, t>> \in R <=> Live(d) /\ streams[<<d, t>>] \in {"open", "half"}
    BY ReportedIs
  <2> QED
    BY <1>4, <1>6, <2>1, <2>2, <2>3, <2>4
<1>9. CASE state = "half"
  <2>1. ReportedKeys' = R
    BY <1>8, <1>9 DEF ReportedKeys
  <2>2. PICK decoded \in IdentifyInfo \cup {Malformed} :
          core' = HandleStreamRemoteWriteClosed(k, c, s, decoded)
    BY <1>3, <1>9 DEF StreamRemoteWriteClosed
  <2>3. Sound(core', O, R, L)
    BY <1>2, <1>5, <2>2, RemoteClosedSound
  <2> QED
    BY <1>2, <1>4, <1>6, <1>7, <2>1, <2>3, StepSound
<1>10. CASE state = "closed"
  <2> PICK R2 : R2 = R \ {<<c, s>>}
    OBVIOUS
  <2>1. ReportedKeys' = R2
    BY <1>8, <1>10 DEF ReportedKeys
  <2>2. core' = HandleStreamClosed(k, c, s)
    BY <1>3, <1>10 DEF StreamClosed
  <2>3. Sound(core', O, R2, L)
    BY <1>2, <1>5, <2>2, StreamClosedSound
  <2> QED
    BY <1>2, <1>4, <1>6, <1>7, <2>1, <2>3, StepSound
<1> QED
  BY <1>9, <1>10

\* TransportEvent::Error
LEMMA TransportErrorInv ==
    ASSUME StreamInv, NEW c \in Conns, TransportError(c)
    PROVE  StreamInv'
<1>1. /\ conns' = conns /\ streams' = streams /\ polling' = polling /\ app' = app
      /\ core' = EmitError(core, "Transport", EstablishedPeerForConn(core, c))
  BY DEF TransportError
<1>2. Sound(core, OpenedKeys, ReportedKeys, LiveConns) /\ polling \in BOOLEAN /\ app \in AppView
  BY DEF StreamInv
<1> PICK p : p = EstablishedPeerForConn(core, c)
  OBVIOUS
<1>3. p \in PeerIds \cup {None}
  BY <1>2, GoodMaps, EstablishedType DEF Sound
<1>4. Sound(core', OpenedKeys, ReportedKeys, LiveConns)
  BY <1>1, <1>2, <1>3, ErrorSound DEF ErrorKinds
<1> QED
  BY <1>1, <1>2, <1>4, StaySound

\* dispatch_action
LEMMA DispatchInv ==
    ASSUME MapInv, StreamInv, DispatchAction
    PROVE  StreamInv'
<1>1. polling' = polling /\ app' = app /\ core.actions # << >>
  BY DEF DispatchAction
<1>2. /\ Sound(core, OpenedKeys, ReportedKeys, LiveConns) /\ polling \in BOOLEAN /\ app \in AppView
      /\ streams \in [StreamKeys -> WireStates]
  BY DEF StreamInv
<1>3. core \in CoreState /\ HasMaps(core) /\ Good(core, OpenedKeys, LiveConns)
  BY <1>2, GoodMaps DEF Sound
<1> PICK a \in SwarmAction : a = Head(core.actions)
  BY <1>1, <1>3 DEF CoreState
<1>4. a.conn \in Conns
  BY DEF SwarmAction
<1> PICK c \in Conns : c = a.conn
  BY <1>4
<1> PICK k : k = PopAction(core)
  OBVIOUS
<1>5. Sound(k, OpenedKeys, ReportedKeys, LiveConns)
  <2>1. Outputs(core, k, OpenedKeys, LiveConns) /\ SameMaps(core, k)
    BY <1>1, <1>3, PopOut, ActSame
  <2> QED
    BY <1>2, <2>1, SoundOutputs
<1>6. Sound(EmitError(k, "Transport", None), OpenedKeys, ReportedKeys, LiveConns)
  BY <1>5, ErrorSound DEF ErrorKinds
<1>7. CASE DispatchOpenStream(a)
  <2>1. CASE core' = HandleOpenStreamFailed(k, a.token) /\ conns' = conns /\ streams' = streams
    <3>1. Sound(core', OpenedKeys, ReportedKeys, LiveConns)
      BY <1>5, <2>1, OpenedSound
    <3> QED
      BY <1>1, <1>2, <2>1, <3>1, StaySound
  <2>2. ASSUME NEW s \in NextStream(c), conns[c] \in {"unverified", "connected"}, Wire(c, s, "open"),
               core' = HandleStreamOpened(k, c, s, a.token), conns' = conns
        PROVE  StreamInv'
    <3>1. s \in StreamIds /\ streams[<<c, s>>] = "idle" /\ Live(c)
      BY <2>2 DEF NextStream, Live
    <3>2. /\ streams' \in [StreamKeys -> WireStates]
          /\ Sound(k, OpenedKeys', ReportedKeys', LiveConns')
          /\ <<c, s>> \in ReportedKeys' /\ ~InTable(k, <<c, s>>)
      BY <1>5, <2>2, <3>1, OpenGrows
    <3>3. Sound(core', OpenedKeys', ReportedKeys', LiveConns')
      BY <2>2, <3>1, <3>2, OpenedSound
    <3> QED
      BY <1>1, <1>2, <3>2, <3>3, StepSound
  <2> QED
    BY <1>7, <2>1, <2>2 DEF DispatchOpenStream
<1>8. CASE DispatchStreamAction(a)
  <2>1. /\ conns' = conns /\ streams' = streams
        /\ core' = k \/ core' = EmitError(k, "Transport", None)
    BY <1>8 DEF DispatchStreamAction, DispatchFails
  <2>2. Sound(core', OpenedKeys, ReportedKeys, LiveConns)
    BY <1>5, <1>6, <2>1
  <2> QED
    BY <1>1, <1>2, <2>1, <2>2, StaySound
<1>9. CASE DispatchCloseConnection(a)
  <2>1. /\ streams' = streams
        /\ \/ conns' = conns
           \/ Live(c) /\ conns' = [conns EXCEPT ![c] = "closing"]
        /\ core' = k \/ core' = EmitError(k, "Transport", None)
    BY <1>9 DEF DispatchCloseConnection, DispatchFails
  <2>2. Sound(core', OpenedKeys, ReportedKeys, LiveConns)
    BY <1>5, <1>6, <2>1
  <2>3. \A d \in Conns : Live(d)' <=> Live(d)
    BY <2>1 DEF Live, MapInv, WireOK
  <2>4. LiveConns' = LiveConns /\ OpenedKeys' = OpenedKeys
    BY <2>1, <2>3 DEF LiveConns, OpenedKeys
  <2>5. ReportedKeys' = ReportedKeys
    <3>1. \A ds \in StreamKeys : ds[1] \in Conns
      BY DEF StreamKeys
    <3> QED
      BY <2>1, <2>3, <3>1 DEF ReportedKeys, Reported
  <2> QED
    BY <1>1, <1>2, <2>1, <2>2, <2>4, <2>5, StepSound
<1>10. DispatchOpenStream(a) \/ DispatchStreamAction(a) \/ DispatchCloseConnection(a)
  BY Zenon DEF DispatchAction
<1> QED
  BY <1>7, <1>8, <1>9, <1>10

-----------------------------------------------------------------------------
(* The theorems.                                                           *)

\* A new core is sound: it has nothing.
LEMMA NewCoreSound ==
    ASSUME NEW O, NEW R, NEW L, Scope(O, R, L)
    PROVE  Sound(NewCore, O, R, L)
<1> PICK k : k = NewCore
  OBVIOUS
<1>0. /\ None # "Ping" /\ None \notin StreamIds /\ None \notin PeerIds
      /\ Ping!Absent \in Ping!PeerPingState /\ Identify!Absent \in Identify!PeerIdentifyState
  BY AbsentTypes, AbsentAssumption, CoreStreamsAssumption, PeersAssumption DEF ProtocolKind
<1>1. /\ k.ping = [p \in PeerIds |-> Ping!Absent]
      /\ k.identify = [p \in PeerIds |-> Identify!Absent]
      /\ k.conn_to_peer = [c \in Conns |-> None]
      /\ k.peer_to_conn = [p \in PeerIds |-> None]
      /\ k.inbound_negotiators = {}
      /\ k.outbound_negotiators = [cs \in StreamKeys |-> None]
      /\ k.stream_owner = [cs \in StreamKeys |-> None]
      /\ k.pending_opens = {}
      /\ k.pending_pings = [p \in PeerIds |-> None]
      /\ k.peer_info = [p \in PeerIds |-> None]
      /\ k.events = << >> /\ k.actions = << >>
  BY DEF NewCore
<1>2. k \in CoreState
  BY <1>0 DEF NewCore, CoreState
<1>3. k.events \in Seq(SwarmHeard)
  BY <1>1
<1>4. ActionsIn(k, O)
  BY <1>1 DEF ActionsIn
<1>5. /\ \A cs \in StreamKeys : ~InTable(k, cs)
      /\ Exclusive(k)
  BY <1>1 DEF InTable, Exclusive
<1>6. Good(k, O, L) /\ TablesIn(k, R)
  BY <1>1, <1>2, <1>3, <1>4, <1>5 DEF Good, Typed, TablesIn, OpensIn
<1>7. Mapped(k, L)
  <2>1. None \notin Synthetics
    BY <1>0 DEF PeerIds
  <2> QED
    BY <1>1, <2>1 DEF Mapped, MapsAgree, Paired, NoOrphan, OwnPlaceholder
<1>8. Owned(k) /\ Bare(k)
  <2>1. ASSUME NEW p \in PeerIds PROVE IsBare(k, p)
    BY <1>1 DEF IsBare
  <2>2. ASSUME NEW p \in PeerIds, NEW s \in StreamIds PROVE OwnedAt(k, p, s)
    BY <1>0, <1>1 DEF OwnedAt, Ping!IsKnown, Ping!Absent, Identify!Absent
  <2> QED
    BY <2>1, <2>2 DEF Owned, Bare
<1>9. Single(k)
  <2>1. ASSUME NEW c \in Conns
        PROVE  Opening(k, c) = {} /\ Dialing(k, c) = {} /\ Pinging(k, c) = {}
    <3>1. \A s \in StreamIds : <<c, s>> \in StreamKeys
      BY DEF StreamKeys
    <3> QED
      BY <1>0, <1>1, <3>1 DEF Opening, Dialing, Pinging
  <2> QED
    BY <2>1 DEF Single, AtMostOne
<1> QED
  BY <1>5, <1>6, <1>7, <1>8, <1>9 DEF Sound

\* StreamInv is an invariant of the swarm, inductive together with MapInv.
THEOREM StreamInvariant == Spec => []StreamInv
<1>1. Init => StreamInv
  <2> SUFFICES ASSUME Init PROVE StreamInv
    OBVIOUS
  <2>1. Sound(core, OpenedKeys, ReportedKeys, LiveConns)
    BY NewCoreSound, ScopeHolds DEF Init
  <2> QED
    BY <2>1 DEF StreamInv, Init, WireStates, AppView
<1>2. MapInv /\ StreamInv /\ [Next]_vars => StreamInv'
  <2> SUFFICES ASSUME MapInv, StreamInv, [Next]_vars PROVE StreamInv'
    OBVIOUS
  <2>1. CASE Feed
    <3> SUFFICES ASSUME NEW c \in Conns,
                        \/ \E p \in Peers : Connected(c, p)
                        \/ PeerIdentityVerified(c)
                        \/ Closed(c)
                        \/ TransportError(c)
                        \/ \E s \in StreamIds : \/ IncomingStream(c, s)
                                                \/ StreamData(c, s)
                                                \/ StreamRemoteWriteClosed(c, s)
                                                \/ StreamClosed(c, s)
                 PROVE  StreamInv'
      BY <2>1 DEF Feed
    <3>1. ASSUME NEW s \in StreamIds,
                 \/ IncomingStream(c, s)
                 \/ StreamData(c, s)
                 \/ StreamRemoteWriteClosed(c, s) \/ StreamClosed(c, s)
          PROVE  StreamInv'
      BY <3>1, IncomingInv, StreamDataInv, StreamEndInv
    <3> QED
      BY <3>1, ConnectedInv, VerifiedInv, ClosedInv, TransportErrorInv
  <2>2. CASE DispatchAction
    BY <2>2, DispatchInv
  <2>3. CASE BeginPoll \/ Tick \/ DeliverEvent \/ Call
    BY <2>3, DriverSound
  <2>4. CASE UNCHANGED vars
    BY <2>4, StaySound DEF vars, StreamInv
  <2> QED
    BY <2>1, <2>2, <2>3, <2>4 DEF Next
<1> QED
  BY <1>1, <1>2, MapInvariant, PTL DEF Spec

\* The swarm's variables keep their types with either driver and whenever
\* identities arrive; what the application is told names a peer where it must.
THEOREM SwarmTypes == Spec => []TypeOK
<1>1. MapInv /\ StreamInv => TypeOK
  BY DEF TypeOK, MapInv, WireOK, StreamInv, Sound, Good, Typed
<1> QED
  BY <1>1, MapInvariant, StreamInvariant, PTL

\* A set of at most one element.
LEMMA FewElements ==
    ASSUME NEW A, \A x, y \in A : x = y
    PROVE  /\ A = {} => Cardinality(A) = 0
           /\ A # {} => Cardinality(A) = 1
<1>1. CASE A = {}
  BY <1>1, FS_EmptySet
<1>2. CASE A # {}
  <2> PICK x : x \in A
    BY <1>2
  <2>1. A = {x}
    OBVIOUS
  <2> QED
    BY <2>1, <1>2, FS_Singleton
<1> QED
  BY <1>1, <1>2

\* stream_owner, inbound_negotiators and outbound_negotiators never hold the
\* same stream, nor one that the transport has stopped reporting on.
THEOREM StreamsHaveOneOwner == Spec => []OneOwnerPerStream
<1>1. StreamInv => OneOwnerPerStream
  <2> SUFFICES ASSUME StreamInv, NEW cs \in StreamKeys, NEW A, NEW B, NEW C,
                      A = {t \in {"in"} : cs \in core.inbound_negotiators},
                      B = {t \in {"out"} : core.outbound_negotiators[cs] # None},
                      C = {t \in {"own"} : core.stream_owner[cs] # None}
               PROVE  /\ Cardinality(A \cup B \cup C) <= 1
                      /\ A \cup B \cup C # {} => Reported(cs[1], cs[2])
    BY DEF OneOwnerPerStream
  <2>1. Exclusive(core) /\ TablesIn(core, ReportedKeys)
    BY DEF StreamInv, Sound
  <2>2. \A x, y \in A \cup B \cup C : x = y
    BY <2>1 DEF Exclusive
  <2>3. Cardinality(A \cup B \cup C) <= 1
    BY <2>2, FewElements
  <2>4. A \cup B \cup C # {} => cs \in ReportedKeys
    BY <2>1 DEF TablesIn, InTable
  <2> QED
    BY <2>3, <2>4 DEF ReportedKeys
<1> QED
  BY <1>1, StreamInvariant, PTL

\* With a transport that authenticates in the handshake every action of the
\* core on a stream names one that was opened on that connection.
THEOREM ActionsNameTheirStreams == Spec => [](AuthAtHandshake => ActionsNameOpenedStreams)
<1>1. StreamInv => (AuthAtHandshake => ActionsNameOpenedStreams)
  BY DEF StreamInv, Sound, Good, ActionsIn, OpenedKeys, ActionsNameOpenedStreams
<1> QED
  BY <1>1, StreamInvariant, PTL

\* With such a transport the ping and Identify state of a peer is about
\* streams that stream_owner gives to that protocol on the peer's connection,
\* also after one connection has superseded another.
THEOREM ProtocolsKnowTheirStreams == Spec => [](AuthAtHandshake => ProtocolStreamsAreOwned)
<1>1. StreamInv => (AuthAtHandshake => ProtocolStreamsAreOwned)
  BY DEF StreamInv, Sound, Owned, OwnedAt, OwnedBy, ProtocolStreamsAreOwned
<1> QED
  BY <1>1, StreamInvariant, PTL

\* With such a transport handle_connection_closed and supersede_connection
\* leave no table entry of a closed connection and no state of a peer that has
\* none.
THEOREM ClosedLeavesNothing == Spec => [](AuthAtHandshake => NothingLeftBehind)
<1>1. MapInv /\ StreamInv => (AuthAtHandshake => NothingLeftBehind)
  <2> SUFFICES ASSUME MapInv, StreamInv, AuthAtHandshake PROVE NothingLeftBehind
    OBVIOUS
  <2>1. /\ Bare(core) /\ TablesIn(core, ReportedKeys) /\ OpensIn(core, LiveConns)
        /\ Mapped(core, LiveConns)
    BY DEF StreamInv, Sound, Good
  <2>2. ASSUME NEW c \in Conns, conns[c] = "closed"
        PROVE  /\ core.conn_to_peer[c] = None
               /\ \A o \in core.pending_opens : o.conn # c
               /\ \A s \in StreamIds :
                    /\ <<c, s>> \notin core.inbound_negotiators
                    /\ core.outbound_negotiators[<<c, s>>] = None
                    /\ core.stream_owner[<<c, s>>] = None
    <3>1. c \notin LiveConns
      BY <2>2 DEF LiveConns, Live
    <3>2. ASSUME NEW s \in StreamIds PROVE <<c, s>> \in StreamKeys /\ ~InTable(core, <<c, s>>)
      BY <2>1, <3>1, ReportedIs DEF TablesIn
    <3> QED
      BY <2>1, <3>1, <3>2 DEF InTable, OpensIn, Mapped
  <2>3. ASSUME NEW p \in PeerIds, core.peer_to_conn[p] = None PROVE IsBare(core, p)
    BY <2>1, <2>3 DEF Bare
  <2> QED
    BY <2>2, <2>3 DEF NothingLeftBehind, IsBare
<1> QED
  BY <1>1, MapInvariant, StreamInvariant, PTL

\* With such a transport has_pending_ping_stream and the checks of ping() keep
\* the outbound ping streams of a connection to one.
THEOREM PingStreamsAreOne == Spec => [](AuthAtHandshake => OnePingStream)
<1>1. StreamInv => (AuthAtHandshake => OnePingStream)
  <2> SUFFICES ASSUME StreamInv, AuthAtHandshake, NEW c \in Conns, NEW A, NEW B, NEW C,
                      A = Opening(core, c), B = Dialing(core, c), C = Pinging(core, c)
               PROVE  Cardinality(A) + Cardinality(B) + Cardinality(C) <= 1
    BY DEF OnePingStream, Opening, Dialing, Pinging
  <2>1. AtMostOne(A, B, C)
    BY DEF StreamInv, Sound, Single
  <2>2. /\ \A x, y \in A : x = y
        /\ \A x, y \in B : x = y
        /\ \A x, y \in C : x = y
        /\ A = {} \/ B = {}
        /\ A = {} \/ C = {}
        /\ B = {} \/ C = {}
    BY <2>1 DEF AtMostOne
  <2>3. /\ A = {} => Cardinality(A) = 0
        /\ A # {} => Cardinality(A) = 1
    BY ONLY <2>2, FewElements
  <2>4. /\ B = {} => Cardinality(B) = 0
        /\ B # {} => Cardinality(B) = 1
    BY ONLY <2>2, FewElements
  <2>5. /\ C = {} => Cardinality(C) = 0
        /\ C # {} => Cardinality(C) = 1
    BY ONLY <2>2, FewElements
  <2> QED
    BY ONLY <2>2, <2>3, <2>4, <2>5
<1> QED
  BY <1>1, StreamInvariant, PTL

-----------------------------------------------------------------------------
(* A queued ping moves with its peer.                                      *)

\* From k to j no verified peer gets another connection.
NoneMoves(k, j) == \A p \in Peers : j.peer_to_conn[p] \in {None, k.peer_to_conn[p]}

\* Every queued ping of a peer that gets another connection is asked for there.
Requeues(k, j) ==
    \A p \in Peers :
      (/\ k.pending_pings[p] # None
       /\ j.peer_to_conn[p] \notin {None, k.peer_to_conn[p]})
         => HasPendingPingStream(j, p)

\* What moves nobody has nothing to ask for.
LEMMA NoMoveRequeues == \A k, j : NoneMoves(k, j) => Requeues(k, j)
BY DEF NoneMoves, Requeues

\* A placeholder is not a verified peer.
LEMMA EnsuredMovesNone ==
    ASSUME NEW k, NEW j, HasMaps(k), NEW c \in Conns, SameMaps(k, j) \/ AtMostEnsured(k, j, c)
    PROVE  NoneMoves(k, j)
<1> PICK e : e = EnsurePeerIdForConn(k, c)
  OBVIOUS
<1>1. CASE SameMaps(k, j)
  BY <1>1 DEF SameMaps, NoneMoves
<1>2. CASE SameMaps(e, j)
  <2>1. ASSUME NEW p \in Peers PROVE e.peer_to_conn[p] = k.peer_to_conn[p]
    <3>1. p \in PeerIds /\ p # Synthetic(c)
      BY PeersAssumption DEF PeerIds, Synthetics
    <3> QED
      BY <3>1 DEF EnsurePeerIdForConn, HasMaps
  <2> QED
    BY <1>2, <2>1 DEF SameMaps, NoneMoves
<1> QED
  BY <1>1, <1>2 DEF AtMostEnsured

\* handle_connection_closed takes a connection away.
LEMMA ClosedMovesNone ==
    ASSUME NEW k, HasMaps(k), NEW c \in Conns
    PROVE  NoneMoves(k, HandleConnectionClosed(k, c))
<1> SUFFICES ASSUME NEW p \in Peers
             PROVE  HandleConnectionClosed(k, c).peer_to_conn[p] \in {None, k.peer_to_conn[p]}
  BY DEF NoneMoves
<1>0. p \in PeerIds
  BY DEF PeerIds
<1>1. CASE k.conn_to_peer[c] = None \/ k.peer_to_conn[k.conn_to_peer[c]] # c
  BY <1>1 DEF HandleConnectionClosed, ForgetConn, HasMaps
<1>2. CASE ~(k.conn_to_peer[c] = None \/ k.peer_to_conn[k.conn_to_peer[c]] # c)
  <2>1. HandleConnectionClosed(k, c).peer_to_conn = [k.peer_to_conn EXCEPT ![k.conn_to_peer[c]] = None]
    BY <1>2 DEF HandleConnectionClosed, ForgetConn, ForgetPeer, Emit, HasMaps
  <2> QED
    BY <1>0, <2>1 DEF HasMaps
<1> QED
  BY <1>1, <1>2

\* Connected is the one step that moves a peer, and it moves the ping.
LEMMA ConnectedRequeues ==
    ASSUME StreamInv, MapInv, AuthAtHandshake, NEW c \in Conns, NEW p \in Peers, Connected(c, p)
    PROVE  Requeues(core, core')
<1> PICK k : k = core
  OBVIOUS
<1> PICK O : O = OpenedKeys
  OBVIOUS
<1> PICK R : R = ReportedKeys
  OBVIOUS
<1> PICK L : L = LiveConns
  OBVIOUS
<1>a. PICK j : j = RegisterConnection(k, c, p)
  OBVIOUS
<1>1. core' = j
  BY <1>a, PeersAssumption DEF Connected, HandleConnected, PeerIds
<1>2. Sound(k, O, R, L) /\ c \notin L /\ AuthAtHandshake /\ c \in Conns /\ p \in Peers
  BY DEF StreamInv, Connected, LiveConns, Live
<1>3. TakesPing(k, j, p)
  BY ONLY <1>a, <1>2, RegisterSound
<1>4. Peers \subseteq PeerIds
  BY DEF PeerIds
<1> QED
  BY <1>1, <1>3, <1>4 DEF Requeues, TakesPing

\* StreamData gives at most its own connection a placeholder.
LEMMA DataEnsured ==
    ASSUME HasMaps(core), NEW c \in Conns, NEW s, StreamData(c, s)
    PROVE  AtMostEnsured(core, core', c)
<1>1. CASE \E chunk \in Chunks : DataForOwner(c, s, chunk)
  BY <1>1, DispatchEnsured DEF DataForOwner
<1>2. ASSUME NEW rest, DataForListener(c, s, rest)
      PROVE  AtMostEnsured(core, core', c)
  <2>1. CASE \E protocol \in {"Ping", "Identify", "User"} :
               core' = FeedInboundNegotiator(core, c, s, "negotiated", protocol, rest)
    BY <2>1, FeedInboundEnsured
  <2>2. CASE core' = FeedInboundNegotiator(core, c, s, "not_available", None, None)
    BY <2>2, FeedInboundEnsured
  <2>3. CASE core' = FeedInboundNegotiator(core, c, s, "error", None, None)
    BY <2>3, FeedInboundEnsured
  <2> QED
    BY <1>2, <2>1, <2>2, <2>3 DEF DataForListener
<1>3. ASSUME NEW rest, DataForDialer(c, s, rest)
      PROVE  AtMostEnsured(core, core', c)
  BY <1>3, FeedOutboundEnsured DEF DataForDialer
<1> QED
  BY <1>1, <1>2, <1>3 DEF StreamData

\* Executing an action leaves the maps alone.
LEMMA DispatchSame ==
    ASSUME HasMaps(core), DispatchAction
    PROVE  SameMaps(core, core')
<1> PICK k : k = PopAction(core)
  OBVIOUS
<1> PICK a : a = Head(core.actions)
  OBVIOUS
<1>1. SameMaps(core, k) /\ HasMaps(k)
  BY ActSame, SameMapsHas
<1>2. \A kind, p : SameMaps(core, EmitError(k, kind, p))
  BY <1>1, EmitSame, SameMapsTrans
<1>3. \A c, s, t : /\ SameMaps(core, HandleStreamOpened(k, c, s, t))
                   /\ SameMaps(core, HandleOpenStreamFailed(k, t))
  BY <1>1, OpenedSame, SameMapsTrans
<1>4. DispatchOpenStream(a) \/ DispatchStreamAction(a) \/ DispatchCloseConnection(a)
  BY Zenon DEF DispatchAction
<1> QED
  BY <1>1, <1>2, <1>3, <1>4
     DEF DispatchOpenStream, DispatchStreamAction, DispatchCloseConnection, DispatchFails

\* The other steps.
LEMMA NextRequeues ==
    ASSUME StreamInv, MapInv, AuthAtHandshake, Next
    PROVE  Requeues(core, core')
<1>0. HasMaps(core) /\ (\A c \in Conns : conns[c] # "unverified") /\ SameMaps(core, core)
  BY DEF MapInv, WireOK, SameMaps
<1>1. CASE Feed
  <2> PICK c \in Conns :
        \/ \E p \in Peers : Connected(c, p)
        \/ PeerIdentityVerified(c)
        \/ Closed(c)
        \/ TransportError(c)
        \/ \E s \in StreamIds : \/ IncomingStream(c, s)
                                \/ StreamData(c, s)
                                \/ StreamRemoteWriteClosed(c, s)
                                \/ StreamClosed(c, s)
    BY <1>1 DEF Feed
  <2>1. CASE \E p \in Peers : Connected(c, p)
    BY <2>1, ConnectedRequeues
  <2>2. CASE PeerIdentityVerified(c)
    BY <1>0, <2>2 DEF PeerIdentityVerified
  <2>3. CASE Closed(c)
    BY <1>0, <2>3, ClosedMovesNone, NoMoveRequeues DEF Closed
  <2>4. CASE TransportError(c)
    <3>1. SameMaps(core, core')
      BY <1>0, <2>4, EmitSame DEF TransportError
    <3> QED
      BY <1>0, <3>1, EnsuredMovesNone, NoMoveRequeues
  <2>5. ASSUME NEW s \in StreamIds,
               \/ IncomingStream(c, s)
               \/ StreamData(c, s)
               \/ StreamRemoteWriteClosed(c, s)
               \/ StreamClosed(c, s)
        PROVE  Requeues(core, core')
    <3>1. CASE IncomingStream(c, s)
      <4>1. SameMaps(core, core')
        BY <1>0, <3>1, IncomingSame DEF IncomingStream
      <4> QED
        BY <1>0, <4>1, EnsuredMovesNone, NoMoveRequeues
    <3>2. CASE StreamClosed(c, s)
      <4>1. SameMaps(core, core')
        BY <1>0, <3>2, StreamClosedSame DEF StreamClosed
      <4> QED
        BY <1>0, <4>1, EnsuredMovesNone, NoMoveRequeues
    <3>3. CASE StreamRemoteWriteClosed(c, s)
      <4>1. AtMostEnsured(core, core', c)
        BY <1>0, <3>3, RemoteClosedEnsured DEF StreamRemoteWriteClosed
      <4> QED
        BY <1>0, <4>1, EnsuredMovesNone, NoMoveRequeues
    <3>4. CASE StreamData(c, s)
      <4>1. AtMostEnsured(core, core', c)
        BY <1>0, <3>4, DataEnsured
      <4> QED
        BY <1>0, <4>1, EnsuredMovesNone, NoMoveRequeues
    <3> QED
      BY <2>5, <3>1, <3>2, <3>3, <3>4
  <2> QED
    BY <2>1, <2>2, <2>3, <2>4, <2>5
<1>2. CASE ~Feed
  <2>1. SameMaps(core, core') \/ ~Next
    <3>1. CASE DispatchAction
      BY <1>0, <3>1, DispatchSame
    <3>2. CASE BeginPoll
      BY <1>0, <3>2 DEF BeginPoll
    <3>3. CASE Tick
      BY <1>0, <3>3, CallsSame DEF Tick
    <3>4. CASE DeliverEvent
      BY <1>0, <3>4, ActSame DEF DeliverEvent
    <3>5. CASE Call
      BY <1>0, <3>5, CallsSame
         DEF Call, AppPing, AppOpenUserStream, AppDisconnect, AppUserStreamCall
    <3> QED
      BY <1>2, <3>1, <3>2, <3>3, <3>4, <3>5 DEF Next
  <2>2. NoneMoves(core, core')
    BY <2>1 DEF SameMaps, NoneMoves
  <2> QED
    BY <2>2, NoMoveRequeues
<1> QED
  BY <1>1, <1>2

\* With a transport that authenticates in the handshake, supersede_connection
\* and register_connection carry a queued ping over to the peer's new
\* connection: a stream for it is asked for there, in the same step.
THEOREM QueuedPingsMove == Spec => (AuthAtHandshake => QueuedPingIsRequeued)
<1> SUFFICES ASSUME AuthAtHandshake PROVE Spec => QueuedPingIsRequeued
  OBVIOUS
<1>1. MapInv /\ StreamInv /\ [Next]_vars => [Requeues(core, core')]_vars
  <2> SUFFICES ASSUME MapInv, StreamInv, Next PROVE Requeues(core, core')
    OBVIOUS
  <2> QED
    BY NextRequeues
<1>2. [][Requeues(core, core')]_vars => QueuedPingIsRequeued
  BY DEF Requeues, QueuedPingIsRequeued
<1> QED
  BY <1>1, <1>2, MapInvariant, StreamInvariant, PTL DEF Spec
=============================================================================
