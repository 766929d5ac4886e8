------------------------------- MODULE Swarm --------------------------------
(***************************************************************************)
(* One node: SwarmCore, the driver that feeds and drains it                *)
(* (crates/swarm/src/driver.rs), a transport that honours the contract of  *)
(* crates/transport, remote peers that do what they like within it, and    *)
(* what the application has been told.                                     *)
(*                                                                         *)
(* The transport is external: it reports a connection once, no stream      *)
(* before its connection and no data before its stream, each stream's      *)
(* StreamClosed last, and after Closed nothing.  close() only asks for     *)
(* Closed: whatever was on its way is still reported before it.            *)
(***************************************************************************)
EXTENDS SwarmCore

CONSTANTS
    AuthAtHandshake, \* TRUE: Connected carries the verified peer, as QUIC's
                     \* does; FALSE: PeerIdentityVerified follows later
    Batching,        \* TRUE: Swarm::poll feeds all transport events and then
                     \* drains; FALSE: "exactly one input, then drains"
    MaxStreams,      \* bound: streams opened on all connections together
    MaxToken,        \* bound: OpenStream requests are numbered 1 .. MaxToken
    MaxBatch         \* bound: no input or call once this many outputs are queued

ASSUME ModesAssumption == AuthAtHandshake \in BOOLEAN /\ Batching \in BOOLEAN
ASSUME BoundsAssumption == MaxStreams \in Nat /\ MaxToken \in Nat /\ MaxBatch \in Nat

VARIABLES
    core,     \* Swarm::core
    polling,  \* inside Swarm::poll, before its Tick
    conns,    \* conns[c]: the transport's connection c
    remote,   \* remote[c]: the peer that c leads to
    streams,  \* streams[c, s]: what the transport has reported of the stream
    app       \* what the events delivered so far tell the application

vars == <<core, polling, conns, remote, streams, app>>

\* "unverified": connected, identity still to come.  "closing": close() was
\* called.  A stream is idle until opened; "half": the remote's FIN arrived.
ConnStates == {"unused", "unverified", "connected", "closing", "closed"}
WireStates == {"idle", "open", "half", "closed"}

AppView == [connected : SUBSET PeerIds,
            ready     : SUBSET PeerIds,
            streams   : SUBSET (PeerIds \X StreamIds)]

TypeOK ==
    /\ core \in CoreState
    /\ polling \in BOOLEAN
    /\ conns \in [Conns -> ConnStates]
    /\ remote \in [Conns -> Peers \cup {None}]
    /\ streams \in [StreamKeys -> WireStates]
    /\ app \in AppView

Init ==
    /\ core = NewCore
    /\ polling = FALSE
    /\ conns = [c \in Conns |-> "unused"]
    /\ remote = [c \in Conns |-> None]
    /\ streams = [cs \in StreamKeys |-> "idle"]
    /\ app = [connected |-> {}, ready |-> {}, streams |-> {}]

-----------------------------------------------------------------------------
(* The driver's schedule.                                                  *)

\* flush_actions is done.  core.events then stands for event_buffer: what
\* the driver holds for the application's next poll() or poll_next().
Flushed == ~polling /\ core.actions = << >>

\* Everything the core had to say has been executed and delivered.
Drained == ~polling /\ IsIdle(core)

\* A transport event may be fed to the core now.
MayFeed ==
    IF Batching THEN polling /\ Len(core.actions) + Len(core.events) < MaxBatch ELSE Drained

\* Enough tokens are left for the opens one input can cause.
TokensLeft == core.next_open_token + 1 <= MaxToken

Live(c) == conns[c] \in {"unverified", "connected", "closing"}

\* The transport still reports on this stream.
Reported(c, s) == Live(c) /\ streams[<<c, s>>] \in {"open", "half"}

\* Stream ids grow with use on each connection; those of another connection
\* start from the same values.
NextStream(c) ==
    {s \in StreamIds : /\ Cardinality({k \in StreamKeys : streams[k] # "idle"}) < MaxStreams
                       /\ streams[<<c, s>>] = "idle"
                       /\ \A t \in StreamIds : streams[<<c, t>>] = "idle" => s <= t}

Wire(c, s, state) == streams' = [streams EXCEPT ![<<c, s>>] = state]

\* poll(): step 1 begins; step 2, the Tick, ends it.
BeginPoll ==
    /\ Batching
    /\ Drained
    /\ polling' = TRUE
    /\ UNCHANGED <<core, conns, remote, streams, app>>

-----------------------------------------------------------------------------
(* Transport events fed to the core.  Connections become known in the      *)
(* order of their ids, whoever dialed.                                     *)

Connected(c, p) ==
    /\ MayFeed /\ TokensLeft
    /\ conns[c] = "unused"
    /\ \A d \in Conns : d < c => conns[d] # "unused"
    /\ conns' = [conns EXCEPT ![c] = IF AuthAtHandshake THEN "connected" ELSE "unverified"]
    /\ remote' = [remote EXCEPT ![c] = p]
    /\ core' = HandleConnected(core, c, IF AuthAtHandshake THEN p ELSE None)
    /\ UNCHANGED <<polling, streams, app>>

\* QUIC reports it for accepted connections right after Connected, where the
\* core returns early; a late one brings the identity.
PeerIdentityVerified(c) ==
    /\ MayFeed /\ TokensLeft
    /\ conns[c] = "unverified"
    /\ conns' = [conns EXCEPT ![c] = "connected"]
    /\ core' = UpgradeConnectionIdentity(core, c, remote[c])
    /\ UNCHANGED <<polling, remote, streams, app>>

Closed(c) ==
    /\ MayFeed
    /\ Live(c)
    /\ conns' = [conns EXCEPT ![c] = "closed"]
    /\ core' = HandleConnectionClosed(core, c)
    /\ UNCHANGED <<polling, remote, streams, app>>

IncomingStream(c, s) ==
    /\ MayFeed
    /\ Live(c)
    /\ s \in NextStream(c)
    /\ Wire(c, s, "open")
    /\ core' = HandleIncomingStream(core, c, s)
    /\ UNCHANGED <<polling, conns, remote, app>>

\* Application data: len units of a ping, or bytes that do or do not
\* outgrow the Identify buffer.
Chunks == [len : 1 .. PayloadLen + 1, payload : Payloads, oversize : BOOLEAN]

\* StreamData on a stream in the hands of a protocol, or of nobody.
DataForOwner(c, s, chunk) ==
    /\ <<c, s>> \notin core.inbound_negotiators
    /\ core.outbound_negotiators[<<c, s>>] = None
    /\ core' = DispatchProtocolData(core, c, s, chunk)

\* StreamData on a stream under negotiation.
DataForListener(c, s, rest) ==
    /\ <<c, s>> \in core.inbound_negotiators
    /\ \/ \E protocol \in {"Ping", "Identify", "User"} :
            core' = FeedInboundNegotiator(core, c, s, "negotiated", protocol, rest)
       \/ core' = FeedInboundNegotiator(core, c, s, "not_available", None, None)
       \/ core' = FeedInboundNegotiator(core, c, s, "error", None, None)

DataForDialer(c, s, rest) ==
    /\ <<c, s>> \notin core.inbound_negotiators
    /\ core.outbound_negotiators[<<c, s>>] # None
    /\ \E proposed \in BOOLEAN :
         \/ core' = FeedOutboundNegotiator(core, c, s, proposed, "waiting", None)
         \/ core' = FeedOutboundNegotiator(core, c, s, proposed, "negotiated", rest)
         \/ core' = FeedOutboundNegotiator(core, c, s, proposed, "not_available", None)
         \/ core' = FeedOutboundNegotiator(core, c, s, proposed, "error", None)

StreamData(c, s) ==
    /\ MayFeed
    /\ Live(c) /\ streams[<<c, s>>] = "open"
    /\ \/ \E chunk \in Chunks : DataForOwner(c, s, chunk)
       \/ \E rest \in Chunks \cup {None} : DataForListener(c, s, rest)
       \/ \E rest \in Chunks \cup {None} : DataForDialer(c, s, rest)
    /\ UNCHANGED <<polling, conns, remote, streams, app>>

StreamRemoteWriteClosed(c, s) ==
    /\ MayFeed
    /\ Live(c) /\ streams[<<c, s>>] = "open"
    /\ Wire(c, s, "half")
    /\ \E decoded \in IdentifyInfo \cup {Malformed} :
         core' = HandleStreamRemoteWriteClosed(core, c, s, decoded)
    /\ UNCHANGED <<polling, conns, remote, app>>

StreamClosed(c, s) ==
    /\ MayFeed
    /\ Reported(c, s)
    /\ Wire(c, s, "closed")
    /\ core' = HandleStreamClosed(core, c, s)
    /\ UNCHANGED <<polling, conns, remote, app>>

TransportError(c) ==
    /\ MayFeed
    /\ Live(c)
    /\ core' = EmitError(core, "Transport", EstablishedPeerForConn(core, c))
    /\ UNCHANGED <<polling, conns, remote, streams, app>>

\* SwarmInput::Tick.  Any ping in flight may have expired; a tick on which
\* several expire is several of these.
Tick ==
    /\ IF Batching THEN polling ELSE Drained
    /\ polling' = FALSE
    /\ \/ core' = core
       \/ \E p \in PeerIds :
            /\ Ping!InFlight(core.ping[p])
            /\ core.ping[p].outbound_stream # None
            /\ core' = HandleTick(core, p)
    /\ UNCHANGED <<conns, remote, streams, app>>

-----------------------------------------------------------------------------
(* Draining: dispatch_action, and events handed to the application.        *)

\* transport.open_stream succeeds, or fails.
DispatchOpenStream(a) ==
    \/ \E s \in NextStream(a.conn) :
         /\ conns[a.conn] \in {"unverified", "connected"}
         /\ Wire(a.conn, s, "open")
         /\ core' = HandleStreamOpened(PopAction(core), a.conn, s, a.token)
         /\ UNCHANGED conns
    \/ /\ core' = HandleOpenStreamFailed(PopAction(core), a.token)
       /\ UNCHANGED <<conns, streams>>

\* The transport refuses, and the refusal comes back as a RuntimeError.
DispatchFails == core' = EmitError(PopAction(core), "Transport", None)

\* send_stream, close_stream_write, reset_stream succeed only on a stream the
\* transport knows.
DispatchStreamAction(a) ==
    /\ \/ Reported(a.conn, a.stream) /\ core' = PopAction(core)
       \/ DispatchFails
    /\ UNCHANGED <<conns, streams>>

\* close: Closed follows later, unless the connection is gone already.
DispatchCloseConnection(a) ==
    /\ \/ /\ Live(a.conn)
          /\ conns' = [conns EXCEPT ![a.conn] = "closing"]
          /\ core' = PopAction(core)
       \/ DispatchFails /\ UNCHANGED conns
    /\ UNCHANGED streams

DispatchAction ==
    LET a == Head(core.actions)
    IN  /\ ~polling
        /\ core.actions # << >>
        /\ CASE a.kind = "OpenStream" -> DispatchOpenStream(a)
             [] a.kind = "CloseConnection" -> DispatchCloseConnection(a)
             [] OTHER -> DispatchStreamAction(a)
        /\ UNCHANGED <<polling, remote, app>>

\* What the application makes of an event.  A connection that replaces
\* another one to the same peer starts the peer's session afresh.
Told(v, e) ==
    LET p == e.peer
        others == {ps \in v.streams : ps[1] # p}
    IN  CASE e.kind = "ConnectionEstablished" ->
               [connected |-> v.connected \cup {p}, ready |-> v.ready \ {p}, streams |-> others]
          [] e.kind = "ConnectionClosed" ->
               [connected |-> v.connected \ {p}, ready |-> v.ready \ {p}, streams |-> others]
          [] e.kind = "PeerReady" -> [v EXCEPT !.ready = @ \cup {p}]
          [] e.kind = "UserStreamReady" -> [v EXCEPT !.streams = @ \cup {<<p, e.stream>>}]
          [] e.kind = "UserStreamClosed" -> [v EXCEPT !.streams = @ \ {<<p, e.stream>>}]
          [] OTHER -> v

DeliverEvent ==
    /\ Flushed
    /\ core.events # << >>
    /\ app' = Told(app, Head(core.events))
    /\ core' = PopEvent(core)
    /\ UNCHANGED <<polling, conns, remote, streams>>

-----------------------------------------------------------------------------
(* The application's calls, between polls, also while events that would    *)
(* change its mind wait in event_buffer.                                   *)

MayCall == Flushed /\ Len(core.events) < MaxBatch

AppPing(p, payload) ==
    /\ MayCall /\ TokensLeft
    /\ core' = DoPing(core, p, payload)
    /\ UNCHANGED <<polling, conns, remote, streams, app>>

AppOpenUserStream(p) ==
    /\ MayCall /\ TokensLeft
    /\ core' = OpenUserStream(core, p)
    /\ UNCHANGED <<polling, conns, remote, streams, app>>

AppUserStreamCall(p, s) ==
    /\ MayCall
    /\ \E kind \in {"SendStream", "CloseStreamWrite", "ResetStream"} :
         core' = UserStreamCall(core, p, s, kind)
    /\ UNCHANGED <<polling, conns, remote, streams, app>>

AppDisconnect(p) ==
    /\ MayCall
    /\ core' = Disconnect(core, p)
    /\ UNCHANGED <<polling, conns, remote, streams, app>>

Feed ==
    \E c \in Conns :
      \/ \E p \in Peers : Connected(c, p)
      \/ PeerIdentityVerified(c)
      \/ Closed(c)
      \/ TransportError(c)
      \/ \E s \in StreamIds :
           \/ IncomingStream(c, s)
           \/ StreamData(c, s)
           \/ StreamRemoteWriteClosed(c, s)
           \/ StreamClosed(c, s)

Call ==
    \E p \in Peers :
      \/ \E payload \in Payloads : AppPing(p, payload)
      \/ AppOpenUserStream(p)
      \/ AppDisconnect(p)
      \/ \E s \in StreamIds : AppUserStreamCall(p, s)

Next == BeginPoll \/ Feed \/ Tick \/ DispatchAction \/ DeliverEvent \/ Call

Spec == Init /\ [][Next]_vars
-----------------------------------------------------------------------------
(* Properties.                                                             *)

\* peer_to_conn and conn_to_peer agree: whatever is opened for a peer is
\* opened on a connection to that peer (the debug_assert in
\* queue_open_protocol_stream), whatever order the transport reports in.
PeersKeepTheirConnection == MapsAgree(core)

\* "If a different connection to the same peer already exists, close it so it
\* doesn't orphan in conn_to_peer": every mapped connection is its peer's own.
NoOrphanedConnection == NoOrphan(core)

\* Once everything is delivered, connected_peers() and is_peer_ready() say
\* what the events told the application.
AppKnowsPeers ==
    Drained => core.established_peers = app.connected /\ core.ready_peers = app.ready

\* Once everything is delivered, the user streams the application believes
\* open are the ones it can use: none is lost or comes back under another id.
AppKnowsStreams ==
    Drained => app.streams =
      {ps \in PeerIds \X StreamIds : OwningConns(core, ps[1], ps[2], "User") # {}}

\* The next event to reach the application, if any.
AboutToDeliver == Flushed /\ core.events # << >>

\* A verified peer's events lie between its ConnectionEstablished and its
\* ConnectionClosed, PeerReady and user streams included.
EventsInSession ==
    AboutToDeliver =>
      LET e == Head(core.events)
      IN  e.peer \in Peers /\ e.kind # "ConnectionEstablished" => e.peer \in app.connected

\* "Synthetic PeerIds are only ever seen internally": no event delivered to
\* the application names one.
SyntheticStaysInternal ==
    AboutToDeliver => Head(core.events).peer \notin Synthetics

\* A stream is in one table at most, and only while the transport reports it.
OneOwnerPerStream ==
    \A cs \in StreamKeys :
      LET negotiating == {t \in {"in"} : cs \in core.inbound_negotiators}
          dialing     == {t \in {"out"} : core.outbound_negotiators[cs] # None}
          owned       == {t \in {"own"} : core.stream_owner[cs] # None}
          tables      == negotiating \cup dialing \cup owned
      IN  /\ Cardinality(tables) <= 1
          /\ tables # {} => Reported(cs[1], cs[2])

\* Whatever the core asks of a stream, it asks of one the transport has opened
\* on that very connection: ids are reused, so a mix-up would go unnoticed.
ActionsNameOpenedStreams ==
    \A i \in DOMAIN core.actions :
      core.actions[i].stream # None =>
        streams[<<core.actions[i].conn, core.actions[i].stream>>] # "idle"

\* The protocols' view of a peer's streams is the swarm's view of the peer's
\* connection: no ping or Identify state survives the stream it is about.
ProtocolStreamsAreOwned ==
    \A p \in PeerIds, s \in StreamIds :
      LET owner == IF core.peer_to_conn[p] = None THEN None
                   ELSE core.stream_owner[<<core.peer_to_conn[p], s>>]
      IN  /\ Ping!IsKnown(core.ping[p], s) => owner = "Ping"
          /\ core.identify[p].outbound_stream = s => owner = "IdentifyResponder"
          /\ s \in core.identify[p].inbound_streams => owner = "IdentifyInitiator"

\* ping() never has two outbound ping streams in the making for a peer, so
\* registering one is never refused.
OnePingStream ==
    \A c \in Conns :
      LET opening == {o \in core.pending_opens : o.conn = c /\ o.target = "Ping"}
          dialing == {s \in StreamIds : core.outbound_negotiators[<<c, s>>] = "Ping"}
          p       == core.conn_to_peer[c]
          open    == {s \in StreamIds : p # None /\ core.ping[p].outbound_stream = s}
      IN  Cardinality(opening) + Cardinality(dialing) + Cardinality(open) <= 1

\* Nothing of a closed connection, or of a peer without one, is left behind.
NothingLeftBehind ==
    /\ \A c \in Conns : conns[c] = "closed" =>
         /\ core.conn_to_peer[c] = None
         /\ \A o \in core.pending_opens : o.conn # c
         /\ \A s \in StreamIds :
              /\ <<c, s>> \notin core.inbound_negotiators
              /\ core.outbound_negotiators[<<c, s>>] = None
              /\ core.stream_owner[<<c, s>>] = None
    /\ \A p \in PeerIds : core.peer_to_conn[p] = None =>
         /\ core.ping[p] = Ping!Absent
         /\ core.identify[p] = Identify!Absent
         /\ core.pending_pings[p] = None
         /\ core.peer_info[p] = None

\* A connection that replaces another one takes a ping that was queued with
\* it: supersede_connection and register_connection re-open its stream.
QueuedPingIsRequeued ==
    [][\A p \in Peers :
         (/\ core.pending_pings[p] # None
          /\ core'.peer_to_conn[p] \notin {None, core.peer_to_conn[p]})
            => HasPendingPingStream(core', p)]_vars
=============================================================================
