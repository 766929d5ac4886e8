-------------------------------- MODULE Ping --------------------------------
(***************************************************************************)
(* PingProtocol (crates/ping/src/lib.rs) driven by a host: SwarmCore feeds *)
(* it negotiated streams, the bytes and closings the transport reports and *)
(* clock ticks, and polls its outputs.                                     *)
(***************************************************************************)
EXTENDS PingProtocol

CONSTANT MaxQueue   \* the host feeds stream input only while at most MaxQueue
                    \* outputs wait to be polled (SwarmCore polls them all)

ASSUME MaxQueueAssumption == MaxQueue \in Nat

VARIABLES
    peers,           \* PingProtocol::peers
    pending_events,  \* PingProtocol::pending_events
    pending_actions, \* PingProtocol::pending_actions
    wire             \* wire[p][s]: what the transport has reported of stream
                     \* s on the connection to p

vars == <<peers, pending_events, pending_actions, wire>>

\* An idle id has not been used on this connection yet.  A half-closed stream
\* has delivered its last byte; a closed one has delivered its last event.
WireStates == {"idle", "outbound", "inbound", "half", "closed"}

IdleWire == [s \in StreamIds |-> "idle"]

TypeOK ==
    /\ peers \in [PeerIds -> PeerPingState]
    /\ pending_events \in Seq(PingEvent)
    /\ pending_actions \in Seq(PingAction)
    /\ wire \in [PeerIds -> [StreamIds -> WireStates]]

Init ==
    /\ peers = [p \in PeerIds |-> Absent]
    /\ pending_events = << >>
    /\ pending_actions = << >>
    /\ wire = [p \in PeerIds |-> IdleWire]

-----------------------------------------------------------------------------
Room == Len(pending_events) + Len(pending_actions) <= MaxQueue

\* handle_input: store the peer's new state, queue what the handler returned.
Apply(p, r) ==
    /\ Room
    /\ peers' = [peers EXCEPT ![p] = r.st]
    /\ pending_actions' = pending_actions \o r.actions
    /\ pending_events' = pending_events \o r.events

Report(p, s, state) == wire' = [wire EXCEPT ![p] = [@ EXCEPT ![s] = state]]

NegotiatedOutbound(p, s) ==
    /\ wire[p][s] = "idle"
    /\ Apply(p, RegisterOutboundStream(peers[p], p, s))
    /\ Report(p, s, "outbound")

NegotiatedInbound(p, s) ==
    /\ wire[p][s] = "idle"
    /\ Apply(p, RegisterInboundStream(peers[p], p, s))
    /\ Report(p, s, "inbound")

RequestPing(p, payload) ==
    /\ Apply(p, SendPing(peers[p], p, payload))
    /\ UNCHANGED wire

RequestCloseWrite(p) ==
    /\ Apply(p, CloseOutboundStreamWrite(peers[p], p))
    /\ UNCHANGED wire

StreamData(p, s, len, payload) ==
    /\ wire[p][s] \in {"outbound", "inbound"}
    /\ Apply(p, OnStreamData(peers[p], p, s, len, payload))
    /\ UNCHANGED wire

StreamRemoteWriteClosed(p, s) ==
    /\ wire[p][s] \in {"outbound", "inbound"}
    /\ Apply(p, OnStreamRemoteWriteClosed(peers[p], p, s))
    /\ Report(p, s, "half")

StreamClosed(p, s) ==
    /\ wire[p][s] \in {"outbound", "inbound", "half"}
    /\ Apply(p, OnStreamClosed(peers[p], s))
    /\ Report(p, s, "closed")

\* The connection to p is gone; the next one numbers its streams afresh.
PeerRemoved(p) ==
    /\ Room
    /\ peers' = RemovePeer(peers, p)
    /\ wire' = [wire EXCEPT ![p] = IdleWire]
    /\ UNCHANGED <<pending_events, pending_actions>>

\* The connection known as old turns out to lead to new, which has no other.
PeerMigrated(old, new) ==
    /\ Room
    /\ old # new
    /\ wire[new] = IdleWire
    /\ peers' = MigratePeer(peers, old, new)
    /\ pending_events' = MigrateEvents(pending_events, old, new)
    /\ wire' = [wire EXCEPT ![new] = wire[old], ![old] = IdleWire]
    /\ UNCHANGED pending_actions

Tick ==
    /\ \E order \in Orders({p \in PeerIds : Expired(peers[p])}) :
         /\ peers' = TickPeers(peers, order)
         /\ pending_actions' = pending_actions \o TickActions(peers, order)
         /\ pending_events' = pending_events \o TickEvents(peers, order)
    /\ UNCHANGED wire

PollOutput ==
    /\ \/ /\ pending_actions # << >>
          /\ pending_actions' = Tail(pending_actions)
          /\ UNCHANGED pending_events
       \/ /\ pending_actions = << >>
          /\ pending_events # << >>
          /\ pending_events' = Tail(pending_events)
          /\ UNCHANGED pending_actions
    /\ UNCHANGED <<peers, wire>>

\* One unit of time passes: the age of every request grows, up to AgeCap.
Older(st) ==
    IF InFlight(st) /\ st.pending_ping.age < AgeCap
    THEN [st EXCEPT !.pending_ping = [payload |-> @.payload, age |-> @.age + 1]]
    ELSE st

Elapse ==
    /\ peers' = [p \in PeerIds |-> Older(peers[p])]
    /\ UNCHANGED <<pending_events, pending_actions, wire>>

StreamInput ==
    \E p \in PeerIds, s \in StreamIds :
      \/ NegotiatedOutbound(p, s)
      \/ NegotiatedInbound(p, s)
      \/ \E len \in 1 .. PayloadLen + 1, payload \in Payloads :
           StreamData(p, s, len, payload)
      \/ StreamRemoteWriteClosed(p, s)
      \/ StreamClosed(p, s)

PeerInput ==
    \E p \in PeerIds :
      \/ \E payload \in Payloads : RequestPing(p, payload)
      \/ RequestCloseWrite(p)
      \/ PeerRemoved(p)
      \/ \E new \in PeerIds : PeerMigrated(p, new)

Next == StreamInput \/ PeerInput \/ Tick \/ PollOutput \/ Elapse

Spec == Init /\ [][Next]_vars

\* Swarm::poll feeds Tick and drains every output, and time passes.
FairSpec ==
    Spec /\ WF_vars(Tick) /\ WF_vars(Elapse) /\ WF_vars(PollOutput)

-----------------------------------------------------------------------------
(* Properties.                                                             *)

\* on_tick skips a peer without an outbound stream: were a request kept
\* without one it could never time out and every later ping would be refused.
InFlightHasStream ==
    \A p \in PeerIds : InFlight(peers[p]) => peers[p].outbound_stream # None

\* Every stream the protocol believes in is one the transport still delivers
\* on, in the same role: no ping is sent on a closed or a reused stream id.
StreamsAreOpen ==
    \A p \in PeerIds, s \in StreamIds :
      /\ peers[p].outbound_stream = s => wire[p][s] = "outbound"
      /\ s \in peers[p].inbound_streams => wire[p][s] = "inbound"

\* Buffered bytes belong to a known stream: none survive into the next stream
\* that gets the same id, and none pile up for streams that are gone.
BuffersAreKnown ==
    \A p \in PeerIds, s \in StreamIds :
      peers[p].recv_bufs[s] > 0 => IsKnown(peers[p], s)

\* At most InboundLimit inbound ping streams per peer are served at a time.
InboundWithinLimit ==
    \A p \in PeerIds :
      /\ IsFiniteSet(peers[p].inbound_streams)
      /\ Cardinality(peers[p].inbound_streams) <= InboundLimit

\* The last event queued by a step that reports the end of p's request.
ReportsOutcome(p) ==
    \E i \in DOMAIN pending_events' \ DOMAIN pending_events :
      /\ pending_events'[i].peer = p
      /\ pending_events'[i].kind \in {"RttMeasured", "Timeout", "ProtocolViolation"}

\* The host itself takes the stream or the peer away.
TakenAway(p) ==
    \/ PeerRemoved(p)
    \/ \E s \in StreamIds : StreamClosed(p, s)
    \/ \E new \in PeerIds : PeerMigrated(p, new)

\* A request ends with a measured round trip, a timeout or a violation
\* reported to the application, unless the host took its stream away, and a
\* round trip or a timeout is never reported without a request in flight.
OneOutcome ==
    [][\A p \in PeerIds :
         /\ (InFlight(peers[p]) /\ ~InFlight(peers[p])') => ReportsOutcome(p) \/ TakenAway(p)
         /\ \A i \in DOMAIN pending_events' \ DOMAIN pending_events :
              (/\ pending_events'[i].peer = p
               /\ pending_events'[i].kind \in {"RttMeasured", "Timeout"})
                 => InFlight(peers[p]) /\ ~InFlight(peers[p])']_vars

\* Every request is eventually answered, timed out or dropped.
RequestsEnd == \A p \in PeerIds : InFlight(peers[p]) ~> ~InFlight(peers[p])
=============================================================================
