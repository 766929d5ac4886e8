---------------------------- MODULE PingProtocol ----------------------------
(***************************************************************************)
(* The handlers of crates/ping/src/lib.rs as operators: each takes the     *)
(* state PingProtocol keeps for one peer and returns the new state with    *)
(* the actions and events the handler queues.  Ping.tla wraps them into a  *)
(* state machine; SwarmCore.tla calls them the way swarm/src/core.rs does. *)
(*                                                                         *)
(* Abstractions.  A payload is a member of Payloads; a receive buffer is   *)
(* its length, and the payload a full buffer spells is an input of the     *)
(* handler that fills it.  pending_ping.sent_at_ms appears only in         *)
(* now_ms - sent_at_ms, so the age of the request is kept instead of the   *)
(* two clock readings.  Texts of events are left out.                      *)
(*                                                                         *)
(* A definition marked "Slip" repeats the next unmarked one with a         *)
(* plausible mistake, to show that a property of the runs notices it.      *)
(***************************************************************************)
EXTENDS Naturals, Sequences, FiniteSets

CONSTANTS
    PeerIds,        \* peers, verified or synthetic
    StreamIds,      \* stream ids as the transport hands them out
    Payloads,       \* ping payloads
    PayloadLen,     \* PING_PAYLOAD_LEN, in units of data
    RequestTimeout, \* PingConfig::request_timeout_ms, in units of time
    None            \* an absent Option / map entry

ASSUME PayloadLenAssumption == PayloadLen \in Nat \ {0}
ASSUME RequestTimeoutAssumption == RequestTimeout \in Nat
ASSUME PeerIdsAssumption == IsFiniteSet(PeerIds) /\ None \notin PeerIds
ASSUME StreamIdsAssumption == None \notin StreamIds

\* register_inbound_stream: "if peer.inbound_streams.len() >= 2"
InboundLimit == 2

\* Every age past the timeout is alike to the code.
AgeCap == RequestTimeout + 1

PendingPing == [payload : Payloads, age : 0 .. AgeCap]

ASSUME NoneAssumption == None \notin PendingPing

\* peers: BTreeMap<PeerId, PeerPingState>; tracked tells an absent entry
\* from a default one, which only migrate_peer can tell apart.
PeerPingState ==
    [tracked         : BOOLEAN,
     outbound_stream : StreamIds \cup {None},
     inbound_streams : SUBSET StreamIds,
     pending_ping    : PendingPing \cup {None},
     recv_bufs       : [StreamIds -> 0 .. PayloadLen - 1]]

Absent ==
    [tracked         |-> FALSE,
     outbound_stream |-> None,
     inbound_streams |-> {},
     pending_ping    |-> None,
     recv_bufs       |-> [s \in StreamIds |-> 0]]

ActionKinds == {"Send", "CloseStreamWrite", "ResetStream"}
EventKinds ==
    {"OutboundStreamRegistered", "InboundStreamAccepted", "RttMeasured", "Timeout",
     "OutboundStreamClosed", "StreamLimitExceeded", "ProtocolViolation"}

PingAction == [kind : ActionKinds, peer : PeerIds, stream : StreamIds]
PingEvent  == [kind : EventKinds, peer : PeerIds, stream : StreamIds]

Msg(kind, p, s) == [kind |-> kind, peer |-> p, stream |-> s]

-----------------------------------------------------------------------------
(* What a handler returns: Result::Ok with its outputs, or Result::Err.    *)

Done(st, actions, events) ==
    [ok |-> TRUE, st |-> st, actions |-> actions, events |-> events]

Refused(st) == [ok |-> FALSE, st |-> st, actions |-> << >>, events |-> << >>]

Quiet(st) == Done(st, << >>, << >>)

\* protocol_violation
Violation(st, p, s) ==
    Done(st, <<Msg("ResetStream", p, s)>>, <<Msg("ProtocolViolation", p, s)>>)

IsKnown(st, s) == st.outbound_stream = s \/ s \in st.inbound_streams

InFlight(st) == st.pending_ping # None

-----------------------------------------------------------------------------
(* Handlers.                                                               *)

RegisterOutboundStream(st, p, s) ==
    IF st.outbound_stream = None
    THEN Done([st EXCEPT !.tracked = TRUE, !.outbound_stream = s],
              << >>, <<Msg("OutboundStreamRegistered", p, s)>>)
    ELSE IF st.outbound_stream = s THEN Quiet(st) ELSE Refused(st)

RegisterInboundStream(st, p, s) ==
    IF s \in st.inbound_streams
    THEN Quiet(st)
    ELSE IF Cardinality(st.inbound_streams) >= InboundLimit
    THEN Done(st, <<Msg("ResetStream", p, s)>>, <<Msg("StreamLimitExceeded", p, s)>>)
    ELSE Done([st EXCEPT !.tracked = TRUE, !.inbound_streams = @ \cup {s}],
              << >>, <<Msg("InboundStreamAccepted", p, s)>>)

SendPing(st, p, payload) ==
    IF st.outbound_stream = None \/ InFlight(st)
    THEN Refused(st)
    ELSE Done([st EXCEPT !.pending_ping = [payload |-> payload, age |-> 0]],
              <<Msg("Send", p, st.outbound_stream)>>, << >>)

CloseOutboundStreamWrite(st, p) ==
    IF st.outbound_stream = None \/ InFlight(st)
    THEN Refused(st)
    ELSE Done(st, <<Msg("CloseStreamWrite", p, st.outbound_stream)>>, << >>)

\* process_complete_payload: the answer to our ping, or a ping to echo.
ProcessCompletePayload(st, p, s, payload) ==
    LET taken == [st EXCEPT !.pending_ping = None] IN
    IF st.outbound_stream = s
    THEN IF InFlight(st) /\ st.pending_ping.payload = payload
         THEN Done(taken, << >>, <<Msg("RttMeasured", p, s)>>)
         ELSE Violation(taken, p, s)
    ELSE Done(st, <<Msg("Send", p, s)>>, << >>)

\* Slip: a full buffer is kept until the next byte.
OnStreamDataLate(st, p, s, len, payload) ==
    LET buf == st.recv_bufs[s] + len
    IN  IF ~IsKnown(st, s) THEN Violation(st, p, s)
        ELSE IF buf <= PayloadLen
        THEN Quiet([st EXCEPT !.recv_bufs = [@ EXCEPT ![s] = buf]])
        ELSE Violation([st EXCEPT !.recv_bufs = [@ EXCEPT ![s] = 0]], p, s)

\* on_stream_data: len units arrive; payload is what a full buffer spells.
OnStreamData(st, p, s, len, payload) ==
    LET buf     == st.recv_bufs[s] + len
        emptied == [st EXCEPT !.recv_bufs = [@ EXCEPT ![s] = 0]]
    IN  IF ~IsKnown(st, s) THEN Violation(st, p, s)
        ELSE IF buf > PayloadLen THEN Violation(emptied, p, s)
        ELSE IF buf < PayloadLen
        THEN Quiet([st EXCEPT !.recv_bufs = [@ EXCEPT ![s] = buf]])
        ELSE ProcessCompletePayload(emptied, p, s, payload)

\* Slip: the FIN ends an outbound stream without looking at the request.
OnStreamRemoteWriteClosedSilent(st, p, s) ==
    LET bufs == [st.recv_bufs EXCEPT ![s] = 0]
    IN  IF s \in st.inbound_streams
        THEN Quiet([st EXCEPT !.inbound_streams = @ \ {s}, !.recv_bufs = bufs])
        ELSE IF st.outbound_stream # s THEN Quiet(st)
        ELSE Done([st EXCEPT !.outbound_stream = None, !.pending_ping = None,
                             !.recv_bufs = bufs],
                  << >>, <<Msg("OutboundStreamClosed", p, s)>>)

\* Slip: the FIN of an inbound stream is taken for that of the outbound one.
OnStreamRemoteWriteClosedKeepsInbound(st, p, s) ==
    IF st.outbound_stream # s
    THEN Quiet(st)
    ELSE Done([st EXCEPT !.outbound_stream = None, !.pending_ping = None,
                         !.recv_bufs = [@ EXCEPT ![s] = 0]],
              << >>, <<Msg("OutboundStreamClosed", p, s)>>)

OnStreamRemoteWriteClosed(st, p, s) ==
    LET bufs    == [st.recv_bufs EXCEPT ![s] = 0]
        cleared == [st EXCEPT !.outbound_stream = None,
                              !.pending_ping = None,
                              !.recv_bufs = bufs]
    IN  IF s \in st.inbound_streams
        THEN Quiet([st EXCEPT !.inbound_streams = @ \ {s}, !.recv_bufs = bufs])
        ELSE IF st.outbound_stream # s THEN Quiet(st)
        ELSE IF InFlight(st) THEN Violation(cleared, p, s)
        ELSE Done(cleared, << >>, <<Msg("OutboundStreamClosed", p, s)>>)

\* Slip: the stream is cleared and the request on it is not.
OnStreamClosedKeepsPing(st, s) ==
    Quiet([st EXCEPT
             !.inbound_streams = @ \ {s},
             !.recv_bufs       = [@ EXCEPT ![s] = 0],
             !.outbound_stream = IF @ = s THEN None ELSE @])

OnStreamClosed(st, s) ==
    Quiet([st EXCEPT
             !.inbound_streams = @ \ {s},
             !.recv_bufs       = [@ EXCEPT ![s] = 0],
             !.outbound_stream = IF @ = s THEN None ELSE @,
             !.pending_ping    = IF st.outbound_stream = s THEN None ELSE @])

\* on_tick, the loop body's condition and its effect on one peer.
Expired(st) ==
    /\ st.outbound_stream # None
    /\ InFlight(st)
    /\ st.pending_ping.age > RequestTimeout

\* Slip: a timeout forgets the stream and keeps what it had received.
OnTickKeepsBuffer(st, p) ==
    LET s == st.outbound_stream
    IN  Done([st EXCEPT !.outbound_stream = None, !.pending_ping = None],
             <<Msg("ResetStream", p, s)>>,
             <<Msg("Timeout", p, s), Msg("OutboundStreamClosed", p, s)>>)

OnTick(st, p) ==
    LET s == st.outbound_stream
    IN  Done([st EXCEPT !.outbound_stream = None,
                        !.pending_ping    = None,
                        !.recv_bufs       = [@ EXCEPT ![s] = 0]],
             <<Msg("ResetStream", p, s)>>,
             <<Msg("Timeout", p, s), Msg("OutboundStreamClosed", p, s)>>)

-----------------------------------------------------------------------------
(* Handlers of the whole peers map.                                        *)

RemovePeer(peers, p) == [peers EXCEPT ![p] = Absent]

MigratePeer(peers, old, new) ==
    IF old = new \/ ~peers[old].tracked
    THEN peers
    ELSE [peers EXCEPT ![new] = peers[old], ![old] = Absent]

\* migrate_peer rewrites the buffered events, not the buffered actions.
MigrateEvents(events, old, new) ==
    [i \in DOMAIN events |->
       IF events[i].peer = old THEN [events[i] EXCEPT !.peer = new] ELSE events[i]]

\* The orders in which a loop may meet the members of S.
Orders(S) ==
    {f \in [1 .. Cardinality(S) -> S] :
       \A i, j \in 1 .. Cardinality(S) : f[i] = f[j] => i = j}

\* on_tick over all peers; order lists the peers that expired.
TickPeers(peers, order) ==
    [p \in PeerIds |-> IF \E i \in DOMAIN order : order[i] = p
                       THEN OnTick(peers[p], p).st
                       ELSE peers[p]]

TickActions(peers, order) ==
    [i \in 1 .. Len(order) |->
       Msg("ResetStream", order[i], peers[order[i]].outbound_stream)]

TickEvents(peers, order) ==
    [i \in 1 .. 2 * Len(order) |->
       LET p == order[(i + 1) \div 2]
       IN  Msg(IF i % 2 = 1 THEN "Timeout" ELSE "OutboundStreamClosed",
               p, peers[p].outbound_stream)]
=============================================================================
