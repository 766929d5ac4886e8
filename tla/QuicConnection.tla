--------------------------- MODULE QuicConnection ---------------------------
(***************************************************************************)
(* transports/quic/src/connection.rs: one QUIC connection.  Every method is *)
(* an operator from a connection to [conn, events, ok]: the connection      *)
(* afterwards, the events it pushed and whether it returned Ok.             *)
(*                                                                         *)
(* quiche is external.  Of it a connection keeps what decides the answers   *)
(* the code gets: established and closed (is_established, is_closed), cert  *)
(* (what the certificate of the remote proves once the handshake is done),  *)
(* and per stream recv (what stream_recv will return) and send (what        *)
(* becomes of stream_send).                                                 *)
(*                                                                         *)
(* A definition marked "Slip" repeats the next unmarked one with a          *)
(* plausible mistake.                                                       *)
(***************************************************************************)
EXTENDS Naturals, Sequences, SequencesExt

CONSTANTS
    Streams,  \* raw stream ids: the low bit tells the initiator, 1 the server
    Peers,
    None

ConnectionState == {"Connecting", "Connected", "Closing"}

\* A PendingStreamWrite is the units of bytes[offset..] not yet sent, or the
\* FIN; a queue of writes is the sequence of their units.
StreamRuntimeState ==
    [pending_writes : Seq({"byte", "fin"}), local_write_closed : BOOLEAN,
     remote_write_closed : BOOLEAN, incoming_notified : BOOLEAN, closed_notified : BOOLEAN]

DefaultStream ==
    [pending_writes |-> << >>, local_write_closed |-> FALSE, remote_write_closed |-> FALSE,
     incoming_notified |-> FALSE, closed_notified |-> FALSE]

\* end: nothing yet, a FIN or a reset to be read, or nothing more to come.
Receiving == [data : BOOLEAN, end : {"no", "fin", "reset", "read"}]

\* expected: the peer of the PeerAddr that was dialed, kept for the properties
\* (peer_id may be replaced).
Connection ==
    [state : ConnectionState, server : BOOLEAN, peer_id : Peers \cup {None},
     stream_states : [Streams -> StreamRuntimeState \cup {None}],
     next_local_bidi_stream_id : Nat,
     expected : Peers \cup {None}, cert : Peers \cup {None},
     established : BOOLEAN, closed : BOOLEAN,
     recv : [Streams -> Receiving], send : [Streams -> {"unused", "open", "fin", "shut"}]]

\* Stream ids are u64: finitely many.  None is none of the values it stands
\* beside.
ASSUME QuicConnectionAssumption ==
    /\ Streams \subseteq Nat /\ IsFiniteSet(Streams) /\ Streams # {}
    /\ None \notin Nat /\ None \notin Peers
    /\ None \notin StreamRuntimeState /\ None \notin Connection

\* cert: the peer id that verify_libp2p_certificate will find, None if the
\* certificate will be missing or invalid.
New(server, peer, cert) ==
    [state |-> "Connecting", server |-> server, peer_id |-> peer,
     stream_states |-> [s \in Streams |-> None],
     next_local_bidi_stream_id |-> IF server THEN 1 ELSE 0,
     expected |-> peer, cert |-> cert,
     established |-> FALSE, closed |-> FALSE,
     recv |-> [s \in Streams |-> [data |-> FALSE, end |-> "no"]],
     send |-> [s \in Streams |-> "unused"]]

IsLocalInitiated(c, s) == (s % 2 = 1) <=> c.server

Ok(c, events) == [conn |-> c, events |-> events, ok |-> TRUE]
Err(c, events) == [conn |-> c, events |-> events, ok |-> FALSE]

Told(kind, s) == [kind |-> kind, stream |-> s]

\* The streams in a fixed order: the code goes through hash maps, and events
\* of different streams are independent of each other.
Ordered == SetToSeq(Streams)
ForStreams(eventsOf) == FlattenSeq([i \in DOMAIN Ordered |-> eventsOf[Ordered[i]]])

-----------------------------------------------------------------------------
\* drain_send_queue, flush and note_stream_closed_if_finished.

Pending(c, s) == IF c.stream_states[s] = None THEN << >> ELSE c.stream_states[s].pending_writes

\* How much stream_send may take of a queue: any prefix, but once the write
\* side is finished or shut down no byte.
Takes(c, s) ==
    LET w == Pending(c, s)
    IN  IF c.send[s] \in {"unused", "open"} THEN 0 .. Len(w)
        ELSE IF w # << >> /\ Head(w) = "fin" THEN {0, 1} ELSE {0}

\* The choices quiche and the socket have in one drain_send_queue and flush.
Drains(c) ==
    LET most == Max({Len(Pending(c, s)) : s \in Streams})
    IN  [taken : {f \in [Streams -> 0 .. most] : \A s \in Streams : f[s] \in Takes(c, s)},
         ok : BOOLEAN]

IsFullyClosed(st) == st.local_write_closed /\ st.remote_write_closed

\* Slip: FIN ends the stream even if the remote still sends.
NoteStreamClosedOnFin(st) == st.local_write_closed /\ ~st.closed_notified

NoteStreamClosedIfFinished(st) == IsFullyClosed(st) /\ ~st.closed_notified

\* A stream of which quiche has taken k units.
Sending(st, k) ==
    [st EXCEPT !.pending_writes  = SubSeq(@, k + 1, Len(@)),
               !.closed_notified = @ \/ NoteStreamClosedIfFinished(st)]

\* An error (of stream_send or of the UDP socket) leaves what was taken until
\* then.
DrainSendQueue(c, d) ==
    LET Sent(s)   == c.stream_states[s] # None /\ d.taken[s] > 0
        Closes(s) == Sent(s) /\ NoteStreamClosedIfFinished(c.stream_states[s])
        c2 == [c EXCEPT
                 !.stream_states = [s \in Streams |->
                    IF Sent(s) THEN Sending(c.stream_states[s], d.taken[s]) ELSE c.stream_states[s]],
                 !.send = [s \in Streams |->
                    IF ~Sent(s) \/ c.send[s] = "shut" THEN c.send[s]
                    ELSE IF Pending(c, s)[d.taken[s]] = "fin" THEN "fin" ELSE "open"]]
        told == ForStreams([s \in Streams |->
                  IF Closes(s) THEN <<Told("StreamClosed", s)>> ELSE << >>])
    IN  IF d.ok THEN Ok(c2, told) ELSE Err(c2, told)

-----------------------------------------------------------------------------
\* quiche: what a datagram changes before recv_packet looks.

\* The remote writes to its own streams, and to ours once it has seen them.
RemoteWrites(c, s) == IsLocalInitiated(c, s) => c.send[s] # "unused"

\* Data behind a FIN or a reset is not passed on, and none after a local
\* shutdown of the read side.
StreamInput(c, s, unit) ==
    [c EXCEPT !.recv[s] =
        CASE @.end = "no" /\ unit = "data"                -> [@ EXCEPT !.data = TRUE]
          [] @.end = "no" /\ unit = "fin"                 -> [@ EXCEPT !.end = "fin"]
          [] @.end \in {"no", "fin"} /\ unit = "reset"    -> [data |-> FALSE, end |-> "reset"]
          [] OTHER                                        -> @]

\* Slip: any valid certificate will do.
RefusesInvalid(c) == c.cert = None

\* The certificate is missing or invalid, or proves another peer than the one
\* the endpoint names.
Refuses(c) == c.cert = None \/ (c.peer_id # None /\ c.peer_id # c.cert)

\* The branch of recv_packet in which the handshake has completed.  flushed:
\* the close of a refused connection has been sent.
HandshakeDone(c, d, flushed) ==
    LET r == DrainSendQueue([c EXCEPT !.state = "Connected"], d)
        closing == [r.conn EXCEPT !.state = "Closing"]
        told == r.events \o <<Told("Error", None)>>
    IN  CASE ~r.ok -> r
          [] r.ok /\ Refuses(c) -> IF flushed THEN Ok(closing, told) ELSE Err(closing, told)
          [] OTHER -> Ok([r.conn EXCEPT !.peer_id = c.cert],
                         r.events \o <<Told("Connected", None)>>)

RecvPacket(c, d, flushed) ==
    IF c.state = "Connecting" /\ c.established
    THEN HandshakeDone(c, d, flushed)
    ELSE DrainSendQueue(c, d)

\* quiche refuses the datagram.
RecvError(c) == Ok(c, <<Told("Error", None)>>)

-----------------------------------------------------------------------------
\* The calls of the host.

CanOpen(c) == c.state = "Connected" /\ c.next_local_bidi_stream_id \in Streams

OpenStream(c) ==
    LET s == c.next_local_bidi_stream_id
        c2 == [c EXCEPT !.next_local_bidi_stream_id = @ + 4]
    IN  IF c.stream_states[s] # None THEN Err(c2, << >>)  \* StreamExists
        ELSE Ok([c2 EXCEPT !.stream_states[s] = DefaultStream], <<Told("StreamOpened", s)>>)

\* get_or_create_local_stream_state
HasOrCreates(c, s) == c.stream_states[s] # None \/ IsLocalInitiated(c, s)
GetOrCreate(c, s) ==
    IF c.stream_states[s] # None THEN c ELSE [c EXCEPT !.stream_states[s] = DefaultStream]

MayWrite(c, s) ==
    HasOrCreates(c, s) /\ ~GetOrCreate(c, s).stream_states[s].local_write_closed

\* Queued: the connection with the write in its queue, before it is drained.
QueueBytes(c, s, n) ==
    [GetOrCreate(c, s) EXCEPT
        !.stream_states[s].pending_writes = @ \o [i \in 1 .. n |-> "byte"]]

QueueFin(c, s) ==
    [GetOrCreate(c, s) EXCEPT !.stream_states[s].local_write_closed = TRUE,
                              !.stream_states[s].pending_writes = Append(@, "fin")]

\* stream_shutdown may refuse either direction; the flags change only when
\* both are done.
ResetOutcomes == {"ok", "write_refused", "read_refused"}

ResetStream(c, s, outcome) ==
    LET shut == [c EXCEPT !.send[s] = "shut"]
    IN  CASE outcome = "write_refused" -> Err(c, << >>)
          [] outcome = "read_refused"  -> Err(shut, << >>)
          [] outcome = "ok" ->
               Ok([shut EXCEPT
                     !.recv[s] = [data |-> FALSE, end |-> "read"],
                     !.stream_states[s] = [@ EXCEPT !.local_write_closed = TRUE,
                                                    !.remote_write_closed = TRUE,
                                                    !.closed_notified = TRUE]],
                  IF c.stream_states[s].closed_notified THEN << >>
                  ELSE <<Told("StreamClosed", s)>>)

\* close(): the events of its drain are thrown away.
Close(c, d) ==
    LET r == DrainSendQueue([c EXCEPT !.state = "Closing"], d)
    IN  [r EXCEPT !.events = << >>]

-----------------------------------------------------------------------------
\* poll_streams.

Readable(c, s) == c.recv[s].data \/ c.recv[s].end \in {"fin", "reset"}

\* ensure_stream_discovered
Discovers(c, s) ==
    /\ ~IsLocalInitiated(c, s)
    /\ c.stream_states[s] # None => ~c.stream_states[s].incoming_notified

\* One turn of the loop over readable(): read until Done, FIN or an error.  A
\* reset by the remote is an error of stream_recv, and no more than that.
ReadStream(c, s) ==
    LET st     == GetOrCreate(c, s).stream_states[s]
        st2    == [st EXCEPT !.incoming_notified = @ \/ Discovers(c, s),
                             !.remote_write_closed = @ \/ c.recv[s].end = "fin"]
        closes == c.recv[s].end = "fin" /\ NoteStreamClosedIfFinished(st2)
    IN  [state |-> [st2 EXCEPT !.closed_notified = @ \/ closes],
         events |->
           (IF Discovers(c, s) THEN <<Told("IncomingStream", s)>> ELSE << >>)
             \o (IF c.recv[s].data THEN <<Told("StreamData", s)>> ELSE << >>)
             \o (IF c.recv[s].end = "fin" THEN <<Told("StreamRemoteWriteClosed", s)>> ELSE << >>)
             \o (IF closes THEN <<Told("StreamClosed", s)>> ELSE << >>)
             \o (IF c.recv[s].end = "reset" THEN <<Told("Error", None)>> ELSE << >>)]

ReadStreams(c) ==
    Ok([c EXCEPT
          !.stream_states = [s \in Streams |-> IF Readable(c, s) THEN ReadStream(c, s).state ELSE @[s]],
          !.recv = [s \in Streams |->
                      IF Readable(c, s)
                      THEN [data |-> FALSE, end |-> IF @[s].end = "no" THEN "no" ELSE "read"]
                      ELSE @[s]]],
       ForStreams([s \in Streams |-> IF Readable(c, s) THEN ReadStream(c, s).events ELSE << >>]))

\* Slip: collected as soon as it is reported, whatever is still queued.
GcReported(st) == st # None /\ st.closed_notified

Collectable(st) == st # None /\ st.closed_notified /\ st.pending_writes = << >>

GcClosedStreams(c) ==
    [c EXCEPT !.stream_states = [s \in Streams |-> IF Collectable(@[s]) THEN None ELSE @[s]]]

\* d is a choice of Drains(ReadStreams(c).conn).
PollStreams(c, d) ==
    LET read == ReadStreams(c)
        r    == DrainSendQueue(read.conn, d)
    IN  IF ~c.established THEN Ok(c, << >>)
        ELSE IF r.ok THEN Ok(GcClosedStreams(r.conn), read.events \o r.events)
        ELSE Err(r.conn, read.events \o r.events)
=============================================================================
