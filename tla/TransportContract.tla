-------------------------- MODULE TransportContract --------------------------
(***************************************************************************)
(* What the trait Transport (crates/transport/src/transport.rs) promises    *)
(* about the order of its events: the specification a host may rely on,     *)
(* with no transport in it.  Each step is one call, one event or one error  *)
(* of poll().  A handshake that fails is no excuse: no stream event comes   *)
(* without Connected before it.                                             *)
(***************************************************************************)
EXTENDS Naturals

CONSTANTS
    Ids,      \* ConnectionIds
    Streams,  \* StreamIds
    None

VARIABLES
    conn,    \* conn[c]: how far the life of c has been told
    stream,  \* stream[c][s]: how far the life of stream s of c has been told
    heard    \* the event just returned; turn tells it from an equal one before

vars == <<conn, stream, heard>>

\* A poll() that returns an error has lost events.  Of a connection among them
\* only whether Connected has been told is still known: "gapped" if it has,
\* "unconnected" if not.
Gaps == {"unconnected", "gapped"}
ConnPhases == {"none", "dialed", "incoming", "connected", "closed"} \cup Gaps
StreamPhases == {"none", "open", "half", "closed"}

StreamEvents == {"StreamOpened", "IncomingStream", "StreamData",
                 "StreamRemoteWriteClosed", "StreamClosed"}
ConnEvents == {"IncomingConnection", "Connected", "PeerIdentityVerified", "Error", "Closed"}

Event == [kind : ConnEvents, id : Ids, stream : {None}]
           \cup [kind : StreamEvents, id : Ids, stream : Streams]
           \cup [kind : {"Listening"}, id : {None}, stream : {None}]

\* What the host gets instead of events when poll() fails.
PollError == [kind |-> "PollError", id |-> None, stream |-> None]

Silence == [event |-> None, turn |-> FALSE]

Init ==
    /\ conn = [c \in Ids |-> "none"]
    /\ stream = [c \in Ids |-> [s \in Streams |-> "none"]]
    /\ heard = Silence

Hear(kind, c, s) == heard' = [event |-> [kind |-> kind, id |-> c, stream |-> s],
                              turn  |-> ~heard.turn]

-----------------------------------------------------------------------------
\* dial() returns the id before any event of the connection.
Dial(c) ==
    /\ conn[c] = "none"
    /\ conn' = [conn EXCEPT ![c] = "dialed"]
    /\ UNCHANGED <<stream, heard>>

Listening ==
    /\ Hear("Listening", None, None)
    /\ UNCHANGED <<conn, stream>>

IncomingConnection(c) ==
    /\ conn[c] = "none"
    /\ conn' = [conn EXCEPT ![c] = "incoming"]
    /\ Hear("IncomingConnection", c, None)
    /\ UNCHANGED stream

\* Exactly once, and for an accepted connection after IncomingConnection.
Connected(c) ==
    /\ conn[c] \in {"dialed", "incoming"}
    /\ conn' = [conn EXCEPT ![c] = "connected"]
    /\ Hear("Connected", c, None)
    /\ UNCHANGED stream

\* May come with or after Connected.
PeerIdentityVerified(c) ==
    /\ conn[c] = "connected"
    /\ Hear("PeerIdentityVerified", c, None)
    /\ UNCHANGED <<conn, stream>>

\* A non-fatal error.
Error(c) ==
    /\ conn[c] \in {"dialed", "incoming", "connected"}
    /\ Hear("Error", c, None)
    /\ UNCHANGED <<conn, stream>>

\* The last event of a connection.
Closed(c) ==
    /\ conn[c] \in {"dialed", "incoming", "connected"}
    /\ conn' = [conn EXCEPT ![c] = "closed"]
    /\ Hear("Closed", c, None)
    /\ UNCHANGED stream

\* No stream event precedes Connected or follows Closed.
StreamStep(kind, c, s, from, to) ==
    /\ conn[c] = "connected"
    /\ stream[c][s] \in from
    /\ stream' = [stream EXCEPT ![c][s] = to]
    /\ Hear(kind, c, s)
    /\ UNCHANGED conn

\* StreamOpened or IncomingStream comes first, RemoteWriteClosed at most once
\* and behind all data, StreamClosed at most once and last.
StreamEvent(c, s) ==
    \/ StreamStep("StreamOpened", c, s, {"none"}, "open")
    \/ StreamStep("IncomingStream", c, s, {"none"}, "open")
    \/ StreamStep("StreamData", c, s, {"open"}, "open")
    \/ StreamStep("StreamRemoteWriteClosed", c, s, {"open"}, "half")
    \/ StreamStep("StreamClosed", c, s, {"open", "half"}, "closed")

Gap(phase) == IF phase \in {"connected", "gapped"} THEN "gapped" ELSE "unconnected"

\* poll() returns an error, and the host may have missed events of these
\* connections.  Nothing else excuses a gap.
PollFails(lost) ==
    /\ conn' = [c \in Ids |-> IF c \in lost THEN Gap(conn[c]) ELSE conn[c]]
    /\ heard' = [event |-> PollError, turn |-> ~heard.turn]
    /\ UNCHANGED stream

\* After a gap the order of the events is not known.
Unordered(c) ==
    /\ conn[c] \in Gaps
    /\ \E kind \in ConnEvents \cup StreamEvents, s \in Streams \cup {None} :
         /\ Hear(kind, c, s)
         /\ conn' = IF kind = "Connected" THEN [conn EXCEPT ![c] = "gapped"] ELSE conn
    /\ UNCHANGED stream

\* All events of a poll() have been handled.
Handled ==
    /\ heard' = Silence
    /\ UNCHANGED <<conn, stream>>

Next ==
    \/ Listening \/ Handled
    \/ \E lost \in SUBSET Ids : PollFails(lost)
    \/ \E c \in Ids :
         \/ Dial(c) \/ IncomingConnection(c) \/ Connected(c) \/ PeerIdentityVerified(c)
         \/ Error(c) \/ Closed(c) \/ Unordered(c)
         \/ \E s \in Streams : StreamEvent(c, s)

Spec == Init /\ [][Next]_vars
=============================================================================
