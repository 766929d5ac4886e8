-------------------------- MODULE IdentifyProtocol --------------------------
(***************************************************************************)
(* The handlers of crates/identify/src/lib.rs as operators on the state    *)
(* kept for one peer.  As in the code, "outbound" is the stream we answer  *)
(* on (responder) and "inbound" the streams we read the remote's message   *)
(* from (initiator).  A buffer is abstracted away: whether it outgrows     *)
(* MAX_MESSAGE_SIZE, and what it decodes to, are inputs.                   *)
(***************************************************************************)
EXTENDS Sequences

CONSTANTS
    PeerIds, StreamIds,
    None,         \* an absent Option / map entry
    Malformed     \* a message that does not decode

PeerIdentifyState ==
    [tracked         : BOOLEAN,
     outbound_stream : StreamIds \cup {None},
     inbound_streams : SUBSET StreamIds]

Absent == [tracked |-> FALSE, outbound_stream |-> None, inbound_streams |-> {}]

\* What a handler returns: the commands for the stream, and the messages
\* received, Malformed or not (IdentifyEvent::Received / Error).
Done(st, commands, received) ==
    [ok |-> TRUE, st |-> st, commands |-> commands, received |-> received]

Refused(st) == [ok |-> FALSE, st |-> st, commands |-> << >>, received |-> << >>]

\* Responder: one stream per peer; the message is sent and the stream ended.
RegisterOutboundStream(st, s) ==
    IF st.outbound_stream # None
    THEN Refused(st)
    ELSE Done([st EXCEPT !.tracked = TRUE, !.outbound_stream = s],
              <<"SendStream", "CloseStreamWrite">>, << >>)

RegisterInboundStream(st, s) ==
    Done([st EXCEPT !.tracked = TRUE, !.inbound_streams = @ \cup {s}], << >>, << >>)

OnStreamData(st, s, oversize) ==
    IF s \in st.inbound_streams /\ oversize
    THEN Done([st EXCEPT !.inbound_streams = @ \ {s}], << >>, <<Malformed>>)
    ELSE Done(st, << >>, << >>)

\* The remote ended the message; decoded is what it spells.
OnStreamRemoteWriteClosed(st, s, decoded) ==
    IF s \in st.inbound_streams
    THEN Done([st EXCEPT !.inbound_streams = @ \ {s}], <<"CloseStreamWrite">>, <<decoded>>)
    ELSE Done(st, << >>, << >>)

OnStreamClosed(st, s) ==
    LET left == [st EXCEPT !.outbound_stream = IF @ = s THEN None ELSE @,
                           !.inbound_streams = @ \ {s}]
    IN  IF left.outbound_stream = None /\ left.inbound_streams = {}
        THEN Done(Absent, << >>, << >>)
        ELSE Done(left, << >>, << >>)

RemovePeer(peers, p) == [peers EXCEPT ![p] = Absent]

MigratePeer(peers, old, new) ==
    IF old = new \/ ~peers[old].tracked
    THEN peers
    ELSE [peers EXCEPT ![new] = peers[old], ![old] = Absent]
=============================================================================
