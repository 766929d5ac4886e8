------------------------- MODULE MultistreamSelect --------------------------
(***************************************************************************)
(* The negotiator of crates/multistream-select/src/lib.rs as operators on  *)
(* the struct MultistreamSelect.  Negotiation.tla runs two of them.        *)
(*                                                                         *)
(* Abstractions.  A line is a protocol, Header or NotAvailable, and its    *)
(* encoding is FrameLen units of data, so that the transport can cut it    *)
(* anywhere.  Units of application data are no part of any line.           *)
(*                                                                         *)
(* A definition marked "Slip" repeats the next unmarked one with a         *)
(* plausible mistake, to show that a property of the runs notices it.      *)
(***************************************************************************)
EXTENDS Naturals, Sequences

CONSTANTS
    Protocols,     \* protocol ids
    Header,        \* MULTISTREAM_PROTOCOL_ID
    NotAvailable,  \* "na"
    FrameLen       \* units of data in an encoded line

ASSUME FrameLenAssumption == FrameLen \in Nat \ {0}
ASSUME LinesAssumption == Header # NotAvailable /\ {Header, NotAvailable} \cap Protocols = {}

Lines == Protocols \cup {Header, NotAvailable}

Units == [line : Lines, part : 1 .. FrameLen] \cup [data : Nat]

Roles == {"Dialer", "Listener"}

States == {"WaitingForRemoteHeader", "WaitingForProtocolRequest",
           "WaitingForProtocolResponse", "Done"}

OutputKinds == {"OutboundData", "Negotiated", "NotAvailable", "ProtocolError"}

Negotiator ==
    [role : Roles, state : States, desired_protocol : Protocols,
     supported_protocols : SUBSET Protocols, recv_buf : Seq(Units)]

\* MultistreamSelect::dialer and ::listener
New(role, desired, supported) ==
    [role |-> role, state |-> "WaitingForRemoteHeader", desired_protocol |-> desired,
     supported_protocols |-> supported, recv_buf |-> << >>]

Out(kind, line) == [kind |-> kind, line |-> line]

-----------------------------------------------------------------------------
(* Framing.                                                                *)

EncodeMessage(line) == [i \in 1 .. FrameLen |-> [line |-> line, part |-> i]]

\* The first n units of buf are those of an encoded line.
StartsLine(buf, n) ==
    \E line \in Lines : SubSeq(buf, 1, n) = SubSeq(EncodeMessage(line), 1, n)

\* decode_message: "incomplete", "complete" or "error".
DecodeMessage(buf) ==
    LET n == IF Len(buf) < FrameLen THEN Len(buf) ELSE FrameLen
    IN  IF ~StartsLine(buf, n) THEN "error"
        ELSE IF n < FrameLen THEN "incomplete" ELSE "complete"

-----------------------------------------------------------------------------
(* The handshake.                                                          *)

Reply(state, outputs) == [state |-> state, outputs |-> outputs]

ProtocolError == Reply("Done", <<[kind |-> "ProtocolError"]>>)

OnRemoteHeader(m, line) ==
    CASE line # Header -> ProtocolError
      [] line = Header /\ m.role = "Dialer" ->
           Reply("WaitingForProtocolResponse", <<Out("OutboundData", m.desired_protocol)>>)
      [] line = Header /\ m.role = "Listener" -> Reply("WaitingForProtocolRequest", << >>)

\* Slip: the request is confirmed whatever it asks for.
OnProtocolRequestUnchecked(m, line) ==
    Reply("Done", <<Out("OutboundData", line), Out("Negotiated", line)>>)

OnProtocolRequest(m, line) ==
    IF line \in m.supported_protocols
    THEN Reply("Done", <<Out("OutboundData", line), Out("Negotiated", line)>>)
    ELSE Reply("Done", <<Out("OutboundData", NotAvailable), Out("NotAvailable", line)>>)

OnProtocolResponse(m, line) ==
    CASE line = m.desired_protocol -> Reply("Done", <<Out("Negotiated", line)>>)
      [] line = NotAvailable -> Reply("Done", <<Out("NotAvailable", line)>>)
      [] OTHER -> ProtocolError

\* handle_message
HandleMessage(m, line) ==
    CASE m.state = "WaitingForRemoteHeader" -> OnRemoteHeader(m, line)
      [] m.state = "WaitingForProtocolRequest" -> OnProtocolRequest(m, line)
      [] m.state = "WaitingForProtocolResponse" -> OnProtocolResponse(m, line)
      [] m.state = "Done" -> Reply("Done", << >>)

\* Slip: the loop goes on when the negotiation is over.
ReceiveStepWhenDone(r) ==
    LET buf   == r.m.recv_buf
        reply == HandleMessage(r.m, buf[1].line)
    IN  CASE DecodeMessage(buf) = "incomplete" -> r
          [] DecodeMessage(buf) = "error" ->
               [m |-> [r.m EXCEPT !.state = "Done"],
                outputs |-> r.outputs \o ProtocolError.outputs]
          [] DecodeMessage(buf) = "complete" ->
               [m |-> [r.m EXCEPT !.state = reply.state,
                                  !.recv_buf = SubSeq(@, FrameLen + 1, Len(@))],
                outputs |-> r.outputs \o reply.outputs]

\* Slip: a line is drained only when the loop goes on, so that the last one
\* stays in the buffer.
ReceiveStepKeepsLast(r) ==
    LET buf   == r.m.recv_buf
        reply == HandleMessage(r.m, buf[1].line)
    IN  CASE r.m.state = "Done" \/ DecodeMessage(buf) = "incomplete" -> r
          [] r.m.state # "Done" /\ DecodeMessage(buf) = "error" ->
               [m |-> [r.m EXCEPT !.state = "Done"],
                outputs |-> r.outputs \o ProtocolError.outputs]
          [] r.m.state # "Done" /\ DecodeMessage(buf) = "complete" ->
               [m |-> [r.m EXCEPT !.state = reply.state,
                                  !.recv_buf = IF reply.state = "Done" THEN @
                                               ELSE SubSeq(@, FrameLen + 1, Len(@))],
                outputs |-> r.outputs \o reply.outputs]

\* One round of the loop in receive; a round that breaks changes nothing more.
ReceiveStep(r) ==
    LET buf   == r.m.recv_buf
        reply == HandleMessage(r.m, buf[1].line)
    IN  CASE r.m.state = "Done" -> r
          [] r.m.state # "Done" /\ DecodeMessage(buf) = "incomplete" -> r
          [] r.m.state # "Done" /\ DecodeMessage(buf) = "error" ->
               [m |-> [r.m EXCEPT !.state = "Done"],
                outputs |-> r.outputs \o ProtocolError.outputs]
          [] r.m.state # "Done" /\ DecodeMessage(buf) = "complete" ->
               [m |-> [r.m EXCEPT !.state = reply.state,
                                  !.recv_buf = SubSeq(@, FrameLen + 1, Len(@))],
                outputs |-> r.outputs \o reply.outputs]

\* Slip: one line per call, the rest waits for more data.
ReceiveOneLine(m, data) ==
    IF m.state = "Done"
    THEN [m |-> m, outputs |-> << >>]
    ELSE ReceiveStep([m |-> [m EXCEPT !.recv_buf = @ \o data], outputs |-> << >>])

\* receive: every round but the last takes a line.
Receive(m, data) ==
    LET start  == [m |-> [m EXCEPT !.recv_buf = @ \o data], outputs |-> << >>]
        rounds == 1 + Len(start.m.recv_buf) \div FrameLen
        after[n \in 0 .. rounds] == IF n = 0 THEN start ELSE ReceiveStep(after[n - 1])
    IN  IF m.state = "Done" THEN [m |-> m, outputs |-> << >>] ELSE after[rounds]
=============================================================================
