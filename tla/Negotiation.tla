---------------------------- MODULE Negotiation -----------------------------
(***************************************************************************)
(* One stream between two swarms: a dialer and a listener that negotiate a *)
(* protocol (feed_outbound_negotiator and feed_inbound_negotiator of       *)
(* crates/swarm/src/core.rs) and then exchange application data.  The      *)
(* transport keeps the order of the bytes and cuts them where it likes.    *)
(***************************************************************************)
EXTENDS MultistreamSelect

CONSTANT MaxData  \* bound: units of application data an end sends

ASSUME NegotiationAssumption == MaxData \in Nat

VARIABLES
    pipelining, \* the dialer is an implementation that does not wait for
                \* answers: header, proposal and data leave at once
    end,     \* end[r]: the MultistreamSelect of role r
    phase,   \* phase[r]: what the swarm at r makes of the stream
    wire,    \* wire[r]: units on their way to r
    sent,    \* sent[r]: how many units of application data r has sent
    got      \* got[r]: application data handed to the protocol at r

vars == <<pipelining, end, phase, wire, sent, got>>

\* "rejected" and "error": the swarm has reset the stream; "closed": it was
\* told that the remote did.
Phases == {"idle", "negotiating", "negotiated", "rejected", "error", "closed"}

\* Every variable has its type; what a protocol is handed is application data,
\* no unit of a line.
TypeOK ==
    /\ pipelining \in BOOLEAN
    /\ end \in [Roles -> Negotiator]
    /\ phase \in [Roles -> Phases]
    /\ wire \in [Roles -> Seq(Units)]
    /\ sent \in [Roles -> 0 .. MaxData]
    /\ got \in [Roles -> Seq([data : Nat])]

Other(r) == IF r = "Dialer" THEN "Listener" ELSE "Dialer"

HasReset(r) == phase[r] \in {"rejected", "error"}

Data(first, last) == [i \in 1 .. last + 1 - first |-> [data |-> first + i - 1]]

Init ==
    /\ pipelining \in BOOLEAN
    /\ \E desired \in Protocols, supported \in SUBSET Protocols :
         end = [r \in Roles |-> New(r, desired, supported)]
    /\ phase = [r \in Roles |-> "idle"]
    /\ wire = [r \in Roles |-> << >>]
    /\ sent = [r \in Roles |-> 0]
    /\ got = [r \in Roles |-> << >>]

-----------------------------------------------------------------------------
\* MultistreamInput::Start, when the driver reports StreamOpened.
DialerStarts ==
    /\ phase["Dialer"] = "idle"
    /\ phase' = [phase EXCEPT !["Dialer"] = "negotiating"]
    /\ sent' = [sent EXCEPT !["Dialer"] = IF pipelining THEN MaxData ELSE 0]
    /\ wire' = [wire EXCEPT !["Listener"] =
                  IF pipelining
                  THEN EncodeMessage(Header) \o EncodeMessage(end["Dialer"].desired_protocol)
                         \o Data(1, MaxData)
                  ELSE EncodeMessage(Header)]
    /\ UNCHANGED <<pipelining, end, got>>

\* IncomingStream: the first units have arrived.
ListenerStarts ==
    /\ phase["Listener"] = "idle"
    /\ wire["Listener"] # << >>
    /\ phase' = [phase EXCEPT !["Listener"] = "negotiating"]
    /\ wire' = [wire EXCEPT !["Dialer"] = EncodeMessage(Header)]
    /\ UNCHANGED <<pipelining, end, sent, got>>

\* What SendStream action the outputs, of which one at most is data to send,
\* turn into.  A pipelining dialer has made its proposal already.
Replies(r, outputs) ==
    LET said == {i \in DOMAIN outputs : outputs[i].kind = "OutboundData"}
    IN  IF said = {} \/ (pipelining /\ r = "Dialer")
        THEN << >>
        ELSE EncodeMessage(outputs[CHOOSE i \in said : TRUE].line)

Has(outputs, kind) == \E i \in DOMAIN outputs : outputs[i].kind = kind

\* Slip: what the negotiator has left in its buffer is not asked for.
FeedNegotiatorDropsRest(r, data) ==
    LET res  == Receive(end[r], data)
        out  == res.outputs
        rest == SubSeq(wire[r], Len(data) + 1, Len(wire[r]))
        to   == Other(r)
    IN  /\ end' = [end EXCEPT ![r] = res.m]
        /\ phase' = [phase EXCEPT ![r] = IF Has(out, "Negotiated") THEN "negotiated"
                                         ELSE IF Has(out, "NotAvailable") THEN "rejected" ELSE @]
        /\ wire' = [wire EXCEPT ![r] = rest, ![to] = @ \o Replies(r, out)]
        /\ UNCHANGED got

\* feed_*_negotiator: the outputs in order, then the buffered rest.  A reset
\* may overtake what was sent before it, the "na" included.
FeedNegotiator(r, data) ==
    LET res  == Receive(end[r], data)
        out  == res.outputs
        rest == SubSeq(wire[r], Len(data) + 1, Len(wire[r]))
        to   == Other(r)
        full == wire[to] \o Replies(r, out)
    IN  \/ /\ Has(out, "Negotiated")
           /\ end' = [end EXCEPT ![r] = [res.m EXCEPT !.recv_buf = << >>]]
           /\ phase' = [phase EXCEPT ![r] = "negotiated"]
           /\ got' = [got EXCEPT ![r] = res.m.recv_buf]
           /\ wire' = [wire EXCEPT ![r] = rest, ![to] = full]
        \/ /\ Has(out, "NotAvailable") \/ Has(out, "ProtocolError")
           /\ end' = [end EXCEPT ![r] = res.m]
           /\ phase' = [phase EXCEPT ![r] = IF Has(out, "NotAvailable")
                                            THEN "rejected" ELSE "error"]
           /\ \E n \in 0 .. Len(full) :
                wire' = [wire EXCEPT ![r] = rest, ![to] = SubSeq(full, 1, n)]
           /\ UNCHANGED got
        \/ /\ end[r].state # "Done" /\ res.m.state # "Done"
           /\ end' = [end EXCEPT ![r] = res.m]
           /\ wire' = [wire EXCEPT ![r] = rest, ![to] = full]
           /\ UNCHANGED <<phase, got>>

\* StreamData: the next n units arrive together.
StreamData(r, n) ==
    LET data == SubSeq(wire[r], 1, n)
        rest == SubSeq(wire[r], n + 1, Len(wire[r]))
    IN  /\ n <= Len(wire[r])
        /\ \/ phase[r] = "negotiating" /\ FeedNegotiator(r, data)
           \/ /\ phase[r] = "negotiated"
              /\ got' = [got EXCEPT ![r] = @ \o data]
              /\ wire' = [wire EXCEPT ![r] = rest]
              /\ UNCHANGED <<end, phase>>
           \/ /\ phase[r] \in {"rejected", "error", "closed"}
              /\ wire' = [wire EXCEPT ![r] = rest]
              /\ UNCHANGED <<end, phase, got>>
        /\ UNCHANGED <<pipelining, sent>>

\* The remote's reset arrives, after the units it did not overtake.
StreamClosed(r) ==
    /\ HasReset(Other(r))
    /\ wire[r] = << >>
    /\ phase[r] \in {"negotiating", "negotiated"}
    /\ phase' = [phase EXCEPT ![r] = "closed"]
    /\ UNCHANGED <<pipelining, end, wire, sent, got>>

\* The protocol at r sends one unit.
SendData(r) ==
    /\ phase[r] = "negotiated"
    /\ sent[r] < MaxData
    /\ sent' = [sent EXCEPT ![r] = @ + 1]
    /\ wire' = [wire EXCEPT ![Other(r)] = @ \o Data(sent'[r], sent'[r])]
    /\ UNCHANGED <<pipelining, end, phase, got>>

MaxWire == 3 * FrameLen + MaxData

Receives(r) == \E n \in 1 .. MaxWire : StreamData(r, n)

Next ==
    \/ DialerStarts \/ ListenerStarts
    \/ \E r \in Roles : Receives(r) \/ StreamClosed(r) \/ SendData(r)

\* The transport delivers what was sent.  That it reports a remote's reset is
\* not assumed: quiche shows one as an error of stream_recv.
Spec ==
    /\ Init /\ [][Next]_vars
    /\ WF_vars(DialerStarts) /\ WF_vars(ListenerStarts)
    /\ \A r \in Roles : WF_vars(Receives(r))

-----------------------------------------------------------------------------
(* Properties.                                                             *)

Supported == end["Dialer"].desired_protocol \in end["Listener"].supported_protocols

\* However the bytes are cut, an end that has negotiated has negotiated what
\* the dialer wants and the listener supports, and the dialer is not ahead of
\* the listener.
Agreement ==
    /\ \A r \in Roles : phase[r] = "negotiated" => Supported
    /\ phase["Dialer"] = "negotiated" => phase["Listener"] = "negotiated"

\* Two ends of this code never report a protocol error: no byte of a handshake
\* or of the data behind it is read as something else.
NoProtocolError == \A r \in Roles : phase[r] # "error"

\* take_remaining_buffer: what is pipelined behind the handshake reaches the
\* protocol, in order, once and complete: what it has not got yet are the last
\* units in the negotiator's buffer and on the wire, and no others are data.
NoByteLost ==
    \A r \in Roles :
      phase[r] \in {"negotiating", "negotiated"} /\ ~HasReset(Other(r)) =>
        LET units == end[r].recv_buf \o wire[r]
            lines == Len(units) + Len(got[r]) - sent[Other(r)]
        IN  /\ got[r] \o SubSeq(units, lines + 1, Len(units)) = Data(1, sent[Other(r)])
            /\ \A i \in 1 .. lines : "data" \notin DOMAIN units[i]

\* A negotiation of a supported protocol succeeds at both ends and every byte
\* sent on the stream reaches the protocol; any other is refused.
NegotiationEnds ==
    /\ Supported => <>[](\A r \in Roles :
                          phase[r] = "negotiated" /\ got[r] = Data(1, sent[Other(r)]))
    /\ ~Supported => <>[](phase["Listener"] = "rejected")
=============================================================================
