-------------------------------- MODULE Flows --------------------------------
(***************************************************************************)
(* One flow of the relay, DCUtR or AutoNAT crate between a host and a       *)
(* remote that may send anything.  The stream keeps the order of the bytes  *)
(* and cuts them where it likes; the host polls when it likes, decides when *)
(* it likes, and gives up at the first error, as examples/peer does.        *)
(***************************************************************************)
EXTENDS RelayFlows, DcutrFlows, AutoNatFlows, SequencesExt

CONSTANTS
    Peers,    \* peer ids
    Addrs,    \* observed addresses, Unparsable among them
    MaxData   \* bound: units of data behind the frames

ASSUME FlowsAssumption == Unparsable \subseteq Addrs /\ MaxData \in Nat /\ Peers # {}

VARIABLES
    kind,     \* which flow
    sent,     \* what the remote sends: [frames, data]
    wire,     \* units on their way to the host
    fin,      \* "told": the host knows that the remote writes no more
    flow,     \* the flow's struct
    failed,   \* handle_input has returned an error
    decided,  \* the host's decision: None, or [call, addrs]
    told,     \* outcomes, requests and events the host got, in order
    written,  \* units the host has written to the stream
    bridge    \* BridgeData the host got

vars == <<kind, sent, wire, fin, flow, failed, decided, told, written, bridge>>

Kinds == {"reserve", "connect", "stop", "initiator", "responder", "client", "server"}
Ours == CHOOSE p \in Peers : TRUE
OurAddrs == Addrs \ Unparsable

\* The host's decisions.
Decisions == [call : {"Accept", "Reject", "SendSync", "Respond"}, addrs : SUBSET OurAddrs]

ASSUME FlowsAbsentAssumption ==
    /\ None \notin Peers /\ None \notin {"Accepted", "Bridged", "Refused"}
    /\ None \notin Decisions /\ None \notin [status : Statuses, addrs : SUBSET Addrs]

New(k) ==
    CASE k = "reserve" -> NewReservation
      [] k = "connect" -> NewConnect(Ours)
      [] k = "stop" -> NewStop
      [] k = "initiator" -> NewInitiator(OurAddrs)
      [] k = "responder" -> NewResponder(OurAddrs)
      [] k = "client" -> NewClient(Ours, OurAddrs)
      [] k = "server" -> NewServer

OnData(k, f, data) ==
    CASE k = "reserve" -> ReservationData(f, data)
      [] k = "connect" -> ConnectData(f, data)
      [] k = "stop" -> StopData(f, data)
      [] k = "initiator" -> InitiatorData(f, data)
      [] k = "responder" -> ResponderData(f, data)
      [] k = "client" -> ClientData(f, data)
      [] k = "server" -> ServerData(f, data)

\* The AutoNAT flows have no such input.
OnRemoteWriteClosed(k, f) ==
    CASE k = "reserve" -> ReservationDecode(f)
      [] k = "connect" -> ConnectDecode(f)
      [] k = "stop" -> StopDecode(f)
      [] k = "responder" -> ResponderDecode(f)
      [] k \in {"initiator", "client", "server"} -> Ok(f)

PollOutput(k, f) ==
    CASE k = "reserve" -> ReservationPoll(f)
      [] k = "connect" -> ConnectPoll(f)
      [] k = "stop" -> StopPoll(f)
      [] k = "initiator" -> InitiatorPoll(f)
      [] k = "responder" -> ResponderPoll(f)
      [] k = "client" -> ClientPoll(f)
      [] k = "server" -> ServerPoll(f)

-----------------------------------------------------------------------------
\* What a remote may send.

Bad == {Message("malformed", None), Message("garbage", None)}
Status == {Message("STATUS", s) : s \in {"Ok", "ReservationRefused", None}}
Connect == {Message("CONNECT", addrs) : addrs \in SUBSET Addrs}

\* What it sends when it keeps to the protocol.
RightFrames(k) ==
    CASE k \in {"reserve", "connect"} -> {<<m>> : m \in Status}
      [] k = "stop" -> {<<Message("CONNECT", p)>> : p \in Peers}
      [] k = "initiator" -> {<<m>> : m \in Connect}
      [] k = "responder" -> {<<m, Message("SYNC", {})>> : m \in Connect}
      [] k = "client" -> {<<DialResponse(s, OurAddrs)>> : s \in Statuses}
      [] k = "server" -> {<<Dial(p, OurAddrs)>> : p \in Peers}

WrongFrames(k) ==
    {<<m>> : m \in Bad} \cup
    CASE k \in {"reserve", "connect"} -> {<<Message("RESERVE", None)>>}
      [] k = "stop" -> {<<Message("CONNECT", None)>>, <<Message("STATUS", "Ok")>>}
      [] k = "initiator" -> {<<Message("SYNC", {})>>}
      [] k = "responder" ->
           {<<Message("SYNC", {})>>} \cup {<<m, n>> : m \in Connect, n \in Connect \cup Bad}
      [] k = "client" -> {<<Dial(Ours, OurAddrs)>>, <<Message("DIAL_RESPONSE", None)>>}
      [] k = "server" -> {<<Dial(None, OurAddrs)>>, <<DialResponse("Ok", {})>>}

\* No more than two frames go either way.
Encoded(frames) ==
    CASE frames = << >> -> << >>
      [] Len(frames) = 1 -> EncodeFrame(frames[1])
      [] Len(frames) = 2 -> EncodeFrame(frames[1]) \o EncodeFrame(frames[2])

Init ==
    /\ kind \in Kinds
    /\ \E frames \in RightFrames(kind) \cup WrongFrames(kind), n \in 0 .. MaxData :
         /\ sent = [frames |-> frames, data |-> n]
         /\ wire = Encoded(frames) \o Data(1, n)
    /\ fin = "open"
    /\ flow = New(kind)
    /\ failed = FALSE
    /\ decided = None
    /\ told = << >>
    /\ written = << >>
    /\ bridge = << >>

-----------------------------------------------------------------------------
\* A remote answers; it does not speak before it is asked.
Asked == kind \in {"reserve", "connect", "initiator", "client"} => written # << >>

Feed(r) ==
    /\ flow' = r.flow
    /\ failed' = ~r.ok

\* The next n units arrive together.
StreamData(n) ==
    /\ ~failed /\ Asked
    /\ n <= Len(wire)
    /\ Feed(OnData(kind, flow, SubSeq(wire, 1, n)))
    /\ wire' = SubSeq(wire, n + 1, Len(wire))
    /\ UNCHANGED <<kind, sent, fin, decided, told, written, bridge>>

RemoteWriteClosed ==
    /\ ~failed /\ Asked
    /\ wire = << >> /\ fin = "open"
    /\ Feed(OnRemoteWriteClosed(kind, flow))
    /\ fin' = "told"
    /\ UNCHANGED <<kind, sent, wire, decided, told, written, bridge>>

\* The host drains one output.
Poll ==
    LET r == PollOutput(kind, flow)
    IN  /\ ~failed
        /\ r.out # None
        /\ flow' = r.flow
        /\ told' = IF r.out.kind \in {"Outcome", "Request", "Event"}
                   THEN Append(told, r.out.value) ELSE told
        /\ written' = IF r.out.kind = "Outbound" THEN written \o r.out.value ELSE written
        /\ bridge' = IF r.out.kind = "BridgeData" THEN bridge \o r.out.value ELSE bridge
        /\ UNCHANGED <<kind, sent, wire, fin, failed, decided>>

\* The host has seen the request or the reply and acts on it.
Undecided == ~failed /\ decided = None /\ told # << >>

Decide(call, addrs, r) ==
    /\ Undecided
    /\ Feed(r)
    /\ decided' = [call |-> call, addrs |-> addrs]
    /\ UNCHANGED <<kind, sent, wire, fin, told, written, bridge>>

AcceptCircuit == kind = "stop" /\ Decide("Accept", {}, Accept(flow))
RejectCircuit == kind = "stop" /\ Decide("Reject", {}, Reject(flow, "ConnectionFailed"))
StartSync == kind = "initiator" /\ Decide("SendSync", {}, SendSync(flow))

\* dialback_candidate: an address is probed from one or two local addresses;
\* the verdict is that of the best probe.
DialbackCandidate(results) ==
    CASE "found" \in results -> "found"
      [] "found" \notin results /\ ("timeout" \in results \/ results = {}) -> "timeout"
      [] OTHER -> "error"

\* handle_autonat_request, for a request on a stream of peer Ours.
HandleAutonatRequest ==
    /\ kind = "server"
    /\ Undecided
    /\ LET request == told[1]
           Answers(status, addrs) == Decide("Respond", addrs, Ok(Respond(flow, status, addrs)))
       IN  \/ /\ request.peer # Ours
              /\ Answers("BadRequest", {})
           \/ /\ request.peer = Ours
              /\ \E probes \in [request.addrs -> SUBSET {"found", "timeout", "error"}] :
                   LET dialable == {x \in request.addrs : DialbackCandidate(probes[x]) = "found"}
                   IN  Answers(IF dialable = {} THEN "DialError" ELSE "Ok", dialable)

Decides == AcceptCircuit \/ RejectCircuit \/ StartSync \/ HandleAutonatRequest

MaxWire == 2 * FrameLen + MaxData

Receives == \E n \in 1 .. MaxWire : StreamData(n)

Next == Receives \/ RemoteWriteClosed \/ Poll \/ Decides

\* The stream delivers what was sent; the host polls and decides at last.
Spec ==
    /\ Init /\ [][Next]_vars
    /\ WF_vars(Receives) /\ WF_vars(Poll) /\ WF_vars(Decides)

-----------------------------------------------------------------------------
(* Reference: what each flow makes of a correct exchange, frame by frame.   *)

First == sent.frames[1]

Meaning ==
    CASE kind = "reserve" -> <<IF First.body = "Ok" THEN "Accepted" ELSE "Refused">>
      [] kind = "connect" -> <<IF First.body = "Ok" THEN "Bridged" ELSE "Refused">>
      [] kind = "stop" -> <<First.body>>
      [] kind = "initiator" -> <<DecodeRemoteAddrs(First.body)>>
      [] kind = "responder" ->
           <<Message("ConnectReceived", DecodeRemoteAddrs(First.body)), Message("SyncReceived", {})>>
      [] kind = "client" -> <<Reachability(First.body.status, First.body.addrs)>>
      [] kind = "server" -> <<First.body>>

Requests ==
    CASE kind = "reserve" -> <<Message("RESERVE", None)>>
      [] kind = "connect" -> <<Message("CONNECT", Ours)>>
      [] kind = "initiator" -> <<Message("CONNECT", OurAddrs), Message("SYNC", {})>>
      [] kind = "responder" -> <<Message("CONNECT", OurAddrs)>>
      [] kind = "client" -> <<Dial(Ours, OurAddrs)>>
      [] kind = "stop" -> IF decided = None THEN << >>
                          ELSE <<Message("STATUS", IF decided.call = "Accept" THEN "Ok"
                                                   ELSE "ConnectionFailed")>>
      [] kind = "server" -> IF decided = None THEN << >>
                            ELSE <<DialResponse(CASE First.body.peer # Ours -> "BadRequest"
                                                  [] First.body.peer = Ours /\ decided.addrs = {} ->
                                                       "DialError"
                                                  [] OTHER -> "Ok", decided.addrs)>>

Conforms == sent.frames \in RightFrames(kind)

Bridges ==
    \/ kind = "connect" /\ Conforms /\ First.body = "Ok"
    \/ kind = "stop" /\ decided # None /\ decided.call = "Accept"

\* The size limit is met however the bytes are joined.
Fits == Len(sent.frames) * FrameLen + sent.data <= MaxSize

-----------------------------------------------------------------------------
(* Properties.                                                             *)

TypeOK ==
    /\ kind \in Kinds
    /\ fin \in {"open", "told"}
    /\ failed \in BOOLEAN
    /\ decided \in {None} \cup Decisions
    /\ flow.state \in FlowState \cup StopState \cup InitiatorState \cup ResponderState
                       \cup ClientState \cup ServerState
    /\ bridge \in Seq([data : 1 .. MaxData])
    /\ kind \in {"connect", "stop"} => flow.bridge_bytes \in Seq([data : 1 .. MaxData])

\* poll_output: however the bytes were cut and whenever the host polled, it has
\* been told what the frames mean and nothing else, in order and once.
TellsTheMeaning ==
    /\ Conforms => IsPrefix(told, Meaning)
    /\ ~Conforms => Len(told) < Len(sent.frames) /\ (kind = "responder" \/ told = << >>)

\* What the host writes is what the protocol asks for at that point, and the
\* SYNC or STATUS never leaves before the host has acted.
WritesTheRequests ==
    /\ IsPrefix(written, Encoded(Requests))
    /\ kind = "initiator" /\ decided = None => Len(written) <= FrameLen

\* bridge_bytes: nothing behind the last frame is lost, doubled or reordered
\* on its way to the bridge, and none of it comes before the outcome.
BridgeKeepsEveryByte ==
    /\ Bridges /\ ~failed =>
         LET units  == bridge \o flow.bridge_bytes \o flow.recv_buf \o wire
             framed == Len(units) - sent.data
         IN  /\ SubSeq(units, framed + 1, Len(units)) = Data(1, sent.data)
             /\ \A i \in 1 .. framed : IsFrameUnit(units[i])
    /\ bridge # << >> => told # << >>

\* An error means that the remote was wrong, or that its bytes together are
\* more than a message may have.
FailsOnlyWhenWrong == failed => ~Conforms \/ ~Fits

\* A remote that keeps to the protocol is understood to the end.
FlowEnds ==
    <>[](Conforms /\ Fits => /\ told = Meaning
                             /\ written = Encoded(Requests)
                             /\ Bridges => bridge = Data(1, sent.data))
=============================================================================
