----------------------------- MODULE RelayFlows -----------------------------
(***************************************************************************)
(* crates/relay/src/lib.rs: the flows HopReservation, HopConnect and        *)
(* StopResponder as operators on their structs.  Reservations and limits    *)
(* in a STATUS message are left out.                                        *)
(*                                                                         *)
(* A definition marked "Slip" repeats the next unmarked one with a          *)
(* plausible mistake.                                                       *)
(***************************************************************************)
EXTENDS Frames

FlowState == {"Pending", "AwaitingResponse", "Done"}
StopState == {"AwaitingConnect", "AwaitingDecision", "Done", "Bridged"}

\* take_outbound of both HOP flows
Flushed(f) ==
    [f EXCEPT !.outbound = << >>,
              !.state = IF @ = "Pending" THEN "AwaitingResponse" ELSE @]

Done(f) == [f EXCEPT !.state = "Done"]

-----------------------------------------------------------------------------
\* HopReservation

NewReservation ==
    [outbound |-> EncodeFrame(Message("RESERVE", None)), recv_buf |-> << >>,
     state |-> "Pending", outcome |-> None, emitted_outcome |-> FALSE]

\* try_decode_response; a STATUS without a status counts as Unused.
ReservationDecode(f) ==
    LET seen == Decode(f.recv_buf)
        msg  == FrontOf(f.recv_buf)
        rest == [Done(f) EXCEPT !.recv_buf = RestOf(@)]
    IN  CASE f.state = "Done" \/ seen = "Incomplete" -> Ok(f)
          [] f.state # "Done" /\ seen \in {"MessageTooLarge", "Malformed"} -> Err(Done(f))
          [] f.state # "Done" /\ seen = "Complete" ->
               IF msg.kind # "STATUS" THEN Err(rest)
               ELSE Ok([rest EXCEPT !.outcome = IF msg.body = "Ok" THEN "Accepted" ELSE "Refused",
                                    !.emitted_outcome = FALSE])

ReservationData(f, data) ==
    IF f.state = "Done" THEN Ok(f)
    ELSE ReservationDecode([f EXCEPT !.recv_buf = @ \o data])

ReservationPoll(f) ==
    IF f.outbound # << >> THEN Output(Flushed(f), "Outbound", f.outbound)
    ELSE IF f.outcome # None /\ ~f.emitted_outcome
    THEN Output([Flushed(f) EXCEPT !.emitted_outcome = TRUE], "Outcome", f.outcome)
    ELSE Nothing(Flushed(f))

-----------------------------------------------------------------------------
\* HopConnect

NewConnect(target) ==
    [outbound |-> EncodeFrame(Message("CONNECT", target)), recv_buf |-> << >>,
     state |-> "Pending", outcome |-> None, emitted_outcome |-> FALSE,
     bridge_bytes |-> << >>]

\* try_decode_response: what is behind the STATUS frame is of the bridge.
ConnectDecode(f) ==
    LET seen == Decode(f.recv_buf)
        msg  == FrontOf(f.recv_buf)
        rest == [Done(f) EXCEPT !.recv_buf = RestOf(@), !.emitted_outcome = FALSE]
    IN  CASE f.state = "Done" \/ seen = "Incomplete" -> Ok(f)
          [] f.state # "Done" /\ seen \in {"MessageTooLarge", "Malformed"} -> Err(Done(f))
          [] f.state # "Done" /\ seen = "Complete" /\ msg.kind # "STATUS" -> Err(rest)
          [] f.state # "Done" /\ seen = "Complete" /\ msg.kind = "STATUS" ->
               IF msg.body = "Ok"
               THEN Ok([rest EXCEPT !.outcome = "Bridged", !.recv_buf = << >>,
                                    !.bridge_bytes = @ \o rest.recv_buf])
               ELSE Ok([rest EXCEPT !.outcome = "Refused"])

ConnectData(f, data) ==
    CASE f.state # "Done" -> ConnectDecode([f EXCEPT !.recv_buf = @ \o data])
      [] f.state = "Done" /\ f.outcome = "Bridged" -> Ok([f EXCEPT !.bridge_bytes = @ \o data])
      [] f.state = "Done" /\ f.outcome # "Bridged" -> Ok(f)

ConnectPoll(f) ==
    CASE f.outbound # << >> -> Output(Flushed(f), "Outbound", f.outbound)
      [] f.outbound = << >> /\ f.outcome # None /\ ~f.emitted_outcome ->
           Output([Flushed(f) EXCEPT !.emitted_outcome = TRUE], "Outcome", f.outcome)
      [] f.outbound = << >> /\ (f.outcome = None \/ f.emitted_outcome) /\ f.bridge_bytes # << >> ->
           Output([Flushed(f) EXCEPT !.bridge_bytes = << >>], "BridgeData", f.bridge_bytes)
      [] OTHER -> Nothing(Flushed(f))

-----------------------------------------------------------------------------
\* StopResponder

NewStop ==
    [outbound |-> << >>, recv_buf |-> << >>, state |-> "AwaitingConnect",
     request |-> None, emitted_request |-> FALSE, bridge_bytes |-> << >>]

\* Slip: the frame is not drained.
StopDecodeKeepsFrame(f) ==
    LET seen == Decode(f.recv_buf)
        msg  == FrontOf(f.recv_buf)
        new  == f.state = "AwaitingConnect"
    IN  CASE ~new \/ seen = "Incomplete" -> Ok(f)
          [] new /\ seen \in {"MessageTooLarge", "Malformed"} -> Err(Done(f))
          [] new /\ seen = "Complete" ->
               IF msg.kind # "CONNECT" \/ msg.body = None THEN Err(Done(f))
               ELSE Ok([f EXCEPT !.request = msg.body, !.emitted_request = FALSE,
                                    !.state = "AwaitingDecision"])

\* try_decode_connect: nothing is decoded once the request is there.
StopDecode(f) ==
    LET seen == Decode(f.recv_buf)
        msg  == FrontOf(f.recv_buf)
        rest == [f EXCEPT !.recv_buf = RestOf(@)]
        new  == f.state = "AwaitingConnect"
    IN  CASE ~new \/ seen = "Incomplete" -> Ok(f)
          [] new /\ seen \in {"MessageTooLarge", "Malformed"} -> Err(Done(f))
          [] new /\ seen = "Complete" ->
               IF msg.kind # "CONNECT" \/ msg.body = None THEN Err(Done(rest))
               ELSE Ok([rest EXCEPT !.request = msg.body, !.emitted_request = FALSE,
                                    !.state = "AwaitingDecision"])

\* Slip: the next frame is looked for while the host decides.
StopDataDecodesAgain(f, data) ==
    IF f.state = "AwaitingDecision" /\ Decode(f.recv_buf \o data) = "Malformed"
    THEN Err(Done(f))
    ELSE IF f.state = "Bridged" THEN Ok([f EXCEPT !.bridge_bytes = @ \o data])
    ELSE IF f.state = "Done" THEN Ok(f)
    ELSE StopDecode([f EXCEPT !.recv_buf = @ \o data])

StopData(f, data) ==
    CASE f.state = "Bridged" -> Ok([f EXCEPT !.bridge_bytes = @ \o data])
      [] f.state = "Done" -> Ok(f)
      [] f.state \in {"AwaitingConnect", "AwaitingDecision"} ->
           StopDecode([f EXCEPT !.recv_buf = @ \o data])

\* send_status
SendStatus(f, status, next) ==
    IF f.state # "AwaitingDecision" THEN Err(f)
    ELSE Ok([f EXCEPT !.outbound = @ \o EncodeFrame(Message("STATUS", status)), !.state = next])

\* Slip: bytes received before the decision are not handed to the bridge.
AcceptKeepsBuffer(f) == SendStatus(f, "Ok", "Bridged")

\* accept: what is behind the CONNECT frame is of the bridge.
Accept(f) ==
    LET r == SendStatus(f, "Ok", "Bridged")
    IN  IF ~r.ok THEN r
        ELSE Ok([r.flow EXCEPT !.recv_buf = << >>, !.bridge_bytes = @ \o f.recv_buf])

Reject(f, status) == SendStatus(f, status, "Done")

\* Slip: the request is reported at every poll.
StopPollRepeats(f) ==
    CASE f.request # None /\ f.outbound = << >> /\ f.bridge_bytes = << >> ->
           Output(f, "Request", f.request)
      [] f.outbound # << >> -> Output([f EXCEPT !.outbound = << >>], "Outbound", f.outbound)
      [] f.outbound = << >> /\ f.bridge_bytes # << >> ->
           Output([f EXCEPT !.bridge_bytes = << >>], "BridgeData", f.bridge_bytes)
      [] OTHER -> Nothing(f)

StopPoll(f) ==
    LET told == f.request = None \/ f.emitted_request
    IN  CASE ~told -> Output([f EXCEPT !.emitted_request = TRUE], "Request", f.request)
          [] told /\ f.outbound # << >> ->
               Output([f EXCEPT !.outbound = << >>], "Outbound", f.outbound)
          [] told /\ f.outbound = << >> /\ f.bridge_bytes # << >> ->
               Output([f EXCEPT !.bridge_bytes = << >>], "BridgeData", f.bridge_bytes)
          [] OTHER -> Nothing(f)
=============================================================================
