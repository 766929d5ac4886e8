---------------------------- MODULE AutoNatFlows ----------------------------
(***************************************************************************)
(* crates/autonat/src/lib.rs: AutoNatClient and AutoNatServer as operators  *)
(* on their structs.  Peer ids that do not parse (None) stand for every     *)
(* required field that is missing or wrong.  Addresses are a set, all of    *)
(* them parsable.                                                           *)
(***************************************************************************)
EXTENDS Frames

ClientState == {"Pending", "AwaitingResponse", "Done"}
ServerState == {"AwaitingRequest", "RequestReady", "Done"}

Statuses == {"Ok", "DialError", "DialRefused", "BadRequest", "InternalError"}

Dial(peer, addrs) == Message("DIAL", [peer |-> peer, addrs |-> addrs])
DialResponse(status, addrs) == Message("DIAL_RESPONSE", [status |-> status, addrs |-> addrs])

Reachability(status, addrs) ==
    CASE status = "Ok" -> [kind |-> "Public", addrs |-> addrs]
      [] status \in {"DialError", "DialRefused"} -> [kind |-> "Private", addrs |-> {}]
      [] status \in {"BadRequest", "InternalError"} -> [kind |-> "Unknown", addrs |-> {}]

-----------------------------------------------------------------------------
\* AutoNatClient

NewClient(peer, addrs) ==
    [outbound |-> EncodeFrame(Dial(peer, addrs)), recv_buf |-> << >>, state |-> "Pending",
     outcome |-> None, emitted_outcome |-> FALSE]

\* try_decode_response: unlike the relay's flows it stays open after a message
\* that does not decode, which is drained when it was a whole frame.
ClientDecode(f) ==
    LET seen == Decode(f.recv_buf)
        msg  == FrontOf(f.recv_buf)
        rest == [f EXCEPT !.recv_buf = RestOf(@)]
    IN  CASE seen = "Incomplete" -> Ok(f)
          [] seen = "MessageTooLarge" -> Err(f)
          [] seen = "Malformed" ->
               IF DecodeFrame(f.recv_buf) = "Complete" THEN Err(rest) ELSE Err(f)
          [] seen = "Complete" ->
               CASE msg.kind # "DIAL_RESPONSE" -> Err([rest EXCEPT !.state = "Done"])
                 [] msg.kind = "DIAL_RESPONSE" /\ msg.body = None -> Err(rest)
                 [] msg.kind = "DIAL_RESPONSE" /\ msg.body # None ->
                      Ok([rest EXCEPT !.state = "Done",
                            !.outcome = Reachability(msg.body.status, msg.body.addrs)])

ClientData(f, data) ==
    IF f.state = "Done" THEN Ok(f) ELSE ClientDecode([f EXCEPT !.recv_buf = @ \o data])

ClientPoll(f) ==
    LET g == [f EXCEPT !.outbound = << >>,
                       !.state = IF @ = "Pending" THEN "AwaitingResponse" ELSE @]
    IN  IF f.outbound # << >> THEN Output(g, "Outbound", f.outbound)
        ELSE IF f.outcome # None /\ ~f.emitted_outcome
        THEN Output([g EXCEPT !.emitted_outcome = TRUE], "Outcome", f.outcome)
        ELSE Nothing(g)

-----------------------------------------------------------------------------
\* AutoNatServer

NewServer ==
    [outbound |-> << >>, recv_buf |-> << >>, request |-> None, emitted_request |-> FALSE,
     state |-> "AwaitingRequest"]

\* try_decode_request
ServerDecode(f) ==
    LET seen == Decode(f.recv_buf)
        msg  == FrontOf(f.recv_buf)
        rest == [f EXCEPT !.recv_buf = RestOf(@)]
    IN  CASE seen = "Incomplete" -> Ok(f)
          [] seen = "MessageTooLarge" -> Err(f)
          [] seen = "Malformed" ->
               IF DecodeFrame(f.recv_buf) = "Complete" THEN Err(rest) ELSE Err(f)
          [] seen = "Complete" ->
               CASE msg.kind # "DIAL" -> Err([rest EXCEPT !.state = "Done"])
                 [] msg.kind = "DIAL" /\ msg.body.peer = None -> Err(rest)
                 [] msg.kind = "DIAL" /\ msg.body.peer # None ->
                      Ok([rest EXCEPT !.request = msg.body, !.emitted_request = FALSE,
                                      !.state = "RequestReady"])

ServerData(f, data) ==
    IF f.state # "AwaitingRequest" THEN Ok(f)
    ELSE ServerDecode([f EXCEPT !.recv_buf = @ \o data])

\* respond
Respond(f, status, addrs) ==
    [f EXCEPT !.outbound = EncodeFrame(DialResponse(status, addrs)), !.state = "Done"]

ServerPoll(f) ==
    CASE f.request # None /\ ~f.emitted_request ->
           Output([f EXCEPT !.emitted_request = TRUE], "Request", f.request)
      [] (f.request = None \/ f.emitted_request) /\ f.outbound # << >> ->
           Output([f EXCEPT !.outbound = << >>], "Outbound", f.outbound)
      [] OTHER -> Nothing(f)
=============================================================================
