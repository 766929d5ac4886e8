----------------------------- MODULE DcutrFlows -----------------------------
(***************************************************************************)
(* crates/dcutr/src/lib.rs: DcutrInitiator and DcutrResponder as operators  *)
(* on their structs.  The measured RTT is left out; addresses are a set, of *)
(* which those the other end cannot parse (Unparsable) are dropped.         *)
(*                                                                         *)
(* A definition marked "Slip" repeats the next unmarked one with a          *)
(* plausible mistake.                                                       *)
(***************************************************************************)
EXTENDS Frames

CONSTANT Unparsable  \* observed addresses no Multiaddr can be made of

\* decode_remote_addrs
DecodeRemoteAddrs(raw) == raw \ Unparsable

InitiatorState == {"Pending", "AwaitingConnectReply", "ReadyToSync", "SyncPending", "Done"}
ResponderState == {"AwaitingConnect", "AwaitingSync", "Done"}

Ended(f) == [f EXCEPT !.state = "Done"]

-----------------------------------------------------------------------------
\* DcutrInitiator

NewInitiator(own) ==
    [outbound |-> EncodeFrame(Message("CONNECT", own)), recv_buf |-> << >>,
     state |-> "Pending", outcome |-> None, emitted_outcome |-> FALSE]

\* Slip: the bytes are copied and not taken.
InitiatorFlushedCopies(f) ==
    [f EXCEPT !.state = CASE @ = "Pending" -> "AwaitingConnectReply"
                          [] @ = "SyncPending" -> "Done"
                          [] OTHER -> @]

\* take_outbound
InitiatorFlushed(f) ==
    [f EXCEPT !.outbound = << >>,
              !.state = CASE @ = "Pending" -> "AwaitingConnectReply"
                          [] @ = "SyncPending" -> "Done"
                          [] OTHER -> @]

\* try_decode_reply
InitiatorDecode(f) ==
    LET seen == Decode(f.recv_buf)
        msg  == FrontOf(f.recv_buf)
        rest == [f EXCEPT !.recv_buf = RestOf(@)]
        due  == f.state = "AwaitingConnectReply"
    IN  CASE ~due \/ seen = "Incomplete" -> Ok(f)
          [] due /\ seen \in {"MessageTooLarge", "Malformed"} -> Err(Ended(f))
          [] due /\ seen = "Complete" /\ msg.kind # "CONNECT" -> Err(Ended(rest))
          [] due /\ seen = "Complete" /\ msg.kind = "CONNECT" ->
               Ok([rest EXCEPT !.state = "ReadyToSync", !.emitted_outcome = FALSE,
                               !.outcome = DecodeRemoteAddrs(msg.body)])

InitiatorData(f, data) ==
    IF f.state \in {"Done", "SyncPending"} THEN Ok(f)
    ELSE InitiatorDecode([f EXCEPT !.recv_buf = @ \o data])

\* send_sync
SendSync(f) ==
    IF f.state # "ReadyToSync" THEN Err(f)
    ELSE Ok([f EXCEPT !.outbound = @ \o EncodeFrame(Message("SYNC", {})),
                      !.state = "SyncPending"])

InitiatorPoll(f) ==
    LET g == InitiatorFlushed(f)
    IN  IF f.outbound # << >> THEN Output(g, "Outbound", f.outbound)
        ELSE IF f.outcome # None /\ ~f.emitted_outcome
        THEN Output([g EXCEPT !.emitted_outcome = TRUE], "Outcome", f.outcome)
        ELSE Nothing(g)

-----------------------------------------------------------------------------
\* DcutrResponder

NewResponder(own) ==
    [own_addrs |-> own, outbound |-> << >>, recv_buf |-> << >>,
     state |-> "AwaitingConnect", events |-> << >>]

\* What a frame does, and that the loop goes on.
ResponderTakes(r, msg, rest) ==
    CASE rest.state = "AwaitingConnect" /\ msg.kind = "CONNECT" ->
           [r EXCEPT !.flow = [rest EXCEPT
              !.outbound = @ \o EncodeFrame(Message("CONNECT", rest.own_addrs)),
              !.events = Append(@, Message("ConnectReceived", DecodeRemoteAddrs(msg.body))),
              !.state = "AwaitingSync"]]
      [] rest.state = "AwaitingSync" /\ msg.kind = "SYNC" ->
           [r EXCEPT !.flow = [rest EXCEPT
              !.events = Append(@, Message("SyncReceived", {})), !.state = "Done"]]
      [] OTHER -> [flow |-> Ended(rest), ok |-> FALSE, more |-> FALSE]

\* One round of the loop in try_decode: [flow, ok, more].
ResponderRound(r) ==
    LET f    == r.flow
        seen == Decode(f.recv_buf)
        rest == [f EXCEPT !.recv_buf = RestOf(@)]
    IN  CASE ~r.more -> r
          [] r.more /\ (f.state = "Done" \/ seen = "Incomplete") ->
               [flow |-> f, ok |-> TRUE, more |-> FALSE]
          [] r.more /\ f.state # "Done" /\ seen \in {"MessageTooLarge", "Malformed"} ->
               [flow |-> Ended(f), ok |-> FALSE, more |-> FALSE]
          [] r.more /\ f.state # "Done" /\ seen = "Complete" ->
               ResponderTakes(r, FrontOf(f.recv_buf), rest)

\* Slip: nothing may follow SYNC.
ResponderDecodeStrict(f) ==
    LET r == ResponderRound(ResponderRound(ResponderRound(
               [flow |-> f, ok |-> TRUE, more |-> TRUE])))
    IN  [flow |-> r.flow, ok |-> r.ok /\ (r.flow.state = "Done" => r.flow.recv_buf = << >>)]

\* Slip: one frame per call.
ResponderDecodeOnce(f) ==
    LET r == ResponderRound([flow |-> f, ok |-> TRUE, more |-> TRUE])
    IN  [flow |-> r.flow, ok |-> r.ok]

\* try_decode: two frames end the flow, so a third round changes nothing.
ResponderDecode(f) ==
    LET r == ResponderRound(ResponderRound(ResponderRound(
               [flow |-> f, ok |-> TRUE, more |-> TRUE])))
    IN  [flow |-> r.flow, ok |-> r.ok]

ResponderData(f, data) ==
    IF f.state = "Done" THEN Ok(f) ELSE ResponderDecode([f EXCEPT !.recv_buf = @ \o data])

ResponderPoll(f) ==
    CASE f.outbound # << >> -> Output([f EXCEPT !.outbound = << >>], "Outbound", f.outbound)
      [] f.outbound = << >> /\ f.events # << >> ->
           Output([f EXCEPT !.events = Tail(@)], "Event", Head(f.events))
      [] OTHER -> Nothing(f)
=============================================================================
