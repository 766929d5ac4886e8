----------------------------- MODULE PingProofs -----------------------------
(***************************************************************************)
(* The safety invariants of Ping hold for every set of peers, streams and  *)
(* payloads, every payload length, timeout and queue bound.                *)
(*                                                                         *)
(* All of them are facts about one peer's state st and the report w of its *)
(* streams, so the induction is over PeerOK(st, w): one lemma per handler  *)
(* says that the handler keeps it, and the theorem adds that an action     *)
(* changes the one peer it is about.                                       *)
(***************************************************************************)
EXTENDS Ping, FiniteSetTheorems, SequenceTheorems, TLAPS

PeerOK(st, w) ==
    /\ st \in PeerPingState
    /\ w \in [StreamIds -> WireStates]
    /\ InFlight(st) => st.outbound_stream # None
    /\ \A s \in StreamIds :
         /\ st.outbound_stream = s => w[s] = "outbound"
         /\ s \in st.inbound_streams => w[s] = "inbound"
         /\ st.recv_bufs[s] > 0 => IsKnown(st, s)
    /\ IsFiniteSet(st.inbound_streams)
    /\ Cardinality(st.inbound_streams) <= InboundLimit
    /\ st.tracked \/ (st.outbound_stream = None /\ st.inbound_streams = {})

\* What a handler may return for peer p when w reports its streams.
ResultOK(r, w) ==
    /\ PeerOK(r.st, w)
    /\ r.actions \in Seq(PingAction)
    /\ r.events \in Seq(PingEvent)

IInv ==
    /\ TypeOK
    /\ \A p \in PeerIds : PeerOK(peers[p], wire[p])

-----------------------------------------------------------------------------

\* The entry of an unknown peer, on a connection that has used no stream.
LEMMA AbsentOK == PeerOK(Absent, IdleWire)
<1>1. 0 \in 0 .. PayloadLen - 1
  BY PayloadLenAssumption
<1>2. IsFiniteSet({}) /\ Cardinality({}) = 0
  BY FS_EmptySet
<1> QED
  BY <1>1, <1>2, StreamIdsAssumption
  DEF PeerOK, Absent, IdleWire, PeerPingState, WireStates, InFlight, IsKnown, InboundLimit

\* register_outbound_stream keeps the invariant.
LEMMA RegisterOutboundOK ==
  ASSUME NEW st, NEW w, NEW p \in PeerIds, NEW s \in StreamIds,
         PeerOK(st, w), w[s] = "idle"
  PROVE  ResultOK(RegisterOutboundStream(st, p, s), [w EXCEPT ![s] = "outbound"])
<1> DEFINE w2 == [w EXCEPT ![s] = "outbound"]
<1>1. s # None /\ st.outbound_stream # s /\ s \notin st.inbound_streams
  BY StreamIdsAssumption DEF PeerOK
<1>2. Msg("OutboundStreamRegistered", p, s) \in PingEvent
  BY DEF Msg, PingEvent, EventKinds
<1>3. CASE st.outbound_stream = None
  <2> DEFINE st2 == [st EXCEPT !.tracked = TRUE, !.outbound_stream = s]
  <2>1. RegisterOutboundStream(st, p, s) =
          Done(st2, << >>, <<Msg("OutboundStreamRegistered", p, s)>>)
    BY <1>3 DEF RegisterOutboundStream
  <2>2. st2 \in PeerPingState
    BY DEF PeerOK, PeerPingState
  <2>3. /\ st2.tracked = TRUE
        /\ st2.outbound_stream = s
        /\ st2.inbound_streams = st.inbound_streams
        /\ st2.pending_ping = st.pending_ping
        /\ st2.recv_bufs = st.recv_bufs
    BY DEF PeerOK, PeerPingState
  <2>4. PeerOK(st2, w2)
    <3> HIDE DEF st2
    <3>1. w2 \in [StreamIds -> WireStates]
      BY DEF PeerOK, WireStates
    <3>2. ASSUME NEW t \in StreamIds
          PROVE  /\ st2.outbound_stream = t => w2[t] = "outbound"
                 /\ t \in st2.inbound_streams => w2[t] = "inbound"
                 /\ st2.recv_bufs[t] > 0 => IsKnown(st2, t)
      BY <1>1, <1>3, <2>3, StreamIdsAssumption DEF PeerOK, IsKnown
    <3> QED
      BY <1>1, <2>2, <2>3, <3>1, <3>2 DEF PeerOK, InFlight
  <2> QED
    BY <2>1, <2>4, <1>2 DEF ResultOK, Done
<1>4. CASE st.outbound_stream # None
  <2>1. RegisterOutboundStream(st, p, s) = Refused(st)
    BY <1>1, <1>4 DEF RegisterOutboundStream
  <2>2. PeerOK(st, w2)
    BY <1>1 DEF PeerOK, PeerPingState, WireStates, InFlight, IsKnown
  <2> QED
    BY <2>1, <2>2 DEF ResultOK, Refused
<1> QED
  BY <1>3, <1>4

\* register_inbound_stream keeps the invariant, the limit included.
LEMMA RegisterInboundOK ==
  ASSUME NEW st, NEW w, NEW p \in PeerIds, NEW s \in StreamIds,
         PeerOK(st, w), w[s] = "idle"
  PROVE  ResultOK(RegisterInboundStream(st, p, s), [w EXCEPT ![s] = "inbound"])
<1> DEFINE w2 == [w EXCEPT ![s] = "inbound"]
<1>1. s # None /\ st.outbound_stream # s /\ s \notin st.inbound_streams
  BY StreamIdsAssumption DEF PeerOK
<1>2. /\ Msg("StreamLimitExceeded", p, s) \in PingEvent
      /\ Msg("InboundStreamAccepted", p, s) \in PingEvent
      /\ Msg("ResetStream", p, s) \in PingAction
  BY DEF Msg, PingEvent, EventKinds, PingAction, ActionKinds
<1>3. w2 \in [StreamIds -> WireStates]
  BY DEF PeerOK, WireStates
<1>4. CASE Cardinality(st.inbound_streams) >= InboundLimit
  <2>1. RegisterInboundStream(st, p, s) =
          Done(st, <<Msg("ResetStream", p, s)>>, <<Msg("StreamLimitExceeded", p, s)>>)
    BY <1>1, <1>4 DEF RegisterInboundStream
  <2>2. PeerOK(st, w2)
    BY <1>1, <1>3 DEF PeerOK
  <2> QED
    BY <2>1, <2>2, <1>2 DEF ResultOK, Done
<1>5. CASE ~(Cardinality(st.inbound_streams) >= InboundLimit)
  <2> DEFINE st2 == [st EXCEPT !.tracked = TRUE, !.inbound_streams = @ \cup {s}]
  <2>1. RegisterInboundStream(st, p, s) =
          Done(st2, << >>, <<Msg("InboundStreamAccepted", p, s)>>)
    BY <1>1, <1>5 DEF RegisterInboundStream
  <2>2. st2 \in PeerPingState
    BY DEF PeerOK, PeerPingState
  <2>3. /\ st2.tracked = TRUE
        /\ st2.outbound_stream = st.outbound_stream
        /\ st2.inbound_streams = st.inbound_streams \cup {s}
        /\ st2.pending_ping = st.pending_ping
        /\ st2.recv_bufs = st.recv_bufs
    BY DEF PeerOK, PeerPingState
  <2> HIDE DEF st2
  <2>4. /\ IsFiniteSet(st2.inbound_streams)
        /\ Cardinality(st2.inbound_streams) = Cardinality(st.inbound_streams) + 1
        /\ Cardinality(st.inbound_streams) \in Nat
    BY <1>1, <2>3, FS_AddElement, FS_CardinalityType DEF PeerOK
  <2>5. ASSUME NEW t \in StreamIds
        PROVE  /\ st2.outbound_stream = t => w2[t] = "outbound"
               /\ t \in st2.inbound_streams => w2[t] = "inbound"
               /\ st2.recv_bufs[t] > 0 => IsKnown(st2, t)
    BY <1>1, <2>3 DEF PeerOK, IsKnown
  <2>6. Cardinality(st2.inbound_streams) <= InboundLimit
    BY <1>5, <2>4 DEF InboundLimit
  <2>7. PeerOK(st2, w2)
    BY <1>3, <2>2, <2>3, <2>4, <2>5, <2>6 DEF PeerOK, InFlight
  <2> QED
    BY <2>1, <2>7, <1>2 DEF ResultOK, Done
<1> QED
  BY <1>4, <1>5

\* The other handlers only give up streams: such a change keeps the invariant.
LEMMA ShrinkOK ==
  ASSUME NEW st, NEW w, PeerOK(st, w),
         NEW st2 \in PeerPingState, NEW w2 \in [StreamIds -> WireStates],
         st2.tracked = st.tracked,
         st2.outbound_stream \in {st.outbound_stream, None},
         st2.inbound_streams \subseteq st.inbound_streams,
         InFlight(st2) => st2.outbound_stream # None,
         \A t \in StreamIds : /\ w2[t] = w[t] \/ ~IsKnown(st2, t)
                              /\ st2.recv_bufs[t] > 0 => IsKnown(st2, t)
  PROVE  PeerOK(st2, w2)
<1>1. /\ IsFiniteSet(st2.inbound_streams)
      /\ Cardinality(st2.inbound_streams) <= InboundLimit
  <2>1. /\ IsFiniteSet(st2.inbound_streams)
        /\ Cardinality(st2.inbound_streams) <= Cardinality(st.inbound_streams)
    BY FS_Subset DEF PeerOK
  <2>2. Cardinality(st2.inbound_streams) \in Nat /\ Cardinality(st.inbound_streams) \in Nat
    BY <2>1, FS_CardinalityType DEF PeerOK
  <2>3. Cardinality(st.inbound_streams) <= InboundLimit
    BY DEF PeerOK
  <2> QED
    BY <2>1, <2>2, <2>3 DEF InboundLimit
<1>2. ASSUME NEW t \in StreamIds
      PROVE  /\ st2.outbound_stream = t => w2[t] = "outbound"
             /\ t \in st2.inbound_streams => w2[t] = "inbound"
  BY StreamIdsAssumption DEF PeerOK, IsKnown
<1> QED
  BY <1>1, <1>2 DEF PeerOK

\* send_ping and close_outbound_stream_write keep the invariant.
LEMMA SendPingOK ==
  ASSUME NEW st, NEW w, NEW p \in PeerIds, NEW payload \in Payloads, PeerOK(st, w)
  PROVE  ResultOK(SendPing(st, p, payload), w)
<1>1. CASE st.outbound_stream = None \/ InFlight(st)
  BY <1>1 DEF SendPing, ResultOK, Refused
<1>2. CASE st.outbound_stream # None /\ ~InFlight(st)
  <2> DEFINE st2 == [st EXCEPT !.pending_ping = [payload |-> payload, age |-> 0]]
  <2>1. SendPing(st, p, payload) = Done(st2, <<Msg("Send", p, st.outbound_stream)>>, << >>)
    BY <1>2 DEF SendPing
  <2>2. [payload |-> payload, age |-> 0] \in PendingPing
    BY RequestTimeoutAssumption DEF PendingPing, AgeCap
  <2>3. st2 \in PeerPingState
    BY <2>2 DEF PeerOK, PeerPingState
  <2>4. /\ st2.tracked = st.tracked
        /\ st2.outbound_stream = st.outbound_stream
        /\ st2.inbound_streams = st.inbound_streams
        /\ st2.recv_bufs = st.recv_bufs
    BY DEF PeerOK, PeerPingState
  <2>5. Msg("Send", p, st.outbound_stream) \in PingAction
    BY <1>2 DEF PeerOK, PeerPingState, Msg, PingAction, ActionKinds
  <2> HIDE DEF st2
  <2>6. PeerOK(st2, w)
    BY <1>2, <2>3, <2>4, ShrinkOK DEF PeerOK, IsKnown
  <2> QED
    BY <2>1, <2>5, <2>6 DEF ResultOK, Done
<1> QED
  BY <1>1, <1>2

\* close_outbound_stream_write changes no state and asks for one action.
LEMMA CloseWriteOK ==
  ASSUME NEW st, NEW w, NEW p \in PeerIds, PeerOK(st, w)
  PROVE  ResultOK(CloseOutboundStreamWrite(st, p), w)
<1>1. CASE st.outbound_stream = None \/ InFlight(st)
  BY <1>1 DEF CloseOutboundStreamWrite, ResultOK, Refused
<1>2. CASE st.outbound_stream # None /\ ~InFlight(st)
  <2>1. Msg("CloseStreamWrite", p, st.outbound_stream) \in PingAction
    BY <1>2 DEF PeerOK, PeerPingState, Msg, PingAction, ActionKinds
  <2> QED
    BY <1>2, <2>1 DEF CloseOutboundStreamWrite, ResultOK, Done
<1> QED
  BY <1>1, <1>2

\* Emptying a buffer keeps the invariant.
LEMMA EmptiedOK ==
  ASSUME NEW st, NEW w, NEW s \in StreamIds, PeerOK(st, w)
  PROVE  LET emptied == [st EXCEPT !.recv_bufs = [@ EXCEPT ![s] = 0]]
         IN  /\ PeerOK(emptied, w)
             /\ emptied.tracked = st.tracked
             /\ emptied.outbound_stream = st.outbound_stream
             /\ emptied.inbound_streams = st.inbound_streams
             /\ emptied.pending_ping = st.pending_ping
<1> DEFINE emptied == [st EXCEPT !.recv_bufs = [@ EXCEPT ![s] = 0]]
<1>1. emptied \in PeerPingState
  BY PayloadLenAssumption DEF PeerOK, PeerPingState
<1>2. /\ emptied.tracked = st.tracked
      /\ emptied.outbound_stream = st.outbound_stream
      /\ emptied.inbound_streams = st.inbound_streams
      /\ emptied.pending_ping = st.pending_ping
      /\ emptied.recv_bufs = [st.recv_bufs EXCEPT ![s] = 0]
  BY DEF PeerOK, PeerPingState
<1>3. st.recv_bufs \in [StreamIds -> 0 .. PayloadLen - 1]
  BY DEF PeerOK, PeerPingState
<1> HIDE DEF emptied
<1>4. \A t \in StreamIds : emptied.recv_bufs[t] > 0 => IsKnown(emptied, t)
  BY <1>2, <1>3 DEF PeerOK, IsKnown
<1>5. PeerOK(emptied, w)
  BY <1>1, <1>2, <1>4, ShrinkOK DEF PeerOK, InFlight
<1> QED
  BY <1>2, <1>5 DEF emptied

\* Forgetting the request keeps the invariant.
LEMMA TakenOK ==
  ASSUME NEW st, NEW w, PeerOK(st, w)
  PROVE  PeerOK([st EXCEPT !.pending_ping = None], w)
<1> DEFINE taken == [st EXCEPT !.pending_ping = None]
<1>1. taken \in PeerPingState
  BY DEF PeerOK, PeerPingState
<1>2. /\ taken.tracked = st.tracked
      /\ taken.outbound_stream = st.outbound_stream
      /\ taken.inbound_streams = st.inbound_streams
      /\ taken.recv_bufs = st.recv_bufs
      /\ taken.pending_ping = None
  BY DEF PeerOK, PeerPingState
<1> HIDE DEF taken
<1>3. PeerOK(taken, w)
  BY <1>1, <1>2, ShrinkOK DEF PeerOK, InFlight, IsKnown
<1> QED
  BY <1>3 DEF taken

\* protocol_violation queues well-typed outputs.
LEMMA ViolationOK ==
  ASSUME NEW st, NEW w, NEW p \in PeerIds, NEW s \in StreamIds, PeerOK(st, w)
  PROVE  ResultOK(Violation(st, p, s), w)
<1>1. Msg("ResetStream", p, s) \in PingAction /\ Msg("ProtocolViolation", p, s) \in PingEvent
  BY DEF Msg, PingEvent, EventKinds, PingAction, ActionKinds
<1> QED
  BY <1>1 DEF ResultOK, Violation, Done

\* process_complete_payload keeps the invariant.
LEMMA ProcessOK ==
  ASSUME NEW st, NEW w, NEW p \in PeerIds, NEW s \in StreamIds, NEW payload,
         PeerOK(st, w)
  PROVE  ResultOK(ProcessCompletePayload(st, p, s, payload), w)
<1> DEFINE taken == [st EXCEPT !.pending_ping = None]
<1>1. Msg("RttMeasured", p, s) \in PingEvent /\ Msg("Send", p, s) \in PingAction
  BY DEF Msg, PingEvent, EventKinds, PingAction, ActionKinds
<1>2. PeerOK(taken, w)
  BY TakenOK
<1>3. ResultOK(Violation(taken, p, s), w)
  BY <1>2, ViolationOK
<1>4. ResultOK(Done(taken, << >>, <<Msg("RttMeasured", p, s)>>), w)
  BY <1>1, <1>2 DEF ResultOK, Done
<1>5. ResultOK(Done(st, <<Msg("Send", p, s)>>, << >>), w)
  BY <1>1 DEF ResultOK, Done
<1> QED
  BY <1>3, <1>4, <1>5 DEF ProcessCompletePayload

\* on_stream_data keeps the invariant: only a known stream gets a buffer.
LEMMA StreamDataOK ==
  ASSUME NEW st, NEW w, NEW p \in PeerIds, NEW s \in StreamIds,
         NEW len \in Nat, NEW payload, PeerOK(st, w)
  PROVE  ResultOK(OnStreamData(st, p, s, len, payload), w)
<1> DEFINE buf == st.recv_bufs[s] + len
           emptied == [st EXCEPT !.recv_bufs = [@ EXCEPT ![s] = 0]]
           filled == [st EXCEPT !.recv_bufs = [@ EXCEPT ![s] = buf]]
<1>1. ResultOK(Violation(st, p, s), w)
  BY ViolationOK
<1>2. PeerOK(emptied, w)
  BY EmptiedOK
<1>3. ResultOK(Violation(emptied, p, s), w) /\ ResultOK(ProcessCompletePayload(emptied, p, s, payload), w)
  BY <1>2, ViolationOK, ProcessOK
<1>4. ASSUME IsKnown(st, s), buf < PayloadLen
      PROVE  ResultOK(Quiet(filled), w)
  <2>1. st.recv_bufs \in [StreamIds -> 0 .. PayloadLen - 1]
    BY DEF PeerOK, PeerPingState
  <2>2. buf \in 0 .. PayloadLen - 1
    BY <1>4, <2>1, PayloadLenAssumption
  <2> HIDE DEF buf
  <2>3. filled \in PeerPingState
    BY <2>2 DEF PeerOK, PeerPingState
  <2>4. /\ filled.tracked = st.tracked
        /\ filled.outbound_stream = st.outbound_stream
        /\ filled.inbound_streams = st.inbound_streams
        /\ filled.pending_ping = st.pending_ping
        /\ filled.recv_bufs = [st.recv_bufs EXCEPT ![s] = buf]
    BY DEF PeerOK, PeerPingState
  <2> HIDE DEF filled
  <2>5. \A t \in StreamIds : filled.recv_bufs[t] > 0 => IsKnown(filled, t)
    BY <1>4, <2>1, <2>4 DEF PeerOK, IsKnown
  <2>6. PeerOK(filled, w)
    BY <2>3, <2>4, <2>5, ShrinkOK DEF PeerOK, InFlight
  <2> QED
    BY <2>6 DEF ResultOK, Quiet, Done
<1> HIDE DEF emptied, filled
<1>5. OnStreamData(st, p, s, len, payload) =
        IF ~IsKnown(st, s) THEN Violation(st, p, s)
        ELSE IF buf > PayloadLen THEN Violation(emptied, p, s)
        ELSE IF buf < PayloadLen THEN Quiet(filled)
        ELSE ProcessCompletePayload(emptied, p, s, payload)
  BY DEF OnStreamData, emptied, filled
<1> HIDE DEF buf
<1> QED
  BY <1>1, <1>3, <1>4, <1>5

\* on_stream_remote_write_closed keeps the invariant; nothing of s is left.
LEMMA RemoteWriteClosedOK ==
  ASSUME NEW st, NEW w, NEW p \in PeerIds, NEW s \in StreamIds,
         PeerOK(st, w), w[s] \in {"outbound", "inbound"}
  PROVE  ResultOK(OnStreamRemoteWriteClosed(st, p, s), [w EXCEPT ![s] = "half"])
<1> DEFINE w2 == [w EXCEPT ![s] = "half"]
           bufs == [st.recv_bufs EXCEPT ![s] = 0]
           served == [st EXCEPT !.inbound_streams = @ \ {s}, !.recv_bufs = bufs]
           cleared == [st EXCEPT !.outbound_stream = None, !.pending_ping = None,
                                 !.recv_bufs = bufs]
<1>1. w2 \in [StreamIds -> WireStates]
  BY DEF PeerOK, WireStates
<1>2. /\ st.recv_bufs \in [StreamIds -> 0 .. PayloadLen - 1]
      /\ bufs \in [StreamIds -> 0 .. PayloadLen - 1]
  BY PayloadLenAssumption DEF PeerOK, PeerPingState
<1>3. ~(st.outbound_stream = s /\ s \in st.inbound_streams)
  BY DEF PeerOK
<1>4. ASSUME s \in st.inbound_streams
      PROVE  ResultOK(Quiet(served), w2)
  <2>1. served \in PeerPingState
    BY <1>2 DEF PeerOK, PeerPingState
  <2>2. /\ served.tracked = st.tracked
        /\ served.outbound_stream = st.outbound_stream
        /\ served.inbound_streams = st.inbound_streams \ {s}
        /\ served.pending_ping = st.pending_ping
        /\ served.recv_bufs = bufs
    BY DEF PeerOK, PeerPingState
  <2> HIDE DEF served
  <2>3. \A t \in StreamIds : /\ w2[t] = w[t] \/ ~IsKnown(served, t)
                             /\ served.recv_bufs[t] > 0 => IsKnown(served, t)
    BY <1>2, <1>3, <1>4, <2>2 DEF PeerOK, IsKnown
  <2>4. /\ InFlight(served) => served.outbound_stream # None
        /\ served.inbound_streams \subseteq st.inbound_streams
    BY <2>2 DEF PeerOK, InFlight
  <2> HIDE DEF w2
  <2>5. PeerOK(served, w2)
    BY <1>1, <2>1, <2>2, <2>3, <2>4, ShrinkOK
  <2> QED
    BY <2>5 DEF ResultOK, Quiet, Done
<1>5. ASSUME st.outbound_stream = s, s \notin st.inbound_streams
      PROVE  PeerOK(cleared, w2)
  <2>1. cleared \in PeerPingState
    BY <1>2 DEF PeerOK, PeerPingState
  <2>2. /\ cleared.tracked = st.tracked
        /\ cleared.outbound_stream = None
        /\ cleared.inbound_streams = st.inbound_streams
        /\ cleared.pending_ping = None
        /\ cleared.recv_bufs = bufs
    BY DEF PeerOK, PeerPingState
  <2> HIDE DEF cleared
  <2>3. \A t \in StreamIds : /\ w2[t] = w[t] \/ ~IsKnown(cleared, t)
                             /\ cleared.recv_bufs[t] > 0 => IsKnown(cleared, t)
    BY <1>2, <1>5, <2>2, StreamIdsAssumption DEF PeerOK, IsKnown
  <2> HIDE DEF w2
  <2> QED
    BY <1>1, <2>1, <2>2, <2>3, ShrinkOK DEF InFlight
<1>6. ASSUME st.outbound_stream # s, s \notin st.inbound_streams
      PROVE  ResultOK(Quiet(st), w2)
  <2>1. \A t \in StreamIds : w2[t] = w[t] \/ ~IsKnown(st, t)
    BY <1>6 DEF PeerOK, IsKnown
  <2> HIDE DEF w2
  <2>2. PeerOK(st, w2)
    BY <1>1, <2>1, ShrinkOK DEF PeerOK
  <2> QED
    BY <2>2 DEF ResultOK, Quiet, Done
<1>7. Msg("OutboundStreamClosed", p, s) \in PingEvent
  BY DEF Msg, PingEvent, EventKinds
<1> HIDE DEF served, cleared, w2
<1>8. ASSUME st.outbound_stream = s, s \notin st.inbound_streams
      PROVE  /\ ResultOK(Violation(cleared, p, s), w2)
             /\ ResultOK(Done(cleared, << >>, <<Msg("OutboundStreamClosed", p, s)>>), w2)
  BY <1>5, <1>7, <1>8, ViolationOK DEF ResultOK, Done
<1>9. OnStreamRemoteWriteClosed(st, p, s) =
        IF s \in st.inbound_streams THEN Quiet(served)
        ELSE IF st.outbound_stream # s THEN Quiet(st)
        ELSE IF InFlight(st) THEN Violation(cleared, p, s)
        ELSE Done(cleared, << >>, <<Msg("OutboundStreamClosed", p, s)>>)
  BY DEF OnStreamRemoteWriteClosed, served, cleared
<1>10. ResultOK(OnStreamRemoteWriteClosed(st, p, s), w2)
  BY <1>4, <1>6, <1>8, <1>9
<1> QED
  BY <1>10 DEF w2

\* on_stream_closed keeps the invariant; nothing of s is left.
LEMMA StreamClosedOK ==
  ASSUME NEW st, NEW w, NEW s \in StreamIds, PeerOK(st, w)
  PROVE  ResultOK(OnStreamClosed(st, s), [w EXCEPT ![s] = "closed"])
<1> DEFINE w2 == [w EXCEPT ![s] = "closed"]
           st2 == [st EXCEPT
                     !.inbound_streams = @ \ {s},
                     !.recv_bufs       = [@ EXCEPT ![s] = 0],
                     !.outbound_stream = IF @ = s THEN None ELSE @,
                     !.pending_ping    = IF st.outbound_stream = s THEN None ELSE @]
<1>1. w2 \in [StreamIds -> WireStates]
  BY DEF PeerOK, WireStates
<1>2. /\ st.recv_bufs \in [StreamIds -> 0 .. PayloadLen - 1]
      /\ [st.recv_bufs EXCEPT ![s] = 0] \in [StreamIds -> 0 .. PayloadLen - 1]
  BY PayloadLenAssumption DEF PeerOK, PeerPingState
<1>3. st2 \in PeerPingState
  BY <1>2 DEF PeerOK, PeerPingState
<1>4. /\ st2.tracked = st.tracked
      /\ st2.outbound_stream = IF st.outbound_stream = s THEN None ELSE st.outbound_stream
      /\ st2.inbound_streams = st.inbound_streams \ {s}
      /\ st2.pending_ping = IF st.outbound_stream = s THEN None ELSE st.pending_ping
      /\ st2.recv_bufs = [st.recv_bufs EXCEPT ![s] = 0]
  BY DEF PeerOK, PeerPingState
<1>5. OnStreamClosed(st, s) = Quiet(st2)
  BY DEF OnStreamClosed
<1> HIDE DEF st2
<1>6. \A t \in StreamIds : /\ w2[t] = w[t] \/ ~IsKnown(st2, t)
                           /\ st2.recv_bufs[t] > 0 => IsKnown(st2, t)
  BY <1>2, <1>4, StreamIdsAssumption DEF PeerOK, IsKnown
<1>7. InFlight(st2) => st2.outbound_stream # None
  BY <1>4 DEF PeerOK, InFlight
<1> HIDE DEF w2
<1>8. /\ st2.tracked = st.tracked
      /\ st2.outbound_stream \in {st.outbound_stream, None}
      /\ st2.inbound_streams \subseteq st.inbound_streams
  BY <1>4
<1>9. PeerOK(st2, w2)
  BY <1>1, <1>3, <1>6, <1>7, <1>8, ShrinkOK
<1> QED
  BY <1>5, <1>9 DEF ResultOK, Quiet, Done, w2

\* on_tick keeps the invariant for a peer whose request expired.
LEMMA TickOK ==
  ASSUME NEW st, NEW w, NEW p, PeerOK(st, w), Expired(st)
  PROVE  PeerOK(OnTick(st, p).st, w)
<1> DEFINE s == st.outbound_stream
           st2 == [st EXCEPT !.outbound_stream = None,
                             !.pending_ping    = None,
                             !.recv_bufs       = [@ EXCEPT ![s] = 0]]
<1>1. s \in StreamIds
  BY DEF PeerOK, PeerPingState, Expired
<1>2. /\ st.recv_bufs \in [StreamIds -> 0 .. PayloadLen - 1]
      /\ [st.recv_bufs EXCEPT ![s] = 0] \in [StreamIds -> 0 .. PayloadLen - 1]
  BY <1>1, PayloadLenAssumption DEF PeerOK, PeerPingState
<1>3. st2 \in PeerPingState
  BY <1>2 DEF PeerOK, PeerPingState
<1>4. /\ st2.tracked = st.tracked
      /\ st2.outbound_stream = None
      /\ st2.inbound_streams = st.inbound_streams
      /\ st2.pending_ping = None
      /\ st2.recv_bufs = [st.recv_bufs EXCEPT ![s] = 0]
  BY DEF PeerOK, PeerPingState
<1>5. OnTick(st, p).st = st2
  BY DEF OnTick, Done
<1> HIDE DEF st2
<1>6. \A t \in StreamIds : st2.recv_bufs[t] > 0 => IsKnown(st2, t)
  BY <1>1, <1>2, <1>4 DEF PeerOK, IsKnown
<1>7. ~InFlight(st2) /\ w \in [StreamIds -> WireStates]
  BY <1>4 DEF InFlight, PeerOK
<1>8. PeerOK(st2, w)
  BY <1>3, <1>4, <1>6, <1>7, ShrinkOK
<1> QED
  BY <1>5, <1>8

\* The passing of time keeps the invariant.
LEMMA OlderOK ==
  ASSUME NEW st, NEW w, PeerOK(st, w)
  PROVE  PeerOK(Older(st), w)
<1>1. CASE ~(InFlight(st) /\ st.pending_ping.age < AgeCap)
  BY <1>1 DEF Older
<1>2. CASE InFlight(st) /\ st.pending_ping.age < AgeCap
  <2> DEFINE pend == [payload |-> st.pending_ping.payload, age |-> st.pending_ping.age + 1]
             st2 == [st EXCEPT !.pending_ping = pend]
  <2>1. st.pending_ping \in PendingPing
    BY <1>2 DEF PeerOK, PeerPingState, InFlight
  <2>2. pend \in PendingPing
    BY <1>2, <2>1, RequestTimeoutAssumption DEF PendingPing, AgeCap
  <2>3. Older(st) = st2
    BY <1>2 DEF Older
  <2> HIDE DEF pend
  <2>4. st2 \in PeerPingState
    BY <2>2 DEF PeerOK, PeerPingState
  <2>5. /\ st2.tracked = st.tracked
        /\ st2.outbound_stream = st.outbound_stream
        /\ st2.inbound_streams = st.inbound_streams
        /\ st2.recv_bufs = st.recv_bufs
    BY DEF PeerOK, PeerPingState
  <2> HIDE DEF st2
  <2>6. PeerOK(st2, w)
    BY <1>2, <2>4, <2>5, ShrinkOK DEF PeerOK, IsKnown
  <2> QED
    BY <2>3, <2>6
<1> QED
  BY <1>1, <1>2
-----------------------------------------------------------------------------

\* handle_input: an action that applies a good result to peer p and reports w
\* of its streams keeps the invariant of all peers.
LEMMA ApplyOK ==
  ASSUME IInv, NEW p \in PeerIds, NEW r, NEW w,
         ResultOK(r, w), Apply(p, r), wire' = [wire EXCEPT ![p] = w]
  PROVE  IInv'
<1>1. r.st \in PeerPingState /\ w \in [StreamIds -> WireStates]
  BY DEF ResultOK, PeerOK
<1>2. peers' = [peers EXCEPT ![p] = r.st]
  BY DEF Apply
<1>3. TypeOK'
  <2>1. /\ pending_actions' \in Seq(PingAction)
        /\ pending_events' \in Seq(PingEvent)
    BY DEF IInv, TypeOK, ResultOK, Apply
  <2> QED
    BY <1>1, <1>2, <2>1 DEF IInv, TypeOK
<1>4. ASSUME NEW q \in PeerIds
      PROVE  PeerOK(peers'[q], wire'[q])
  BY <1>1, <1>2 DEF IInv, TypeOK, ResultOK
<1> QED
  BY <1>3, <1>4 DEF IInv

\* on_tick: the queued outputs are well typed, for any order of the peers.
LEMMA TickTypes ==
  ASSUME TypeOK, NEW order \in Orders({p \in PeerIds : Expired(peers[p])})
  PROVE  /\ TickActions(peers, order) \in Seq(PingAction)
         /\ TickEvents(peers, order) \in Seq(PingEvent)
<1> DEFINE S == {p \in PeerIds : Expired(peers[p])}
           n == Cardinality(S)
<1>1. IsFiniteSet(S)
  BY PeerIdsAssumption, FS_Subset
<1>2. n \in Nat
  BY <1>1, FS_CardinalityType
<1> HIDE DEF n
<1>3. order \in [1 .. n -> S]
  BY DEF Orders, n
<1>4. order \in Seq(S) /\ Len(order) = n
  BY <1>2, <1>3
<1>5. \A p \in S : p \in PeerIds /\ peers[p].outbound_stream \in StreamIds
  BY DEF Expired, TypeOK, PeerPingState
<1>6. \A i \in 1 .. n :
        Msg("ResetStream", order[i], peers[order[i]].outbound_stream) \in PingAction
  BY <1>3, <1>5 DEF Msg, PingAction, ActionKinds
<1>7. TickActions(peers, order) \in Seq(PingAction)
  BY <1>2, <1>4, <1>6 DEF TickActions
<1>8. \A i \in 1 .. 2 * n : (i + 1) \div 2 \in 1 .. n
  BY <1>2
<1>9. \A i \in 1 .. 2 * n :
        LET p == order[(i + 1) \div 2]
        IN  Msg(IF i % 2 = 1 THEN "Timeout" ELSE "OutboundStreamClosed",
                p, peers[p].outbound_stream) \in PingEvent
  <2> TAKE i \in 1 .. 2 * n
  <2> DEFINE p == order[(i + 1) \div 2]
  <2>1. p \in S
    BY <1>3, <1>8
  <2>2. p \in PeerIds /\ peers[p].outbound_stream \in StreamIds
    BY <2>1, <1>5
  <2> QED
    BY <2>2 DEF Msg, PingEvent, EventKinds
<1>10. TickEvents(peers, order) \in Seq(PingEvent)
  BY <1>2, <1>4, <1>9 DEF TickEvents
<1> QED
  BY <1>7, <1>10

\* migrate_peer: moving a placeholder's state to the verified peer, along with
\* its streams, keeps the invariant.
LEMMA MigrateOK ==
  ASSUME IInv, NEW old \in PeerIds, NEW new \in PeerIds, PeerMigrated(old, new)
  PROVE  IInv'
<1>1. old # new /\ wire[new] = IdleWire
  BY DEF PeerMigrated
<1>2. /\ wire \in [PeerIds -> [StreamIds -> WireStates]]
      /\ wire' = [wire EXCEPT ![new] = wire[old], ![old] = IdleWire]
      /\ IdleWire \in [StreamIds -> WireStates]
  BY DEF PeerMigrated, IInv, TypeOK, IdleWire, WireStates
<1>3. pending_actions' = pending_actions /\ pending_events' \in Seq(PingEvent)
  <2>1. \A i \in 1 .. Len(pending_events) : pending_events[i] \in PingEvent
    BY DEF IInv, TypeOK
  <2>2. \A e \in PingEvent : [e EXCEPT !.peer = new] \in PingEvent
    BY DEF PingEvent
  <2>3. pending_events' =
          [i \in 1 .. Len(pending_events) |->
             IF pending_events[i].peer = old
             THEN [pending_events[i] EXCEPT !.peer = new] ELSE pending_events[i]]
    BY DEF PeerMigrated, MigrateEvents, IInv, TypeOK
  <2>4. \A i \in 1 .. Len(pending_events) : pending_events'[i] \in PingEvent
    BY <2>1, <2>2, <2>3
  <2>5. Len(pending_events) \in Nat
    BY DEF IInv, TypeOK
  <2> QED
    BY <2>3, <2>4, <2>5 DEF PeerMigrated
<1>4. CASE ~peers[old].tracked
  <2>1. peers' = peers
    BY <1>4 DEF PeerMigrated, MigratePeer
  <2>2. TypeOK'
    BY <1>2, <1>3, <2>1 DEF IInv, TypeOK
  <2>3. PeerOK(peers[old], IdleWire)
    <3>1. peers[old].outbound_stream = None /\ peers[old].inbound_streams = {}
      BY <1>4 DEF IInv, PeerOK
    <3> QED
      BY <1>2, <3>1, StreamIdsAssumption DEF IInv, PeerOK
  <2>4. PeerOK(peers[new], wire[old])
    <3>1. \A s \in StreamIds : /\ peers[new].outbound_stream # s
                               /\ s \notin peers[new].inbound_streams
      BY <1>1 DEF IInv, PeerOK, IdleWire
    <3> QED
      BY <1>2, <3>1 DEF IInv, PeerOK
  <2>5. ASSUME NEW q \in PeerIds PROVE PeerOK(peers'[q], wire'[q])
    BY <1>1, <1>2, <2>1, <2>3, <2>4 DEF IInv
  <2> QED
    BY <2>2, <2>5 DEF IInv
<1>5. CASE peers[old].tracked
  <2>1. peers' = [peers EXCEPT ![new] = peers[old], ![old] = Absent]
    BY <1>1, <1>5 DEF PeerMigrated, MigratePeer
  <2>2. Absent \in PeerPingState
    BY AbsentOK DEF PeerOK
  <2>3. TypeOK'
    BY <1>2, <1>3, <2>1, <2>2 DEF IInv, TypeOK
  <2>4. ASSUME NEW q \in PeerIds PROVE PeerOK(peers'[q], wire'[q])
    BY <1>1, <1>2, <2>1, AbsentOK DEF IInv, TypeOK
  <2> QED
    BY <2>3, <2>4 DEF IInv
<1> QED
  BY <1>4, <1>5

\* IInv is inductive.
LEMMA Inductive == IInv /\ [Next]_vars => IInv'
<1> SUFFICES ASSUME IInv, [Next]_vars PROVE IInv'
  OBVIOUS
<1>0. /\ \A p \in PeerIds : PeerOK(peers[p], wire[p])
      /\ TypeOK
  BY DEF IInv
<1>1. ASSUME NEW p \in PeerIds, NEW s \in StreamIds, NEW state,
             Report(p, s, state)
      PROVE  wire' = [wire EXCEPT ![p] = [wire[p] EXCEPT ![s] = state]]
  BY <1>1 DEF Report
<1>2. ASSUME NEW p \in PeerIds, UNCHANGED wire
      PROVE  wire' = [wire EXCEPT ![p] = wire[p]]
  BY <1>0, <1>2 DEF TypeOK
<1>3. ASSUME NEW p \in PeerIds, NEW s \in StreamIds, NegotiatedOutbound(p, s)
      PROVE  IInv'
  <2>1. ResultOK(RegisterOutboundStream(peers[p], p, s), [wire[p] EXCEPT ![s] = "outbound"])
    BY <1>0, <1>3, RegisterOutboundOK DEF NegotiatedOutbound
  <2>2. /\ Apply(p, RegisterOutboundStream(peers[p], p, s))
        /\ wire' = [wire EXCEPT ![p] = [wire[p] EXCEPT ![s] = "outbound"]]
    BY <1>1, <1>3 DEF NegotiatedOutbound
  <2> QED
    BY <2>1, <2>2, ApplyOK
<1>4. ASSUME NEW p \in PeerIds, NEW s \in StreamIds, NegotiatedInbound(p, s)
      PROVE  IInv'
  <2>1. ResultOK(RegisterInboundStream(peers[p], p, s), [wire[p] EXCEPT ![s] = "inbound"])
    BY <1>0, <1>4, RegisterInboundOK DEF NegotiatedInbound
  <2>2. /\ Apply(p, RegisterInboundStream(peers[p], p, s))
        /\ wire' = [wire EXCEPT ![p] = [wire[p] EXCEPT ![s] = "inbound"]]
    BY <1>1, <1>4 DEF NegotiatedInbound
  <2> QED
    BY <2>1, <2>2, ApplyOK
<1>5. ASSUME NEW p \in PeerIds, NEW payload \in Payloads, RequestPing(p, payload)
      PROVE  IInv'
  BY <1>0, <1>2, <1>5, SendPingOK, ApplyOK DEF RequestPing
<1>6. ASSUME NEW p \in PeerIds, RequestCloseWrite(p)
      PROVE  IInv'
  BY <1>0, <1>2, <1>6, CloseWriteOK, ApplyOK DEF RequestCloseWrite
<1>7. ASSUME NEW p \in PeerIds, NEW s \in StreamIds,
             NEW len \in 1 .. PayloadLen + 1, NEW payload \in Payloads,
             StreamData(p, s, len, payload)
      PROVE  IInv'
  <2>1. len \in Nat
    BY PayloadLenAssumption
  <2> QED
    BY <1>0, <1>2, <1>7, <2>1, StreamDataOK, ApplyOK DEF StreamData
<1>8. ASSUME NEW p \in PeerIds, NEW s \in StreamIds, StreamRemoteWriteClosed(p, s)
      PROVE  IInv'
  <2>1. ResultOK(OnStreamRemoteWriteClosed(peers[p], p, s), [wire[p] EXCEPT ![s] = "half"])
    BY <1>0, <1>8, RemoteWriteClosedOK DEF StreamRemoteWriteClosed
  <2>2. /\ Apply(p, OnStreamRemoteWriteClosed(peers[p], p, s))
        /\ wire' = [wire EXCEPT ![p] = [wire[p] EXCEPT ![s] = "half"]]
    BY <1>1, <1>8 DEF StreamRemoteWriteClosed
  <2> QED
    BY <2>1, <2>2, ApplyOK
<1>9. ASSUME NEW p \in PeerIds, NEW s \in StreamIds, StreamClosed(p, s)
      PROVE  IInv'
  <2>1. ResultOK(OnStreamClosed(peers[p], s), [wire[p] EXCEPT ![s] = "closed"])
    BY <1>0, <1>9, StreamClosedOK DEF StreamClosed
  <2>2. /\ Apply(p, OnStreamClosed(peers[p], s))
        /\ wire' = [wire EXCEPT ![p] = [wire[p] EXCEPT ![s] = "closed"]]
    BY <1>1, <1>9 DEF StreamClosed
  <2> QED
    BY <2>1, <2>2, ApplyOK
<1>10. ASSUME NEW p \in PeerIds, PeerRemoved(p)
       PROVE  IInv'
  <2>1. Absent \in PeerPingState /\ IdleWire \in [StreamIds -> WireStates]
    BY AbsentOK DEF PeerOK
  <2>2. TypeOK'
    BY <1>0, <1>10, <2>1 DEF TypeOK, PeerRemoved, RemovePeer
  <2>3. ASSUME NEW q \in PeerIds PROVE PeerOK(peers'[q], wire'[q])
    BY <1>0, <1>10, AbsentOK DEF TypeOK, PeerRemoved, RemovePeer
  <2> QED
    BY <2>2, <2>3 DEF IInv
<1>11. ASSUME Tick
       PROVE  IInv'
  <2>1. PICK order \in Orders({p \in PeerIds : Expired(peers[p])}) :
          /\ peers' = TickPeers(peers, order)
          /\ pending_actions' = pending_actions \o TickActions(peers, order)
          /\ pending_events' = pending_events \o TickEvents(peers, order)
    BY <1>11 DEF Tick
  <2>2. wire' = wire
    BY <1>11 DEF Tick
  <2>3. \A i \in DOMAIN order : Expired(peers[order[i]])
    BY DEF Orders
  <2>4. ASSUME NEW q \in PeerIds
        PROVE  /\ peers'[q] = peers[q] \/ (Expired(peers[q]) /\ peers'[q] = OnTick(peers[q], q).st)
               /\ PeerOK(peers'[q], wire'[q])
    <3>1. peers'[q] = peers[q] \/ (Expired(peers[q]) /\ peers'[q] = OnTick(peers[q], q).st)
      BY <2>1, <2>3 DEF TickPeers
    <3> QED
      BY <1>0, <2>2, <3>1, TickOK
  <2>5. peers' \in [PeerIds -> PeerPingState]
    <3>1. peers' = [q \in PeerIds |-> peers'[q]]
      BY <2>1 DEF TickPeers
    <3>2. \A q \in PeerIds : peers'[q] \in PeerPingState
      BY <2>4 DEF PeerOK
    <3> QED
      BY <3>1, <3>2
  <2>6. pending_actions' \in Seq(PingAction) /\ pending_events' \in Seq(PingEvent)
    BY <1>0, <2>1, TickTypes DEF TypeOK
  <2> QED
    BY <1>0, <2>2, <2>4, <2>5, <2>6 DEF IInv, TypeOK
<1>12. ASSUME PollOutput
       PROVE  IInv'
  <2>1. pending_actions \in Seq(PingAction) /\ pending_events \in Seq(PingEvent)
    BY <1>0 DEF TypeOK
  <2>2. CASE pending_actions # << >> /\ pending_actions' = Tail(pending_actions)
                                    /\ pending_events' = pending_events
    BY <1>0, <1>12, <2>1, <2>2 DEF PollOutput, IInv, TypeOK
  <2>3. CASE pending_events # << >> /\ pending_events' = Tail(pending_events)
                                   /\ pending_actions' = pending_actions
    BY <1>0, <1>12, <2>1, <2>3 DEF PollOutput, IInv, TypeOK
  <2> QED
    BY <1>12, <2>2, <2>3 DEF PollOutput
<1>13. ASSUME Elapse
       PROVE  IInv'
  <2>1. ASSUME NEW q \in PeerIds PROVE PeerOK(peers'[q], wire'[q])
    BY <1>0, <1>13, OlderOK DEF Elapse
  <2>2. peers' \in [PeerIds -> PeerPingState]
    <3>1. \A q \in PeerIds : peers'[q] \in PeerPingState
      BY <2>1 DEF PeerOK
    <3> QED
      BY <1>13, <3>1 DEF Elapse
  <2> QED
    BY <1>0, <1>13, <2>1, <2>2 DEF Elapse, IInv, TypeOK
<1>14. CASE UNCHANGED vars
  BY <1>0, <1>14 DEF vars, IInv, TypeOK
<1>15. ASSUME NEW old \in PeerIds, NEW new \in PeerIds, PeerMigrated(old, new)
       PROVE  IInv'
  BY <1>15, MigrateOK
<1>16. ASSUME StreamInput PROVE IInv'
  BY <1>3, <1>4, <1>7, <1>8, <1>9, <1>16 DEF StreamInput
<1>17. ASSUME PeerInput PROVE IInv'
  BY <1>5, <1>6, <1>10, <1>15, <1>17 DEF PeerInput
<1> QED
  BY <1>11, <1>12, <1>13, <1>14, <1>16, <1>17 DEF Next

\* A new PingProtocol knows no peer.
LEMMA InitOK == Init => IInv
<1> SUFFICES ASSUME Init PROVE IInv
  OBVIOUS
<1>1. ASSUME NEW p \in PeerIds PROVE peers[p] = Absent /\ wire[p] = IdleWire
  BY DEF Init
<1>2. Absent \in PeerPingState /\ IdleWire \in [StreamIds -> WireStates]
  BY AbsentOK DEF PeerOK
<1> QED
  BY <1>1, <1>2, AbsentOK DEF Init, IInv, TypeOK

\* PingProtocol is type correct, never keeps a request without a stream to time
\* out on, only believes in streams that are open in the same role, keeps no
\* bytes of other streams and serves at most InboundLimit inbound streams.
THEOREM PingSafety ==
  Spec => [](TypeOK /\ InFlightHasStream /\ StreamsAreOpen /\ BuffersAreKnown
                    /\ InboundWithinLimit)
<1>1. Init => IInv
  BY InitOK
<1>2. IInv => /\ TypeOK /\ InFlightHasStream /\ StreamsAreOpen /\ BuffersAreKnown
              /\ InboundWithinLimit
  BY DEF IInv, PeerOK, InFlightHasStream, StreamsAreOpen, BuffersAreKnown, InboundWithinLimit
<1> QED
  BY <1>1, <1>2, Inductive, PTL DEF Spec

\* PingProtocol's map of peers and its queues always hold values of their types.
THEOREM PingTypes == Spec => []TypeOK
<1>1. (TypeOK /\ InFlightHasStream /\ StreamsAreOpen /\ BuffersAreKnown
              /\ InboundWithinLimit) => TypeOK
  OBVIOUS
<1> QED
  BY <1>1, PingSafety, PTL

\* The receive buffers hold bytes of the streams the protocol knows only: no
\* handler forgets a stream and keeps what it had received of a payload.
THEOREM PingBuffers == Spec => []BuffersAreKnown
<1>1. (TypeOK /\ InFlightHasStream /\ StreamsAreOpen /\ BuffersAreKnown
              /\ InboundWithinLimit) => BuffersAreKnown
  OBVIOUS
<1> QED
  BY <1>1, PingSafety, PTL

-----------------------------------------------------------------------------
(* One outcome per request: the action property OneOutcome.                *)

OutcomeKinds == {"RttMeasured", "Timeout", "ProtocolViolation"}

\* A handler that ends p's request reports how.
Reported(st, st2, events, p) ==
    InFlight(st) /\ ~InFlight(st2) =>
      \E i \in DOMAIN events : events[i].peer = p /\ events[i].kind \in OutcomeKinds

\* A handler reports about p only, and a round trip or a timeout only when it
\* ends p's request.
Justified(st, st2, events, p) ==
    \A i \in DOMAIN events :
      /\ events[i].peer = p
      /\ events[i].kind \in {"RttMeasured", "Timeout"} => InFlight(st) /\ ~InFlight(st2)

\* What OneOutcome says of one peer and one step.
OutcomeStep(p) ==
    /\ (InFlight(peers[p]) /\ ~InFlight(peers[p])') => ReportsOutcome(p) \/ TakenAway(p)
    /\ \A i \in DOMAIN pending_events' \ DOMAIN pending_events :
         (/\ pending_events'[i].peer = p
          /\ pending_events'[i].kind \in {"RttMeasured", "Timeout"})
            => InFlight(peers[p]) /\ ~InFlight(peers[p])'

\* The end of a request, reported by one event.
LEMMA OneReport ==
  ASSUME NEW st, NEW st2, NEW p, NEW s, NEW kind \in OutcomeKinds, NEW events,
         kind # "ProtocolViolation" => InFlight(st) /\ ~InFlight(st2),
         events = <<Msg(kind, p, s)>>
  PROVE  Reported(st, st2, events, p) /\ Justified(st, st2, events, p)
<1>1. DOMAIN events = {1} /\ events[1].peer = p /\ events[1].kind = kind
  BY DEF Msg
<1> QED
  BY <1>1 DEF Reported, Justified, OutcomeKinds

\* register_outbound_stream ends no request.
LEMMA RegisterOutboundOutcome ==
  ASSUME NEW st \in PeerPingState, NEW p, NEW s, NEW r, r = RegisterOutboundStream(st, p, s)
  PROVE  Reported(st, r.st, r.events, p) /\ Justified(st, r.st, r.events, p)
<1>1. r.events \in {<< >>, <<Msg("OutboundStreamRegistered", p, s)>>}
  BY DEF RegisterOutboundStream, Done, Quiet, Refused
<1>2. r.st.pending_ping = st.pending_ping
  BY DEF RegisterOutboundStream, Done, Quiet, Refused, PeerPingState
<1>3. InFlight(st) => InFlight(r.st)
  BY <1>2 DEF InFlight
<1>4. CASE r.events \in {<< >>, <<Msg("OutboundStreamRegistered", p, s)>>}
  BY <1>3, <1>4 DEF Reported, Justified, Msg
<1> QED
  BY <1>1, <1>4

\* register_inbound_stream ends no request, whether or not the limit is reached.
LEMMA RegisterInboundOutcome ==
  ASSUME NEW st \in PeerPingState, NEW p, NEW s, NEW r, r = RegisterInboundStream(st, p, s)
  PROVE  Reported(st, r.st, r.events, p) /\ Justified(st, r.st, r.events, p)
<1>1. \/ r.events \in {<< >>, <<Msg("StreamLimitExceeded", p, s)>>}
      \/ r.events \in {<< >>, <<Msg("InboundStreamAccepted", p, s)>>}
  BY DEF RegisterInboundStream, Done, Quiet, Refused
<1>2. r.st.pending_ping = st.pending_ping
  BY DEF RegisterInboundStream, Done, Quiet, Refused, PeerPingState
<1>3. InFlight(st) => InFlight(r.st)
  BY <1>2 DEF InFlight
<1>4. CASE r.events \in {<< >>, <<Msg("StreamLimitExceeded", p, s)>>}
  BY <1>3, <1>4 DEF Reported, Justified, Msg
<1>5. CASE r.events \in {<< >>, <<Msg("InboundStreamAccepted", p, s)>>}
  BY <1>3, <1>5 DEF Reported, Justified, Msg
<1> QED
  BY <1>1, <1>4, <1>5

\* send_ping and close_outbound_stream_write are refused while a request is in
\* flight, and report nothing.
LEMMA RequestOutcome ==
  ASSUME NEW st \in PeerPingState, NEW p, NEW payload, NEW r,
         r \in {SendPing(st, p, payload), CloseOutboundStreamWrite(st, p)}
  PROVE  Reported(st, r.st, r.events, p) /\ Justified(st, r.st, r.events, p)
<1>1. r.events = << >> /\ (InFlight(st) => r.st = st)
  BY DEF SendPing, CloseOutboundStreamWrite, Done, Refused
<1> QED
  BY <1>1 DEF Reported, Justified

\* on_stream_data ends a request with a measured round trip or a violation.
LEMMA StreamDataOutcome ==
  ASSUME NEW st \in PeerPingState, NEW p, NEW s, NEW len, NEW payload, NEW r,
         r = OnStreamData(st, p, s, len, payload)
  PROVE  Reported(st, r.st, r.events, p) /\ Justified(st, r.st, r.events, p)
<1> DEFINE emptied == [st EXCEPT !.recv_bufs = [@ EXCEPT ![s] = 0]]
<1>0. emptied \in [tracked : {st.tracked}, outbound_stream : {st.outbound_stream},
                   inbound_streams : {st.inbound_streams},
                   pending_ping : {st.pending_ping}, recv_bufs : {emptied.recv_bufs}]
  BY DEF PeerPingState
<1>1. r \in {Violation(st, p, s), Violation(emptied, p, s),
             Quiet([st EXCEPT !.recv_bufs = [@ EXCEPT ![s] = st.recv_bufs[s] + len]]),
             ProcessCompletePayload(emptied, p, s, payload)}
  BY DEF OnStreamData
<1>2. CASE r \in {Violation(st, p, s), Violation(emptied, p, s)}
  <2>1. r.events = <<Msg("ProtocolViolation", p, s)>>
    BY <1>2 DEF Violation, Done
  <2> QED
    BY <2>1, OneReport DEF OutcomeKinds
<1>3. CASE r = Quiet([st EXCEPT !.recv_bufs = [@ EXCEPT ![s] = st.recv_bufs[s] + len]])
  <2>1. r.events = << >> /\ r.st.pending_ping = st.pending_ping
    BY <1>3 DEF Quiet, Done, PeerPingState
  <2> QED
    BY <2>1 DEF Reported, Justified, InFlight
<1>4. CASE r = ProcessCompletePayload(emptied, p, s, payload)
  <2> HIDE DEF emptied
  <2>1. emptied.pending_ping = st.pending_ping
    BY <1>0
  <2>2. [emptied EXCEPT !.pending_ping = None].pending_ping = None
    BY <1>0
  <2>3. \/ r.events = <<Msg("RttMeasured", p, s)>> /\ InFlight(emptied) /\ r.st.pending_ping = None
        \/ r.events = <<Msg("ProtocolViolation", p, s)>>
        \/ r.events = << >> /\ r.st = emptied
    BY <1>4, <2>2 DEF ProcessCompletePayload, Violation, Done
  <2>4. CASE r.events = <<Msg("RttMeasured", p, s)>> /\ InFlight(emptied) /\ r.st.pending_ping = None
    BY <2>1, <2>4, OneReport DEF OutcomeKinds, InFlight
  <2>5. CASE r.events = <<Msg("ProtocolViolation", p, s)>>
    BY <2>5, OneReport DEF OutcomeKinds
  <2>6. CASE r.events = << >> /\ r.st = emptied
    BY <2>1, <2>6 DEF Reported, Justified, InFlight
  <2> QED
    BY <2>3, <2>4, <2>5, <2>6
<1> QED
  BY <1>1, <1>2, <1>3, <1>4

\* A FIN under a request in flight is reported as a violation.
LEMMA RemoteWriteClosedOutcome ==
  ASSUME NEW st \in PeerPingState, NEW p, NEW s, NEW r,
         r = OnStreamRemoteWriteClosed(st, p, s)
  PROVE  Reported(st, r.st, r.events, p) /\ Justified(st, r.st, r.events, p)
<1>1. \/ r.events = << >> /\ r.st.pending_ping = st.pending_ping
      \/ r.events = <<Msg("ProtocolViolation", p, s)>>
      \/ r.events = <<Msg("OutboundStreamClosed", p, s)>> /\ ~InFlight(st)
  <2>1. CASE s \in st.inbound_streams
    BY <2>1 DEF OnStreamRemoteWriteClosed, Quiet, Done, PeerPingState
  <2>2. CASE s \notin st.inbound_streams
    BY <2>2 DEF OnStreamRemoteWriteClosed, Quiet, Done, Violation
  <2> QED
    BY <2>1, <2>2
<1>2. CASE r.events = << >> /\ r.st.pending_ping = st.pending_ping
  BY <1>2 DEF Reported, Justified, InFlight
<1>3. CASE r.events = <<Msg("ProtocolViolation", p, s)>>
  BY <1>3, OneReport DEF OutcomeKinds
<1>4. CASE r.events = <<Msg("OutboundStreamClosed", p, s)>> /\ ~InFlight(st)
  BY <1>4 DEF Reported, Justified, Msg
<1> QED
  BY <1>1, <1>2, <1>3, <1>4

\* handle_input: what a handler of peer p accounts for, the step accounts for.
LEMMA ApplyOutcome ==
  ASSUME TypeOK, NEW p \in PeerIds, NEW r, r.events \in Seq(PingEvent), Apply(p, r),
         Reported(peers[p], r.st, r.events, p) \/ TakenAway(p),
         Justified(peers[p], r.st, r.events, p),
         NEW q \in PeerIds
  PROVE  OutcomeStep(q)
<1> DEFINE n == Len(pending_events)
<1>1. /\ pending_events \in Seq(PingEvent)
      /\ peers' = [peers EXCEPT ![p] = r.st]
      /\ pending_events' = pending_events \o r.events
  BY DEF TypeOK, Apply
<1>2. /\ n \in Nat
      /\ DOMAIN pending_events = 1 .. n
      /\ DOMAIN pending_events' = 1 .. n + Len(r.events)
      /\ DOMAIN r.events = 1 .. Len(r.events)
      /\ Len(r.events) \in Nat
      /\ \A i \in 1 .. Len(r.events) : pending_events'[n + i] = r.events[i]
  BY <1>1
<1> HIDE DEF n
<1>3. ASSUME NEW i \in DOMAIN pending_events' \ DOMAIN pending_events
      PROVE  \E j \in DOMAIN r.events : pending_events'[i] = r.events[j]
  <2>1. i - n \in 1 .. Len(r.events) /\ n + (i - n) = i
    BY <1>2
  <2> QED
    BY <1>2, <2>1
<1>4. ASSUME NEW j \in DOMAIN r.events
      PROVE  \E i \in DOMAIN pending_events' \ DOMAIN pending_events :
               pending_events'[i] = r.events[j]
  <2>1. n + j \in DOMAIN pending_events' \ DOMAIN pending_events
    BY <1>2
  <2> QED
    BY <1>2, <2>1
<1>5. peers'[p] = r.st /\ (q # p => peers'[q] = peers[q])
  BY <1>1 DEF TypeOK
<1>6. CASE q = p
  <2>1. Reported(peers[p], r.st, r.events, p) /\ InFlight(peers[p]) /\ ~InFlight(peers'[p])
          => ReportsOutcome(p)
    BY <1>4, <1>5 DEF Reported, ReportsOutcome, OutcomeKinds
  <2>2. \A i \in DOMAIN pending_events' \ DOMAIN pending_events :
          pending_events'[i].kind \in {"RttMeasured", "Timeout"}
            => InFlight(peers[p]) /\ ~InFlight(peers'[p])
    BY <1>3, <1>5 DEF Justified
  <2> QED
    BY <1>6, <2>1, <2>2 DEF OutcomeStep, InFlight
<1>7. CASE q # p
  <2>1. \A i \in DOMAIN pending_events' \ DOMAIN pending_events : pending_events'[i].peer = p
    BY <1>3 DEF Justified
  <2> QED
    BY <1>5, <1>7, <2>1 DEF OutcomeStep, InFlight
<1> QED
  BY <1>6, <1>7

\* A step that adds no event and ends no request but by taking it away.
LEMMA SilentOutcome ==
  ASSUME NEW q \in PeerIds, DOMAIN pending_events' \subseteq DOMAIN pending_events,
         InFlight(peers[q]) => InFlight(peers'[q]) \/ TakenAway(q)
  PROVE  OutcomeStep(q)
BY DEF OutcomeStep, InFlight

\* on_tick: every peer whose request it drops gets its Timeout, and nobody else.
LEMMA TickOutcome ==
  ASSUME TypeOK, Tick, NEW q \in PeerIds
  PROVE  OutcomeStep(q)
<1>1. PICK order \in Orders({p \in PeerIds : Expired(peers[p])}) :
          /\ peers' = TickPeers(peers, order)
          /\ pending_events' = pending_events \o TickEvents(peers, order)
  BY DEF Tick
<1> DEFINE S == {p \in PeerIds : Expired(peers[p])}
           m == Cardinality(S)
           n == Len(pending_events)
           events == TickEvents(peers, order)
<1>2. m \in Nat
  BY PeerIdsAssumption, FS_Subset, FS_CardinalityType
<1> HIDE DEF m
<1>3. order \in [1 .. m -> S]
  BY DEF Orders, m
<1>4. Len(order) = m /\ DOMAIN order = 1 .. m
  BY <1>2, <1>3
<1>5. events \in Seq(PingEvent) /\ pending_events \in Seq(PingEvent)
  BY TickTypes DEF TypeOK
<1>6. /\ DOMAIN events = 1 .. 2 * m
      /\ \A i \in 1 .. 2 * m :
           events[i] = Msg(IF i % 2 = 1 THEN "Timeout" ELSE "OutboundStreamClosed",
                           order[(i + 1) \div 2], peers[order[(i + 1) \div 2]].outbound_stream)
  BY <1>4 DEF TickEvents
<1> HIDE DEF events
<1>7. /\ n \in Nat
      /\ DOMAIN pending_events = 1 .. n
      /\ DOMAIN pending_events' = 1 .. n + 2 * m
      /\ \A i \in 1 .. 2 * m : pending_events'[n + i] = events[i]
  <2>1. Len(events) = 2 * m
    BY <1>2, <1>5, <1>6
  <2>2. pending_events' = pending_events \o events
    BY <1>1 DEF events
  <2> PICK l \in Nat : l = 2 * m
    BY <1>2
  <2>3. /\ n \in Nat
        /\ DOMAIN pending_events = 1 .. n
        /\ DOMAIN pending_events' = 1 .. n + l
        /\ \A i \in 1 .. l : pending_events'[n + i] = events[i]
    BY <1>5, <2>1, <2>2
  <2> QED
    BY <2>3
<1> HIDE DEF n
<1>8. ASSUME NEW i \in 1 .. m
      PROVE  /\ InFlight(peers[order[i]])
             /\ ~InFlight(peers'[order[i]])
  <2>1. order[i] \in PeerIds /\ InFlight(peers[order[i]])
    BY <1>3 DEF Expired
  <2>2. peers'[order[i]] = OnTick(peers[order[i]], order[i]).st
    BY <1>1, <1>4, <2>1 DEF TickPeers
  <2>3. peers[order[i]] \in PeerPingState
    BY <2>1 DEF TypeOK
  <2> QED
    BY <2>1, <2>2, <2>3 DEF OnTick, Done, InFlight, PeerPingState
<1>9. ASSUME InFlight(peers[q]), ~InFlight(peers'[q])
      PROVE  ReportsOutcome(q)
  <2>1. PICK k \in 1 .. m : order[k] = q
    BY <1>1, <1>4, <1>9 DEF TickPeers
  <2>2. /\ 2 * k - 1 \in 1 .. 2 * m
        /\ (2 * k - 1) % 2 = 1
        /\ ((2 * k - 1) + 1) \div 2 = k
        /\ n + (2 * k - 1) \in DOMAIN pending_events' \ DOMAIN pending_events
    BY <1>2, <1>7
  <2>3. events[2 * k - 1] = Msg("Timeout", q, peers[q].outbound_stream)
    BY <1>6, <2>1, <2>2
  <2>4. pending_events'[n + (2 * k - 1)] = Msg("Timeout", q, peers[q].outbound_stream)
    BY <1>7, <2>2, <2>3
  <2> QED
    BY <2>2, <2>4 DEF ReportsOutcome, Msg
<1>10. ASSUME NEW i \in DOMAIN pending_events' \ DOMAIN pending_events,
              pending_events'[i].peer = q
       PROVE  InFlight(peers[q]) /\ ~InFlight(peers'[q])
  <2>1. i - n \in 1 .. 2 * m /\ n + (i - n) = i /\ ((i - n) + 1) \div 2 \in 1 .. m
    BY <1>2, <1>7
  <2>2. pending_events'[i] = events[i - n]
    BY <1>7, <2>1
  <2>3. events[i - n].peer = order[((i - n) + 1) \div 2]
    BY <1>6, <2>1 DEF Msg
  <2> QED
    BY <1>8, <1>10, <2>1, <2>2, <2>3
<1> QED
  BY <1>9, <1>10 DEF OutcomeStep, InFlight

\* A request stays in flight while time passes.
LEMMA OlderInFlight ==
  ASSUME NEW st \in PeerPingState, InFlight(st)
  PROVE  InFlight(Older(st))
<1> DEFINE pend == [payload |-> st.pending_ping.payload, age |-> st.pending_ping.age + 1]
<1>1. CASE ~(st.pending_ping.age < AgeCap)
  BY <1>1 DEF Older
<1>2. CASE st.pending_ping.age < AgeCap
  <2>1. pend \in PendingPing
    BY <1>2, RequestTimeoutAssumption DEF PeerPingState, InFlight, PendingPing, AgeCap
  <2>2. Older(st).pending_ping = pend
    BY <1>2 DEF Older, PeerPingState
  <2> QED
    BY <2>1, <2>2, NoneAssumption DEF InFlight
<1> QED
  BY <1>1, <1>2

\* migrate_peer moves the request along with the peer, which TakenAway names, and
\* never onto a peer that has a request of its own.
LEMMA MigrateOutcome ==
  ASSUME IInv, NEW old \in PeerIds, NEW new \in PeerIds, PeerMigrated(old, new),
         NEW q \in PeerIds
  PROVE  OutcomeStep(q)
<1>1. DOMAIN pending_events' = DOMAIN pending_events
  BY DEF PeerMigrated, MigrateEvents
<1>2. CASE q = old
  BY <1>1, <1>2, SilentOutcome DEF TakenAway
<1>3. CASE q = new
  <2>1. PeerOK(peers[new], wire[new]) /\ wire[new] = IdleWire
    BY DEF IInv, PeerMigrated
  <2>2. peers[new].outbound_stream \in StreamIds \cup {None}
    BY <2>1 DEF PeerOK, PeerPingState
  <2>3. ~InFlight(peers[new])
    BY <2>1, <2>2 DEF PeerOK, IdleWire
  <2> QED
    BY <1>1, <1>3, <2>3, SilentOutcome
<1>4. CASE q # old /\ q # new
  <2>1. peers'[q] = peers[q]
    BY <1>4 DEF PeerMigrated, MigratePeer, IInv, TypeOK
  <2> QED
    BY <1>1, <2>1, SilentOutcome
<1> QED
  BY <1>2, <1>3, <1>4

\* Every step accounts for the requests of every peer.
LEMMA StepOutcome ==
  ASSUME IInv, [Next]_vars, NEW q \in PeerIds
  PROVE  OutcomeStep(q)
<1>0. TypeOK /\ (\A p \in PeerIds : PeerOK(peers[p], wire[p]) /\ peers[p] \in PeerPingState)
  BY DEF IInv, TypeOK
<1>1. ASSUME NEW p \in PeerIds, NEW s \in StreamIds, NegotiatedOutbound(p, s)
      PROVE  OutcomeStep(q)
  <2>1. PICK r : r = RegisterOutboundStream(peers[p], p, s)
    OBVIOUS
  <2>2. Apply(p, r) /\ r.events \in Seq(PingEvent)
    BY <1>0, <1>1, <2>1, RegisterOutboundOK DEF NegotiatedOutbound, ResultOK
  <2> QED
    BY <1>0, <2>1, <2>2, RegisterOutboundOutcome, ApplyOutcome
<1>2. ASSUME NEW p \in PeerIds, NEW s \in StreamIds, NegotiatedInbound(p, s)
      PROVE  OutcomeStep(q)
  <2>1. PICK r : r = RegisterInboundStream(peers[p], p, s)
    OBVIOUS
  <2>2. Apply(p, r) /\ r.events \in Seq(PingEvent)
    BY <1>0, <1>2, <2>1, RegisterInboundOK DEF NegotiatedInbound, ResultOK
  <2> QED
    BY <1>0, <2>1, <2>2, RegisterInboundOutcome, ApplyOutcome
<1>3. ASSUME NEW p \in PeerIds, NEW payload \in Payloads, RequestPing(p, payload)
      PROVE  OutcomeStep(q)
  <2>1. PICK r : r = SendPing(peers[p], p, payload)
    OBVIOUS
  <2>2. Apply(p, r) /\ r.events \in Seq(PingEvent)
    BY <1>0, <1>3, <2>1, SendPingOK DEF RequestPing, ResultOK
  <2> QED
    BY <1>0, <2>1, <2>2, RequestOutcome, ApplyOutcome
<1>4. ASSUME NEW p \in PeerIds, RequestCloseWrite(p)
      PROVE  OutcomeStep(q)
  <2>1. PICK r : r = CloseOutboundStreamWrite(peers[p], p)
    OBVIOUS
  <2>2. Apply(p, r) /\ r.events \in Seq(PingEvent)
    BY <1>0, <1>4, <2>1, CloseWriteOK DEF RequestCloseWrite, ResultOK
  <2> QED
    BY <1>0, <2>1, <2>2, RequestOutcome, ApplyOutcome
<1>5. ASSUME NEW p \in PeerIds, NEW s \in StreamIds,
             NEW len \in 1 .. PayloadLen + 1, NEW payload \in Payloads,
             StreamData(p, s, len, payload)
      PROVE  OutcomeStep(q)
  <2>1. PICK r : r = OnStreamData(peers[p], p, s, len, payload)
    OBVIOUS
  <2>2. len \in Nat
    BY PayloadLenAssumption
  <2>3. Apply(p, r) /\ r.events \in Seq(PingEvent)
    BY <1>0, <1>5, <2>1, <2>2, StreamDataOK DEF StreamData, ResultOK
  <2> QED
    BY <1>0, <2>1, <2>3, StreamDataOutcome, ApplyOutcome
<1>6. ASSUME NEW p \in PeerIds, NEW s \in StreamIds, StreamRemoteWriteClosed(p, s)
      PROVE  OutcomeStep(q)
  <2>1. PICK r : r = OnStreamRemoteWriteClosed(peers[p], p, s)
    OBVIOUS
  <2>2. Apply(p, r) /\ r.events \in Seq(PingEvent)
    BY <1>0, <1>6, <2>1, RemoteWriteClosedOK DEF StreamRemoteWriteClosed, ResultOK
  <2> QED
    BY <1>0, <2>1, <2>2, RemoteWriteClosedOutcome, ApplyOutcome
<1>7. ASSUME NEW p \in PeerIds, NEW s \in StreamIds, StreamClosed(p, s)
      PROVE  OutcomeStep(q)
  <2>1. PICK r : r = OnStreamClosed(peers[p], s)
    OBVIOUS
  <2>2. Apply(p, r) /\ r.events = << >>
    BY <1>7, <2>1 DEF StreamClosed, OnStreamClosed, Quiet, Done
  <2>3. Justified(peers[p], r.st, r.events, p) /\ r.events \in Seq(PingEvent)
    BY <2>2 DEF Justified
  <2>4. TakenAway(p)
    BY <1>7 DEF TakenAway
  <2> QED
    BY <1>0, <2>2, <2>3, <2>4, ApplyOutcome
<1>8. ASSUME NEW p \in PeerIds, PeerRemoved(p)
      PROVE  OutcomeStep(q)
  <2>1. pending_events' = pending_events /\ (q # p => peers'[q] = peers[q])
    BY <1>0, <1>8 DEF PeerRemoved, RemovePeer, TypeOK
  <2> QED
    BY <1>8, <2>1, SilentOutcome DEF TakenAway
<1>9. ASSUME NEW p \in PeerIds, NEW new \in PeerIds, PeerMigrated(p, new)
      PROVE  OutcomeStep(q)
  BY <1>9, MigrateOutcome
<1>10. ASSUME PollOutput PROVE OutcomeStep(q)
  <2>1. DOMAIN pending_events' \subseteq DOMAIN pending_events /\ peers' = peers
    BY <1>0, <1>10 DEF PollOutput, TypeOK
  <2> QED
    BY <2>1, SilentOutcome
<1>11. ASSUME Elapse PROVE OutcomeStep(q)
  <2>1. peers'[q] = Older(peers[q]) /\ pending_events' = pending_events
    BY <1>11 DEF Elapse
  <2>2. InFlight(peers[q]) => InFlight(peers'[q])
    BY <1>0, <2>1, OlderInFlight
  <2> QED
    BY <2>1, <2>2, SilentOutcome
<1>12. CASE UNCHANGED vars
  BY <1>12, SilentOutcome DEF vars
<1>13. CASE StreamInput
  BY <1>1, <1>2, <1>5, <1>6, <1>7, <1>13 DEF StreamInput
<1>14. CASE PeerInput
  BY <1>3, <1>4, <1>8, <1>9, <1>14 DEF PeerInput
<1>15. CASE Tick
  BY <1>0, <1>15, TickOutcome
<1> QED
  BY <1>10, <1>11, <1>12, <1>13, <1>14, <1>15 DEF Next

\* A ping request ends with exactly the outcome the application is told: a round
\* trip, a timeout or a violation, unless the host itself took the stream or the
\* peer away; and neither a round trip nor a timeout is reported without one.
THEOREM PingOneOutcome == Spec => OneOutcome
<1>1. Init => IInv
  BY InitOK
<1>2. IInv /\ [Next]_vars => [\A p \in PeerIds : OutcomeStep(p)]_vars
  BY StepOutcome
<1> QED
  BY <1>1, <1>2, Inductive, PTL DEF Spec, OneOutcome, OutcomeStep
=============================================================================
