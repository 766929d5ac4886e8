----------------------------- MODULE QuicProofs -----------------------------
(***************************************************************************)
(* The QUIC connection and the transport built of such connections.         *)
(*                                                                         *)
(* One connection.  Its invariant, ConnOK: types, ids that each side has    *)
(* handed out, and for each stream how its queue of writes, its flags and   *)
(* what quiche has sent and received of it agree.  Every operation of       *)
(* QuicConnection is first reduced to what it does to one stream (Drained,  *)
(* ReadAll, Requeued, ResetTo, ...), and then shown to keep ConnOK.         *)
(*                                                                         *)
(* What it tells, against what the contract lets the host hear.             *)
(* Path(id, s, a, events, b): the contract lets the events be heard one     *)
(* after the other, and they take stream s of connection id from phase a    *)
(* to phase b.  Matches(b, c, s): having heard as much as b fits the state  *)
(* of connection c.  One lemma per operation of QuicConnection shows that   *)
(* from a phase that matches its events are a path to one that matches      *)
(* again (Tells), and that no stream the application knows is forgotten     *)
(* (Serving).                                                               *)
(*                                                                         *)
(* The transport: its indexes agree with its connections, and what poll()   *)
(* hands to the host keeps the contract of the trait Transport.  The        *)
(* invariant relates three things of every stream: what the host has been   *)
(* told, the events that are on their way to it (collected by the poll() in *)
(* progress, or queued by calls), and the connection.                       *)
(***************************************************************************)
EXTENDS Quic, SequenceLemmas

-----------------------------------------------------------------------------
(* What drain_send_queue does, with its detail hidden.                     *)

\* The streams whose end a drain reports.
Closes(c, d, s) ==
    /\ c.stream_states[s] # None /\ d.taken[s] > 0
    /\ NoteStreamClosedIfFinished(c.stream_states[s])

\* st afterwards is st with k units less to write.
Shortened(st, k, st2) ==
    /\ st2 \in StreamRuntimeState
    /\ st2.pending_writes = SubSeq(st.pending_writes, k + 1, Len(st.pending_writes))
    /\ st2.local_write_closed = st.local_write_closed
    /\ st2.remote_write_closed = st.remote_write_closed
    /\ st2.incoming_notified = st.incoming_notified
    /\ st2.closed_notified = (st.closed_notified \/ NoteStreamClosedIfFinished(st))

DrainedStream(c, d, s, c2) ==
    LET st == c.stream_states[s]
        k  == d.taken[s]
    IN  IF st = None \/ k = 0
        THEN c2.stream_states[s] = st /\ c2.send[s] = c.send[s]
        ELSE /\ k \in 1 .. Len(st.pending_writes)
             /\ Shortened(st, k, c2.stream_states[s])
             /\ c2.send[s] = IF c.send[s] = "shut" THEN "shut"
                             ELSE IF st.pending_writes[k] = "fin" THEN "fin" ELSE "open"
             /\ c.send[s] \in {"fin", "shut"} => k = 1 /\ st.pending_writes[k] = "fin"

Drained(c, d, c2) ==
    /\ c2 \in Connection
    /\ c2.state = c.state /\ c2.server = c.server /\ c2.peer_id = c.peer_id
    /\ c2.expected = c.expected /\ c2.cert = c.cert
    /\ c2.next_local_bidi_stream_id = c.next_local_bidi_stream_id
    /\ c2.established = c.established /\ c2.closed = c.closed /\ c2.recv = c.recv
    /\ \A s \in Streams : DrainedStream(c, d, s, c2)

\* d is a choice that quiche and the socket have for c.
DrainChoice(c, d) ==
    /\ d.ok \in BOOLEAN
    /\ \A s \in Streams : d.taken[s] \in Takes(c, s)

\* Drains offers such choices; they depend on the queues only.
LEMMA DrainsChoose ==
    ASSUME NEW c, NEW d \in Drains(c)
    PROVE  DrainChoice(c, d)
BY DEF Drains, DrainChoice

\* What the peer's window leaves room for depends on the send side only.
LEMMA SameChoices ==
    ASSUME NEW c, NEW c2, NEW d, DrainChoice(c, d),
           c2.stream_states = c.stream_states, c2.send = c.send
    PROVE  DrainChoice(c2, d)
BY DEF DrainChoice, Takes, Pending

\* A queue of writes without its first k units is a queue of writes.
LEMMA ShortenedType ==
    ASSUME NEW w \in Seq({"byte", "fin"}), NEW k \in 0 .. Len(w)
    PROVE  SubSeq(w, k + 1, Len(w)) \in Seq({"byte", "fin"})
BY SubSeqProperties

\* What a choice of Drains takes of a stream with a state.
LEMMA TakesBound ==
    ASSUME NEW c \in Connection, NEW d, DrainChoice(c, d), NEW s \in Streams
    PROVE  /\ d.taken[s] \in Nat
           /\ d.ok \in BOOLEAN
           /\ c.stream_states[s] # None =>
                LET w == c.stream_states[s].pending_writes
                IN  /\ d.taken[s] \in 0 .. Len(w)
                    /\ c.send[s] \in {"fin", "shut"} /\ d.taken[s] # 0 =>
                         d.taken[s] = 1 /\ w[1] = "fin"
<1>1. d.taken[s] \in Takes(c, s) /\ d.ok \in BOOLEAN
  BY DEF DrainChoice
<1>2. c.send[s] \in {"unused", "open", "fin", "shut"}
  BY DEF Connection
<1>3. CASE c.stream_states[s] = None
  BY <1>1, <1>2, <1>3 DEF Takes, Pending
<1>4. CASE c.stream_states[s] # None
  <2>1. c.stream_states[s].pending_writes \in Seq({"byte", "fin"})
    BY <1>4 DEF Connection, StreamRuntimeState
  <2>2. QED
    BY <1>1, <1>2, <1>4, <2>1 DEF Takes, Pending
<1>5. QED
  BY <1>3, <1>4

\* One stream of a drain.
LEMMA SendingShortens ==
    ASSUME NEW st \in StreamRuntimeState, NEW k \in 0 .. Len(st.pending_writes)
    PROVE  Shortened(st, k, Sending(st, k))
<1>1. st.pending_writes \in Seq({"byte", "fin"}) /\ st.closed_notified \in BOOLEAN
  BY DEF StreamRuntimeState
<1>2. SubSeq(st.pending_writes, k + 1, Len(st.pending_writes)) \in Seq({"byte", "fin"})
  BY <1>1, ShortenedType
<1>3. NoteStreamClosedIfFinished(st) \in BOOLEAN
  BY DEF NoteStreamClosedIfFinished
<1> DEFINE w == SubSeq(st.pending_writes, k + 1, Len(st.pending_writes))
           note == st.closed_notified \/ NoteStreamClosedIfFinished(st)
<1>4. note \in BOOLEAN
  BY <1>1, <1>3
<1>5. Sending(st, k) = [st EXCEPT !.pending_writes = w, !.closed_notified = note]
  BY DEF Sending
<1>6. w \in Seq({"byte", "fin"})
  BY <1>2
<1> HIDE DEF w, note
<1>7. /\ Sending(st, k) \in StreamRuntimeState
      /\ Sending(st, k).pending_writes = w
      /\ Sending(st, k).closed_notified = note
      /\ Sending(st, k).local_write_closed = st.local_write_closed
      /\ Sending(st, k).remote_write_closed = st.remote_write_closed
      /\ Sending(st, k).incoming_notified = st.incoming_notified
  BY <1>4, <1>5, <1>6 DEF StreamRuntimeState
<1>8. QED
  BY <1>7 DEF Shortened, w, note

\* drain_send_queue: the connection afterwards.
LEMMA DrainConn ==
    ASSUME NEW c \in Connection, NEW d, DrainChoice(c, d)
    PROVE  /\ Drained(c, d, DrainSendQueue(c, d).conn)
           /\ DrainSendQueue(c, d).ok = d.ok
<1> DEFINE Sent(s) == c.stream_states[s] # None /\ d.taken[s] > 0
           states == [s \in Streams |->
                        IF Sent(s) THEN Sending(c.stream_states[s], d.taken[s])
                        ELSE c.stream_states[s]]
           sends == [s \in Streams |->
                       IF ~Sent(s) \/ c.send[s] = "shut" THEN c.send[s]
                       ELSE IF Pending(c, s)[d.taken[s]] = "fin" THEN "fin" ELSE "open"]
           c2 == [c EXCEPT !.stream_states = states, !.send = sends]
<1>1. DrainSendQueue(c, d).conn = c2 /\ DrainSendQueue(c, d).ok = d.ok
  <2>1. d.ok \in BOOLEAN
    BY DEF DrainChoice
  <2>2. QED
    BY <2>1 DEF DrainSendQueue, Ok, Err
<1>2. ASSUME NEW s \in Streams, c.stream_states[s] # None
      PROVE  LET st == c.stream_states[s]
             IN  /\ st \in StreamRuntimeState
                 /\ st.pending_writes \in Seq({"byte", "fin"})
  BY <1>2 DEF Connection, StreamRuntimeState
<1>3. states \in [Streams -> StreamRuntimeState \cup {None}]
  <2>1. ASSUME NEW s \in Streams PROVE states[s] \in StreamRuntimeState \cup {None}
    <3>1. CASE Sent(s)
      <4>1. Shortened(c.stream_states[s], d.taken[s], states[s])
        BY <1>2, <3>1, TakesBound, SendingShortens
      <4>2. QED
        BY <4>1 DEF Shortened
    <3>2. CASE ~Sent(s)
      BY <3>2 DEF Connection
    <3>3. QED
      BY <3>1, <3>2
  <2>2. QED
    BY <2>1
<1>4. sends \in [Streams -> {"unused", "open", "fin", "shut"}]
  BY DEF Connection
<1>5. /\ c2 \in Connection
      /\ c2.stream_states = states /\ c2.send = sends
      /\ c2.state = c.state /\ c2.server = c.server /\ c2.peer_id = c.peer_id
      /\ c2.expected = c.expected /\ c2.cert = c.cert
      /\ c2.next_local_bidi_stream_id = c.next_local_bidi_stream_id
      /\ c2.established = c.established /\ c2.closed = c.closed /\ c2.recv = c.recv
  <2> HIDE DEF states, sends
  <2>1. QED
    BY <1>3, <1>4 DEF Connection
<1>6. ASSUME NEW s \in Streams PROVE DrainedStream(c, d, s, c2)
  <2>1. states[s] = (IF Sent(s) THEN Sending(c.stream_states[s], d.taken[s])
                     ELSE c.stream_states[s])
        /\ sends[s] = (IF ~Sent(s) \/ c.send[s] = "shut" THEN c.send[s]
                       ELSE IF Pending(c, s)[d.taken[s]] = "fin" THEN "fin" ELSE "open")
    OBVIOUS
  <2> HIDE DEF states, sends, c2
  <2>2. CASE c.stream_states[s] = None \/ d.taken[s] = 0
    BY <1>5, <2>1, <2>2 DEF DrainedStream
  <2>3. CASE c.stream_states[s] # None /\ d.taken[s] # 0
    <3>1. Sent(s) /\ d.taken[s] \in 1 .. Len(c.stream_states[s].pending_writes)
      BY <2>3, TakesBound
    <3>2. Pending(c, s) = c.stream_states[s].pending_writes
      BY <2>3 DEF Pending
    <3>3. Shortened(c.stream_states[s], d.taken[s], Sending(c.stream_states[s], d.taken[s]))
      BY <1>2, <2>3, <3>1, SendingShortens
    <3>4. c.send[s] \in {"fin", "shut"} =>
            d.taken[s] = 1 /\ c.stream_states[s].pending_writes[d.taken[s]] = "fin"
      BY <2>3, TakesBound
    <3>5. QED
      BY <1>5, <2>1, <2>3, <3>1, <3>2, <3>3, <3>4 DEF DrainedStream
  <2>4. QED
    BY <2>2, <2>3
<1>7. QED
  <2> HIDE DEF c2
  <2>1. QED
    BY <1>1, <1>5, <1>6 DEF Drained

-----------------------------------------------------------------------------
(* The invariant of one connection.                                        *)

\* A queue of writes with the FIN, if any, behind all bytes.
EndsWithFin(w) == w # << >> /\ w[Len(w)] = "fin"
FinIsLast(w) == \A i \in DOMAIN w : w[i] = "fin" => i = Len(w)

\* What holds of every stream of a connection, told or not: the FIN of a
\* stream whose write side the host has closed is queued until quiche has it;
\* nothing is read behind the end of the remote's side; a reported stream is
\* closed on both sides; a stream of the remote that has a state is announced.
StreamOK(c, s) ==
    LET st == c.stream_states[s]
        w  == Pending(c, s)
    IN  /\ FinIsLast(w)
        /\ c.recv[s].end \in {"reset", "read"} => ~c.recv[s].data
        /\ st # None =>
             /\ EndsWithFin(w) => st.local_write_closed
             /\ c.send[s] \in {"unused", "open"} /\ st.local_write_closed => EndsWithFin(w)
             /\ st.remote_write_closed => c.recv[s].end = "read"
             /\ st.closed_notified => st.local_write_closed /\ st.remote_write_closed
             /\ ~IsLocalInitiated(c, s) => st.incoming_notified

\* The certificate is the right one unless there are impostors, and until it is
\* looked at the endpoint names the peer that was dialed.
Genuine(c) ==
    /\ Impostors \/ ProvesPeer(c)
    /\ c.state = "Connecting" => c.peer_id = c.expected

ConnOK(c) ==
    /\ c \in Connection
    /\ c.next_local_bidi_stream_id % 2 = 1 <=> c.server
    /\ Genuine(c)
    /\ \A s \in Streams : StreamOK(c, s)

\* What a connection is to prove, and to whom, is settled when it is made.
SamePeer(c, c2) ==
    /\ c2.expected = c.expected /\ c2.cert = c.cert /\ c2.peer_id = c.peer_id
    /\ c2.state \in {c.state, "Connected", "Closing"}

\* Steps of that kind keep what is known of the certificate.
LEMMA GenuineSame ==
    ASSUME NEW c, NEW c2, Genuine(c), SamePeer(c, c2)
    PROVE  Genuine(c2)
BY DEF Genuine, SamePeer, ProvesPeer

\* Without impostors no connection in its handshake will be refused.
LEMMA GenuineAccepted ==
    ASSUME NEW c, ConnOK(c), c.state = "Connecting", ~Impostors
    PROVE  ~Refuses(c)
BY DEF ConnOK, Genuine, ProvesPeer, Refuses

\* StreamOK looks at one stream only.
LEMMA StreamOKSame ==
    ASSUME NEW c, NEW c2, NEW s, StreamOK(c, s), c2.stream_states[s] = c.stream_states[s],
           c2.recv[s] = c.recv[s], c2.send[s] = c.send[s], c2.server = c.server
    PROVE  StreamOK(c2, s)
BY DEF StreamOK, Pending, IsLocalInitiated

\* The queue that is left of a queue.
LEMMA ShortenedQueue ==
    ASSUME NEW w \in Seq({"byte", "fin"}), NEW k \in 0 .. Len(w), FinIsLast(w)
    PROVE  LET v == SubSeq(w, k + 1, Len(w))
           IN  /\ FinIsLast(v)
               /\ EndsWithFin(v) <=> EndsWithFin(w) /\ k < Len(w)
<1> DEFINE v == SubSeq(w, k + 1, Len(w))
<1>1. /\ v \in Seq({"byte", "fin"}) /\ Len(v) = Len(w) - k
      /\ \A i \in 1 .. Len(v) : v[i] = w[k + i]
  BY SubSeqProperties
<1>2. Len(w) \in Nat /\ DOMAIN w = 1 .. Len(w) /\ Len(v) \in Nat /\ DOMAIN v = 1 .. Len(v)
  BY <1>1
<1> HIDE DEF v
<1>3. FinIsLast(v)
  <2>1. ASSUME NEW i \in 1 .. Len(v), v[i] = "fin" PROVE i = Len(v)
    <3>1. k + i \in 1 .. Len(w) /\ w[k + i] = "fin"
      BY <1>1, <1>2, <2>1
    <3>2. k + i = Len(w)
      BY <1>2, <3>1 DEF FinIsLast
    <3>3. Len(v) = Len(w) - k /\ k \in Nat /\ i \in Nat /\ Len(w) \in Nat
      BY <1>1, <1>2, <2>1
    <3> HIDE DEF v
    <3>4. QED
      BY <3>2, <3>3
  <2>2. QED
    BY <1>2, <2>1 DEF FinIsLast
<1>4. CASE k = Len(w)
  <2>1. v = << >>
    BY <1>1, <1>4, EmptySeq
  <2>2. QED
    BY <1>3, <1>4, <2>1 DEF EndsWithFin, v
<1>5. CASE k < Len(w)
  <2>1. v # << >> /\ w # << >> /\ v[Len(v)] = w[Len(w)]
    BY <1>1, <1>2, <1>5
  <2>2. QED
    BY <1>3, <1>5, <2>1 DEF EndsWithFin, v
<1>6. QED
  BY <1>4, <1>5

\* drain_send_queue keeps the invariant of each stream.
LEMMA DrainKeepsStream ==
    ASSUME NEW c \in Connection, NEW c2 \in Connection, NEW d, NEW s \in Streams,
           StreamOK(c, s), DrainedStream(c, d, s, c2), c2.recv = c.recv, c2.server = c.server
    PROVE  StreamOK(c2, s)
<1> DEFINE st == c.stream_states[s]
           st2 == c2.stream_states[s]
           k == d.taken[s]
<1>1. CASE st = None \/ k = 0
  BY <1>1, StreamOKSame DEF DrainedStream
<1>2. CASE ~(st = None \/ k = 0)
  <2>1. /\ st \in StreamRuntimeState /\ st.pending_writes \in Seq({"byte", "fin"})
        /\ c.send[s] \in {"unused", "open", "fin", "shut"}
    BY <1>2 DEF Connection, StreamRuntimeState
  <2>2. /\ k \in 1 .. Len(st.pending_writes)
        /\ Shortened(st, k, st2)
        /\ c2.send[s] = IF c.send[s] = "shut" THEN "shut"
                        ELSE IF st.pending_writes[k] = "fin" THEN "fin" ELSE "open"
        /\ c.send[s] \in {"fin", "shut"} => k = 1 /\ st.pending_writes[k] = "fin"
    BY <1>2 DEF DrainedStream
  <2>3. st2 # None
    BY <2>2, QuicConnectionAssumption DEF Shortened
  <2>4. Pending(c, s) = st.pending_writes /\ Pending(c2, s) = st2.pending_writes
    BY <1>2, <2>3 DEF Pending
  <2>5. FinIsLast(st.pending_writes)
    BY <2>4 DEF StreamOK
  <2>6. /\ FinIsLast(st2.pending_writes)
        /\ EndsWithFin(st2.pending_writes)
              <=> EndsWithFin(st.pending_writes) /\ k < Len(st.pending_writes)
    BY <2>1, <2>2, <2>5, ShortenedQueue DEF Shortened
  <2>7. c2.send[s] \in {"unused", "open"} =>
          /\ c.send[s] \in {"unused", "open"}
          /\ EndsWithFin(st.pending_writes) => k < Len(st.pending_writes)
    BY <2>1, <2>2 DEF EndsWithFin
  <2>8. /\ st2.local_write_closed = st.local_write_closed
        /\ st2.remote_write_closed = st.remote_write_closed
        /\ st2.incoming_notified = st.incoming_notified
        /\ st2.closed_notified = (st.closed_notified \/ NoteStreamClosedIfFinished(st))
    BY <2>2 DEF Shortened
  <2>9. NoteStreamClosedIfFinished(st) => st.local_write_closed /\ st.remote_write_closed
    BY DEF NoteStreamClosedIfFinished, IsFullyClosed
  <2>10. /\ EndsWithFin(st.pending_writes) => st.local_write_closed
         /\ c.send[s] \in {"unused", "open"} /\ st.local_write_closed
              => EndsWithFin(st.pending_writes)
         /\ st.remote_write_closed => c.recv[s].end = "read"
         /\ st.closed_notified => st.local_write_closed /\ st.remote_write_closed
         /\ ~IsLocalInitiated(c, s) => st.incoming_notified
         /\ c.recv[s].end \in {"reset", "read"} => ~c.recv[s].data
    BY <1>2, <2>4 DEF StreamOK
  <2>11. IsLocalInitiated(c2, s) = IsLocalInitiated(c, s)
    BY DEF IsLocalInitiated
  <2>12. QED
    BY <2>4, <2>6, <2>7, <2>8, <2>9, <2>10, <2>11 DEF StreamOK
<1>3. QED
  BY <1>1, <1>2

\* drain_send_queue, and every other step that sends what Drained allows, keeps
\* the invariant of the connection.
LEMMA DrainKeepsOK ==
    ASSUME NEW c, ConnOK(c), NEW d, NEW c2, Drained(c, d, c2)
    PROVE  ConnOK(c2)
<1>1. c \in Connection /\ c2 \in Connection
  BY DEF ConnOK, Drained
<1>2. ASSUME NEW s \in Streams PROVE StreamOK(c2, s)
  BY <1>1, DrainKeepsStream DEF ConnOK, Drained
<1>3. Genuine(c2)
  BY GenuineSame DEF ConnOK, Drained, SamePeer
<1>4. QED
  BY <1>1, <1>2, <1>3 DEF ConnOK, Drained

\* Fields that no stream depends on.
LEMMA OtherFieldsKeepOK ==
    ASSUME NEW c, ConnOK(c), NEW c2 \in Connection, Genuine(c2),
           c2.stream_states = c.stream_states, c2.recv = c.recv, c2.send = c.send,
           c2.server = c.server,
           c2.next_local_bidi_stream_id = c.next_local_bidi_stream_id
    PROVE  ConnOK(c2)
<1>1. ASSUME NEW s \in Streams PROVE StreamOK(c2, s)
  BY StreamOKSame DEF ConnOK
<1>2. QED
  BY <1>1 DEF ConnOK

\* QuicConnection::new: a connection starts without streams.
LEMMA NewOK ==
    ASSUME NEW server \in BOOLEAN, NEW p \in Peers \cup {None}, NEW cert \in Certificates(p)
    PROVE  ConnOK(New(server, p, cert))
<1> DEFINE c == New(server, p, cert)
<1>a. cert \in Peers \cup {None}
  BY DEF Certificates
<1>b. Genuine(c)
  BY QuicConnectionAssumption DEF Genuine, ProvesPeer, Certificates, New
<1>1. c \in Connection
  BY <1>a DEF New, Connection, ConnectionState, Receiving
<1>2. c.next_local_bidi_stream_id % 2 = 1 <=> c.server
  BY DEF New
<1>3. ASSUME NEW s \in Streams PROVE StreamOK(c, s)
  BY DEF New, StreamOK, Pending, FinIsLast
<1>4. QED
  BY <1>b, <1>1, <1>2, <1>3 DEF ConnOK

\* drain_send_queue keeps the invariant of the connection.
LEMMA DrainOK ==
    ASSUME NEW c, ConnOK(c), NEW d, DrainChoice(c, d)
    PROVE  ConnOK(DrainSendQueue(c, d).conn)
BY DrainConn, DrainKeepsOK DEF ConnOK

\* What a datagram does to the receiving side of stream s.
InputStream(c, s, c2) ==
    /\ c2 \in Connection
    /\ c2 = [c EXCEPT !.recv = c2.recv]
    /\ \A t \in Streams : t # s => c2.recv[t] = c.recv[t]
    /\ c.recv[s].end = "read" => c2.recv[s] = c.recv[s]
    /\ c.recv[s].end # "read" => c2.recv[s].end # "read"
    /\ c2.recv[s].end = "reset" => ~c2.recv[s].data \/ c2.recv[s] = c.recv[s]

\* The bytes, FINs and RESETs of a packet go to one stream of quiche.
LEMMA InputEffect ==
    ASSUME NEW c \in Connection, NEW s \in Streams, NEW unit
    PROVE  InputStream(c, s, StreamInput(c, s, unit))
<1> DEFINE r == c.recv[s]
           r2 == CASE r.end = "no" /\ unit = "data"             -> [r EXCEPT !.data = TRUE]
                   [] r.end = "no" /\ unit = "fin"              -> [r EXCEPT !.end = "fin"]
                   [] r.end \in {"no", "fin"} /\ unit = "reset" -> [data |-> FALSE, end |-> "reset"]
                   [] OTHER                                     -> r
           c2 == [c EXCEPT !.recv[s] = r2]
<1>1. StreamInput(c, s, unit) = c2
  BY DEF StreamInput
<1>2. r \in Receiving
  BY DEF Connection
<1>3. /\ r2 \in Receiving
      /\ r.end = "read" => r2 = r
      /\ r.end # "read" => r2.end # "read"
      /\ r2.end = "reset" => ~r2.data \/ r2 = r
  BY <1>2 DEF Receiving
<1> HIDE DEF r2
<1>4. c2 \in Connection /\ c2.recv = [c.recv EXCEPT ![s] = r2]
  BY <1>3 DEF Connection
<1>5. c2 = [c EXCEPT !.recv = c2.recv]
  BY <1>4 DEF Connection
<1>6. c2.recv[s] = r2 /\ \A t \in Streams : t # s => c2.recv[t] = c.recv[t]
  BY <1>4 DEF Connection
<1> HIDE DEF c2
<1>7. QED
  BY <1>1, <1>3, <1>4, <1>5, <1>6 DEF InputStream

\* What arrives for a stream keeps the invariant of the connection.
LEMMA InputOK ==
    ASSUME NEW c, ConnOK(c), NEW s \in Streams, NEW unit
    PROVE  ConnOK(StreamInput(c, s, unit))
<1> DEFINE c2 == StreamInput(c, s, unit)
<1>1. InputStream(c, s, c2)
  BY InputEffect DEF ConnOK
<1> HIDE DEF c2
<1>2. /\ c \in Connection /\ c2 \in Connection
      /\ c2.stream_states = c.stream_states /\ c2.send = c.send /\ c2.server = c.server
      /\ c2.next_local_bidi_stream_id = c.next_local_bidi_stream_id
      /\ SamePeer(c, c2)
  <2>1. c \in Connection /\ c2 \in Connection /\ c2 = [c EXCEPT !.recv = c2.recv]
    BY <1>1 DEF InputStream, ConnOK
  <2>2. QED
    BY <2>1 DEF Connection, SamePeer
<1>3. ASSUME NEW t \in Streams PROVE StreamOK(c2, t)
  <2>1. StreamOK(c, t)
    BY DEF ConnOK
  <2>2. CASE t # s
    BY <1>1, <1>2, <2>1, <2>2, StreamOKSame DEF InputStream
  <2>3. CASE t = s
    BY <1>1, <1>2, <2>1, <2>3 DEF StreamOK, Pending, IsLocalInitiated, InputStream
  <2>4. QED
    BY <2>2, <2>3
<1>4. Genuine(c2)
  BY <1>2, GenuineSame DEF ConnOK
<1>5. QED
  BY <1>2, <1>3, <1>4 DEF ConnOK, c2

\* recv_packet keeps the invariant: it may finish the handshake, notice the
\* closing and flush what waited to be written.
LEMMA RecvPacketOK ==
    ASSUME NEW c, ConnOK(c), NEW d, DrainChoice(c, d), NEW flushed \in BOOLEAN
    PROVE  ConnOK(RecvPacket(c, d, flushed).conn)
<1> DEFINE c1 == [c EXCEPT !.state = "Connected"]
           r == DrainSendQueue(c1, d)
<1>1. /\ c \in Connection /\ c1 \in Connection
      /\ c1.stream_states = c.stream_states /\ c1.recv = c.recv /\ c1.send = c.send
      /\ c1.server = c.server /\ c1.next_local_bidi_stream_id = c.next_local_bidi_stream_id
      /\ SamePeer(c, c1) /\ c1.state = "Connected"
  BY DEF ConnOK, Connection, ConnectionState, SamePeer
<1>2. ConnOK(c1)
  <2>1. Genuine(c1)
    BY <1>1, GenuineSame DEF ConnOK
  <2>2. QED
    BY <1>1, <2>1, OtherFieldsKeepOK
<1>3. ConnOK(r.conn) /\ r.conn.state = "Connected"
  <2>1. DrainChoice(c1, d)
    BY <1>1, SameChoices
  <2>2. QED
    BY <1>1, <1>2, <2>1, DrainOK, DrainConn DEF Drained
<1> DEFINE c2 == r.conn
<1>4. ConnOK([c2 EXCEPT !.state = "Closing"])
  <2> HIDE DEF c2
  <2> DEFINE c3 == [c2 EXCEPT !.state = "Closing"]
  <2>1. /\ c3 \in Connection
        /\ c3.stream_states = c2.stream_states /\ c3.recv = c2.recv /\ c3.send = c2.send
        /\ c3.server = c2.server /\ c3.next_local_bidi_stream_id = c2.next_local_bidi_stream_id
        /\ SamePeer(c2, c3)
    BY <1>3 DEF ConnOK, Connection, ConnectionState, SamePeer, c2
  <2>2. Genuine(c3)
    BY <1>3, <2>1, GenuineSame DEF ConnOK, c2
  <2>3. QED
    BY <1>3, <2>1, <2>2, OtherFieldsKeepOK DEF c2
<1>5. ConnOK([c2 EXCEPT !.peer_id = c.cert])
  <2> HIDE DEF c2
  <2> DEFINE c3 == [c2 EXCEPT !.peer_id = c.cert]
  <2>1. /\ c3 \in Connection
        /\ c3.stream_states = c2.stream_states /\ c3.recv = c2.recv /\ c3.send = c2.send
        /\ c3.server = c2.server /\ c3.next_local_bidi_stream_id = c2.next_local_bidi_stream_id
        /\ c3.state = "Connected" /\ c3.cert = c2.cert /\ c3.expected = c2.expected
    BY <1>1, <1>3 DEF ConnOK, Connection, c2
  <2>2. Genuine(c3)
    BY <1>3, <2>1 DEF ConnOK, Genuine, ProvesPeer, c2
  <2>3. QED
    BY <1>3, <2>1, <2>2, OtherFieldsKeepOK DEF c2
<1>6. ConnOK(HandshakeDone(c, d, flushed).conn)
  <2> HIDE DEF c1
  <2>1. \/ HandshakeDone(c, d, flushed).conn = r.conn
        \/ HandshakeDone(c, d, flushed).conn = [r.conn EXCEPT !.state = "Closing"]
        \/ HandshakeDone(c, d, flushed).conn = [r.conn EXCEPT !.peer_id = c.cert]
    BY DEF HandshakeDone, Ok, Err, c1
  <2>2. QED
    BY <1>3, <1>4, <1>5, <2>1
<1>7. QED
  BY <1>6, DrainOK DEF RecvPacket

\* StreamRuntimeState::default() is a state, and not an absent entry.
LEMMA DefaultStreamType == DefaultStream \in StreamRuntimeState /\ DefaultStream # None
<1>1. DefaultStream \in StreamRuntimeState
  BY DEF DefaultStream, StreamRuntimeState
<1>2. QED
  BY <1>1, QuicConnectionAssumption

\* A stream without a state gets one.
LEMMA CreateOK ==
    ASSUME NEW c, ConnOK(c), NEW s \in Streams, c.stream_states[s] = None,
           IsLocalInitiated(c, s), NEW c2 \in Connection, SamePeer(c, c2),
           c2.stream_states = [c.stream_states EXCEPT ![s] = DefaultStream],
           c2.recv = c.recv, c2.send = c.send, c2.server = c.server,
           c2.next_local_bidi_stream_id % 2 = c.next_local_bidi_stream_id % 2
    PROVE  ConnOK(c2)
<1>1. c.stream_states \in [Streams -> StreamRuntimeState \cup {None}]
  BY DEF ConnOK, Connection
<1>2. ASSUME NEW t \in Streams PROVE StreamOK(c2, t)
  <2>1. StreamOK(c, t)
    BY DEF ConnOK
  <2>2. CASE t # s
    BY <1>1, <2>1, <2>2, StreamOKSame
  <2>3. CASE t = s
    <3>1. c2.stream_states[s] = DefaultStream /\ Pending(c2, s) = << >>
      BY <1>1, DefaultStreamType DEF Pending, DefaultStream
    <3>2. IsLocalInitiated(c2, s)
      BY DEF IsLocalInitiated
    <3>3. FinIsLast(Pending(c2, s)) /\ ~EndsWithFin(Pending(c2, s))
      BY <3>1 DEF FinIsLast, EndsWithFin
    <3>4. QED
      BY <2>1, <2>3, <3>1, <3>2, <3>3 DEF StreamOK, DefaultStream
  <2>4. QED
    BY <2>2, <2>3
<1>3. Genuine(c2)
  BY GenuineSame DEF ConnOK
<1>4. QED
  BY <1>2, <1>3 DEF ConnOK

\* open_stream keeps the invariant: the new id was in use by neither side.
LEMMA OpenStreamOK ==
    ASSUME NEW c, ConnOK(c), CanOpen(c)
    PROVE  ConnOK(OpenStream(c).conn)
<1> DEFINE s == c.next_local_bidi_stream_id
           c1 == [c EXCEPT !.next_local_bidi_stream_id = @ + 4]
           c2 == [c1 EXCEPT !.stream_states[s] = DefaultStream]
<1>1. s \in Streams /\ s \in Nat /\ c \in Connection
  BY DEF CanOpen, ConnOK, Connection
<1>2. (s + 4) % 2 = s % 2
  BY <1>1
<1>3. /\ c1 \in Connection
      /\ c1.stream_states = c.stream_states /\ c1.recv = c.recv /\ c1.send = c.send
      /\ c1.server = c.server /\ c1.next_local_bidi_stream_id = s + 4
      /\ SamePeer(c, c1)
  BY <1>1 DEF Connection, SamePeer
<1>4. IsLocalInitiated(c, s) /\ IsLocalInitiated(c1, s)
  BY <1>3 DEF ConnOK, IsLocalInitiated
<1>5. ConnOK(c1)
  <2>1. ASSUME NEW t \in Streams PROVE StreamOK(c1, t)
    BY <1>3, StreamOKSame DEF ConnOK
  <2>2. Genuine(c1)
    BY <1>3, GenuineSame DEF ConnOK
  <2> HIDE DEF c1
  <2>3. QED
    BY <1>2, <1>3, <2>1, <2>2 DEF ConnOK
<1>6. CASE c.stream_states[s] # None
  BY <1>5, <1>6 DEF OpenStream, Err
<1>7. CASE c.stream_states[s] = None
  <2>1. OpenStream(c).conn = c2
    BY <1>7 DEF OpenStream, Ok
  <2> HIDE DEF c1
  <2>2. /\ c2 \in Connection
        /\ c2.stream_states = [c1.stream_states EXCEPT ![s] = DefaultStream]
        /\ c2.recv = c1.recv /\ c2.send = c1.send /\ c2.server = c1.server
        /\ c2.next_local_bidi_stream_id = c1.next_local_bidi_stream_id
        /\ SamePeer(c1, c2)
    BY <1>1, <1>3, DefaultStreamType DEF Connection, SamePeer
  <2> HIDE DEF c2
  <2>3. QED
    BY <1>1, <1>3, <1>4, <1>5, <1>7, <2>1, <2>2, CreateOK
<1>8. QED
  BY <1>6, <1>7

\* get_or_create_local_stream_state
LEMMA GetOrCreateOK ==
    ASSUME NEW c, ConnOK(c), NEW s \in Streams, HasOrCreates(c, s)
    PROVE  LET c1 == GetOrCreate(c, s)
           IN  /\ ConnOK(c1)
               /\ c1.stream_states[s] # None
               /\ c1.stream_states =
                    IF c.stream_states[s] # None THEN c.stream_states
                    ELSE [c.stream_states EXCEPT ![s] = DefaultStream]
               /\ c1 = [c EXCEPT !.stream_states = c1.stream_states]
<1> DEFINE c1 == GetOrCreate(c, s)
<1>1. c \in Connection
  BY DEF ConnOK
<1>2. CASE c.stream_states[s] # None
  <2>1. c1 = c
    BY <1>2 DEF GetOrCreate
  <2>2. c = [c EXCEPT !.stream_states = c.stream_states]
    BY <1>1 DEF Connection
  <2>3. QED
    BY <1>2, <2>1, <2>2
<1>3. CASE c.stream_states[s] = None
  <2>1. c1 = [c EXCEPT !.stream_states[s] = DefaultStream]
    BY <1>3 DEF GetOrCreate
  <2>2. IsLocalInitiated(c, s)
    BY <1>3 DEF HasOrCreates
  <2> HIDE DEF c1
  <2>3. /\ c1 \in Connection
        /\ c1.stream_states = [c.stream_states EXCEPT ![s] = DefaultStream]
        /\ c1.recv = c.recv /\ c1.send = c.send /\ c1.server = c.server
        /\ c1.next_local_bidi_stream_id = c.next_local_bidi_stream_id
        /\ c1 = [c EXCEPT !.stream_states = c1.stream_states]
        /\ c1.stream_states[s] = DefaultStream
        /\ SamePeer(c, c1)
    BY <1>1, <2>1, DefaultStreamType DEF Connection, SamePeer
  <2>4. ConnOK(c1)
    BY <1>3, <2>2, <2>3, CreateOK
  <2>5. QED
    BY <1>3, <2>3, <2>4, DefaultStreamType DEF c1
<1>4. QED
  BY <1>2, <1>3

\* c2 is c with other writes queued on stream s.
Requeued(c, s, c2) ==
    /\ c2 \in Connection
    /\ c2 = [c EXCEPT !.stream_states = c2.stream_states]
    /\ \A t \in Streams : t # s => c2.stream_states[t] = c.stream_states[t]
    /\ c2.stream_states[s] # None
    /\ LET st == IF c.stream_states[s] = None THEN DefaultStream ELSE c.stream_states[s]
           st2 == c2.stream_states[s]
       IN  /\ st2.remote_write_closed = st.remote_write_closed
           /\ st2.incoming_notified = st.incoming_notified
           /\ st2.closed_notified = st.closed_notified
           /\ st.local_write_closed => st2.local_write_closed

\* Behind a queue without FIN.
LEMMA QueueGrows ==
    ASSUME NEW w \in Seq({"byte", "fin"}), FinIsLast(w), ~EndsWithFin(w),
           NEW v \in Seq({"byte", "fin"}), FinIsLast(v), v # << >>
    PROVE  /\ w \o v \in Seq({"byte", "fin"})
           /\ FinIsLast(w \o v)
           /\ EndsWithFin(w \o v) <=> EndsWithFin(v)
<1> DEFINE u == w \o v
<1>1. /\ u \in Seq({"byte", "fin"}) /\ Len(u) = Len(w) + Len(v)
      /\ \A i \in 1 .. Len(w) : u[i] = w[i]
      /\ \A i \in 1 .. Len(v) : u[Len(w) + i] = v[i]
  BY ConcatProperties
<1>2. /\ Len(w) \in Nat /\ Len(v) \in Nat /\ Len(v) # 0 /\ Len(u) \in Nat
      /\ DOMAIN w = 1 .. Len(w) /\ DOMAIN v = 1 .. Len(v) /\ DOMAIN u = 1 .. Len(u)
  BY <1>1
<1> HIDE DEF u
<1>3. \A i \in 1 .. Len(w) : w[i] # "fin"
  <2>1. ASSUME NEW i \in 1 .. Len(w), w[i] = "fin" PROVE FALSE
    <3>1. i = Len(w)
      BY <1>2, <2>1 DEF FinIsLast
    <3>2. w # << >>
      BY <2>1
    <3>3. QED
      BY <2>1, <3>1, <3>2 DEF EndsWithFin
  <2>2. QED
    BY <2>1
<1>4. u # << >> /\ u[Len(u)] = v[Len(v)]
  BY <1>1, <1>2
<1>5. FinIsLast(u)
  <2>1. ASSUME NEW i \in 1 .. Len(u), u[i] = "fin" PROVE i = Len(u)
    <3>1. i > Len(w)
      BY <1>1, <1>2, <1>3, <2>1
    <3>2. i - Len(w) \in 1 .. Len(v)
      BY <1>1, <1>2, <2>1, <3>1
    <3>3. v[i - Len(w)] = "fin"
      <4>1. u[Len(w) + (i - Len(w))] = v[i - Len(w)]
        BY <1>1, <3>2
      <4>2. Len(w) + (i - Len(w)) = i
        BY <1>2, <2>1
      <4>3. QED
        BY <2>1, <4>1, <4>2
    <3>4. i - Len(w) = Len(v)
      BY <1>2, <3>2, <3>3 DEF FinIsLast
    <3>5. QED
      BY <1>1, <1>2, <2>1, <3>4
  <2>2. QED
    BY <1>2, <2>1 DEF FinIsLast
<1>6. QED
  BY <1>1, <1>4, <1>5 DEF EndsWithFin, u

\* send_stream and close_stream_write as one: v is queued, and a FIN in it
\* closes the local side.
QueueUnits(c, s, v) ==
    LET c1 == GetOrCreate(c, s)
        st == c1.stream_states[s]
    IN  [c1 EXCEPT !.stream_states =
           [c1.stream_states EXCEPT ![s] =
              [st EXCEPT !.local_write_closed = EndsWithFin(v),
                         !.pending_writes = st.pending_writes \o v]]]

\* A write of v, with or without FIN, keeps the invariant.
LEMMA QueueOK ==
    ASSUME NEW c, ConnOK(c), NEW s \in Streams, MayWrite(c, s),
           NEW v \in Seq({"byte", "fin"}), FinIsLast(v), v # << >>,
           NEW c2, c2 = QueueUnits(c, s, v)
    PROVE  ConnOK(c2) /\ Requeued(c, s, c2)
<1> DEFINE c1 == GetOrCreate(c, s)
           st == c1.stream_states[s]
           u == st.pending_writes \o v
           fin == EndsWithFin(v)
           st2 == [st EXCEPT !.local_write_closed = fin, !.pending_writes = u]
<1>1. /\ ConnOK(c1)
      /\ c1.stream_states[s] # None
      /\ c1.stream_states = IF c.stream_states[s] # None THEN c.stream_states
                            ELSE [c.stream_states EXCEPT ![s] = DefaultStream]
      /\ c1 = [c EXCEPT !.stream_states = c1.stream_states]
  BY GetOrCreateOK DEF MayWrite
<1>2. c2 = [c1 EXCEPT !.stream_states = [c1.stream_states EXCEPT ![s] = st2]]
  BY DEF QueueUnits
<1>3. ~st.local_write_closed
  BY DEF MayWrite
<1> HIDE DEF c1
<1>4. c \in Connection /\ c1 \in Connection /\ st \in StreamRuntimeState
  BY <1>1 DEF ConnOK, Connection
<1>5. st.pending_writes \in Seq({"byte", "fin"}) /\ fin \in BOOLEAN
  BY <1>4 DEF StreamRuntimeState, EndsWithFin
<1>6. Pending(c1, s) = st.pending_writes
  BY <1>1 DEF Pending
<1>7. /\ FinIsLast(st.pending_writes) /\ ~EndsWithFin(st.pending_writes)
      /\ st.remote_write_closed => c1.recv[s].end = "read"
      /\ ~st.closed_notified
      /\ ~IsLocalInitiated(c1, s) => st.incoming_notified
      /\ c1.recv[s].end \in {"reset", "read"} => ~c1.recv[s].data
  BY <1>1, <1>3, <1>6 DEF ConnOK, StreamOK
<1>8. u \in Seq({"byte", "fin"}) /\ FinIsLast(u) /\ (EndsWithFin(u) <=> fin)
  BY <1>5, <1>7, QueueGrows
<1> HIDE DEF u, fin
<1>9. /\ st2 \in StreamRuntimeState /\ st2 # None
      /\ st2.pending_writes = u /\ st2.local_write_closed = fin
      /\ st2.remote_write_closed = st.remote_write_closed
      /\ st2.incoming_notified = st.incoming_notified
      /\ st2.closed_notified = st.closed_notified
  <2>1. /\ st2 \in StreamRuntimeState
        /\ st2.pending_writes = u /\ st2.local_write_closed = fin
        /\ st2.remote_write_closed = st.remote_write_closed
        /\ st2.incoming_notified = st.incoming_notified
        /\ st2.closed_notified = st.closed_notified
    BY <1>4, <1>5, <1>8 DEF StreamRuntimeState
  <2>2. QED
    BY <2>1, QuicConnectionAssumption
<1> HIDE DEF st2
<1>10. /\ c2 \in Connection
       /\ c2.stream_states = [c1.stream_states EXCEPT ![s] = st2]
       /\ c2.recv = c1.recv /\ c2.send = c1.send /\ c2.server = c1.server
       /\ c2.next_local_bidi_stream_id = c1.next_local_bidi_stream_id
       /\ SamePeer(c1, c2)
       /\ c2.stream_states[s] = st2
       /\ \A t \in Streams : t # s => c2.stream_states[t] = c1.stream_states[t]
  <2> DEFINE states == [c1.stream_states EXCEPT ![s] = st2]
  <2>1. c1.stream_states \in [Streams -> StreamRuntimeState \cup {None}]
    BY <1>4 DEF Connection
  <2>2. /\ states \in [Streams -> StreamRuntimeState \cup {None}]
        /\ states[s] = st2
        /\ \A t \in Streams : t # s => states[t] = c1.stream_states[t]
    BY <1>9, <2>1
  <2>3. c2 = [c1 EXCEPT !.stream_states = states]
    BY <1>2
  <2> HIDE DEF states
  <2>4. /\ c2 \in Connection
        /\ c2.stream_states = states
        /\ c2.recv = c1.recv /\ c2.send = c1.send /\ c2.server = c1.server
        /\ c2.next_local_bidi_stream_id = c1.next_local_bidi_stream_id
        /\ SamePeer(c1, c2)
    BY <1>4, <2>2, <2>3 DEF Connection, SamePeer
  <2>5. QED
    BY <2>2, <2>4 DEF states
<1>11. ASSUME NEW t \in Streams PROVE StreamOK(c2, t)
  <2>1. StreamOK(c1, t)
    BY <1>1 DEF ConnOK
  <2>2. CASE t # s
    BY <1>10, <2>1, <2>2, StreamOKSame
  <2>3. CASE t = s
    <3>1. Pending(c2, s) = u /\ IsLocalInitiated(c2, s) = IsLocalInitiated(c1, s)
      BY <1>9, <1>10 DEF Pending, IsLocalInitiated
    <3>2. QED
      BY <1>7, <1>8, <1>9, <1>10, <2>3, <3>1 DEF StreamOK
  <2>4. QED
    BY <2>2, <2>3
<1>12. ConnOK(c2)
  <2>1. Genuine(c2)
    BY <1>1, <1>10, GenuineSame DEF ConnOK
  <2>2. QED
    BY <1>1, <1>10, <1>11, <2>1 DEF ConnOK
<1>13. Requeued(c, s, c2)
  <2>1. c2 = [c EXCEPT !.stream_states = c2.stream_states]
    BY <1>1, <1>2, <1>4, <1>10 DEF Connection
  <2>2. \A t \in Streams : t # s => c2.stream_states[t] = c.stream_states[t]
    BY <1>1, <1>4, <1>10 DEF Connection
  <2>3. st = IF c.stream_states[s] = None THEN DefaultStream ELSE c.stream_states[s]
    BY <1>1, <1>4 DEF Connection
  <2> HIDE DEF st
  <2>4. QED
    BY <1>3, <1>9, <1>10, <2>1, <2>2, <2>3 DEF Requeued
<1>14. QED
  BY <1>12, <1>13

\* stream_send with data queues the bytes behind the bytes that wait.
LEMMA QueueBytesUnits ==
    ASSUME NEW c, ConnOK(c), NEW s \in Streams, MayWrite(c, s), NEW n \in Nat \ {0}
    PROVE  ConnOK(QueueBytes(c, s, n)) /\ Requeued(c, s, QueueBytes(c, s, n))
<1> DEFINE v == [i \in 1 .. n |-> "byte"]
           c1 == GetOrCreate(c, s)
           st == c1.stream_states[s]
<1>1. v \in Seq({"byte", "fin"}) /\ v # << >> /\ FinIsLast(v) /\ ~EndsWithFin(v)
  <2>1. v \in Seq({"byte", "fin"}) /\ Len(v) = n /\ DOMAIN v = 1 .. n
    OBVIOUS
  <2>2. v # << >>
    BY <2>1
  <2>3. \A i \in 1 .. n : v[i] # "fin"
    OBVIOUS
  <2> HIDE DEF v
  <2>4. QED
    BY <2>1, <2>2, <2>3 DEF FinIsLast, EndsWithFin
<1>2. ConnOK(c1) /\ st # None /\ ~st.local_write_closed
  BY GetOrCreateOK DEF MayWrite
<1>3. c1 \in Connection /\ st \in StreamRuntimeState
  BY <1>2 DEF ConnOK, Connection
<1>4. QueueBytes(c, s, n) = [c1 EXCEPT !.stream_states[s].pending_writes = st.pending_writes \o v]
  BY DEF QueueBytes
<1> HIDE DEF v, c1
<1> DEFINE u == st.pending_writes \o v
           st1 == [st EXCEPT !.pending_writes = u]
<1>5. st1 = [st EXCEPT !.local_write_closed = FALSE, !.pending_writes = u]
  <2> HIDE DEF u
  <2>1. QED
    BY <1>2, <1>3 DEF StreamRuntimeState
<1>6. QueueBytes(c, s, n) =
        [c1 EXCEPT !.stream_states = [c1.stream_states EXCEPT ![s] = st1]]
  <2>1. QueueBytes(c, s, n) = [c1 EXCEPT !.stream_states[s].pending_writes = u]
    BY <1>4
  <2> HIDE DEF u
  <2>2. QED
    BY <1>3, <2>1 DEF Connection
<1>7. QueueUnits(c, s, v) =
        [c1 EXCEPT !.stream_states = [c1.stream_states EXCEPT ![s] =
           [st EXCEPT !.local_write_closed = EndsWithFin(v), !.pending_writes = u]]]
  BY DEF QueueUnits, c1
<1>8. EndsWithFin(v) = FALSE
  BY <1>1 DEF EndsWithFin
<1>9. QueueBytes(c, s, n) = QueueUnits(c, s, v)
  BY <1>5, <1>6, <1>7, <1>8
<1>10. QED
  BY <1>1, <1>9, QueueOK

\* close_stream_write queues one FIN, behind the bytes that wait.
LEMMA QueueFinUnits ==
    ASSUME NEW c, ConnOK(c), NEW s \in Streams, MayWrite(c, s)
    PROVE  ConnOK(QueueFin(c, s)) /\ Requeued(c, s, QueueFin(c, s))
<1> DEFINE v == <<"fin">>
           c1 == GetOrCreate(c, s)
           st == c1.stream_states[s]
<1>1. v \in Seq({"byte", "fin"}) /\ v # << >> /\ FinIsLast(v) /\ EndsWithFin(v)
  BY DEF FinIsLast, EndsWithFin
<1>2. ConnOK(c1) /\ st # None
  BY GetOrCreateOK DEF MayWrite
<1>3. c1 \in Connection /\ st \in StreamRuntimeState
  BY <1>2 DEF ConnOK, Connection
<1>4. st.pending_writes \in Seq({"byte", "fin"})
  BY <1>3 DEF StreamRuntimeState
<1>5. Append(st.pending_writes, "fin") = st.pending_writes \o v
  BY <1>4, AppendIsConcat
<1>6. QueueFin(c, s) = [c1 EXCEPT !.stream_states[s].local_write_closed = TRUE,
                                  !.stream_states[s].pending_writes =
                                      Append(st.pending_writes, "fin")]
  BY <1>3 DEF QueueFin, Connection, StreamRuntimeState
<1> HIDE DEF v, c1
<1> DEFINE u == st.pending_writes \o v
           st1 == [st EXCEPT !.local_write_closed = TRUE, !.pending_writes = u]
<1>7. QueueFin(c, s) =
        [c1 EXCEPT !.stream_states = [c1.stream_states EXCEPT ![s] = st1]]
  <2>1. QueueFin(c, s) = [c1 EXCEPT !.stream_states[s].local_write_closed = TRUE,
                                    !.stream_states[s].pending_writes = u]
    BY <1>5, <1>6
  <2> HIDE DEF u
  <2>2. QED
    BY <1>3, <2>1 DEF Connection, StreamRuntimeState
<1>8. QueueUnits(c, s, v) =
        [c1 EXCEPT !.stream_states = [c1.stream_states EXCEPT ![s] =
           [st EXCEPT !.local_write_closed = EndsWithFin(v), !.pending_writes = u]]]
  BY DEF QueueUnits, c1
<1>9. EndsWithFin(v) = TRUE
  BY <1>1 DEF EndsWithFin
<1>10. QueueFin(c, s) = QueueUnits(c, s, v)
  BY <1>7, <1>8, <1>9
<1>11. QED
  BY <1>1, <1>10, QueueOK

\* reset_stream: c2 is c with stream s shut down in the directions done.
ResetTo(c, s, done, c2) ==
    /\ c2 \in Connection
    /\ c2 = [c EXCEPT !.stream_states = c2.stream_states, !.recv = c2.recv, !.send = c2.send]
    /\ \A t \in Streams : t # s => /\ c2.stream_states[t] = c.stream_states[t]
                                   /\ c2.recv[t] = c.recv[t] /\ c2.send[t] = c.send[t]
    /\ c2.send[s] \in {c.send[s], "shut"}
    /\ IF ~done
       THEN c2.stream_states[s] = c.stream_states[s] /\ c2.recv[s] = c.recv[s]
       ELSE /\ c2.send[s] = "shut" /\ ~c2.recv[s].data /\ c2.recv[s].end = "read"
            /\ c2.stream_states[s] # None
            /\ c2.stream_states[s].pending_writes = c.stream_states[s].pending_writes
            /\ c2.stream_states[s].incoming_notified = c.stream_states[s].incoming_notified
            /\ c2.stream_states[s].local_write_closed /\ c2.stream_states[s].remote_write_closed
            /\ c2.stream_states[s].closed_notified

\* What reset_stream does to the stream, and what it reports.
LEMMA ResetEffect ==
    ASSUME NEW c \in Connection, NEW s \in Streams, c.stream_states[s] # None,
           NEW outcome \in ResetOutcomes
    PROVE  LET r == ResetStream(c, s, outcome)
           IN  /\ ResetTo(c, s, outcome = "ok", r.conn)
               /\ r.ok = (outcome = "ok")
               /\ r.events = IF outcome = "ok" /\ ~c.stream_states[s].closed_notified
                             THEN <<Told("StreamClosed", s)>> ELSE << >>
<1> DEFINE shut == [c EXCEPT !.send[s] = "shut"]
           st == c.stream_states[s]
           st2 == [st EXCEPT !.local_write_closed = TRUE, !.remote_write_closed = TRUE,
                             !.closed_notified = TRUE]
           idle == [data |-> FALSE, end |-> "read"]
           c2 == [shut EXCEPT !.recv[s] = idle, !.stream_states[s] = st2]
<1>1. st \in StreamRuntimeState
  BY DEF Connection
<1>2. /\ st2 \in StreamRuntimeState /\ st2 # None
      /\ st2.pending_writes = st.pending_writes /\ st2.incoming_notified = st.incoming_notified
      /\ st2.local_write_closed /\ st2.remote_write_closed /\ st2.closed_notified
  <2>1. /\ st2 \in StreamRuntimeState
        /\ st2.pending_writes = st.pending_writes /\ st2.incoming_notified = st.incoming_notified
        /\ st2.local_write_closed /\ st2.remote_write_closed /\ st2.closed_notified
    BY <1>1 DEF StreamRuntimeState
  <2>2. QED
    BY <2>1, QuicConnectionAssumption
<1>3. idle \in Receiving /\ ~idle.data /\ idle.end = "read"
  BY DEF Receiving
<1>4. /\ shut \in Connection
      /\ shut = [c EXCEPT !.stream_states = shut.stream_states, !.recv = shut.recv,
                          !.send = shut.send]
      /\ shut.stream_states = c.stream_states /\ shut.recv = c.recv
      /\ shut.send = [c.send EXCEPT ![s] = "shut"]
  BY DEF Connection
<1>5. CASE outcome = "write_refused"
  <2>1. /\ ResetStream(c, s, outcome).conn = c /\ ~ResetStream(c, s, outcome).ok
        /\ ResetStream(c, s, outcome).events = << >>
    BY <1>5 DEF ResetStream, Err
  <2>2. ResetStream(c, s, outcome).ok = FALSE
    BY <1>5 DEF ResetStream, Err
  <2>3. ResetTo(c, s, FALSE, c)
    BY DEF ResetTo, Connection
  <2>4. QED
    BY <1>5, <2>1, <2>2, <2>3
<1>6. CASE outcome = "read_refused"
  <2>1. /\ ResetStream(c, s, outcome).conn = shut /\ ResetStream(c, s, outcome).ok = FALSE
        /\ ResetStream(c, s, outcome).events = << >>
    BY <1>6 DEF ResetStream, Err
  <2>2. shut.send[s] = "shut" /\ \A t \in Streams : t # s => shut.send[t] = c.send[t]
    BY <1>4 DEF Connection
  <2> HIDE DEF shut
  <2>3. ResetTo(c, s, FALSE, shut)
    BY <1>4, <2>2 DEF ResetTo
  <2>4. QED
    BY <1>6, <2>1, <2>3
<1>7. CASE outcome = "ok"
  <2>1. /\ ResetStream(c, s, outcome).conn = c2 /\ ResetStream(c, s, outcome).ok = TRUE
        /\ ResetStream(c, s, outcome).events =
             IF st.closed_notified THEN << >> ELSE <<Told("StreamClosed", s)>>
    <3>1. shut.stream_states[s] = st
      BY <1>4
    <3>2. QED
      BY <1>7, <3>1 DEF ResetStream, Ok
  <2> HIDE DEF st2, idle, shut
  <2>2. /\ c2 \in Connection
        /\ c2.stream_states = [c.stream_states EXCEPT ![s] = st2]
        /\ c2.recv = [c.recv EXCEPT ![s] = idle]
        /\ c2.send = [c.send EXCEPT ![s] = "shut"]
    BY <1>2, <1>3, <1>4 DEF Connection
  <2>3. c2 = [c EXCEPT !.stream_states = c2.stream_states, !.recv = c2.recv, !.send = c2.send]
    BY <1>4, <2>2 DEF Connection
  <2>4. /\ c2.stream_states[s] = st2 /\ c2.recv[s] = idle /\ c2.send[s] = "shut"
        /\ \A t \in Streams : t # s => /\ c2.stream_states[t] = c.stream_states[t]
                                       /\ c2.recv[t] = c.recv[t] /\ c2.send[t] = c.send[t]
    BY <2>2 DEF Connection
  <2> HIDE DEF c2
  <2>5. ResetTo(c, s, TRUE, c2)
    BY <1>2, <1>3, <2>2, <2>3, <2>4 DEF ResetTo
  <2>6. QED
    BY <1>7, <2>1, <2>5
<1>8. QED
  BY <1>5, <1>6, <1>7 DEF ResetOutcomes

\* reset_stream keeps the invariant, whichever of its two shutdowns fails.
LEMMA ResetOK ==
    ASSUME NEW c, ConnOK(c), NEW s \in Streams, c.stream_states[s] # None,
           NEW done \in BOOLEAN, NEW c2, ResetTo(c, s, done, c2)
    PROVE  ConnOK(c2)
<1>1. /\ c \in Connection /\ c2 \in Connection /\ c2.server = c.server
      /\ c2.next_local_bidi_stream_id = c.next_local_bidi_stream_id
      /\ SamePeer(c, c2)
  <2>1. /\ c \in Connection /\ c2 \in Connection
        /\ c2 = [c EXCEPT !.stream_states = c2.stream_states, !.recv = c2.recv, !.send = c2.send]
    BY DEF ConnOK, ResetTo
  <2>2. QED
    BY <2>1 DEF Connection, SamePeer
<1>2. ASSUME NEW t \in Streams PROVE StreamOK(c2, t)
  <2>1. StreamOK(c, t)
    BY DEF ConnOK
  <2>2. CASE t # s
    BY <1>1, <2>1, <2>2, StreamOKSame DEF ResetTo
  <2>3. CASE t = s /\ done
    <3>1. Pending(c2, s) = Pending(c, s)
      BY <2>3 DEF Pending, ResetTo
    <3>2. IsLocalInitiated(c2, s) = IsLocalInitiated(c, s)
      BY <1>1 DEF IsLocalInitiated
    <3>3. QED
      BY <1>1, <2>1, <2>3, <3>1, <3>2 DEF StreamOK, ResetTo
  <2>4. CASE t = s /\ ~done
    <3>1. Pending(c2, s) = Pending(c, s)
      BY <2>4 DEF Pending, ResetTo
    <3>2. IsLocalInitiated(c2, s) = IsLocalInitiated(c, s)
      BY <1>1 DEF IsLocalInitiated
    <3>3. QED
      BY <1>1, <2>1, <2>4, <3>1, <3>2 DEF StreamOK, ResetTo
  <2>5. QED
    BY <2>2, <2>3, <2>4
<1>3. Genuine(c2)
  BY <1>1, GenuineSame DEF ConnOK
<1>4. QED
  BY <1>1, <1>2, <1>3 DEF ConnOK

\* close()
LEMMA CloseEffect ==
    ASSUME NEW c, ConnOK(c), NEW d, DrainChoice(c, d)
    PROVE  LET c1 == [c EXCEPT !.state = "Closing"]
               r == Close(c, d)
           IN  /\ ConnOK(c1) /\ DrainChoice(c1, d) /\ c1.stream_states = c.stream_states
               /\ r.conn = DrainSendQueue(c1, d).conn /\ ConnOK(r.conn)
               /\ r.events = << >> /\ r.ok = d.ok
<1> DEFINE c1 == [c EXCEPT !.state = "Closing"]
<1>1. /\ c1 \in Connection /\ c \in Connection
      /\ c1.stream_states = c.stream_states /\ c1.recv = c.recv /\ c1.send = c.send
      /\ c1.server = c.server /\ c1.next_local_bidi_stream_id = c.next_local_bidi_stream_id
      /\ SamePeer(c, c1)
  BY DEF ConnOK, Connection, ConnectionState, SamePeer
<1>2. ConnOK(c1) /\ DrainChoice(c1, d)
  <2>1. Genuine(c1)
    BY <1>1, GenuineSame DEF ConnOK
  <2>2. QED
    BY <1>1, <2>1, OtherFieldsKeepOK, SameChoices
<1>3. ConnOK(DrainSendQueue(c1, d).conn) /\ DrainSendQueue(c1, d).ok = d.ok
  BY <1>1, <1>2, DrainOK, DrainConn
<1>4. DOMAIN DrainSendQueue(c1, d) = {"conn", "events", "ok"}
  BY DEF DrainSendQueue, Ok, Err
<1>5. /\ Close(c, d).conn = DrainSendQueue(c1, d).conn
      /\ Close(c, d).events = << >> /\ Close(c, d).ok = DrainSendQueue(c1, d).ok
  BY <1>4 DEF Close
<1>6. QED
  BY <1>1, <1>2, <1>3, <1>5

\* The state a stream has while it is read.
ReadState(c, s) == IF c.stream_states[s] = None THEN DefaultStream ELSE c.stream_states[s]

\* Whether reading s reports its end.
ReadCloses(c, s) ==
    /\ c.recv[s].end = "fin"
    /\ ReadState(c, s).local_write_closed /\ ~ReadState(c, s).closed_notified

\* poll_streams: what becomes of stream s when c is read into c2.
ReadTo(c, s, c2) ==
    IF ~Readable(c, s)
    THEN c2.stream_states[s] = c.stream_states[s] /\ c2.recv[s] = c.recv[s]
    ELSE LET st == ReadState(c, s)
             st2 == c2.stream_states[s]
         IN  /\ st2 \in StreamRuntimeState
             /\ st2.pending_writes = st.pending_writes
             /\ st2.local_write_closed = st.local_write_closed
             /\ st2.remote_write_closed = (st.remote_write_closed \/ c.recv[s].end = "fin")
             /\ st2.incoming_notified = (st.incoming_notified \/ Discovers(c, s))
             /\ st2.closed_notified = (st.closed_notified \/ ReadCloses(c, s))
             /\ ~c2.recv[s].data
             /\ c2.recv[s].end = IF c.recv[s].end = "no" THEN "no" ELSE "read"

ReadAll(c, c2) ==
    /\ c2 \in Connection
    /\ c2 = [c EXCEPT !.stream_states = c2.stream_states, !.recv = c2.recv]
    /\ \A s \in Streams : ReadTo(c, s, c2)

\* The loop body of poll_streams' reading: what it leaves of a stream's state.
LEMMA ReadStreamState ==
    ASSUME NEW c \in Connection, NEW s \in Streams
    PROVE  LET st == ReadState(c, s)
               st2 == ReadStream(c, s).state
           IN  /\ st \in StreamRuntimeState /\ st2 \in StreamRuntimeState
               /\ st2.pending_writes = st.pending_writes
               /\ st2.local_write_closed = st.local_write_closed
               /\ st2.remote_write_closed = (st.remote_write_closed \/ c.recv[s].end = "fin")
               /\ st2.incoming_notified = (st.incoming_notified \/ Discovers(c, s))
               /\ st2.closed_notified = (st.closed_notified \/ ReadCloses(c, s))
<1> DEFINE st == ReadState(c, s)
           found == st.incoming_notified \/ Discovers(c, s)
           ended == st.remote_write_closed \/ c.recv[s].end = "fin"
           st1 == [st EXCEPT !.incoming_notified = found, !.remote_write_closed = ended]
           closes == c.recv[s].end = "fin" /\ NoteStreamClosedIfFinished(st1)
           told == st1.closed_notified \/ closes
<1>1. st \in StreamRuntimeState
  BY DefaultStreamType DEF ReadState, Connection
<1>2. st = GetOrCreate(c, s).stream_states[s]
  BY DEF ReadState, GetOrCreate, Connection
<1>3. found \in BOOLEAN /\ ended \in BOOLEAN
  BY <1>1 DEF StreamRuntimeState, Discovers
<1>4. ReadStream(c, s).state = [st1 EXCEPT !.closed_notified = told]
  BY <1>2 DEF ReadStream
<1> HIDE DEF st, found, ended
<1>5. /\ st1 \in StreamRuntimeState
      /\ st1.pending_writes = st.pending_writes
      /\ st1.local_write_closed = st.local_write_closed
      /\ st1.remote_write_closed = ended /\ st1.incoming_notified = found
      /\ st1.closed_notified = st.closed_notified
  BY <1>1, <1>3 DEF StreamRuntimeState
<1> HIDE DEF st1
<1>6. closes = ReadCloses(c, s)
  BY <1>1, <1>3, <1>5
     DEF ReadCloses, NoteStreamClosedIfFinished, IsFullyClosed, st, ended, StreamRuntimeState
<1>7. told \in BOOLEAN
  BY <1>5 DEF StreamRuntimeState
<1> HIDE DEF told, closes
<1>8. /\ ReadStream(c, s).state \in StreamRuntimeState
      /\ ReadStream(c, s).state.pending_writes = st.pending_writes
      /\ ReadStream(c, s).state.local_write_closed = st.local_write_closed
      /\ ReadStream(c, s).state.remote_write_closed = ended
      /\ ReadStream(c, s).state.incoming_notified = found
      /\ ReadStream(c, s).state.closed_notified = told
  BY <1>4, <1>5, <1>7 DEF StreamRuntimeState
<1>9. QED
  BY <1>1, <1>5, <1>6, <1>8 DEF st, found, ended, told

\* Reading all the streams touches every stream by itself.
LEMMA ReadEffect ==
    ASSUME NEW c \in Connection
    PROVE  ReadAll(c, ReadStreams(c).conn) /\ ReadStreams(c).ok
<1> DEFINE states == [s \in Streams |-> IF Readable(c, s) THEN ReadStream(c, s).state
                                        ELSE c.stream_states[s]]
           recvs == [s \in Streams |->
                       IF Readable(c, s)
                       THEN [data |-> FALSE, end |-> IF c.recv[s].end = "no" THEN "no" ELSE "read"]
                       ELSE c.recv[s]]
           c2 == [c EXCEPT !.stream_states = states, !.recv = recvs]
<1>1. ReadStreams(c).conn = c2 /\ ReadStreams(c).ok
  BY DEF ReadStreams, Ok
<1>2. states \in [Streams -> StreamRuntimeState \cup {None}]
  <2>1. ASSUME NEW s \in Streams PROVE states[s] \in StreamRuntimeState \cup {None}
    BY ReadStreamState DEF Connection
  <2>2. QED
    BY <2>1
<1>3. recvs \in [Streams -> Receiving]
  BY DEF Connection, Receiving
<1>4. /\ c2 \in Connection /\ c2.stream_states = states /\ c2.recv = recvs
      /\ c2 = [c EXCEPT !.stream_states = c2.stream_states, !.recv = c2.recv]
  <2> HIDE DEF states, recvs
  <2>1. QED
    BY <1>2, <1>3 DEF Connection
<1>5. ASSUME NEW s \in Streams PROVE ReadTo(c, s, c2)
  <2>1. /\ states[s] = IF Readable(c, s) THEN ReadStream(c, s).state ELSE c.stream_states[s]
        /\ recvs[s] = IF Readable(c, s)
                      THEN [data |-> FALSE,
                            end |-> IF c.recv[s].end = "no" THEN "no" ELSE "read"]
                      ELSE c.recv[s]
    OBVIOUS
  <2> HIDE DEF states, recvs, c2
  <2>2. QED
    BY <1>4, <2>1, ReadStreamState DEF ReadTo
<1>6. QED
  <2> HIDE DEF c2
  <2>1. QED
    BY <1>1, <1>4, <1>5 DEF ReadAll

\* Reading the streams keeps the invariant of the connection.
LEMMA ReadOK ==
    ASSUME NEW c, ConnOK(c), NEW c2, ReadAll(c, c2)
    PROVE  ConnOK(c2)
<1>1. /\ c \in Connection /\ c2 \in Connection /\ c2.server = c.server /\ c2.send = c.send
      /\ c2.next_local_bidi_stream_id = c.next_local_bidi_stream_id
      /\ SamePeer(c, c2)
  <2>1. /\ c \in Connection /\ c2 \in Connection
        /\ c2 = [c EXCEPT !.stream_states = c2.stream_states, !.recv = c2.recv]
    BY DEF ConnOK, ReadAll
  <2>2. QED
    BY <2>1 DEF Connection, SamePeer
<1>2. ASSUME NEW s \in Streams PROVE StreamOK(c2, s)
  <2>1. StreamOK(c, s) /\ ReadTo(c, s, c2)
    BY DEF ConnOK, ReadAll
  <2>2. CASE ~Readable(c, s)
    BY <1>1, <2>1, <2>2, StreamOKSame DEF ReadTo
  <2>3. CASE Readable(c, s)
    <3> DEFINE st == ReadState(c, s)
               st2 == c2.stream_states[s]
    <3>1. /\ st2 \in StreamRuntimeState
          /\ st2.pending_writes = st.pending_writes
          /\ st2.local_write_closed = st.local_write_closed
          /\ st2.remote_write_closed = (st.remote_write_closed \/ c.recv[s].end = "fin")
          /\ st2.incoming_notified = (st.incoming_notified \/ Discovers(c, s))
          /\ st2.closed_notified = (st.closed_notified \/ ReadCloses(c, s))
          /\ ~c2.recv[s].data
          /\ c2.recv[s].end = IF c.recv[s].end = "no" THEN "no" ELSE "read"
      BY <2>1, <2>3 DEF ReadTo
    <3>2. st2 # None /\ Pending(c2, s) = Pending(c, s)
      BY <3>1, QuicConnectionAssumption DEF Pending, ReadState, DefaultStream
    <3>3. /\ FinIsLast(Pending(c, s))
          /\ EndsWithFin(Pending(c, s)) => st.local_write_closed
          /\ c.send[s] \in {"unused", "open"} /\ st.local_write_closed
                => EndsWithFin(Pending(c, s))
          /\ st.remote_write_closed => c.recv[s].end = "read"
          /\ st.closed_notified => st.local_write_closed /\ st.remote_write_closed
      BY <2>1 DEF StreamOK, Pending, ReadState, DefaultStream, EndsWithFin
    <3>4. IsLocalInitiated(c2, s) = IsLocalInitiated(c, s)
      BY <1>1 DEF IsLocalInitiated
    <3>5. ~IsLocalInitiated(c, s) => st.incoming_notified \/ Discovers(c, s)
      BY <2>1 DEF StreamOK, Discovers, ReadState
    <3>6. ReadCloses(c, s) => st.local_write_closed /\ c.recv[s].end = "fin"
      BY DEF ReadCloses
    <3> HIDE DEF st
    <3>7. QED
      BY <1>1, <3>1, <3>2, <3>3, <3>4, <3>5, <3>6 DEF StreamOK
  <2>4. QED
    BY <2>2, <2>3
<1>3. Genuine(c2)
  BY <1>1, GenuineSame DEF ConnOK
<1>4. QED
  BY <1>1, <1>2, <1>3 DEF ConnOK

\* gc_closed_streams drops the finished streams and leaves the others alone.
LEMMA GcEffect ==
    ASSUME NEW c \in Connection
    PROVE  LET c2 == GcClosedStreams(c)
           IN  /\ c2 \in Connection
               /\ c2 = [c EXCEPT !.stream_states = c2.stream_states]
               /\ \A s \in Streams : c2.stream_states[s] =
                     IF Collectable(c.stream_states[s]) THEN None ELSE c.stream_states[s]
<1> DEFINE states == [s \in Streams |-> IF Collectable(c.stream_states[s]) THEN None
                                        ELSE c.stream_states[s]]
<1>1. GcClosedStreams(c) = [c EXCEPT !.stream_states = states]
  BY DEF GcClosedStreams
<1>2. states \in [Streams -> StreamRuntimeState \cup {None}]
  BY DEF Connection
<1>3. \A s \in Streams : states[s] = IF Collectable(c.stream_states[s]) THEN None
                                     ELSE c.stream_states[s]
  OBVIOUS
<1> HIDE DEF states
<1>4. QED
  BY <1>1, <1>2, <1>3 DEF Connection

\* gc_closed_streams keeps the invariant of the connection.
LEMMA GcOK ==
    ASSUME NEW c, ConnOK(c)
    PROVE  ConnOK(GcClosedStreams(c))
<1> DEFINE c2 == GcClosedStreams(c)
<1>1. /\ c \in Connection /\ c2 \in Connection
      /\ c2 = [c EXCEPT !.stream_states = c2.stream_states]
      /\ \A s \in Streams : c2.stream_states[s] =
            IF Collectable(c.stream_states[s]) THEN None ELSE c.stream_states[s]
  BY GcEffect DEF ConnOK
<1> HIDE DEF c2
<1>2. /\ c2.recv = c.recv /\ c2.send = c.send /\ c2.server = c.server
      /\ c2.next_local_bidi_stream_id = c.next_local_bidi_stream_id
      /\ SamePeer(c, c2)
  BY <1>1 DEF Connection, SamePeer
<1>3. ASSUME NEW s \in Streams PROVE StreamOK(c2, s)
  <2>1. StreamOK(c, s)
    BY DEF ConnOK
  <2>2. CASE Collectable(c.stream_states[s])
    BY <1>1, <1>2, <2>1, <2>2 DEF StreamOK, Pending, FinIsLast
  <2>3. CASE ~Collectable(c.stream_states[s])
    BY <1>1, <1>2, <2>1, <2>3, StreamOKSame
  <2>4. QED
    BY <2>2, <2>3
<1>4. Genuine(c2)
  BY <1>2, GenuineSame DEF ConnOK
<1>5. QED
  BY <1>1, <1>2, <1>3, <1>4 DEF ConnOK, c2

\* poll_streams, its reading, draining and collecting in a row, keeps the
\* invariant of the connection.
LEMMA PollStreamsOK ==
    ASSUME NEW c, ConnOK(c), NEW d, DrainChoice(ReadStreams(c).conn, d)
    PROVE  ConnOK(PollStreams(c, d).conn)
<1>1. ConnOK(ReadStreams(c).conn)
  BY ReadEffect, ReadOK DEF ConnOK
<1>2. ConnOK(DrainSendQueue(ReadStreams(c).conn, d).conn)
  BY <1>1, DrainOK
<1>3. ConnOK(GcClosedStreams(DrainSendQueue(ReadStreams(c).conn, d).conn))
  BY <1>2, GcOK
<1>4. PollStreams(c, d).conn \in
        {c, DrainSendQueue(ReadStreams(c).conn, d).conn,
         GcClosedStreams(DrainSendQueue(ReadStreams(c).conn, d).conn)}
  BY DEF PollStreams, Ok, Err
<1>5. QED
  BY <1>2, <1>3, <1>4
-----------------------------------------------------------------------------
(* Runs of events.                                                         *)

\* How far a connection and one of its streams have been told; see
\* TransportContract.
Phase == [conn : {"none", "dialed", "incoming", "connected", "closed",
                  "unconnected", "gapped", "refused"},
          stream : {"none", "open", "half", "closed"}]

Talking == {"dialed", "incoming", "connected"}

StreamKinds == {"StreamOpened", "IncomingStream", "StreamData",
                "StreamRemoteWriteClosed", "StreamClosed"}

\* The contract lets an event of this kind take a stream from one phase to
\* another.
StreamLegal(kind, from, to) ==
    \/ kind \in {"StreamOpened", "IncomingStream"} /\ from = "none" /\ to = "open"
    \/ kind = "StreamData" /\ from = "open" /\ to = "open"
    \/ kind = "StreamRemoteWriteClosed" /\ from = "open" /\ to = "half"
    \/ kind = "StreamClosed" /\ from \in {"open", "half"} /\ to = "closed"

\* The contract allows event e in phase a of stream s of connection id, and b
\* comes of it.
Legal(id, s, a, e, b) ==
    \/ e.id # id /\ b = a
    \/ /\ e.id = id
       /\ \/ /\ e.kind = "IncomingConnection" /\ a.conn = "none"
             /\ b = [conn |-> "incoming", stream |-> a.stream]
          \/ /\ e.kind = "Connected" /\ a.conn \in {"dialed", "incoming"}
             /\ b = [conn |-> "connected", stream |-> a.stream]
          \/ e.kind = "PeerIdentityVerified" /\ a.conn = "connected" /\ b = a
          \/ e.kind = "Error" /\ a.conn \in Talking /\ b = a
          \/ /\ e.kind = "Closed" /\ a.conn \in Talking
             /\ b = [conn |-> "closed", stream |-> a.stream]
          \/ e.kind \in StreamKinds /\ e.stream # s /\ a.conn = "connected" /\ b = a
          \/ /\ e.stream = s /\ a.conn = "connected" /\ b.conn = "connected"
             /\ StreamLegal(e.kind, a.stream, b.stream)

\* The events of Q take stream s of connection id from phase a to phase b, each
\* of them legally.
Path(id, s, a, Q, b) ==
    \E run \in [0 .. Len(Q) -> Phase] :
      /\ run[0] = a /\ run[Len(Q)] = b
      /\ \A i \in 1 .. Len(Q) : Legal(id, s, run[i - 1], Q[i], run[i])

\* No events, no progress.
LEMMA PathEmpty ==
    ASSUME NEW id, NEW s, NEW a, NEW b
    PROVE  Path(id, s, a, << >>, b) <=> a \in Phase /\ b = a
<1>1. ASSUME Path(id, s, a, << >>, b) PROVE a \in Phase /\ b = a
  BY <1>1 DEF Path
<1>2. ASSUME a \in Phase, b = a PROVE Path(id, s, a, << >>, b)
  <2> DEFINE run == [i \in 0 .. 0 |-> a]
  <2>1. run \in [0 .. Len(<< >>) -> Phase] /\ run[0] = a /\ run[Len(<< >>)] = b
    BY <1>2
  <2>2. \A i \in 1 .. Len(<< >>) : Legal(id, s, run[i - 1], << >>[i], run[i])
    OBVIOUS
  <2> HIDE DEF run
  <2>3. QED
    BY <2>1, <2>2 DEF Path
<1>3. QED
  BY <1>1, <1>2

\* One event that the contract allows is a run.
LEMMA PathOne ==
    ASSUME NEW id, NEW s, NEW a \in Phase, NEW b \in Phase, NEW e, Legal(id, s, a, e, b)
    PROVE  Path(id, s, a, <<e>>, b)
<1> DEFINE run == [i \in 0 .. 1 |-> IF i = 0 THEN a ELSE b]
<1>1. run \in [0 .. Len(<<e>>) -> Phase] /\ run[0] = a /\ run[Len(<<e>>)] = b
  OBVIOUS
<1>2. \A i \in 1 .. Len(<<e>>) : Legal(id, s, run[i - 1], <<e>>[i], run[i])
  <2>1. ASSUME NEW i \in 1 .. Len(<<e>>) PROVE Legal(id, s, run[i - 1], <<e>>[i], run[i])
    <3>1. i = 1 /\ run[i - 1] = a /\ run[i] = b /\ <<e>>[i] = e
      OBVIOUS
    <3> HIDE DEF run
    <3>2. QED
      BY <3>1
  <2>2. QED
    BY <2>1
<1> HIDE DEF run
<1>3. QED
  BY <1>1, <1>2 DEF Path

\* A run starts and ends in a phase.
LEMMA PathEnds ==
    ASSUME NEW id, NEW s, NEW a, NEW b, NEW X, NEW Q \in Seq(X), Path(id, s, a, Q, b)
    PROVE  a \in Phase /\ b \in Phase
BY DEF Path

\* Runs follow one another: what queueing more events behind others means.
LEMMA PathConcat ==
    ASSUME NEW id, NEW s, NEW a, NEW m, NEW b, NEW X, NEW P \in Seq(X), NEW Q \in Seq(X),
           Path(id, s, a, P, m), Path(id, s, m, Q, b)
    PROVE  Path(id, s, a, P \o Q, b)
<1> DEFINE M == Len(P)
           N == Len(Q)
           R == P \o Q
<1>1. /\ M \in Nat /\ N \in Nat /\ Len(R) = M + N
      /\ \A i \in 1 .. M : R[i] = P[i]
      /\ \A i \in 1 .. N : R[M + i] = Q[i]
  BY ConcatHalves
<1>2. PICK p \in [0 .. M -> Phase] :
        /\ p[0] = a /\ p[M] = m
        /\ \A i \in 1 .. M : Legal(id, s, p[i - 1], P[i], p[i])
  BY DEF Path
<1>3. PICK q \in [0 .. N -> Phase] :
        /\ q[0] = m /\ q[N] = b
        /\ \A i \in 1 .. N : Legal(id, s, q[i - 1], Q[i], q[i])
  BY DEF Path
<1> DEFINE run == [i \in 0 .. M + N |-> IF i <= M THEN p[i] ELSE q[i - M]]
<1>4. run \in [0 .. M + N -> Phase]
  BY <1>1
<1>5. run[0] = a /\ run[M + N] = b
  <2>1. CASE N = 0
    BY <1>1, <1>2, <1>3, <2>1
  <2>2. CASE N # 0
    BY <1>1, <1>2, <1>3, <2>2
  <2>3. QED
    BY <2>1, <2>2
<1>6. ASSUME NEW i \in 1 .. M + N PROVE Legal(id, s, run[i - 1], R[i], run[i])
  <2>1. CASE i <= M
    <3>1. run[i - 1] = p[i - 1] /\ run[i] = p[i] /\ R[i] = P[i] /\ i \in 1 .. M
      BY <1>1, <2>1
    <3> HIDE DEF run, R
    <3>2. QED
      BY <1>2, <3>1
  <2>2. CASE i > M
    <3> DEFINE j == i - M
    <3>1. j \in 1 .. N /\ M + j = i
      BY <1>1, <2>2
    <3>2. run[i] = q[j] /\ R[i] = Q[j]
      BY <1>1, <2>2, <3>1
    <3>3. run[i - 1] = q[j - 1]
      <4>1. CASE i - 1 <= M
        <5>1. i - 1 = M /\ j - 1 = 0 /\ run[i - 1] = p[M]
          BY <1>1, <2>2, <4>1
        <5>2. QED
          BY <1>2, <1>3, <5>1
      <4>2. CASE i - 1 > M
        BY <1>1, <4>2
      <4>3. QED
        BY <1>1, <4>1, <4>2
    <3> HIDE DEF run, R, j
    <3>4. QED
      BY <1>3, <3>1, <3>2, <3>3
  <2>3. QED
    BY <1>1, <2>1, <2>2
<1> HIDE DEF run
<1>7. QED
  BY <1>1, <1>4, <1>5, <1>6 DEF Path

\* A run that is not over starts with an event that the contract allows: what
\* the host relies on when it handles the next event.
LEMMA PathHead ==
    ASSUME NEW id, NEW s, NEW a, NEW b, NEW X, NEW Q \in Seq(X), Q # << >>, Path(id, s, a, Q, b)
    PROVE  \E m \in Phase : Legal(id, s, a, Head(Q), m) /\ Path(id, s, m, Tail(Q), b)
<1> DEFINE N == Len(Q)
           T == Tail(Q)
<1>1. /\ N \in Nat \ {0} /\ Head(Q) = Q[1] /\ T \in Seq(X) /\ Len(T) = N - 1
      /\ \A i \in 1 .. N - 1 : T[i] = Q[i + 1]
  BY HeadTailProperties
<1>2. PICK q \in [0 .. N -> Phase] :
        /\ q[0] = a /\ q[N] = b
        /\ \A i \in 1 .. N : Legal(id, s, q[i - 1], Q[i], q[i])
  BY DEF Path
<1> DEFINE run == [i \in 0 .. N - 1 |-> q[i + 1]]
<1>3. run \in [0 .. N - 1 -> Phase] /\ run[0] = q[1] /\ run[N - 1] = b /\ q[1] \in Phase
  BY <1>1, <1>2
<1>4. Legal(id, s, a, Q[1], q[1])
  <2>1. 1 \in 1 .. N /\ q[1 - 1] = a
    BY <1>1, <1>2
  <2>2. QED
    BY <1>2, <2>1
<1>5. ASSUME NEW i \in 1 .. N - 1 PROVE Legal(id, s, run[i - 1], T[i], run[i])
  <2>1. /\ i + 1 \in 1 .. N /\ run[i] = q[i + 1] /\ run[i - 1] = q[i + 1 - 1]
        /\ T[i] = Q[i + 1]
    BY <1>1
  <2> HIDE DEF run, T
  <2>2. QED
    BY <1>2, <2>1
<1> HIDE DEF run, T
<1>6. Path(id, s, q[1], T, b)
  BY <1>1, <1>3, <1>5 DEF Path
<1>7. QED
  BY <1>1, <1>3, <1>4, <1>6 DEF T

\* A set of phases that no event of Q leaves is not left along a path.
LEMMA PathInvariant ==
    ASSUME NEW id, NEW s, NEW a, NEW b, NEW X, NEW Q \in Seq(X), Path(id, s, a, Q, b),
           NEW I, a \in I,
           \A x \in I, y \in Phase : \A i \in 1 .. Len(Q) : Legal(id, s, x, Q[i], y) => y \in I
    PROVE  b \in I
<1> DEFINE N == Len(Q)
<1>1. N \in Nat
  OBVIOUS
<1>2. PICK q \in [0 .. N -> Phase] :
        /\ q[0] = a /\ q[N] = b
        /\ \A i \in 1 .. N : Legal(id, s, q[i - 1], Q[i], q[i])
  BY DEF Path
<1> DEFINE S == {n \in Nat : n \in 0 .. N => q[n] \in I}
<1>3. 0 \in S
  BY <1>2
<1>4. ASSUME NEW n \in S PROVE n + 1 \in S
  <2>1. SUFFICES ASSUME n + 1 \in 0 .. N PROVE q[n + 1] \in I
    OBVIOUS
  <2>2. q[n] \in I /\ q[n + 1] \in Phase /\ n + 1 \in 1 .. N /\ n + 1 - 1 = n
    BY <1>1, <1>4, <2>1
  <2>3. Legal(id, s, q[n], Q[n + 1], q[n + 1])
    BY <1>2, <2>2
  <2>4. QED
    BY <2>2, <2>3
<1>5. \A n \in Nat : n \in S
  <2> HIDE DEF S
  <2>1. S \in SUBSET Nat
    BY DEF S
  <2>2. QED
    BY <1>3, <1>4, <2>1, SetInduction
<1>6. QED
  BY <1>1, <1>2, <1>5

\* Events of other connections.
LEMMA PathForeign ==
    ASSUME NEW id, NEW s, NEW a, NEW X, NEW Q \in Seq(X),
           \A i \in 1 .. Len(Q) : Q[i].id # id
    PROVE  /\ a \in Phase => Path(id, s, a, Q, a)
           /\ \A b : Path(id, s, a, Q, b) => b = a
<1>1. ASSUME a \in Phase PROVE Path(id, s, a, Q, a)
  <2> DEFINE run == [i \in 0 .. Len(Q) |-> a]
  <2>1. /\ run \in [0 .. Len(Q) -> Phase] /\ run[0] = a /\ run[Len(Q)] = a
        /\ \A i \in 1 .. Len(Q) : run[i - 1] = a /\ run[i] = a
    BY <1>1
  <2> HIDE DEF run
  <2>2. \A i \in 1 .. Len(Q) : Legal(id, s, run[i - 1], Q[i], run[i])
    BY <2>1 DEF Legal
  <2>3. QED
    BY <2>1, <2>2 DEF Path
<1>2. ASSUME NEW b, Path(id, s, a, Q, b) PROVE b = a
  <2> DEFINE I == {a}
  <2>1. \A x \in I, y \in Phase : \A i \in 1 .. Len(Q) : Legal(id, s, x, Q[i], y) => y \in I
    BY DEF Legal
  <2>2. a \in I
    OBVIOUS
  <2> HIDE DEF I
  <2>3. b \in I
    BY <1>2, <2>1, <2>2, PathInvariant
  <2>4. QED
    BY <2>3 DEF I
<1>3. QED
  BY <1>1, <1>2

\* What is told is not taken back.
Grows(a, b) ==
    /\ a.conn # "none" => b.conn # "none"
    /\ a.conn \in {"connected", "closed"} => b.conn \in {"connected", "closed"}
    /\ a.stream # "none" => b.stream # "none"
    /\ a.stream \in {"half", "closed"} => b.stream \in {"half", "closed"}

\* An event moves the phase forward.
LEMMA LegalGrows ==
    ASSUME NEW id, NEW s, NEW x \in Phase, NEW y \in Phase, NEW e, Legal(id, s, x, e, y)
    PROVE  Grows(x, y)
BY DEF Legal, Grows, StreamLegal, Phase

\* A run of events moves the phase forward.
LEMMA PathGrows ==
    ASSUME NEW id, NEW s, NEW a, NEW b, NEW X, NEW Q \in Seq(X), Path(id, s, a, Q, b)
    PROVE  Grows(a, b)
<1> DEFINE I == {x \in Phase : Grows(a, x)}
<1>1. a \in Phase /\ b \in Phase
  BY PathEnds
<1>2. a \in I
  BY <1>1 DEF Grows, Phase
<1>3. \A x \in I, y \in Phase : \A i \in 1 .. Len(Q) : Legal(id, s, x, Q[i], y) => y \in I
  <2>1. ASSUME NEW x \in I, NEW y \in Phase, NEW i \in 1 .. Len(Q), Legal(id, s, x, Q[i], y)
        PROVE  y \in I
    <3>1. Grows(x, y) /\ Grows(a, x) /\ x \in Phase
      BY <2>1, LegalGrows
    <3>2. QED
      BY <1>1, <3>1 DEF Grows, Phase
  <2>2. QED
    BY <2>1
<1> HIDE DEF I
<1>4. b \in I
  BY <1>2, <1>3, PathInvariant
<1>5. QED
  BY <1>4 DEF I

\* A connection of which nothing is told has no event in the queue.
LEMMA PathQuiet ==
    ASSUME NEW id, NEW s, NEW a, NEW b, NEW X, NEW Q \in Seq(X), Path(id, s, a, Q, b),
           b.conn = "none"
    PROVE  \A i \in 1 .. Len(Q) : Q[i].id # id
<1> DEFINE N == Len(Q)
<1>1. N \in Nat
  OBVIOUS
<1>2. PICK q \in [0 .. N -> Phase] :
        /\ q[0] = a /\ q[N] = b
        /\ \A i \in 1 .. N : Legal(id, s, q[i - 1], Q[i], q[i])
  BY DEF Path
<1>3. ASSUME NEW k \in 1 .. N, Q[k].id = id PROVE FALSE
  <2> DEFINE S == {n \in Nat : n \in k .. N => q[n].conn # "none"}
  <2>1. q[k].conn # "none"
    <3>1. Legal(id, s, q[k - 1], Q[k], q[k])
      BY <1>2
    <3>2. QED
      BY <1>3, <3>1 DEF Legal, Talking
  <2>2. 0 \in S
    OBVIOUS
  <2>3. ASSUME NEW n \in S PROVE n + 1 \in S
    <3>1. SUFFICES ASSUME n + 1 \in k .. N PROVE q[n + 1].conn # "none"
      OBVIOUS
    <3>2. CASE n + 1 = k
      BY <2>1, <3>2
    <3>3. CASE n + 1 # k
      <4>1. /\ q[n].conn # "none" /\ q[n] \in Phase /\ q[n + 1] \in Phase
            /\ n + 1 \in 1 .. N /\ n + 1 - 1 = n
        BY <1>1, <2>3, <3>1, <3>3
      <4>2. Legal(id, s, q[n], Q[n + 1], q[n + 1])
        BY <1>2, <4>1
      <4>3. Grows(q[n], q[n + 1])
        BY <4>1, <4>2, LegalGrows
      <4>4. QED
        BY <4>1, <4>3 DEF Grows
    <3>4. QED
      BY <3>2, <3>3
  <2>4. \A n \in Nat : n \in S
    <3> HIDE DEF S
    <3>1. S \in SUBSET Nat
      BY DEF S
    <3>2. QED
      BY <2>2, <2>3, <3>1, SetInduction
  <2>5. q[N].conn # "none"
    BY <1>1, <2>4
  <2>6. QED
    BY <1>2, <2>5
<1>4. QED
  BY <1>3

-----------------------------------------------------------------------------
(* The events of one connection, under its id.                             *)

TagOne(id, x) == [kind |-> x.kind, id |-> id, stream |-> x.stream]
Tagged(id, events) == [i \in DOMAIN events |-> TagOne(id, events[i])]
TaggedSet(id, X) == {TagOne(id, x) : x \in X}

\* As many events, in the same order.
LEMMA TaggedSeq ==
    ASSUME NEW id, NEW X, NEW P \in Seq(X)
    PROVE  /\ Tagged(id, P) \in Seq(TaggedSet(id, X)) /\ Len(Tagged(id, P)) = Len(P)
           /\ \A i \in 1 .. Len(P) : Tagged(id, P)[i] = TagOne(id, P[i])
<1>1. Len(P) \in Nat /\ DOMAIN P = 1 .. Len(P)
  OBVIOUS
<1>2. \A i \in 1 .. Len(P) : TagOne(id, P[i]) \in TaggedSet(id, X)
  BY <1>1 DEF TaggedSet
<1>3. Tagged(id, P) \in [1 .. Len(P) -> TaggedSet(id, X)]
  BY <1>1, <1>2 DEF Tagged
<1>4. QED
  BY <1>1, <1>3 DEF Tagged

\* Events in two parts.
LEMMA TaggedConcat ==
    ASSUME NEW id, NEW X, NEW P \in Seq(X), NEW Q \in Seq(X)
    PROVE  Tagged(id, P \o Q) = Tagged(id, P) \o Tagged(id, Q)
<1>1. PICK T : T = TaggedSet(id, X)
  OBVIOUS
<1>2. /\ P \o Q \in Seq(X) /\ Len(P) \in Nat /\ Len(Q) \in Nat
      /\ Len(P \o Q) = Len(P) + Len(Q)
      /\ \A i \in 1 .. Len(P) : (P \o Q)[i] = P[i]
      /\ \A i \in 1 .. Len(Q) : (P \o Q)[Len(P) + i] = Q[i]
  BY ConcatHalves
<1>3. PICK R : R = P \o Q
  OBVIOUS
<1>4. /\ R \in Seq(X) /\ Len(R) = Len(P) + Len(Q)
      /\ \A i \in 1 .. Len(P) : R[i] = P[i]
      /\ \A i \in 1 .. Len(Q) : R[Len(P) + i] = Q[i]
  BY <1>2, <1>3, Zenon
<1>5. PICK L, A, B : L = Tagged(id, R) /\ A = Tagged(id, P) /\ B = Tagged(id, Q)
  OBVIOUS
<1>6. L \in Seq(T) /\ Len(L) = Len(R) /\ \A i \in 1 .. Len(R) : L[i] = TagOne(id, R[i])
  BY <1>1, <1>4, <1>5, TaggedSeq
<1>7. A \in Seq(T) /\ Len(A) = Len(P) /\ \A i \in 1 .. Len(P) : A[i] = TagOne(id, P[i])
  BY <1>1, <1>5, TaggedSeq
<1>8. B \in Seq(T) /\ Len(B) = Len(Q) /\ \A i \in 1 .. Len(Q) : B[i] = TagOne(id, Q[i])
  BY <1>1, <1>5, TaggedSeq
<1>9. \A i \in 1 .. Len(A) : L[i] = A[i]
  BY <1>2, <1>4, <1>6, <1>7
<1>10. ASSUME NEW i \in 1 .. Len(B) PROVE L[Len(A) + i] = B[i]
  <2>1. i \in 1 .. Len(Q) /\ Len(P) + i \in 1 .. Len(R)
    BY <1>2, <1>4, <1>8
  <2>2. R[Len(P) + i] = Q[i] /\ L[Len(P) + i] = TagOne(id, R[Len(P) + i]) /\ B[i] = TagOne(id, Q[i])
    BY <1>4, <1>6, <1>8, <2>1
  <2>3. QED
    BY <1>7, <2>2, Zenon
<1>11. Len(L) = Len(A) + Len(B)
  BY <1>4, <1>6, <1>7, <1>8
<1>12. L = A \o B
  BY ONLY <1>6, <1>7, <1>8, <1>9, <1>10, <1>11, ConcatIs
<1>13. QED
  BY <1>3, <1>5, <1>12, Zenon

\* The events of a connection, in two parts.
LEMMA TaggedPathConcat ==
    ASSUME NEW id, NEW s, NEW a, NEW m, NEW b, NEW X, NEW P \in Seq(X), NEW Q \in Seq(X),
           Path(id, s, a, Tagged(id, P), m), Path(id, s, m, Tagged(id, Q), b)
    PROVE  Path(id, s, a, Tagged(id, P \o Q), b)
<1>1. Tagged(id, P) \in Seq(TaggedSet(id, X)) /\ Tagged(id, Q) \in Seq(TaggedSet(id, X))
  BY TaggedSeq
<1>2. Path(id, s, a, Tagged(id, P) \o Tagged(id, Q), b)
  BY ONLY <1>1, PathConcat,
     Path(id, s, a, Tagged(id, P), m), Path(id, s, m, Tagged(id, Q), b)
<1>3. Tagged(id, P \o Q) = Tagged(id, P) \o Tagged(id, Q)
  BY TaggedConcat
<1>4. QED
  BY <1>2, <1>3, Zenon

\* The events of all streams: only those of s matter to s.
LEMMA ForStreamsPath ==
    ASSUME NEW id, NEW s \in Streams, NEW X, NEW E \in [Streams -> Seq(X)],
           NEW a \in Phase, NEW b \in Phase,
           Path(id, s, a, Tagged(id, E[s]), b),
           \A t \in Streams : t # s => /\ Path(id, s, a, Tagged(id, E[t]), a)
                                      /\ Path(id, s, b, Tagged(id, E[t]), b)
    PROVE  Path(id, s, a, Tagged(id, ForStreams(E)), b)
<1> DEFINE ss == [i \in DOMAIN Ordered |-> E[Ordered[i]]]
           N == Len(Ordered)
           T == TaggedSet(id, X)
<1>1. /\ Ordered \in Seq(Streams)
      /\ \A x \in Streams : \E i \in DOMAIN Ordered : Ordered[i] = x
      /\ \A i, j \in DOMAIN Ordered : Ordered[i] = Ordered[j] => i = j
  BY SetToSeqLists, QuicConnectionAssumption DEF Ordered
<1>2. N \in Nat /\ DOMAIN Ordered = 1 .. N /\ \A i \in 1 .. N : Ordered[i] \in Streams
  BY <1>1
<1>3. ss \in Seq(Seq(X)) /\ Len(ss) = N /\ \A i \in 1 .. N : ss[i] = E[Ordered[i]]
  <2>1. ss \in [1 .. N -> Seq(X)]
    BY <1>2
  <2>2. QED
    BY <1>2, <2>1
<1>4. PICK k \in 1 .. N : Ordered[k] = s
  BY <1>1, <1>2
<1>5. ss # << >>
  BY <1>2, <1>3, <1>4
<1> HIDE DEF ss
<1>6. PICK g \in [1 .. N -> Seq(X)] :
        /\ g[1] = ss[1]
        /\ \A i \in 2 .. N : g[i] = Joined(g[i - 1], ss[i])
        /\ FlattenSeq(ss) = g[N]
  <2>1. ss \in Seq(Seq(X))
    BY <1>3
  <2>2. \E g \in [1 .. Len(ss) -> Seq(X)] :
          /\ g[1] = ss[1]
          /\ \A i \in 2 .. Len(ss) : g[i] = Joined(g[i - 1], ss[i])
          /\ FlattenSeq(ss) = g[Len(ss)]
    BY <1>5, <2>1, FlattenSteps, Zenon
  <2>3. Len(ss) = N
    BY <1>3
  <2> HIDE DEF N
  <2>4. QED
    BY <2>2, <2>3, Zenon
<1> DEFINE at(n) == IF n < k THEN a ELSE b
           S == {n \in Nat : n \in 1 .. N => Path(id, s, a, Tagged(id, g[n]), at(n))}
<1>7. ASSUME NEW n \in 1 .. N
      PROVE  Path(id, s, IF n <= k THEN a ELSE b, Tagged(id, ss[n]), at(n))
  <2>1. CASE n = k
    BY <1>2, <1>3, <1>4, <2>1
  <2>2. CASE n # k
    <3>1. Ordered[n] # s /\ Ordered[n] \in Streams
      BY <1>1, <1>2, <1>4, <2>2
    <3>2. n < k \/ n > k
      BY <1>2, <2>2
    <3>3. QED
      BY <1>2, <1>3, <2>2, <3>1, <3>2
  <2>3. QED
    BY <2>1, <2>2
<1>8. 0 \in S
  OBVIOUS
<1>9. ASSUME NEW n \in S PROVE n + 1 \in S
  <2>1. SUFFICES ASSUME n + 1 \in 1 .. N
                 PROVE  Path(id, s, a, Tagged(id, g[n + 1]), at(n + 1))
    OBVIOUS
  <2>2. CASE n = 0
    BY <1>2, <1>4, <1>6, <1>7, <2>1, <2>2
  <2>3. CASE n # 0
    <3>1. n \in 1 .. N /\ n + 1 \in 2 .. N /\ n + 1 - 1 = n
      BY <1>2, <2>1, <2>3
    <3>2. Path(id, s, a, Tagged(id, g[n]), at(n))
      BY <1>9, <3>1
    <3>3. g[n + 1] = g[n] \o ss[n + 1] /\ g[n] \in Seq(X) /\ ss[n + 1] \in Seq(X)
      <4>1. g[n + 1] = Joined(g[n], ss[n + 1])
        BY <1>6, <3>1
      <4>2. ss[n + 1] \in Seq(X)
        BY <1>2, <1>3, <2>1
      <4>3. QED
        BY <3>1, <4>1, <4>2 DEF Joined
    <3>4. Path(id, s, at(n), Tagged(id, ss[n + 1]), at(n + 1))
      <4>1. at(n) = IF n + 1 <= k THEN a ELSE b
        BY <1>2, <3>1
      <4>2. QED
        BY <1>7, <2>1, <4>1
    <3> HIDE DEF at
    <3>5. Tagged(id, g[n]) \in Seq(T) /\ Tagged(id, ss[n + 1]) \in Seq(T)
      BY <3>3, TaggedSeq
    <3>6. Tagged(id, g[n + 1]) = Tagged(id, g[n]) \o Tagged(id, ss[n + 1])
      <4>1. Tagged(id, g[n] \o ss[n + 1]) = Tagged(id, g[n]) \o Tagged(id, ss[n + 1])
        BY <3>3, TaggedConcat, Zenon
      <4>2. QED
        BY <3>3, <4>1, Zenon
    <3>7. QED
      BY <3>2, <3>4, <3>5, <3>6, PathConcat
  <2>4. QED
    BY <2>2, <2>3
<1>10. \A n \in Nat : n \in S
  <2> HIDE DEF S
  <2>1. S \in SUBSET Nat
    BY DEF S
  <2>2. QED
    BY <1>8, <1>9, <2>1, SetInduction
<1>11. Path(id, s, a, Tagged(id, g[N]), b)
  BY <1>2, <1>4, <1>10
<1>12. QED
  BY <1>6, <1>11 DEF ForStreams, ss

\* The events of all streams are a sequence of events.
LEMMA ForStreamsSeq ==
    ASSUME NEW X, NEW E \in [Streams -> Seq(X)]
    PROVE  ForStreams(E) \in Seq(X)
<1> DEFINE ss == [i \in DOMAIN Ordered |-> E[Ordered[i]]]
           N == Len(Ordered)
<1>1. Ordered \in Seq(Streams) /\ \A x \in Streams : \E i \in DOMAIN Ordered : Ordered[i] = x
  BY SetToSeqLists, QuicConnectionAssumption DEF Ordered
<1>2. N \in Nat /\ DOMAIN Ordered = 1 .. N /\ \A i \in 1 .. N : Ordered[i] \in Streams
  BY <1>1
<1>3. ss \in Seq(Seq(X)) /\ Len(ss) = N
  <2>1. ss \in [1 .. N -> Seq(X)]
    BY <1>2
  <2>2. QED
    BY <1>2, <2>1
<1>4. N # 0
  BY <1>1, <1>2, QuicConnectionAssumption
<1> HIDE DEF ss
<1>5. ss # << >>
  BY <1>3, <1>4
<1>6. FlattenSeq(ss) \in Seq(X)
  <2>1. ss \in Seq(Seq(X)) /\ Len(ss) \in 1 .. Len(ss)
    BY <1>2, <1>3, <1>4
  <2>2. \E g \in [1 .. Len(ss) -> Seq(X)] : FlattenSeq(ss) = g[Len(ss)]
    BY <1>5, <2>1, FlattenSteps, Zenon
  <2>3. QED
    BY <2>1, <2>2
<1>7. QED
  BY <1>6 DEF ForStreams, ss

-----------------------------------------------------------------------------
(* A connection and what has been told of it, the events on their way      *)
(* included.                                                               *)

\* What a connection pushes.
Pushed == [kind : {"IncomingConnection", "Connected", "PeerIdentityVerified", "Error", "Closed"},
           stream : {None}]
            \cup [kind : StreamKinds, stream : Streams]

\* Connected is not among the events.
NoConnected(E) == \A i \in 1 .. Len(E) : E[i].kind # "Connected"

\* Only a connection with the right certificate pushes Connected.
Honest(E, c) == NoConnected(E) \/ ProvesPeer(c)

\* Events are honest when they are piece by piece.
LEMMA NoConnectedConcat ==
    ASSUME NEW P \in Seq(Pushed), NEW Q \in Seq(Pushed), NoConnected(P), NoConnected(Q)
    PROVE  NoConnected(P \o Q)
<1>1. ASSUME NEW i \in 1 .. Len(P \o Q) PROVE (P \o Q)[i].kind # "Connected"
  <2>1. /\ Len(P \o Q) = Len(P) + Len(Q) /\ Len(P) \in Nat /\ Len(Q) \in Nat
        /\ \A j \in 1 .. Len(P) : (P \o Q)[j] = P[j]
        /\ \A j \in 1 .. Len(Q) : (P \o Q)[Len(P) + j] = Q[j]
    BY ConcatProperties
  <2>2. PICK R : R = P \o Q
    OBVIOUS
  <2>3. CASE i <= Len(P)
    BY <2>1, <2>3 DEF NoConnected
  <2>4. CASE i > Len(P)
    <3>1. PICK j : j = i - Len(P)
      OBVIOUS
    <3>2. j \in 1 .. Len(Q) /\ i = Len(P) + j
      BY <2>1, <2>4, <3>1
    <3>3. R[i] = Q[j]
      BY <2>1, <2>2, <3>2
    <3>4. QED
      BY <2>2, <3>2, <3>3 DEF NoConnected
  <2>5. QED
    BY <2>1, <2>3, <2>4
<1>2. QED
  BY <1>1 DEF NoConnected

\* Events among which Connected cannot be.
LEMMA NoConnectedSeq ==
    ASSUME NEW X, \A x \in X : x.kind # "Connected", NEW E \in Seq(X)
    PROVE  NoConnected(E)
BY DEF NoConnected

\* Nothing has happened to any stream.
Untouched(c) ==
    \A s \in Streams : /\ c.stream_states[s] = None /\ c.send[s] = "unused"
                       /\ ~c.recv[s].data /\ c.recv[s].end = "no"

\* A write to s would not start the stream again.
Serves(c, s) == c.stream_states[s] # None \/ c.send[s] \in {"fin", "shut"}

\* Phase b of stream s of an established connection.  Once close() has thrown
\* events away, streams may be ahead of what is told, never behind.
StreamMatches(b, c, s) ==
    LET st == c.stream_states[s]
    IN  /\ b.stream = "none" =>
             /\ st = None /\ c.send[s] = "unused"
             /\ IsLocalInitiated(c, s) => ~c.recv[s].data /\ c.recv[s].end = "no"
        /\ b.stream # "none" =>
             Serves(c, s) /\ (IsLocalInitiated(c, s) => s < c.next_local_bidi_stream_id)
        /\ b.stream \in {"half", "closed"} \/ (b.stream # "none" /\ st = None) =>
             c.recv[s].end = "read"
        /\ b.stream = "closed" /\ st # None => st.closed_notified
        /\ c.state = "Connected" =>
             /\ st = None => b.stream \in {"none", "closed"}
             /\ st # None => /\ st.closed_notified => b.stream = "closed"
                             /\ b.stream = "half" => st.remote_write_closed

\* Phase b of connection c, None if it is gone, and of its stream s.
Matches(b, c, s) ==
    IF c = None THEN b.conn \in {"none", "closed"}
    ELSE /\ c.state = "Connecting" => ~c.established
         /\ c.state = "Connected" => c.established
         /\ IF c.established
            THEN /\ b.conn = "connected" /\ c.peer_id # None /\ ProvesPeer(c)
                 /\ StreamMatches(b, c, s)
            ELSE b.conn \in {"dialed", "incoming"} /\ b.stream = "none" /\ Untouched(c)

\* A step from c to c2 tells events that the contract allows, and they match.
Tells(id, s, c, events, c2) ==
    \A b \in Phase : Matches(b, c, s) =>
      \E b2 \in Phase : Path(id, s, b, Tagged(id, events), b2) /\ Matches(b2, c2, s)

\* The same, of a step that removes no stream.
TellsOnly(id, s, c, events, c2) ==
    \A b \in Phase : Matches(b, c, s) =>
      \E b2 \in Phase :
        /\ Path(id, s, b, Tagged(id, events), b2)
        /\ Matches(b2, c2, s)
        /\ c2.stream_states[s] = None => c.stream_states[s] = None /\ b2.stream = b.stream

\* What holds of a step that removes no stream holds of a step.
LEMMA TellsOnlyTells ==
    ASSUME NEW id, NEW s, NEW c, NEW E, NEW c2, TellsOnly(id, s, c, E, c2)
    PROVE  Tells(id, s, c, E, c2)
BY DEF Tells, TellsOnly

\* Two steps of a connection, their events queued in the same order.
LEMMA TellsConcat ==
    ASSUME NEW id, NEW s, NEW c, NEW c1, NEW c2, NEW P \in Seq(Pushed), NEW Q \in Seq(Pushed),
           Tells(id, s, c, P, c1), Tells(id, s, c1, Q, c2)
    PROVE  Tells(id, s, c, P \o Q, c2)
<1>1. SUFFICES ASSUME NEW b \in Phase, Matches(b, c, s)
               PROVE  \E b2 \in Phase : /\ Path(id, s, b, Tagged(id, P \o Q), b2)
                                        /\ Matches(b2, c2, s)
  BY DEF Tells
<1>2. PICK b1 \in Phase : Path(id, s, b, Tagged(id, P), b1) /\ Matches(b1, c1, s)
  BY <1>1 DEF Tells
<1>3. PICK b2 \in Phase : Path(id, s, b1, Tagged(id, Q), b2) /\ Matches(b2, c2, s)
  BY <1>2 DEF Tells
<1>4. Path(id, s, b, Tagged(id, P \o Q), b2)
  BY ONLY <1>2, <1>3, TaggedPathConcat
<1>5. QED
  BY <1>3, <1>4

\* No event.
LEMMA TaggedEmpty ==
    ASSUME NEW id, NEW s, NEW b \in Phase
    PROVE  Path(id, s, b, Tagged(id, << >>), b)
<1>1. Tagged(id, << >>) = << >>
  BY DEF Tagged
<1>2. QED
  BY <1>1, PathEmpty

\* One event.
LEMMA TaggedOne ==
    ASSUME NEW id, NEW s, NEW a \in Phase, NEW b \in Phase, NEW x,
           Legal(id, s, a, TagOne(id, x), b)
    PROVE  Path(id, s, a, Tagged(id, <<x>>), b)
<1>1. Tagged(id, <<x>>) = <<TagOne(id, x)>>
  BY DEF Tagged
<1>2. QED
  BY <1>1, PathOne

\* Events of another stream, or of none.
LEMMA TaggedOther ==
    ASSUME NEW id, NEW s, NEW b \in Phase, b.conn = "connected", NEW E \in Seq(Pushed),
           \A i \in 1 .. Len(E) : \/ E[i].kind \in StreamKinds /\ E[i].stream # s
                                  \/ E[i].kind = "Error"
    PROVE  Path(id, s, b, Tagged(id, E), b)
<1> DEFINE Q == Tagged(id, E)
           run == [i \in 0 .. Len(E) |-> b]
<1>1. Len(Q) = Len(E) /\ \A i \in 1 .. Len(E) : Q[i] = TagOne(id, E[i])
  BY TaggedSeq
<1> HIDE DEF Q
<1>2. /\ run \in [0 .. Len(E) -> Phase] /\ run[0] = b /\ run[Len(E)] = b
      /\ \A i \in 1 .. Len(E) : run[i - 1] = b /\ run[i] = b
  OBVIOUS
<1> HIDE DEF run
<1>3. ASSUME NEW i \in 1 .. Len(E) PROVE Legal(id, s, run[i - 1], Q[i], run[i])
  <2>1. run[i - 1] = b /\ run[i] = b /\ Q[i] = TagOne(id, E[i])
    BY <1>1, <1>2
  <2>2. \/ E[i].kind \in StreamKinds /\ E[i].stream # s
        \/ E[i].kind = "Error"
    OBVIOUS
  <2>3. Legal(id, s, b, TagOne(id, E[i]), b)
    BY <2>2 DEF Legal, TagOne, Talking
  <2>4. QED
    BY <2>1, <2>3
<1>4. Path(id, s, b, Q, b)
  BY <1>1, <1>2, <1>3 DEF Path
<1>5. QED
  BY <1>4 DEF Q

-----------------------------------------------------------------------------
(* What the operations of a connection tell.                               *)

\* Matches looks at these fields only.
LEMMA StreamMatchesSame ==
    ASSUME NEW b, NEW c, NEW c2, NEW s, StreamMatches(b, c, s),
           c2.stream_states[s] = c.stream_states[s], c2.send[s] = c.send[s],
           c2.recv[s] = c.recv[s], c2.server = c.server,
           c2.state = c.state \/ c2.state # "Connected",
           c2.next_local_bidi_stream_id = c.next_local_bidi_stream_id
    PROVE  StreamMatches(b, c2, s)
BY DEF StreamMatches, Serves, IsLocalInitiated

\* The events of a drain.
DrainEvents(c, d) ==
    [s \in Streams |-> IF Closes(c, d, s) THEN <<Told("StreamClosed", s)>> ELSE << >>]

\* The events of drain_send_queue: one StreamClosed for each stream whose end
\* it reports.
LEMMA DrainTold ==
    ASSUME NEW c, NEW d, d.ok \in BOOLEAN
    PROVE  /\ DrainSendQueue(c, d).events = ForStreams(DrainEvents(c, d))
           /\ DrainEvents(c, d) \in [Streams -> Seq(Pushed)]
           /\ ForStreams(DrainEvents(c, d)) \in Seq(Pushed)
           /\ NoConnected(ForStreams(DrainEvents(c, d)))
           /\ \A s \in Streams : DrainEvents(c, d)[s] =
                IF Closes(c, d, s) THEN <<Told("StreamClosed", s)>> ELSE << >>
<1>1. DrainSendQueue(c, d).events = ForStreams(DrainEvents(c, d))
  BY DEF DrainSendQueue, DrainEvents, Closes, Ok, Err
<1> DEFINE X == [kind : {"StreamClosed"}, stream : Streams]
<1>2. /\ \A s \in Streams : Told("StreamClosed", s) \in X
      /\ X \subseteq Pushed /\ \A x \in X : x.kind # "Connected"
  BY DEF Told, Pushed, StreamKinds
<1> HIDE DEF X
<1>3. DrainEvents(c, d) \in [Streams -> Seq(X)] /\ DrainEvents(c, d) \in [Streams -> Seq(Pushed)]
  BY <1>2 DEF DrainEvents
<1>4. /\ ForStreams(DrainEvents(c, d)) \in Seq(Pushed)
      /\ NoConnected(ForStreams(DrainEvents(c, d)))
  BY <1>2, <1>3, ForStreamsSeq, NoConnectedSeq
<1>5. \A s \in Streams : DrainEvents(c, d)[s] =
         IF Closes(c, d, s) THEN <<Told("StreamClosed", s)>> ELSE << >>
  BY DEF DrainEvents
<1>6. QED
  BY <1>1, <1>3, <1>4, <1>5

\* From phase b the contract allows these events of stream s, and they match.
StreamTells(id, s, b, events, c, c2) ==
    \E b2 \in Phase :
      /\ b2.conn = "connected"
      /\ Path(id, s, b, Tagged(id, events), b2)
      /\ StreamMatches(b2, c2, s)
      /\ c2.stream_states[s] = None => c.stream_states[s] = None /\ b2.stream = b.stream

\* One stream of a drain: its end is reported to a host that has been told of
\* the stream and not of its end.
LEMMA DrainStreamTells ==
    ASSUME NEW id, NEW s \in Streams, NEW c, ConnOK(c), NEW d, DrainChoice(c, d),
           NEW c2, Drained(c, d, c2),
           NEW b \in Phase, b.conn = "connected", StreamMatches(b, c, s)
    PROVE  StreamTells(id, s, b, DrainEvents(c, d)[s], c, c2)
<1> DEFINE st == c.stream_states[s]
           k == d.taken[s]
           st2 == c2.stream_states[s]
<1>1. /\ c \in Connection /\ StreamOK(c, s) /\ DrainedStream(c, d, s, c2)
      /\ c2.recv = c.recv /\ c2.server = c.server /\ c2.state = c.state
      /\ c2.next_local_bidi_stream_id = c.next_local_bidi_stream_id
      /\ IsLocalInitiated(c2, s) = IsLocalInitiated(c, s)
      /\ k \in Nat
  BY TakesBound DEF ConnOK, Drained, IsLocalInitiated
<1>2. DrainEvents(c, d)[s] = IF Closes(c, d, s) THEN <<Told("StreamClosed", s)>> ELSE << >>
  BY DrainTold DEF DrainChoice
<1>3. CASE st = None \/ k = 0
  <2>1. DrainEvents(c, d)[s] = << >>
    BY <1>2, <1>3 DEF Closes
  <2>2. st2 = st /\ c2.send[s] = c.send[s]
    BY <1>1, <1>3 DEF DrainedStream
  <2>3. StreamMatches(b, c2, s)
    BY <1>1, <2>2, StreamMatchesSame
  <2>4. Path(id, s, b, Tagged(id, DrainEvents(c, d)[s]), b)
    BY <2>1, TaggedEmpty
  <2>5. QED
    BY <2>2, <2>3, <2>4 DEF StreamTells
<1>4. CASE st # None /\ k # 0
  <2>1. /\ Shortened(st, k, st2)
        /\ c2.send[s] \in {"shut", "fin", "open"}
        /\ c.send[s] = "shut" => c2.send[s] = "shut"
    BY <1>1, <1>4 DEF DrainedStream
  <2>2. st2 # None /\ st2.remote_write_closed = st.remote_write_closed
        /\ st2.closed_notified = (st.closed_notified \/ NoteStreamClosedIfFinished(st))
    BY <2>1, QuicConnectionAssumption DEF Shortened
  <2>3. Closes(c, d, s) <=> NoteStreamClosedIfFinished(st)
    BY <1>1, <1>4 DEF Closes
  <2>4. Serves(c2, s) /\ b.stream # "none"
    BY <1>4, <2>2 DEF Serves, StreamMatches
  <2>5. CASE NoteStreamClosedIfFinished(st)
    <3> DEFINE b2 == [conn |-> "connected", stream |-> "closed"]
    <3>1. st.remote_write_closed /\ ~st.closed_notified
      BY <2>5 DEF NoteStreamClosedIfFinished, IsFullyClosed
    <3>2. b.stream \in {"open", "half"} /\ b2 \in Phase
      BY <1>4, <2>4, <3>1 DEF StreamMatches, Phase
    <3>3. Legal(id, s, b, TagOne(id, Told("StreamClosed", s)), b2)
      BY <3>2 DEF Legal, StreamLegal, TagOne, Told
    <3>4. Path(id, s, b, Tagged(id, DrainEvents(c, d)[s]), b2)
      BY <1>2, <2>3, <2>5, <3>2, <3>3, TaggedOne
    <3>5. c.recv[s].end = "read"
      BY <1>1, <1>4, <3>1 DEF StreamOK
    <3>6. StreamMatches(b2, c2, s)
      BY <1>1, <2>2, <2>4, <2>5, <3>5 DEF StreamMatches
    <3>7. QED
      BY <2>2, <3>2, <3>4, <3>6 DEF StreamTells
  <2>6. CASE ~NoteStreamClosedIfFinished(st)
    <3>1. Path(id, s, b, Tagged(id, DrainEvents(c, d)[s]), b)
      BY <1>2, <2>3, <2>6, TaggedEmpty
    <3>2. st2.closed_notified = st.closed_notified
      <4>1. st.closed_notified \in BOOLEAN
        BY <1>1, <1>4 DEF Connection, StreamRuntimeState
      <4>2. QED
        BY <2>2, <2>6, <4>1
    <3>3. StreamMatches(b, c2, s)
      BY <1>1, <1>4, <2>2, <2>4, <3>2 DEF StreamMatches
    <3>4. QED
      BY <2>2, <3>1, <3>3 DEF StreamTells
  <2>7. QED
    BY <2>5, <2>6
<1>5. QED
  BY <1>3, <1>4

\* drain_send_queue.
LEMMA DrainTells ==
    ASSUME NEW id, NEW s \in Streams, NEW c, ConnOK(c), NEW d, DrainChoice(c, d)
    PROVE  TellsOnly(id, s, c, DrainSendQueue(c, d).events, DrainSendQueue(c, d).conn)
<1> DEFINE c2 == DrainSendQueue(c, d).conn
           E == DrainEvents(c, d)
<1>1. /\ Drained(c, d, c2) /\ c \in Connection /\ c # None /\ c2 # None
      /\ DrainSendQueue(c, d).events = ForStreams(E)
      /\ E \in [Streams -> Seq(Pushed)]
  BY DrainConn, DrainTold, QuicConnectionAssumption DEF ConnOK, DrainChoice, Drained
<1> HIDE DEF c2
<1>2. SUFFICES ASSUME NEW b \in Phase, Matches(b, c, s)
               PROVE  \E b2 \in Phase :
                        /\ Path(id, s, b, Tagged(id, ForStreams(E)), b2)
                        /\ Matches(b2, c2, s)
                        /\ c2.stream_states[s] = None =>
                             c.stream_states[s] = None /\ b2.stream = b.stream
  BY <1>1 DEF TellsOnly, c2
<1>3. /\ c2.state = c.state /\ c2.established = c.established /\ c2.peer_id = c.peer_id
      /\ c2.recv = c.recv /\ ProvesPeer(c2) = ProvesPeer(c)
  BY <1>1 DEF Drained, ProvesPeer
<1>4. CASE c.established
  <2>1. b.conn = "connected" /\ StreamMatches(b, c, s)
    BY <1>1, <1>2, <1>4 DEF Matches
  <2>2. PICK b2 \in Phase :
          /\ b2.conn = "connected"
          /\ Path(id, s, b, Tagged(id, E[s]), b2)
          /\ StreamMatches(b2, c2, s)
          /\ c2.stream_states[s] = None => c.stream_states[s] = None /\ b2.stream = b.stream
    <3>1. Drained(c, d, c2)
      BY <1>1
    <3>2. StreamTells(id, s, b, E[s], c, c2)
      BY <2>1, <3>1, DrainStreamTells
    <3>3. QED
      BY <3>2 DEF StreamTells
  <2>3. ASSUME NEW t \in Streams, t # s, NEW x \in Phase, x.conn = "connected"
        PROVE  Path(id, s, x, Tagged(id, E[t]), x)
    <3>1. E[t] = IF Closes(c, d, t) THEN <<Told("StreamClosed", t)>> ELSE << >>
      BY DEF DrainEvents
    <3>2. \A i \in 1 .. Len(E[t]) : E[t][i].kind \in StreamKinds /\ E[t][i].stream # s
      BY <2>3, <3>1 DEF Told, StreamKinds
    <3>3. E[t] \in Seq(Pushed)
      BY <1>1
    <3> HIDE DEF E
    <3>4. QED
      BY <2>3, <3>2, <3>3, TaggedOther
  <2>4. Path(id, s, b, Tagged(id, ForStreams(E)), b2)
    <3> HIDE DEF E
    <3>1. QED
      BY <1>1, <2>1, <2>2, <2>3, ForStreamsPath
  <2>5. Matches(b2, c2, s)
    BY <1>1, <1>2, <1>3, <1>4, <2>2 DEF Matches
  <2>6. QED
    BY <2>2, <2>4, <2>5
<1>5. CASE ~c.established
  <2>1. Untouched(c)
    BY <1>1, <1>2, <1>5 DEF Matches
  <2>2. ASSUME NEW t \in Streams PROVE Path(id, s, b, Tagged(id, E[t]), b)
    <3>1. E[t] = << >>
      BY <2>1 DEF DrainEvents, Closes, Untouched
    <3>2. QED
      BY <3>1, TaggedEmpty
  <2>3. Path(id, s, b, Tagged(id, ForStreams(E)), b)
    <3> HIDE DEF E
    <3>1. QED
      BY <1>1, <2>2, ForStreamsPath
  <2>4. \A t \in Streams : c2.stream_states[t] = c.stream_states[t] /\ c2.send[t] = c.send[t]
    BY <1>1, <2>1 DEF Drained, DrainedStream, Untouched
  <2>5. Untouched(c2)
    BY <1>3, <2>1, <2>4 DEF Untouched
  <2>6. Matches(b, c2, s)
    BY <1>1, <1>2, <1>3, <1>5, <2>5 DEF Matches
  <2>7. c.stream_states[s] = None
    BY <2>1 DEF Untouched
  <2>8. QED
    BY <2>3, <2>6, <2>7
<1>6. QED
  BY <1>4, <1>5

\* Streams stay served, and the connection is to the same remote.
Serving(c, c2) ==
    /\ c2.cert = c.cert /\ c2.expected = c.expected
    /\ \A s \in Streams : Serves(c, s) => Serves(c2, s)

\* drain_send_queue forgets no stream that the application knows.
LEMMA DrainServes ==
    ASSUME NEW c, NEW d, NEW c2, Drained(c, d, c2)
    PROVE  Serving(c, c2)
<1>1. ASSUME NEW s \in Streams, Serves(c, s) PROVE Serves(c2, s)
  <2>1. DrainedStream(c, d, s, c2)
    BY DEF Drained
  <2>2. QED
    BY <1>1, <2>1, QuicConnectionAssumption DEF DrainedStream, Shortened, Serves
<1>2. QED
  BY <1>1 DEF Serving, Drained

\* All of drain_send_queue.
LEMMA DrainStep ==
    ASSUME NEW id, NEW s \in Streams, NEW c, ConnOK(c), NEW d, DrainChoice(c, d)
    PROVE  LET r == DrainSendQueue(c, d)
           IN  /\ ConnOK(r.conn) /\ r.events \in Seq(Pushed) /\ Serving(c, r.conn)
               /\ NoConnected(r.events)
               /\ TellsOnly(id, s, c, r.events, r.conn)
               /\ Tells(id, s, c, r.events, r.conn)
<1> DEFINE c2 == DrainSendQueue(c, d).conn
           E == DrainSendQueue(c, d).events
<1>1. ConnOK(c2)
  BY DrainOK
<1>2. E \in Seq(Pushed) /\ NoConnected(E)
  BY DrainTold DEF DrainChoice
<1>3. Drained(c, d, c2)
  BY DrainConn DEF ConnOK
<1>4. Serving(c, c2)
  BY <1>3, DrainServes
<1>5. TellsOnly(id, s, c, E, c2)
  BY DrainTells
<1>6. Tells(id, s, c, E, c2)
  BY <1>5, TellsOnlyTells
<1>7. QED
  BY <1>1, <1>2, <1>4, <1>5, <1>6

\* An event that is pushed or not.
Maybe(told, x) == IF told THEN <<x>> ELSE << >>

\* An event or none.
LEMMA MaybeSeq ==
    ASSUME NEW X, NEW x \in X, NEW told
    PROVE  Maybe(told, x) \in Seq(X)
BY DEF Maybe

\* An event or none, as a run.
LEMMA MaybePath ==
    ASSUME NEW id, NEW s, NEW a \in Phase, NEW b \in Phase, NEW x, NEW told,
           told => Legal(id, s, a, TagOne(id, x), b), ~told => b = a
    PROVE  Path(id, s, a, Tagged(id, Maybe(told, x)), b)
<1>1. CASE told
  BY <1>1, TaggedOne DEF Maybe
<1>2. CASE ~told
  BY <1>2, TaggedEmpty DEF Maybe
<1>3. QED
  BY <1>1, <1>2

\* The events of one turn of poll_streams.
ReadTold(c, s) ==
    Maybe(Discovers(c, s), Told("IncomingStream", s))
      \o Maybe(c.recv[s].data, Told("StreamData", s))
      \o Maybe(c.recv[s].end = "fin", Told("StreamRemoteWriteClosed", s))
      \o Maybe(ReadCloses(c, s), Told("StreamClosed", s))
      \o Maybe(c.recv[s].end = "reset", Told("Error", None))

\* The events of the loop body of poll_streams' reading, in the order the code
\* pushes them.
LEMMA ReadStreamTold ==
    ASSUME NEW c \in Connection, NEW s \in Streams
    PROVE  ReadStream(c, s).events = ReadTold(c, s)
<1> DEFINE st == ReadState(c, s)
           found == st.incoming_notified \/ Discovers(c, s)
           ended == st.remote_write_closed \/ c.recv[s].end = "fin"
           st1 == [st EXCEPT !.incoming_notified = found, !.remote_write_closed = ended]
           closes == c.recv[s].end = "fin" /\ NoteStreamClosedIfFinished(st1)
<1>1. st \in StreamRuntimeState
  BY DefaultStreamType DEF ReadState, Connection
<1>2. st = GetOrCreate(c, s).stream_states[s]
  BY DEF ReadState, GetOrCreate, Connection
<1>3. ReadStream(c, s).events =
        Maybe(Discovers(c, s), Told("IncomingStream", s))
          \o Maybe(c.recv[s].data, Told("StreamData", s))
          \o Maybe(c.recv[s].end = "fin", Told("StreamRemoteWriteClosed", s))
          \o Maybe(closes, Told("StreamClosed", s))
          \o Maybe(c.recv[s].end = "reset", Told("Error", None))
  BY <1>2 DEF ReadStream, Maybe
<1>4. /\ st1.local_write_closed = st.local_write_closed
      /\ st1.remote_write_closed = ended
      /\ st1.closed_notified = st.closed_notified
  <2> HIDE DEF st, found, ended
  <2>1. QED
    BY <1>1 DEF StreamRuntimeState
<1>5. closes = ReadCloses(c, s)
  <2> HIDE DEF st, st1
  <2>1. QED
    BY <1>1, <1>4 DEF ReadCloses, NoteStreamClosedIfFinished, IsFullyClosed, st, StreamRuntimeState
<1>6. QED
  BY <1>3, <1>5 DEF ReadTold

\* Which of those events there are.
LEMMA ReadToldSeq ==
    ASSUME NEW c, NEW s \in Streams
    PROVE  /\ ReadTold(c, s) \in Seq(Pushed)
           /\ \A i \in 1 .. Len(ReadTold(c, s)) :
                \/ ReadTold(c, s)[i].kind \in StreamKinds /\ ReadTold(c, s)[i].stream = s
                \/ ReadTold(c, s)[i].kind = "Error"
<1> DEFINE X == [kind : StreamKinds, stream : {s}] \cup [kind : {"Error"}, stream : {None}]
           A == Maybe(Discovers(c, s), Told("IncomingStream", s))
           B == Maybe(c.recv[s].data, Told("StreamData", s))
           C == Maybe(c.recv[s].end = "fin", Told("StreamRemoteWriteClosed", s))
           D == Maybe(ReadCloses(c, s), Told("StreamClosed", s))
           E == Maybe(c.recv[s].end = "reset", Told("Error", None))
<1>1. /\ Told("IncomingStream", s) \in X /\ Told("StreamData", s) \in X
      /\ Told("StreamRemoteWriteClosed", s) \in X /\ Told("StreamClosed", s) \in X
      /\ Told("Error", None) \in X
  BY DEF Told, StreamKinds
<1>2. X \subseteq Pushed
  BY DEF Pushed
<1>3. \A x \in X : (x.kind \in StreamKinds /\ x.stream = s) \/ x.kind = "Error"
  OBVIOUS
<1> HIDE DEF X
<1>4. A \in Seq(X) /\ B \in Seq(X) /\ C \in Seq(X) /\ D \in Seq(X) /\ E \in Seq(X)
  BY <1>1, MaybeSeq
<1>5. ReadTold(c, s) = A \o B \o C \o D \o E
  BY DEF ReadTold
<1> HIDE DEF A, B, C, D, E
<1>6. ReadTold(c, s) \in Seq(X)
  BY <1>4, <1>5
<1>7. QED
  BY <1>2, <1>3, <1>6

\* One turn of poll_streams: a stream is announced before its data, and
\* nothing is reported behind the end of the remote's side.
LEMMA ReadStreamTells ==
    ASSUME NEW id, NEW s \in Streams, NEW c, ConnOK(c), NEW c2, ReadAll(c, c2), Readable(c, s),
           NEW b \in Phase, b.conn = "connected", StreamMatches(b, c, s)
    PROVE  StreamTells(id, s, b, ReadTold(c, s), c, c2)
<1> DEFINE st == c.stream_states[s]
           rs == ReadState(c, s)
           st2 == c2.stream_states[s]
           fin == c.recv[s].end = "fin"
           open == [conn |-> "connected", stream |-> "open"]
           half == [conn |-> "connected", stream |-> "half"]
           closed == [conn |-> "connected", stream |-> "closed"]
           p == IF fin THEN half ELSE open
           q == IF ReadCloses(c, s) THEN closed ELSE p
<1>1. /\ c \in Connection /\ c2 \in Connection /\ StreamOK(c, s) /\ ReadTo(c, s, c2)
      /\ c2 = [c EXCEPT !.stream_states = c2.stream_states, !.recv = c2.recv]
  BY DEF ConnOK, ReadAll
<1>2. /\ c2.server = c.server /\ c2.state = c.state /\ c2.send = c.send
      /\ c2.next_local_bidi_stream_id = c.next_local_bidi_stream_id
      /\ IsLocalInitiated(c2, s) = IsLocalInitiated(c, s)
  BY <1>1 DEF Connection, IsLocalInitiated
<1>3. c.recv[s].end # "read"
  BY <1>1 DEF Readable, StreamOK
<1>4. /\ st = None => b.stream = "none" /\ Discovers(c, s) /\ ~IsLocalInitiated(c, s)
      /\ st # None => b.stream = "open" /\ ~Discovers(c, s)
  BY <1>1, <1>3 DEF StreamMatches, Readable, StreamOK, Discovers, Phase
<1>5. /\ st2 \in StreamRuntimeState /\ st2 # None
      /\ st2.remote_write_closed = (rs.remote_write_closed \/ fin)
      /\ st2.closed_notified = (rs.closed_notified \/ ReadCloses(c, s))
      /\ c2.recv[s].end = IF c.recv[s].end = "no" THEN "no" ELSE "read"
  BY <1>1, QuicConnectionAssumption DEF ReadTo
<1>6. ~rs.closed_notified
  BY <1>1, <1>3 DEF StreamOK, ReadState, DefaultStream
<1>7. rs \in StreamRuntimeState
  BY <1>1, DefaultStreamType DEF ReadState, Connection
<1>8. ReadCloses(c, s) => fin
  BY DEF ReadCloses
<1>9. open \in Phase /\ half \in Phase /\ closed \in Phase /\ p \in Phase /\ q \in Phase
  BY DEF Phase
<1>10. StreamMatches(q, c2, s)
  <2>1. Serves(c2, s) /\ q.stream # "none"
    BY <1>5 DEF Serves
  <2>2. IsLocalInitiated(c, s) => s < c.next_local_bidi_stream_id
    BY <1>4 DEF StreamMatches
  <2>3. q.stream \in {"half", "closed"} => c2.recv[s].end = "read"
    BY <1>5, <1>8
  <2>4. q.stream = "closed" <=> st2.closed_notified
    BY <1>5, <1>6, <1>7 DEF StreamRuntimeState
  <2>5. q.stream = "half" => st2.remote_write_closed
    BY <1>5
  <2> HIDE DEF q
  <2>6. QED
    BY <1>2, <1>5, <2>1, <2>2, <2>3, <2>4, <2>5 DEF StreamMatches
<1>11. Path(id, s, b, Tagged(id, ReadTold(c, s)), q)
  <2> DEFINE A == Maybe(Discovers(c, s), Told("IncomingStream", s))
             B == Maybe(c.recv[s].data, Told("StreamData", s))
             C == Maybe(fin, Told("StreamRemoteWriteClosed", s))
             D == Maybe(ReadCloses(c, s), Told("StreamClosed", s))
             E == Maybe(c.recv[s].end = "reset", Told("Error", None))
  <2>1. A \in Seq(Pushed) /\ B \in Seq(Pushed) /\ C \in Seq(Pushed) /\ D \in Seq(Pushed)
        /\ E \in Seq(Pushed)
    <3>1. /\ Told("IncomingStream", s) \in Pushed /\ Told("StreamData", s) \in Pushed
          /\ Told("StreamRemoteWriteClosed", s) \in Pushed /\ Told("StreamClosed", s) \in Pushed
          /\ Told("Error", None) \in Pushed
      BY DEF Told, Pushed, StreamKinds
    <3>2. QED
      BY <3>1, MaybeSeq
  <2>2. Path(id, s, b, Tagged(id, A), open)
    <3>1. Discovers(c, s) => Legal(id, s, b, TagOne(id, Told("IncomingStream", s)), open)
      BY <1>4 DEF Legal, StreamLegal, TagOne, Told
    <3>2. ~Discovers(c, s) => open = b
      BY <1>4 DEF Phase
    <3> HIDE DEF open
    <3>3. QED
      BY <1>9, <3>1, <3>2, MaybePath
  <2>3. Path(id, s, open, Tagged(id, B), open)
    <3>1. Legal(id, s, open, TagOne(id, Told("StreamData", s)), open)
      BY DEF Legal, StreamLegal, TagOne, Told
    <3> HIDE DEF open
    <3>2. QED
      BY <1>9, <3>1, MaybePath
  <2>4. Path(id, s, open, Tagged(id, C), p)
    <3>1. Legal(id, s, open, TagOne(id, Told("StreamRemoteWriteClosed", s)), half)
      BY DEF Legal, StreamLegal, TagOne, Told
    <3>2. (fin => p = half) /\ (~fin => p = open)
      OBVIOUS
    <3> HIDE DEF open, half, p, fin
    <3>3. QED
      BY <1>9, <3>1, <3>2, MaybePath
  <2>5. Path(id, s, p, Tagged(id, D), q)
    <3>1. ReadCloses(c, s) => Legal(id, s, p, TagOne(id, Told("StreamClosed", s)), q)
      BY <1>8 DEF Legal, StreamLegal, TagOne, Told
    <3>2. ~ReadCloses(c, s) => q = p
      OBVIOUS
    <3> HIDE DEF p, q
    <3>3. QED
      BY <1>9, <3>1, <3>2, MaybePath
  <2>6. Path(id, s, q, Tagged(id, E), q)
    <3>1. Legal(id, s, q, TagOne(id, Told("Error", None)), q)
      BY DEF Legal, TagOne, Told, Talking
    <3> HIDE DEF q
    <3>2. QED
      BY <1>9, <3>1, MaybePath
  <2> HIDE DEF A, B, C, D, E, open, p, q
  <2>7. A \o B \in Seq(Pushed) /\ Path(id, s, b, Tagged(id, A \o B), open)
    BY ONLY <2>1, <2>2, <2>3, TaggedPathConcat, ConcatHalves
  <2>8. A \o B \o C \in Seq(Pushed) /\ Path(id, s, b, Tagged(id, A \o B \o C), p)
    BY ONLY <2>1, <2>4, <2>7, TaggedPathConcat, ConcatHalves
  <2>9. A \o B \o C \o D \in Seq(Pushed) /\ Path(id, s, b, Tagged(id, A \o B \o C \o D), q)
    BY ONLY <2>1, <2>5, <2>8, TaggedPathConcat, ConcatHalves
  <2>10. Path(id, s, b, Tagged(id, A \o B \o C \o D \o E), q)
    BY ONLY <2>1, <2>6, <2>9, TaggedPathConcat
  <2>11. ReadTold(c, s) = A \o B \o C \o D \o E
    BY DEF ReadTold, A, B, C, D, E
  <2>12. QED
    BY <2>10, <2>11, Zenon
<1>12. q.conn = "connected"
  OBVIOUS
<1> HIDE DEF q
<1>13. QED
  BY <1>5, <1>9, <1>10, <1>11, <1>12 DEF StreamTells

ReadEvents(c) == [s \in Streams |-> IF Readable(c, s) THEN ReadTold(c, s) ELSE << >>]

\* The events of poll_streams' reading, stream by stream.
LEMMA ReadStreamsTold ==
    ASSUME NEW c \in Connection
    PROVE  /\ ReadStreams(c).events = ForStreams(ReadEvents(c))
           /\ ReadEvents(c) \in [Streams -> Seq(Pushed)]
           /\ ForStreams(ReadEvents(c)) \in Seq(Pushed)
           /\ NoConnected(ForStreams(ReadEvents(c)))
<1>1. [s \in Streams |-> IF Readable(c, s) THEN ReadStream(c, s).events ELSE << >>] = ReadEvents(c)
  BY ReadStreamTold DEF ReadEvents
<1>2. ReadStreams(c).events = ForStreams(ReadEvents(c))
  BY <1>1 DEF ReadStreams, Ok
<1> DEFINE X == {x \in Pushed : x.kind # "Connected"}
<1>3. /\ ReadEvents(c) \in [Streams -> Seq(X)]
      /\ ReadEvents(c) \in [Streams -> Seq(Pushed)]
  <2>1. ASSUME NEW s \in Streams PROVE ReadTold(c, s) \in Seq(X)
    <3>1. \A i \in 1 .. Len(ReadTold(c, s)) : ReadTold(c, s)[i].kind # "Connected"
      BY ReadToldSeq DEF StreamKinds
    <3>2. ReadTold(c, s) \in Seq(Pushed)
      BY ReadToldSeq
    <3>3. QED
      BY <3>1, <3>2
  <2>2. ASSUME NEW s \in Streams
        PROVE  /\ (IF Readable(c, s) THEN ReadTold(c, s) ELSE << >>) \in Seq(X)
               /\ (IF Readable(c, s) THEN ReadTold(c, s) ELSE << >>) \in Seq(Pushed)
    BY <2>1, ReadToldSeq
  <2>3. QED
    BY <2>2 DEF ReadEvents
<1>4. ForStreams(ReadEvents(c)) \in Seq(Pushed) /\ NoConnected(ForStreams(ReadEvents(c)))
  BY <1>3, ForStreamsSeq, NoConnectedSeq
<1>5. QED
  BY <1>2, <1>3, <1>4

\* The loop over readable().
LEMMA ReadTells ==
    ASSUME NEW id, NEW s \in Streams, NEW c, ConnOK(c), c.established
    PROVE  Tells(id, s, c, ReadStreams(c).events, ReadStreams(c).conn)
<1> DEFINE c2 == ReadStreams(c).conn
           E == ReadEvents(c)
<1>1. /\ ReadAll(c, c2) /\ c \in Connection /\ c # None /\ c2 # None
      /\ ReadStreams(c).events = ForStreams(E)
      /\ E \in [Streams -> Seq(Pushed)]
  BY ReadEffect, ReadStreamsTold, QuicConnectionAssumption DEF ConnOK, ReadAll
<1> HIDE DEF c2
<1>2. SUFFICES ASSUME NEW b \in Phase, Matches(b, c, s)
               PROVE  \E b2 \in Phase : /\ Path(id, s, b, Tagged(id, ForStreams(E)), b2)
                                        /\ Matches(b2, c2, s)
  BY <1>1 DEF Tells, c2
<1>3. /\ c2.state = c.state /\ c2.established = c.established /\ c2.peer_id = c.peer_id
      /\ c2.server = c.server /\ c2.send = c.send
      /\ c2.next_local_bidi_stream_id = c.next_local_bidi_stream_id
      /\ ProvesPeer(c2) = ProvesPeer(c)
  <2>1. c2 \in Connection /\ c2 = [c EXCEPT !.stream_states = c2.stream_states, !.recv = c2.recv]
    BY <1>1 DEF ReadAll
  <2>2. QED
    BY <1>1, <2>1 DEF Connection, ProvesPeer
<1>4. b.conn = "connected" /\ StreamMatches(b, c, s)
  BY <1>1, <1>2 DEF Matches
<1>5. PICK b2 \in Phase : /\ b2.conn = "connected"
                          /\ Path(id, s, b, Tagged(id, E[s]), b2)
                          /\ StreamMatches(b2, c2, s)
  <2>1. CASE Readable(c, s)
    <3>1. StreamTells(id, s, b, ReadTold(c, s), c, c2)
      BY <1>1, <1>4, <2>1, ReadStreamTells
    <3>2. E[s] = ReadTold(c, s)
      BY <2>1 DEF ReadEvents
    <3>3. QED
      BY <3>1, <3>2 DEF StreamTells
  <2>2. CASE ~Readable(c, s)
    <3>1. c2.stream_states[s] = c.stream_states[s] /\ c2.recv[s] = c.recv[s]
      BY <1>1, <2>2 DEF ReadAll, ReadTo
    <3>2. StreamMatches(b, c2, s)
      BY <1>3, <1>4, <3>1, StreamMatchesSame
    <3>3. E[s] = << >>
      BY <2>2 DEF ReadEvents
    <3>4. QED
      BY <1>4, <3>2, <3>3, TaggedEmpty
  <2>3. QED
    BY <2>1, <2>2
<1>6. ASSUME NEW t \in Streams, t # s, NEW x \in Phase, x.conn = "connected"
      PROVE  Path(id, s, x, Tagged(id, E[t]), x)
  <2>1. CASE Readable(c, t)
    <3>1. E[t] = ReadTold(c, t)
      BY <2>1 DEF ReadEvents
    <3>2. ReadTold(c, t) \in Seq(Pushed)
          /\ \A i \in 1 .. Len(ReadTold(c, t)) :
                \/ ReadTold(c, t)[i].kind \in StreamKinds /\ ReadTold(c, t)[i].stream # s
                \/ ReadTold(c, t)[i].kind = "Error"
      BY <1>6, ReadToldSeq
    <3>3. QED
      BY <1>6, <3>1, <3>2, TaggedOther
  <2>2. CASE ~Readable(c, t)
    <3>1. E[t] = << >>
      BY <2>2 DEF ReadEvents
    <3>2. QED
      BY <3>1, TaggedEmpty
  <2>3. QED
    BY <2>1, <2>2
<1> HIDE DEF E
<1>7. Path(id, s, b, Tagged(id, ForStreams(E)), b2)
  BY <1>1, <1>4, <1>5, <1>6, ForStreamsPath
<1>8. Matches(b2, c2, s)
  BY <1>1, <1>2, <1>3, <1>5 DEF Matches
<1>9. QED
  BY <1>7, <1>8

\* gc_closed_streams: what it takes away is told to be closed.
LEMMA GcTells ==
    ASSUME NEW id, NEW s \in Streams, NEW c, ConnOK(c)
    PROVE  Tells(id, s, c, << >>, GcClosedStreams(c))
<1> DEFINE c2 == GcClosedStreams(c)
           st == c.stream_states[s]
<1>1. /\ c \in Connection /\ c # None /\ c2 # None /\ c2 \in Connection
      /\ c2 = [c EXCEPT !.stream_states = c2.stream_states]
      /\ \A t \in Streams : c2.stream_states[t] =
           IF Collectable(c.stream_states[t]) THEN None ELSE c.stream_states[t]
  BY GcEffect, QuicConnectionAssumption DEF ConnOK
<1> HIDE DEF c2
<1>2. SUFFICES ASSUME NEW b \in Phase, Matches(b, c, s)
               PROVE  Matches(b, c2, s)
  BY TaggedEmpty DEF Tells, c2
<1>3. /\ c2.state = c.state /\ c2.established = c.established /\ c2.peer_id = c.peer_id
      /\ c2.server = c.server /\ c2.send = c.send /\ c2.recv = c.recv
      /\ c2.next_local_bidi_stream_id = c.next_local_bidi_stream_id
      /\ IsLocalInitiated(c2, s) = IsLocalInitiated(c, s)
      /\ ProvesPeer(c2) = ProvesPeer(c)
  BY <1>1 DEF Connection, IsLocalInitiated, ProvesPeer
<1>4. CASE ~c.established
  <2>1. Untouched(c2)
    BY <1>1, <1>2, <1>3, <1>4 DEF Matches, Untouched, Collectable
  <2>2. QED
    BY <1>1, <1>2, <1>3, <1>4, <2>1 DEF Matches
<1>5. CASE c.established
  <2>1. b.conn = "connected" /\ StreamMatches(b, c, s) /\ c.peer_id # None /\ ProvesPeer(c)
    BY <1>1, <1>2, <1>5 DEF Matches
  <2>2. CASE ~Collectable(st)
    <3>1. c2.stream_states[s] = st
      BY <1>1, <2>2
    <3>2. StreamMatches(b, c2, s)
      BY <1>3, <2>1, <3>1, StreamMatchesSame
    <3>3. QED
      BY <1>1, <1>2, <1>3, <1>5, <2>1, <3>2 DEF Matches
  <2>3. CASE Collectable(st)
    <3>1. c2.stream_states[s] = None /\ st # None /\ st.closed_notified /\ st.pending_writes = << >>
      BY <1>1, <2>3 DEF Collectable
    <3>2. c.recv[s].end = "read" /\ c.send[s] \in {"fin", "shut"}
      <4>1. StreamOK(c, s) /\ c.send[s] \in {"unused", "open", "fin", "shut"}
        BY DEF ConnOK, Connection
      <4>2. Pending(c, s) = << >>
        BY <3>1 DEF Pending
      <4>3. QED
        BY <3>1, <4>1, <4>2 DEF StreamOK, EndsWithFin
    <3>3. StreamMatches(b, c2, s)
      BY <1>3, <2>1, <3>1, <3>2 DEF StreamMatches, Serves
    <3>4. QED
      BY <1>1, <1>2, <1>3, <1>5, <2>1, <3>3 DEF Matches
  <2>4. QED
    BY <2>2, <2>3
<1>6. QED
  BY <1>4, <1>5

\* Reading forgets no stream that the application knows.
LEMMA ReadServes ==
    ASSUME NEW c \in Connection, NEW c2, ReadAll(c, c2)
    PROVE  Serving(c, c2)
<1>1. c2.send = c.send /\ c2.cert = c.cert /\ c2.expected = c.expected
  BY DEF ReadAll, Connection
<1>2. ASSUME NEW s \in Streams, Serves(c, s) PROVE Serves(c2, s)
  BY <1>1, <1>2, QuicConnectionAssumption DEF ReadAll, ReadTo, Serves
<1>3. QED
  BY <1>1, <1>2 DEF Serving

\* gc_closed_streams forgets only streams whose end was reported.
LEMMA GcServes ==
    ASSUME NEW c, ConnOK(c)
    PROVE  Serving(c, GcClosedStreams(c))
<1> DEFINE c2 == GcClosedStreams(c)
<1>1. /\ c \in Connection /\ c2 = [c EXCEPT !.stream_states = c2.stream_states]
      /\ \A t \in Streams : c2.stream_states[t] =
           IF Collectable(c.stream_states[t]) THEN None ELSE c.stream_states[t]
  BY GcEffect DEF ConnOK
<1> HIDE DEF c2
<1>2. c2.send = c.send /\ c2.cert = c.cert /\ c2.expected = c.expected
  BY <1>1 DEF Connection
<1>3. ASSUME NEW s \in Streams, Serves(c, s) PROVE Serves(c2, s)
  <2>1. CASE ~Collectable(c.stream_states[s])
    BY <1>1, <1>2, <1>3, <2>1 DEF Serves
  <2>2. CASE Collectable(c.stream_states[s])
    <3>1. StreamOK(c, s) /\ c.send[s] \in {"unused", "open", "fin", "shut"}
      BY DEF ConnOK, Connection
    <3>2. Pending(c, s) = << >>
      BY <2>2 DEF Pending, Collectable
    <3>3. c.send[s] \in {"fin", "shut"}
      BY <2>2, <3>1, <3>2 DEF StreamOK, EndsWithFin, Collectable
    <3>4. QED
      BY <1>2, <3>3 DEF Serves
  <2>3. QED
    BY <2>1, <2>2
<1>4. QED
  BY <1>2, <1>3 DEF Serving, c2

\* poll_streams.
LEMMA PollStreamsStep ==
    ASSUME NEW id, NEW s \in Streams, NEW c, ConnOK(c), NEW d,
           DrainChoice(ReadStreams(c).conn, d)
    PROVE  LET r == PollStreams(c, d)
           IN  /\ ConnOK(r.conn) /\ r.events \in Seq(Pushed) /\ Serving(c, r.conn)
               /\ NoConnected(r.events)
               /\ Tells(id, s, c, r.events, r.conn)
<1> DEFINE c1 == ReadStreams(c).conn
           P == ReadStreams(c).events
           c2 == DrainSendQueue(c1, d).conn
           Q == DrainSendQueue(c1, d).events
           c3 == GcClosedStreams(c2)
<1>1. ConnOK(PollStreams(c, d).conn)
  BY PollStreamsOK
<1>2. CASE ~c.established
  <2>1. PollStreams(c, d).conn = c /\ PollStreams(c, d).events = << >>
    BY <1>2 DEF PollStreams, Ok
  <2>2. Tells(id, s, c, << >>, c)
    BY TaggedEmpty DEF Tells
  <2>3. QED
    BY <1>1, <2>1, <2>2 DEF Serving, NoConnected
<1>3. CASE c.established
  <2>1. ConnOK(c1) /\ P \in Seq(Pushed) /\ Tells(id, s, c, P, c1) /\ NoConnected(P)
    BY <1>3, ReadEffect, ReadOK, ReadStreamsTold, ReadTells DEF ConnOK
  <2>2. Serving(c, c1)
    BY ReadEffect, ReadServes DEF ConnOK
  <2> HIDE DEF c1, P
  <2>3. DrainChoice(c1, d)
    BY DEF c1
  <2>4. /\ ConnOK(c2) /\ Q \in Seq(Pushed) /\ Tells(id, s, c1, Q, c2) /\ Serving(c1, c2)
        /\ NoConnected(Q)
    BY <2>1, <2>3, DrainStep
  <2> HIDE DEF c2, Q
  <2>5. P \o Q \in Seq(Pushed) /\ Tells(id, s, c, P \o Q, c2) /\ NoConnected(P \o Q)
    BY <2>1, <2>4, TellsConcat, NoConnectedConcat
  <2>6. (P \o Q) \o << >> = P \o Q /\ << >> \in Seq(Pushed)
    BY <2>1, <2>4
  <2>7. Tells(id, s, c2, << >>, c3) /\ Serving(c2, c3)
    BY <2>4, GcTells, GcServes
  <2> HIDE DEF c3
  <2>8. Tells(id, s, c, (P \o Q) \o << >>, c3)
    BY ONLY <2>5, <2>6, <2>7, TellsConcat
  <2>9. Tells(id, s, c, P \o Q, c3)
    BY <2>6, <2>8, Zenon
  <2>10. /\ PollStreams(c, d).events = P \o Q
        /\ PollStreams(c, d).conn \in {c2, c3}
    BY <1>3 DEF PollStreams, Ok, Err, P, Q, c1, c2, c3
  <2>11. Serving(c, c2) /\ Serving(c, c3)
    BY <2>2, <2>4, <2>7 DEF Serving
  <2>12. QED
    BY <1>1, <2>5, <2>9, <2>10, <2>11
<1>4. QED
  BY <1>2, <1>3

\* Steps that tell nothing and change no stream.
LEMMA SilentTells ==
    ASSUME NEW id, NEW s \in Streams, NEW c \in Connection, NEW c2 \in Connection,
           c2.stream_states = c.stream_states, c2.send = c.send, c2.recv = c.recv,
           c2.server = c.server, c2.state = c.state, c2.established = c.established,
           c2.peer_id = c.peer_id, c2.cert = c.cert, c2.expected = c.expected,
           c2.next_local_bidi_stream_id = c.next_local_bidi_stream_id
    PROVE  Tells(id, s, c, << >>, c2)
<1>1. c # None /\ c2 # None
  BY QuicConnectionAssumption
<1>2. ASSUME NEW b \in Phase, Matches(b, c, s) PROVE Matches(b, c2, s)
  <2>1. CASE c.established
    <3>1. StreamMatches(b, c2, s)
      BY <1>1, <1>2, <2>1, StreamMatchesSame DEF Matches
    <3>2. QED
      BY <1>1, <1>2, <2>1, <3>1 DEF Matches, ProvesPeer
  <2>2. CASE ~c.established
    BY <1>1, <1>2, <2>2 DEF Matches, Untouched
  <2>3. QED
    BY <2>1, <2>2
<1>3. QED
  BY <1>2, TaggedEmpty DEF Tells

\* quiche puts input to a stream into its buffer.
LEMMA InputTells ==
    ASSUME NEW id, NEW s \in Streams, NEW c, ConnOK(c), c.established,
           NEW t \in Streams, NEW unit, RemoteWrites(c, t)
    PROVE  LET c2 == StreamInput(c, t, unit)
           IN  Tells(id, s, c, << >>, c2) /\ Serving(c, c2)
<1> DEFINE c2 == StreamInput(c, t, unit)
<1>1. /\ c \in Connection /\ c2 \in Connection /\ InputStream(c, t, c2)
      /\ c # None /\ c2 # None
  BY InputEffect, QuicConnectionAssumption DEF ConnOK, InputStream
<1> HIDE DEF c2
<1>2. /\ c2.state = c.state /\ c2.established = c.established /\ c2.peer_id = c.peer_id
      /\ c2.server = c.server /\ c2.send = c.send /\ c2.stream_states = c.stream_states
      /\ c2.next_local_bidi_stream_id = c.next_local_bidi_stream_id
      /\ c2.cert = c.cert /\ c2.expected = c.expected
  <2>1. c2 = [c EXCEPT !.recv = c2.recv]
    BY <1>1 DEF InputStream
  <2>2. QED
    BY <1>1, <2>1 DEF Connection
<1>3. Serving(c, c2)
  BY <1>2 DEF Serving, Serves
<1>4. ASSUME NEW b \in Phase, Matches(b, c, s) PROVE Matches(b, c2, s)
  <2>1. StreamMatches(b, c, s)
    BY <1>1, <1>4 DEF Matches
  <2>2. StreamMatches(b, c2, s)
    <3>1. CASE s # t \/ c.recv[s].end = "read"
      BY <1>1, <1>2, <2>1, <3>1, StreamMatchesSame DEF InputStream
    <3>2. CASE s = t /\ c.recv[s].end # "read"
      <4>1. b.stream = "none" => ~IsLocalInitiated(c, s)
        BY <2>1, <3>2 DEF StreamMatches, RemoteWrites
      <4>2. IsLocalInitiated(c2, s) = IsLocalInitiated(c, s) /\ Serves(c2, s) = Serves(c, s)
        BY <1>2 DEF IsLocalInitiated, Serves
      <4>3. QED
        BY <1>2, <2>1, <3>2, <4>1, <4>2 DEF StreamMatches
    <3>3. QED
      BY <3>1, <3>2
  <2>3. QED
    BY <1>1, <1>2, <1>4, <2>2 DEF Matches, ProvesPeer
<1>5. Tells(id, s, c, << >>, c2)
  BY <1>4, TaggedEmpty DEF Tells
<1>6. QED
  BY <1>3, <1>5 DEF c2

\* recv_packet outside the handshake, once quiche has turned c into c1.
LEMMA PacketTells ==
    ASSUME NEW id, NEW s \in Streams, NEW c, NEW c1, ConnOK(c1),
           Tells(id, s, c, << >>, c1), NEW d, DrainChoice(c1, d)
    PROVE  LET r == DrainSendQueue(c1, d)
           IN  /\ Tells(id, s, c, r.events, r.conn) /\ r.events \in Seq(Pushed)
               /\ r.conn.peer_id = c1.peer_id /\ NoConnected(r.events)
<1> DEFINE E == DrainSendQueue(c1, d).events
           c2 == DrainSendQueue(c1, d).conn
<1>1. E \in Seq(Pushed) /\ Tells(id, s, c1, E, c2) /\ NoConnected(E)
  BY DrainStep
<1>2. c2.peer_id = c1.peer_id
  BY DrainConn DEF ConnOK, Drained
<1> HIDE DEF E, c2
<1>3. Tells(id, s, c, << >> \o E, c2)
  <2>1. << >> \in Seq(Pushed)
    OBVIOUS
  <2>2. QED
    BY <1>1, <2>1, TellsConcat
<1>4. << >> \o E = E
  BY <1>1
<1>5. QED
  BY <1>1, <1>2, <1>3, <1>4 DEF E, c2

\* The events of recv_packet, with the one the transport adds when the peer id
\* has changed.
Verified(old, r) ==
    r.events \o Maybe(r.conn.peer_id # old.peer_id, Told("PeerIdentityVerified", None))

\* What quiche may have changed when the handshake completes: input to streams
\* of the remote.
Completes(c, c1) ==
    /\ c1.state = "Connecting" /\ c.state = "Connecting" /\ c1.established
    /\ c1.stream_states = c.stream_states /\ c1.send = c.send /\ c1.server = c.server
    /\ c1.peer_id = c.peer_id /\ c1.next_local_bidi_stream_id = c.next_local_bidi_stream_id
    /\ \A s \in Streams : IsLocalInitiated(c, s) /\ c.send[s] = "unused" => c1.recv[s] = c.recv[s]

\* The handshake: Connected comes before anything of a stream, and only of a
\* peer whose certificate was accepted.
LEMMA HandshakeTells ==
    ASSUME NEW id, NEW s \in Streams, NEW c, ConnOK(c), NEW c1, ConnOK(c1), Completes(c, c1),
           NEW d, DrainChoice(c1, d), NEW flushed \in BOOLEAN,
           RecvPacket(c1, d, flushed).ok, RecvPacket(c1, d, flushed).conn.state # "Closing"
    PROVE  Tells(id, s, c, Verified(c, RecvPacket(c1, d, flushed)), RecvPacket(c1, d, flushed).conn)
<1> DEFINE c2 == [c1 EXCEPT !.state = "Connected"]
           r == DrainSendQueue(c2, d)
           c3 == r.conn
           c4 == [c3 EXCEPT !.peer_id = c1.cert]
           connected == <<Told("Connected", None)>>
           verified == Maybe(c1.cert # c.peer_id, Told("PeerIdentityVerified", None))
<1>1. /\ c \in Connection /\ c1 \in Connection /\ c2 \in Connection
      /\ c2.stream_states = c1.stream_states /\ c2.send = c1.send /\ c2.recv = c1.recv
      /\ c2.state = "Connected" /\ c2.server = c1.server /\ c2.established = c1.established
      /\ c2.next_local_bidi_stream_id = c1.next_local_bidi_stream_id
      /\ c2.cert = c1.cert /\ c2.expected = c1.expected
  BY DEF ConnOK, Connection, ConnectionState
<1>2. DrainChoice(c2, d)
  BY <1>1, SameChoices
<1> HIDE DEF c2
<1>3. Drained(c2, d, c3) /\ r.ok = d.ok
  BY <1>1, <1>2, DrainConn
<1>4. r.events = ForStreams(DrainEvents(c2, d)) /\ DrainEvents(c2, d) \in [Streams -> Seq(Pushed)]
      /\ r.events \in Seq(Pushed)
  BY <1>2, DrainTold DEF DrainChoice
<1>5. /\ ~Refuses(c1) /\ RecvPacket(c1, d, flushed).conn = c4
      /\ RecvPacket(c1, d, flushed).events = r.events \o connected
  <2>1. RecvPacket(c1, d, flushed) = HandshakeDone(c1, d, flushed)
    BY DEF RecvPacket, Completes
  <2>2. r.ok
    <3>1. CASE ~r.ok
      <4>1. RecvPacket(c1, d, flushed) = r
        BY <2>1, <3>1 DEF HandshakeDone, c2
      <4>2. QED
        BY <3>1, <4>1
    <3>2. QED
      BY <3>1
  <2>3. CASE Refuses(c1)
    <3>1. RecvPacket(c1, d, flushed).conn = [c3 EXCEPT !.state = "Closing"]
      BY <2>1, <2>2, <2>3 DEF HandshakeDone, Ok, Err, c2
    <3>2. c3 \in Connection
      BY <1>3 DEF Drained
    <3>3. [c3 EXCEPT !.state = "Closing"].state = "Closing"
      BY <3>2 DEF Connection
    <3>4. QED
      BY <3>1, <3>3
  <2>4. CASE ~Refuses(c1)
    <3>1. RecvPacket(c1, d, flushed) = Ok(c4, r.events \o connected)
      BY <2>1, <2>2, <2>4 DEF HandshakeDone, c2
    <3>2. QED
      BY <2>4, <3>1 DEF Ok
  <2>5. QED
    BY <2>3, <2>4
<1>6. c4 \in Connection /\ c4.peer_id = c1.cert /\ c4.state = "Connected" /\ c4.established
      /\ c4.stream_states = c3.stream_states /\ c4.send = c3.send /\ c4.recv = c1.recv
      /\ c4.server = c.server /\ c4.cert = c1.cert /\ c4.expected = c1.expected
  <2>1. /\ c3 \in Connection /\ c3.state = "Connected" /\ c3.established
        /\ c3.server = c.server /\ c3.cert = c1.cert /\ c3.expected = c1.expected
        /\ c3.recv = c1.recv
    BY <1>1, <1>3 DEF Drained, Completes
  <2>2. c1.cert \in Peers \cup {None}
    BY <1>1 DEF Connection
  <2> HIDE DEF c3
  <2>3. QED
    BY <2>1, <2>2 DEF Connection
<1>a. c4.peer_id # None /\ ProvesPeer(c4)
  BY <1>5, <1>6 DEF Refuses, ProvesPeer, ConnOK, Genuine, Completes
<1> HIDE DEF c4
<1>7. c # None /\ c4 # None
  BY <1>1, <1>6, QuicConnectionAssumption
<1>8. Verified(c, RecvPacket(c1, d, flushed)) = (r.events \o connected) \o verified
  BY <1>5, <1>6 DEF Verified
<1>9. SUFFICES ASSUME NEW b \in Phase, Matches(b, c, s)
               PROVE  \E b2 \in Phase :
                        /\ Path(id, s, b, Tagged(id, (r.events \o connected) \o verified), b2)
                        /\ Matches(b2, c4, s)
  BY <1>5, <1>8 DEF Tells
<1>10. b.conn \in {"dialed", "incoming"} /\ b.stream = "none" /\ Untouched(c)
  BY <1>7, <1>9 DEF Matches, Completes
<1> DEFINE b2 == [conn |-> "connected", stream |-> "none"]
<1>11. b2 \in Phase
  BY DEF Phase
<1>12. Path(id, s, b, Tagged(id, r.events), b)
  <2>1. ASSUME NEW t \in Streams PROVE Path(id, s, b, Tagged(id, DrainEvents(c2, d)[t]), b)
    <3>1. DrainEvents(c2, d)[t] = << >>
      BY <1>1, <1>10 DEF DrainEvents, Closes, Untouched, Completes
    <3>2. QED
      BY <3>1, TaggedEmpty
  <2>2. QED
    BY <1>4, <2>1, ForStreamsPath
<1>13. Path(id, s, b, Tagged(id, connected), b2)
  <2>1. Legal(id, s, b, TagOne(id, Told("Connected", None)), b2)
    BY <1>10 DEF Legal, TagOne, Told
  <2>2. QED
    BY <1>11, <2>1, TaggedOne
<1>14. Path(id, s, b2, Tagged(id, verified), b2)
  <2>1. Legal(id, s, b2, TagOne(id, Told("PeerIdentityVerified", None)), b2)
    BY DEF Legal, TagOne, Told
  <2> HIDE DEF b2
  <2>2. QED
    BY <1>11, <2>1, MaybePath
<1>15. connected \in Seq(Pushed) /\ verified \in Seq(Pushed)
  <2>1. Told("Connected", None) \in Pushed /\ Told("PeerIdentityVerified", None) \in Pushed
    BY DEF Told, Pushed
  <2>2. QED
    BY <2>1, MaybeSeq
<1>16. Matches(b2, c4, s)
  <2>1. c4.stream_states[s] = None /\ c4.send[s] = "unused"
    BY <1>1, <1>3, <1>6, <1>10 DEF Drained, DrainedStream, Untouched, Completes
  <2>2. IsLocalInitiated(c4, s) => ~c4.recv[s].data /\ c4.recv[s].end = "no"
    BY <1>6, <1>10 DEF IsLocalInitiated, Untouched, Completes
  <2>3. QED
    BY <1>a, <1>6, <1>7, <2>1, <2>2 DEF Matches, StreamMatches
<1> HIDE DEF r, connected, verified, b2
<1>17. /\ r.events \o connected \in Seq(Pushed)
       /\ Path(id, s, b, Tagged(id, r.events \o connected), b2)
  BY ONLY <1>4, <1>12, <1>13, <1>15, TaggedPathConcat, ConcatHalves
<1>18. Path(id, s, b, Tagged(id, (r.events \o connected) \o verified), b2)
  BY ONLY <1>14, <1>15, <1>17, TaggedPathConcat
<1>19. QED
  BY <1>11, <1>16, <1>18

\* recv_packet in every case: what it leaves, verified or not.
LEMMA RecvPacketStep ==
    ASSUME NEW c, ConnOK(c), NEW d, DrainChoice(c, d), NEW flushed \in BOOLEAN
    PROVE  LET r == RecvPacket(c, d, flushed)
           IN  /\ ConnOK(r.conn) /\ Serving(c, r.conn) /\ r.events \in Seq(Pushed)
               /\ r.conn.peer_id # c.peer_id => r.conn.peer_id \in Peers
               /\ r.ok \in BOOLEAN
               /\ ~r.ok => r.conn.peer_id = c.peer_id
               /\ Honest(r.events, r.conn)
               /\ r.conn.state = "Closing" /\ c.state = "Connecting" => Impostors
<1> DEFINE c2 == [c EXCEPT !.state = "Connected"]
           q == DrainSendQueue(c2, d)
           c3 == q.conn
           p == DrainSendQueue(c, d)
<1>1. c \in Connection
  BY DEF ConnOK
<1>2. /\ c2 \in Connection /\ c2.stream_states = c.stream_states /\ c2.send = c.send
      /\ c2.peer_id = c.peer_id /\ c2.cert = c.cert /\ c2.expected = c.expected
      /\ c2.state = "Connected" /\ c.state \in ConnectionState
  BY <1>1 DEF Connection, ConnectionState
<1>3. DrainChoice(c2, d)
  BY <1>2, SameChoices
<1> HIDE DEF c2
<1>4. /\ Drained(c2, d, c3) /\ q.ok \in BOOLEAN /\ q.events \in Seq(Pushed)
      /\ NoConnected(q.events)
  BY <1>2, <1>3, DrainConn, DrainTold DEF DrainChoice
<1>5. /\ Drained(c, d, p.conn) /\ p.ok \in BOOLEAN /\ p.events \in Seq(Pushed)
      /\ NoConnected(p.events)
  BY <1>1, DrainConn, DrainTold DEF DrainChoice
<1>6. Serving(c2, c3) /\ Serving(c, p.conn)
  BY <1>4, <1>5, DrainServes
<1>7. Serving(c, c3)
  BY <1>2, <1>6 DEF Serving, Serves
<1>8. /\ c3 \in Connection /\ c3.peer_id = c.peer_id /\ p.conn.peer_id = c.peer_id
      /\ c3.state = "Connected" /\ p.conn.state = c.state
      /\ c3.cert = c.cert /\ c3.expected = c.expected
  BY <1>2, <1>4, <1>5 DEF Drained
<1>9. LET y == [c3 EXCEPT !.state = "Closing"] IN Serving(c, y) /\ y.peer_id = c.peer_id
  BY <1>7, <1>8 DEF Serving, Serves, Connection
<1>10. ASSUME NEW x \in Peers
       PROVE  LET y == [c3 EXCEPT !.peer_id = x]
              IN  /\ Serving(c, y) /\ y.peer_id \in Peers /\ y.state = "Connected"
                  /\ y.cert = c.cert /\ y.expected = c.expected
  BY <1>7, <1>8 DEF Serving, Serves, Connection
<1>11. Told("Error", None) \in Pushed /\ Told("Connected", None) \in Pushed
  BY DEF Told, Pushed
<1>12. /\ q.events \o <<Told("Error", None)>> \in Seq(Pushed)
       /\ q.events \o <<Told("Connected", None)>> \in Seq(Pushed)
       /\ NoConnected(q.events \o <<Told("Error", None)>>)
  <2>1. PICK e, x : e = q.events /\ x = <<Told("Error", None)>>
    OBVIOUS
  <2>2. x \in Seq(Pushed) /\ NoConnected(x)
    BY <1>11, <2>1 DEF NoConnected, Told
  <2>3. NoConnected(e \o x)
    BY <1>4, <2>1, <2>2, NoConnectedConcat
  <2>4. QED
    BY <1>4, <1>11, <2>1, <2>3
<1> DEFINE r == RecvPacket(c, d, flushed)
<1>13. ConnOK(r.conn)
  BY RecvPacketOK
<1>14. \/ r = p /\ ~(c.state = "Connecting" /\ c.established)
       \/ r = q
       \/ /\ Refuses(c) /\ c.state = "Connecting"
          /\ r.conn = [c3 EXCEPT !.state = "Closing"] /\ r.ok \in BOOLEAN
          /\ r.events = q.events \o <<Told("Error", None)>>
       \/ /\ ~Refuses(c) /\ c.state = "Connecting"
          /\ r = Ok([c3 EXCEPT !.peer_id = c.cert], q.events \o <<Told("Connected", None)>>)
  <2>1. CASE ~(c.state = "Connecting" /\ c.established)
    BY <2>1 DEF RecvPacket
  <2>2. CASE c.state = "Connecting" /\ c.established
    <3>1. r = HandshakeDone(c, d, flushed)
      BY <2>2 DEF RecvPacket
    <3>2. CASE ~q.ok
      BY <3>1, <3>2 DEF HandshakeDone, c2
    <3>3. CASE q.ok /\ Refuses(c)
      BY <2>2, <3>1, <3>3 DEF HandshakeDone, Ok, Err, c2
    <3>4. CASE q.ok /\ ~Refuses(c)
      BY <2>2, <3>1, <3>4 DEF HandshakeDone, c2
    <3>5. QED
      BY <3>2, <3>3, <3>4
  <2>3. QED
    BY <2>1, <2>2
<1>a. Refuses(c) /\ c.state = "Connecting" => Impostors
  BY GenuineAccepted
<1> HIDE DEF r, c3, p
<1>15. CASE r = p /\ ~(c.state = "Connecting" /\ c.established)
  <2>1. r.conn.state = "Closing" => c.state # "Connecting"
    BY <1>8, <1>15
  <2>2. QED
    BY <1>5, <1>6, <1>8, <1>13, <1>15, <2>1 DEF r, Honest
<1>16. CASE r = q
  BY <1>4, <1>7, <1>8, <1>13, <1>16 DEF r, c3, Honest
<1>17. CASE /\ Refuses(c) /\ c.state = "Connecting"
            /\ r.conn = [c3 EXCEPT !.state = "Closing"] /\ r.ok \in BOOLEAN
            /\ r.events = q.events \o <<Told("Error", None)>>
  BY <1>a, <1>9, <1>12, <1>13, <1>17 DEF r, Honest
<1>18. CASE /\ ~Refuses(c) /\ c.state = "Connecting"
            /\ r = Ok([c3 EXCEPT !.peer_id = c.cert], q.events \o <<Told("Connected", None)>>)
  <2>1. r.conn = [c3 EXCEPT !.peer_id = c.cert] /\ r.ok /\ r.ok \in BOOLEAN
        /\ r.events = q.events \o <<Told("Connected", None)>>
    BY <1>18 DEF Ok
  <2>2. c.cert \in Peers /\ ProvesPeer(c)
    BY <1>1, <1>18 DEF Refuses, ProvesPeer, ConnOK, Genuine, Connection
  <2>3. /\ Serving(c, r.conn) /\ r.conn.peer_id \in Peers /\ r.conn.state = "Connected"
        /\ r.conn.cert = c.cert /\ r.conn.expected = c.expected
    BY <1>10, <2>1, <2>2
  <2>4. ProvesPeer(r.conn)
    BY <2>2, <2>3 DEF ProvesPeer
  <2>5. QED
    BY <1>12, <1>13, <2>1, <2>3, <2>4 DEF r, Honest
<1>19. QED
  BY <1>14, <1>15, <1>16, <1>17, <1>18

\* An error that is not fatal.
LEMMA ErrorTells ==
    ASSUME NEW id, NEW s, NEW c, c # None
    PROVE  Tells(id, s, c, <<Told("Error", None)>>, c)
<1>1. ASSUME NEW b \in Phase, Matches(b, c, s)
      PROVE  Path(id, s, b, Tagged(id, <<Told("Error", None)>>), b)
  <2>1. b.conn \in Talking
    BY <1>1 DEF Matches, Talking
  <2>2. Legal(id, s, b, TagOne(id, Told("Error", None)), b)
    BY <2>1 DEF Legal, TagOne, Told
  <2>3. QED
    BY <2>2, TaggedOne
<1>2. QED
  BY <1>1 DEF Tells

\* What the first datagram makes of an accepted connection.
FirstPacket(c, r) == r = RecvError(c) \/ \E d \in Drains(c) : r = DrainSendQueue(c, d)

\* accept: the first event of a connection is IncomingConnection.
LEMMA AcceptTells ==
    ASSUME NEW id, NEW s \in Streams, NEW cert \in Certificates(None),
           NEW r, FirstPacket(New(TRUE, None, cert), r)
    PROVE  LET c == New(TRUE, None, cert)
               E == <<Told("IncomingConnection", None)>> \o r.events
           IN  /\ ConnOK(c) /\ ConnOK(r.conn) /\ E \in Seq(Pushed) /\ r.ok \in BOOLEAN /\ NoConnected(E)
               /\ r.conn.peer_id = None /\ r.conn.state = "Connecting"
               /\ \E b \in Phase : /\ Path(id, s, [conn |-> "none", stream |-> "none"], Tagged(id, E), b)
                                   /\ Matches(b, r.conn, s)
<1> DEFINE c == New(TRUE, None, cert)
           I == <<Told("IncomingConnection", None)>>
           a == [conn |-> "none", stream |-> "none"]
           m == [conn |-> "incoming", stream |-> "none"]
<1>1. ConnOK(c)
  BY NewOK
<1>2. Matches(m, c, s)
  <2>1. /\ c.state = "Connecting" /\ ~c.established /\ Untouched(c) /\ c # None
    BY <1>1, QuicConnectionAssumption DEF New, Untouched, ConnOK
  <2>2. QED
    BY <2>1 DEF Matches
<1>3. m \in Phase /\ a \in Phase /\ I \in Seq(Pushed)
  BY DEF Phase, Told, Pushed
<1>4. Path(id, s, a, Tagged(id, I), m)
  <2>1. Legal(id, s, a, TagOne(id, Told("IncomingConnection", None)), m)
    BY DEF Legal, TagOne, Told
  <2>2. QED
    BY <1>3, <2>1, TaggedOne
<1>5. c.peer_id = None /\ c.state = "Connecting"
  BY DEF New
<1> HIDE DEF c, I, a, m
<1>6. FirstPacket(c, r) /\ c # None
  BY <1>1, QuicConnectionAssumption DEF c, ConnOK
<1>7. /\ ConnOK(r.conn) /\ r.events \in Seq(Pushed) /\ Tells(id, s, c, r.events, r.conn)
      /\ r.conn.peer_id = None /\ r.conn.state = "Connecting" /\ r.ok \in BOOLEAN
      /\ NoConnected(r.events)
  <2>1. CASE r = RecvError(c)
    <3>1. r.conn = c /\ r.events = <<Told("Error", None)>> /\ r.ok \in BOOLEAN
      BY <2>1 DEF RecvError, Ok
    <3>2. <<Told("Error", None)>> \in Seq(Pushed) /\ NoConnected(<<Told("Error", None)>>)
      BY DEF Told, Pushed, NoConnected
    <3>3. QED
      BY <1>1, <1>5, <1>6, <3>1, <3>2, ErrorTells
  <2>2. ASSUME NEW d \in Drains(c), r = DrainSendQueue(c, d)
        PROVE  /\ ConnOK(r.conn) /\ r.events \in Seq(Pushed) /\ Tells(id, s, c, r.events, r.conn)
               /\ r.conn.peer_id = None /\ r.conn.state = "Connecting" /\ r.ok \in BOOLEAN
               /\ NoConnected(r.events)
    <3>1. DrainChoice(c, d) /\ d.ok \in BOOLEAN
      BY DrainsChoose DEF DrainChoice
    <3>2. /\ ConnOK(r.conn) /\ r.events \in Seq(Pushed) /\ Tells(id, s, c, r.events, r.conn)
          /\ NoConnected(r.events)
      BY <1>1, <2>2, <3>1, DrainStep
    <3>3. Drained(c, d, r.conn) /\ r.ok = d.ok
      BY <1>1, <2>2, <3>1, DrainConn DEF ConnOK
    <3>4. QED
      BY <1>5, <3>1, <3>2, <3>3 DEF Drained
  <2>3. QED
    BY <1>6, <2>1, <2>2 DEF FirstPacket
<1>9. PICK b \in Phase : Path(id, s, m, Tagged(id, r.events), b) /\ Matches(b, r.conn, s)
  BY <1>2, <1>3, <1>7 DEF Tells
<1>10. I \o r.events \in Seq(Pushed) /\ Path(id, s, a, Tagged(id, I \o r.events), b)
  BY ONLY <1>3, <1>4, <1>7, <1>9, TaggedPathConcat, ConcatHalves
<1>11. NoConnected(I \o r.events)
  <2>1. NoConnected(I)
    BY DEF I, Told, NoConnected
  <2>2. QED
    BY <1>3, <1>7, <2>1, NoConnectedConcat
<1>12. QED
  BY <1>1, <1>7, <1>9, <1>10, <1>11 DEF c, I, a

\* dial: the host knows of the connection.
LEMMA DialMatches ==
    ASSUME NEW p \in Peers, NEW cert \in Certificates(p), NEW s
    PROVE  Matches([conn |-> "dialed", stream |-> "none"], New(FALSE, p, cert), s)
<1>1. New(FALSE, p, cert) # None
  BY NewOK, QuicConnectionAssumption DEF ConnOK
<1>2. QED
  BY <1>1 DEF New, Matches, Untouched

\* open_stream: the stream is told of once, under an id not told of before.
LEMMA OpenStreamStep ==
    ASSUME NEW id, NEW s \in Streams, NEW c, ConnOK(c), CanOpen(c)
    PROVE  LET r == OpenStream(c)
           IN  /\ ConnOK(r.conn) /\ r.events \in Seq(Pushed) /\ Serving(c, r.conn)
               /\ r.conn.peer_id = c.peer_id /\ r.ok \in BOOLEAN /\ NoConnected(r.events)
               /\ TellsOnly(id, s, c, r.events, r.conn)
<1> DEFINE t == c.next_local_bidi_stream_id
           c1 == [c EXCEPT !.next_local_bidi_stream_id = t + 4]
           c2 == [c1 EXCEPT !.stream_states[t] = DefaultStream]
           r == OpenStream(c)
<1>1. /\ t \in Streams /\ t \in Nat /\ c \in Connection /\ c # None /\ c.state = "Connected"
      /\ s \in Nat
  BY QuicConnectionAssumption DEF CanOpen, ConnOK, Connection
<1>2. /\ c1 \in Connection /\ c1.stream_states = c.stream_states /\ c1.send = c.send
      /\ c1.recv = c.recv /\ c1.server = c.server /\ c1.state = c.state
      /\ c1.established = c.established /\ c1.peer_id = c.peer_id
      /\ c1.cert = c.cert /\ c1.expected = c.expected
      /\ c1.next_local_bidi_stream_id = t + 4
  BY <1>1 DEF Connection
<1>3. IsLocalInitiated(c, t)
  BY DEF ConnOK, IsLocalInitiated
<1>4. ConnOK(r.conn)
  BY OpenStreamOK
<1>5. CASE c.stream_states[t] # None
  <2>1. r.conn = c1 /\ r.events = << >> /\ r.ok = FALSE
    BY <1>5 DEF OpenStream, Err
  <2> HIDE DEF c1
  <2>2. c1 # None
    BY <1>2, QuicConnectionAssumption
  <2>3. Serving(c, c1)
    BY <1>2 DEF Serving, Serves
  <2>4. ASSUME NEW b \in Phase, Matches(b, c, s) PROVE Matches(b, c1, s)
    <3>1. b.conn = "connected" /\ StreamMatches(b, c, s) /\ c.established /\ c.peer_id # None
          /\ ProvesPeer(c1)
      BY <1>1, <1>2, <2>4 DEF Matches, ProvesPeer
    <3>2. IsLocalInitiated(c1, s) = IsLocalInitiated(c, s) /\ Serves(c1, s) = Serves(c, s)
      BY <1>2 DEF IsLocalInitiated, Serves
    <3>3. s < c.next_local_bidi_stream_id => s < c1.next_local_bidi_stream_id
      BY <1>1, <1>2
    <3>4. StreamMatches(b, c1, s)
      BY <1>2, <3>1, <3>2, <3>3 DEF StreamMatches
    <3>5. QED
      BY <1>1, <1>2, <2>2, <3>1, <3>4 DEF Matches
  <2>5. TellsOnly(id, s, c, << >>, c1)
    BY <1>2, <2>4, TaggedEmpty DEF TellsOnly
  <2>6. r.events \in Seq(Pushed) /\ r.ok \in BOOLEAN /\ NoConnected(r.events)
    <3>1. r.ok \in BOOLEAN
      BY <1>5 DEF OpenStream, Err
    <3>2. QED
      BY <2>1, <3>1 DEF NoConnected
  <2> HIDE DEF r
  <2>7. TellsOnly(id, s, c, r.events, r.conn)
    BY <2>1, <2>5
  <2>8. QED
    BY <1>2, <1>4, <2>1, <2>3, <2>6, <2>7 DEF r
<1>6. CASE c.stream_states[t] = None
  <2>1. r.conn = c2 /\ r.events = <<Told("StreamOpened", t)>> /\ r.ok = TRUE
    BY <1>6 DEF OpenStream, Ok
  <2> HIDE DEF c1
  <2>2. /\ c2 \in Connection /\ c2 # None
        /\ c2.stream_states = [c.stream_states EXCEPT ![t] = DefaultStream]
        /\ c2.send = c.send
        /\ c2.recv = c.recv /\ c2.server = c.server /\ c2.state = c.state
        /\ c2.established = c.established /\ c2.peer_id = c.peer_id
        /\ c2.cert = c.cert /\ c2.expected = c.expected
        /\ c2.next_local_bidi_stream_id = t + 4
    BY <1>1, <1>2, DefaultStreamType, QuicConnectionAssumption DEF Connection
  <2> HIDE DEF c2
  <2>3. /\ c2.stream_states[t] = DefaultStream /\ DefaultStream # None
        /\ \A x \in Streams : x # t => c2.stream_states[x] = c.stream_states[x]
    BY <1>1, <2>2, DefaultStreamType DEF Connection
  <2>4. Serving(c, c2)
    BY <2>2, <2>3 DEF Serving, Serves
  <2>5. <<Told("StreamOpened", t)>> \in Seq(Pushed) /\ NoConnected(<<Told("StreamOpened", t)>>)
    BY <1>1 DEF Told, Pushed, StreamKinds, NoConnected
  <2>6. ASSUME NEW b \in Phase, Matches(b, c, s)
        PROVE  \E b2 \in Phase :
                 /\ Path(id, s, b, Tagged(id, <<Told("StreamOpened", t)>>), b2)
                 /\ Matches(b2, c2, s)
                 /\ c2.stream_states[s] = None =>
                      c.stream_states[s] = None /\ b2.stream = b.stream
    <3>1. b.conn = "connected" /\ StreamMatches(b, c, s) /\ c.established /\ c.peer_id # None
          /\ ProvesPeer(c2)
      BY <1>1, <2>2, <2>6 DEF Matches, ProvesPeer
    <3>2. IsLocalInitiated(c2, s) = IsLocalInitiated(c, s)
      BY <2>2 DEF IsLocalInitiated
    <3>3. CASE s # t
      <4>1. Path(id, s, b, Tagged(id, <<Told("StreamOpened", t)>>), b)
        <5>1. Legal(id, s, b, TagOne(id, Told("StreamOpened", t)), b)
          BY <3>1, <3>3 DEF Legal, TagOne, Told, StreamKinds
        <5>2. QED
          BY <5>1, TaggedOne
      <4>2. s < c.next_local_bidi_stream_id => s < c2.next_local_bidi_stream_id
        BY <1>1, <2>2
      <4>3. c2.stream_states[s] = c.stream_states[s] /\ Serves(c2, s) = Serves(c, s)
        BY <2>2, <2>3, <3>3 DEF Serves
      <4>4. StreamMatches(b, c2, s)
        BY <2>2, <3>1, <3>2, <4>2, <4>3 DEF StreamMatches
      <4>5. Matches(b, c2, s)
        BY <1>1, <2>2, <3>1, <4>4 DEF Matches
      <4>6. QED
        BY <4>1, <4>3, <4>5
    <3>4. CASE s = t
      <4> DEFINE b2 == [conn |-> "connected", stream |-> "open"]
      <4>1. b.stream = "none" /\ b2 \in Phase
        BY <1>1, <1>3, <3>1, <3>4 DEF StreamMatches, Phase
      <4>2. Path(id, s, b, Tagged(id, <<Told("StreamOpened", t)>>), b2)
        <5>1. Legal(id, s, b, TagOne(id, Told("StreamOpened", t)), b2)
          BY <3>1, <3>4, <4>1 DEF Legal, TagOne, Told, StreamLegal
        <5>2. QED
          BY <4>1, <5>1, TaggedOne
      <4>3. s < c2.next_local_bidi_stream_id
        BY <1>1, <2>2, <3>4
      <4>4. StreamMatches(b2, c2, s)
        BY <2>2, <2>3, <3>4, <4>3 DEF StreamMatches, Serves, DefaultStream
      <4>5. Matches(b2, c2, s)
        BY <1>1, <2>2, <3>1, <4>4 DEF Matches
      <4>6. QED
        BY <2>3, <3>4, <4>1, <4>2, <4>5
    <3>5. QED
      BY <3>3, <3>4
  <2>7. TellsOnly(id, s, c, <<Told("StreamOpened", t)>>, c2)
    BY <2>6 DEF TellsOnly
  <2>8. QED
    BY <1>4, <2>1, <2>2, <2>4, <2>5, <2>7
<1>7. QED
  BY <1>5, <1>6

\* A write is queued: a stream that it starts again is one of which the end
\* has not been told.
LEMMA QueueMatches ==
    ASSUME NEW s \in Streams, NEW t \in Streams, NEW c, ConnOK(c), c.established,
           NEW c2, Requeued(c, t, c2), NEW b \in Phase, Matches(b, c, s),
           s = t /\ c.stream_states[s] = None => b.stream \in {"open", "half"}
    PROVE  Matches(b, c2, s)
<1>1. /\ c \in Connection /\ c2 \in Connection /\ c # None /\ c2 # None
      /\ c2 = [c EXCEPT !.stream_states = c2.stream_states]
  BY QuicConnectionAssumption DEF ConnOK, Requeued
<1>2. /\ c2.send = c.send
      /\ c2.recv = c.recv /\ c2.server = c.server /\ c2.state = c.state
      /\ c2.established = c.established /\ c2.peer_id = c.peer_id
      /\ c2.next_local_bidi_stream_id = c.next_local_bidi_stream_id
      /\ IsLocalInitiated(c2, s) = IsLocalInitiated(c, s)
      /\ ProvesPeer(c2) = ProvesPeer(c)
  BY <1>1 DEF Connection, IsLocalInitiated, ProvesPeer
<1>3. b.conn = "connected" /\ StreamMatches(b, c, s) /\ c.peer_id # None /\ ProvesPeer(c)
  BY <1>1 DEF Matches
<1>4. StreamMatches(b, c2, s)
  <2>1. CASE s # t
    BY <1>2, <1>3, <2>1, StreamMatchesSame DEF Requeued
  <2>2. CASE s = t
    <3>1. /\ c2.stream_states[s] # None
          /\ c.stream_states[s] # None =>
               /\ c2.stream_states[s].remote_write_closed = c.stream_states[s].remote_write_closed
               /\ c2.stream_states[s].closed_notified = c.stream_states[s].closed_notified
      BY <2>2 DEF Requeued
    <3>2. CASE c.stream_states[s] # None
      BY <1>2, <1>3, <3>1, <3>2 DEF StreamMatches, Serves
    <3>3. CASE c.stream_states[s] = None
      <4>1. c.state # "Connected" /\ b.stream \in {"open", "half"}
        BY <1>3, <2>2, <3>3 DEF StreamMatches
      <4>2. QED
        BY <1>2, <1>3, <3>1, <4>1 DEF StreamMatches, Serves
    <3>4. QED
      BY <3>2, <3>3
  <2>3. QED
    BY <2>1, <2>2
<1>5. QED
  BY <1>1, <1>2, <1>3, <1>4 DEF Matches

\* Queueing a write forgets no stream and does not touch the peer.
LEMMA QueueServes ==
    ASSUME NEW c, ConnOK(c), NEW t \in Streams, NEW c2, Requeued(c, t, c2)
    PROVE  Serving(c, c2) /\ c2.peer_id = c.peer_id
<1>1. /\ c \in Connection /\ c2 = [c EXCEPT !.stream_states = c2.stream_states]
  BY DEF ConnOK, Requeued
<1>2. /\ c2.send = c.send /\ c2.peer_id = c.peer_id
      /\ c2.cert = c.cert /\ c2.expected = c.expected
  BY <1>1 DEF Connection
<1>3. QED
  BY <1>2 DEF Serving, Serves, Requeued

\* reset_stream.
LEMMA ResetStep ==
    ASSUME NEW id, NEW s \in Streams, NEW c, ConnOK(c), NEW t \in Streams,
           c.stream_states[t] # None, NEW outcome \in ResetOutcomes
    PROVE  LET r == ResetStream(c, t, outcome)
           IN  /\ ConnOK(r.conn) /\ r.events \in Seq(Pushed) /\ Serving(c, r.conn)
               /\ r.conn.peer_id = c.peer_id /\ r.ok \in BOOLEAN /\ NoConnected(r.events)
               /\ TellsOnly(id, s, c, r.events, r.conn)
<1> DEFINE r == ResetStream(c, t, outcome)
           c2 == r.conn
           done == outcome = "ok"
           told == done /\ ~c.stream_states[t].closed_notified
<1>1. /\ c \in Connection /\ ResetTo(c, t, done, c2) /\ r.ok = done
      /\ r.events = Maybe(told, Told("StreamClosed", t))
  BY ResetEffect DEF ConnOK, Maybe
<1>2. ConnOK(c2)
  BY <1>1, ResetOK
<1> HIDE DEF r
<1>3. /\ c # None /\ c2 # None /\ c2 \in Connection
      /\ c2 = [c EXCEPT !.stream_states = c2.stream_states, !.recv = c2.recv, !.send = c2.send]
  BY <1>1, QuicConnectionAssumption DEF ResetTo
<1>4. /\ c2.server = c.server /\ c2.state = c.state
      /\ c2.established = c.established /\ c2.peer_id = c.peer_id
      /\ c2.next_local_bidi_stream_id = c.next_local_bidi_stream_id
      /\ IsLocalInitiated(c2, s) = IsLocalInitiated(c, s)
      /\ c2.cert = c.cert /\ c2.expected = c.expected
      /\ ProvesPeer(c2) = ProvesPeer(c)
  BY <1>1, <1>3 DEF Connection, IsLocalInitiated, ProvesPeer
<1>5. c2.stream_states[t] # None
  BY <1>1 DEF ResetTo
<1>6. Serving(c, c2)
  BY <1>1, <1>4, <1>5 DEF Serving, Serves, ResetTo
<1>7. Told("StreamClosed", t) \in Pushed
  BY DEF Told, Pushed, StreamKinds
<1>8. r.events \in Seq(Pushed) /\ NoConnected(r.events)
  <2>1. NoConnected(r.events)
    BY <1>1 DEF Maybe, NoConnected, Told
  <2>2. QED
    BY <1>1, <1>7, <2>1, MaybeSeq
<1>9. ASSUME NEW b \in Phase, Matches(b, c, s)
      PROVE  \E b2 \in Phase :
               /\ Path(id, s, b, Tagged(id, Maybe(told, Told("StreamClosed", t))), b2)
               /\ Matches(b2, c2, s)
               /\ c2.stream_states[s] = None => c.stream_states[s] = None /\ b2.stream = b.stream
  <2>1. b.conn = "connected" /\ StreamMatches(b, c, s) /\ c.established /\ c.peer_id # None
        /\ ProvesPeer(c)
    BY <1>3, <1>9 DEF Matches, Untouched
  <2>2. CASE s # t
    <3>1. Legal(id, s, b, TagOne(id, Told("StreamClosed", t)), b)
      BY <2>1, <2>2 DEF Legal, TagOne, Told, StreamKinds
    <3>2. Path(id, s, b, Tagged(id, Maybe(told, Told("StreamClosed", t))), b)
      BY <3>1, MaybePath
    <3>3. c2.stream_states[s] = c.stream_states[s] /\ StreamMatches(b, c2, s)
      BY <1>1, <1>4, <2>1, <2>2, StreamMatchesSame DEF ResetTo
    <3>4. Matches(b, c2, s)
      BY <1>3, <1>4, <1>9, <2>1, <3>3 DEF Matches
    <3>5. QED
      BY <3>2, <3>3, <3>4
  <2>3. CASE s = t
    <3> DEFINE b2 == IF told THEN [conn |-> "connected", stream |-> "closed"] ELSE b
    <3>1. b2 \in Phase /\ b2.conn = "connected" /\ b.stream # "none"
      BY <2>1, <2>3 DEF Phase, StreamMatches
    <3>2. told => b.stream \in {"open", "half"}
      BY <2>1, <2>3, <3>1 DEF StreamMatches, Phase
    <3>3. told => Legal(id, s, b, TagOne(id, Told("StreamClosed", t)), b2)
      BY <2>1, <2>3, <3>2 DEF Legal, TagOne, Told, StreamLegal
    <3>4. Path(id, s, b, Tagged(id, Maybe(told, Told("StreamClosed", t))), b2)
      <4>1. ~told => b2 = b
        OBVIOUS
      <4> HIDE DEF b2, told
      <4>2. QED
        BY <3>1, <3>3, <4>1, MaybePath
    <3>5. StreamMatches(b2, c2, s)
      <4>1. CASE ~done
        <5>1. b2 = b /\ c2.stream_states[s] = c.stream_states[s] /\ c2.recv[s] = c.recv[s]
          BY <1>1, <2>3, <4>1 DEF ResetTo
        <5>2. Serves(c2, s)
          BY <1>5, <2>3 DEF Serves
        <5>3. QED
          BY <1>4, <2>1, <3>1, <5>1, <5>2 DEF StreamMatches
      <4>2. CASE done
        <5>1. /\ c2.recv[s].end = "read" /\ c2.stream_states[s].remote_write_closed
              /\ c2.stream_states[s].closed_notified /\ Serves(c2, s)
          BY <1>1, <1>5, <2>3, <4>2 DEF ResetTo, Serves
        <5>2. c.state = "Connected" => b2.stream = "closed"
          BY <2>1, <2>3, <4>2 DEF StreamMatches
        <5>3. b2.stream # "none"
          BY <3>1
        <5> HIDE DEF b2
        <5>4. IsLocalInitiated(c, s) => s < c.next_local_bidi_stream_id
          BY <2>1, <3>1 DEF StreamMatches
        <5>5. QED
          BY <1>4, <1>5, <2>3, <5>1, <5>2, <5>3, <5>4 DEF StreamMatches
      <4>3. QED
        BY <4>1, <4>2
    <3> HIDE DEF b2
    <3>6. Matches(b2, c2, s)
      BY <1>3, <1>4, <1>9, <2>1, <3>1, <3>5 DEF Matches
    <3>7. QED
      BY <1>5, <2>3, <3>1, <3>4, <3>6
  <2>4. QED
    BY <2>2, <2>3
<1>10. TellsOnly(id, s, c, r.events, c2)
  <2>1. TellsOnly(id, s, c, Maybe(told, Told("StreamClosed", t)), c2)
    BY <1>9 DEF TellsOnly
  <2>2. QED
    BY <1>1, <2>1
<1>11. r.ok \in BOOLEAN
  BY <1>1
<1>12. QED
  BY <1>2, <1>4, <1>6, <1>8, <1>10, <1>11 DEF r

\* close() throws the events of its drain away: from then on a stream may be
\* closed and not told to be.
LEMMA CloseStep ==
    ASSUME NEW id, NEW s \in Streams, NEW c, ConnOK(c), NEW d, DrainChoice(c, d)
    PROVE  LET r == Close(c, d)
           IN  /\ ConnOK(r.conn) /\ r.events \in Seq(Pushed) /\ Serving(c, r.conn)
               /\ r.conn.peer_id = c.peer_id /\ r.ok \in BOOLEAN /\ NoConnected(r.events)
               /\ TellsOnly(id, s, c, r.events, r.conn)
<1> DEFINE r == Close(c, d)
           c1 == [c EXCEPT !.state = "Closing"]
           c2 == r.conn
<1>1. /\ c \in Connection /\ c1 \in Connection
      /\ c1.stream_states = c.stream_states /\ c1.recv = c.recv /\ c1.send = c.send
      /\ c1.server = c.server /\ c1.next_local_bidi_stream_id = c.next_local_bidi_stream_id
      /\ c1.established = c.established /\ c1.peer_id = c.peer_id /\ c1.state = "Closing"
      /\ c1.cert = c.cert /\ c1.expected = c.expected
  BY DEF ConnOK, Connection, ConnectionState
<1>2. /\ DrainChoice(c1, d) /\ c2 = DrainSendQueue(c1, d).conn /\ ConnOK(c2)
      /\ r.events = << >> /\ r.ok = d.ok
  BY CloseEffect
<1> HIDE DEF c1, r
<1>3. Drained(c1, d, c2)
  BY <1>1, <1>2, DrainConn
<1>4. /\ c2.recv = c.recv /\ c2.state = "Closing" /\ c2.server = c.server
      /\ c2.established = c.established /\ c2.peer_id = c.peer_id
      /\ c2.next_local_bidi_stream_id = c.next_local_bidi_stream_id
      /\ IsLocalInitiated(c2, s) = IsLocalInitiated(c, s)
      /\ c # None /\ c2 # None /\ ProvesPeer(c2) = ProvesPeer(c)
  BY <1>1, <1>3, QuicConnectionAssumption DEF Drained, IsLocalInitiated, ProvesPeer
<1>5. Serving(c, c2)
  <2>1. Serving(c1, c2)
    BY <1>3, DrainServes
  <2>2. QED
    BY <1>1, <2>1 DEF Serving, Serves
<1>6. ASSUME NEW t \in Streams
      PROVE  /\ c.stream_states[t] = None =>
                  c2.stream_states[t] = None /\ c2.send[t] = c.send[t]
             /\ c.stream_states[t] # None =>
                  /\ c2.stream_states[t] # None
                  /\ c.stream_states[t].closed_notified => c2.stream_states[t].closed_notified
  <2>1. DrainedStream(c1, d, t, c2)
    BY <1>3 DEF Drained
  <2>2. QED
    BY <1>1, <2>1, QuicConnectionAssumption DEF DrainedStream, Shortened
<1>7. ASSUME NEW b \in Phase, Matches(b, c, s) PROVE Matches(b, c2, s)
  <2>1. CASE c.established
    <3>1. b.conn = "connected" /\ StreamMatches(b, c, s) /\ c.peer_id # None /\ ProvesPeer(c)
      BY <1>4, <1>7, <2>1 DEF Matches
    <3>2. Serves(c, s) => Serves(c2, s)
      BY <1>5 DEF Serving
    <3>3. StreamMatches(b, c2, s)
      BY <1>4, <1>6, <3>1, <3>2 DEF StreamMatches
    <3>4. QED
      BY <1>4, <2>1, <3>1, <3>3 DEF Matches
  <2>2. CASE ~c.established
    <3>1. b.conn \in {"dialed", "incoming"} /\ b.stream = "none" /\ Untouched(c)
      BY <1>4, <1>7, <2>2 DEF Matches
    <3>2. Untouched(c2)
      BY <1>4, <1>6, <3>1 DEF Untouched
    <3>3. QED
      BY <1>4, <2>2, <3>1, <3>2 DEF Matches
  <2>3. QED
    BY <2>1, <2>2
<1>8. TellsOnly(id, s, c, << >>, c2)
  BY <1>6, <1>7, TaggedEmpty DEF TellsOnly
<1>9. /\ r.events \in Seq(Pushed) /\ r.ok \in BOOLEAN /\ TellsOnly(id, s, c, r.events, c2)
      /\ NoConnected(r.events)
  BY <1>2, <1>8 DEF DrainChoice, NoConnected
<1>10. QED
  BY <1>2, <1>4, <1>5, <1>9 DEF r

\* verify_connection_peer_id of an established connection.
LEMMA VerifyStep ==
    ASSUME NEW id, NEW s \in Streams, NEW c, ConnOK(c), c.state # "Connecting", NEW p \in Peers
    PROVE  LET c2 == [c EXCEPT !.peer_id = p]
           IN  /\ ConnOK(c2) /\ Serving(c, c2) /\ c2.peer_id = p
               /\ c.established =>
                    TellsOnly(id, s, c, <<Told("PeerIdentityVerified", None)>>, c2)
<1> DEFINE c2 == [c EXCEPT !.peer_id = p]
           E == <<Told("PeerIdentityVerified", None)>>
<1>1. /\ c \in Connection /\ c2 \in Connection
      /\ c2.stream_states = c.stream_states /\ c2.recv = c.recv /\ c2.send = c.send
      /\ c2.server = c.server /\ c2.next_local_bidi_stream_id = c.next_local_bidi_stream_id
      /\ c2.established = c.established /\ c2.state = c.state /\ c2.peer_id = p
      /\ p # None /\ c # None /\ c2 # None
      /\ c2.cert = c.cert /\ c2.expected = c.expected
  BY QuicConnectionAssumption DEF ConnOK, Connection
<1> HIDE DEF c2
<1>2. ConnOK(c2)
  <2>1. Genuine(c2)
    BY <1>1 DEF ConnOK, Genuine, ProvesPeer
  <2>2. QED
    BY <1>1, <2>1, OtherFieldsKeepOK
<1>3. Serving(c, c2)
  BY <1>1 DEF Serving, Serves
<1>4. ASSUME c.established, NEW b \in Phase, Matches(b, c, s)
      PROVE  Path(id, s, b, Tagged(id, E), b) /\ Matches(b, c2, s)
  <2>1. b.conn = "connected" /\ StreamMatches(b, c, s)
    BY <1>1, <1>4 DEF Matches
  <2>2. Legal(id, s, b, TagOne(id, Told("PeerIdentityVerified", None)), b)
    BY <2>1 DEF Legal, TagOne, Told
  <2>3. Path(id, s, b, Tagged(id, E), b)
    BY <2>2, TaggedOne
  <2>4. StreamMatches(b, c2, s)
    BY <1>1, <2>1, StreamMatchesSame
  <2>5. Matches(b, c2, s)
    BY <1>1, <1>4, <2>1, <2>4 DEF Matches, ProvesPeer
  <2>6. QED
    BY <2>3, <2>5
<1> HIDE DEF E
<1>5. c.established => TellsOnly(id, s, c, E, c2)
  BY <1>1, <1>4 DEF TellsOnly
<1>6. QED
  BY <1>1, <1>2, <1>3, <1>5 DEF c2, E

-----------------------------------------------------------------------------
(* What is told, what is on its way and the connection itself.             *)

\* Connected of connection id is among the events of Q.
Announces(id, Q) == \E i \in 1 .. Len(Q) : Q[i].id = id /\ Q[i].kind = "Connected"

\* Connected has been told, or will be, only of a connection with the right
\* certificate.
Attested(id, a, Q, W, c) ==
    a.conn \in {"connected", "gapped"} \/ Announces(id, Q) \/ Announces(id, W) => ProvesPeer(c)

\* a is told of stream s of connection id, the host will be handed Q and then
\* W, and c is the connection, None if there is none; new: no connection has
\* had the id.  Of an excused connection only the streams and the certificate
\* are known.  W is pushed by calls of the host only, so that it ends no stream
\* that has lost its state before.
Tracks(id, s, a, Q, W, c, new) ==
    /\ c # None => Attested(id, a, Q, W, c)
    /\ IF a.conn \in Excused
       THEN /\ ~new /\ (a.conn = "refused" => Impostors)
            /\ c # None /\ a.stream # "none" => Serves(c, s)
       ELSE \E m \in Phase, b \in Phase :
              /\ Path(id, s, a, Q, m) /\ Path(id, s, m, W, b)
              /\ Matches(b, c, s)
              /\ c = None => m = b
              /\ c # None => (c.stream_states[s] = None => m.stream = b.stream)
              /\ new => c = None /\ b = [conn |-> "none", stream |-> "none"]

\* Connected is among the events of two queues if it is in one of them.
LEMMA AnnouncesConcat ==
    ASSUME NEW id, NEW X, NEW P \in Seq(X), NEW Q \in Seq(X), Announces(id, P \o Q)
    PROVE  Announces(id, P) \/ Announces(id, Q)
<1>1. PICK R : R = P \o Q
  OBVIOUS
<1>2. /\ Len(P) \in Nat /\ Len(Q) \in Nat /\ Len(R) = Len(P) + Len(Q)
      /\ \A i \in 1 .. Len(P) : R[i] = P[i]
      /\ \A i \in 1 .. Len(Q) : R[Len(P) + i] = Q[i]
  BY <1>1, ConcatHalves
<1>3. PICK i \in 1 .. Len(R) : R[i].id = id /\ R[i].kind = "Connected"
  BY <1>1 DEF Announces
<1>4. CASE i <= Len(P)
  <2>1. i \in 1 .. Len(P)
    BY <1>2, <1>4
  <2>2. QED
    BY <1>2, <1>3, <2>1 DEF Announces
<1>5. CASE i > Len(P)
  <2>1. PICK j \in 1 .. Len(Q) : i = Len(P) + j
    <3>1. i - Len(P) \in 1 .. Len(Q) /\ i = Len(P) + (i - Len(P))
      BY <1>2, <1>5
    <3>2. QED
      BY <3>1
  <2>2. Q[j] = R[i]
    BY <1>2, <2>1
  <2>3. QED
    BY <1>3, <2>1, <2>2 DEF Announces
<1>6. QED
  BY <1>2, <1>4, <1>5

\* No Connected without events, or among events of others.
LEMMA NotAnnounced ==
    ASSUME NEW id
    PROVE  /\ ~Announces(id, << >>)
           /\ \A E : (\A i \in 1 .. Len(E) : E[i].id # id) => ~Announces(id, E)
BY DEF Announces

\* Connected is the next event or a later one.
LEMMA AnnouncesTail ==
    ASSUME NEW id, NEW X, NEW Q \in Seq(X), Q # << >>
    PROVE  /\ Announces(id, Tail(Q)) => Announces(id, Q)
           /\ Head(Q).id = id /\ Head(Q).kind = "Connected" => Announces(id, Q)
<1>1. PICK T : T = Tail(Q)
  OBVIOUS
<1>2. /\ Len(Q) \in Nat \ {0} /\ Head(Q) = Q[1] /\ Len(T) = Len(Q) - 1
      /\ \A i \in 1 .. Len(Q) - 1 : T[i] = Q[i + 1]
  BY <1>1, HeadTailProperties
<1>3. \A i \in 1 .. Len(T) : T[i] = Q[i + 1] /\ i + 1 \in 1 .. Len(Q)
  BY <1>2
<1>4. Announces(id, T) => Announces(id, Q)
  BY <1>3 DEF Announces
<1>5. 1 \in 1 .. Len(Q)
  BY <1>2
<1>6. QED
  BY <1>1, <1>2, <1>4, <1>5 DEF Announces

\* Honest events announce what is so.
LEMMA HonestAnnounces ==
    ASSUME NEW id, NEW E \in Seq(Pushed), NEW c, Honest(E, c), Announces(id, Tagged(id, E))
    PROVE  ProvesPeer(c)
<1>1. PICK L : L = Tagged(id, E)
  OBVIOUS
<1>2. Len(L) = Len(E) /\ \A i \in 1 .. Len(E) : L[i] = TagOne(id, E[i])
  BY <1>1, TaggedSeq
<1>3. PICK i \in 1 .. Len(E) : L[i].kind = "Connected"
  BY <1>1, <1>2 DEF Announces
<1>4. E[i].kind = "Connected"
  <2>1. L[i] = TagOne(id, E[i])
    BY <1>2, <1>3
  <2>2. TagOne(id, E[i]).kind = E[i].kind
    BY DEF TagOne
  <2>3. QED
    BY <1>3, <2>1, <2>2
<1>5. QED
  BY <1>4 DEF Honest, NoConnected

\* Events of others, handed to the host by poll().
LEMMA TracksForeign ==
    ASSUME NEW id, NEW s, NEW a, NEW c, NEW new, NEW X, NEW Q \in Seq(X), NEW W,
           Tracks(id, s, a, Q, W, c, new),
           NEW E \in Seq(X), \A i \in 1 .. Len(E) : E[i].id # id
    PROVE  Tracks(id, s, a, Q \o E, W, c, new)
<1>0. c # None => Attested(id, a, Q \o E, W, c)
  <2>1. Announces(id, Q \o E) => Announces(id, Q)
    BY AnnouncesConcat, NotAnnounced
  <2>2. QED
    BY <2>1 DEF Tracks, Attested
<1>1. CASE a.conn \in Excused
  BY <1>0, <1>1 DEF Tracks
<1>2. CASE a.conn \notin Excused
  <2>1. PICK m \in Phase, b \in Phase :
           /\ Path(id, s, a, Q, m) /\ Path(id, s, m, W, b)
           /\ Matches(b, c, s)
           /\ c = None => m = b
           /\ c # None => (c.stream_states[s] = None => m.stream = b.stream)
           /\ new => c = None /\ b = [conn |-> "none", stream |-> "none"]
    BY <1>2 DEF Tracks
  <2>2. Path(id, s, m, E, m)
    BY PathForeign
  <2>3. Path(id, s, a, Q \o E, m)
    BY <2>1, <2>2, PathConcat
  <2>4. QED
    BY <1>0, <1>2, <2>1, <2>3 DEF Tracks
<1>3. QED
  BY <1>1, <1>2

\* Events of others, queued for the next poll().
LEMMA TracksForeignQueue ==
    ASSUME NEW id, NEW s, NEW a, NEW c, NEW new, NEW Q, NEW X, NEW W \in Seq(X),
           Tracks(id, s, a, Q, W, c, new),
           NEW E \in Seq(X), \A i \in 1 .. Len(E) : E[i].id # id
    PROVE  Tracks(id, s, a, Q, W \o E, c, new)
<1>0. c # None => Attested(id, a, Q, W \o E, c)
  <2>1. Announces(id, W \o E) => Announces(id, W)
    BY AnnouncesConcat, NotAnnounced
  <2>2. QED
    BY <2>1 DEF Tracks, Attested
<1>1. CASE a.conn \in Excused
  BY <1>0, <1>1 DEF Tracks
<1>2. CASE a.conn \notin Excused
  <2>1. PICK m \in Phase, b \in Phase :
           /\ Path(id, s, a, Q, m) /\ Path(id, s, m, W, b)
           /\ Matches(b, c, s)
           /\ c = None => m = b
           /\ c # None => (c.stream_states[s] = None => m.stream = b.stream)
           /\ new => c = None /\ b = [conn |-> "none", stream |-> "none"]
    BY <1>2 DEF Tracks
  <2>2. Path(id, s, b, E, b)
    BY PathForeign
  <2>3. Path(id, s, m, W \o E, b)
    BY <2>1, <2>2, PathConcat
  <2>4. QED
    BY <1>0, <1>2, <2>1, <2>3 DEF Tracks
<1>3. QED
  BY <1>1, <1>2

\* The queue is handed over.
LEMMA TracksTransfer ==
    ASSUME NEW id, NEW s, NEW a, NEW c, NEW new, NEW X, NEW Q \in Seq(X), NEW W \in Seq(X),
           Tracks(id, s, a, Q, W, c, new)
    PROVE  Tracks(id, s, a, Q \o W, << >>, c, new)
<1>0. c # None => Attested(id, a, Q \o W, << >>, c)
  <2>1. /\ Announces(id, Q \o W) => Announces(id, Q) \/ Announces(id, W)
        /\ ~Announces(id, << >>)
    BY AnnouncesConcat, NotAnnounced
  <2>2. QED
    BY <2>1 DEF Tracks, Attested
<1>1. CASE a.conn \in Excused
  BY <1>0, <1>1 DEF Tracks
<1>2. CASE a.conn \notin Excused
  <2>1. PICK m \in Phase, b \in Phase :
           /\ Path(id, s, a, Q, m) /\ Path(id, s, m, W, b)
           /\ Matches(b, c, s)
           /\ new => c = None /\ b = [conn |-> "none", stream |-> "none"]
    BY <1>2 DEF Tracks
  <2>2. Path(id, s, a, Q \o W, b)
    BY <2>1, PathConcat
  <2>3. Path(id, s, b, << >>, b)
    BY PathEmpty
  <2>4. QED
    BY <1>0, <1>2, <2>1, <2>2, <2>3 DEF Tracks
<1>3. QED
  BY <1>1, <1>2

\* The connection makes a step within poll(), and tells E.
LEMMA TracksStep ==
    ASSUME NEW id, NEW s \in Streams, NEW a, NEW c, c # None, NEW new, NEW c2, c2 # None,
           NEW X, NEW Q \in Seq(X), Tracks(id, s, a, Q, << >>, c, new),
           NEW E \in Seq(Pushed), Tagged(id, E) \in Seq(X), Serving(c, c2), Honest(E, c2),
           a.conn \notin Excused => Tells(id, s, c, E, c2)
    PROVE  Tracks(id, s, a, Q \o Tagged(id, E), << >>, c2, new)
<1>0. Attested(id, a, Q \o Tagged(id, E), << >>, c2)
  <2>1. Announces(id, Q \o Tagged(id, E)) => Announces(id, Q) \/ Announces(id, Tagged(id, E))
    BY AnnouncesConcat
  <2>2. Announces(id, Tagged(id, E)) => ProvesPeer(c2)
    BY HonestAnnounces
  <2>3. ~Announces(id, << >>)
    BY NotAnnounced
  <2>4. ProvesPeer(c) => ProvesPeer(c2)
    BY DEF Serving, ProvesPeer
  <2>5. QED
    BY <2>1, <2>2, <2>3, <2>4 DEF Tracks, Attested
<1>1. CASE a.conn \in Excused
  BY <1>0, <1>1 DEF Tracks, Serving
<1>2. CASE a.conn \notin Excused
  <2>1. PICK m \in Phase, b \in Phase :
           /\ Path(id, s, a, Q, m) /\ Path(id, s, m, << >>, b)
           /\ Matches(b, c, s) /\ ~new
    BY <1>2 DEF Tracks
  <2>2. m = b
    BY <2>1, PathEmpty
  <2>3. PICK b2 \in Phase : Path(id, s, b, Tagged(id, E), b2) /\ Matches(b2, c2, s)
    BY <1>2, <2>1 DEF Tells
  <2>4. Path(id, s, a, Q \o Tagged(id, E), b2)
    BY <2>1, <2>2, <2>3, PathConcat
  <2>5. Path(id, s, b2, << >>, b2)
    BY PathEmpty
  <2>6. QED
    BY <1>0, <1>2, <2>1, <2>3, <2>4, <2>5 DEF Tracks
<1>3. QED
  BY <1>1, <1>2

\* A call of the host, with nothing else to be handed over: it tells E, from
\* every phase b that the calls before may have led to.
LEMMA TracksCall ==
    ASSUME NEW id, NEW s \in Streams, NEW a, NEW c, c # None, NEW new, NEW c2, c2 # None,
           NEW X, NEW W \in Seq(X), Tracks(id, s, a, << >>, W, c, new),
           NEW E \in Seq(Pushed), Tagged(id, E) \in Seq(X), Serving(c, c2), NoConnected(E),
           a.conn \notin Excused =>
             \A b \in Phase :
               /\ Matches(b, c, s)
               /\ Path(id, s, a, W, b)
               /\ c.stream_states[s] = None => b.stream = a.stream
               => \E b2 \in Phase :
                    /\ Path(id, s, b, Tagged(id, E), b2)
                    /\ Matches(b2, c2, s)
                    /\ c2.stream_states[s] = None =>
                         c.stream_states[s] = None /\ b2.stream = b.stream
    PROVE  Tracks(id, s, a, << >>, W \o Tagged(id, E), c2, new)
<1>0. Attested(id, a, << >>, W \o Tagged(id, E), c2)
  <2>1. Announces(id, W \o Tagged(id, E)) => Announces(id, W) \/ Announces(id, Tagged(id, E))
    BY AnnouncesConcat
  <2>2. Honest(E, c2)
    BY DEF Honest
  <2>3. Announces(id, Tagged(id, E)) => ProvesPeer(c2)
    BY <2>2, HonestAnnounces
  <2>4. ProvesPeer(c) => ProvesPeer(c2)
    BY DEF Serving, ProvesPeer
  <2>5. QED
    BY <2>1, <2>3, <2>4 DEF Tracks, Attested
<1>1. CASE a.conn \in Excused
  BY <1>0, <1>1 DEF Tracks, Serving
<1>2. CASE a.conn \notin Excused
  <2>1. PICK m \in Phase, b \in Phase :
           /\ Path(id, s, a, << >>, m) /\ Path(id, s, m, W, b)
           /\ Matches(b, c, s) /\ ~new
           /\ c.stream_states[s] = None => m.stream = b.stream
    BY <1>2 DEF Tracks
  <2>2. m = a
    BY <2>1, PathEmpty
  <2>3. PICK b2 \in Phase :
          /\ Path(id, s, b, Tagged(id, E), b2)
          /\ Matches(b2, c2, s)
          /\ c2.stream_states[s] = None => c.stream_states[s] = None /\ b2.stream = b.stream
    BY <1>2, <2>1, <2>2
  <2>4. Path(id, s, m, W \o Tagged(id, E), b2)
    BY <2>1, <2>3, PathConcat
  <2>5. QED
    BY <1>0, <1>2, <2>1, <2>2, <2>3, <2>4 DEF Tracks
<1>3. QED
  BY <1>1, <1>2

\* The host is handed the next event: the contract allows it.
LEMMA TracksHandle ==
    ASSUME NEW id, NEW s, NEW a, NEW c, NEW new, NEW X, NEW Q \in Seq(X), Q # << >>, NEW W,
           Tracks(id, s, a, Q, W, c, new), a.conn \notin Excused
    PROVE  \E a2 \in Phase : /\ Legal(id, s, a, Head(Q), a2)
                             /\ Tracks(id, s, a2, Tail(Q), W, c, new)
<1>1. PICK m \in Phase, b \in Phase :
         /\ Path(id, s, a, Q, m) /\ Path(id, s, m, W, b)
         /\ Matches(b, c, s)
         /\ c = None => m = b
         /\ c # None => (c.stream_states[s] = None => m.stream = b.stream)
         /\ new => c = None /\ b = [conn |-> "none", stream |-> "none"]
  BY DEF Tracks
<1>2. PICK a2 \in Phase : Legal(id, s, a, Head(Q), a2) /\ Path(id, s, a2, Tail(Q), m)
  BY <1>1, PathHead
<1>3. a2.conn \notin Excused
  BY <1>2 DEF Legal, Excused, Contract!Gaps
<1>4. Tracks(id, s, a2, Tail(Q), W, c, new)
  <2>1. c # None => Attested(id, a2, Tail(Q), W, c)
    <3>1. a2.conn = "connected" =>
            a.conn = "connected" \/ (Head(Q).id = id /\ Head(Q).kind = "Connected")
      BY <1>2 DEF Legal
    <3>2. a2.conn # "gapped"
      BY <1>3 DEF Excused, Contract!Gaps
    <3>3. QED
      BY <3>1, <3>2, AnnouncesTail DEF Tracks, Attested
  <2>2. QED
    BY <1>1, <1>2, <1>3, <2>1 DEF Tracks
<1>5. QED
  BY <1>2, <1>4

\* A stream of which the host has been told is served.
LEMMA TracksServes ==
    ASSUME NEW id, NEW s, NEW a, NEW c, c # None, NEW new, NEW X, NEW Q \in Seq(X), NEW W \in Seq(X),
           Tracks(id, s, a, Q, W, c, new), a.stream # "none"
    PROVE  Serves(c, s)
<1>1. CASE a.conn \in Excused
  BY <1>1 DEF Tracks
<1>2. CASE a.conn \notin Excused
  <2>1. PICK m \in Phase, b \in Phase :
          Path(id, s, a, Q, m) /\ Path(id, s, m, W, b) /\ Matches(b, c, s)
    BY <1>2 DEF Tracks
  <2>2. b.stream # "none"
    BY <2>1, PathGrows DEF Grows
  <2>3. QED
    BY <2>1, <2>2 DEF Matches, StreamMatches
<1>3. QED
  BY <1>1, <1>2

\* A connection loses the events that were to be handed over.
LEMMA TracksExcused ==
    ASSUME NEW id, NEW s \in Streams, NEW a, NEW c, NEW new, NEW X, NEW Q \in Seq(X), NEW W \in Seq(X),
           Tracks(id, s, a, Q, W, c, new), NEW c2, c # None /\ c2 # None => Serving(c, c2),
           c = None => c2 = None,
           ~new, NEW a2, a2.conn \in Excused, a2.stream = a.stream, NEW Q2, NEW W2,
           a2.conn = "refused" => Impostors, c2 # None => Attested(id, a2, Q2, W2, c2)
    PROVE  Tracks(id, s, a2, Q2, W2, c2, new)
<1>1. ASSUME c2 # None, a.stream # "none" PROVE Serves(c2, s)
  <2>1. c # None
    BY <1>1
  <2>2. Serves(c, s)
    BY <1>1, <2>1, TracksServes
  <2>3. QED
    BY <1>1, <2>1, <2>2 DEF Serving
<1>2. QED
  BY <1>1 DEF Tracks

\* A poll() that fails takes only events of others from it.
LEMMA TracksLoses ==
    ASSUME NEW id, NEW s, NEW a, NEW c, NEW new, NEW X, NEW Q \in Seq(X), NEW W,
           Tracks(id, s, a, Q, W, c, new), \A i \in 1 .. Len(Q) : Q[i].id # id
    PROVE  Tracks(id, s, a, << >>, W, c, new)
<1>0. c # None => Attested(id, a, << >>, W, c)
  BY NotAnnounced DEF Tracks, Attested
<1>1. CASE a.conn \in Excused
  BY <1>0, <1>1 DEF Tracks
<1>2. CASE a.conn \notin Excused
  <2>1. PICK m \in Phase, b \in Phase :
         /\ Path(id, s, a, Q, m) /\ Path(id, s, m, W, b)
         /\ Matches(b, c, s)
         /\ c = None => m = b
         /\ c # None => (c.stream_states[s] = None => m.stream = b.stream)
         /\ new => c = None /\ b = [conn |-> "none", stream |-> "none"]
    BY <1>2 DEF Tracks
  <2>2. m = a
    BY <2>1, PathForeign
  <2>3. Path(id, s, a, << >>, a)
    BY <2>2, PathEmpty
  <2>4. QED
    BY <1>0, <1>2, <2>1, <2>2, <2>3 DEF Tracks
<1>3. QED
  BY <1>1, <1>2

\* No event of Q is of connection id.
SilentAbout(id, Q) == \A i \in 1 .. Len(Q) : Q[i].id # id

\* Nothing waits of a connection that has never been.
LEMMA TracksNew ==
    ASSUME NEW id, NEW s, NEW a, NEW c, NEW X, NEW Q \in Seq(X), NEW W \in Seq(X),
           NEW new, new, Tracks(id, s, a, Q, W, c, new)
    PROVE  /\ SilentAbout(id, Q) /\ SilentAbout(id, W)
           /\ c = None /\ a.conn = "none" /\ a.stream = "none"
           /\ Path(id, s, a, Q, a)
<1>1. PICK m \in Phase, b \in Phase :
         /\ Path(id, s, a, Q, m) /\ Path(id, s, m, W, b)
         /\ c = None /\ m = b
         /\ b = [conn |-> "none", stream |-> "none"]
  BY DEF Tracks
<1>2. b.conn = "none" /\ m.conn = "none"
  BY <1>1
<1>3. \A i \in 1 .. Len(Q) : Q[i].id # id
  BY <1>1, <1>2, PathQuiet
<1>4. \A i \in 1 .. Len(W) : W[i].id # id
  BY <1>1, <1>2, PathQuiet
<1>5. m = a
  BY <1>1, <1>3, PathForeign
<1>6. QED
  BY <1>1, <1>3, <1>4, <1>5 DEF SilentAbout

\* An id is spent on nothing.
LEMMA TracksSpent ==
    ASSUME NEW id, NEW s, NEW a, NEW c, NEW new, NEW Q, NEW W, Tracks(id, s, a, Q, W, c, new)
    PROVE  Tracks(id, s, a, Q, W, c, FALSE)
BY DEF Tracks

\* Closed, the last event of a connection, comes once, among those of others.
LEMMA TracksClosed ==
    ASSUME NEW id, NEW s, NEW a, NEW c, c # None, NEW new, NEW X, NEW Q \in Seq(X),
           Tracks(id, s, a, Q, << >>, c, new),
           NEW E \in Seq(X), NEW k \in 1 .. Len(E), E[k].kind = "Closed", E[k].id = id,
           \A i \in 1 .. Len(E) : i # k => E[i].id # id
    PROVE  Tracks(id, s, a, Q \o E, << >>, None, new)
<1>1. CASE a.conn \in Excused
  BY <1>1 DEF Tracks
<1>2. CASE a.conn \notin Excused
  <2>1. PICK m \in Phase, b \in Phase :
           /\ Path(id, s, a, Q, m) /\ Path(id, s, m, << >>, b)
           /\ Matches(b, c, s) /\ ~new
    BY <1>2 DEF Tracks
  <2>2. m = b
    BY <2>1, PathEmpty
  <2>3. PICK b2 : b2 = [conn |-> "closed", stream |-> b.stream]
    OBVIOUS
  <2>4. b2 \in Phase /\ b.conn \in Talking
    BY <2>1, <2>3 DEF Phase, Matches, Talking
  <2>5. Path(id, s, b, E, b2)
    <3> DEFINE run == [i \in 0 .. Len(E) |-> IF i < k THEN b ELSE b2]
    <3>1. Len(E) \in Nat /\ k \in Nat /\ k >= 1 /\ k <= Len(E)
      OBVIOUS
    <3>2. run \in [0 .. Len(E) -> Phase] /\ run[0] = b /\ run[Len(E)] = b2
      BY <2>4, <3>1
    <3>3. ASSUME NEW i \in 1 .. Len(E) PROVE Legal(id, s, run[i - 1], E[i], run[i])
      <4>1. CASE i = k
        <5>1. run[i - 1] = b /\ run[i] = b2
          BY <3>1, <4>1
        <5>2. QED
          BY <2>3, <2>4, <4>1, <5>1 DEF Legal
      <4>2. CASE i # k
        <5>1. run[i - 1] = run[i]
          BY <3>1, <4>2
        <5>2. QED
          BY <4>2, <5>1 DEF Legal
      <4>3. QED
        BY <4>1, <4>2
    <3> HIDE DEF run
    <3>4. QED
      BY <3>2, <3>3 DEF Path
  <2>6. Matches(b2, None, s)
    BY <2>3 DEF Matches
  <2>7. Path(id, s, a, Q \o E, b2)
    BY <2>1, <2>2, <2>5, PathConcat
  <2>8. Path(id, s, b2, << >>, b2)
    BY <2>4, PathEmpty
  <2>9. QED
    BY <1>2, <2>1, <2>4, <2>6, <2>7, <2>8 DEF Tracks
<1>3. QED
  BY <1>1, <1>2

-----------------------------------------------------------------------------
(* Connection ids.                                                         *)

\* A connection has one id, which tells its family and its number in it.
LEMMA IdOf ==
    ASSUME NEW f \in Families, NEW n \in Local
    PROVE  LET id == ExternalId(f, n)
           IN  /\ id \in Ids /\ id \in Nat /\ id # None
               /\ Family(id) = f /\ InternalId(id) = n
<1>1. n \in Nat /\ n >= 1 /\ f \in {"Ipv4", "Ipv6"}
  BY QuicAssumption DEF Local
<1>2. ExternalId(f, n) \in Nat /\ Family(ExternalId(f, n)) = f /\ InternalId(ExternalId(f, n)) = n
  BY <1>1 DEF ExternalId, Family, InternalId
<1>3. ExternalId(f, n) \in Ids
  BY DEF Ids
<1>4. QED
  BY <1>2, <1>3, QuicConnectionAssumption

\* Every id is the id of one connection.
LEMMA OfId ==
    ASSUME NEW id \in Ids
    PROVE  /\ Family(id) \in Families /\ InternalId(id) \in Local
           /\ ExternalId(Family(id), InternalId(id)) = id
<1>1. PICK f \in Families, n \in Local : id = ExternalId(f, n)
  BY DEF Ids
<1>2. QED
  BY <1>1, IdOf

\* Different connections have different ids.
LEMMA IdsDiffer ==
    ASSUME NEW f \in Families, NEW n \in Local, NEW g \in Families, NEW m \in Local,
           ExternalId(f, n) = ExternalId(g, m)
    PROVE  f = g /\ n = m
BY IdOf

-----------------------------------------------------------------------------
(* Events under their ids.                                                 *)

\* The events the model's types name are those a connection pushes.
LEMMA ToldPushed == ToldEvent = Pushed
BY DEF ToldEvent, Pushed, StreamKinds, Contract!ConnEvents, Contract!StreamEvents

\* map_event of what a connection pushes.
LEMMA TagIsTagged ==
    ASSUME NEW f, NEW n, NEW E
    PROVE  Tag(f, n, E) = Tagged(ExternalId(f, n), E)
BY DEF Tag, Tagged, TagOne

\* The events of a connection are events of the contract, all of its id.
LEMMA TaggedEvents ==
    ASSUME NEW id \in Ids, NEW E \in Seq(Pushed)
    PROVE  /\ Tagged(id, E) \in Seq(Contract!Event)
           /\ \A i \in 1 .. Len(Tagged(id, E)) : Tagged(id, E)[i].id = id
<1>1. \A x \in Pushed : TagOne(id, x) \in Contract!Event /\ TagOne(id, x).id = id
  BY DEF TagOne, Pushed, StreamKinds, Contract!Event, Contract!ConnEvents, Contract!StreamEvents
<1>2. PICK L : L = Tagged(id, E)
  OBVIOUS
<1>3. Len(E) \in Nat /\ \A i \in 1 .. Len(E) : E[i] \in Pushed
  OBVIOUS
<1>4. /\ L \in Seq(TaggedSet(id, Pushed)) /\ Len(L) = Len(E)
      /\ \A i \in 1 .. Len(E) : L[i] = TagOne(id, E[i])
  BY <1>2, TaggedSeq
<1>5. \A i \in 1 .. Len(L) : L[i] \in Contract!Event /\ L[i].id = id
  BY <1>1, <1>3, <1>4
<1>6. L \in [1 .. Len(E) -> Contract!Event]
  BY <1>4, <1>5
<1>7. L \in Seq(Contract!Event)
  BY <1>3, <1>6
<1>8. QED
  BY <1>2, <1>5, <1>7, Zenon

\* An event that waits, under its id.
MapOne(f, x) ==
    [kind |-> x.told.kind, id |-> IF x.id = None THEN None ELSE ExternalId(f, x.id),
     stream |-> x.told.stream]

\* map_event makes an event of the contract, whose id is never one of the other
\* family.
LEMMA MapOneEvent ==
    ASSUME NEW f \in Families, NEW x \in QueuedEvent
    PROVE  /\ MapOne(f, x) \in Contract!Event
           /\ \A g \in Families, m \in Local : g # f => MapOne(f, x).id # ExternalId(g, m)
<1>1. CASE x \in [id : {None}, told : {Told("Listening", None)}]
  <2>1. MapOne(f, x) = [kind |-> "Listening", id |-> None, stream |-> None]
    BY <1>1 DEF MapOne, Told
  <2>2. \A g \in Families, m \in Local : ExternalId(g, m) # None
    BY IdOf
  <2>3. QED
    BY <2>1, <2>2 DEF Contract!Event
<1>2. CASE x \in [id : Local, told : ToldEvent]
  <2>1. x.id \in Local /\ x.id # None /\ x.told \in Pushed
    BY <1>2, ToldPushed, QuicConnectionAssumption, QuicAssumption DEF Local
  <2>2. MapOne(f, x) = TagOne(ExternalId(f, x.id), x.told)
    BY <2>1 DEF MapOne, TagOne
  <2>3. ExternalId(f, x.id) \in Ids
    BY <2>1, IdOf
  <2>4. MapOne(f, x) \in Contract!Event
    BY <2>1, <2>2, <2>3
      DEF TagOne, Pushed, StreamKinds, Contract!Event, Contract!ConnEvents, Contract!StreamEvents
  <2>5. MapOne(f, x).id = ExternalId(f, x.id)
    BY <2>2 DEF TagOne
  <2>6. QED
    BY <2>1, <2>4, <2>5, IdsDiffer
<1>3. QED
  BY <1>1, <1>2 DEF QueuedEvent

\* What waits for the next poll(), under its ids: as many events, in the same
\* order, none of the other family.
LEMMA MapEventsSeq ==
    ASSUME NEW f \in Families, NEW q \in Seq(QueuedEvent)
    PROVE  /\ MapEvents(f, q) \in Seq(Contract!Event) /\ Len(MapEvents(f, q)) = Len(q)
           /\ \A i \in 1 .. Len(q) : MapEvents(f, q)[i] = MapOne(f, q[i])
           /\ \A i \in 1 .. Len(q) : \A g \in Families, m \in Local :
                g # f => MapEvents(f, q)[i].id # ExternalId(g, m)
<1>1. Len(q) \in Nat /\ DOMAIN q = 1 .. Len(q) /\ \A i \in 1 .. Len(q) : q[i] \in QueuedEvent
  OBVIOUS
<1>2. \A i \in 1 .. Len(q) : MapOne(f, q[i]) \in Contract!Event
  BY <1>1, MapOneEvent
<1>3. MapEvents(f, q) = [i \in 1 .. Len(q) |-> MapOne(f, q[i])]
  BY <1>1 DEF MapEvents, MapOne
<1>4. MapEvents(f, q) \in [1 .. Len(q) -> Contract!Event]
  BY <1>2, <1>3
<1>5. \A i \in 1 .. Len(q) : MapEvents(f, q)[i] = MapOne(f, q[i])
  BY <1>3
<1>6. MapEvents(f, q) \in Seq(Contract!Event) /\ Len(MapEvents(f, q)) = Len(q)
  BY <1>1, <1>4
<1>7. \A i \in 1 .. Len(q) : \A g \in Families, m \in Local :
                g # f => MapEvents(f, q)[i].id # ExternalId(g, m)
  BY <1>1, <1>5, MapOneEvent, Zenon
<1>8. QED
  BY <1>5, <1>6, <1>7

\* map_event of two queues in a row.
LEMMA MapEventsConcat ==
    ASSUME NEW f \in Families, NEW P \in Seq(QueuedEvent), NEW Q \in Seq(QueuedEvent)
    PROVE  MapEvents(f, P \o Q) = MapEvents(f, P) \o MapEvents(f, Q)
<1>1. PICK T : T = Contract!Event
  OBVIOUS
<1>2. /\ P \o Q \in Seq(QueuedEvent) /\ Len(P) \in Nat /\ Len(Q) \in Nat
      /\ Len(P \o Q) = Len(P) + Len(Q)
      /\ \A i \in 1 .. Len(P) : (P \o Q)[i] = P[i]
      /\ \A i \in 1 .. Len(Q) : (P \o Q)[Len(P) + i] = Q[i]
  BY ConcatHalves
<1>3. PICK R : R = P \o Q
  OBVIOUS
<1>4. /\ R \in Seq(QueuedEvent) /\ Len(R) = Len(P) + Len(Q)
      /\ \A i \in 1 .. Len(P) : R[i] = P[i]
      /\ \A i \in 1 .. Len(Q) : R[Len(P) + i] = Q[i]
  BY <1>2, <1>3, Zenon
<1>5. PICK L, A, B : L = MapEvents(f, R) /\ A = MapEvents(f, P) /\ B = MapEvents(f, Q)
  OBVIOUS
<1>6. L \in Seq(T) /\ Len(L) = Len(R) /\ \A i \in 1 .. Len(R) : L[i] = MapOne(f, R[i])
  BY <1>1, <1>4, <1>5, MapEventsSeq
<1>7. A \in Seq(T) /\ Len(A) = Len(P) /\ \A i \in 1 .. Len(P) : A[i] = MapOne(f, P[i])
  BY <1>1, <1>5, MapEventsSeq
<1>8. B \in Seq(T) /\ Len(B) = Len(Q) /\ \A i \in 1 .. Len(Q) : B[i] = MapOne(f, Q[i])
  BY <1>1, <1>5, MapEventsSeq
<1>9. \A i \in 1 .. Len(A) : L[i] = A[i]
  BY <1>2, <1>4, <1>6, <1>7
<1>10. ASSUME NEW i \in 1 .. Len(B) PROVE L[Len(A) + i] = B[i]
  <2>1. i \in 1 .. Len(Q) /\ Len(P) + i \in 1 .. Len(R)
    BY <1>2, <1>4, <1>8
  <2>2. R[Len(P) + i] = Q[i] /\ L[Len(P) + i] = MapOne(f, R[Len(P) + i]) /\ B[i] = MapOne(f, Q[i])
    BY <1>4, <1>6, <1>8, <2>1
  <2>3. QED
    BY <1>7, <2>2, Zenon
<1>11. Len(L) = Len(A) + Len(B)
  BY <1>4, <1>6, <1>7, <1>8
<1>12. L = A \o B
  BY ONLY <1>6, <1>7, <1>8, <1>9, <1>10, <1>11, ConcatIs
<1>13. QED
  BY <1>3, <1>5, <1>12, Zenon

\* What a call queues for connection n is handed over under its id.
LEMMA MapQueued ==
    ASSUME NEW f \in Families, NEW n \in Local, NEW q \in Seq(QueuedEvent), NEW E \in Seq(Pushed)
    PROVE  /\ q \o Queued(n, E) \in Seq(QueuedEvent)
           /\ MapEvents(f, q \o Queued(n, E)) = MapEvents(f, q) \o Tagged(ExternalId(f, n), E)
<1>1. Len(E) \in Nat /\ DOMAIN E = 1 .. Len(E) /\ \A i \in 1 .. Len(E) : E[i] \in ToldEvent
  BY ToldPushed
<1>2. Queued(n, E) = [i \in 1 .. Len(E) |-> [id |-> n, told |-> E[i]]]
  BY <1>1 DEF Queued
<1>3. \A i \in 1 .. Len(E) : [id |-> n, told |-> E[i]] \in QueuedEvent
  BY <1>1 DEF QueuedEvent
<1>4. Queued(n, E) \in [1 .. Len(E) -> QueuedEvent]
  BY <1>2, <1>3
<1>5. Queued(n, E) \in Seq(QueuedEvent)
  BY <1>1, <1>4
<1>6. MapEvents(f, Queued(n, E)) = Tagged(ExternalId(f, n), E)
  <2>1. n # None
    BY QuicConnectionAssumption, QuicAssumption DEF Local
  <2>2. DOMAIN Queued(n, E) = DOMAIN E
    BY <1>1, <1>2
  <2>3. \A i \in DOMAIN E : Queued(n, E)[i] = [id |-> n, told |-> E[i]]
    BY <1>1, <1>2
  <2>4. QED
    BY <2>1, <2>2, <2>3 DEF MapEvents, Tagged, TagOne
<1>7. q \o Queued(n, E) \in Seq(QueuedEvent)
  BY ONLY <1>5, q \in Seq(QueuedEvent), ConcatHalves
<1>8. MapEvents(f, q \o Queued(n, E)) = MapEvents(f, q) \o MapEvents(f, Queued(n, E))
  BY ONLY <1>5, f \in Families, q \in Seq(QueuedEvent), MapEventsConcat
<1>9. QED
  BY <1>6, <1>7, <1>8, Zenon

\* What listen() queues is of no connection.
LEMMA MapListening ==
    ASSUME NEW f \in Families, NEW q \in Seq(QueuedEvent)
    PROVE  LET x == Queued(None, <<Told("Listening", None)>>)
           IN  /\ q \o x \in Seq(QueuedEvent) /\ x \in Seq(QueuedEvent)
               /\ MapEvents(f, q \o x) = MapEvents(f, q) \o MapEvents(f, x)
               /\ \A i \in 1 .. Len(MapEvents(f, x)) : MapEvents(f, x)[i].id = None
<1>1. PICK x : x = Queued(None, <<Told("Listening", None)>>)
  OBVIOUS
<1>2. x = [i \in 1 .. 1 |-> [id |-> None, told |-> Told("Listening", None)]]
  BY <1>1 DEF Queued
<1>3. x \in [1 .. 1 -> QueuedEvent]
  BY <1>2 DEF QueuedEvent
<1>4. x \in Seq(QueuedEvent)
  <2>1. PICK k \in Nat : x \in [1 .. k -> QueuedEvent]
    BY <1>3
  <2>2. QED
    BY <2>1
<1>5. q \o x \in Seq(QueuedEvent)
  BY ONLY <1>4, q \in Seq(QueuedEvent), ConcatHalves
<1>6. MapEvents(f, q \o x) = MapEvents(f, q) \o MapEvents(f, x)
  BY ONLY <1>4, f \in Families, q \in Seq(QueuedEvent), MapEventsConcat
<1>7. \A i \in 1 .. Len(MapEvents(f, x)) : MapEvents(f, x)[i].id = None
  <2>1. Len(x) = 1 /\ x[1].id = None
    BY <1>2
  <2>2. Len(MapEvents(f, x)) = 1 /\ MapEvents(f, x)[1] = MapOne(f, x[1])
    BY <1>4, <2>1, MapEventsSeq
  <2>3. QED
    BY <2>1, <2>2 DEF MapOne
<1>8. QED
  BY <1>1, <1>4, <1>5, <1>6, <1>7, Zenon

\* Nothing waits.
LEMMA MapNothing ==
    ASSUME NEW f
    PROVE  MapEvents(f, << >>) = << >>
BY DEF MapEvents

-----------------------------------------------------------------------------
(* The tables of one transport.                                            *)

LiveOf(t) == {n \in Local : t.connections[n] # None}

\* The indexes hold the live connections, each under its peer; ids that have
\* not been allocated yet have no connection; every connection is sound.
TransportOK(t) ==
    /\ t \in QuicTransport
    /\ t.cid_to_connection = LiveOf(t)
    /\ \A p \in Peers : t.peer_connections[p] = {n \in LiveOf(t) : t.connections[n].peer_id = p}
    /\ \A n \in LiveOf(t) : ConnOK(t.connections[n])
    /\ \A n \in Local : n >= t.next_connection_id => t.connections[n] = None

\* QuicTransport::new: no connection, no index, an empty queue.
LEMMA NewTransportOK == TransportOK(NewTransport)
<1>1. NewTransport \in QuicTransport
  <2>1. 1 \in 1 .. MaxConns + 1 /\ << >> \in Seq(QueuedEvent)
    BY QuicAssumption
  <2>2. QED
    BY <2>1 DEF NewTransport, QuicTransport
<1>2. LiveOf(NewTransport) = {}
  BY DEF NewTransport, LiveOf
<1>3. QED
  BY <1>1, <1>2 DEF NewTransport, TransportOK

\* A sound connection is a connection.
LEMMA OKIsSome ==
    ASSUME NEW c, ConnOK(c)
    PROVE  c \in Connection /\ c # None /\ c.peer_id \in Peers \cup {None}
BY QuicConnectionAssumption DEF ConnOK, Connection

\* Connection n of t is replaced by c, and nothing else changes but the
\* indexes.
Replaces(t, n, c, t2) ==
    /\ TransportOK(t2)
    /\ t2.connections = [t.connections EXCEPT ![n] = c]
    /\ t2.pending_events = t.pending_events /\ t2.listening = t.listening
    /\ t2.next_connection_id = t.next_connection_id

\* The connection keeps its peer.
LEMMA ReplaceOK ==
    ASSUME NEW t, TransportOK(t), NEW n \in LiveOf(t), NEW c, ConnOK(c),
           c.peer_id = t.connections[n].peer_id
    PROVE  Replaces(t, n, c, [t EXCEPT !.connections[n] = c])
<1>1. PICK t2 : t2 = [t EXCEPT !.connections[n] = c]
  OBVIOUS
<1>2. /\ t2.connections = [t.connections EXCEPT ![n] = c]
      /\ t2.cid_to_connection = t.cid_to_connection /\ t2.peer_connections = t.peer_connections
      /\ t2.pending_events = t.pending_events /\ t2.listening = t.listening
      /\ t2.next_connection_id = t.next_connection_id
      /\ t2 \in QuicTransport
  BY <1>1, OKIsSome DEF TransportOK, QuicTransport, LiveOf
<1>3. n \in Local /\ t.connections \in [Local -> Connection \cup {None}] /\ t.connections[n] # None
  BY DEF TransportOK, QuicTransport, LiveOf
<1>4. t2.connections[n] = c /\ \A m \in Local : m # n => t2.connections[m] = t.connections[m]
  BY <1>2, <1>3
<1>5. c # None
  BY OKIsSome
<1>6. LiveOf(t2) = LiveOf(t)
  BY <1>3, <1>4, <1>5 DEF LiveOf
<1>7. \A p \in Peers : t2.peer_connections[p] = {m \in LiveOf(t2) : t2.connections[m].peer_id = p}
  BY <1>2, <1>4, <1>6 DEF TransportOK, LiveOf
<1>8. \A m \in LiveOf(t2) : ConnOK(t2.connections[m])
  BY <1>4, <1>6 DEF TransportOK, LiveOf
<1>9. \A m \in Local : m >= t2.next_connection_id => t2.connections[m] = None
  BY <1>2, <1>3, <1>4 DEF TransportOK
<1>10. TransportOK(t2)
  BY <1>2, <1>6, <1>7, <1>8, <1>9 DEF TransportOK
<1>11. QED
  BY <1>1, <1>2, <1>10 DEF Replaces

\* The connection has another peer.
LEMMA ReindexOK ==
    ASSUME NEW t, TransportOK(t), NEW n \in LiveOf(t), NEW c, ConnOK(c),
           c.peer_id # t.connections[n].peer_id => c.peer_id \in Peers
    PROVE  Replaces(t, n, c, Reindex([t EXCEPT !.connections[n] = c], t.connections[n].peer_id, n))
<1> DEFINE old == t.connections[n].peer_id
           new == c.peer_id
<1>1. PICK t1 : t1 = [t EXCEPT !.connections[n] = c]
  OBVIOUS
<1>2. PICK t2 : t2 = Reindex(t1, old, n)
  OBVIOUS
<1>3. /\ n \in Local /\ t.connections \in [Local -> Connection \cup {None}] /\ t.connections[n] # None
      /\ t \in QuicTransport /\ t.peer_connections \in [Peers -> SUBSET Local]
  BY DEF TransportOK, QuicTransport, LiveOf
<1>4. /\ t1.connections = [t.connections EXCEPT ![n] = c] /\ t1.connections[n] = c
      /\ t1.peer_connections = t.peer_connections
  BY <1>1, <1>3 DEF QuicTransport
<1>5. CASE new = old
  <2>1. t2 = t1
    BY <1>2, <1>4, <1>5 DEF Reindex
  <2>2. QED
    BY <1>1, <1>2, <1>5, <2>1, ReplaceOK
<1>6. CASE new # old
  <2>1. new \in Peers /\ old \in Peers \cup {None}
    BY <1>3, <1>6 DEF Connection
  <2>2. t2 = IndexPeer(RemovePeer(t1, old, n), new, n)
    BY <1>2, <1>4, <1>6 DEF Reindex
  <2>3. t1 \in QuicTransport
    BY <1>1, <1>3, OKIsSome DEF QuicTransport
  <2>4. PICK t3 : t3 = RemovePeer(t1, old, n)
    OBVIOUS
  <2>5. /\ t3 = [t1 EXCEPT !.peer_connections = t3.peer_connections]
        /\ t3.peer_connections \in [Peers -> SUBSET Local]
        /\ \A p \in Peers : t3.peer_connections[p] =
             IF p = old THEN t.peer_connections[p] \ {n} ELSE t.peer_connections[p]
    <3>1. CASE old = None
      BY <1>3, <1>4, <2>3, <2>4, <3>1, QuicConnectionAssumption DEF RemovePeer, QuicTransport
    <3>2. CASE old # None
      BY <1>3, <1>4, <2>1, <2>3, <2>4, <3>2 DEF RemovePeer, QuicTransport
    <3>3. QED
      BY <3>1, <3>2
  <2>6. t2 = IndexPeer(t3, new, n)
    BY <2>2, <2>4
  <2>7. /\ t2 = [t1 EXCEPT !.peer_connections = t2.peer_connections]
        /\ t2.peer_connections \in [Peers -> SUBSET Local]
        /\ \A p \in Peers : t2.peer_connections[p] =
             IF p = new THEN t3.peer_connections[p] \cup {n} ELSE t3.peer_connections[p]
    BY <1>3, <2>1, <2>3, <2>5, <2>6 DEF IndexPeer, QuicTransport
  <2>8. /\ t2.connections = t1.connections /\ t2.cid_to_connection = t.cid_to_connection
        /\ t2.pending_events = t.pending_events /\ t2.listening = t.listening
        /\ t2.next_connection_id = t.next_connection_id
        /\ t2 \in QuicTransport
    BY <1>1, <1>3, <2>3, <2>7 DEF QuicTransport
  <2>9. t2.connections[n] = c /\ \A m \in Local : m # n => t2.connections[m] = t.connections[m]
    BY <1>3, <1>4, <2>8
  <2>10. LiveOf(t2) = LiveOf(t) /\ c # None
    BY <1>3, <2>9, OKIsSome DEF LiveOf
  <2>11. ASSUME NEW p \in Peers
         PROVE  t2.peer_connections[p] = {m \in LiveOf(t2) : t2.connections[m].peer_id = p}
    <3>1. t.peer_connections[p] = {m \in LiveOf(t) : t.connections[m].peer_id = p}
      BY DEF TransportOK
    <3>2. \A m \in LiveOf(t) : m # n => t2.connections[m] = t.connections[m]
      BY <2>9 DEF LiveOf
    <3>3. ASSUME NEW m
          PROVE  m \in t2.peer_connections[p] <=> m \in LiveOf(t) /\ t2.connections[m].peer_id = p
      <4>1. m \in t.peer_connections[p] <=> m \in LiveOf(t) /\ t.connections[m].peer_id = p
        BY <3>1
      <4>2. CASE m = n
        BY <1>6, <2>5, <2>7, <2>9, <4>1, <4>2
      <4>3. CASE m # n
        <5>1. m \in t3.peer_connections[p] <=> m \in t.peer_connections[p]
          BY <2>5, <4>3
        <5>2. m \in t2.peer_connections[p] <=> m \in t3.peer_connections[p]
          BY <2>7, <4>3
        <5>3. QED
          BY <3>2, <4>1, <4>3, <5>1, <5>2
      <4>4. QED
        BY <4>2, <4>3
    <3>4. QED
      BY <2>10, <3>3
  <2>12. \A m \in LiveOf(t2) : ConnOK(t2.connections[m])
    BY <2>9, <2>10 DEF TransportOK, LiveOf
  <2>13. \A m \in Local : m >= t2.next_connection_id => t2.connections[m] = None
    BY <1>3, <2>8, <2>9 DEF TransportOK
  <2>14. TransportOK(t2)
    BY <2>8, <2>10, <2>11, <2>12, <2>13 DEF TransportOK
  <2>15. QED
    BY <1>1, <1>2, <1>4, <2>8, <2>14 DEF Replaces
<1>7. QED
  BY <1>5, <1>6

\* A connection with the next id.
Inserts(t, n, c, t2) ==
    /\ TransportOK(t2)
    /\ t2.connections = [t.connections EXCEPT ![n] = c]
    /\ t2.pending_events = t.pending_events /\ t2.listening = t.listening
    /\ t2.next_connection_id = n + 1

\* A dial or an accept enters the connection, and its peer when it is known,
\* under an id that no other connection has had.
LEMMA InsertOK ==
    ASSUME NEW t, TransportOK(t), NEW n \in Local, n = t.next_connection_id,
           NEW c, ConnOK(c), NEW t2,
           \/ c.peer_id = None /\ t2 = Insert(t, n, c)
           \/ c.peer_id \in Peers /\ t2 = IndexPeer(Insert(t, n, c), c.peer_id, n)
    PROVE  Inserts(t, n, c, t2)
<1>1. PICK t1 : t1 = Insert(t, n, c)
  OBVIOUS
<1>2. /\ t \in QuicTransport /\ t.connections \in [Local -> Connection \cup {None}]
      /\ t.peer_connections \in [Peers -> SUBSET Local]
      /\ t.connections[n] = None /\ c # None /\ c \in Connection
      /\ n \in Nat /\ n <= MaxConns /\ MaxConns \in Nat
  <2>1. t.next_connection_id \in Nat
    BY QuicAssumption DEF TransportOK, QuicTransport
  <2>2. QED
    BY <2>1, OKIsSome, QuicAssumption DEF TransportOK, QuicTransport, Local
<1>3. /\ t1.connections = [t.connections EXCEPT ![n] = c]
      /\ t1.cid_to_connection = t.cid_to_connection \cup {n}
      /\ t1.peer_connections = t.peer_connections
      /\ t1.pending_events = t.pending_events /\ t1.listening = t.listening
      /\ t1.next_connection_id = n + 1
      /\ t1 \in QuicTransport
  <2>1. n + 1 \in 1 .. MaxConns + 1
    BY <1>2
  <2>2. QED
    BY <1>1, <1>2, <2>1 DEF Insert, QuicTransport
<1>4. /\ t2.connections = t1.connections
      /\ t2.cid_to_connection = t1.cid_to_connection
      /\ t2.pending_events = t.pending_events /\ t2.listening = t.listening
      /\ t2.next_connection_id = n + 1
      /\ t2 \in QuicTransport
      /\ \A p \in Peers : t2.peer_connections[p] =
           IF p = c.peer_id THEN t.peer_connections[p] \cup {n} ELSE t.peer_connections[p]
  <2>1. CASE c.peer_id = None /\ t2 = t1
    BY <1>2, <1>3, <2>1, QuicConnectionAssumption
  <2>2. CASE c.peer_id \in Peers /\ t2 = IndexPeer(t1, c.peer_id, n)
    BY <1>2, <1>3, <2>2 DEF IndexPeer, QuicTransport
  <2>3. QED
    BY <1>1, <2>1, <2>2
<1>5. t2.connections[n] = c /\ \A m \in Local : m # n => t2.connections[m] = t.connections[m]
  BY <1>2, <1>3, <1>4
<1>6. LiveOf(t2) = LiveOf(t) \cup {n} /\ n \notin LiveOf(t)
  BY <1>2, <1>5 DEF LiveOf
<1>7. t2.cid_to_connection = LiveOf(t2)
  BY <1>3, <1>4, <1>6 DEF TransportOK
<1>8. ASSUME NEW p \in Peers
      PROVE  t2.peer_connections[p] = {m \in LiveOf(t2) : t2.connections[m].peer_id = p}
  <2>1. t.peer_connections[p] = {m \in LiveOf(t) : t.connections[m].peer_id = p}
    BY DEF TransportOK
  <2>2. \A m \in LiveOf(t) : t2.connections[m] = t.connections[m]
    BY <1>5, <1>6 DEF LiveOf
  <2>3. ASSUME NEW m
        PROVE  m \in t2.peer_connections[p] <=> m \in LiveOf(t2) /\ t2.connections[m].peer_id = p
    <3>1. m \in t.peer_connections[p] <=> m \in LiveOf(t) /\ t.connections[m].peer_id = p
      BY <2>1
    <3>2. CASE m = n
      BY <1>4, <1>5, <1>6, <3>1, <3>2
    <3>3. CASE m # n
      BY <1>4, <1>6, <2>2, <3>1, <3>3
    <3>4. QED
      BY <3>2, <3>3
  <2>4. QED
    BY <2>3
<1>9. \A m \in LiveOf(t2) : ConnOK(t2.connections[m])
  BY <1>5, <1>6 DEF TransportOK, LiveOf
<1>10. \A m \in Local : m >= t2.next_connection_id => t2.connections[m] = None
  <2>1. \A m \in Local : m >= n + 1 => m # n /\ m >= n
    BY <1>2 DEF Local
  <2>2. QED
    BY <1>4, <1>5, <2>1 DEF TransportOK
<1>11. TransportOK(t2)
  BY <1>4, <1>7, <1>8, <1>9, <1>10 DEF TransportOK
<1>12. QED
  BY <1>3, <1>4, <1>11 DEF Inserts

\* Closed connections go.
LEMMA RemoveOK ==
    ASSUME NEW t, TransportOK(t), NEW gone \in SUBSET LiveOf(t)
    PROVE  LET t2 == RemoveClosed(t, gone)
           IN  /\ TransportOK(t2)
               /\ t2.connections = [n \in Local |-> IF n \in gone THEN None ELSE t.connections[n]]
               /\ t2.pending_events = t.pending_events /\ t2.listening = t.listening
               /\ t2.next_connection_id = t.next_connection_id
<1>1. PICK t2 : t2 = RemoveClosed(t, gone)
  OBVIOUS
<1>2. /\ t \in QuicTransport /\ t.connections \in [Local -> Connection \cup {None}]
      /\ t.cid_to_connection = LiveOf(t)
      /\ t.peer_connections \in [Peers -> SUBSET Local]
      /\ gone \subseteq Local
  BY DEF TransportOK, QuicTransport, LiveOf
<1>3. /\ t2.connections = [n \in Local |-> IF n \in gone THEN None ELSE t.connections[n]]
      /\ t2.cid_to_connection = t.cid_to_connection \ gone
      /\ t2.peer_connections =
           [p \in Peers |-> t.peer_connections[p] \ {n \in gone : t.connections[n].peer_id = p}]
      /\ t2.pending_events = t.pending_events /\ t2.listening = t.listening
      /\ t2.next_connection_id = t.next_connection_id
  BY <1>1, <1>2 DEF RemoveClosed, QuicTransport
<1>4. t2 \in QuicTransport
  <2>1. t2.connections \in [Local -> Connection \cup {None}]
    BY <1>2, <1>3
  <2>2. t2.cid_to_connection \in SUBSET Local
    BY <1>2, <1>3 DEF LiveOf
  <2>3. t2.peer_connections \in [Peers -> SUBSET Local]
    BY <1>2, <1>3
  <2>4. t2 = [t EXCEPT !.connections = t2.connections, !.cid_to_connection = t2.cid_to_connection,
                       !.peer_connections = t2.peer_connections]
    BY <1>1, <1>2, <1>3 DEF RemoveClosed, QuicTransport
  <2>5. QED
    BY <1>2, <2>1, <2>2, <2>3, <2>4 DEF QuicTransport
<1>5. LiveOf(t2) = LiveOf(t) \ gone
  BY <1>3 DEF LiveOf
<1>6. \A m \in LiveOf(t2) : t2.connections[m] = t.connections[m] /\ m \in LiveOf(t)
  BY <1>3, <1>5 DEF LiveOf
<1>7. ASSUME NEW p \in Peers
      PROVE  t2.peer_connections[p] = {m \in LiveOf(t2) : t2.connections[m].peer_id = p}
  <2>1. \A m : m \in t.peer_connections[p] <=> m \in LiveOf(t) /\ t.connections[m].peer_id = p
    BY DEF TransportOK
  <2>2. \A m : m \in t2.peer_connections[p] <=>
               m \in t.peer_connections[p] /\ ~(m \in gone /\ t.connections[m].peer_id = p)
    BY <1>3
  <2>3. \A m : m \in t2.peer_connections[p] <=> m \in LiveOf(t2) /\ t2.connections[m].peer_id = p
    BY <1>5, <1>6, <2>1, <2>2
  <2>4. QED
    BY <2>3
<1>8. \A m \in LiveOf(t2) : ConnOK(t2.connections[m])
  BY <1>6 DEF TransportOK
<1>9. \A m \in Local : m >= t2.next_connection_id => t2.connections[m] = None
  BY <1>3 DEF TransportOK
<1>10. TransportOK(t2)
  BY <1>2, <1>3, <1>4, <1>5, <1>7, <1>8, <1>9 DEF TransportOK
<1>11. QED
  BY <1>1, <1>3, <1>10

\* The queue of events, listening and ids that are spent.
LEMMA OtherOK ==
    ASSUME NEW t, TransportOK(t), NEW t2 \in QuicTransport,
           t2.connections = t.connections, t2.cid_to_connection = t.cid_to_connection,
           t2.peer_connections = t.peer_connections,
           t2.next_connection_id >= t.next_connection_id
    PROVE  TransportOK(t2)
<1>1. LiveOf(t2) = LiveOf(t)
  BY DEF LiveOf
<1>2. \A m \in Local : m >= t2.next_connection_id => m >= t.next_connection_id
  BY QuicAssumption DEF Local, QuicTransport, TransportOK
<1>3. QED
  BY <1>1, <1>2 DEF TransportOK

-----------------------------------------------------------------------------
(* What is told of all connections.                                        *)

\* What the host has been told, what is on its way to it and what is queued
\* for the next poll() match connection n of family f.
TracksOne(f, n, t, cn, st, Q) ==
    \A s \in Streams :
      Tracks(ExternalId(f, n), s,
             [conn |-> cn[ExternalId(f, n)], stream |-> st[ExternalId(f, n)][s]],
             Q, MapEvents(f, t.pending_events), t.connections[n], n >= t.next_connection_id)

AllTracked(tr, cn, st, Q) ==
    \A f \in Families, n \in Local : TracksOne(f, n, tr[f], cn, st, Q)

\* Queueing no events.
LEMMA ConcatNothing ==
    ASSUME NEW X, NEW Q \in Seq(X)
    PROVE  Q \o << >> = Q /\ << >> \o Q = Q
<1>1. << >> \in Seq(X) /\ Len(<< >>) = 0 /\ Len(Q) \in Nat
  OBVIOUS
<1>2. PICK z : z = << >>
  OBVIOUS
<1>3. z \in Seq(X) /\ Len(z) = 0
  BY <1>1, <1>2
<1>4. Q = Q \o z
  <2>1. Len(Q) = Len(Q) + Len(z) /\ (\A i \in 1 .. Len(z) : Q[Len(Q) + i] = z[i])
    BY <1>1, <1>3
  <2>2. QED
    BY <1>3, <2>1, ConcatIs
<1>5. Q = z \o Q
  <2>1. Len(Q) = Len(z) + Len(Q) /\ (\A i \in 1 .. Len(z) : Q[i] = z[i])
    BY <1>1, <1>3
  <2>2. \A i \in 1 .. Len(Q) : Q[Len(z) + i] = Q[i]
    BY <1>1, <1>3
  <2>3. QED
    BY <1>3, <2>1, <2>2, ConcatIs
<1>6. QED
  BY <1>2, <1>4, <1>5

\* The empty queue, as a constant.
LEMMA NoEvents ==
    ASSUME NEW X
    PROVE  \E z \in Seq(X) : Len(z) = 0 /\ z = << >>
<1>1. << >> \in Seq(X) /\ Len(<< >>) = 0
  OBVIOUS
<1>2. QED
  BY <1>1, Zenon

\* A connection to which nothing happens, while events of others are told and
\* queued.
LEMMA OneForeign ==
    ASSUME NEW f \in Families, NEW n \in Local, NEW t, NEW cn, NEW st,
           NEW Q \in Seq(Contract!Event), TracksOne(f, n, t, cn, st, Q),
           t.pending_events \in Seq(QueuedEvent),
           NEW E \in Seq(Contract!Event), NEW F \in Seq(Contract!Event),
           \A i \in 1 .. Len(E) : E[i].id # ExternalId(f, n),
           \A i \in 1 .. Len(F) : F[i].id # ExternalId(f, n),
           NEW t2, t2.connections[n] = t.connections[n],
           MapEvents(f, t2.pending_events) = MapEvents(f, t.pending_events) \o F,
           (n >= t2.next_connection_id) = (n >= t.next_connection_id),
           NEW cn2, cn2[ExternalId(f, n)] = cn[ExternalId(f, n)],
           NEW st2, st2[ExternalId(f, n)] = st[ExternalId(f, n)]
    PROVE  TracksOne(f, n, t2, cn2, st2, Q \o E)
<1> SUFFICES ASSUME NEW s \in Streams
             PROVE  Tracks(ExternalId(f, n), s,
                           [conn |-> cn2[ExternalId(f, n)], stream |-> st2[ExternalId(f, n)][s]],
                           Q \o E, MapEvents(f, t2.pending_events), t2.connections[n],
                           n >= t2.next_connection_id)
  BY DEF TracksOne
<1>1. PICK id, a, c, W, new, X :
        /\ id = ExternalId(f, n) /\ a = [conn |-> cn[id], stream |-> st[id][s]]
        /\ c = t.connections[n] /\ W = MapEvents(f, t.pending_events)
        /\ new = (n >= t.next_connection_id) /\ X = Contract!Event
  OBVIOUS
<1>2. Tracks(id, s, a, Q, W, c, new)
  BY <1>1 DEF TracksOne
<1>3. W \in Seq(X) /\ Q \in Seq(X) /\ E \in Seq(X) /\ F \in Seq(X)
  BY <1>1, MapEventsSeq
<1>4. Tracks(id, s, a, Q \o E, W, c, new)
  BY <1>1, <1>2, <1>3, TracksForeign
<1>5. Q \o E \in Seq(X) /\ (\A i \in 1 .. Len(F) : F[i].id # id)
  BY <1>1, <1>3, ConcatHalves
<1>6. Tracks(id, s, a, Q \o E, W \o F, c, new)
  BY ONLY <1>3, <1>4, <1>5, TracksForeignQueue
<1>7. a = [conn |-> cn2[id], stream |-> st2[id][s]]
  BY <1>1
<1>8. QED
  BY <1>1, <1>6, <1>7

\* The other connections of the family are as they were.
Spares(own, t, t2) ==
    \A m \in Local \ own :
      /\ t2.connections[m] = t.connections[m]
      /\ (m >= t2.next_connection_id) = (m >= t.next_connection_id)

\* Events of these connections, or of none.
EventsOf(f, own, E) ==
    \A i \in 1 .. Len(E) : E[i].id = None \/ \E m \in own : E[i].id = ExternalId(f, m)

\* What is told of others is as it was.
ToldOfOthers(f, own, cn, st, cn2, st2) ==
    \A id \in Ids : (\A m \in own : id # ExternalId(f, m)) => cn2[id] = cn[id] /\ st2[id] = st[id]

OwnTracked(f, own, t, cn, st, Q) == \A m \in own : TracksOne(f, m, t, cn, st, Q)

\* A step of the connections own of family f.
LEMMA Retracked ==
    ASSUME NEW f \in Families, NEW own \in SUBSET Local,
           NEW tr \in [Families -> QuicTransport], NEW t2 \in QuicTransport,
           NEW Q \in Seq(Contract!Event), NEW E \in Seq(Contract!Event),
           NEW F \in Seq(Contract!Event), NEW cn, NEW st, NEW cn2, NEW st2,
           AllTracked(tr, cn, st, Q),
           MapEvents(f, t2.pending_events) = MapEvents(f, tr[f].pending_events) \o F,
           EventsOf(f, own, E), EventsOf(f, own, F), Spares(own, tr[f], t2),
           ToldOfOthers(f, own, cn, st, cn2, st2), OwnTracked(f, own, t2, cn2, st2, Q \o E)
    PROVE  AllTracked([tr EXCEPT ![f] = t2], cn2, st2, Q \o E)
<1>1. SUFFICES ASSUME NEW g \in Families, NEW m \in Local
               PROVE  TracksOne(g, m, [tr EXCEPT ![f] = t2][g], cn2, st2, Q \o E)
  BY DEF AllTracked
<1>2. CASE g = f /\ m \in own
  BY <1>2 DEF OwnTracked
<1>3. CASE ~(g = f /\ m \in own)
  <2>1. TracksOne(g, m, tr[g], cn, st, Q)
    BY DEF AllTracked
  <2>2. \A k \in own : ExternalId(g, m) # ExternalId(f, k)
    BY <1>3, IdsDiffer
  <2>3. ExternalId(g, m) \in Ids /\ ExternalId(g, m) # None
    BY IdOf
  <2>4. \A i \in 1 .. Len(E) : E[i].id # ExternalId(g, m)
    BY <2>2, <2>3 DEF EventsOf
  <2>5. cn2[ExternalId(g, m)] = cn[ExternalId(g, m)] /\ st2[ExternalId(g, m)] = st[ExternalId(g, m)]
    BY <2>2, <2>3 DEF ToldOfOthers
  <2>6. tr[g].pending_events \in Seq(QueuedEvent) /\ MapEvents(g, tr[g].pending_events) \in Seq(Contract!Event)
    BY MapEventsSeq DEF QuicTransport
  <2>7. CASE g = f
    <3>1. [tr EXCEPT ![f] = t2][g] = t2
      BY <2>7
    <3>2. \A i \in 1 .. Len(F) : F[i].id # ExternalId(g, m)
      BY <2>2, <2>3 DEF EventsOf
    <3>3. t2.connections[m] = tr[g].connections[m]
          /\ (m >= t2.next_connection_id) = (m >= tr[g].next_connection_id)
      BY <1>3, <2>7 DEF Spares
    <3>4. TracksOne(g, m, t2, cn2, st2, Q \o E)
      <4>1. MapEvents(g, t2.pending_events) = MapEvents(g, tr[g].pending_events) \o F
        BY <2>7
      <4>2. QED
        BY ONLY <2>1, <2>4, <2>5, <2>6, <3>2, <3>3, <4>1, OneForeign, g \in Families, m \in Local,
                Q \in Seq(Contract!Event), E \in Seq(Contract!Event), F \in Seq(Contract!Event)
    <3>5. QED
      BY <3>1, <3>4
  <2>8. CASE g # f
    <3>1. [tr EXCEPT ![f] = t2][g] = tr[g]
      BY <2>8
    <3>2. PICK z \in Seq(Contract!Event) : Len(z) = 0 /\ z = << >>
      BY NoEvents, Zenon
    <3>3. MapEvents(g, tr[g].pending_events) = MapEvents(g, tr[g].pending_events) \o z
      BY <2>6, <3>2, ConcatNothing
    <3>4. \A i \in 1 .. Len(z) : z[i].id # ExternalId(g, m)
      BY <3>2
    <3>5. TracksOne(g, m, tr[g], cn2, st2, Q \o E)
      BY ONLY <2>1, <2>4, <2>5, <2>6, <3>3, <3>4, OneForeign, g \in Families, m \in Local,
              Q \in Seq(Contract!Event), E \in Seq(Contract!Event), z \in Seq(Contract!Event)
    <3>6. QED
      BY <3>1, <3>5
  <2>9. QED
    BY <2>7, <2>8
<1>4. QED
  BY <1>2, <1>3

\* poll() hands over what calls have queued.
LEMMA Transferred ==
    ASSUME NEW f \in Families, NEW tr \in [Families -> QuicTransport],
           NEW Q \in Seq(Contract!Event), NEW cn, NEW st, AllTracked(tr, cn, st, Q)
    PROVE  AllTracked([tr EXCEPT ![f].pending_events = << >>], cn, st,
                      Q \o MapEvents(f, tr[f].pending_events))
<1>1. PICK tr2 : tr2 = [tr EXCEPT ![f].pending_events = << >>]
  OBVIOUS
<1>2. PICK W : W = MapEvents(f, tr[f].pending_events)
  OBVIOUS
<1>3. SUFFICES ASSUME NEW g \in Families, NEW m \in Local
               PROVE  TracksOne(g, m, tr2[g], cn, st, Q \o W)
  BY <1>1, <1>2 DEF AllTracked
<1>4. TracksOne(g, m, tr[g], cn, st, Q)
  BY DEF AllTracked
<1>5. /\ \A h \in Families : tr[h].pending_events \in Seq(QueuedEvent)
      /\ W \in Seq(Contract!Event)
  BY <1>2, MapEventsSeq DEF QuicTransport
<1>6. CASE g = f
  <2>1. /\ tr2[g].connections = tr[g].connections
        /\ tr2[g].next_connection_id = tr[g].next_connection_id
        /\ tr2[g].pending_events = << >>
    BY <1>1, <1>6 DEF QuicTransport
  <2>2. MapEvents(g, tr2[g].pending_events) = << >>
    BY <2>1, MapNothing
  <2>3. ASSUME NEW s \in Streams
        PROVE  Tracks(ExternalId(g, m), s,
                      [conn |-> cn[ExternalId(g, m)], stream |-> st[ExternalId(g, m)][s]],
                      Q \o W, << >>, tr[g].connections[m], m >= tr[g].next_connection_id)
    <3>1. Tracks(ExternalId(g, m), s,
                      [conn |-> cn[ExternalId(g, m)], stream |-> st[ExternalId(g, m)][s]],
                      Q, W, tr[g].connections[m], m >= tr[g].next_connection_id)
      BY <1>2, <1>4, <1>6 DEF TracksOne
    <3>2. QED
      BY <1>5, <3>1, TracksTransfer
  <2>4. QED
    BY <2>1, <2>2, <2>3 DEF TracksOne
<1>7. CASE g # f
  <2>1. tr2[g] = tr[g]
    BY <1>1, <1>7
  <2>2. \A i \in 1 .. Len(W) : W[i].id # ExternalId(g, m)
    BY <1>2, <1>5, <1>7, MapEventsSeq
  <2>3. PICK z \in Seq(Contract!Event) : Len(z) = 0 /\ z = << >>
    BY NoEvents, Zenon
  <2>4. MapEvents(g, tr[g].pending_events) \in Seq(Contract!Event)
    BY <1>5, MapEventsSeq
  <2>5. MapEvents(g, tr[g].pending_events) = MapEvents(g, tr[g].pending_events) \o z
    BY <2>3, <2>4, ConcatNothing
  <2>6. \A i \in 1 .. Len(z) : z[i].id # ExternalId(g, m)
    BY <2>3
  <2>7. TracksOne(g, m, tr[g], cn, st, Q \o W)
    BY <1>4, <1>5, <2>2, <2>5, <2>6, OneForeign
  <2>8. QED
    BY <2>1, <2>7
<1>8. QED
  BY <1>6, <1>7

\* Events of a connection go lost with an error of poll(), or of others only.
LEMMA OneLost ==
    ASSUME NEW f \in Families, NEW n \in Local, NEW t, NEW cn, NEW st,
           NEW Q \in Seq(Contract!Event), TracksOne(f, n, t, cn, st, Q),
           t.pending_events \in Seq(QueuedEvent),
           NEW t2, t2.connections[n] = t.connections[n], t2.pending_events = t.pending_events,
           (n >= t2.next_connection_id) = (n >= t.next_connection_id),
           NEW cn2,
           \/ /\ \E i \in 1 .. Len(Q) : Q[i].id = ExternalId(f, n)
              /\ cn2[ExternalId(f, n)] = Contract!Gap(cn[ExternalId(f, n)])
           \/ /\ \A i \in 1 .. Len(Q) : Q[i].id # ExternalId(f, n)
              /\ cn2[ExternalId(f, n)] = cn[ExternalId(f, n)]
    PROVE  TracksOne(f, n, t2, cn2, st, << >>)
<1> SUFFICES ASSUME NEW s \in Streams
             PROVE  Tracks(ExternalId(f, n), s,
                           [conn |-> cn2[ExternalId(f, n)], stream |-> st[ExternalId(f, n)][s]],
                           << >>, MapEvents(f, t2.pending_events), t2.connections[n],
                           n >= t2.next_connection_id)
  BY DEF TracksOne
<1>1. PICK id, a, c, W, new, X, a2 :
        /\ id = ExternalId(f, n) /\ a = [conn |-> cn[id], stream |-> st[id][s]]
        /\ c = t.connections[n] /\ W = MapEvents(f, t.pending_events)
        /\ new = (n >= t.next_connection_id) /\ X = Contract!Event
        /\ a2 = [conn |-> cn2[id], stream |-> st[id][s]]
  OBVIOUS
<1>2. Tracks(id, s, a, Q, W, c, new)
  BY <1>1 DEF TracksOne
<1>3. W \in Seq(X) /\ Q \in Seq(X)
  BY <1>1, MapEventsSeq
<1>4. Tracks(id, s, a2, << >>, W, c, new)
  <2>1. CASE (\E i \in 1 .. Len(Q) : Q[i].id = id) /\ cn2[id] = Contract!Gap(cn[id])
    <3>1. ~new
      <4>1. new => SilentAbout(id, Q)
        BY ONLY <1>2, <1>3, TracksNew
      <4>2. QED
        BY <2>1, <4>1 DEF SilentAbout
    <3>2. /\ a2.conn \in Excused /\ a2.stream = a.stream /\ (a2.conn = "refused" => Impostors)
          /\ a2.conn \in {"connected", "gapped"} => a.conn \in {"connected", "gapped"}
      BY <1>1, <2>1 DEF Excused, Contract!Gap, Contract!Gaps
    <3>3. Serving(c, c)
      BY DEF Serving
    <3>4. c # None => Attested(id, a2, << >>, W, c)
      BY <1>2, <3>2, NotAnnounced DEF Tracks, Attested
    <3>5. QED
      BY ONLY <1>2, <1>3, <3>1, <3>2, <3>3, <3>4, s \in Streams, TracksExcused
  <2>2. CASE (\A i \in 1 .. Len(Q) : Q[i].id # id) /\ cn2[id] = cn[id]
    <3>1. a2 = a
      BY <1>1, <2>2
    <3>2. Tracks(id, s, a, << >>, W, c, new)
      BY ONLY <1>2, <1>3, <2>2, TracksLoses
    <3>3. QED
      BY <3>1, <3>2
  <2>3. QED
    BY <1>1, <2>1, <2>2
<1>5. QED
  BY <1>1, <1>4

\* What is told when the events Q are lost with an error of the connections own.
Losing(Q, f, own, cn) ==
    [c \in Ids |-> IF c \in {Q[i].id : i \in DOMAIN Q} \cup {ExternalId(f, m) : m \in own}
                   THEN Contract!Gap(cn[c]) ELSE cn[c]]

\* poll() returns an error: the host is handed nothing, and the connections of
\* which something went lost have a gap.
LEMMA PollLost ==
    ASSUME NEW f \in Families, NEW own \in SUBSET Local,
           NEW tr \in [Families -> QuicTransport], NEW t2 \in QuicTransport,
           NEW Q \in Seq(Contract!Event), NEW cn, NEW st, NEW cn2,
           AllTracked(tr, cn, st, Q),
           t2.pending_events = tr[f].pending_events, Spares(own, tr[f], t2),
           cn2 = Losing(Q, f, own, cn), OwnTracked(f, own, t2, cn2, st, << >>)
    PROVE  AllTracked([tr EXCEPT ![f] = t2], cn2, st, << >>)
<1>1. SUFFICES ASSUME NEW g \in Families, NEW m \in Local
               PROVE  TracksOne(g, m, [tr EXCEPT ![f] = t2][g], cn2, st, << >>)
  BY DEF AllTracked
<1>2. CASE g = f /\ m \in own
  BY <1>2 DEF OwnTracked
<1>3. CASE ~(g = f /\ m \in own)
  <2>1. TracksOne(g, m, tr[g], cn, st, Q)
    BY DEF AllTracked
  <2>2. \A k \in own : ExternalId(g, m) # ExternalId(f, k)
    BY <1>3, IdsDiffer
  <2>3. ExternalId(g, m) \in Ids
    BY IdOf
  <2>4. DOMAIN Q = 1 .. Len(Q)
    OBVIOUS
  <2>5. \/ /\ \E i \in 1 .. Len(Q) : Q[i].id = ExternalId(g, m)
           /\ cn2[ExternalId(g, m)] = Contract!Gap(cn[ExternalId(g, m)])
        \/ /\ \A i \in 1 .. Len(Q) : Q[i].id # ExternalId(g, m)
           /\ cn2[ExternalId(g, m)] = cn[ExternalId(g, m)]
    BY <2>2, <2>3, <2>4 DEF Losing
  <2>6. tr[g].pending_events \in Seq(QueuedEvent)
    BY DEF QuicTransport
  <2>7. PICK t : t = [tr EXCEPT ![f] = t2][g]
    OBVIOUS
  <2>8. /\ t.connections[m] = tr[g].connections[m] /\ t.pending_events = tr[g].pending_events
        /\ (m >= t.next_connection_id) = (m >= tr[g].next_connection_id)
    BY <1>3, <2>7 DEF Spares
  <2>9. TracksOne(g, m, t, cn2, st, << >>)
    BY ONLY <2>1, <2>5, <2>6, <2>8, OneLost, g \in Families, m \in Local, Q \in Seq(Contract!Event)
  <2>10. QED
    BY <2>7, <2>9
<1>4. QED
  BY <1>2, <1>3

\* A connection that loses events itself, or fails its handshake.
LEMMA OneExcused ==
    ASSUME NEW f \in Families, NEW n \in Local, NEW t, NEW cn, NEW st,
           NEW Q \in Seq(Contract!Event), TracksOne(f, n, t, cn, st, Q),
           t.pending_events \in Seq(QueuedEvent),
           t.connections[n] # None, NEW t2, t2.connections[n] # None,
           Serving(t.connections[n], t2.connections[n]),
           ~(n >= t.next_connection_id), ~(n >= t2.next_connection_id),
           t2.pending_events = t.pending_events,
           NEW cn2, cn2[ExternalId(f, n)] \in Excused,
           cn2[ExternalId(f, n)] = "refused" => Impostors,
           cn2[ExternalId(f, n)] = "gapped" => cn[ExternalId(f, n)] \in {"connected", "gapped"},
           NEW Q2, Announces(ExternalId(f, n), Q2) =>
                     Announces(ExternalId(f, n), Q) \/ ProvesPeer(t2.connections[n])
    PROVE  TracksOne(f, n, t2, cn2, st, Q2)
<1> SUFFICES ASSUME NEW s \in Streams
             PROVE  Tracks(ExternalId(f, n), s,
                           [conn |-> cn2[ExternalId(f, n)], stream |-> st[ExternalId(f, n)][s]],
                           Q2, MapEvents(f, t2.pending_events), t2.connections[n],
                           n >= t2.next_connection_id)
  BY DEF TracksOne
<1>1. PICK id, a, c, W, X, a2 :
        /\ id = ExternalId(f, n) /\ a = [conn |-> cn[id], stream |-> st[id][s]]
        /\ c = t.connections[n] /\ W = MapEvents(f, t.pending_events) /\ X = Contract!Event
        /\ a2 = [conn |-> cn2[id], stream |-> st[id][s]]
  OBVIOUS
<1>2. Tracks(id, s, a, Q, W, c, n >= t.next_connection_id)
  BY <1>1 DEF TracksOne
<1>3. W \in Seq(X) /\ Q \in Seq(X)
  BY <1>1, MapEventsSeq
<1>4. /\ a2.conn \in Excused /\ a2.stream = a.stream /\ (a2.conn = "refused" => Impostors)
      /\ a2.conn = "gapped" => a.conn \in {"connected", "gapped"}
  BY <1>1
<1>5. a.stream # "none" => Serves(c, s)
  BY <1>1, <1>2, <1>3, TracksServes
<1>6. a2.stream # "none" => Serves(t2.connections[n], s)
  BY <1>1, <1>4, <1>5 DEF Serving
<1>7. Attested(id, a2, Q2, W, t2.connections[n])
  <2>1. a2.conn # "connected"
    BY <1>4 DEF Excused, Contract!Gaps
  <2>2. Attested(id, a, Q, W, c)
    BY <1>1, <1>2 DEF Tracks
  <2>3. ProvesPeer(c) => ProvesPeer(t2.connections[n])
    BY <1>1 DEF Serving, ProvesPeer
  <2>4. Announces(id, Q2) => Announces(id, Q) \/ ProvesPeer(t2.connections[n])
    BY <1>1
  <2>5. QED
    BY <1>4, <2>1, <2>2, <2>3, <2>4 DEF Attested
<1>8. QED
  BY <1>1, <1>4, <1>6, <1>7 DEF Tracks

\* A connection whose step ends the poll() with an error.
LEMMA OneGapped ==
    ASSUME NEW f \in Families, NEW n \in Local, NEW t, NEW cn, NEW st,
           NEW Q \in Seq(Contract!Event), TracksOne(f, n, t, cn, st, Q),
           t.pending_events \in Seq(QueuedEvent),
           t.connections[n] # None, NEW t2, t2.connections[n] # None,
           Serving(t.connections[n], t2.connections[n]),
           ~(n >= t.next_connection_id), ~(n >= t2.next_connection_id),
           t2.pending_events = t.pending_events,
           NEW cn2, cn2[ExternalId(f, n)] = Contract!Gap(cn[ExternalId(f, n)])
    PROVE  TracksOne(f, n, t2, cn2, st, << >>)
<1>1. /\ cn2[ExternalId(f, n)] \in Excused
      /\ cn2[ExternalId(f, n)] # "refused"
      /\ cn2[ExternalId(f, n)] = "gapped" => cn[ExternalId(f, n)] \in {"connected", "gapped"}
  BY DEF Excused, Contract!Gap, Contract!Gaps
<1>2. ~Announces(ExternalId(f, n), << >>)
  BY NotAnnounced
<1>3. QED
  BY <1>1, <1>2, OneExcused

\* The connection makes a step within poll().
LEMMA OneStep ==
    ASSUME NEW f \in Families, NEW n \in Local, NEW t, NEW cn, NEW st,
           NEW Q \in Seq(Contract!Event), TracksOne(f, n, t, cn, st, Q),
           t.pending_events = << >>,
           t.connections[n] # None, NEW t2, t2.connections[n] # None, t2.pending_events = << >>,
           Serving(t.connections[n], t2.connections[n]),
           t2.next_connection_id = t.next_connection_id,
           NEW cn2, cn2[ExternalId(f, n)] = cn[ExternalId(f, n)],
           NEW E \in Seq(Pushed), Honest(E, t2.connections[n]),
           cn[ExternalId(f, n)] \notin Excused =>
             \A s \in Streams : Tells(ExternalId(f, n), s, t.connections[n], E, t2.connections[n])
    PROVE  TracksOne(f, n, t2, cn2, st, Q \o Tagged(ExternalId(f, n), E))
<1> SUFFICES ASSUME NEW s \in Streams
             PROVE  Tracks(ExternalId(f, n), s,
                           [conn |-> cn2[ExternalId(f, n)], stream |-> st[ExternalId(f, n)][s]],
                           Q \o Tagged(ExternalId(f, n), E), MapEvents(f, t2.pending_events),
                           t2.connections[n], n >= t2.next_connection_id)
  BY DEF TracksOne
<1>1. PICK id, a, c, c2, new, X :
        /\ id = ExternalId(f, n) /\ a = [conn |-> cn[id], stream |-> st[id][s]]
        /\ c = t.connections[n] /\ c2 = t2.connections[n] /\ X = Contract!Event
        /\ new = (n >= t.next_connection_id)
  OBVIOUS
<1>2. MapEvents(f, t.pending_events) = << >> /\ MapEvents(f, t2.pending_events) = << >>
  BY MapNothing
<1>3. Tracks(id, s, a, Q, << >>, c, new)
  BY <1>1, <1>2 DEF TracksOne
<1>4. Q \in Seq(X) /\ Tagged(id, E) \in Seq(X)
  BY <1>1, IdOf, TaggedEvents
<1>5. c # None /\ c2 # None /\ Serving(c, c2) /\ Honest(E, c2) /\ (a.conn \notin Excused => Tells(id, s, c, E, c2))
  BY <1>1
<1>6. Tracks(id, s, a, Q \o Tagged(id, E), << >>, c2, new)
  BY ONLY <1>3, <1>4, <1>5, s \in Streams, E \in Seq(Pushed), TracksStep
<1>7. a = [conn |-> cn2[id], stream |-> st[id][s]]
  BY <1>1
<1>8. QED
  BY <1>1, <1>2, <1>6, <1>7

-----------------------------------------------------------------------------
(* The invariant.                                                          *)

\* Events that the host will be handed before those that wait in queues.
Coming == IF poll.step = "idle" THEN ready ELSE poll.events

TransportsOK == \A f \in Families : TransportOK(transport[f])

\* Nothing is queued in the family whose poll() is in progress, and what poll()
\* still has to do is about live connections.
PollOK ==
    poll.step # "idle" =>
      /\ poll.family \in Families /\ ready = << >>
      /\ transport[poll.family].pending_events = << >>
      /\ poll.todo \subseteq LiveOf(transport[poll.family])
      /\ poll.gone \subseteq LiveOf(transport[poll.family])

Tracked == AllTracked(transport, conn, stream, Coming)

Inv == TypeOK /\ TransportsOK /\ PollOK /\ Tracked

\* For remotes that prove to be who they should be: the step is one of the
\* contract, or changes nothing the contract is about.
Allowed == Impostors \/ [Contract!Next]_(Contract!vars)

\* A step that the host hears nothing of is allowed by the contract.
LEMMA UnchangedAllowed ==
    ASSUME UNCHANGED contract
    PROVE  conn' = conn /\ stream' = stream /\ heard' = heard /\ Allowed
BY DEF contract, Allowed, Contract!vars

\* An error of poll(), with whatever set of ids.
LEMMA PollFailsAllowed ==
    ASSUME NEW lost, Contract!PollFails(lost), TypeOK
    PROVE  /\ conn' = [c \in Ids |-> IF c \in lost THEN Contract!Gap(conn[c]) ELSE conn[c]]
           /\ stream' = stream /\ Allowed
           /\ conn' \in [Ids -> Contract!ConnPhases \cup {"refused"}]
           /\ heard' \in [event : Contract!Event \cup {Contract!PollError, None}, turn : BOOLEAN]
<1>1. /\ conn' = [c \in Ids |-> IF c \in lost THEN Contract!Gap(conn[c]) ELSE conn[c]]
      /\ stream' = stream /\ heard' = [event |-> Contract!PollError, turn |-> ~heard.turn]
  BY DEF Contract!PollFails
<1>2. conn' \in [Ids -> Contract!ConnPhases \cup {"refused"}]
  BY <1>1 DEF TypeOK, Contract!ConnPhases, Contract!Gap, Contract!Gaps
<1>3. heard' \in [event : Contract!Event \cup {Contract!PollError, None}, turn : BOOLEAN]
  BY <1>1
<1>4. PICK known \in SUBSET Ids : \A c \in Ids : c \in known <=> c \in lost
  <2>1. lost \cap Ids \in SUBSET Ids /\ \A c \in Ids : c \in lost \cap Ids <=> c \in lost
    OBVIOUS
  <2>2. QED
    BY <2>1
<1>5. Contract!PollFails(known)
  BY <1>1, <1>4 DEF Contract!PollFails
<1>6. QED
  BY <1>1, <1>2, <1>3, <1>5 DEF Allowed, Contract!Next

\* Every variable of the transport but the contract's, after a step of family f.
LEMMA StepTypes ==
    ASSUME Inv, NEW f \in Families, NEW t2, TransportOK(t2),
           transport' = [transport EXCEPT ![f] = t2]
    PROVE  /\ transport \in [Families -> QuicTransport]
           /\ transport' \in [Families -> QuicTransport] /\ transport'[f] = t2 /\ TransportsOK'
           /\ \A g \in Families : g # f => transport'[g] = transport[g]
           /\ TransportOK(transport[f]) /\ t2 \in QuicTransport
           /\ transport[f] \in QuicTransport /\ transport[f].pending_events \in Seq(QueuedEvent)
           /\ transport[f].next_connection_id \in Nat
<1>1. /\ transport \in [Families -> QuicTransport] /\ TransportOK(transport[f]) /\ t2 \in QuicTransport
      /\ \A g \in Families : TransportOK(transport[g])
  BY DEF Inv, TypeOK, TransportsOK, TransportOK
<1>2. /\ transport' \in [Families -> QuicTransport] /\ transport'[f] = t2
      /\ \A g \in Families : g # f => transport'[g] = transport[g]
  BY <1>1
<1>3. TransportsOK'
  BY <1>1, <1>2 DEF TransportsOK
<1>4. /\ transport[f] \in QuicTransport /\ transport[f].pending_events \in Seq(QueuedEvent)
      /\ transport[f].next_connection_id \in Nat
  BY <1>1, QuicAssumption DEF QuicTransport
<1>5. QED
  BY <1>1, <1>2, <1>3, <1>4

\* poll() returns an error.
LEMMA PollFailsInv ==
    ASSUME Inv, poll.step # "idle", NEW own \in SUBSET Local,
           PollFails({ExternalId(poll.family, m) : m \in own}),
           NEW t2, TransportOK(t2), transport' = [transport EXCEPT ![poll.family] = t2],
           t2.pending_events = transport[poll.family].pending_events,
           Spares(own, transport[poll.family], t2),
           (\A m \in own : conn'[ExternalId(poll.family, m)]
                          = Contract!Gap(conn[ExternalId(poll.family, m)])) =>
             OwnTracked(poll.family, own, t2, conn', stream, << >>),
           inputs' \in 0 .. MaxInput
    PROVE  Inv' /\ Allowed
<1>1. PICK f : f = poll.family
  OBVIOUS
<1>2. f \in Families
  BY <1>1 DEF Inv, PollOK
<1>3. /\ transport \in [Families -> QuicTransport]
      /\ transport' \in [Families -> QuicTransport] /\ TransportsOK' /\ t2 \in QuicTransport
  BY <1>1, <1>2, StepTypes
<1>4. /\ conn' = Losing(poll.events, f, own, conn)
      /\ \A m \in own : conn'[ExternalId(f, m)] = Contract!Gap(conn[ExternalId(f, m)])
      /\ stream' = stream /\ Allowed /\ conn' \in [Ids -> Contract!ConnPhases \cup {"refused"}]
      /\ heard' \in [event : Contract!Event \cup {Contract!PollError, None}, turn : BOOLEAN]
  <2>1. Contract!PollFails({poll.events[i].id : i \in DOMAIN poll.events}
                           \cup {ExternalId(f, m) : m \in own})
    BY <1>1 DEF PollFails
  <2>2. \A m \in own : ExternalId(f, m) \in Ids
    BY <1>2, IdOf
  <2>3. QED
    BY <2>1, <2>2, PollFailsAllowed DEF Inv, Losing
<1>5. poll' = Idle /\ ready' = ready /\ calls' = calls /\ faults' \in 0 .. MaxFaults /\ ready = << >>
  BY QuicAssumption DEF PollFails, Fault, Inv, TypeOK, PollOK
<1>6. poll'.step = "idle" /\ poll' \in Polling
  <2>1. << >> \in Seq(Contract!Event)
    OBVIOUS
  <2>2. QED
    BY <1>5, <2>1 DEF Idle, Polling
<1>7. TypeOK'
  BY <1>3, <1>4, <1>5, <1>6 DEF Inv, TypeOK
<1>8. PollOK'
  BY <1>6 DEF PollOK
<1>9. AllTracked(transport', conn', stream, << >>)
  <2>1. AllTracked(transport, conn, stream, poll.events) /\ poll.events \in Seq(Contract!Event)
    BY DEF Inv, Tracked, Coming, TypeOK, Polling
  <2>2. OwnTracked(f, own, t2, conn', stream, << >>)
    BY <1>1, <1>4
  <2>3. PICK tr, cn, st, Q, cn2 : tr = transport /\ cn = conn /\ st = stream /\ Q = poll.events /\ cn2 = conn'
    OBVIOUS
  <2>4. AllTracked([tr EXCEPT ![f] = t2], cn2, st, << >>)
    <3>1. /\ AllTracked(tr, cn, st, Q) /\ Q \in Seq(Contract!Event)
          /\ OwnTracked(f, own, t2, cn2, st, << >>) /\ cn2 = Losing(Q, f, own, cn)
          /\ tr \in [Families -> QuicTransport] /\ t2.pending_events = tr[f].pending_events
          /\ Spares(own, tr[f], t2) /\ t2 \in QuicTransport
      BY <1>1, <1>3, <1>4, <2>1, <2>2, <2>3
    <3>2. QED
      BY ONLY <1>2, <3>1, own \in SUBSET Local, PollLost
  <2>5. QED
    BY <1>1, <2>3, <2>4
<1>10. Tracked'
  BY <1>4, <1>5, <1>6, <1>9 DEF Tracked, Coming
<1>11. QED
  BY <1>3, <1>4, <1>7, <1>8, <1>10 DEF Inv

\* Counters of the bounds.
CountersOK == inputs \in 0 .. MaxInput /\ calls \in 0 .. MaxCalls /\ faults \in 0 .. MaxFaults

\* poll() goes on: the connections own of its family make a step and tell E.
LEMMA PollGoesOn ==
    ASSUME Inv, poll.step # "idle", NEW own \in SUBSET Local,
           NEW t2, TransportOK(t2), transport' = [transport EXCEPT ![poll.family] = t2],
           t2.pending_events = << >>, Spares(own, transport[poll.family], t2),
           NEW E \in Seq(Contract!Event), EventsOf(poll.family, own, E),
           NEW step \in {"recv", "streams"}, NEW todo \in SUBSET LiveOf(t2),
           NEW gone \in SUBSET LiveOf(t2),
           poll' = [poll EXCEPT !.step = step, !.todo = todo, !.gone = gone,
                                !.events = poll.events \o E],
           conn' \in [Ids -> Contract!ConnPhases \cup {"refused"}],
           ToldOfOthers(poll.family, own, conn, stream, conn', stream),
           stream' = stream, heard' = heard, ready' = ready, CountersOK',
           OwnTracked(poll.family, own, t2, conn', stream, poll.events \o E)
    PROVE  Inv'
<1>1. PICK f : f = poll.family
  OBVIOUS
<1>2. f \in Families /\ ready = << >> /\ transport[f].pending_events = << >>
  BY <1>1 DEF Inv, PollOK
<1>3. /\ transport \in [Families -> QuicTransport]
      /\ transport' \in [Families -> QuicTransport] /\ TransportsOK' /\ t2 \in QuicTransport
      /\ transport'[f] = t2
  BY <1>1, <1>2, StepTypes
<1>4. poll \in Polling /\ poll.events \in Seq(Contract!Event)
  BY DEF Inv, TypeOK, Polling
<1>5. poll.events \o E \in Seq(Contract!Event)
  BY ONLY <1>4, E \in Seq(Contract!Event), ConcatHalves
<1>6. /\ poll'.step = step /\ poll'.family = f /\ poll'.events = poll.events \o E
      /\ poll'.todo = todo /\ poll'.gone = gone /\ poll' \in Polling
  BY <1>1, <1>4, <1>5 DEF Polling, LiveOf
<1>7. TypeOK'
  BY <1>3, <1>6 DEF Inv, TypeOK, CountersOK
<1>8. PollOK'
  BY <1>2, <1>3, <1>6 DEF PollOK
<1>9. AllTracked(transport', conn', stream, poll.events \o E)
  <2>1. PICK tr, cn, st, Q, cn2, st2 :
          tr = transport /\ cn = conn /\ st = stream /\ Q = poll.events /\ cn2 = conn' /\ st2 = stream
    OBVIOUS
  <2>2. PICK z \in Seq(Contract!Event) : Len(z) = 0 /\ z = << >>
    BY NoEvents, Zenon
  <2>3. /\ AllTracked(tr, cn, st, Q) /\ Q \in Seq(Contract!Event)
        /\ OwnTracked(f, own, t2, cn2, st2, Q \o E)
        /\ tr \in [Families -> QuicTransport] /\ Spares(own, tr[f], t2) /\ t2 \in QuicTransport
    BY <1>1, <1>3, <1>4, <2>1 DEF Inv, Tracked, Coming
  <2>4. EventsOf(f, own, E) /\ EventsOf(f, own, z) /\ ToldOfOthers(f, own, cn, st, cn2, st2)
    BY <1>1, <2>1, <2>2 DEF EventsOf
  <2>5. MapEvents(f, t2.pending_events) = MapEvents(f, tr[f].pending_events) \o z
    <3>1. MapEvents(f, t2.pending_events) = z /\ MapEvents(f, tr[f].pending_events) = z
      BY <1>2, <2>1, <2>2, MapNothing
    <3>2. z \o z = z
      BY <2>2, ConcatNothing
    <3>3. QED
      BY <3>1, <3>2
  <2>6. AllTracked([tr EXCEPT ![f] = t2], cn2, st2, Q \o E)
    BY ONLY <1>2, <2>2, <2>3, <2>4, <2>5, own \in SUBSET Local, E \in Seq(Contract!Event), Retracked
  <2>7. QED
    BY <1>1, <2>1, <2>6
<1>10. Tracked'
  BY <1>6, <1>9 DEF Tracked, Coming
<1>11. QED
  BY <1>3, <1>7, <1>8, <1>10 DEF Inv

\* poll(): an error of the socket ends the poll and loses no event.
LEMMA SocketFailsInv ==
    ASSUME Inv, SocketFails
    PROVE  Inv' /\ Allowed
<1>1. poll.step # "idle" /\ poll.family \in Families
  BY DEF SocketFails, Inv, PollOK
<1>2. TransportOK(transport[poll.family])
  BY <1>1 DEF Inv, TransportsOK
<1>3. PICK t2 : t2 = transport[poll.family]
  OBVIOUS
<1>4. PollFails({ExternalId(poll.family, m) : m \in {}})
  <2>1. {ExternalId(poll.family, m) : m \in {}} = {}
    OBVIOUS
  <2>2. QED
    BY <2>1 DEF SocketFails
<1>5. inputs' \in 0 .. MaxInput
  BY DEF SocketFails, Inv, TypeOK
<1>6. /\ transport' = [transport EXCEPT ![poll.family] = t2] /\ TransportOK(t2)
      /\ t2.pending_events = transport[poll.family].pending_events
      /\ Spares({}, transport[poll.family], t2)
      /\ OwnTracked(poll.family, {}, t2, conn', stream, << >>)
  BY <1>2, <1>3 DEF SocketFails, Inv, TypeOK, Spares, OwnTracked
<1>7. QED
  BY <1>1, <1>4, <1>5, <1>6, PollFailsInv

\* poll(): from the datagrams to the streams of the connections.
LEMMA EndOfDatagramsInv ==
    ASSUME Inv, EndOfDatagrams
    PROVE  Inv' /\ Allowed
<1>1. poll.step # "idle" /\ poll.family \in Families /\ transport[poll.family].pending_events = << >>
  BY DEF EndOfDatagrams, Inv, PollOK
<1>2. conn' = conn /\ stream' = stream /\ heard' = heard /\ Allowed
  BY UnchangedAllowed DEF EndOfDatagrams
<1>3. PICK t2 : t2 = transport[poll.family]
  OBVIOUS
<1>4. TransportOK(t2) /\ transport' = [transport EXCEPT ![poll.family] = t2]
  BY <1>1, <1>3 DEF EndOfDatagrams, Inv, TransportsOK, TypeOK
<1>5. Live(poll.family) = LiveOf(t2) /\ poll.gone \in SUBSET LiveOf(t2)
  BY <1>1, <1>3 DEF Live, LiveOf, Inv, PollOK
<1>6. PICK z \in Seq(Contract!Event) : Len(z) = 0 /\ z = << >>
  BY NoEvents, Zenon
<1>7. poll \in Polling /\ poll.events \in Seq(Contract!Event)
  BY DEF Inv, TypeOK, Polling
<1>8. poll.events \o z = poll.events
  BY <1>6, <1>7, ConcatNothing
<1>9. poll' = [poll EXCEPT !.step = "streams", !.todo = LiveOf(t2), !.gone = poll.gone,
                           !.events = poll.events \o z]
  BY <1>5, <1>7, <1>8 DEF EndOfDatagrams, Polling
<1>10. CountersOK' /\ ready' = ready /\ conn' \in [Ids -> Contract!ConnPhases \cup {"refused"}]
  BY <1>2 DEF EndOfDatagrams, Inv, TypeOK, CountersOK
<1>11. Inv'
  <2>1. /\ EventsOf(poll.family, {}, z) /\ t2.pending_events = << >>
        /\ OwnTracked(poll.family, {}, t2, conn', stream, poll.events \o z)
        /\ ToldOfOthers(poll.family, {}, conn, stream, conn', stream)
        /\ Spares({}, transport[poll.family], t2)
    BY <1>1, <1>2, <1>3, <1>6 DEF EventsOf, OwnTracked, ToldOfOthers, Spares
  <2>2. QED
    BY <1>1, <1>2, <1>4, <1>5, <1>6, <1>9, <1>10, <2>1, PollGoesOn
<1>12. QED
  BY <1>2, <1>11

-----------------------------------------------------------------------------
(* The steps of poll().                                                    *)

\* The outcome r of recv_packet for a connection that poll() has found.
LEMMA ReceivedInv ==
    ASSUME Inv, poll.step = "recv", NEW n \in LiveOf(transport[poll.family]), NEW r,
           Received(transport[poll.family], n, r, << >>),
           ConnOK(r.conn), Serving(At(n), r.conn), r.events \in Seq(Pushed), Honest(r.events, r.conn),
           r.conn.state = "Closing" /\ At(n).state = "Connecting" => Impostors,
           r.conn.peer_id # At(n).peer_id => r.conn.peer_id \in Peers,
           ~r.ok => r.conn.peer_id = At(n).peer_id,
           r.ok /\ ~(r.conn.state = "Closing" /\ At(n).state = "Connecting") =>
             \A s \in Streams : Tells(ExternalId(poll.family, n), s, At(n), Verified(At(n), r), r.conn),
           inputs' \in 0 .. MaxInput
    PROVE  Inv' /\ Allowed
<1>1. PICK f, t, c, id :
        f = poll.family /\ t = transport[f] /\ c = t.connections[n] /\ id = ExternalId(f, n)
  OBVIOUS
<1>2. /\ f \in Families /\ TransportOK(t) /\ t.pending_events = << >> /\ At(n) = c
      /\ poll.step # "idle"
  BY <1>1 DEF Inv, PollOK, TransportsOK, At
<1>3. n \in Local /\ n \in LiveOf(t) /\ c # None /\ r.conn # None
  BY <1>1, OKIsSome DEF LiveOf
<1>4. ~(n >= t.next_connection_id)
  BY <1>1, <1>2, <1>3 DEF TransportOK
<1>5. /\ TracksOne(f, n, t, conn, stream, poll.events)
      /\ poll \in Polling /\ poll.events \in Seq(Contract!Event)
      /\ t.pending_events \in Seq(QueuedEvent)
  BY <1>1, <1>2, <1>3 DEF Inv, Tracked, AllTracked, Coming, TypeOK, Polling, TransportOK, QuicTransport
<1>6. CASE ~r.ok
  <2>1. /\ transport' = [transport EXCEPT ![f] = [t EXCEPT !.connections[n] = r.conn]]
        /\ PollFails({id})
    BY <1>1, <1>6 DEF Received
  <2>2. PICK t2 : t2 = [t EXCEPT !.connections[n] = r.conn]
    OBVIOUS
  <2>3. Replaces(t, n, r.conn, t2)
    BY <1>1, <1>2, <1>3, <1>6, <2>2, ReplaceOK
  <2>4. /\ TransportOK(t2) /\ t2.connections[n] = r.conn
        /\ t2.pending_events = t.pending_events /\ t2.next_connection_id = t.next_connection_id
    BY <1>2, <1>3, <2>3 DEF Replaces, TransportOK, QuicTransport
  <2>5. Spares({n}, t, t2)
    BY <1>2, <2>3 DEF Spares, Replaces, TransportOK, QuicTransport
  <2>6. conn'[id] = Contract!Gap(conn[id]) => OwnTracked(f, {n}, t2, conn', stream, << >>)
    <3>1. SUFFICES ASSUME conn'[id] = Contract!Gap(conn[id]) PROVE TracksOne(f, n, t2, conn', stream, << >>)
      BY DEF OwnTracked
    <3>2. PICK cn, st, Q, cn2 : cn = conn /\ st = stream /\ Q = poll.events /\ cn2 = conn'
      OBVIOUS
    <3>3. /\ TracksOne(f, n, t, cn, st, Q) /\ Q \in Seq(Contract!Event)
          /\ cn2[ExternalId(f, n)] = Contract!Gap(cn[ExternalId(f, n)])
          /\ t.connections[n] # None /\ t2.connections[n] # None
          /\ Serving(t.connections[n], t2.connections[n]) /\ ~(n >= t2.next_connection_id)
      BY <1>1, <1>2, <1>3, <1>4, <1>5, <2>4, <3>1, <3>2
    <3>4. TracksOne(f, n, t2, cn2, st, << >>)
      BY ONLY <1>2, <1>3, <1>4, <1>5, <2>4, <3>3, OneGapped
    <3>5. QED
      BY <3>2, <3>4
  <2>7. PollFails({ExternalId(poll.family, m) : m \in {n}})
    <3>1. {ExternalId(poll.family, m) : m \in {n}} = {id}
      BY <1>1
    <3>2. QED
      BY <2>1, <3>1
  <2>8. /\ transport' = [transport EXCEPT ![poll.family] = t2]
        /\ t2.pending_events = transport[poll.family].pending_events
        /\ Spares({n}, transport[poll.family], t2) /\ {n} \in SUBSET Local
        /\ (\A m \in {n} : conn'[ExternalId(poll.family, m)]
                           = Contract!Gap(conn[ExternalId(poll.family, m)])) =>
             OwnTracked(poll.family, {n}, t2, conn', stream, << >>)
    BY <1>1, <1>3, <2>1, <2>2, <2>4, <2>5, <2>6
  <2>9. QED
    BY <1>2, <2>4, <2>7, <2>8, PollFailsInv
<1>7. CASE r.ok
  <2>1. PICK t2 : t2 = Reindex([t EXCEPT !.connections[n] = r.conn], c.peer_id, n)
    OBVIOUS
  <2>2. Replaces(t, n, r.conn, t2)
    BY <1>1, <1>2, <1>3, <2>1, ReindexOK
  <2>3. /\ TransportOK(t2) /\ t2.connections[n] = r.conn
        /\ t2.pending_events = << >> /\ t2.next_connection_id = t.next_connection_id
    BY <1>2, <1>3, <2>2 DEF Replaces, TransportOK, QuicTransport
  <2>4. Spares({n}, t, t2)
    BY <1>2, <2>2 DEF Spares, Replaces, TransportOK, QuicTransport
  <2>5. PICK E : E = Verified(c, r)
    OBVIOUS
  <2>6. /\ E \in Seq(Pushed)
        /\ E = << >> \o r.events \o (IF r.conn.peer_id # c.peer_id
                                     THEN <<Told("PeerIdentityVerified", None)>> ELSE << >>)
    <3>1. Told("PeerIdentityVerified", None) \in Pushed
      BY DEF Told, Pushed
    <3>2. Maybe(r.conn.peer_id # c.peer_id, Told("PeerIdentityVerified", None)) \in Seq(Pushed)
      BY <3>1, MaybeSeq
    <3>3. << >> \o r.events = r.events
      BY ConcatNothing
    <3>4. E \in Seq(Pushed)
      BY <2>5, <3>2, ConcatHalves DEF Verified
    <3>5. QED
      BY <2>5, <3>3, <3>4 DEF Verified, Maybe
  <2>6a. Honest(E, r.conn)
    <3>1. PICK M : M = Maybe(r.conn.peer_id # c.peer_id, Told("PeerIdentityVerified", None))
      OBVIOUS
    <3>2. M \in Seq({Told("PeerIdentityVerified", None)})
      BY <3>1, MaybeSeq
    <3>3. M \in Seq(Pushed) /\ NoConnected(M)
      BY <3>2, NoConnectedSeq DEF Told, Pushed
    <3>4. NoConnected(r.events) => NoConnected(E)
      BY <2>5, <3>1, <3>3, NoConnectedConcat DEF Verified
    <3>5. QED
      BY <3>4 DEF Honest
  <2>7. /\ transport' = [transport EXCEPT ![f] = t2]
        /\ poll' = [poll EXCEPT !.events = poll.events \o Tag(f, n, E)]
        /\ IF r.conn.state = "Closing" /\ c.state = "Connecting"
           THEN Refused(id) ELSE UNCHANGED contract
        /\ UNCHANGED <<ready, calls, faults>>
    BY <1>1, <1>7, <2>1, <2>6 DEF Received
  <2>8. PICK L : L = Tagged(id, E)
    OBVIOUS
  <2>9. /\ Tag(f, n, E) = L /\ L \in Seq(Contract!Event)
        /\ EventsOf(f, {n}, L)
    BY <1>1, <1>2, <1>3, <2>6, <2>8, TagIsTagged, TaggedEvents, IdOf DEF EventsOf
  <2>10. /\ poll.todo \in SUBSET LiveOf(t2) /\ poll.gone \in SUBSET LiveOf(t2)
    <3>1. LiveOf(t2) = LiveOf(t)
      BY <1>2, <1>3, <2>2 DEF Replaces, LiveOf, TransportOK, QuicTransport
    <3>2. QED
      BY <1>1, <1>2, <3>1 DEF Inv, PollOK
  <2>11. poll' = [poll EXCEPT !.step = "recv", !.todo = poll.todo, !.gone = poll.gone,
                              !.events = poll.events \o L]
    BY <1>5, <2>7, <2>9 DEF Polling
  <2>12. CountersOK' /\ ready' = ready
    BY <2>7 DEF Inv, TypeOK, CountersOK
  <2>13. /\ Allowed /\ stream' = stream /\ heard' = heard
         /\ conn' \in [Ids -> Contract!ConnPhases \cup {"refused"}]
         /\ ToldOfOthers(f, {n}, conn, stream, conn', stream)
         /\ TracksOne(f, n, t2, conn', stream, poll.events \o L)
    <3>1. PICK cn, st, Q, cn2 : cn = conn /\ st = stream /\ Q = poll.events /\ cn2 = conn'
      OBVIOUS
    <3>2. /\ TracksOne(f, n, t, cn, st, Q) /\ Q \in Seq(Contract!Event)
          /\ t.connections[n] # None /\ t2.connections[n] # None
          /\ Serving(t.connections[n], t2.connections[n]) /\ ~(n >= t2.next_connection_id)
      BY <1>1, <1>2, <1>3, <1>4, <1>5, <2>3, <3>1
    <3>3. CASE r.conn.state = "Closing" /\ c.state = "Connecting"
      <4>1. Impostors /\ Refused(id)
        BY <1>1, <1>2, <2>7, <3>3
      <4>2. /\ conn' = [conn EXCEPT ![id] = "refused"] /\ conn \in [Ids -> Contract!ConnPhases \cup {"refused"}]
            /\ stream' = stream /\ heard' = heard /\ Allowed /\ conn' \in [Ids -> Contract!ConnPhases \cup {"refused"}]
        BY <4>1 DEF Refused, Allowed, Inv, TypeOK
      <4>3. /\ cn2[ExternalId(f, n)] \in Excused
            /\ cn2[ExternalId(f, n)] # "gapped" /\ (cn2[ExternalId(f, n)] = "refused" => Impostors)
        <5>1. cn2[ExternalId(f, n)] = "refused"
          BY <1>1, <1>2, <1>3, <3>1, <4>2, IdOf
        <5>2. QED
          BY <4>1, <5>1 DEF Excused
      <4>4. TracksOne(f, n, t2, cn2, st, Q \o L)
        <5>1. /\ Announces(id, Q \o L) => Announces(id, Q) \/ Announces(id, L)
              /\ Announces(id, L) => ProvesPeer(r.conn)
          BY <2>6, <2>8, <2>9, <2>6a, <3>2, AnnouncesConcat, HonestAnnounces
        <5>2. Announces(ExternalId(f, n), Q \o L) =>
                Announces(ExternalId(f, n), Q) \/ ProvesPeer(t2.connections[n])
          BY <1>1, <2>3, <5>1
        <5>3. t2.pending_events = t.pending_events
          BY <1>2, <2>3
        <5>4. QED
          BY ONLY <1>2, <1>3, <1>4, <1>5, <3>2, <4>3, <5>2, <5>3, OneExcused
      <4>5. ToldOfOthers(f, {n}, conn, stream, conn', stream)
        BY <1>1, <4>2 DEF ToldOfOthers
      <4>6. QED
        BY <3>1, <4>2, <4>4, <4>5
    <3>4. CASE ~(r.conn.state = "Closing" /\ c.state = "Connecting")
      <4>1. conn' = conn /\ stream' = stream /\ heard' = heard /\ Allowed
        BY <2>7, <3>4, UnchangedAllowed
      <4>2. \A s \in Streams : Tells(ExternalId(f, n), s, t.connections[n], E, t2.connections[n])
        BY <1>1, <1>2, <1>7, <2>3, <2>5, <3>4
      <4>3. TracksOne(f, n, t2, cn2, st, Q \o Tagged(ExternalId(f, n), E))
        <5>1. cn2[ExternalId(f, n)] = cn[ExternalId(f, n)] /\ Honest(E, t2.connections[n])
          BY <2>3, <2>6a, <3>1, <4>1
        <5>2. QED
          BY ONLY <1>2, <1>3, <2>3, <2>6, <3>2, <4>2, <5>1, OneStep
      <4>4. QED
        BY <1>1, <2>8, <3>1, <4>1, <4>3 DEF ToldOfOthers, Inv, TypeOK
    <3>5. QED
      BY <3>3, <3>4
  <2>14. OwnTracked(f, {n}, t2, conn', stream, poll.events \o L)
    BY <2>13 DEF OwnTracked
  <2>15. Inv'
    <3>1. {n} \in SUBSET Local
      BY <1>3
    <3>2. QED
      BY <1>1, <1>2, <2>3, <2>4, <2>7, <2>9, <2>10, <2>11, <2>12, <2>13, <2>14, <3>1, PollGoesOn
  <2>16. QED
    BY <2>13, <2>15
<1>8. QED
  BY <1>6, <1>7

\* No stream forgotten by two steps in a row.
LEMMA ServingTransitive ==
    ASSUME NEW c, NEW c1, NEW c2, Serving(c, c1), Serving(c1, c2)
    PROVE  Serving(c, c2)
BY DEF Serving

\* recv_packet, once quiche has turned the connection into c1 without a word or
\* has completed its handshake.
LEMMA RecvFromInv ==
    ASSUME Inv, poll.step = "recv", NEW n \in LiveOf(transport[poll.family]),
           NEW c1, ConnOK(c1), Serving(At(n), c1), c1.peer_id = At(n).peer_id,
           c1.state = At(n).state, RecvFrom(n, c1),
           \/ Completes(At(n), c1)
           \/ /\ c1.established = At(n).established
              /\ ~(At(n).state = "Connecting" /\ At(n).established) =>
                   \A s \in Streams : Tells(ExternalId(poll.family, n), s, At(n), << >>, c1),
           inputs' \in 0 .. MaxInput
    PROVE  Inv' /\ Allowed
<1>1. PICK d \in Drains(c1), flushed \in BOOLEAN :
        Received(transport[poll.family], n, RecvPacket(c1, d, flushed), << >>)
  BY DEF RecvFrom
<1>2. DrainChoice(c1, d)
  BY DrainsChoose
<1>3. PICK r, c, id : r = RecvPacket(c1, d, flushed) /\ c = At(n) /\ id = ExternalId(poll.family, n)
  OBVIOUS
<1>4. /\ ConnOK(r.conn) /\ Serving(c1, r.conn) /\ r.events \in Seq(Pushed)
      /\ r.conn.peer_id # c1.peer_id => r.conn.peer_id \in Peers
      /\ ~r.ok => r.conn.peer_id = c1.peer_id
      /\ Honest(r.events, r.conn)
      /\ r.conn.state = "Closing" /\ c1.state = "Connecting" => Impostors
  BY <1>2, <1>3, RecvPacketStep
<1>5. Serving(c, r.conn)
  BY <1>3, <1>4, ServingTransitive
<1>6. ConnOK(c)
  <2>1. poll.family \in Families
    BY DEF Inv, PollOK
  <2>2. QED
    BY <1>3, <2>1 DEF Inv, TransportsOK, TransportOK, At
<1>7. ASSUME r.ok, ~(r.conn.state = "Closing" /\ c.state = "Connecting"), NEW s \in Streams
      PROVE  Tells(id, s, c, Verified(c, r), r.conn)
  <2>1. CASE Completes(c, c1)
    <3>1. r.conn.state # "Closing"
      BY <1>7, <2>1 DEF Completes
    <3>2. RecvPacket(c1, d, flushed).ok /\ RecvPacket(c1, d, flushed).conn.state # "Closing"
      BY <1>3, <1>7, <3>1
    <3>3. Tells(id, s, c, Verified(c, RecvPacket(c1, d, flushed)), RecvPacket(c1, d, flushed).conn)
      BY ONLY <1>2, <1>6, <2>1, <3>2, ConnOK(c1), flushed \in BOOLEAN, s \in Streams, HandshakeTells
    <3>4. QED
      BY <1>3, <3>3
  <2>2. CASE c.state = "Connecting" /\ c.established
    <3>1. c # None
      BY <1>6, OKIsSome
    <3>2. \A b \in Phase : ~Matches(b, c, s)
      BY <2>2, <3>1 DEF Matches
    <3>3. QED
      BY <3>2 DEF Tells
  <2>3. CASE /\ c1.established = c.established
             /\ ~(c.state = "Connecting" /\ c.established)
             /\ Tells(id, s, c, << >>, c1)
    <3>1. r = DrainSendQueue(c1, d)
      BY <1>3, <2>3 DEF RecvPacket
    <3>2. /\ Tells(id, s, c, r.events, r.conn) /\ r.conn.peer_id = c1.peer_id
      BY <1>2, <2>3, <3>1, PacketTells
    <3>3. Verified(c, r) = r.events \o << >>
      BY <1>3, <3>2 DEF Verified, Maybe
    <3>4. Verified(c, r) = r.events
      BY <1>4, <3>3, ConcatNothing
    <3>5. QED
      BY <3>2, <3>4
  <2>4. QED
    BY <1>3, <2>1, <2>2, <2>3
<1>8. Received(transport[poll.family], n, r, << >>)
  BY <1>1, <1>3
<1>9. QED
  BY <1>3, <1>4, <1>5, <1>7, <1>8, ReceivedInv

\* The connection that a datagram is for.
LEMMA ReceiverOK ==
    ASSUME Inv, NEW n \in Local, Receiver(n)
    PROVE  /\ poll.step = "recv" /\ poll.family \in Families
           /\ n \in LiveOf(transport[poll.family])
           /\ ConnOK(At(n)) /\ At(n) \in Connection /\ At(n) # None
<1>1. poll.step = "recv" /\ poll.family \in Families /\ n \in LiveOf(transport[poll.family])
  BY DEF Receiver, Inv, PollOK, Live, LiveOf
<1>2. ConnOK(At(n))
  BY <1>1 DEF Inv, TransportsOK, TransportOK, At
<1>3. QED
  BY <1>1, <1>2, OKIsSome

\* No stream forgotten by a step that leaves the streams alone.
LEMMA ServingSame ==
    ASSUME NEW c, NEW c2, c2.stream_states = c.stream_states, c2.send = c.send,
           c2.cert = c.cert, c2.expected = c.expected
    PROVE  Serving(c, c2)
BY DEF Serving, Serves

\* The count of datagrams stays within its bound.
LEMMA InputsOK ==
    ASSUME Inv
    PROVE  /\ UNCHANGED inputs => inputs' \in 0 .. MaxInput
           /\ Input => inputs' \in 0 .. MaxInput
BY QuicAssumption DEF Inv, TypeOK, Input

\* recv_packet of an acknowledgement, which may flush what waited.
LEMMA RecvAckInv ==
    ASSUME Inv, NEW n \in Local, RecvAck(n)
    PROVE  Inv' /\ Allowed
<1>1. /\ poll.step = "recv" /\ n \in LiveOf(transport[poll.family])
      /\ ConnOK(At(n)) /\ At(n) \in Connection
  BY ReceiverOK DEF RecvAck
<1>2. \A s \in Streams : Tells(ExternalId(poll.family, n), s, At(n), << >>, At(n))
  BY <1>1, SilentTells
<1>3. Serving(At(n), At(n))
  BY DEF Serving
<1>4. RecvFrom(n, At(n)) /\ inputs' \in 0 .. MaxInput
  BY InputsOK DEF RecvAck
<1>5. QED
  BY <1>1, <1>2, <1>3, <1>4, RecvFromInv

\* recv_packet of the peer's CONNECTION_CLOSE.
LEMMA RecvCloseInv ==
    ASSUME Inv, NEW n \in Local, RecvClose(n)
    PROVE  Inv' /\ Allowed
<1>1. /\ poll.step = "recv" /\ n \in LiveOf(transport[poll.family])
      /\ ConnOK(At(n)) /\ At(n) \in Connection
  BY ReceiverOK DEF RecvClose
<1>2. PICK c, c1 : c = At(n) /\ c1 = [At(n) EXCEPT !.closed = TRUE]
  OBVIOUS
<1>3. /\ c1 \in Connection /\ c1.stream_states = c.stream_states /\ c1.send = c.send
      /\ c1.recv = c.recv /\ c1.server = c.server /\ c1.state = c.state
      /\ c1.established = c.established /\ c1.peer_id = c.peer_id
      /\ c1.next_local_bidi_stream_id = c.next_local_bidi_stream_id
      /\ c1.cert = c.cert /\ c1.expected = c.expected
  BY <1>1, <1>2 DEF Connection
<1>4. \A s \in Streams : Tells(ExternalId(poll.family, n), s, c, << >>, c1)
  BY <1>1, <1>2, <1>3, SilentTells
<1>5. Serving(c, c1) /\ ConnOK(c1)
  <2>1. Genuine(c1)
    BY <1>1, <1>2, <1>3, GenuineSame DEF SamePeer, ConnOK
  <2>2. QED
    BY <1>1, <1>2, <1>3, <2>1, ServingSame, OtherFieldsKeepOK
<1>6. RecvFrom(n, c1) /\ inputs' \in 0 .. MaxInput
  BY <1>2, InputsOK DEF RecvClose
<1>7. QED
  BY <1>1, <1>2, <1>3, <1>4, <1>5, <1>6, RecvFromInv

\* recv_packet of stream data, a FIN or a RESET.
LEMMA RecvStreamInputInv ==
    ASSUME Inv, NEW n \in Local, NEW s \in Streams, NEW unit, RecvStreamInput(n, s, unit)
    PROVE  Inv' /\ Allowed
<1>1. /\ poll.step = "recv" /\ n \in LiveOf(transport[poll.family])
      /\ ConnOK(At(n)) /\ At(n) \in Connection
  BY ReceiverOK DEF RecvStreamInput
<1>2. PICK c, c1 : c = At(n) /\ c1 = StreamInput(At(n), s, unit)
  OBVIOUS
<1>3. /\ c1 = [c EXCEPT !.recv = c1.recv] /\ ConnOK(c1)
      /\ c1.state = c.state /\ c1.established = c.established /\ c1.peer_id = c.peer_id
  <2>1. c1 = [c EXCEPT !.recv = c1.recv]
    BY <1>1, <1>2, InputEffect DEF InputStream
  <2>2. QED
    BY <1>1, <1>2, <2>1, InputOK DEF Connection
<1>4. c.established /\ c.state = "Connected" /\ RemoteWrites(c, s)
  BY <1>2 DEF RecvStreamInput
<1>5. /\ \A x \in Streams : Tells(ExternalId(poll.family, n), x, c, << >>, c1)
      /\ Serving(c, c1)
  <2>1. \A x \in Streams : Tells(ExternalId(poll.family, n), x, c, << >>, c1) /\ Serving(c, c1)
    BY <1>1, <1>2, <1>4, InputTells
  <2>2. QED
    BY <2>1
<1>6. RecvFrom(n, c1) /\ inputs' \in 0 .. MaxInput
  BY <1>2, InputsOK DEF RecvStreamInput
<1>7. QED
  BY <1>1, <1>2, <1>3, <1>4, <1>5, <1>6, RecvFromInv

\* recv_packet of a datagram that quiche refuses.
LEMMA RecvRefusedInv ==
    ASSUME Inv, NEW n \in Local, RecvRefused(n)
    PROVE  Inv' /\ Allowed
<1>1. /\ poll.step = "recv" /\ n \in LiveOf(transport[poll.family])
      /\ ConnOK(At(n)) /\ At(n) \in Connection /\ At(n) # None
  BY ReceiverOK DEF RecvRefused
<1>2. PICK r, c : r = RecvError(At(n)) /\ c = At(n)
  OBVIOUS
<1>3. r.conn = c /\ r.events = <<Told("Error", None)>> /\ r.ok
  BY <1>2 DEF RecvError, Ok
<1>4. r.events \in Seq(Pushed)
  <2>1. Told("Error", None) \in Pushed
    BY DEF Told, Pushed
  <2>2. QED
    BY <1>3, <2>1
<1>5. Verified(c, r) = r.events
  <2>1. Verified(c, r) = r.events \o << >>
    BY <1>3 DEF Verified, Maybe
  <2>2. QED
    BY <1>4, <2>1, ConcatNothing
<1>6. \A s \in Streams : Tells(ExternalId(poll.family, n), s, c, Verified(c, r), r.conn)
  BY <1>1, <1>2, <1>3, <1>5, ErrorTells
<1>7. Serving(c, c)
  BY DEF Serving
<1>7a. Honest(r.events, r.conn) /\ ~(r.conn.state = "Closing" /\ c.state = "Connecting")
  <2>1. NoConnected(r.events)
    BY <1>3 DEF NoConnected, Told
  <2>2. QED
    BY <1>3, <2>1 DEF Honest
<1>8. Received(transport[poll.family], n, r, << >>) /\ inputs' \in 0 .. MaxInput
  BY <1>2, InputsOK DEF RecvRefused
<1>9. QED
  BY <1>1, <1>2, <1>3, <1>4, <1>6, <1>7, <1>7a, <1>8, ReceivedInv

\* recv_packet that finishes the handshake: the peer is verified, indexed, or
\* the connection is closed and refused.
LEMMA RecvHandshakeInv ==
    ASSUME Inv, NEW n \in Local, RecvHandshake(n)
    PROVE  Inv' /\ Allowed
<1>1. /\ poll.step = "recv" /\ n \in LiveOf(transport[poll.family])
      /\ ConnOK(At(n)) /\ At(n) \in Connection
  BY ReceiverOK DEF RecvHandshake
<1>2. PICK c, c0 : c = At(n) /\ c0 = [At(n) EXCEPT !.established = TRUE]
  OBVIOUS
<1>3. /\ c0 \in Connection /\ c0.stream_states = c.stream_states /\ c0.send = c.send
      /\ c0.recv = c.recv /\ c0.server = c.server /\ c0.state = c.state
      /\ c0.established /\ c0.peer_id = c.peer_id
      /\ c0.next_local_bidi_stream_id = c.next_local_bidi_stream_id
      /\ c0.cert = c.cert /\ c0.expected = c.expected
  BY <1>1, <1>2 DEF Connection
<1>4. c.state = "Connecting"
  BY <1>2 DEF RecvHandshake
<1>5. Completes(c, c0) /\ ConnOK(c0) /\ Serving(c, c0)
  <2>1. Genuine(c0)
    BY <1>1, <1>2, <1>3, GenuineSame DEF SamePeer, ConnOK
  <2>2. QED
    BY <1>1, <1>2, <1>3, <1>4, <2>1, ServingSame, OtherFieldsKeepOK DEF Completes
<1>6. \/ RecvFrom(n, c0) /\ UNCHANGED inputs
      \/ /\ Input
         /\ \E s \in Streams : RemoteWrites(c0, s) /\ RecvFrom(n, StreamInput(c0, s, "data"))
  BY <1>2 DEF RecvHandshake
<1>7. CASE RecvFrom(n, c0) /\ UNCHANGED inputs
  <2>1. inputs' \in 0 .. MaxInput
    BY <1>7, InputsOK
  <2>2. QED
    BY <1>1, <1>2, <1>3, <1>5, <1>7, <2>1, RecvFromInv
<1>8. CASE /\ Input
            /\ \E s \in Streams : RemoteWrites(c0, s) /\ RecvFrom(n, StreamInput(c0, s, "data"))
  <2>1. PICK s \in Streams : RemoteWrites(c0, s) /\ RecvFrom(n, StreamInput(c0, s, "data"))
    BY <1>8
  <2>2. PICK c1 : c1 = StreamInput(c0, s, "data")
    OBVIOUS
  <2>3. InputStream(c0, s, c1) /\ ConnOK(c1)
    BY <1>3, <1>5, <2>2, InputEffect, InputOK
  <2>4. c1 = [c0 EXCEPT !.recv = c1.recv] /\ \A x \in Streams : x # s => c1.recv[x] = c0.recv[x]
    BY <2>3 DEF InputStream
  <2>5. /\ c1.stream_states = c.stream_states /\ c1.send = c.send
        /\ c1.server = c.server /\ c1.state = c.state
        /\ c1.established /\ c1.peer_id = c.peer_id
        /\ c1.next_local_bidi_stream_id = c.next_local_bidi_stream_id
        /\ c1.cert = c.cert /\ c1.expected = c.expected
    BY <1>3, <2>4 DEF Connection
  <2>6. IsLocalInitiated(c, s) => c.send[s] # "unused"
    BY <1>3, <2>1 DEF RemoteWrites, IsLocalInitiated
  <2>7. Completes(c, c1) /\ Serving(c, c1)
    BY <1>3, <1>4, <2>4, <2>5, <2>6, ServingSame DEF Completes
  <2>8. inputs' \in 0 .. MaxInput /\ RecvFrom(n, c1)
    BY <1>8, <2>1, <2>2, InputsOK
  <2>9. QED
    BY <1>1, <1>2, <2>3, <2>5, <2>7, <2>8, RecvFromInv
<1>9. QED
  BY <1>6, <1>7, <1>8

\* Nothing has been told of a connection that has never been, and nothing is on
\* its way.
LEMMA OneNew ==
    ASSUME NEW f \in Families, NEW n \in Local, NEW t, NEW cn, NEW st,
           NEW Q \in Seq(Contract!Event), TracksOne(f, n, t, cn, st, Q),
           t.pending_events \in Seq(QueuedEvent), n >= t.next_connection_id, NEW s \in Streams
    PROVE  LET id == ExternalId(f, n)
               W == MapEvents(f, t.pending_events)
           IN  /\ cn[id] = "none" /\ st[id][s] = "none"
               /\ \A i \in 1 .. Len(Q) : Q[i].id # id
               /\ \A i \in 1 .. Len(W) : W[i].id # id
               /\ Path(id, s, [conn |-> "none", stream |-> "none"], Q,
                       [conn |-> "none", stream |-> "none"])
<1>1. PICK id, a, c, W, new, X :
        /\ id = ExternalId(f, n) /\ a = [conn |-> cn[id], stream |-> st[id][s]]
        /\ c = t.connections[n] /\ W = MapEvents(f, t.pending_events)
        /\ new = (n >= t.next_connection_id) /\ X = Contract!Event
  OBVIOUS
<1>2. Tracks(id, s, a, Q, W, c, new) /\ new
  BY <1>1 DEF TracksOne
<1>3. W \in Seq(X) /\ Q \in Seq(X)
  BY <1>1, MapEventsSeq
<1>4. /\ \A i \in 1 .. Len(Q) : Q[i].id # id
      /\ \A i \in 1 .. Len(W) : W[i].id # id
      /\ a = [conn |-> "none", stream |-> "none"] /\ Path(id, s, a, Q, a)
  <2>1. SilentAbout(id, Q)
    BY ONLY <1>2, <1>3, TracksNew
  <2>2. SilentAbout(id, W)
    BY ONLY <1>2, <1>3, TracksNew
  <2>3. a = [conn |-> "none", stream |-> "none"]
    <3>1. a.conn = "none" /\ a.stream = "none"
      BY ONLY <1>2, <1>3, TracksNew
    <3>2. QED
      BY <1>1, <3>1
  <2>4. Path(id, s, a, Q, a)
    BY ONLY <1>2, <1>3, TracksNew
  <2>5. QED
    BY <2>1, <2>2, <2>3, <2>4 DEF SilentAbout
<1>5. a.conn = "none" /\ a.stream = "none"
  BY <1>4
<1>6. QED
  BY <1>1, <1>4, <1>5

\* A connection that is accepted.
LEMMA OneAccept ==
    ASSUME NEW f \in Families, NEW n \in Local, NEW t, NEW cn, NEW st,
           NEW Q \in Seq(Contract!Event), TracksOne(f, n, t, cn, st, Q),
           t.pending_events = << >>, n >= t.next_connection_id,
           NEW t2, t2.connections[n] # None, t2.pending_events = << >>,
           ~(n >= t2.next_connection_id), NEW E \in Seq(Pushed), NoConnected(E),
           \A s \in Streams : \E b \in Phase :
             /\ Path(ExternalId(f, n), s, [conn |-> "none", stream |-> "none"],
                     Tagged(ExternalId(f, n), E), b)
             /\ Matches(b, t2.connections[n], s)
    PROVE  TracksOne(f, n, t2, cn, st, Q \o Tagged(ExternalId(f, n), E))
<1> SUFFICES ASSUME NEW s \in Streams
             PROVE  Tracks(ExternalId(f, n), s,
                           [conn |-> cn[ExternalId(f, n)], stream |-> st[ExternalId(f, n)][s]],
                           Q \o Tagged(ExternalId(f, n), E), MapEvents(f, t2.pending_events),
                           t2.connections[n], n >= t2.next_connection_id)
  BY DEF TracksOne
<1>1. PICK id, L, c2, X, a : /\ id = ExternalId(f, n) /\ L = Tagged(id, E) /\ c2 = t2.connections[n]
                             /\ X = Contract!Event /\ a = [conn |-> "none", stream |-> "none"]
  OBVIOUS
<1>2. << >> \in Seq(QueuedEvent)
  OBVIOUS
<1>3. cn[id] = "none" /\ st[id][s] = "none" /\ Path(id, s, a, Q, a)
  BY <1>1, <1>2, OneNew
<1>4. Q \in Seq(X) /\ L \in Seq(X)
  BY <1>1, IdOf, TaggedEvents
<1>5. PICK b \in Phase : Path(id, s, a, L, b) /\ Matches(b, c2, s)
  BY <1>1
<1>6. Path(id, s, a, Q \o L, b)
  BY <1>3, <1>4, <1>5, PathConcat
<1>7. Path(id, s, b, << >>, b)
  BY <1>5, PathEmpty
<1>8. MapEvents(f, t2.pending_events) = << >>
  BY MapNothing
<1>9. a.conn = "none"
  BY <1>1
<1>10. Tracks(id, s, a, Q \o L, << >>, c2, n >= t2.next_connection_id)
  <2>1. ~Announces(id, Q) /\ ~Announces(id, << >>)
    BY <1>1, <1>2, OneNew, NotAnnounced
  <2>2. Announces(id, L) => ProvesPeer(c2)
    BY <1>1, HonestAnnounces DEF Honest
  <2>3. Announces(id, Q \o L) => Announces(id, Q) \/ Announces(id, L)
    BY <1>4, AnnouncesConcat
  <2>4. Attested(id, a, Q \o L, << >>, c2)
    BY <1>9, <2>1, <2>2, <2>3 DEF Attested
  <2>5. a.conn \notin Excused
    BY <1>9 DEF Excused, Contract!Gaps
  <2>6. QED
    BY <1>1, <1>5, <1>6, <1>7, <2>4, <2>5 DEF Tracks
<1>11. a = [conn |-> cn[id], stream |-> st[id][s]]
  BY <1>1, <1>3
<1>12. QED
  BY <1>1, <1>8, <1>10, <1>11

\* The id that is allocated next.
LEMMA Allocated ==
    ASSUME NEW t, TransportOK(t), NEW n \in Local, n = t.next_connection_id, NEW t2,
           t2.connections = [t.connections EXCEPT ![n] = t2.connections[n]],
           t2.next_connection_id = n + 1
    PROVE  Spares({n}, t, t2) /\ n >= t.next_connection_id /\ ~(n >= t2.next_connection_id)
<1>1. n \in Nat /\ \A m \in Local : m \in Nat
  BY QuicAssumption DEF Local
<1>2. \A m \in Local : m # n => (m >= n + 1) = (m >= n)
  BY <1>1
<1>3. \A m \in Local : m # n => t2.connections[m] = t.connections[m]
  BY DEF TransportOK, QuicTransport
<1>4. n >= t.next_connection_id /\ ~(n >= t2.next_connection_id)
  BY <1>1
<1>5. QED
  BY <1>2, <1>3, <1>4 DEF Spares

\* accept of a first packet: IncomingConnection under a fresh id.
LEMMA AcceptInv ==
    ASSUME Inv, AcceptConnection
    PROVE  Inv' /\ Allowed
<1>1. PICK f, t : f = poll.family /\ t = transport[f]
  OBVIOUS
<1>2. /\ f \in Families /\ TransportOK(t) /\ t.pending_events = << >> /\ poll.step = "recv"
      /\ poll.step # "idle" /\ inputs' \in 0 .. MaxInput
  BY <1>1, InputsOK DEF AcceptConnection, Inv, PollOK, TransportsOK
<1>3. PICK n \in Local, cert \in Certificates(None) :
        /\ n = t.next_connection_id
        /\ LET c == New(TRUE, None, cert)
               First(r) == Received(Insert(t, n, c), n, r, <<Told("IncomingConnection", None)>>)
           IN  First(RecvError(c)) \/ \E d \in Drains(c) : First(DrainSendQueue(c, d))
  BY <1>1 DEF AcceptConnection, Allocates
<1>4. PICK c : c = New(TRUE, None, cert)
  OBVIOUS
<1>4a. PICK r : FirstPacket(c, r) /\ Received(Insert(t, n, c), n, r, <<Told("IncomingConnection", None)>>)
  BY <1>3, <1>4 DEF FirstPacket
<1>5. PICK id : id = ExternalId(f, n)
  OBVIOUS
<1>6. PICK E : E = <<Told("IncomingConnection", None)>> \o r.events
  OBVIOUS
<1>7. /\ ConnOK(c) /\ ConnOK(r.conn) /\ E \in Seq(Pushed) /\ r.ok \in BOOLEAN /\ NoConnected(E)
      /\ r.conn.peer_id = None /\ r.conn.state = "Connecting"
      /\ \A s \in Streams : \E b \in Phase :
            /\ Path(id, s, [conn |-> "none", stream |-> "none"], Tagged(id, E), b)
            /\ Matches(b, r.conn, s)
  <2>1. \A s \in Streams :
          /\ ConnOK(c) /\ ConnOK(r.conn) /\ E \in Seq(Pushed) /\ r.ok \in BOOLEAN /\ NoConnected(E)
          /\ r.conn.peer_id = None /\ r.conn.state = "Connecting"
          /\ \E b \in Phase : /\ Path(id, s, [conn |-> "none", stream |-> "none"], Tagged(id, E), b)
                              /\ Matches(b, r.conn, s)
    BY <1>4, <1>4a, <1>5, <1>6, AcceptTells
  <2>2. QED
    BY <2>1, QuicConnectionAssumption
<1>8. c.peer_id = None /\ r.conn # None
  BY <1>4, <1>7, OKIsSome DEF New
<1>9. PICK t1 : t1 = Insert(t, n, c)
  OBVIOUS
<1>10. Inserts(t, n, c, t1)
  BY <1>2, <1>3, <1>7, <1>8, <1>9, InsertOK
<1>11. t1.connections[n] = c /\ n \in LiveOf(t1) /\ TransportOK(t1)
  BY <1>2, <1>7, <1>10, OKIsSome DEF Inserts, LiveOf, TransportOK, QuicTransport
<1>12. PICK t2 : t2 = [t1 EXCEPT !.connections[n] = r.conn]
  OBVIOUS
<1>13. Replaces(t1, n, r.conn, t2)
  BY <1>7, <1>8, <1>11, <1>12, ReplaceOK
<1>14. /\ TransportOK(t2) /\ t2.connections = [t.connections EXCEPT ![n] = r.conn]
       /\ t2.connections[n] = r.conn /\ t2.next_connection_id = n + 1
       /\ t2.pending_events = << >>
  BY <1>2, <1>10, <1>13 DEF Replaces, Inserts, TransportOK, QuicTransport
<1>15. Spares({n}, t, t2) /\ n >= t.next_connection_id /\ ~(n >= t2.next_connection_id)
  BY <1>2, <1>3, <1>14, Allocated
<1>16. /\ TracksOne(f, n, t, conn, stream, poll.events)
       /\ poll \in Polling /\ poll.events \in Seq(Contract!Event) /\ {n} \in SUBSET Local
       /\ t.pending_events \in Seq(QueuedEvent)
  BY <1>1, <1>2 DEF Inv, Tracked, AllTracked, Coming, TypeOK, Polling, TransportOK, QuicTransport
<1>17. CASE ~r.ok
  <2>1. transport' = [transport EXCEPT ![f] = t2] /\ PollFails({id})
    BY <1>1, <1>4a, <1>5, <1>9, <1>12, <1>17 DEF Received
  <2>2. conn[id] = "none" /\ \A s \in Streams : stream[id][s] = "none"
    <3>1. PICK cn, st, Q : cn = conn /\ st = stream /\ Q = poll.events
      OBVIOUS
    <3>2. TracksOne(f, n, t, cn, st, Q) /\ Q \in Seq(Contract!Event)
      BY <1>16, <3>1
    <3>3. \A s \in Streams : cn[ExternalId(f, n)] = "none" /\ st[ExternalId(f, n)][s] = "none"
      BY ONLY <1>2, <1>15, <1>16, <3>2, n \in Local, OneNew
    <3>4. QED
      BY <1>5, <3>1, <3>3, QuicConnectionAssumption
  <2>3. conn'[id] = Contract!Gap(conn[id]) => OwnTracked(f, {n}, t2, conn', stream, << >>)
    <3>1. SUFFICES ASSUME conn'[id] = Contract!Gap(conn[id]), NEW s \in Streams
                   PROVE  Tracks(id, s, [conn |-> conn'[id], stream |-> stream[id][s]], << >>,
                                 MapEvents(f, t2.pending_events), t2.connections[n],
                                 n >= t2.next_connection_id)
      BY <1>5 DEF OwnTracked, TracksOne
    <3>2. PICK a : a = [conn |-> conn'[id], stream |-> stream[id][s]]
      OBVIOUS
    <3>3. a.conn = "unconnected" /\ a.stream = "none" /\ a.conn \in Excused
      BY <2>2, <3>1, <3>2 DEF Excused, Contract!Gap, Contract!Gaps
    <3>4. MapEvents(f, t2.pending_events) = << >>
      BY <1>14, MapNothing
    <3>5. Attested(id, a, << >>, << >>, t2.connections[n])
      BY <3>3, NotAnnounced DEF Attested
    <3>6. QED
      BY <1>15, <3>2, <3>3, <3>4, <3>5 DEF Tracks
  <2>4. PollFails({ExternalId(poll.family, m) : m \in {n}})
    <3>1. {ExternalId(poll.family, m) : m \in {n}} = {id}
      BY <1>1, <1>5
    <3>2. QED
      BY <2>1, <3>1
  <2>5. /\ transport' = [transport EXCEPT ![poll.family] = t2]
        /\ t2.pending_events = transport[poll.family].pending_events
        /\ Spares({n}, transport[poll.family], t2)
        /\ (\A m \in {n} : conn'[ExternalId(poll.family, m)]
                           = Contract!Gap(conn[ExternalId(poll.family, m)])) =>
             OwnTracked(poll.family, {n}, t2, conn', stream, << >>)
    BY <1>1, <1>2, <1>5, <1>14, <1>15, <2>1, <2>3
  <2>6. QED
    BY <1>2, <1>14, <1>16, <2>4, <2>5, PollFailsInv
<1>18. CASE r.ok
  <2>1. Reindex(t2, c.peer_id, n) = t2 /\ r.conn.peer_id = t1.connections[n].peer_id
    BY <1>7, <1>8, <1>11, <1>14 DEF Reindex
  <2>2. <<Told("IncomingConnection", None)>> \o r.events \o << >> = E
    BY <1>6, <1>7, ConcatNothing
  <2>3. /\ transport' = [transport EXCEPT ![f] = t2]
        /\ poll' = [poll EXCEPT !.events = poll.events \o Tag(f, n, E)]
        /\ UNCHANGED contract
        /\ UNCHANGED <<ready, calls, faults>>
    <3>1. ~(r.conn.state = "Closing")
      BY <1>7
    <3>2. Received(t1, n, r, <<Told("IncomingConnection", None)>>)
      BY <1>4a, <1>9
    <3>3. Reindex([t1 EXCEPT !.connections[n] = r.conn], t1.connections[n].peer_id, n) = t2
      BY <1>11, <1>12, <2>1
    <3>4. r.conn.peer_id = t1.connections[n].peer_id
      BY <2>1
    <3>5. PICK before : before = <<Told("IncomingConnection", None)>>
      OBVIOUS
    <3>6. before \o r.events \o << >> = E /\ Received(t1, n, r, before)
      BY <2>2, <3>2, <3>5
    <3>7. QED
      BY <1>1, <1>18, <3>1, <3>3, <3>4, <3>6 DEF Received
  <2>4. PICK L : L = Tagged(id, E)
    OBVIOUS
  <2>5. Tag(f, n, E) = L /\ L \in Seq(Contract!Event) /\ EventsOf(f, {n}, L)
    BY <1>2, <1>5, <1>7, <2>4, TagIsTagged, TaggedEvents, IdOf DEF EventsOf
  <2>6. poll.todo \in SUBSET LiveOf(t2) /\ poll.gone \in SUBSET LiveOf(t2)
    <3>1. LiveOf(t) \subseteq LiveOf(t2)
      BY <1>2, <1>8, <1>14 DEF LiveOf, TransportOK, QuicTransport
    <3>2. QED
      BY <1>1, <1>2, <3>1 DEF Inv, PollOK
  <2>7. poll' = [poll EXCEPT !.step = "recv", !.todo = poll.todo, !.gone = poll.gone,
                             !.events = poll.events \o L]
    BY <1>2, <1>16, <2>3, <2>5 DEF Polling
  <2>8. CountersOK' /\ ready' = ready
    BY <1>2, <2>3 DEF Inv, TypeOK, CountersOK
  <2>9. conn' = conn /\ stream' = stream /\ heard' = heard /\ Allowed
    BY <2>3, UnchangedAllowed
  <2>10. conn' \in [Ids -> Contract!ConnPhases \cup {"refused"}] /\ ToldOfOthers(f, {n}, conn, stream, conn', stream)
    BY <2>9 DEF Inv, TypeOK, ToldOfOthers
  <2>11. OwnTracked(f, {n}, t2, conn', stream, poll.events \o L)
    <3>1. PICK cn, st, Q : cn = conn /\ st = stream /\ Q = poll.events
      OBVIOUS
    <3>2. TracksOne(f, n, t, cn, st, Q) /\ Q \in Seq(Contract!Event)
      BY <1>16, <3>1
    <3>3. /\ t2.connections[n] # None
          /\ \A s \in Streams : \E b \in Phase :
               /\ Path(ExternalId(f, n), s, [conn |-> "none", stream |-> "none"],
                       Tagged(ExternalId(f, n), E), b)
               /\ Matches(b, t2.connections[n], s)
      BY <1>5, <1>7, <1>8, <1>14
    <3>4. TracksOne(f, n, t2, cn, st, Q \o Tagged(ExternalId(f, n), E))
      BY ONLY <1>2, <1>7, <1>14, <1>15, <3>2, <3>3, n \in Local, OneAccept
    <3>5. QED
      BY <1>5, <2>4, <2>9, <3>1, <3>4 DEF OwnTracked
  <2>12. Inv'
    BY <1>1, <1>2, <1>14, <1>15, <1>16, <2>3, <2>5, <2>6, <2>7, <2>8, <2>9, <2>10, <2>11, PollGoesOn
  <2>13. QED
    BY <2>9, <2>12
<1>19. QED
  BY <1>7, <1>17, <1>18

\* poll_streams leaves the peer of the connection alone.
LEMMA PollKeepsPeer ==
    ASSUME NEW c, ConnOK(c), NEW d, DrainChoice(ReadStreams(c).conn, d)
    PROVE  PollStreams(c, d).conn.peer_id = c.peer_id /\ PollStreams(c, d).ok \in BOOLEAN
<1>1. c \in Connection
  BY DEF ConnOK
<1>2. PICK c1 : c1 = ReadStreams(c).conn
  OBVIOUS
<1>3. c1 \in Connection /\ c1 = [c EXCEPT !.stream_states = c1.stream_states, !.recv = c1.recv]
  BY <1>1, <1>2, ReadEffect DEF ReadAll
<1>4. c1.peer_id = c.peer_id
  BY <1>1, <1>3 DEF Connection
<1>5. PICK r : r = DrainSendQueue(c1, d)
  OBVIOUS
<1>6. r.conn \in Connection /\ r.conn.peer_id = c1.peer_id
  BY <1>2, <1>3, <1>5, DrainConn DEF Drained
<1>7. PICK c2 : c2 = GcClosedStreams(r.conn)
  OBVIOUS
<1>8. c2 = [r.conn EXCEPT !.stream_states = c2.stream_states]
  BY <1>6, <1>7, GcEffect
<1>9. c2.peer_id = r.conn.peer_id
  BY <1>6, <1>8 DEF Connection
<1>10. \/ PollStreams(c, d).conn = c /\ PollStreams(c, d).ok = TRUE
       \/ PollStreams(c, d).conn = c2 /\ PollStreams(c, d).ok = TRUE
       \/ PollStreams(c, d).conn = r.conn /\ PollStreams(c, d).ok = FALSE
  BY <1>2, <1>5, <1>7 DEF PollStreams, Ok, Err
<1>11. QED
  BY <1>4, <1>6, <1>9, <1>10

\* poll(): the turn of one connection in the loop over the streams.
LEMMA PollConnectionInv ==
    ASSUME Inv, NEW n \in Local, PollConnection(n)
    PROVE  Inv' /\ Allowed
<1>1. PICK f, t, c, id :
        f = poll.family /\ t = transport[f] /\ c = t.connections[n] /\ id = ExternalId(f, n)
  OBVIOUS
<1>2. /\ f \in Families /\ TransportOK(t) /\ t.pending_events = << >> /\ At(n) = c
      /\ poll.step # "idle" /\ poll.step = "streams" /\ inputs' \in 0 .. MaxInput
      /\ n \in LiveOf(t)
  BY <1>1, InputsOK DEF PollConnection, Inv, PollOK, TransportsOK, At
<1>3. c # None /\ ConnOK(c)
  BY <1>1, <1>2 DEF LiveOf, TransportOK
<1>4. PICK d \in Drains(ReadStreams(c).conn) :
        LET r == PollStreams(c, d)
        IN  /\ transport' = [transport EXCEPT ![f].connections[n] = r.conn]
            /\ \/ /\ r.ok
                  /\ poll' = [poll EXCEPT !.todo = @ \ {n},
                                          !.gone = IF c.closed THEN @ \cup {n} ELSE @,
                                          !.events = @ \o Tag(f, n, r.events)]
                  /\ UNCHANGED <<ready, contract, calls, faults>>
               \/ /\ ~r.ok
                  /\ PollFails({id})
  BY <1>1, <1>2 DEF PollConnection
<1>5. DrainChoice(ReadStreams(c).conn, d)
  BY DrainsChoose
<1>6. PICK r : r = PollStreams(c, d)
  OBVIOUS
<1>7. /\ ConnOK(r.conn) /\ r.events \in Seq(Pushed) /\ Serving(c, r.conn)
      /\ r.conn.peer_id = c.peer_id /\ r.ok \in BOOLEAN /\ NoConnected(r.events)
      /\ \A s \in Streams : Tells(id, s, c, r.events, r.conn)
  <2>1. \A s \in Streams : /\ ConnOK(r.conn) /\ r.events \in Seq(Pushed) /\ Serving(c, r.conn)
                           /\ Tells(id, s, c, r.events, r.conn) /\ NoConnected(r.events)
    BY <1>3, <1>5, <1>6, PollStreamsStep
  <2>2. QED
    BY <1>3, <1>5, <1>6, <2>1, PollKeepsPeer, QuicConnectionAssumption
<1>8. PICK t2 : t2 = [t EXCEPT !.connections[n] = r.conn]
  OBVIOUS
<1>9. Replaces(t, n, r.conn, t2)
  BY <1>1, <1>2, <1>7, <1>8, ReplaceOK
<1>10. /\ TransportOK(t2) /\ t2.connections[n] = r.conn /\ r.conn # None
       /\ t2.pending_events = << >> /\ t2.next_connection_id = t.next_connection_id
  BY <1>2, <1>7, <1>9, OKIsSome DEF Replaces, TransportOK, QuicTransport
<1>11. Spares({n}, t, t2) /\ LiveOf(t2) = LiveOf(t)
  BY <1>2, <1>9, <1>10 DEF Spares, Replaces, TransportOK, QuicTransport, LiveOf
<1>12. transport' = [transport EXCEPT ![f] = t2]
  BY <1>1, <1>2, <1>4, <1>6, <1>8 DEF Inv, TypeOK
<1>13. /\ TracksOne(f, n, t, conn, stream, poll.events)
       /\ poll \in Polling /\ poll.events \in Seq(Contract!Event) /\ {n} \in SUBSET Local
       /\ t.pending_events \in Seq(QueuedEvent)
  BY <1>1, <1>2 DEF Inv, Tracked, AllTracked, Coming, TypeOK, Polling, TransportOK, QuicTransport
<1>14. ~(n >= t.next_connection_id)
  BY <1>1, <1>2, <1>3 DEF TransportOK
<1>15. PICK cn, st, Q : cn = conn /\ st = stream /\ Q = poll.events
  OBVIOUS
<1>16. /\ TracksOne(f, n, t, cn, st, Q) /\ Q \in Seq(Contract!Event)
       /\ t.connections[n] # None /\ t2.connections[n] # None
       /\ Serving(t.connections[n], t2.connections[n]) /\ ~(n >= t2.next_connection_id)
  BY <1>1, <1>3, <1>7, <1>10, <1>13, <1>14, <1>15
<1>17. CASE ~r.ok
  <2>1. PollFails({id})
    BY <1>4, <1>6, <1>17
  <2>2. conn'[id] = Contract!Gap(conn[id]) => OwnTracked(f, {n}, t2, conn', stream, << >>)
    <3>1. SUFFICES ASSUME conn'[id] = Contract!Gap(conn[id]) PROVE TracksOne(f, n, t2, conn', stream, << >>)
      BY DEF OwnTracked
    <3>2. PICK cn2 : cn2 = conn'
      OBVIOUS
    <3>3. /\ cn2[ExternalId(f, n)] = Contract!Gap(cn[ExternalId(f, n)])
          /\ t2.pending_events = t.pending_events
      BY <1>1, <1>2, <1>10, <1>15, <3>1, <3>2
    <3>4. TracksOne(f, n, t2, cn2, st, << >>)
      BY ONLY <1>2, <1>13, <1>14, <1>16, <3>3, n \in Local, OneGapped
    <3>5. QED
      BY <1>15, <3>2, <3>4
  <2>3. PollFails({ExternalId(poll.family, m) : m \in {n}})
    <3>1. {ExternalId(poll.family, m) : m \in {n}} = {id}
      BY <1>1
    <3>2. QED
      BY <2>1, <3>1
  <2>4. /\ transport' = [transport EXCEPT ![poll.family] = t2]
        /\ t2.pending_events = transport[poll.family].pending_events
        /\ Spares({n}, transport[poll.family], t2)
        /\ (\A m \in {n} : conn'[ExternalId(poll.family, m)]
                           = Contract!Gap(conn[ExternalId(poll.family, m)])) =>
             OwnTracked(poll.family, {n}, t2, conn', stream, << >>)
    BY <1>1, <1>2, <1>10, <1>11, <1>12, <2>2
  <2>5. QED
    BY <1>2, <1>10, <1>13, <2>3, <2>4, PollFailsInv
<1>18. CASE r.ok
  <2>1. PICK L, todo, gone : /\ L = Tagged(id, r.events) /\ todo = poll.todo \ {n}
                             /\ gone = IF c.closed THEN poll.gone \cup {n} ELSE poll.gone
    OBVIOUS
  <2>2. Tag(f, n, r.events) = L /\ L \in Seq(Contract!Event) /\ EventsOf(f, {n}, L)
    BY <1>1, <1>2, <1>7, <2>1, TagIsTagged, TaggedEvents, IdOf DEF EventsOf
  <2>3. /\ poll' = [poll EXCEPT !.todo = poll.todo \ {n},
                                !.gone = IF c.closed THEN poll.gone \cup {n} ELSE poll.gone,
                                !.events = poll.events \o Tag(f, n, r.events)]
        /\ UNCHANGED <<ready, contract, calls, faults>>
    BY <1>4, <1>6, <1>18
  <2>4. todo \in SUBSET LiveOf(t2) /\ gone \in SUBSET LiveOf(t2)
    BY <1>1, <1>2, <1>11, <2>1 DEF Inv, PollOK
  <2>5. poll' = [poll EXCEPT !.step = "streams", !.todo = todo, !.gone = gone,
                             !.events = poll.events \o L]
    BY <1>2, <1>13, <2>1, <2>2, <2>3 DEF Polling
  <2>6. CountersOK' /\ ready' = ready
    BY <1>2, <2>3 DEF Inv, TypeOK, CountersOK
  <2>7. conn' = conn /\ stream' = stream /\ heard' = heard /\ Allowed
    BY <2>3, UnchangedAllowed
  <2>8. conn' \in [Ids -> Contract!ConnPhases \cup {"refused"}] /\ ToldOfOthers(f, {n}, conn, stream, conn', stream)
    BY <2>7 DEF Inv, TypeOK, ToldOfOthers
  <2>9. OwnTracked(f, {n}, t2, conn', stream, poll.events \o L)
    <3>1. \A s \in Streams : Tells(ExternalId(f, n), s, t.connections[n], r.events, t2.connections[n])
      BY <1>1, <1>7, <1>10
    <3>2. PICK cn2 : cn2 = conn'
      OBVIOUS
    <3>3. cn2[ExternalId(f, n)] = cn[ExternalId(f, n)] /\ Honest(r.events, t2.connections[n])
      BY <1>7, <1>15, <2>7, <3>2 DEF Honest
    <3>4. TracksOne(f, n, t2, cn2, st, Q \o Tagged(ExternalId(f, n), r.events))
      BY ONLY <1>2, <1>7, <1>10, <1>16, <3>1, <3>3, n \in Local, OneStep
    <3>5. QED
      BY <1>1, <1>15, <2>1, <3>2, <3>4 DEF OwnTracked
  <2>10. Inv'
    BY <1>1, <1>2, <1>10, <1>11, <1>12, <1>13, <2>2, <2>4, <2>5, <2>6, <2>7, <2>8, <2>9, PollGoesOn
  <2>11. QED
    BY <2>7, <2>10
<1>19. QED
  BY <1>7, <1>17, <1>18

\* poll() turns to family f, with the events Q before it.
LEMMA EnterInv ==
    ASSUME Inv, NEW f \in Families, NEW tr \in [Families -> QuicTransport],
           \A g \in Families : TransportOK(tr[g]), NEW Q \in Seq(Contract!Event),
           AllTracked(tr, conn, stream, Q),
           transport' = [tr EXCEPT ![f].pending_events = << >>],
           poll' = [step |-> "recv", family |-> f, todo |-> {}, gone |-> {},
                    events |-> Q \o MapEvents(f, tr[f].pending_events)],
           ready = << >>, ready' = ready, conn' = conn, stream' = stream, heard' = heard, CountersOK'
    PROVE  Inv'
<1>1. tr[f] \in QuicTransport /\ tr[f].pending_events \in Seq(QueuedEvent) /\ TransportOK(tr[f])
  BY DEF QuicTransport
<1>2. PICK t2 : t2 = [tr[f] EXCEPT !.pending_events = << >>]
  OBVIOUS
<1>3. /\ t2 \in QuicTransport /\ t2.connections = tr[f].connections
      /\ t2.cid_to_connection = tr[f].cid_to_connection
      /\ t2.peer_connections = tr[f].peer_connections
      /\ t2.next_connection_id = tr[f].next_connection_id /\ t2.pending_events = << >>
  <2>1. << >> \in Seq(QueuedEvent)
    OBVIOUS
  <2>2. QED
    BY <1>1, <1>2, <2>1 DEF QuicTransport
<1>4. TransportOK(t2)
  <2>1. t2.next_connection_id >= tr[f].next_connection_id
    BY <1>1, <1>3, QuicAssumption DEF QuicTransport
  <2>2. QED
    BY <1>1, <1>3, <2>1, OtherOK
<1>5. transport' = [tr EXCEPT ![f] = t2]
  BY <1>2
<1>6. transport' \in [Families -> QuicTransport] /\ transport'[f] = t2 /\ TransportsOK'
  BY <1>3, <1>4, <1>5 DEF TransportsOK
<1>7. PICK W : W = MapEvents(f, tr[f].pending_events)
  OBVIOUS
<1>8. W \in Seq(Contract!Event)
  BY <1>1, <1>7, MapEventsSeq
<1>9. Q \o W \in Seq(Contract!Event)
  BY ONLY <1>8, Q \in Seq(Contract!Event), ConcatHalves
<1>10. /\ poll'.step = "recv" /\ poll'.family = f /\ poll'.todo = {} /\ poll'.gone = {}
       /\ poll'.events = Q \o W
  BY <1>7
<1>11. poll' \in Polling
  <2>1. f \in {"Ipv4", "Ipv6"}
    BY QuicAssumption
  <2>2. QED
    BY <1>7, <1>9, <2>1 DEF Polling
<1>12. TypeOK'
  BY <1>6, <1>11 DEF Inv, TypeOK, CountersOK
<1>13. PollOK'
  BY <1>3, <1>6, <1>10 DEF PollOK
<1>14. Tracked'
  <2>1. AllTracked(transport', conn, stream, Q \o W)
    <3>1. PICK cn, st : cn = conn /\ st = stream
      OBVIOUS
    <3>2. AllTracked(tr, cn, st, Q)
      BY <3>1
    <3>3. AllTracked([tr EXCEPT ![f].pending_events = << >>], cn, st, Q \o MapEvents(f, tr[f].pending_events))
      BY ONLY <3>2, f \in Families, tr \in [Families -> QuicTransport], Q \in Seq(Contract!Event), Transferred
    <3>4. QED
      BY <1>7, <3>1, <3>3
  <2>2. Coming' = Q \o W
    BY <1>10 DEF Coming
  <2>3. QED
    BY <2>1, <2>2 DEF Tracked
<1>15. QED
  BY <1>6, <1>12, <1>13, <1>14 DEF Inv

\* poll() takes the events that calls have queued, in front of all others.
LEMMA BeginPollInv ==
    ASSUME Inv, BeginPoll
    PROVE  Inv' /\ Allowed
<1>1. PICK f : f = IF "Ipv4" \in Families THEN "Ipv4" ELSE "Ipv6"
  OBVIOUS
<1>2. f \in Families
  BY <1>1, QuicAssumption
<1>3. conn' = conn /\ stream' = stream /\ heard' = heard /\ Allowed
  BY UnchangedAllowed DEF BeginPoll
<1>4. /\ ready = << >> /\ ready' = ready /\ poll.step = "idle"
      /\ transport' = [transport EXCEPT ![f].pending_events = << >>]
      /\ poll' = [step |-> "recv", family |-> f, todo |-> {}, gone |-> {},
                  events |-> << >> \o MapEvents(f, transport[f].pending_events)]
  BY <1>1 DEF BeginPoll, Calling, EnterFamily
<1>5. CountersOK' /\ transport \in [Families -> QuicTransport]
  BY DEF BeginPoll, Inv, TypeOK, CountersOK
<1>6. \A g \in Families : TransportOK(transport[g])
  BY DEF Inv, TransportsOK
<1>7. AllTracked(transport, conn, stream, << >>)
  BY <1>4 DEF Inv, Tracked, Coming
<1>8. << >> \in Seq(Contract!Event)
  OBVIOUS
<1>9. QED
  BY <1>2, <1>3, <1>4, <1>5, <1>6, <1>7, <1>8, EnterInv

\* The events that tell the end of connections.
ClosedEvents(f, gone) ==
    [i \in DOMAIN SetToSeq(gone) |->
       [kind |-> "Closed", id |-> ExternalId(f, SetToSeq(gone)[i]), stream |-> None]]

\* There is one for each.
LEMMA ClosedEventsSeq ==
    ASSUME NEW f \in Families, NEW gone \in SUBSET Local
    PROVE  LET E == ClosedEvents(f, gone)
           IN  /\ E \in Seq(Contract!Event) /\ EventsOf(f, gone, E)
               /\ \A n \in gone : \E k \in 1 .. Len(E) :
                    /\ E[k].kind = "Closed" /\ E[k].id = ExternalId(f, n)
                    /\ \A i \in 1 .. Len(E) : i # k => E[i].id # ExternalId(f, n)
<1>1. IsFiniteSet(gone)
  <2>1. IsFiniteSet(Local)
    BY FS_Interval, QuicAssumption DEF Local
  <2>2. QED
    BY <2>1, FS_Subset
<1>2. PICK S : S = SetToSeq(gone)
  OBVIOUS
<1>3. /\ S \in Seq(gone)
      /\ \A x \in gone : \E i \in DOMAIN S : S[i] = x
      /\ \A i, j \in DOMAIN S : S[i] = S[j] => i = j
  BY <1>1, <1>2, SetToSeqLists
<1>4. Len(S) \in Nat /\ DOMAIN S = 1 .. Len(S) /\ \A i \in 1 .. Len(S) : S[i] \in gone
  BY <1>3
<1>5. PICK E : E = ClosedEvents(f, gone)
  OBVIOUS
<1>6. E = [i \in 1 .. Len(S) |-> [kind |-> "Closed", id |-> ExternalId(f, S[i]), stream |-> None]]
  BY <1>2, <1>4, <1>5 DEF ClosedEvents
<1>7. \A i \in 1 .. Len(S) :
        [kind |-> "Closed", id |-> ExternalId(f, S[i]), stream |-> None] \in Contract!Event
  <2>1. \A i \in 1 .. Len(S) : ExternalId(f, S[i]) \in Ids
    BY <1>4, IdOf
  <2>2. QED
    BY <2>1 DEF Contract!Event, Contract!ConnEvents
<1>8. E \in [1 .. Len(S) -> Contract!Event]
  BY <1>6, <1>7
<1>9. E \in Seq(Contract!Event) /\ Len(E) = Len(S)
  BY <1>4, <1>8
<1>10. \A i \in 1 .. Len(S) : E[i].kind = "Closed" /\ E[i].id = ExternalId(f, S[i])
  BY <1>6
<1>11. EventsOf(f, gone, E)
  BY <1>4, <1>9, <1>10 DEF EventsOf
<1>12. ASSUME NEW n \in gone
       PROVE  \E k \in 1 .. Len(E) : /\ E[k].kind = "Closed" /\ E[k].id = ExternalId(f, n)
                                     /\ \A i \in 1 .. Len(E) : i # k => E[i].id # ExternalId(f, n)
  <2>1. PICK k \in 1 .. Len(S) : S[k] = n
    BY <1>3, <1>4
  <2>2. \A i \in 1 .. Len(S) : i # k => S[i] # n /\ S[i] \in Local /\ n \in Local
    BY <1>3, <1>4, <2>1
  <2>3. \A i \in 1 .. Len(S) : i # k => ExternalId(f, S[i]) # ExternalId(f, n)
    BY <2>2, IdsDiffer
  <2>4. QED
    BY <1>9, <1>10, <2>1, <2>3
<1>13. QED
  BY <1>5, <1>9, <1>11, <1>12

\* Connections are told to be closed and go.
LEMMA ClosedTracked ==
    ASSUME NEW f \in Families, NEW tr \in [Families -> QuicTransport], TransportOK(tr[f]),
           tr[f].pending_events = << >>, NEW gone \in SUBSET LiveOf(tr[f]),
           NEW Q \in Seq(Contract!Event), NEW cn, NEW st, AllTracked(tr, cn, st, Q)
    PROVE  AllTracked([tr EXCEPT ![f] = RemoveClosed(tr[f], gone)], cn, st, Q \o ClosedEvents(f, gone))
<1>1. PICK t, t2, E : t = tr[f] /\ t2 = RemoveClosed(t, gone) /\ E = ClosedEvents(f, gone)
  OBVIOUS
<1>2. gone \in SUBSET Local
  BY DEF LiveOf
<1>3. /\ TransportOK(t2) /\ t2 \in QuicTransport
      /\ t2.connections = [n \in Local |-> IF n \in gone THEN None ELSE t.connections[n]]
      /\ t2.pending_events = << >> /\ t2.next_connection_id = t.next_connection_id
  BY <1>1, RemoveOK DEF TransportOK
<1>4. Spares(gone, tr[f], t2)
  BY <1>1, <1>3 DEF Spares
<1>5. E \in Seq(Contract!Event) /\ EventsOf(f, gone, E)
  BY <1>1, <1>2, ClosedEventsSeq
<1>6. PICK z \in Seq(Contract!Event) : Len(z) = 0 /\ z = << >>
  BY NoEvents, Zenon
<1>7. MapEvents(f, t2.pending_events) = z /\ MapEvents(f, tr[f].pending_events) = z /\ z \o z = z
  BY <1>3, <1>6, MapNothing, ConcatNothing
<1>8. EventsOf(f, gone, z) /\ MapEvents(f, t2.pending_events) = MapEvents(f, tr[f].pending_events) \o z
  BY <1>6, <1>7 DEF EventsOf
<1>9. PICK cn2, st2 : cn2 = cn /\ st2 = st
  OBVIOUS
<1>10. ToldOfOthers(f, gone, cn, st, cn2, st2)
  BY <1>9 DEF ToldOfOthers
<1>11. ASSUME NEW n \in gone PROVE TracksOne(f, n, t2, cn, st, Q \o E)
  <2>1. n \in Local /\ t.connections[n] # None /\ t2.connections[n] = None
    BY <1>1, <1>2, <1>3 DEF LiveOf
  <2>2. PICK k \in 1 .. Len(E) : /\ E[k].kind = "Closed" /\ E[k].id = ExternalId(f, n)
                                 /\ \A i \in 1 .. Len(E) : i # k => E[i].id # ExternalId(f, n)
    BY <1>1, <1>2, ClosedEventsSeq
  <2>3. SUFFICES ASSUME NEW s \in Streams
                 PROVE  Tracks(ExternalId(f, n), s,
                               [conn |-> cn[ExternalId(f, n)], stream |-> st[ExternalId(f, n)][s]],
                               Q \o E, << >>, None, n >= t.next_connection_id)
    BY <1>3, <1>6, <1>7, <2>1 DEF TracksOne
  <2>4. Tracks(ExternalId(f, n), s,
               [conn |-> cn[ExternalId(f, n)], stream |-> st[ExternalId(f, n)][s]],
               Q, << >>, t.connections[n], n >= t.next_connection_id)
    BY <1>1, <1>6, <1>7, <2>1 DEF AllTracked, TracksOne
  <2>5. QED
    BY <1>5, <2>1, <2>2, <2>4, TracksClosed
<1>12. OwnTracked(f, gone, t2, cn2, st2, Q \o E)
  BY <1>9, <1>11 DEF OwnTracked
<1>13. AllTracked([tr EXCEPT ![f] = t2], cn2, st2, Q \o E)
  BY ONLY <1>2, <1>3, <1>4, <1>5, <1>6, <1>8, <1>10, <1>12, AllTracked(tr, cn, st, Q),
          f \in Families, tr \in [Families -> QuicTransport], Q \in Seq(Contract!Event), Retracked
<1>14. QED
  BY <1>1, <1>9, <1>13

\* poll(): the closed connections are removed with their indexes, each with a
\* ConnectionClosed behind the events of its streams.
LEMMA EndOfStreamsInv ==
    ASSUME Inv, EndOfStreams
    PROVE  Inv' /\ Allowed
<1>1. PICK f, t, t2, gone, Q, E, tr :
         /\ f = poll.family /\ t = transport[f] /\ gone = poll.gone /\ t2 = RemoveClosed(t, gone)
         /\ Q = poll.events /\ E = ClosedEvents(f, gone) /\ tr = [transport EXCEPT ![f] = t2]
  OBVIOUS
<1>2. /\ f \in Families /\ TransportOK(t) /\ t.pending_events = << >> /\ gone \in SUBSET LiveOf(t)
      /\ poll.step # "idle" /\ ready = << >> /\ Q \in Seq(Contract!Event)
      /\ transport \in [Families -> QuicTransport] /\ AllTracked(transport, conn, stream, Q)
      /\ \A g \in Families : TransportOK(transport[g])
  BY <1>1 DEF EndOfStreams, Inv, PollOK, TransportsOK, TypeOK, Polling, Tracked, Coming
<1>3. conn' = conn /\ stream' = stream /\ heard' = heard /\ Allowed
  BY UnchangedAllowed DEF EndOfStreams
<1>4. AllTracked(tr, conn, stream, Q \o E)
  <2>1. PICK tr0, cn, st : tr0 = transport /\ cn = conn /\ st = stream
    OBVIOUS
  <2>2. /\ AllTracked(tr0, cn, st, Q) /\ tr0 \in [Families -> QuicTransport] /\ TransportOK(tr0[f])
        /\ tr0[f].pending_events = << >> /\ gone \in SUBSET LiveOf(tr0[f])
    BY <1>1, <1>2, <2>1
  <2>3. AllTracked([tr0 EXCEPT ![f] = RemoveClosed(tr0[f], gone)], cn, st, Q \o ClosedEvents(f, gone))
    BY ONLY <1>2, <2>2, ClosedTracked
  <2>4. QED
    BY <1>1, <2>1, <2>3
<1>5. TransportOK(t2)
  BY <1>1, <1>2, RemoveOK
<1>6. tr \in [Families -> QuicTransport] /\ \A g \in Families : TransportOK(tr[g])
  <2>1. t2 \in QuicTransport
    BY <1>5 DEF TransportOK
  <2>2. QED
    BY <1>1, <1>2, <1>5, <2>1
<1>7. Q \o E \in Seq(Contract!Event)
  <2>1. E \in Seq(Contract!Event)
    <3>1. gone \in SUBSET Local
      BY <1>2 DEF LiveOf
    <3>2. QED
      BY <1>1, <1>2, <3>1, ClosedEventsSeq
  <2>2. QED
    BY ONLY <1>2, <2>1, ConcatHalves
<1>8. CountersOK'
  BY DEF EndOfStreams, Inv, TypeOK, CountersOK
<1>9. \/ /\ f = "Ipv4" /\ "Ipv6" \in Families
         /\ EnterFamily("Ipv6", Q \o E)
         /\ transport' = [tr EXCEPT !["Ipv6"].pending_events = << >>]
         /\ UNCHANGED ready
      \/ poll' = Idle /\ ready' = Q \o E /\ transport' = tr
  BY <1>1 DEF EndOfStreams, ClosedEvents
<1>10. CASE /\ f = "Ipv4" /\ "Ipv6" \in Families
            /\ EnterFamily("Ipv6", Q \o E)
            /\ transport' = [tr EXCEPT !["Ipv6"].pending_events = << >>]
            /\ UNCHANGED ready
  <2>1. tr["Ipv6"] = transport["Ipv6"]
    BY <1>1, <1>2, <1>10
  <2>2. poll' = [step |-> "recv", family |-> "Ipv6", todo |-> {}, gone |-> {},
                 events |-> (Q \o E) \o MapEvents("Ipv6", tr["Ipv6"].pending_events)]
    BY <1>10, <2>1 DEF EnterFamily
  <2>3. PICK R : R = Q \o E
    OBVIOUS
  <2>4. /\ poll' = [step |-> "recv", family |-> "Ipv6", todo |-> {}, gone |-> {},
                    events |-> R \o MapEvents("Ipv6", tr["Ipv6"].pending_events)]
        /\ R \in Seq(Contract!Event) /\ AllTracked(tr, conn, stream, R)
    BY <1>4, <1>7, <2>2, <2>3
  <2>5. Inv'
    BY <1>2, <1>3, <1>6, <1>8, <1>10, <2>4, EnterInv
  <2>6. QED
    BY <1>3, <2>5
<1>11. CASE poll' = Idle /\ ready' = Q \o E /\ transport' = tr
  <2>1. poll'.step = "idle" /\ poll' \in Polling
    <3>1. << >> \in Seq(Contract!Event)
      OBVIOUS
    <3>2. QED
      BY <1>11, <3>1 DEF Idle, Polling
  <2>2. TypeOK'
    BY <1>3, <1>6, <1>7, <1>8, <1>11, <2>1 DEF Inv, TypeOK, CountersOK
  <2>3. TransportsOK'
    BY <1>6, <1>11 DEF TransportsOK
  <2>4. PollOK'
    BY <2>1 DEF PollOK
  <2>5. Tracked'
    BY <1>3, <1>4, <1>11, <2>1 DEF Tracked, Coming
  <2>6. QED
    BY <1>3, <2>2, <2>3, <2>4, <2>5 DEF Inv
<1>12. QED
  BY <1>9, <1>10, <1>11

-----------------------------------------------------------------------------
(* The calls of the host.                                                  *)

\* Between two polls, the connections own of family f make a step, of which F
\* waits for the next poll().
LEMMA HostStep ==
    ASSUME Inv, Calling, NEW f \in Families, NEW own \in SUBSET Local,
           NEW t2, TransportOK(t2), transport' = [transport EXCEPT ![f] = t2],
           NEW F \in Seq(Contract!Event), EventsOf(f, own, F),
           MapEvents(f, t2.pending_events) = MapEvents(f, transport[f].pending_events) \o F,
           Spares(own, transport[f], t2),
           conn' \in [Ids -> Contract!ConnPhases \cup {"refused"}],
           ToldOfOthers(f, own, conn, stream, conn', stream),
           stream' = stream, heard' = heard, ready' = ready, poll' = poll, CountersOK',
           OwnTracked(f, own, t2, conn', stream, << >>)
    PROVE  Inv'
<1>1. /\ transport \in [Families -> QuicTransport]
      /\ transport' \in [Families -> QuicTransport] /\ TransportsOK' /\ t2 \in QuicTransport
  BY StepTypes
<1>2. poll.step = "idle" /\ ready = << >>
  BY DEF Calling
<1>3. TypeOK'
  BY <1>1 DEF Inv, TypeOK, CountersOK
<1>4. PollOK'
  BY <1>2 DEF PollOK
<1>5. PICK tr, cn, st, cn2, st2 :
        tr = transport /\ cn = conn /\ st = stream /\ cn2 = conn' /\ st2 = stream
  OBVIOUS
<1>6. PICK z \in Seq(Contract!Event) : Len(z) = 0 /\ z = << >>
  BY NoEvents, Zenon
<1>7. z \o z = z
  BY <1>6, ConcatNothing
<1>8. /\ AllTracked(tr, cn, st, z) /\ OwnTracked(f, own, t2, cn2, st2, z \o z)
      /\ tr \in [Families -> QuicTransport] /\ Spares(own, tr[f], t2) /\ t2 \in QuicTransport
  BY <1>1, <1>2, <1>5, <1>6, <1>7 DEF Inv, Tracked, Coming
<1>9. /\ EventsOf(f, own, z) /\ ToldOfOthers(f, own, cn, st, cn2, st2)
      /\ MapEvents(f, t2.pending_events) = MapEvents(f, tr[f].pending_events) \o F
  BY <1>5, <1>6 DEF EventsOf
<1>10. AllTracked([tr EXCEPT ![f] = t2], cn2, st2, z \o z)
  BY ONLY <1>6, <1>8, <1>9, f \in Families, own \in SUBSET Local, F \in Seq(Contract!Event),
          EventsOf(f, own, F), Retracked
<1>11. Tracked'
  BY <1>2, <1>5, <1>6, <1>7, <1>10 DEF Tracked, Coming
<1>12. QED
  BY <1>1, <1>3, <1>4, <1>11 DEF Inv

\* listen binds the socket.
LEMMA ListenInv ==
    ASSUME Inv, NEW f \in Families, Listen(f)
    PROVE  Inv' /\ Allowed
<1>1. PICK t, x : t = transport[f] /\ x = Queued(None, <<Told("Listening", None)>>)
  OBVIOUS
<1>2. /\ t \in QuicTransport /\ t.pending_events \in Seq(QueuedEvent) /\ TransportOK(t)
      /\ t.next_connection_id \in Nat
  <2>1. t \in QuicTransport /\ TransportOK(t)
    BY <1>1 DEF Inv, TypeOK, TransportsOK
  <2>2. QED
    BY <2>1, QuicAssumption DEF QuicTransport
<1>3. /\ t.pending_events \o x \in Seq(QueuedEvent) /\ x \in Seq(QueuedEvent)
      /\ MapEvents(f, t.pending_events \o x) = MapEvents(f, t.pending_events) \o MapEvents(f, x)
      /\ \A i \in 1 .. Len(MapEvents(f, x)) : MapEvents(f, x)[i].id = None
  BY <1>1, <1>2, MapListening
<1>4. PICK t2, F : /\ t2 = [t EXCEPT !.listening = TRUE, !.pending_events = t.pending_events \o x]
                   /\ F = MapEvents(f, x)
  OBVIOUS
<1>5. /\ t2 \in QuicTransport /\ t2.connections = t.connections
      /\ t2.cid_to_connection = t.cid_to_connection /\ t2.peer_connections = t.peer_connections
      /\ t2.next_connection_id = t.next_connection_id
      /\ t2.pending_events = t.pending_events \o x
  BY <1>2, <1>3, <1>4 DEF QuicTransport
<1>6. TransportOK(t2)
  BY <1>2, <1>5, OtherOK
<1>7. /\ Calling /\ transport' = [transport EXCEPT ![f] = t2]
      /\ ready' = ready /\ poll' = poll /\ CountersOK'
  BY <1>1, <1>4 DEF Listen, Inv, TypeOK, CountersOK
<1>8. conn' = conn /\ stream' = stream /\ heard' = heard /\ Allowed
  BY UnchangedAllowed DEF Listen
<1>9. F \in Seq(Contract!Event)
  BY <1>3, <1>4, MapEventsSeq
<1>10. /\ EventsOf(f, {}, F) /\ Spares({}, t, t2) /\ conn' \in [Ids -> Contract!ConnPhases \cup {"refused"}]
       /\ ToldOfOthers(f, {}, conn, stream, conn', stream)
       /\ OwnTracked(f, {}, t2, conn', stream, << >>)
       /\ MapEvents(f, t2.pending_events) = MapEvents(f, t.pending_events) \o F
  BY <1>3, <1>4, <1>5, <1>8 DEF EventsOf, Spares, ToldOfOthers, OwnTracked, Inv, TypeOK
<1>11. QED
  BY <1>1, <1>6, <1>7, <1>8, <1>9, <1>10, HostStep

\* An id that is spent without a connection.
LEMMA OneSpent ==
    ASSUME NEW f \in Families, NEW n \in Local, NEW t, NEW cn, NEW st, NEW Q,
           TracksOne(f, n, t, cn, st, Q), NEW t2, t2.connections[n] = t.connections[n],
           t2.pending_events = t.pending_events, ~(n >= t2.next_connection_id)
    PROVE  TracksOne(f, n, t2, cn, st, Q)
<1> SUFFICES ASSUME NEW s \in Streams
             PROVE  Tracks(ExternalId(f, n), s,
                           [conn |-> cn[ExternalId(f, n)], stream |-> st[ExternalId(f, n)][s]],
                           Q, MapEvents(f, t2.pending_events), t2.connections[n],
                           n >= t2.next_connection_id)
  BY DEF TracksOne
<1>1. PICK id, a, c, W, new :
        /\ id = ExternalId(f, n) /\ a = [conn |-> cn[id], stream |-> st[id][s]]
        /\ c = t.connections[n] /\ W = MapEvents(f, t.pending_events)
        /\ new = (n >= t.next_connection_id)
  OBVIOUS
<1>2. Tracks(id, s, a, Q, W, c, new)
  BY <1>1 DEF TracksOne
<1>3. Tracks(id, s, a, Q, W, c, FALSE)
  BY <1>2, TracksSpent
<1>4. Tracks(id, s, a, Q, W, c, n >= t2.next_connection_id)
  <2>1. (n >= t2.next_connection_id) = FALSE
    OBVIOUS
  <2>2. QED
    BY <1>3, <2>1
<1>5. QED
  BY <1>1, <1>4

\* A dial that fails leaves nothing behind.
LEMMA DialFailsInv ==
    ASSUME Inv, NEW f \in Families, DialFails(f)
    PROVE  Inv' /\ Allowed
<1>1. PICK t : t = transport[f]
  OBVIOUS
<1>2. PICK n \in Local : n = t.next_connection_id
  BY <1>1 DEF DialFails, Allocates
<1>3. /\ t \in QuicTransport /\ t.pending_events \in Seq(QueuedEvent) /\ TransportOK(t)
      /\ n \in Nat /\ n + 1 \in 1 .. MaxConns + 1
  BY <1>1, <1>2, QuicAssumption DEF Inv, TypeOK, TransportsOK, QuicTransport, Local
<1>4. PICK t2 : t2 = [t EXCEPT !.next_connection_id = n + 1]
  OBVIOUS
<1>5. /\ t2 \in QuicTransport /\ t2.connections = t.connections
      /\ t2.cid_to_connection = t.cid_to_connection /\ t2.peer_connections = t.peer_connections
      /\ t2.next_connection_id = n + 1 /\ t2.pending_events = t.pending_events
  BY <1>3, <1>4 DEF QuicTransport
<1>6. TransportOK(t2)
  BY <1>2, <1>3, <1>5, OtherOK
<1>7. Spares({n}, t, t2) /\ ~(n >= t2.next_connection_id)
  <2>1. t2.connections = [t.connections EXCEPT ![n] = t2.connections[n]]
    BY <1>3, <1>5 DEF QuicTransport
  <2>2. QED
    BY <1>2, <1>3, <1>5, <2>1, Allocated
<1>8. /\ Calling /\ transport' = [transport EXCEPT ![f] = t2]
      /\ ready' = ready /\ poll' = poll /\ CountersOK'
  BY <1>1, <1>2, <1>4, QuicAssumption DEF DialFails, Fault, Inv, TypeOK, CountersOK
<1>9. conn' = conn /\ stream' = stream /\ heard' = heard /\ Allowed
  BY UnchangedAllowed DEF DialFails
<1>10. PICK z \in Seq(Contract!Event) : Len(z) = 0 /\ z = << >>
  BY NoEvents, Zenon
<1>11. MapEvents(f, t2.pending_events) = MapEvents(f, t.pending_events) \o z
  <2>1. MapEvents(f, t.pending_events) \in Seq(Contract!Event)
    BY <1>3, MapEventsSeq
  <2>2. QED
    BY <1>5, <1>10, <2>1, ConcatNothing
<1>12. OwnTracked(f, {n}, t2, conn', stream, << >>)
  <2>1. TracksOne(f, n, t, conn, stream, << >>)
    BY <1>1, <1>8 DEF Inv, Tracked, AllTracked, Coming, Calling
  <2>2. PICK cn, st : cn = conn /\ st = stream
    OBVIOUS
  <2>3. TracksOne(f, n, t, cn, st, << >>)
    BY <2>1, <2>2
  <2>4. t2.connections[n] = t.connections[n]
    BY <1>5
  <2>5. TracksOne(f, n, t2, cn, st, << >>)
    BY ONLY <1>5, <1>7, <2>3, <2>4, f \in Families, n \in Local, OneSpent
  <2>6. QED
    BY <1>9, <2>2, <2>5 DEF OwnTracked
<1>13. /\ EventsOf(f, {n}, z) /\ conn' \in [Ids -> Contract!ConnPhases \cup {"refused"}]
       /\ ToldOfOthers(f, {n}, conn, stream, conn', stream) /\ {n} \in SUBSET Local
  BY <1>9, <1>10 DEF EventsOf, ToldOfOthers, Inv, TypeOK
<1>14. QED
  BY <1>1, <1>6, <1>7, <1>8, <1>9, <1>10, <1>11, <1>12, <1>13, HostStep

\* A connection that is dialled.
LEMMA OneDial ==
    ASSUME NEW f \in Families, NEW n \in Local, NEW t, NEW cn, NEW st,
           TracksOne(f, n, t, cn, st, << >>), t.pending_events \in Seq(QueuedEvent),
           n >= t.next_connection_id, NEW p \in Peers, NEW cert \in Certificates(p),
           NEW t2, t2.connections[n] = New(FALSE, p, cert), t2.pending_events = t.pending_events,
           ~(n >= t2.next_connection_id), NEW cn2, cn2[ExternalId(f, n)] = "dialed"
    PROVE  TracksOne(f, n, t2, cn2, st, << >>)
<1> SUFFICES ASSUME NEW s \in Streams
             PROVE  Tracks(ExternalId(f, n), s,
                           [conn |-> cn2[ExternalId(f, n)], stream |-> st[ExternalId(f, n)][s]],
                           << >>, MapEvents(f, t2.pending_events), t2.connections[n],
                           n >= t2.next_connection_id)
  BY DEF TracksOne
<1>1. PICK id, c2, W, X, a : /\ id = ExternalId(f, n) /\ c2 = New(FALSE, p, cert)
                             /\ W = MapEvents(f, t.pending_events) /\ X = Contract!Event
                             /\ a = [conn |-> "dialed", stream |-> "none"]
  OBVIOUS
<1>2. << >> \in Seq(Contract!Event)
  OBVIOUS
<1>3. st[id][s] = "none" /\ \A i \in 1 .. Len(W) : W[i].id # id
  BY <1>1, <1>2, OneNew
<1>4. W \in Seq(X) /\ a \in Phase /\ a.conn \notin Excused
  BY <1>1, MapEventsSeq DEF Phase, Excused, Contract!Gaps
<1>5. Path(id, s, a, << >>, a) /\ Path(id, s, a, W, a)
  BY <1>3, <1>4, PathEmpty, PathForeign
<1>6. Matches(a, c2, s)
  BY <1>1, DialMatches
<1>7. c2 # None
  BY <1>1, NewOK, OKIsSome
<1>8. Attested(id, a, << >>, W, c2)
  BY <1>1, <1>3, NotAnnounced DEF Attested
<1>9. Tracks(id, s, a, << >>, W, c2, n >= t2.next_connection_id)
  BY <1>4, <1>5, <1>6, <1>7, <1>8 DEF Tracks
<1>10. a = [conn |-> cn2[id], stream |-> st[id][s]]
  BY <1>1, <1>3
<1>11. QED
  BY <1>1, <1>9, <1>10

\* A dial enters the connection under a fresh id.
LEMMA DialInv ==
    ASSUME Inv, NEW f \in Families, NEW p \in Peers, Dial(f, p)
    PROVE  Inv' /\ Allowed
<1>1. PICK t : t = transport[f]
  OBVIOUS
<1>2. PICK n \in Local, cert \in Certificates(p) :
        /\ n = t.next_connection_id
        /\ transport' = [transport EXCEPT
                           ![f] = IndexPeer(Insert(t, n, New(FALSE, p, cert)), p, n)]
        /\ Contract!Dial(ExternalId(f, n))
  BY <1>1 DEF Dial, Allocates
<1>0. PICK c : c = New(FALSE, p, cert)
  OBVIOUS
<1>3. t \in QuicTransport /\ t.pending_events \in Seq(QueuedEvent) /\ TransportOK(t)
  BY <1>1 DEF Inv, TypeOK, TransportsOK, QuicTransport
<1>4. ConnOK(c) /\ c.peer_id = p
  BY <1>0, NewOK DEF New
<1>5. PICK t2, id : t2 = IndexPeer(Insert(t, n, c), p, n) /\ id = ExternalId(f, n)
  OBVIOUS
<1>6. Inserts(t, n, c, t2)
  BY <1>2, <1>3, <1>4, <1>5, InsertOK
<1>7. /\ TransportOK(t2) /\ t2.connections[n] = c /\ t2.pending_events = t.pending_events
      /\ t2.connections = [t.connections EXCEPT ![n] = t2.connections[n]]
      /\ t2.next_connection_id = n + 1
  BY <1>3, <1>6 DEF Inserts, QuicTransport
<1>8. Spares({n}, t, t2) /\ n >= t.next_connection_id /\ ~(n >= t2.next_connection_id)
  BY <1>2, <1>3, <1>7, Allocated
<1>9. /\ Calling /\ transport' = [transport EXCEPT ![f] = t2]
      /\ ready' = ready /\ poll' = poll /\ CountersOK'
  BY <1>0, <1>2, <1>5 DEF Dial, Inv, TypeOK, CountersOK
<1>10. id \in Ids
  BY <1>5, IdOf
<1>11. /\ conn[id] = "none" /\ conn' = [conn EXCEPT ![id] = "dialed"]
       /\ stream' = stream /\ heard' = heard /\ Allowed
  <2>1. Contract!Dial(id)
    BY <1>2, <1>5
  <2>2. Allowed
    BY <1>10, <2>1 DEF Allowed, Contract!Next
  <2>3. QED
    BY <2>1, <2>2 DEF Contract!Dial
<1>12. /\ conn' \in [Ids -> Contract!ConnPhases \cup {"refused"}] /\ conn'[id] = "dialed"
       /\ ToldOfOthers(f, {n}, conn, stream, conn', stream)
  BY <1>5, <1>10, <1>11 DEF Inv, TypeOK, ToldOfOthers, Contract!ConnPhases
<1>13. PICK z \in Seq(Contract!Event) : Len(z) = 0 /\ z = << >>
  BY NoEvents, Zenon
<1>14. MapEvents(f, t2.pending_events) = MapEvents(f, t.pending_events) \o z
  <2>1. MapEvents(f, t.pending_events) \in Seq(Contract!Event)
    BY <1>3, MapEventsSeq
  <2>2. QED
    BY <1>7, <1>13, <2>1, ConcatNothing
<1>15. OwnTracked(f, {n}, t2, conn', stream, << >>)
  <2>1. TracksOne(f, n, t, conn, stream, << >>)
    BY <1>1, <1>9 DEF Inv, Tracked, AllTracked, Coming, Calling
  <2>2. PICK cn, st, cn2 : cn = conn /\ st = stream /\ cn2 = conn'
    OBVIOUS
  <2>3. /\ TracksOne(f, n, t, cn, st, << >>) /\ cn2[ExternalId(f, n)] = "dialed"
        /\ t2.connections[n] = New(FALSE, p, cert)
    BY <1>0, <1>5, <1>7, <1>12, <2>1, <2>2
  <2>4. TracksOne(f, n, t2, cn2, st, << >>)
    BY ONLY <1>3, <1>7, <1>8, <2>3, f \in Families, n \in Local, p \in Peers, cert \in Certificates(p), OneDial
  <2>5. QED
    BY <2>2, <2>4 DEF OwnTracked
<1>16. EventsOf(f, {n}, z) /\ {n} \in SUBSET Local
  BY <1>13 DEF EventsOf
<1>17. QED
  BY <1>1, <1>7, <1>8, <1>9, <1>11, <1>12, <1>13, <1>14, <1>15, <1>16, HostStep

\* The events E of a call that turns c into c2 continue what has been told of
\* stream s, a, and what waits to be told, W.
Answers(id, s, a, W, c, E, c2) ==
    a.conn \notin Excused =>
      \A b \in Phase :
        /\ Matches(b, c, s)
        /\ Path(id, s, a, W, b)
        /\ c.stream_states[s] = None => b.stream = a.stream
        => \E b2 \in Phase :
             /\ Path(id, s, b, Tagged(id, E), b2)
             /\ Matches(b2, c2, s)
             /\ c2.stream_states[s] = None => c.stream_states[s] = None /\ b2.stream = b.stream

\* A call on one connection: the events it queues go on from what is on its way
\* to the host already.
LEMMA OneCall ==
    ASSUME NEW f \in Families, NEW n \in Local, NEW t, NEW cn, NEW st,
           TracksOne(f, n, t, cn, st, << >>), t.pending_events \in Seq(QueuedEvent),
           t.connections[n] # None, NEW E \in Seq(Pushed), NoConnected(E),
           NEW t2, t2.connections[n] # None, t2.next_connection_id = t.next_connection_id,
           MapEvents(f, t2.pending_events) =
             MapEvents(f, t.pending_events) \o Tagged(ExternalId(f, n), E),
           Serving(t.connections[n], t2.connections[n]),
           \A s \in Streams :
             Answers(ExternalId(f, n), s,
                     [conn |-> cn[ExternalId(f, n)], stream |-> st[ExternalId(f, n)][s]],
                     MapEvents(f, t.pending_events), t.connections[n], E, t2.connections[n])
    PROVE  TracksOne(f, n, t2, cn, st, << >>)
<1> SUFFICES ASSUME NEW s \in Streams
             PROVE  Tracks(ExternalId(f, n), s,
                           [conn |-> cn[ExternalId(f, n)], stream |-> st[ExternalId(f, n)][s]],
                           << >>, MapEvents(f, t2.pending_events), t2.connections[n],
                           n >= t2.next_connection_id)
  BY DEF TracksOne
<1>1. PICK id, a, c, c2, W, X, new :
        /\ id = ExternalId(f, n) /\ a = [conn |-> cn[id], stream |-> st[id][s]]
        /\ c = t.connections[n] /\ c2 = t2.connections[n]
        /\ W = MapEvents(f, t.pending_events) /\ X = Contract!Event
        /\ new = (n >= t.next_connection_id)
  OBVIOUS
<1>2. Tracks(id, s, a, << >>, W, c, new) /\ Answers(id, s, a, W, c, E, c2)
  BY <1>1 DEF TracksOne
<1>3. W \in Seq(X) /\ Tagged(id, E) \in Seq(X) /\ c # None /\ c2 # None /\ Serving(c, c2)
  BY <1>1, MapEventsSeq, IdOf, TaggedEvents
<1>4. a.conn \notin Excused =>
        \A b \in Phase :
          /\ Matches(b, c, s)
          /\ Path(id, s, a, W, b)
          /\ c.stream_states[s] = None => b.stream = a.stream
          => \E b2 \in Phase :
               /\ Path(id, s, b, Tagged(id, E), b2)
               /\ Matches(b2, c2, s)
               /\ c2.stream_states[s] = None => c.stream_states[s] = None /\ b2.stream = b.stream
  BY ONLY <1>2 DEF Answers
<1>5. Tracks(id, s, a, << >>, W \o Tagged(id, E), c2, new)
  BY ONLY <1>2, <1>3, <1>4, s \in Streams, E \in Seq(Pushed), NoConnected(E), TracksCall
<1>6. QED
  BY <1>1, <1>5

\* What holds whatever has been told answers a call.
LEMMA TellsAnswers ==
    ASSUME NEW id, NEW s, NEW c, NEW E, NEW c2, TellsOnly(id, s, c, E, c2), NEW a, NEW W
    PROVE  Answers(id, s, a, W, c, E, c2)
BY DEF TellsOnly, Answers

\* The connection of a call.
LEMMA CallableOK ==
    ASSUME Inv, NEW id \in Ids, Callable(id)
    PROVE  LET f == Family(id)
               n == InternalId(id)
           IN  /\ Calling /\ f \in Families /\ n \in Local /\ ExternalId(f, n) = id
               /\ transport[f] \in QuicTransport /\ TransportOK(transport[f])
               /\ transport[f].pending_events \in Seq(QueuedEvent)
               /\ n \in LiveOf(transport[f]) /\ Conn(id) = transport[f].connections[n]
               /\ ConnOK(Conn(id)) /\ Conn(id) # None
               /\ TracksOne(f, n, transport[f], conn, stream, << >>)
               /\ transport \in [Families -> QuicTransport]
<1>1. PICK f, n : f = Family(id) /\ n = InternalId(id)
  OBVIOUS
<1>2. f \in Families /\ n \in Local /\ ExternalId(f, n) = id
  BY <1>1, OfId
<1>3. Calling /\ n \in LiveOf(transport[f]) /\ Conn(id) = transport[f].connections[n]
  BY <1>1 DEF Callable, Live, LiveOf, Conn
<1>4. transport \in [Families -> QuicTransport] /\ TransportOK(transport[f])
  BY <1>2 DEF Inv, TypeOK, TransportsOK
<1>5. transport[f] \in QuicTransport /\ transport[f].pending_events \in Seq(QueuedEvent)
  BY <1>2, <1>4 DEF QuicTransport
<1>6. ConnOK(Conn(id)) /\ Conn(id) # None
  BY <1>3, <1>4, OKIsSome DEF TransportOK
<1>7. TracksOne(f, n, transport[f], conn, stream, << >>)
  BY <1>2, <1>3 DEF Inv, Tracked, AllTracked, Coming, Calling
<1>8. QED
  BY <1>1, <1>2, <1>3, <1>4, <1>5, <1>6, <1>7

\* What is told of stream s of connection id, and what waits to be told of the
\* connections of its family.
ToldOf(id, s) == [conn |-> conn[id], stream |-> stream[id][s]]
Waiting(id) == MapEvents(Family(id), transport[Family(id)].pending_events)

\* A call leaves its connection in c2 and queues E.
LEMMA AnsweredInv ==
    ASSUME Inv, NEW id \in Ids, Callable(id), NEW c2, NEW E \in Seq(Pushed), NEW t1,
           NoConnected(E),
           Replaces(transport[Family(id)], InternalId(id), c2, t1),
           transport' = [transport EXCEPT ![Family(id)] =
             [t1 EXCEPT !.pending_events =
                transport[Family(id)].pending_events \o Queued(InternalId(id), E)]],
           c2 # None, Serving(Conn(id), c2),
           \A s \in Streams : Answers(id, s, ToldOf(id, s), Waiting(id), Conn(id), E, c2),
           UNCHANGED contract, poll' = poll, ready' = ready, CountersOK'
    PROVE  Inv' /\ Allowed
<1>1. PICK f, n, t, c : f = Family(id) /\ n = InternalId(id) /\ t = transport[f] /\ c = Conn(id)
  OBVIOUS
<1>2. /\ Calling /\ f \in Families /\ n \in Local /\ ExternalId(f, n) = id
      /\ t \in QuicTransport /\ TransportOK(t)
      /\ t.pending_events \in Seq(QueuedEvent)
      /\ n \in LiveOf(t) /\ c = t.connections[n]
      /\ ConnOK(c) /\ c # None
      /\ TracksOne(f, n, t, conn, stream, << >>)
      /\ transport \in [Families -> QuicTransport]
  BY <1>1, CallableOK
<1>3. Replaces(t, n, c2, t1)
  BY <1>1
<1>4. PICK q, F : q = t.pending_events \o Queued(n, E) /\ F = Tagged(id, E)
  OBVIOUS
<1>5. /\ q \in Seq(QueuedEvent) /\ MapEvents(f, q) = MapEvents(f, t.pending_events) \o F
      /\ F \in Seq(Contract!Event) /\ EventsOf(f, {n}, F)
  BY <1>2, <1>4, MapQueued, TaggedEvents DEF EventsOf
<1>6. PICK t2 : t2 = [t1 EXCEPT !.pending_events = q]
  OBVIOUS
<1>7. t1 \in QuicTransport /\ t1.next_connection_id \in Nat
  <2>1. t1 \in QuicTransport
    BY <1>3 DEF Replaces, TransportOK
  <2>2. QED
    BY <2>1, QuicAssumption DEF QuicTransport
<1>8. /\ t2 \in QuicTransport /\ t2.connections = t1.connections
      /\ t2.cid_to_connection = t1.cid_to_connection /\ t2.peer_connections = t1.peer_connections
      /\ t2.next_connection_id = t1.next_connection_id /\ t2.pending_events = q
  BY <1>5, <1>6, <1>7 DEF QuicTransport
<1>9. TransportOK(t2)
  BY <1>3, <1>7, <1>8, OtherOK DEF Replaces
<1>10. /\ t2.connections = [t.connections EXCEPT ![n] = c2] /\ t2.connections[n] = c2
       /\ t2.next_connection_id = t.next_connection_id
  BY <1>2, <1>3, <1>8 DEF Replaces, QuicTransport
<1>11. Spares({n}, t, t2)
  BY <1>2, <1>10 DEF Spares, QuicTransport
<1>12. transport' = [transport EXCEPT ![f] = t2]
  BY <1>1, <1>4, <1>6
<1>13. conn' = conn /\ stream' = stream /\ heard' = heard /\ Allowed
  BY UnchangedAllowed
<1>14. OwnTracked(f, {n}, t2, conn', stream, << >>)
  <2>1. PICK cn, st : cn = conn /\ st = stream
    OBVIOUS
  <2>2. /\ TracksOne(f, n, t, cn, st, << >>) /\ t.connections[n] # None
        /\ t2.connections[n] # None /\ Serving(t.connections[n], t2.connections[n])
        /\ MapEvents(f, t2.pending_events) =
             MapEvents(f, t.pending_events) \o Tagged(ExternalId(f, n), E)
        /\ \A s \in Streams :
             Answers(ExternalId(f, n), s,
                     [conn |-> cn[ExternalId(f, n)], stream |-> st[ExternalId(f, n)][s]],
                     MapEvents(f, t.pending_events), t.connections[n], E, t2.connections[n])
    BY <1>1, <1>2, <1>4, <1>5, <1>8, <1>10, <2>1 DEF ToldOf, Waiting
  <2>3. TracksOne(f, n, t2, cn, st, << >>)
    BY ONLY <1>2, <1>10, <2>2, E \in Seq(Pushed), NoConnected(E), OneCall
  <2>4. QED
    BY <1>13, <2>1, <2>3 DEF OwnTracked
<1>15. /\ conn' \in [Ids -> Contract!ConnPhases \cup {"refused"}] /\ {n} \in SUBSET Local
       /\ ToldOfOthers(f, {n}, conn, stream, conn', stream)
       /\ MapEvents(f, t2.pending_events) = MapEvents(f, t.pending_events) \o F
  BY <1>2, <1>5, <1>8, <1>13 DEF Inv, TypeOK, ToldOfOthers
<1>16. QED
  BY <1>1, <1>2, <1>5, <1>9, <1>11, <1>12, <1>13, <1>14, <1>15, HostStep

\* A call whose outcome is r, and that leaves the peer what it was.
LEMMA CallInv ==
    ASSUME Inv, NEW id \in Ids, Callable(id), NEW r, Call(id, r),
           ConnOK(r.conn), Serving(Conn(id), r.conn), r.events \in Seq(Pushed),
           NoConnected(r.events),
           r.conn.peer_id = Conn(id).peer_id,
           \A s \in Streams : Answers(id, s, ToldOf(id, s), Waiting(id), Conn(id), r.events, r.conn)
    PROVE  Inv' /\ Allowed
<1>1. PICK f, n, t : f = Family(id) /\ n = InternalId(id) /\ t = transport[f]
  OBVIOUS
<1>2. /\ f \in Families /\ t \in QuicTransport /\ TransportOK(t)
      /\ n \in Local /\ n \in LiveOf(t) /\ Conn(id) = t.connections[n]
      /\ transport \in [Families -> QuicTransport]
  BY <1>1, CallableOK
<1>3. PICK t1 : t1 = [t EXCEPT !.connections[n] = r.conn]
  OBVIOUS
<1>4. Replaces(t, n, r.conn, t1) /\ r.conn # None
  BY <1>1, <1>2, <1>3, ReplaceOK, OKIsSome
<1>5. PICK q : q = t.pending_events \o Queued(n, r.events)
  OBVIOUS
<1>6. transport' = [transport EXCEPT ![f] = [t1 EXCEPT !.pending_events = q]]
  <2>1. transport' = [transport EXCEPT ![f].connections[n] = r.conn,
                        ![f].pending_events = @ \o Queued(n, r.events)]
    BY <1>1 DEF Call
  <2>2. transport' = [transport EXCEPT ![f] = [t EXCEPT !.connections[n] = r.conn,
                                                        !.pending_events = q]]
    BY <1>1, <1>2, <1>5, <2>1 DEF QuicTransport
  <2>3. [t1 EXCEPT !.pending_events = q] = [t EXCEPT !.connections[n] = r.conn,
                                                     !.pending_events = q]
    BY <1>2, <1>3 DEF QuicTransport
  <2>4. QED
    BY <2>2, <2>3
<1>7. UNCHANGED contract /\ ready' = ready /\ poll' = poll /\ CountersOK'
  BY QuicAssumption DEF Call, Fault, Inv, TypeOK, CountersOK
<1>8. PICK E, c2 : E = r.events /\ c2 = r.conn
  OBVIOUS
<1>9. /\ E \in Seq(Pushed) /\ NoConnected(E) /\ c2 # None /\ Serving(Conn(id), c2)
      /\ Replaces(transport[Family(id)], InternalId(id), c2, t1)
      /\ transport' = [transport EXCEPT ![Family(id)] =
           [t1 EXCEPT !.pending_events =
              transport[Family(id)].pending_events \o Queued(InternalId(id), E)]]
      /\ \A s \in Streams : Answers(id, s, ToldOf(id, s), Waiting(id), Conn(id), E, c2)
  BY <1>1, <1>4, <1>5, <1>6, <1>8
<1>10. QED
  BY <1>7, <1>9, AnsweredInv

\* open_stream.
LEMMA OpenStreamCallInv ==
    ASSUME Inv, NEW id \in Ids, OpenStreamCall(id)
    PROVE  Inv' /\ Allowed
<1>1. Callable(id) /\ CanOpen(Conn(id)) /\ Call(id, OpenStream(Conn(id)))
  BY DEF OpenStreamCall
<1>2. PICK c, r : c = Conn(id) /\ r = OpenStream(c)
  OBVIOUS
<1>3. ConnOK(c)
  BY <1>1, <1>2, CallableOK
<1>4. \A s \in Streams : /\ ConnOK(r.conn) /\ r.events \in Seq(Pushed) /\ Serving(c, r.conn)
                         /\ r.conn.peer_id = c.peer_id /\ NoConnected(r.events)
                         /\ TellsOnly(id, s, c, r.events, r.conn)
  BY <1>1, <1>2, <1>3, OpenStreamStep
<1>5. \A s \in Streams : Answers(id, s, ToldOf(id, s), Waiting(id), c, r.events, r.conn)
  BY <1>4, TellsAnswers
<1>6. QED
  BY <1>1, <1>2, <1>4, <1>5, CallInv, QuicConnectionAssumption

\* close.
LEMMA CloseCallInv ==
    ASSUME Inv, NEW id \in Ids, CloseCall(id)
    PROVE  Inv' /\ Allowed
<1>1. PICK d \in Drains(Conn(id)) : Callable(id) /\ Call(id, Close(Conn(id), d))
  BY DEF CloseCall
<1>2. PICK c, r : c = Conn(id) /\ r = Close(c, d)
  OBVIOUS
<1>3. ConnOK(c) /\ DrainChoice(c, d)
  BY <1>1, <1>2, CallableOK, DrainsChoose
<1>4. \A s \in Streams : /\ ConnOK(r.conn) /\ r.events \in Seq(Pushed) /\ Serving(c, r.conn)
                         /\ r.conn.peer_id = c.peer_id /\ NoConnected(r.events)
                         /\ TellsOnly(id, s, c, r.events, r.conn)
  BY <1>2, <1>3, CloseStep
<1>5. \A s \in Streams : Answers(id, s, ToldOf(id, s), Waiting(id), c, r.events, r.conn)
  BY <1>4, TellsAnswers
<1>6. QED
  BY <1>1, <1>2, <1>4, <1>5, CallInv, QuicConnectionAssumption

\* reset_stream.
LEMMA ResetStreamCallInv ==
    ASSUME Inv, NEW id \in Ids, NEW x \in Streams, ResetStreamCall(id, x)
    PROVE  Inv' /\ Allowed
<1>1. PICK outcome \in ResetOutcomes :
        /\ Callable(id) /\ Conn(id).stream_states[x] # None
        /\ Call(id, ResetStream(Conn(id), x, outcome))
  BY DEF ResetStreamCall, Usable
<1>2. PICK c, r : c = Conn(id) /\ r = ResetStream(c, x, outcome)
  OBVIOUS
<1>3. ConnOK(c)
  BY <1>1, <1>2, CallableOK
<1>4. \A s \in Streams : /\ ConnOK(r.conn) /\ r.events \in Seq(Pushed) /\ Serving(c, r.conn)
                         /\ r.conn.peer_id = c.peer_id /\ NoConnected(r.events)
                         /\ TellsOnly(id, s, c, r.events, r.conn)
  BY <1>1, <1>2, <1>3, ResetStep
<1>5. \A s \in Streams : Answers(id, s, ToldOf(id, s), Waiting(id), c, r.events, r.conn)
  BY <1>4, TellsAnswers
<1>6. QED
  BY <1>1, <1>2, <1>4, <1>5, CallInv, QuicConnectionAssumption

\* What the host has been told of a live connection is behind what it is.
LEMMA ToldBehind ==
    ASSUME Inv, NEW id \in Ids, Callable(id), conn[id] \notin Excused, NEW s \in Streams
    PROVE  \E b \in Phase : Matches(b, Conn(id), s) /\ Grows(ToldOf(id, s), b)
<1>1. PICK f, n, W, a, X : /\ f = Family(id) /\ n = InternalId(id) /\ W = Waiting(id)
                           /\ a = ToldOf(id, s) /\ X = Contract!Event
  OBVIOUS
<1>2. /\ f \in Families /\ n \in Local /\ ExternalId(f, n) = id
      /\ transport[f].pending_events \in Seq(QueuedEvent)
      /\ Conn(id) = transport[f].connections[n]
      /\ TracksOne(f, n, transport[f], conn, stream, << >>)
  BY <1>1, CallableOK
<1>3. Tracks(id, s, a, << >>, W, Conn(id), n >= transport[f].next_connection_id)
  BY <1>1, <1>2 DEF TracksOne, ToldOf, Waiting
<1>4. W \in Seq(X) /\ a.conn \notin Excused
  BY <1>1, <1>2, MapEventsSeq DEF Waiting, ToldOf
<1>5. PICK m \in Phase, b \in Phase :
        Path(id, s, a, << >>, m) /\ Path(id, s, m, W, b) /\ Matches(b, Conn(id), s)
  BY <1>3, <1>4 DEF Tracks
<1>6. m = a
  BY <1>5, PathEmpty
<1>7. Grows(a, b)
  BY <1>4, <1>5, <1>6, PathGrows
<1>8. QED
  BY <1>1, <1>5, <1>7

\* The host writes to streams of established connections.
LEMMA UsableEstablished ==
    ASSUME Inv, NEW id \in Ids, NEW s \in Streams, Usable(id, s), conn[id] \notin Excused
    PROVE  Conn(id).established
<1>1. Callable(id)
  BY DEF Usable
<1>2. PICK b \in Phase : Matches(b, Conn(id), s) /\ Grows(ToldOf(id, s), b)
  BY <1>1, ToldBehind
<1>3. Conn(id) # None
  BY <1>1, CallableOK
<1>4. CASE stream[id][s] \in {"open", "half"}
  <2>1. b.stream # "none"
    BY <1>2, <1>4 DEF Grows, ToldOf
  <2>2. QED
    BY <1>2, <1>3, <2>1 DEF Matches
<1>5. CASE Conn(id).stream_states[s] # None
  BY <1>2, <1>3, <1>5 DEF Matches, Untouched
<1>6. QED
  BY <1>4, <1>5 DEF Usable

\* send_stream and close_stream_write: a write is queued, and the queues are
\* drained.
LEMMA WriteInv ==
    ASSUME Inv, NEW id \in Ids, NEW s \in Streams, Usable(id, s), NEW c1, ConnOK(c1),
           Requeued(Conn(id), s, c1), NEW d, DrainChoice(c1, d), Call(id, DrainSendQueue(c1, d))
    PROVE  Inv' /\ Allowed
<1>1. PICK c, r : c = Conn(id) /\ r = DrainSendQueue(c1, d)
  OBVIOUS
<1>2. Callable(id) /\ ConnOK(c)
  BY <1>1, CallableOK DEF Usable
<1>3. Serving(c, c1) /\ c1.peer_id = c.peer_id
  BY <1>1, <1>2, QueueServes
<1>4. \A x \in Streams : /\ ConnOK(r.conn) /\ r.events \in Seq(Pushed) /\ Serving(c1, r.conn)
                         /\ NoConnected(r.events)
                         /\ TellsOnly(id, x, c1, r.events, r.conn)
  BY <1>1, DrainStep
<1>5. r.conn.peer_id = c.peer_id
  <2>1. c1 \in Connection
    BY DEF ConnOK
  <2>2. QED
    BY <1>1, <1>3, <2>1, DrainConn DEF Drained
<1>6. ASSUME NEW x \in Streams
      PROVE  Answers(id, x, ToldOf(id, x), Waiting(id), c, r.events, r.conn)
  <2>1. SUFFICES ASSUME conn[id] \notin Excused, NEW b \in Phase, Matches(b, c, x),
                        c.stream_states[x] = None => b.stream = stream[id][x]
                 PROVE  \E b2 \in Phase :
                          /\ Path(id, x, b, Tagged(id, r.events), b2)
                          /\ Matches(b2, r.conn, x)
                          /\ r.conn.stream_states[x] = None =>
                               c.stream_states[x] = None /\ b2.stream = b.stream
    BY DEF Answers, ToldOf
  <2>2. c.established
    BY <1>1, <2>1, UsableEstablished
  <2>3. x = s /\ c.stream_states[x] = None => b.stream \in {"open", "half"}
    BY <1>1, <2>1 DEF Usable
  <2>4. Requeued(c, s, c1)
    BY <1>1
  <2>5. Matches(b, c1, x)
    BY ONLY <1>2, <2>1, <2>2, <2>3, <2>4, x \in Streams, s \in Streams, QueueMatches
  <2>6. PICK b2 \in Phase :
          /\ Path(id, x, b, Tagged(id, r.events), b2)
          /\ Matches(b2, r.conn, x)
          /\ r.conn.stream_states[x] = None => c1.stream_states[x] = None /\ b2.stream = b.stream
    BY <1>4, <2>5 DEF TellsOnly
  <2>7. c1.stream_states[x] = None => c.stream_states[x] = None
    BY <2>4 DEF Requeued
  <2>8. QED
    BY <2>6, <2>7
<1>7. Serving(c, r.conn)
  BY <1>3, <1>4, ServingTransitive, QuicConnectionAssumption
<1>8. QED
  BY <1>1, <1>2, <1>4, <1>5, <1>6, <1>7, CallInv, QuicConnectionAssumption

\* send_stream.
LEMMA SendStreamCallInv ==
    ASSUME Inv, NEW id \in Ids, NEW s \in Streams, SendStreamCall(id, s)
    PROVE  Inv' /\ Allowed
<1>1. Usable(id, s) /\ MayWrite(Conn(id), s) /\ Callable(id)
  BY DEF SendStreamCall, Usable
<1>2. PICK n \in 1 .. MaxBytes :
        \E d \in Drains(QueueBytes(Conn(id), s, n)) :
          Call(id, DrainSendQueue(QueueBytes(Conn(id), s, n), d))
  BY DEF SendStreamCall
<1>3. PICK c1 : c1 = QueueBytes(Conn(id), s, n)
  OBVIOUS
<1>4. n \in Nat \ {0}
  BY QuicAssumption
<1>5. ConnOK(c1) /\ Requeued(Conn(id), s, c1)
  BY <1>1, <1>3, <1>4, CallableOK, QueueBytesUnits
<1>6. PICK d \in Drains(c1) : Call(id, DrainSendQueue(c1, d))
  BY <1>2, <1>3
<1>7. QED
  BY <1>1, <1>5, <1>6, DrainsChoose, WriteInv

\* close_stream_write.
LEMMA CloseStreamWriteCallInv ==
    ASSUME Inv, NEW id \in Ids, NEW s \in Streams, CloseStreamWriteCall(id, s)
    PROVE  Inv' /\ Allowed
<1>1. Usable(id, s) /\ MayWrite(Conn(id), s) /\ Callable(id)
  BY DEF CloseStreamWriteCall, Usable
<1>2. PICK c1 : c1 = QueueFin(Conn(id), s)
  OBVIOUS
<1>3. ConnOK(c1) /\ Requeued(Conn(id), s, c1)
  BY <1>1, <1>2, CallableOK, QueueFinUnits
<1>4. PICK d \in Drains(c1) : Call(id, DrainSendQueue(c1, d))
  BY <1>2 DEF CloseStreamWriteCall
<1>5. QED
  BY <1>1, <1>3, <1>4, DrainsChoose, WriteInv

\* A connection is told to be connected only when it is established.
LEMMA ConnectedEstablished ==
    ASSUME Inv, NEW id \in Ids, Callable(id), conn[id] = "connected"
    PROVE  /\ Conn(id).established /\ Conn(id).peer_id # None
           /\ Conn(id).state # "Connecting"
<1>1. PICK s \in Streams : TRUE
  BY QuicConnectionAssumption
<1>2. PICK b \in Phase : Matches(b, Conn(id), s) /\ Grows(ToldOf(id, s), b)
  BY ToldBehind DEF Excused, Contract!Gaps
<1>3. Conn(id) # None
  BY CallableOK
<1>4. b.conn \in {"connected", "closed"}
  BY <1>2 DEF Grows, ToldOf
<1>5. QED
  BY <1>2, <1>3, <1>4 DEF Matches

\* verify_connection_peer_id: the index moves to the verified peer, and a
\* connection of another peer is refused.
LEMMA VerifyPeerCallInv ==
    ASSUME Inv, NEW id \in Ids, NEW p \in Peers, VerifyPeerCall(id, p)
    PROVE  Inv' /\ Allowed
<1>1. Callable(id) /\ conn[id] = "connected"
  BY DEF VerifyPeerCall
<1>2. PICK f, n, t, c, c2, E :
        /\ f = Family(id) /\ n = InternalId(id) /\ t = transport[f] /\ c = Conn(id)
        /\ c2 = [c EXCEPT !.peer_id = p] /\ E = <<Told("PeerIdentityVerified", None)>>
  OBVIOUS
<1>3. /\ f \in Families /\ t \in QuicTransport /\ TransportOK(t)
      /\ n \in Local /\ n \in LiveOf(t) /\ c = t.connections[n] /\ ConnOK(c) /\ c.established
      /\ c.state # "Connecting"
  BY <1>1, <1>2, CallableOK, ConnectedEstablished
<1>4. \A s \in Streams : /\ ConnOK(c2) /\ Serving(c, c2) /\ c2.peer_id = p
                         /\ TellsOnly(id, s, c, E, c2)
  BY <1>2, <1>3, VerifyStep
<1>5. ConnOK(c2) /\ Serving(c, c2) /\ c2.peer_id = p
  BY <1>4, QuicConnectionAssumption
<1>6. \A s \in Streams : Answers(id, s, ToldOf(id, s), Waiting(id), c, E, c2)
  BY <1>4, TellsAnswers
<1>7. PICK t1 : t1 = Reindex([t EXCEPT !.connections[n] = c2], c.peer_id, n)
  OBVIOUS
<1>8. Replaces(t, n, c2, t1) /\ c2 # None
  BY <1>3, <1>5, <1>7, ReindexOK, OKIsSome
<1>9. E \in Seq(Pushed) /\ NoConnected(E)
  <2>1. Told("PeerIdentityVerified", None) \in Pushed
    BY DEF Told, Pushed
  <2>2. QED
    BY <1>2, <2>1 DEF NoConnected, Told
<1>10. [t EXCEPT !.connections[n].peer_id = p] = [t EXCEPT !.connections[n] = c2]
  BY <1>2, <1>3 DEF QuicTransport
<1>11. transport' = [transport EXCEPT ![f] = [t1 EXCEPT !.pending_events =
                                                t1.pending_events \o Queued(n, E)]]
  BY <1>2, <1>7, <1>10 DEF VerifyPeerCall
<1>12. t1.pending_events = t.pending_events
  BY <1>8 DEF Replaces
<1>13. UNCHANGED contract /\ ready' = ready /\ poll' = poll /\ CountersOK'
  BY QuicAssumption DEF VerifyPeerCall, Inv, TypeOK, CountersOK
<1>14. QED
  BY <1>1, <1>2, <1>5, <1>6, <1>8, <1>9, <1>11, <1>12, <1>13, AnsweredInv

-----------------------------------------------------------------------------
(* The host handles what poll() has returned.                              *)

\* What the kinds of events tell.
LEMMA KindsTell ==
    /\ DOMAIN TellsConn = {"IncomingConnection", "Connected", "Closed"}
    /\ TellsConn["IncomingConnection"] = "incoming" /\ TellsConn["Connected"] = "connected"
    /\ TellsConn["Closed"] = "closed"
    /\ DOMAIN TellsStream = StreamKinds
    /\ TellsStream["StreamOpened"] = "open" /\ TellsStream["IncomingStream"] = "open"
    /\ TellsStream["StreamData"] = "open" /\ TellsStream["StreamRemoteWriteClosed"] = "half"
    /\ TellsStream["StreamClosed"] = "closed"
BY DEF TellsConn, TellsStream, StreamKinds

\* What is known after event e, of its connection and of its stream s.
ConnAfter(x, e) == IF e.kind \in DOMAIN TellsConn THEN TellsConn[e.kind] ELSE x
StreamAfter(x, e, s) ==
    IF e.kind \in DOMAIN TellsStream /\ e.stream = s THEN TellsStream[e.kind] ELSE x

\* The host takes every event in its turn for what it is.
LEMMA LegalTells ==
    ASSUME NEW id, NEW s \in Streams, NEW a \in Phase, NEW b \in Phase,
           NEW e \in Contract!Event, e.id = id, Legal(id, s, a, e, b)
    PROVE  b.conn = ConnAfter(a.conn, e) /\ b.stream = StreamAfter(a.stream, e, s)
<1>1. None \notin Streams
  BY QuicConnectionAssumption
<1>2. e.kind \in StreamKinds => e.stream \in Streams
  BY DEF Contract!Event, StreamKinds, Contract!ConnEvents
<1>3. CASE e.kind \notin StreamKinds
  BY <1>1, <1>3, KindsTell DEF Legal, StreamLegal, StreamKinds, ConnAfter, StreamAfter
<1>4. CASE e.kind \in StreamKinds
  BY <1>2, <1>4, KindsTell DEF Legal, StreamLegal, StreamKinds, ConnAfter, StreamAfter
<1>5. QED
  BY <1>3, <1>4

\* How PhaseAfter reads an event.
LEMMA PhaseAfterIs ==
    ASSUME NEW phase, NEW kind
    PROVE  /\ phase \notin Excused => PhaseAfter(phase, kind) =
                IF kind \in DOMAIN TellsConn THEN TellsConn[kind] ELSE phase
           /\ phase \in Excused => PhaseAfter(phase, kind) =
                IF phase = "unconnected" /\ kind = "Connected" THEN "gapped" ELSE phase
<1>1. "unconnected" \in Excused
  BY DEF Excused, Contract!Gaps
<1>2. QED
  BY <1>1 DEF PhaseAfter

\* The event is of another connection, or of one of which only Connected still
\* counts.
LEMMA OneIgnores ==
    ASSUME NEW f \in Families, NEW n \in Local, NEW t, NEW cn, NEW st,
           NEW Q \in Seq(Contract!Event), Q # << >>, TracksOne(f, n, t, cn, st, Q),
           Head(Q).id # ExternalId(f, n) \/ cn[ExternalId(f, n)] \in Excused,
           NEW cn2,
           \/ cn2[ExternalId(f, n)] = cn[ExternalId(f, n)]
           \/ /\ cn[ExternalId(f, n)] = "unconnected" /\ cn2[ExternalId(f, n)] = "gapped"
              /\ Head(Q).id = ExternalId(f, n) /\ Head(Q).kind = "Connected",
           NEW st2, st2[ExternalId(f, n)] = st[ExternalId(f, n)]
    PROVE  TracksOne(f, n, t, cn2, st2, Tail(Q))
<1> SUFFICES ASSUME NEW s \in Streams
             PROVE  Tracks(ExternalId(f, n), s,
                           [conn |-> cn2[ExternalId(f, n)], stream |-> st2[ExternalId(f, n)][s]],
                           Tail(Q), MapEvents(f, t.pending_events), t.connections[n],
                           n >= t.next_connection_id)
  BY DEF TracksOne
<1>1. PICK id, a, a2, c, W, new, X :
        /\ id = ExternalId(f, n) /\ a = [conn |-> cn[id], stream |-> st[id][s]]
        /\ a2 = [conn |-> cn2[id], stream |-> st2[id][s]]
        /\ c = t.connections[n] /\ W = MapEvents(f, t.pending_events)
        /\ new = (n >= t.next_connection_id) /\ X = Contract!Event
  OBVIOUS
<1>2. Tracks(id, s, a, Q, W, c, new)
  BY <1>1 DEF TracksOne
<1>3. /\ a2.stream = a.stream
      /\ \/ a2 = a
         \/ /\ a.conn = "unconnected" /\ a2.conn = "gapped"
            /\ Head(Q).id = id /\ Head(Q).kind = "Connected"
  BY <1>1
<1>4. Tracks(id, s, a2, Tail(Q), W, c, new)
  <2>1. CASE a.conn \in Excused
    <3>1. c # None => Attested(id, a2, Tail(Q), W, c)
      BY <1>2, <1>3, AnnouncesTail DEF Tracks, Attested
    <3>2. a2.conn \in Excused /\ (a2.conn = "refused" => a.conn = "refused")
      BY <1>3, <2>1 DEF Excused, Contract!Gaps
    <3>3. QED
      BY <1>2, <1>3, <2>1, <3>1, <3>2 DEF Tracks
  <2>2. CASE a.conn \notin Excused
    <3>1. PICK b \in Phase : Legal(id, s, a, Head(Q), b) /\ Tracks(id, s, b, Tail(Q), W, c, new)
      BY <1>2, <2>2, TracksHandle
    <3>2. Head(Q).id # id
      BY <1>1, <2>2
    <3>3. a2 = a /\ b = a
      BY <1>3, <3>1, <3>2 DEF Legal
    <3>4. QED
      BY <3>1, <3>3
  <2>3. QED
    BY <2>1, <2>2
<1>5. QED
  BY <1>1, <1>4

\* The event is of this connection: the host knows it afterwards, and it was
\* the event's turn.
LEMMA OneHandles ==
    ASSUME NEW f \in Families, NEW n \in Local, NEW t, NEW cn, NEW st,
           NEW Q \in Seq(Contract!Event), Q # << >>, TracksOne(f, n, t, cn, st, Q),
           NEW e \in Contract!Event, e = Head(Q), e.id = ExternalId(f, n),
           cn[ExternalId(f, n)] \notin Excused,
           NEW cn2, cn2[ExternalId(f, n)] = ConnAfter(cn[ExternalId(f, n)], e),
           NEW st2, \A s \in Streams : st2[ExternalId(f, n)][s] = StreamAfter(st[ExternalId(f, n)][s], e, s)
    PROVE  /\ TracksOne(f, n, t, cn2, st2, Tail(Q))
           /\ \A s \in Streams : \E b \in Phase :
                Legal(e.id, s, [conn |-> cn[e.id], stream |-> st[e.id][s]], e, b)
<1> SUFFICES ASSUME NEW s \in Streams
             PROVE  /\ Tracks(ExternalId(f, n), s,
                              [conn |-> cn2[ExternalId(f, n)], stream |-> st2[ExternalId(f, n)][s]],
                              Tail(Q), MapEvents(f, t.pending_events), t.connections[n],
                              n >= t.next_connection_id)
                    /\ \E b \in Phase :
                         Legal(e.id, s, [conn |-> cn[e.id], stream |-> st[e.id][s]], e, b)
  BY DEF TracksOne
<1>1. PICK id, a, a2, c, W, new, X :
        /\ id = ExternalId(f, n) /\ a = [conn |-> cn[id], stream |-> st[id][s]]
        /\ c = t.connections[n] /\ W = MapEvents(f, t.pending_events)
        /\ new = (n >= t.next_connection_id) /\ X = Contract!Event
        /\ a2 = [conn |-> cn2[id], stream |-> st2[id][s]]
  OBVIOUS
<1>2. Tracks(id, s, a, Q, W, c, new) /\ a.conn \notin Excused
  BY <1>1 DEF TracksOne
<1>3. PICK b \in Phase : Legal(id, s, a, e, b) /\ Tracks(id, s, b, Tail(Q), W, c, new)
  BY <1>2, TracksHandle
<1>4. a \in Phase
  <2>1. PICK m \in Phase : Path(id, s, a, Q, m)
    BY <1>2 DEF Tracks
  <2>2. QED
    BY <2>1, PathEnds
<1>5. b.conn = ConnAfter(a.conn, e) /\ b.stream = StreamAfter(a.stream, e, s)
  BY <1>1, <1>3, <1>4, LegalTells
<1>6. b = a2
  <2>1. b = [conn |-> b.conn, stream |-> b.stream]
    BY DEF Phase
  <2>2. b.conn = cn2[id] /\ b.stream = st2[id][s]
    BY <1>1, <1>5
  <2>3. QED
    BY <1>1, <2>1, <2>2
<1>7. QED
  BY <1>1, <1>3, <1>6

\* An event in its turn is a step of the contract.
LEMMA HearAllowed ==
    ASSUME TypeOK, NEW e \in Contract!Event, e.id \in Ids,
           heard' = [event |-> e, turn |-> ~heard.turn],
           conn' = IF e.kind \in DOMAIN TellsConn THEN [conn EXCEPT ![e.id] = TellsConn[e.kind]] ELSE conn,
           stream' = IF e.kind \in DOMAIN TellsStream
                     THEN [stream EXCEPT ![e.id][e.stream] = TellsStream[e.kind]] ELSE stream,
           \A s \in Streams : \E b \in Phase :
             Legal(e.id, s, [conn |-> conn[e.id], stream |-> stream[e.id][s]], e, b)
    PROVE  Allowed
<1>1. PICK id, kind : id = e.id /\ kind = e.kind
  OBVIOUS
<1>2. None \notin Ids /\ None \notin Streams
  BY IdOf, QuicConnectionAssumption DEF Ids
<1>3. Contract!Hear(kind, id, e.stream)
  <2>1. e = [kind |-> kind, id |-> id, stream |-> e.stream]
    BY <1>1 DEF Contract!Event
  <2>2. QED
    BY <2>1 DEF Contract!Hear
<1>4. \/ kind \in Contract!ConnEvents /\ e.stream = None
      \/ kind \in StreamKinds /\ e.stream \in Streams
  BY <1>1, <1>2 DEF Contract!Event, StreamKinds, Contract!StreamEvents
<1>5. CASE kind \in Contract!ConnEvents /\ e.stream = None
  <2>1. PICK s \in Streams, b \in Phase :
          Legal(id, s, [conn |-> conn[id], stream |-> stream[id][s]], e, b)
    BY <1>1, QuicConnectionAssumption
  <2>2. kind \notin StreamKinds /\ Contract!Hear(kind, id, None) /\ stream' = stream
    BY <1>1, <1>3, <1>5, KindsTell DEF Contract!ConnEvents, StreamKinds
  <2>3. \/ kind = "IncomingConnection" /\ conn[id] = "none"
        \/ kind = "Connected" /\ conn[id] \in {"dialed", "incoming"}
        \/ kind = "PeerIdentityVerified" /\ conn[id] = "connected"
        \/ kind = "Error" /\ conn[id] \in Talking
        \/ kind = "Closed" /\ conn[id] \in Talking
    BY <1>1, <1>2, <1>5, <2>1, <2>2 DEF Legal
  <2>4. CASE kind = "IncomingConnection" /\ conn[id] = "none"
    <3>1. Contract!IncomingConnection(id)
      BY <1>1, <2>2, <2>4, KindsTell DEF Contract!IncomingConnection
    <3>2. QED
      BY <1>1, <3>1 DEF Allowed, Contract!Next
  <2>5. CASE kind = "Connected" /\ conn[id] \in {"dialed", "incoming"}
    <3>1. Contract!Connected(id)
      BY <1>1, <2>2, <2>5, KindsTell DEF Contract!Connected
    <3>2. QED
      BY <1>1, <3>1 DEF Allowed, Contract!Next
  <2>6. CASE kind = "PeerIdentityVerified" /\ conn[id] = "connected"
    <3>1. Contract!PeerIdentityVerified(id)
      BY <1>1, <2>2, <2>6, KindsTell DEF Contract!PeerIdentityVerified
    <3>2. QED
      BY <1>1, <3>1 DEF Allowed, Contract!Next
  <2>7. CASE kind = "Error" /\ conn[id] \in Talking
    <3>1. Contract!Error(id)
      BY <1>1, <2>2, <2>7, KindsTell DEF Contract!Error, Talking
    <3>2. QED
      BY <1>1, <3>1 DEF Allowed, Contract!Next
  <2>8. CASE kind = "Closed" /\ conn[id] \in Talking
    <3>1. Contract!Closed(id)
      BY <1>1, <2>2, <2>8, KindsTell DEF Contract!Closed, Talking
    <3>2. QED
      BY <1>1, <3>1 DEF Allowed, Contract!Next
  <2>9. QED
    BY <2>3, <2>4, <2>5, <2>6, <2>7, <2>8
<1>6. CASE kind \in StreamKinds /\ e.stream \in Streams
  <2>1. PICK s \in Streams : s = e.stream
    BY <1>6
  <2>2. PICK b \in Phase : Legal(id, s, [conn |-> conn[id], stream |-> stream[id][s]], e, b)
    BY <1>1
  <2>3. conn[id] = "connected" /\ StreamLegal(kind, stream[id][s], b.stream)
    BY <1>1, <1>6, <2>1, <2>2 DEF Legal, StreamKinds
  <2>4. /\ conn' = conn /\ stream' = [stream EXCEPT ![id][s] = TellsStream[kind]]
        /\ Contract!Hear(kind, id, s)
    BY <1>1, <1>3, <1>6, <2>1, KindsTell DEF StreamKinds
  <2>5. Contract!StreamEvent(id, s)
    BY <1>6, <2>3, <2>4, KindsTell DEF StreamLegal, StreamKinds, Contract!StreamEvent, Contract!StreamStep
  <2>6. QED
    BY <1>1, <2>5 DEF Allowed, Contract!Next
<1>7. QED
  BY <1>4, <1>5, <1>6

\* The host has handled the first event of those that poll() returned.
LEMMA HandleStep ==
    ASSUME Inv, Handle, conn' \in [Ids -> Contract!ConnPhases \cup {"refused"}],
           stream' \in [Ids -> [Streams -> Contract!StreamPhases]],
           AllTracked(transport, conn', stream', Tail(ready))
    PROVE  Inv'
<1>1. /\ ready \in Seq(Contract!Event) /\ ready # << >> /\ ready' = Tail(ready)
      /\ heard' = [event |-> Head(ready), turn |-> ~heard.turn]
      /\ UNCHANGED <<transport, poll, inputs, calls, faults>>
  BY DEF Handle, Inv, TypeOK
<1>2. ready' \in Seq(Contract!Event) /\ Head(ready) \in Contract!Event
  BY <1>1
<1>3. heard' \in [event : Contract!Event \cup {Contract!PollError, None}, turn : BOOLEAN]
  <2>1. (~heard.turn) \in BOOLEAN
    OBVIOUS
  <2>2. QED
    BY <1>1, <1>2, <2>1
<1>4. TypeOK'
  BY <1>1, <1>2, <1>3 DEF Inv, TypeOK
<1>5. poll.step = "idle"
  BY <1>1 DEF Inv, PollOK
<1>6. TransportsOK' /\ PollOK'
  BY <1>1, <1>5 DEF Inv, TransportsOK, PollOK
<1>7. Tracked'
  BY <1>1, <1>5 DEF Tracked, Coming
<1>8. QED
  BY <1>4, <1>6, <1>7 DEF Inv

\* The host handles the first event that poll() has returned: the contract allows
\* it then.
LEMMA HandleInv ==
    ASSUME Inv, Handle
    PROVE  Inv' /\ Allowed
<1>1. PICK e, Q : e = Head(ready) /\ Q = ready
  OBVIOUS
<1>2. /\ Q \in Seq(Contract!Event) /\ Q # << >> /\ e = Head(Q) /\ TypeOK
      /\ conn \in [Ids -> Contract!ConnPhases \cup {"refused"}]
      /\ stream \in [Ids -> [Streams -> Contract!StreamPhases]]
      /\ heard' = [event |-> e, turn |-> ~heard.turn]
  BY <1>1 DEF Handle, Inv, TypeOK
<1>3. e \in Contract!Event
  BY <1>2
<1>4. AllTracked(transport, conn, stream, Q)
  BY <1>1, <1>2 DEF Inv, PollOK, Tracked, Coming
<1>5. None \notin Ids
  BY IdOf DEF Ids
<1>6. \/ e.id \in Ids
      \/ e.id = None /\ e.kind = "Listening" /\ e.stream = None
  BY <1>3 DEF Contract!Event
<1>7. PICK tr, cn, st, cn2, st2 :
         tr = transport /\ cn = conn /\ st = stream /\ cn2 = conn' /\ st2 = stream'
  OBVIOUS
<1>8. CASE e.id = None \/ conn[e.id] \in Excused
  <2>1. /\ stream' = stream
        /\ conn' = IF e.id # None /\ conn[e.id] = "unconnected" /\ e.kind = "Connected"
                   THEN [conn EXCEPT ![e.id] = "gapped"] ELSE conn
    <3>1. e.id # None => PhaseAfter(conn[e.id], e.kind) =
            IF conn[e.id] = "unconnected" /\ e.kind = "Connected" THEN "gapped" ELSE conn[e.id]
      BY <1>8, PhaseAfterIs
    <3>2. /\ stream' = stream
          /\ conn' = IF e.id = None THEN conn
                     ELSE [conn EXCEPT ![e.id] = PhaseAfter(conn[e.id], e.kind)]
      BY <1>1, <1>8 DEF Handle
    <3>3. QED
      BY <1>2, <3>1, <3>2
  <2>2. ASSUME NEW f \in Families, NEW n \in Local PROVE TracksOne(f, n, tr[f], cn2, st2, Tail(Q))
    <3>1. PICK id : id = ExternalId(f, n) /\ id \in Ids
      BY IdOf
    <3>2. /\ TracksOne(f, n, tr[f], cn, st, Q) /\ (Head(Q).id # id \/ cn[id] \in Excused)
          /\ \/ cn2[id] = cn[id]
             \/ /\ cn[id] = "unconnected" /\ cn2[id] = "gapped"
                /\ Head(Q).id = id /\ Head(Q).kind = "Connected"
          /\ st2[id] = st[id]
      BY <1>2, <1>4, <1>5, <1>7, <1>8, <2>1, <3>1 DEF AllTracked
    <3>3. QED
      BY ONLY <1>2, <3>1, <3>2, f \in Families, n \in Local, OneIgnores
  <2>3. AllTracked(transport, conn', stream', Tail(ready))
    BY <1>1, <1>7, <2>2 DEF AllTracked
  <2>4. Inv'
    <3>1. conn' \in [Ids -> Contract!ConnPhases \cup {"refused"}]
      BY <1>2, <2>1 DEF Contract!ConnPhases, Contract!Gaps
    <3>2. QED
      BY <1>2, <2>1, <2>3, <3>1, HandleStep
  <2>5. e = [kind |-> e.kind, id |-> e.id, stream |-> e.stream]
    BY <1>3 DEF Contract!Event
  <2>6. Contract!Hear(e.kind, e.id, e.stream)
    BY <1>2, <2>5 DEF Contract!Hear
  <2>7. CASE e.id = None
    <3>1. Contract!Listening
      BY <1>5, <1>6, <2>1, <2>6, <2>7 DEF Contract!Listening
    <3>2. QED
      BY <2>4, <3>1 DEF Allowed, Contract!Next
  <2>8. CASE e.id \in Ids /\ conn[e.id] = "refused"
    <3>1. PICK g \in Families, m \in Local, s \in Streams : e.id = ExternalId(g, m)
      BY <2>8, QuicConnectionAssumption DEF Ids
    <3>2. PICK a : a = [conn |-> conn[e.id], stream |-> stream[e.id][s]]
      OBVIOUS
    <3>3. Tracks(e.id, s, a, Q, MapEvents(g, transport[g].pending_events),
                 transport[g].connections[m], m >= transport[g].next_connection_id)
      BY <1>4, <3>1, <3>2 DEF AllTracked, TracksOne
    <3>4. a.conn = "refused" /\ a.conn \in Excused
      BY <2>8, <3>2 DEF Excused
    <3>5. QED
      BY <2>4, <3>3, <3>4 DEF Tracks, Allowed
  <2>9. CASE e.id \in Ids /\ conn[e.id] # "refused"
    <3>1. e.kind \in Contract!ConnEvents \cup Contract!StreamEvents /\ e.stream \in Streams \cup {None}
      BY <1>3, <1>5, <2>9 DEF Contract!Event
    <3>2. conn[e.id] \in Contract!Gaps
      BY <1>5, <1>8, <2>9 DEF Excused
    <3>3. conn' = IF e.kind = "Connected" THEN [conn EXCEPT ![e.id] = "gapped"] ELSE conn
      BY <1>2, <1>5, <2>1, <2>9, <3>2 DEF Contract!Gaps
    <3>4. Contract!Unordered(e.id)
      BY <2>1, <2>6, <3>1, <3>2, <3>3 DEF Contract!Unordered
    <3>5. QED
      BY <2>4, <2>9, <3>4 DEF Allowed, Contract!Next
  <2>10. QED
    BY <1>6, <2>7, <2>8, <2>9
<1>9. CASE ~(e.id = None \/ conn[e.id] \in Excused)
  <2>1. /\ conn' = IF e.kind \in DOMAIN TellsConn
                   THEN [conn EXCEPT ![e.id] = TellsConn[e.kind]] ELSE conn
        /\ stream' = IF e.kind \in DOMAIN TellsStream
                     THEN [stream EXCEPT ![e.id][e.stream] = TellsStream[e.kind]] ELSE stream
        /\ e.id \in Ids
    <3>1. PhaseAfter(conn[e.id], e.kind) =
            IF e.kind \in DOMAIN TellsConn THEN TellsConn[e.kind] ELSE conn[e.id]
      BY <1>9, PhaseAfterIs
    <3>2. /\ conn' = [conn EXCEPT ![e.id] = PhaseAfter(conn[e.id], e.kind)]
          /\ stream' = IF e.kind \in DOMAIN TellsStream
                       THEN [stream EXCEPT ![e.id][e.stream] = TellsStream[e.kind]] ELSE stream
          /\ e.id \in Ids
      BY <1>1, <1>6, <1>9 DEF Handle
    <3>3. QED
      BY <1>2, <3>1, <3>2
  <2>2. conn' \in [Ids -> Contract!ConnPhases \cup {"refused"}]
    BY <1>2, <2>1, KindsTell DEF Contract!ConnPhases
  <2>3. e.kind \in DOMAIN TellsStream => e.stream \in Streams /\ TellsStream[e.kind] \in Contract!StreamPhases
    BY <1>3, KindsTell DEF Contract!StreamPhases, Contract!Event, Contract!ConnEvents, StreamKinds
  <2>4. stream' \in [Ids -> [Streams -> Contract!StreamPhases]]
    BY <1>2, <2>1, <2>3
  <2>5. conn'[e.id] = ConnAfter(conn[e.id], e) /\ \A id \in Ids : id # e.id => conn'[id] = conn[id]
    BY <1>2, <2>1 DEF ConnAfter
  <2>6. /\ \A s \in Streams : stream'[e.id][s] = StreamAfter(stream[e.id][s], e, s)
        /\ \A id \in Ids : id # e.id => stream'[id] = stream[id]
    BY <1>2, <2>1, <2>3 DEF StreamAfter
  <2>7. PICK g \in Families, m \in Local : e.id = ExternalId(g, m)
    BY <2>1 DEF Ids
  <2>8. /\ TracksOne(g, m, tr[g], cn2, st2, Tail(Q))
        /\ \A s \in Streams : \E b \in Phase :
             Legal(e.id, s, [conn |-> cn[e.id], stream |-> st[e.id][s]], e, b)
    <3>1. /\ TracksOne(g, m, tr[g], cn, st, Q) /\ cn[ExternalId(g, m)] \notin Excused
          /\ cn2[ExternalId(g, m)] = ConnAfter(cn[ExternalId(g, m)], e)
          /\ \A s \in Streams : st2[ExternalId(g, m)][s] = StreamAfter(st[ExternalId(g, m)][s], e, s)
      BY <1>4, <1>7, <1>9, <2>5, <2>6, <2>7 DEF AllTracked
    <3>2. QED
      BY ONLY <1>2, <1>3, <2>7, <3>1, g \in Families, m \in Local, OneHandles
  <2>9. ASSUME NEW f \in Families, NEW n \in Local PROVE TracksOne(f, n, tr[f], cn2, st2, Tail(Q))
    <3>1. CASE ExternalId(f, n) = e.id
      BY <2>7, <2>8, <3>1, IdsDiffer
    <3>2. CASE ExternalId(f, n) # e.id
      <4>1. /\ TracksOne(f, n, tr[f], cn, st, Q) /\ Head(Q).id # ExternalId(f, n)
            /\ cn2[ExternalId(f, n)] = cn[ExternalId(f, n)] /\ st2[ExternalId(f, n)] = st[ExternalId(f, n)]
        BY <1>2, <1>4, <1>7, <2>5, <2>6, <3>2, IdOf DEF AllTracked
      <4>2. QED
        BY ONLY <1>2, <4>1, f \in Families, n \in Local, OneIgnores
    <3>3. QED
      BY <3>1, <3>2
  <2>10. AllTracked(transport, conn', stream', Tail(ready))
    BY <1>1, <1>7, <2>9 DEF AllTracked
  <2>11. Inv'
    BY <2>2, <2>4, <2>10, HandleStep
  <2>12. \A s \in Streams : \E b \in Phase :
           Legal(e.id, s, [conn |-> conn[e.id], stream |-> stream[e.id][s]], e, b)
    BY <1>7, <2>8
  <2>13. Allowed
    BY <1>2, <1>3, <2>1, <2>12, HearAllowed
  <2>14. QED
    BY <2>11, <2>13
<1>10. QED
  BY <1>8, <1>9

\* The host has handled them all and may poll again.
LEMMA HandledInv ==
    ASSUME Inv, Handled
    PROVE  Inv' /\ Allowed
<1>1. /\ heard' = Contract!Silence /\ conn' = conn /\ stream' = stream
      /\ UNCHANGED <<transport, poll, ready, inputs, calls, faults>>
  BY DEF Handled, Contract!Handled
<1>2. heard' \in [event : Contract!Event \cup {Contract!PollError, None}, turn : BOOLEAN]
  BY <1>1 DEF Contract!Silence
<1>3. TypeOK'
  BY <1>1, <1>2 DEF Inv, TypeOK
<1>4. TransportsOK' /\ PollOK' /\ Tracked'
  BY <1>1 DEF Inv, TransportsOK, PollOK, Tracked, Coming
<1>5. Allowed
  BY DEF Handled, Allowed, Contract!Next
<1>6. QED
  BY <1>3, <1>4, <1>5 DEF Inv

-----------------------------------------------------------------------------
(* The theorems.                                                           *)

\* A new transport, of which the host has heard nothing.
LEMMA InitInv ==
    ASSUME Init
    PROVE  Inv /\ Contract!Init
<1>1. << >> \in Seq(Contract!Event) /\ << >> \in Seq(QueuedEvent)
  OBVIOUS
<1>2. TransportOK(NewTransport) /\ NewTransport \in QuicTransport
  BY NewTransportOK DEF TransportOK
<1>3. /\ transport = [f \in Families |-> NewTransport] /\ poll = Idle /\ ready = << >>
      /\ conn = [c \in Ids |-> "none"]
      /\ stream = [c \in Ids |-> [s \in Streams |-> "none"]]
      /\ heard = Contract!Silence /\ Contract!Init /\ inputs = 0 /\ calls = 0 /\ faults = 0
  BY DEF Init, Contract!Init
<1>4. TypeOK
  <2>1. transport \in [Families -> QuicTransport]
    BY <1>2, <1>3
  <2>2. poll \in Polling
    BY <1>1, <1>3 DEF Idle, Polling
  <2>3. heard \in [event : Contract!Event \cup {Contract!PollError, None}, turn : BOOLEAN]
    BY <1>3 DEF Contract!Silence
  <2>4. /\ conn \in [Ids -> Contract!ConnPhases \cup {"refused"}]
        /\ stream \in [Ids -> [Streams -> Contract!StreamPhases]]
    BY <1>3 DEF Contract!ConnPhases, Contract!StreamPhases
  <2>5. QED
    BY <1>1, <1>3, <2>1, <2>2, <2>3, <2>4, QuicAssumption DEF TypeOK
<1>5. TransportsOK
  BY <1>2, <1>3 DEF TransportsOK
<1>6. poll.step = "idle" /\ PollOK /\ Coming = << >>
  BY <1>3 DEF PollOK, Idle, Coming
<1>7. ASSUME NEW f \in Families, NEW n \in Local, NEW s \in Streams
      PROVE  Tracks(ExternalId(f, n), s,
                    [conn |-> conn[ExternalId(f, n)], stream |-> stream[ExternalId(f, n)][s]],
                    << >>, MapEvents(f, transport[f].pending_events), transport[f].connections[n],
                    n >= transport[f].next_connection_id)
  <2>1. PICK id, a : id = ExternalId(f, n) /\ a = [conn |-> "none", stream |-> "none"]
    OBVIOUS
  <2>2. id \in Ids
    BY <2>1, IdOf
  <2>3. transport[f].pending_events = << >> /\ transport[f].connections[n] = None
    BY <1>3 DEF NewTransport
  <2>4. MapEvents(f, transport[f].pending_events) = << >>
    BY <2>3, MapNothing
  <2>5. a = [conn |-> conn[id], stream |-> stream[id][s]]
    BY <1>3, <2>1, <2>2
  <2>6. a \in Phase /\ a.conn = "none" /\ a.conn \notin Excused
    BY <2>1 DEF Phase, Excused, Contract!Gaps
  <2>7. Path(id, s, a, << >>, a)
    BY <2>6, PathEmpty
  <2>8. Matches(a, None, s)
    BY <2>6 DEF Matches
  <2>9. Tracks(id, s, a, << >>, << >>, None, n >= transport[f].next_connection_id)
    BY <2>1, <2>6, <2>7, <2>8 DEF Tracks
  <2>10. QED
    BY <2>1, <2>3, <2>4, <2>5, <2>9
<1>8. Tracked
  BY <1>6, <1>7 DEF Tracked, AllTracked, TracksOne
<1>9. QED
  BY <1>3, <1>4, <1>5, <1>6, <1>8 DEF Inv

\* A step that changes nothing.
LEMMA StutterInv ==
    ASSUME Inv, UNCHANGED vars
    PROVE  Inv' /\ Allowed
<1>1. /\ transport' = transport /\ poll' = poll /\ ready' = ready /\ conn' = conn
      /\ stream' = stream /\ heard' = heard /\ inputs' = inputs /\ calls' = calls
      /\ faults' = faults
  BY DEF vars
<1>2. TypeOK'
  BY <1>1 DEF Inv, TypeOK
<1>3. TransportsOK' /\ PollOK' /\ Tracked'
  BY <1>1 DEF Inv, TransportsOK, PollOK, Tracked, Coming
<1>4. QED
  BY <1>1, <1>2, <1>3 DEF Inv, Allowed, Contract!vars

\* Every step keeps the invariant, and is one that the contract allows.
LEMMA NextInv ==
    ASSUME Inv, [Next]_vars
    PROVE  Inv' /\ Allowed
<1>1. CASE BeginPoll
  BY <1>1, BeginPollInv
<1>2. CASE SocketFails
  BY <1>2, SocketFailsInv
<1>3. CASE AcceptConnection
  BY <1>3, AcceptInv
<1>4. CASE EndOfDatagrams
  BY <1>4, EndOfDatagramsInv
<1>5. CASE EndOfStreams
  BY <1>5, EndOfStreamsInv
<1>6. CASE Handle
  BY <1>6, HandleInv
<1>7. CASE Handled
  BY <1>7, HandledInv
<1>8. ASSUME NEW f \in Families, DialFails(f) \/ Listen(f) \/ \E p \in Peers : Dial(f, p)
      PROVE  Inv' /\ Allowed
  BY <1>8, DialFailsInv, ListenInv, DialInv
<1>9. ASSUME NEW id \in Ids,
             \/ OpenStreamCall(id) \/ CloseCall(id)
             \/ \E s \in Streams :
                  SendStreamCall(id, s) \/ CloseStreamWriteCall(id, s) \/ ResetStreamCall(id, s)
             \/ \E p \in Peers : VerifyPeerCall(id, p)
      PROVE  Inv' /\ Allowed
  BY <1>9, OpenStreamCallInv, CloseCallInv, SendStreamCallInv, CloseStreamWriteCallInv,
     ResetStreamCallInv, VerifyPeerCallInv
<1>10. ASSUME NEW n \in Local,
              \/ RecvAck(n) \/ RecvRefused(n) \/ RecvHandshake(n) \/ RecvClose(n) \/ PollConnection(n)
              \/ \E s \in Streams, unit \in {"data", "fin", "reset"} : RecvStreamInput(n, s, unit)
       PROVE  Inv' /\ Allowed
  BY <1>10, RecvAckInv, RecvRefusedInv, RecvHandshakeInv, RecvCloseInv, PollConnectionInv,
     RecvStreamInputInv
<1>11. CASE UNCHANGED vars
  BY <1>11, StutterInv
<1>12. QED
  BY <1>1, <1>2, <1>3, <1>4, <1>5, <1>6, <1>7, <1>8, <1>9, <1>10, <1>11 DEF Next

\* The part of the invariant on the indexes is IndexesAgree.
LEMMA InvIndexes ==
    ASSUME Inv
    PROVE  IndexesAgree
<1>1. \A f \in Families : TransportOK(transport[f]) /\ Live(f) = LiveOf(transport[f])
  BY DEF Inv, TransportsOK, Live, LiveOf
<1>2. QED
  BY <1>1 DEF TransportOK, IndexesAgree

\* The part of the invariant on each stream implies FinIsNotLost.
LEMMA InvFin ==
    ASSUME Inv
    PROVE  FinIsNotLost
<1> SUFFICES ASSUME NEW f \in Families, NEW n \in Live(f), NEW s \in Streams
             PROVE  LET c == transport[f].connections[n]
                        w == Pending(c, s)
                    IN  /\ \A i \in DOMAIN w : w[i] = "fin" => i = Len(w)
                        /\ c.stream_states[s] # None /\ c.send[s] \in {"unused", "open"} =>
                             (c.stream_states[s].local_write_closed <=> w # << >> /\ Last(w) = "fin")
                        /\ c.stream_states[s] = None /\ stream[ExternalId(f, n)][s] # "none" =>
                             c.send[s] \in {"fin", "shut"}
  BY DEF FinIsNotLost
<1>1. PICK c, t, id, w : /\ t = transport[f] /\ c = t.connections[n]
                         /\ id = ExternalId(f, n) /\ w = Pending(c, s)
  OBVIOUS
<1>2. n \in Local /\ c # None /\ ConnOK(c) /\ t.pending_events \in Seq(QueuedEvent)
  BY <1>1 DEF Live, LiveOf, Inv, TransportsOK, TransportOK, QuicTransport
<1>3. StreamOK(c, s)
  BY <1>2 DEF ConnOK
<1>4. FinIsLast(w) /\ Last(w) = w[Len(w)]
  BY <1>1, <1>3 DEF StreamOK, Last
<1>5. c.stream_states[s] # None =>
        /\ c.stream_states[s].local_write_closed \in BOOLEAN
        /\ EndsWithFin(w) => c.stream_states[s].local_write_closed
        /\ c.send[s] \in {"unused", "open"} /\ c.stream_states[s].local_write_closed => EndsWithFin(w)
  <2>1. c.stream_states[s] # None => c.stream_states[s] \in StreamRuntimeState
    BY <1>2 DEF ConnOK, Connection
  <2>2. QED
    BY <1>1, <1>3, <2>1 DEF StreamOK, StreamRuntimeState
<1>6. stream[id][s] # "none" => Serves(c, s)
  <2>1. PICK cn, st, Q, X, W, a, new :
          /\ cn = conn /\ st = stream /\ Q = Coming /\ X = Contract!Event
          /\ W = MapEvents(f, t.pending_events) /\ new = (n >= t.next_connection_id)
          /\ a = [conn |-> conn[id], stream |-> stream[id][s]]
    OBVIOUS
  <2>2. Q \in Seq(X) /\ W \in Seq(X)
    BY <1>2, <2>1, MapEventsSeq DEF Inv, TypeOK, Polling, Coming
  <2>3. Tracks(id, s, a, Q, W, c, new)
    BY <1>1, <1>2, <2>1 DEF Inv, Tracked, AllTracked, TracksOne
  <2>4. a.stream # "none" => Serves(c, s)
    BY ONLY <1>2, <2>2, <2>3, TracksServes
  <2>5. QED
    BY <2>1, <2>4
<1>7. QED
  BY <1>1, <1>4, <1>5, <1>6 DEF FinIsLast, EndsWithFin, Serves

\* What the host was told to be connected has the right certificate.
LEMMA InvProves ==
    ASSUME Inv, NEW id \in Ids, conn[id] \in {"connected", "gapped"},
           InternalId(id) \in Live(Family(id))
    PROVE  ProvesPeer(Conn(id))
<1>1. PICK f, n, t, c, s, a :
        /\ f = Family(id) /\ n = InternalId(id) /\ t = transport[f] /\ c = Conn(id)
        /\ s \in Streams /\ a = ToldOf(id, s)
  BY QuicConnectionAssumption
<1>2. f \in Families /\ n \in Local /\ ExternalId(f, n) = id /\ c = t.connections[n] /\ c # None
  BY <1>1, OfId DEF Conn, Live
<1>3. Tracks(id, s, a, Coming, MapEvents(f, t.pending_events), c, n >= t.next_connection_id)
  BY <1>1, <1>2 DEF Inv, Tracked, AllTracked, TracksOne, ToldOf
<1>4. a.conn \in {"connected", "gapped"}
  BY <1>1 DEF ToldOf
<1>5. QED
  BY <1>1, <1>2, <1>3, <1>4 DEF Tracks, Attested

\* The part of the invariant on what the host was told implies ToldIsTrue.
LEMMA InvToldIsTrue ==
    ASSUME Inv
    PROVE  ToldIsTrue
<1> SUFFICES ASSUME NEW id \in Ids, Calling, conn[id] = "connected"
             PROVE  /\ InternalId(id) \in Live(Family(id))
                    /\ Conn(id).established /\ Conn(id).peer_id # None
                    /\ ServesStreams(id)
  BY InvProves DEF ToldIsTrue
<1>1. PICK f, n, t, c, W, X :
        /\ f = Family(id) /\ n = InternalId(id) /\ t = transport[f] /\ c = Conn(id)
        /\ W = Waiting(id) /\ X = Contract!Event
  OBVIOUS
<1>2. f \in Families /\ n \in Local /\ ExternalId(f, n) = id
  BY <1>1, OfId
<1>3. c = t.connections[n] /\ W = MapEvents(f, t.pending_events)
  BY <1>1 DEF Conn, Waiting
<1>4. W \in Seq(X)
  BY <1>1, <1>2, <1>3, MapEventsSeq DEF Inv, TypeOK, QuicTransport
<1>5. ASSUME NEW s \in Streams
      PROVE  \E b \in Phase :
               /\ Matches(b, c, s) /\ Grows(ToldOf(id, s), b)
               /\ c = None => b = ToldOf(id, s)
               /\ c # None => (c.stream_states[s] = None => b.stream = stream[id][s])
  <2>1. PICK a : a = ToldOf(id, s)
    OBVIOUS
  <2>2. Tracks(id, s, a, << >>, W, c, n >= t.next_connection_id)
    BY <1>1, <1>2, <1>3, <2>1 DEF Inv, Tracked, AllTracked, TracksOne, Coming, Calling, ToldOf
  <2>3. a.conn \notin Excused /\ a.stream = stream[id][s]
    BY <2>1 DEF ToldOf, Excused, Contract!Gaps
  <2>4. PICK m \in Phase, b \in Phase :
          /\ Path(id, s, a, << >>, m) /\ Path(id, s, m, W, b) /\ Matches(b, c, s)
          /\ c = None => m = b
          /\ c # None => (c.stream_states[s] = None => m.stream = b.stream)
    BY <2>2, <2>3 DEF Tracks
  <2>5. m = a
    BY <2>4, PathEmpty
  <2>6. Grows(a, b)
    BY <1>4, <2>4, <2>5, PathGrows
  <2>7. QED
    BY <2>1, <2>3, <2>4, <2>5, <2>6
<1>6. c # None
  <2>1. PICK s \in Streams : TRUE
    BY QuicConnectionAssumption
  <2>2. SUFFICES ASSUME c = None PROVE FALSE
    OBVIOUS
  <2>3. Matches(ToldOf(id, s), c, s)
    BY <1>5, <2>2
  <2>4. QED
    BY <2>2, <2>3 DEF Matches, ToldOf
<1>7. n \in Live(f)
  BY <1>1, <1>2, <1>3, <1>6 DEF Live
<1>8. Callable(id)
  BY <1>1, <1>7 DEF Callable
<1>9. c.peer_id # None /\ c.established /\ ConnOK(c) /\ c.state # "Connecting"
  BY <1>1, <1>8, ConnectedEstablished, CallableOK
<1>10. ASSUME NEW s \in Streams, c.state = "Connected", stream[id][s] \in {"open", "half"}
       PROVE  /\ c.stream_states[s] # None
              /\ stream[id][s] = "half" => c.stream_states[s].remote_write_closed
  <2>1. PICK b \in Phase :
          /\ Matches(b, c, s) /\ Grows(ToldOf(id, s), b)
          /\ c.stream_states[s] = None => b.stream = stream[id][s]
    BY <1>5, <1>6
  <2>2. StreamMatches(b, c, s)
    BY <1>6, <1>9, <2>1 DEF Matches
  <2>3. c.stream_states[s] # None
    BY <1>10, <2>1, <2>2 DEF StreamMatches
  <2>4. ASSUME stream[id][s] = "half" PROVE c.stream_states[s].remote_write_closed
    <3>1. b.stream \in {"half", "closed"}
      BY <2>1, <2>4 DEF Grows, ToldOf
    <3>2. CASE b.stream = "half"
      BY <1>10, <2>2, <2>3, <3>2 DEF StreamMatches
    <3>3. CASE b.stream = "closed"
      <4>1. c.stream_states[s].closed_notified
        BY <2>2, <2>3, <3>3 DEF StreamMatches
      <4>2. StreamOK(c, s)
        BY <1>9 DEF ConnOK
      <4>3. QED
        BY <2>3, <4>1, <4>2 DEF StreamOK
    <3>4. QED
      BY <3>1, <3>2, <3>3
  <2>5. QED
    BY <2>3, <2>4
<1>11. c.state # "Closing" => c.state = "Connected"
  BY <1>9 DEF ConnOK, Connection, ConnectionState
<1>12. QED
  BY <1>1, <1>7, <1>9, <1>10, <1>11 DEF ServesStreams

\* The inductive invariant holds in every state.
THEOREM QuicInvariant == Spec => []Inv
<1>1. Init => Inv
  BY InitInv
<1>2. Inv /\ [Next]_vars => Inv'
  BY NextInv
<1>3. QED
  BY <1>1, <1>2, PTL DEF Spec

\* Every variable keeps its type; the events that are queued, collected and
\* returned name connections and streams that can exist.
THEOREM QuicTypes == Spec => []TypeOK
<1>1. Inv => TypeOK
  BY DEF Inv
<1>2. QED
  BY <1>1, QuicInvariant, PTL

\* peer_connections and cid_to_connection hold exactly the live connections,
\* each under the peer its endpoint names (index_peer_connection,
\* unindex_connection): for every number of connections, peers and streams.
THEOREM QuicIndexes == Spec => []IndexesAgree
<1>1. Inv => IndexesAgree
  BY InvIndexes
<1>2. QED
  BY <1>1, QuicInvariant, PTL

\* A FIN stays behind the bytes written before it, and neither
\* gc_closed_streams nor the early local_write_closed flag loses one.
THEOREM QuicFin == Spec => []FinIsNotLost
<1>1. Inv => FinIsNotLost
  BY InvFin
<1>2. QED
  BY <1>1, QuicInvariant, PTL

\* The host is told Connected only of a connection whose certificate proves a
\* peer, the one it dialed if it dialed (recv_packet), whatever
\* certificates the remotes have and however many polls fail; and the
\* transport serves the streams the host holds as open, unless poll() has lost
\* events of the connection or the connection is closing.
THEOREM QuicToldIsTrue == Spec => []ToldIsTrue
<1>1. Inv => ToldIsTrue
  BY InvToldIsTrue
<1>2. QED
  BY <1>1, QuicInvariant, PTL

\* With remotes that prove to be who they should be, the transport implements
\* the contract of the trait Transport: every event that poll() returns is in
\* its turn, except for connections of which a poll() that returned an error
\* has lost events.
THEOREM QuicImplementsContract ==
    ASSUME ~Impostors
    PROVE  Spec => ImplementsContract
<1>1. Init => Contract!Init
  BY InitInv
<1>2. Inv /\ [Next]_vars => [Contract!Next]_(Contract!vars)
  BY NextInv DEF Allowed
<1>3. QED
  BY <1>1, <1>2, QuicInvariant, PTL DEF Spec, ImplementsContract, Contract!Spec
=============================================================================
