-------------------------- MODULE SwarmViewProofs ---------------------------
(***************************************************************************)
(* What the application makes of its events, with a transport that         *)
(* authenticates in the handshake: the peers and streams it believes in    *)
(* are those the core's queries name, and no event of a peer comes before  *)
(* its ConnectionEstablished or behind its ConnectionClosed.               *)
(*                                                                         *)
(* These hold only once the events are delivered, so the invariant says    *)
(* what the events still waiting will do: Story(v, es, w), that hearing es *)
(* one after the other, each within the session of its peer, turns the     *)
(* view v into w.  Tuned(v, k) is the Story from the application's view to *)
(* what the core k answers, with what k itself needs to go on telling it:  *)
(* mapped peers are announced, and user streams are on mapped connections. *)
(* An operator of SwarmCore either says nothing of the view (Kept) or      *)
(* changes the core and appends the events that tell it.                   *)
(***************************************************************************)
EXTENDS SwarmProofs

\* The user streams that the application can use: stream s of peer p.
UserStreams(k) ==
    {ps \in PeerIds \X StreamIds : OwningConns(k, ps[1], ps[2], "User") # {}}

\* What the core's queries answer.
View(k) ==
    [connected |-> k.established_peers, ready |-> k.ready_peers, streams |-> UserStreams(k)]

\* An event about a verified peer finds it connected.
InSession(v, e) ==
    e.peer \in Peers /\ e.kind # "ConnectionEstablished" => e.peer \in v.connected

\* f are the views that the events es lead through, from v to w.
Replays(f, v, es, w) ==
    /\ f[0] = v /\ f[Len(es)] = w
    /\ \A i \in 1 .. Len(es) : f[i] = Told(f[i - 1], es[i]) /\ InSession(f[i - 1], es[i])

\* The events es, each in its peer's session, make w of what v knows.
Story(v, es, w) == \E f : Replays(f, v, es, w)

\* A verified peer with a connection has been announced, and only peers with a
\* connection are ready.
Announced(k) ==
    /\ \A p \in Peers : k.peer_to_conn[p] # None => p \in k.established_peers
    /\ \A p \in k.ready_peers : k.peer_to_conn[p] # None

\* An event may name p now.
Known(k, p) == p \in Peers => p \in k.established_peers

\* A user stream's connection is mapped.
HeldByPeer(k) ==
    \A c \in Conns, s \in StreamIds :
      k.stream_owner[<<c, s>>] = "User" => k.conn_to_peer[c] # None

\* The application, at v, will know what the core k knows once it has heard
\* the events of k.
Tuned(v, k) ==
    /\ k \in CoreState /\ MapsAgree(k) /\ Paired(k)
    /\ Announced(k) /\ HeldByPeer(k)
    /\ Story(v, k.events, View(k))

-----------------------------------------------------------------------------
(* Stories.                                                                *)

\* No event, no change.
LEMMA StoryEmpty ==
    ASSUME NEW v
    PROVE  Story(v, << >>, v)
<1> DEFINE f == [i \in {0} |-> v]
<1>1. f[0] = v
  OBVIOUS
<1>2. Len(<< >>) = 0 /\ 1 .. 0 = {}
  OBVIOUS
<1> HIDE DEF f
<1>3. Replays(f, v, << >>, v)
  BY <1>1, <1>2 DEF Replays
<1> QED
  BY <1>3 DEF Story

\* The other way round.
LEMMA StoryOver ==
    ASSUME NEW v, NEW w, Story(v, << >>, w)
    PROVE  v = w
<1> PICK f : Replays(f, v, << >>, w)
  BY DEF Story
<1> QED
  BY DEF Replays

\* One more event.
LEMMA StoryAppend ==
    ASSUME NEW v, NEW S, NEW es \in Seq(S), NEW w, Story(v, es, w),
           NEW e \in S, InSession(w, e)
    PROVE  Story(v, Append(es, e), Told(w, e))
<1> PICK f : Replays(f, v, es, w)
  BY DEF Story
<1> PICK n \in Nat : n = Len(es)
  OBVIOUS
<1> PICK u : u = Told(w, e)
  OBVIOUS
<1> PICK fs : fs = Append(es, e)
  OBVIOUS
<1>1. Len(fs) = n + 1 /\ fs[n + 1] = e /\ \A i \in 1 .. n : fs[i] = es[i]
  OBVIOUS
<1> DEFINE g == [i \in 0 .. n + 1 |-> IF i = n + 1 THEN u ELSE f[i]]
<1>2. g[n + 1] = u /\ \A i \in 0 .. n : g[i] = f[i]
  OBVIOUS
<1> HIDE DEF g
<1>3. g[0] = v /\ g[n] = w
  BY <1>2 DEF Replays
<1>4. ASSUME NEW i \in 1 .. n + 1
      PROVE  g[i] = Told(g[i - 1], fs[i]) /\ InSession(g[i - 1], fs[i])
  <2>1. CASE i = n + 1
    BY <1>1, <1>2, <1>3, <2>1
  <2>2. CASE i # n + 1
    <3>1. i \in 1 .. n /\ i - 1 \in 0 .. n
      BY <2>2
    <3>2. f[i] = Told(f[i - 1], es[i]) /\ InSession(f[i - 1], es[i])
      BY <3>1 DEF Replays
    <3>3. g[i] = f[i] /\ g[i - 1] = f[i - 1] /\ fs[i] = es[i]
      BY <1>1, <1>2, <3>1
    <3> QED
      BY <3>2, <3>3, Zenon
  <2> QED
    BY <2>1, <2>2
<1>5. Replays(g, v, fs, u)
  BY <1>1, <1>2, <1>3, <1>4 DEF Replays
<1> QED
  BY <1>5 DEF Story

\* The first event is heard.
LEMMA StoryTail ==
    ASSUME NEW v, NEW S, NEW es \in Seq(S), es # << >>, NEW w, Story(v, es, w)
    PROVE  InSession(v, Head(es)) /\ Story(Told(v, Head(es)), Tail(es), w)
<1> PICK f : Replays(f, v, es, w)
  BY DEF Story
<1> PICK n \in Nat : n = Len(es) - 1
  OBVIOUS
<1> PICK e : e = Head(es)
  OBVIOUS
<1> PICK fs : fs = Tail(es)
  OBVIOUS
<1>1. Len(es) = n + 1 /\ Len(fs) = n /\ es[1] = e /\ \A i \in 1 .. n : fs[i] = es[i + 1]
  OBVIOUS
<1>2. f[1] = Told(f[0], es[1]) /\ InSession(f[0], es[1])
  BY <1>1 DEF Replays
<1>3. f[1] = Told(v, e) /\ InSession(v, e)
  BY <1>1, <1>2, Zenon DEF Replays
<1> DEFINE g == [i \in 0 .. n |-> f[i + 1]]
<1>4. g[0] = f[1] /\ g[n] = f[n + 1] /\ \A i \in 0 .. n : g[i] = f[i + 1]
  OBVIOUS
<1> HIDE DEF g
<1>5. ASSUME NEW i \in 1 .. n
      PROVE  g[i] = Told(g[i - 1], fs[i]) /\ InSession(g[i - 1], fs[i])
  <2>1. i + 1 \in 1 .. Len(es) /\ (i + 1) - 1 = i /\ i - 1 \in 0 .. n /\ (i - 1) + 1 = i
    BY <1>1
  <2>2. f[i + 1] = Told(f[(i + 1) - 1], es[i + 1]) /\ InSession(f[(i + 1) - 1], es[i + 1])
    BY <2>1 DEF Replays
  <2>3. g[i] = f[i + 1] /\ g[i - 1] = f[i] /\ fs[i] = es[i + 1]
    BY <1>1, <1>4, <2>1
  <2> QED
    BY <2>1, <2>2, <2>3, Zenon
<1>6. g[n] = w
  BY <1>1, <1>4 DEF Replays
<1>7. Replays(g, Told(v, e), fs, w)
  BY <1>1, <1>3, <1>4, <1>5, <1>6 DEF Replays
<1> QED
  BY <1>3, <1>7 DEF Story

-----------------------------------------------------------------------------
(* Steps of a core.                                                        *)

\* j answers the application's queries as k does.
SameAnswers(k, j) ==
    /\ SameMaps(k, j)
    /\ j.stream_owner = k.stream_owner
    /\ j.established_peers = k.established_peers
    /\ j.ready_peers = k.ready_peers

\* Then the view is the same, and so is what Tuned says of the maps.
LEMMA SameView ==
    ASSUME NEW v, NEW k, Tuned(v, k), NEW j, SameAnswers(k, j)
    PROVE  /\ View(j) = View(k) /\ MapsAgree(j) /\ Paired(j)
           /\ Announced(j) /\ HeldByPeer(j)
<1>1. UserStreams(j) = UserStreams(k)
  BY DEF UserStreams, OwningConns, SameAnswers, SameMaps
<1>2. View(j) = View(k)
  BY <1>1 DEF View, SameAnswers
<1>3. MapsAgree(j) /\ Paired(j)
  BY SameMapsKeeps DEF Tuned, SameAnswers
<1> QED
  BY <1>2, <1>3 DEF Tuned, SameAnswers, SameMaps, Announced, HeldByPeer

\* Nothing is said and nothing changes.
LEMMA QuietTuned ==
    ASSUME NEW v, NEW k, Tuned(v, k), NEW j \in CoreState, SameAnswers(k, j), j.events = k.events
    PROVE  Tuned(v, j)
<1>1. /\ View(j) = View(k) /\ MapsAgree(j) /\ Paired(j)
      /\ Announced(j) /\ HeldByPeer(j)
  BY SameView
<1> QED
  BY <1>1 DEF Tuned

\* The core says what changes.
LEMMA SaysTuned ==
    ASSUME NEW v, NEW k, Tuned(v, k), NEW j \in CoreState, MapsAgree(j), Paired(j),
           Announced(j), HeldByPeer(j), NEW e \in SwarmEvent, j.events = Append(k.events, e),
           InSession(View(k), e), View(j) = Told(View(k), e)
    PROVE  Tuned(v, j)
<1>1. k.events \in Seq(SwarmEvent)
  BY DEF Tuned, CoreState
<1>2. Story(v, k.events, View(k))
  BY DEF Tuned
<1> PICK es \in Seq(SwarmEvent) : es = k.events
  BY <1>1
<1> PICK w : w = View(k)
  OBVIOUS
<1>3. Story(v, Append(es, e), Told(w, e))
  BY <1>2, StoryAppend
<1> QED
  BY <1>3 DEF Tuned

\* The events that tell the application of peers and streams.
Tells == {"ConnectionEstablished", "ConnectionClosed", "PeerReady", "UserStreamReady", "UserStreamClosed"}

\* Other events change nothing that it knows.
LEMMA ToldNothing ==
    ASSUME NEW v, NEW e, e.kind \notin Tells
    PROVE  Told(v, e) = v
BY Zenon DEF Told, Tells

\* An event that tells nothing of this.
LEMMA EmitTuned ==
    ASSUME NEW v, NEW k, Tuned(v, k), NEW kind \in EventKinds, kind \notin Tells,
           NEW p \in PeerIds \cup {None}, Known(k, p),
           NEW s \in StreamIds \cup {None}
    PROVE  Tuned(v, Emit(k, kind, p, s)) /\ SameAnswers(k, Emit(k, kind, p, s))
<1> PICK e : e = Event(kind, p, s)
  OBVIOUS
<1>1. e \in SwarmEvent /\ e.kind = kind /\ e.peer = p
  BY DEF Event, SwarmEvent
<1>2. k \in CoreState
  BY DEF Tuned
<1> PICK es : es = Append(k.events, e)
  OBVIOUS
<1>3. es \in Seq(SwarmEvent)
  BY <1>1, <1>2 DEF CoreState
<1> DEFINE j == [k EXCEPT !.events = es]
<1>4. j \in CoreState /\ SameAnswers(k, j) /\ j.events = es
  BY <1>2, <1>3 DEF CoreState, SameAnswers, SameMaps
<1>5. Emit(k, kind, p, s) = j
  BY DEF Emit
<1> HIDE DEF j
<1>6. /\ View(j) = View(k) /\ MapsAgree(j) /\ Paired(j)
      /\ Announced(j) /\ HeldByPeer(j)
  BY <1>4, SameView
<1>7. Told(View(k), e) = View(k)
  BY <1>1, ToldNothing
<1>8. InSession(View(k), e)
  BY <1>1 DEF InSession, View, Known
<1>9. Tuned(v, j)
  BY <1>1, <1>4, <1>6, <1>7, <1>8, SaysTuned
<1> QED
  BY <1>4, <1>5, <1>9

\* emit_error: errors tell nothing.
LEMMA ErrorTuned ==
    ASSUME NEW v, NEW k, Tuned(v, k), NEW kind \in ErrorKinds,
           NEW p \in PeerIds \cup {None}, Known(k, p)
    PROVE  Tuned(v, EmitError(k, kind, p)) /\ SameAnswers(k, EmitError(k, kind, p))
<1>1. kind \in EventKinds /\ kind \notin Tells
  BY DEF ErrorKinds, EventKinds, Tells
<1> QED
  BY <1>1, EmitTuned DEF EmitError

\* The core asks something of the transport.
LEMMA ActTuned ==
    ASSUME NEW v, NEW k, Tuned(v, k), NEW kind \in StreamActions, NEW c \in Conns,
           NEW s \in StreamIds \cup {None}
    PROVE  Tuned(v, Act(k, kind, c, s)) /\ SameAnswers(k, Act(k, kind, c, s))
<1> PICK a : a = StreamAction(kind, c, s)
  OBVIOUS
<1>1. a \in SwarmAction
  BY DEF StreamAction, SwarmAction, StreamActions
<1>2. k \in CoreState
  BY DEF Tuned
<1> PICK es : es = Append(k.actions, a)
  OBVIOUS
<1>3. es \in Seq(SwarmAction)
  BY <1>1, <1>2 DEF CoreState
<1> DEFINE j == [k EXCEPT !.actions = es]
<1>4. j \in CoreState /\ SameAnswers(k, j) /\ j.events = k.events
  BY <1>2, <1>3 DEF CoreState, SameAnswers, SameMaps
<1>5. Act(k, kind, c, s) = j
  BY DEF Act
<1> HIDE DEF j
<1>6. Tuned(v, j)
  BY <1>4, QuietTuned
<1> QED
  BY <1>4, <1>5, <1>6

\* Tuned(v, k) goes over to j, and what the core keeps of connections is the same.
Kept(v, k, j) ==
    /\ Tuned(v, j)
    /\ SameMaps(k, j)
    /\ j.stream_owner = k.stream_owner
    /\ j.established_peers = k.established_peers

\* Two such steps.
LEMMA KeptTrans ==
    ASSUME NEW v, NEW k, NEW j, Kept(v, k, j), NEW l, Kept(v, j, l)
    PROVE  Kept(v, k, l)
BY DEF Kept, SameMaps

\* The answers are the same: a special case.
LEMMA AnswersKept ==
    ASSUME NEW v, NEW k, NEW j, Tuned(v, j), SameAnswers(k, j)
    PROVE  Kept(v, k, j)
BY DEF Kept, SameAnswers

\* A peer that may be named, or a connection that is mapped, stays so.
LEMMA KeptKnown ==
    ASSUME NEW v, NEW k, NEW j, Kept(v, k, j), NEW p
    PROVE  /\ Known(k, p) => Known(j, p)
           /\ j.peer_to_conn = k.peer_to_conn
           /\ j.conn_to_peer = k.conn_to_peer
BY DEF Kept, SameMaps, Known

-----------------------------------------------------------------------------
(* The protocols' outputs.                                                 *)

\* The state of the protocols and the streams in the making say nothing to
\* the application.
LEMMA FieldsKept ==
    ASSUME NEW v, NEW k, Tuned(v, k)
    PROVE  /\ \A f \in [PeerIds -> Ping!PeerPingState] : Kept(v, k, [k EXCEPT !.ping = f])
           /\ \A f \in [PeerIds -> Identify!PeerIdentifyState] : Kept(v, k, [k EXCEPT !.identify = f])
           /\ \A f \in [PeerIds -> IdentifyInfo \cup {None}] : Kept(v, k, [k EXCEPT !.peer_info = f])
           /\ \A f \in [PeerIds -> Payloads \cup {None}] : Kept(v, k, [k EXCEPT !.pending_pings = f])
           /\ \A f \in SUBSET StreamKeys : Kept(v, k, [k EXCEPT !.inbound_negotiators = f])
           /\ \A f \in [StreamKeys -> ProtocolKind \cup {None}] :
                Kept(v, k, [k EXCEPT !.outbound_negotiators = f])
           /\ \A f \in SUBSET PendingOpen : Kept(v, k, [k EXCEPT !.pending_opens = f])
           /\ \A f \in Seq(SwarmAction) : Kept(v, k, [k EXCEPT !.actions = f])
<1>0. k \in CoreState
  BY DEF Tuned
<1>1. ASSUME NEW j \in CoreState, SameAnswers(k, j), j.events = k.events
      PROVE  Kept(v, k, j)
  BY <1>1, QuietTuned, AnswersKept
<1>2. ASSUME NEW f \in [PeerIds -> Ping!PeerPingState] PROVE Kept(v, k, [k EXCEPT !.ping = f])
  <2> PICK j : j = [k EXCEPT !.ping = f]
    OBVIOUS
  <2>1. j \in CoreState /\ SameAnswers(k, j) /\ j.events = k.events
    BY <1>0 DEF CoreState, SameAnswers, SameMaps
  <2> QED
    BY <1>1, <2>1
<1>3. ASSUME NEW f \in [PeerIds -> Identify!PeerIdentifyState] PROVE Kept(v, k, [k EXCEPT !.identify = f])
  <2> PICK j : j = [k EXCEPT !.identify = f]
    OBVIOUS
  <2>1. j \in CoreState /\ SameAnswers(k, j) /\ j.events = k.events
    BY <1>0 DEF CoreState, SameAnswers, SameMaps
  <2> QED
    BY <1>1, <2>1
<1>4. ASSUME NEW f \in [PeerIds -> IdentifyInfo \cup {None}] PROVE Kept(v, k, [k EXCEPT !.peer_info = f])
  <2> PICK j : j = [k EXCEPT !.peer_info = f]
    OBVIOUS
  <2>1. j \in CoreState /\ SameAnswers(k, j) /\ j.events = k.events
    BY <1>0 DEF CoreState, SameAnswers, SameMaps
  <2> QED
    BY <1>1, <2>1
<1>5. ASSUME NEW f \in [PeerIds -> Payloads \cup {None}] PROVE Kept(v, k, [k EXCEPT !.pending_pings = f])
  <2> PICK j : j = [k EXCEPT !.pending_pings = f]
    OBVIOUS
  <2>1. j \in CoreState /\ SameAnswers(k, j) /\ j.events = k.events
    BY <1>0 DEF CoreState, SameAnswers, SameMaps
  <2> QED
    BY <1>1, <2>1
<1>6. ASSUME NEW f \in SUBSET StreamKeys PROVE Kept(v, k, [k EXCEPT !.inbound_negotiators = f])
  <2> PICK j : j = [k EXCEPT !.inbound_negotiators = f]
    OBVIOUS
  <2>1. j \in CoreState /\ SameAnswers(k, j) /\ j.events = k.events
    BY <1>0 DEF CoreState, SameAnswers, SameMaps
  <2> QED
    BY <1>1, <2>1
<1>7. ASSUME NEW f \in [StreamKeys -> ProtocolKind \cup {None}] PROVE Kept(v, k, [k EXCEPT !.outbound_negotiators = f])
  <2> PICK j : j = [k EXCEPT !.outbound_negotiators = f]
    OBVIOUS
  <2>1. j \in CoreState /\ SameAnswers(k, j) /\ j.events = k.events
    BY <1>0 DEF CoreState, SameAnswers, SameMaps
  <2> QED
    BY <1>1, <2>1
<1>8. ASSUME NEW f \in SUBSET PendingOpen PROVE Kept(v, k, [k EXCEPT !.pending_opens = f])
  <2> PICK j : j = [k EXCEPT !.pending_opens = f]
    OBVIOUS
  <2>1. j \in CoreState /\ SameAnswers(k, j) /\ j.events = k.events
    BY <1>0 DEF CoreState, SameAnswers, SameMaps
  <2> QED
    BY <1>1, <2>1
<1>9. ASSUME NEW f \in Seq(SwarmAction) PROVE Kept(v, k, [k EXCEPT !.actions = f])
  <2> PICK j : j = [k EXCEPT !.actions = f]
    OBVIOUS
  <2>1. j \in CoreState /\ SameAnswers(k, j) /\ j.events = k.events
    BY <1>0 DEF CoreState, SameAnswers, SameMaps
  <2> QED
    BY <1>1, <2>1
<1> QED
  BY <1>2, <1>3, <1>4, <1>5, <1>6, <1>7, <1>8, <1>9

\* drain_ping_outputs
LEMMA DrainPingKept ==
    ASSUME NEW v, NEW k, Tuned(v, k), NEW p \in PeerIds, Known(k, p),
           NEW st, NEW r, PingResult(st, r)
    PROVE  Kept(v, k, DrainPing(k, p, r))
<1> DEFINE f  == [k.ping EXCEPT ![p] = r.st]
           k1 == [k EXCEPT !.ping = f]
           a  == r.actions[1]
           c  == ConnForOwnedStream(k, p, a.stream, "Ping")
           k2 == IF r.actions = << >> \/ c = None
                 THEN k1
                 ELSE Act(k1, PingActionKind(a), c, a.stream)
           e  == PingEventKind(r.events[1])
           k3 == IF r.events = << >> \/ e = None THEN k2 ELSE Emit(k2, e, p, None)
<1>0. k \in CoreState
  BY DEF Tuned
<1>1. f \in [PeerIds -> Ping!PeerPingState]
  BY <1>0 DEF PingResult, CoreState
<1> HIDE DEF f
<1>2. Kept(v, k, k1)
  BY <1>1, FieldsKept
<1> HIDE DEF k1
<1>3. Kept(v, k, k2)
  <2>1. CASE r.actions = << >> \/ c = None
    BY <1>2, <2>1
  <2>2. CASE ~(r.actions = << >> \/ c = None)
    <3>1. a \in Ping!PingAction
      BY <2>2 DEF PingResult
    <3>2. a.stream \in StreamIds /\ PingActionKind(a) \in StreamActions
      BY <3>1 DEF Ping!PingAction, Ping!ActionKinds, PingActionKind, StreamActions
    <3> PICK s \in StreamIds : s = a.stream
      BY <3>2
    <3> PICK kind \in StreamActions : kind = PingActionKind(a)
      BY <3>2
    <3> HIDE DEF a
    <3>3. c \in OwningConns(k, p, s, "Ping")
      BY <2>2, OwningConn
    <3> PICK d \in Conns : d = c
      BY <3>3 DEF OwningConns
    <3> HIDE DEF c
    <3>4. Tuned(v, Act(k1, kind, d, s)) /\ SameAnswers(k1, Act(k1, kind, d, s))
      BY <1>2, ActTuned DEF Kept
    <3>5. k2 = Act(k1, kind, d, s)
      BY <2>2
    <3> QED
      BY <1>2, <3>4, <3>5, AnswersKept, KeptTrans
  <2> QED
    BY <2>1, <2>2
<1> HIDE DEF k2
<1>4. Kept(v, k, k3)
  <2>1. CASE r.events = << >> \/ e = None
    BY <1>3, <2>1
  <2>2. CASE ~(r.events = << >> \/ e = None)
    <3>1. e \in {"PingRttMeasured", "PingTimeout", "Ping", None}
      BY Zenon DEF PingEventKind
    <3> PICK kind : kind = e
      OBVIOUS
    <3> HIDE DEF e
    <3>2. kind \in EventKinds /\ kind \notin Tells
      BY <2>2, <3>1 DEF EventKinds, ErrorKinds, Tells
    <3>3. Tuned(v, k2) /\ Known(k2, p)
      BY <1>3, KeptKnown DEF Kept
    <3>4. Tuned(v, Emit(k2, kind, p, None)) /\ SameAnswers(k2, Emit(k2, kind, p, None))
      BY <3>2, <3>3, EmitTuned
    <3> QED
      BY <1>3, <2>2, <3>4, AnswersKept, KeptTrans
  <2> QED
    BY <2>1, <2>2
<1> QED
  BY <1>4 DEF DrainPing, k3, e, k2, c, a, k1, f

\* try_emit_peer_ready: the application hears of it the moment it is so.
LEMMA TryReadyKept ==
    ASSUME NEW v, NEW k, Tuned(v, k), NEW p \in PeerIds, Known(k, p)
    PROVE  Kept(v, k, TryEmitPeerReady(k, p))
<1>0. k \in CoreState /\ MapsAgree(k) /\ Paired(k) /\ Announced(k) /\ HeldByPeer(k)
  BY DEF Tuned
<1> PICK e : e = Event("PeerReady", p, None)
  OBVIOUS
<1>1. e \in SwarmEvent /\ e.kind = "PeerReady" /\ e.peer = p
  BY DEF Event, SwarmEvent, EventKinds
<1> PICK es : es = Append(k.events, e)
  OBVIOUS
<1> PICK f : f = k.ready_peers \cup {p}
  OBVIOUS
<1>2. es \in Seq(SwarmEvent) /\ f \in SUBSET PeerIds
  BY <1>0, <1>1 DEF CoreState
<1> DEFINE j == [k EXCEPT !.ready_peers = f, !.events = es]
<1>3. /\ j \in CoreState /\ SameMaps(k, j) /\ j.events = es /\ j.stream_owner = k.stream_owner
      /\ j.established_peers = k.established_peers /\ j.ready_peers = f
  BY <1>0, <1>2 DEF CoreState, SameMaps
<1>4. Emit([k EXCEPT !.ready_peers = f], "PeerReady", p, None) = j
  BY <1>0 DEF Emit, CoreState
<1> HIDE DEF j
<1>5. MapsAgree(j) /\ Paired(j)
  BY <1>0, <1>3, SameMapsKeeps
<1>6. HeldByPeer(j) /\ (k.peer_to_conn[p] # None => Announced(j))
  BY <1>0, <1>3 DEF Announced, HeldByPeer, SameMaps
<1>7. UserStreams(j) = UserStreams(k)
  BY <1>3 DEF UserStreams, OwningConns, SameMaps
<1>8. Told(View(k), e) = [View(k) EXCEPT !.ready = @ \cup {p}]
  BY <1>1 DEF Told
<1>9. View(j) = Told(View(k), e)
  BY <1>3, <1>7, <1>8 DEF View
<1>10. InSession(View(k), e)
  BY <1>1 DEF InSession, View, Known
<1>11. k.peer_to_conn[p] # None => Tuned(v, j)
  BY <1>1, <1>3, <1>5, <1>6, <1>9, <1>10, SaysTuned
<1>12. k.peer_to_conn[p] # None => Kept(v, k, j)
  BY <1>3, <1>11 DEF Kept
<1>13. Kept(v, k, k)
  BY DEF Kept, SameMaps
<1> QED
  BY <1>4, <1>12, <1>13 DEF TryEmitPeerReady

\* drain_identify_outputs
LEMMA DrainIdentifyKept ==
    ASSUME NEW v, NEW k, Tuned(v, k), NEW p \in PeerIds, Known(k, p), NEW s \in StreamIds,
           NEW r, IdentifyResult(r)
    PROVE  Kept(v, k, DrainIdentify(k, p, s, r))
<1> DEFINE f  == [k.identify EXCEPT ![p] = r.st]
           k0 == [k EXCEPT !.identify = f]
           k1 == ExecuteIdentifyActions(k0, p, s, r.commands)
           i  == r.received[1]
           g  == [k1.peer_info EXCEPT ![p] = i]
           k2 == [k1 EXCEPT !.peer_info = g]
           k3 == Emit(k2, "IdentifyReceived", p, None)
           k4 == TryEmitPeerReady(k3, p)
<1>0. k \in CoreState
  BY DEF Tuned
<1>1. f \in [PeerIds -> Identify!PeerIdentifyState]
  BY <1>0 DEF IdentifyResult, CoreState
<1> HIDE DEF f
<1>2. Kept(v, k, k0)
  BY <1>1, FieldsKept
<1> HIDE DEF k0
<1>3. Kept(v, k, k1)
  <2>0. Tuned(v, k0) /\ k0 \in CoreState
    BY <1>2 DEF Kept, Tuned
  <2>1. CASE k0.peer_to_conn[p] = None
    BY <1>2, <2>1 DEF ExecuteIdentifyActions
  <2>2. CASE k0.peer_to_conn[p] # None
    <3> PICK c \in Conns : c = k0.peer_to_conn[p]
      BY <2>0, <2>2 DEF CoreState
    <3> PICK commands \in Seq({"SendStream", "CloseStreamWrite"}) : commands = r.commands
      BY DEF IdentifyResult
    <3> DEFINE new == [n \in DOMAIN commands |-> StreamAction(commands[n], c, s)]
    <3>1. new \in Seq(SwarmAction)
      <4>1. ASSUME NEW n \in DOMAIN commands
            PROVE  StreamAction(commands[n], c, s) \in SwarmAction
        BY DEF StreamAction, SwarmAction
      <4> QED
        BY <4>1
    <3> HIDE DEF new
    <3> PICK as : as = k0.actions \o new
      OBVIOUS
    <3>2. k0.actions \in Seq(SwarmAction)
      BY <2>0 DEF CoreState
    <3>3. as \in Seq(SwarmAction)
      BY <3>1, <3>2
    <3>4. k1 = [k0 EXCEPT !.actions = as]
      BY <2>2 DEF ExecuteIdentifyActions, new
    <3>5. Kept(v, k0, [k0 EXCEPT !.actions = as])
      BY ONLY <2>0, <3>3, FieldsKept
    <3> HIDE DEF k1
    <3> QED
      BY <1>2, <3>4, <3>5, KeptTrans
  <2> QED
    BY <2>1, <2>2
<1> HIDE DEF k1
<1>4. Tuned(v, k1) /\ Known(k1, p) /\ k1 \in CoreState
  BY <1>3, KeptKnown DEF Kept, Tuned
<1>5. CASE r.received = << >>
  BY <1>3, <1>5 DEF DrainIdentify, k1, k0, f
<1>6. CASE r.received # << >> /\ i = Malformed
  <2>1. Known(k1, None)
    BY PeersAssumption DEF Known, PeerIds
  <2>2. Kept(v, k1, EmitError(k1, "Identify", None))
    BY <1>4, <2>1, ErrorTuned, AnswersKept DEF ErrorKinds
  <2>3. DrainIdentify(k, p, s, r) = EmitError(k1, "Identify", None)
    BY <1>6 DEF DrainIdentify, HandleIdentifyEvent, k1, k0, f
  <2> QED
    BY <1>3, <2>2, <2>3, KeptTrans
<1>7. CASE r.received # << >> /\ i # Malformed
  <2>1. i \in IdentifyInfo
    BY <1>7 DEF IdentifyResult
  <2> HIDE DEF i
  <2>2. g \in [PeerIds -> IdentifyInfo \cup {None}]
    BY <1>4, <2>1 DEF CoreState
  <2> HIDE DEF g
  <2>3. Kept(v, k1, k2)
    BY <1>4, <2>2, FieldsKept
  <2> HIDE DEF k2
  <2>4. Kept(v, k2, k3)
    <3>1. Tuned(v, k2) /\ Known(k2, p)
      BY <1>4, <2>3, KeptKnown DEF Kept
    <3>2. "IdentifyReceived" \in EventKinds /\ "IdentifyReceived" \notin Tells
      BY DEF EventKinds, Tells
    <3> QED
      BY <3>1, <3>2, EmitTuned, AnswersKept
  <2> HIDE DEF k3
  <2>5. Kept(v, k, k3)
    BY <1>3, <2>3, <2>4, KeptTrans
  <2>6. Kept(v, k3, k4)
    BY <2>5, TryReadyKept, KeptKnown DEF Kept
  <2> HIDE DEF k4
  <2>7. Kept(v, k, k4)
    BY <2>5, <2>6, KeptTrans
  <2>8. DrainIdentify(k, p, s, r) = k4
    BY <1>7 DEF DrainIdentify, HandleIdentifyEvent, k4, k3, k2, g, i, k1, k0, f
  <2> QED
    BY <2>7, <2>8
<1> QED
  BY <1>5, <1>6, <1>7

-----------------------------------------------------------------------------
(* Who owns a stream.                                                      *)

\* j is k with another owner of stream s of connection c.
Reowned(v, k, j, c, s, kind) ==
    /\ Tuned(v, j)
    /\ SameMaps(k, j)
    /\ j.established_peers = k.established_peers
    /\ j.stream_owner[<<c, s>>] = kind

\* What set_owner leaves alone.
LEMMA SetOwnerIs ==
    ASSUME NEW k \in CoreState, NEW c \in Conns, NEW s \in StreamIds,
           NEW kind \in ProtocolKind \cup {None}, NEW j, j = SetOwner(k, c, s, kind)
    PROVE  /\ j \in CoreState /\ SameMaps(k, j) /\ j.events = k.events
           /\ j.established_peers = k.established_peers /\ j.ready_peers = k.ready_peers
           /\ j.stream_owner[<<c, s>>] = kind
           /\ \A d \in Conns, t \in StreamIds :
                <<d, t>> # <<c, s>> => j.stream_owner[<<d, t>>] = k.stream_owner[<<d, t>>]
<1> PICK f : f = [k.stream_owner EXCEPT ![<<c, s>>] = kind]
  OBVIOUS
<1>0. <<c, s>> \in StreamKeys /\ \A d \in Conns, t \in StreamIds : <<d, t>> \in StreamKeys
  BY DEF StreamKeys
<1>1. /\ f \in [StreamKeys -> ProtocolKind \cup {None}] /\ f[<<c, s>>] = kind
      /\ \A cs \in StreamKeys : cs # <<c, s>> => f[cs] = k.stream_owner[cs]
  BY <1>0 DEF CoreState
<1>2. j = [k EXCEPT !.stream_owner = f]
  BY DEF SetOwner
<1>3. /\ j \in CoreState /\ SameMaps(k, j) /\ j.events = k.events
      /\ j.established_peers = k.established_peers /\ j.ready_peers = k.ready_peers
      /\ j.stream_owner = f
  BY <1>1, <1>2 DEF CoreState, SameMaps
<1> QED
  BY <1>0, <1>1, <1>3

\* What emit leaves alone.
LEMMA EmitIs ==
    ASSUME NEW k \in CoreState, NEW kind, NEW p, NEW s, NEW e \in SwarmEvent,
           e = Event(kind, p, s), NEW j, j = Emit(k, kind, p, s)
    PROVE  /\ j \in CoreState /\ SameMaps(k, j) /\ j.events = Append(k.events, e)
           /\ j.stream_owner = k.stream_owner /\ j.established_peers = k.established_peers
           /\ j.ready_peers = k.ready_peers
<1> PICK es : es = Append(k.events, e)
  OBVIOUS
<1>1. es \in Seq(SwarmEvent)
  BY DEF CoreState
<1>2. j = [k EXCEPT !.events = es]
  BY DEF Emit
<1> QED
  BY <1>1, <1>2 DEF CoreState, SameMaps

\* A stream that no user owns, before or after.
LEMMA OwnerTuned ==
    ASSUME NEW v, NEW k, Tuned(v, k), NEW c \in Conns, NEW s \in StreamIds,
           k.stream_owner[<<c, s>>] # "User", NEW kind \in ProtocolKind \cup {None}, kind # "User"
    PROVE  Reowned(v, k, SetOwner(k, c, s, kind), c, s, kind)
<1> PICK j : j = SetOwner(k, c, s, kind)
  OBVIOUS
<1>0. k \in CoreState /\ MapsAgree(k) /\ Paired(k) /\ Announced(k) /\ HeldByPeer(k)
  BY DEF Tuned
<1>1. /\ j \in CoreState /\ SameMaps(k, j) /\ j.events = k.events
      /\ j.established_peers = k.established_peers /\ j.ready_peers = k.ready_peers
      /\ j.stream_owner[<<c, s>>] = kind
      /\ \A d \in Conns, t \in StreamIds :
           <<d, t>> # <<c, s>> => j.stream_owner[<<d, t>>] = k.stream_owner[<<d, t>>]
  BY <1>0, SetOwnerIs
<1>2. \A d \in Conns, t \in StreamIds :
        j.stream_owner[<<d, t>>] = "User" <=> k.stream_owner[<<d, t>>] = "User"
  BY <1>1
<1>3. UserStreams(j) = UserStreams(k)
  BY <1>1, <1>2 DEF UserStreams, OwningConns, SameMaps
<1>4. View(j) = View(k)
  BY <1>1, <1>3 DEF View
<1>5. MapsAgree(j) /\ Paired(j)
  BY <1>0, <1>1, SameMapsKeeps
<1>6. Announced(j)
  BY <1>0, <1>1 DEF Announced, SameMaps
<1>7. HeldByPeer(j)
  BY <1>0, <1>1, <1>2 DEF HeldByPeer, SameMaps
<1>8. Tuned(v, j)
  BY <1>1, <1>4, <1>5, <1>6, <1>7 DEF Tuned
<1> QED
  BY <1>1, <1>8 DEF Reowned

\* A user's stream is ready, and the application is told so.
LEMMA UserReadyTuned ==
    ASSUME NEW v, NEW k, Tuned(v, k), NEW c \in Conns, NEW s \in StreamIds,
           NEW p \in PeerIds, k.conn_to_peer[c] = p, Known(k, p)
    PROVE  Tuned(v, Emit(SetOwner(k, c, s, "User"), "UserStreamReady", p, s))
<1> PICK l : l = SetOwner(k, c, s, "User")
  OBVIOUS
<1>0. k \in CoreState /\ MapsAgree(k) /\ Paired(k) /\ Announced(k) /\ HeldByPeer(k)
  BY DEF Tuned
<1>1. /\ l \in CoreState /\ SameMaps(k, l) /\ l.events = k.events
      /\ l.established_peers = k.established_peers /\ l.ready_peers = k.ready_peers
      /\ l.stream_owner[<<c, s>>] = "User"
      /\ \A d \in Conns, t \in StreamIds :
           <<d, t>> # <<c, s>> => l.stream_owner[<<d, t>>] = k.stream_owner[<<d, t>>]
  <2>1. "User" \in ProtocolKind \cup {None}
    BY DEF ProtocolKind
  <2> QED
    BY <1>0, <2>1, SetOwnerIs
<1> PICK e : e = Event("UserStreamReady", p, s)
  OBVIOUS
<1>2. e \in SwarmEvent /\ e.kind = "UserStreamReady" /\ e.peer = p /\ e.stream = s
  BY DEF Event, SwarmEvent, EventKinds
<1> PICK j : j = Emit(l, "UserStreamReady", p, s)
  OBVIOUS
<1>3. /\ j \in CoreState /\ SameMaps(l, j) /\ j.events = Append(k.events, e)
      /\ j.stream_owner = l.stream_owner /\ j.established_peers = l.established_peers
      /\ j.ready_peers = l.ready_peers
  BY <1>1, <1>2, EmitIs
<1>4. SameMaps(k, j) /\ p = j.conn_to_peer[c] /\ p # None
  BY <1>1, <1>3, PeersAssumption DEF SameMaps
<1>5. MapsAgree(j) /\ Paired(j)
  BY <1>0, <1>4, SameMapsKeeps
<1>6. Announced(j)
  BY <1>0, <1>1, <1>3, <1>4 DEF Announced, SameMaps
<1>7. HeldByPeer(j)
  <2> SUFFICES ASSUME NEW d \in Conns, NEW t \in StreamIds, j.stream_owner[<<d, t>>] = "User"
               PROVE  j.conn_to_peer[d] # None
    BY DEF HeldByPeer
  <2>1. CASE <<d, t>> = <<c, s>>
    BY <1>4, <2>1
  <2>2. CASE <<d, t>> # <<c, s>>
    BY <1>0, <1>1, <1>3, <1>4, <2>2 DEF HeldByPeer, SameMaps
  <2> QED
    BY <2>1, <2>2
<1>8. UserStreams(j) = UserStreams(k) \cup {<<p, s>>}
  <2>1. ASSUME NEW q \in PeerIds, NEW t \in StreamIds, <<q, t>> # <<p, s>>
        PROVE  OwningConns(j, q, t, "User") = OwningConns(k, q, t, "User")
    <3>1. ASSUME NEW d \in Conns, k.conn_to_peer[d] = q
          PROVE  j.stream_owner[<<d, t>>] = k.stream_owner[<<d, t>>]
      <4>1. <<d, t>> # <<c, s>>
        BY <2>1, <3>1
      <4> QED
        BY <1>1, <1>3, <4>1
    <3> QED
      BY <1>4, <3>1 DEF OwningConns, SameMaps
  <2>2. c \in OwningConns(j, p, s, "User")
    BY <1>1, <1>3, <1>4 DEF OwningConns
  <2> QED
    BY <2>1, <2>2 DEF UserStreams
<1>9. Told(View(k), e) = [View(k) EXCEPT !.streams = @ \cup {<<p, s>>}]
  BY <1>2 DEF Told
<1>10. View(j) = Told(View(k), e)
  BY <1>1, <1>3, <1>8, <1>9 DEF View
<1>11. InSession(View(k), e)
  BY <1>2 DEF InSession, View, Known
<1>12. Tuned(v, j)
  BY <1>2, <1>3, <1>5, <1>6, <1>7, <1>10, <1>11, SaysTuned
<1> QED
  BY <1>12

\* A user's stream is gone, and the application is told so.
LEMMA UserGoneTuned ==
    ASSUME NEW v, NEW k, Tuned(v, k), NEW c \in Conns, NEW s \in StreamIds,
           k.stream_owner[<<c, s>>] = "User",
           NEW p \in PeerIds, k.conn_to_peer[c] = p, Known(k, p)
    PROVE  Tuned(v, Emit(SetOwner(k, c, s, None), "UserStreamClosed", p, s))
<1> PICK l : l = SetOwner(k, c, s, None)
  OBVIOUS
<1>0. k \in CoreState /\ MapsAgree(k) /\ Paired(k) /\ Announced(k) /\ HeldByPeer(k)
  BY DEF Tuned
<1>1. /\ l \in CoreState /\ SameMaps(k, l) /\ l.events = k.events
      /\ l.established_peers = k.established_peers /\ l.ready_peers = k.ready_peers
      /\ l.stream_owner[<<c, s>>] = None
      /\ \A d \in Conns, t \in StreamIds :
           <<d, t>> # <<c, s>> => l.stream_owner[<<d, t>>] = k.stream_owner[<<d, t>>]
  BY <1>0, SetOwnerIs
<1> PICK e : e = Event("UserStreamClosed", p, s)
  OBVIOUS
<1>2. e \in SwarmEvent /\ e.kind = "UserStreamClosed" /\ e.peer = p /\ e.stream = s
  BY DEF Event, SwarmEvent, EventKinds
<1> PICK j : j = Emit(l, "UserStreamClosed", p, s)
  OBVIOUS
<1>3. /\ j \in CoreState /\ SameMaps(l, j) /\ j.events = Append(k.events, e)
      /\ j.stream_owner = l.stream_owner /\ j.established_peers = l.established_peers
      /\ j.ready_peers = l.ready_peers
  BY <1>1, <1>2, EmitIs
<1>4. SameMaps(k, j)
  BY <1>1, <1>3 DEF SameMaps
<1>5. MapsAgree(j) /\ Paired(j)
  BY <1>0, <1>4, SameMapsKeeps
<1>6. Announced(j)
  BY <1>0, <1>1, <1>3, <1>4 DEF Announced, SameMaps
<1>a. None # "User"
  BY AbsentAssumption DEF ProtocolKind
<1>7. HeldByPeer(j)
  <2> SUFFICES ASSUME NEW d \in Conns, NEW t \in StreamIds, j.stream_owner[<<d, t>>] = "User"
               PROVE  j.conn_to_peer[d] # None
    BY DEF HeldByPeer
  <2>1. <<d, t>> # <<c, s>>
    BY <1>1, <1>3, <1>a
  <2> QED
    BY <1>0, <1>1, <1>3, <1>4, <2>1 DEF HeldByPeer, SameMaps
<1>8. UserStreams(j) = UserStreams(k) \ {<<p, s>>}
  <2>1. ASSUME NEW q \in PeerIds, NEW t \in StreamIds, <<q, t>> # <<p, s>>
        PROVE  OwningConns(j, q, t, "User") = OwningConns(k, q, t, "User")
    <3>1. ASSUME NEW d \in Conns, k.conn_to_peer[d] = q
          PROVE  j.stream_owner[<<d, t>>] = k.stream_owner[<<d, t>>]
      <4>1. <<d, t>> # <<c, s>>
        BY <2>1, <3>1
      <4> QED
        BY <1>1, <1>3, <4>1
    <3> QED
      BY <1>4, <3>1 DEF OwningConns, SameMaps
  <2>2. OwningConns(j, p, s, "User") = {}
    <3> SUFFICES ASSUME NEW d \in Conns, j.conn_to_peer[d] = p, j.stream_owner[<<d, s>>] = "User"
                 PROVE  FALSE
      BY DEF OwningConns
    <3>1. k.peer_to_conn[p] = d /\ k.peer_to_conn[p] = c
      BY <1>0, <1>4, PeersAssumption DEF Paired, NoOrphan, SameMaps
    <3> QED
      BY <1>1, <1>3, <1>a, <3>1
  <2> QED
    BY <2>1, <2>2 DEF UserStreams
<1>9. Told(View(k), e) = [View(k) EXCEPT !.streams = @ \ {<<p, s>>}]
  BY <1>2 DEF Told
<1>10. View(j) = Told(View(k), e)
  BY <1>1, <1>3, <1>8, <1>9 DEF View
<1>11. InSession(View(k), e)
  BY <1>2 DEF InSession, View, Known
<1>12. Tuned(v, j)
  BY <1>2, <1>3, <1>5, <1>6, <1>7, <1>10, <1>11, SaysTuned
<1> QED
  BY <1>12

-----------------------------------------------------------------------------
(* Data, and the end of streams.                                           *)

\* Connection c is mapped to p, which may be named.
Meets(v, k, c, p) ==
    /\ Tuned(v, k) /\ k \in CoreState /\ k.conn_to_peer[c] = p /\ Known(k, p)
    /\ k.ping[p] \in Ping!PeerPingState
    /\ k.identify[p] \in Identify!PeerIdentifyState

\* A mapped connection's peer may be named.
LEMMA MappedKnown ==
    ASSUME NEW v, NEW k, Tuned(v, k), NEW c \in Conns, NEW p \in PeerIds, k.conn_to_peer[c] = p
    PROVE  Meets(v, k, c, p)
<1>1. k \in CoreState /\ Paired(k) /\ Announced(k)
  BY DEF Tuned
<1>2. k.peer_to_conn[p] = c /\ c # None
  BY <1>1, PeersAssumption, ConnsAssumption DEF Paired, NoOrphan
<1>3. Known(k, p)
  BY <1>1, <1>2 DEF Known, Announced
<1> QED
  BY <1>1, <1>3 DEF Meets, CoreState

\* ensure_peer_id_for_conn
LEMMA EnsureTuned ==
    ASSUME NEW v, NEW k, Tuned(v, k), NEW c \in Conns, NEW j, j = EnsurePeerIdForConn(k, c)
    PROVE  /\ Tuned(v, j) /\ j.stream_owner = k.stream_owner
           /\ j.conn_to_peer[c] \in PeerIds
           /\ Meets(v, j, c, j.conn_to_peer[c])
<1>0. k \in CoreState /\ MapsAgree(k) /\ Paired(k) /\ Announced(k) /\ HeldByPeer(k)
  BY DEF Tuned
<1>1. CASE k.conn_to_peer[c] # None
  <2>1. j = k
    BY <1>1 DEF EnsurePeerIdForConn
  <2>2. k.conn_to_peer[c] \in PeerIds
    BY <1>0, <1>1 DEF CoreState
  <2> QED
    BY <2>1, <2>2, MappedKnown
<1>2. CASE k.conn_to_peer[c] = None
  <2> PICK y \in PeerIds : y = Synthetic(c)
    BY DEF PeerIds, Synthetics
  <2> DEFINE f == [k.conn_to_peer EXCEPT ![c] = y]
             g == [k.peer_to_conn EXCEPT ![y] = c]
  <2>1. /\ f \in [Conns -> PeerIds \cup {None}] /\ f[c] = y
        /\ \A d \in Conns : d # c => f[d] = k.conn_to_peer[d]
        /\ g \in [PeerIds -> Conns \cup {None}] /\ g[y] = c
        /\ \A q \in PeerIds : q # y => g[q] = k.peer_to_conn[q]
    BY <1>0 DEF CoreState
  <2> HIDE DEF f, g
  <2>2. j = [k EXCEPT !.conn_to_peer = f, !.peer_to_conn = g]
    BY <1>2 DEF EnsurePeerIdForConn, f, g
  <2>3. /\ j \in CoreState /\ j.conn_to_peer = f /\ j.peer_to_conn = g
        /\ j.stream_owner = k.stream_owner /\ j.events = k.events
        /\ j.established_peers = k.established_peers /\ j.ready_peers = k.ready_peers
    BY <1>0, <2>1, <2>2 DEF CoreState
  <2>4. MapsAgree(j) /\ Paired(j)
    <3>1. HasMaps(k)
      BY <1>0 DEF CoreState, HasMaps
    <3> QED
      BY <1>0, <3>1, EnsureKeeps
  <2>5. Announced(j)
    <3>1. y \notin Peers /\ Peers \subseteq PeerIds
      BY PeersAssumption DEF Synthetics, PeerIds
    <3> QED
      BY <1>0, <2>1, <2>3, <3>1, ConnsAssumption DEF Announced, CoreState
  <2>6. HeldByPeer(j)
    BY <1>0, <2>1, <2>3, PeersAssumption DEF HeldByPeer
  <2>7. ASSUME NEW q \in PeerIds, NEW t \in StreamIds
        PROVE  OwningConns(j, q, t, "User") = OwningConns(k, q, t, "User")
    <3>1. k.stream_owner[<<c, t>>] # "User"
      BY <1>0, <1>2 DEF HeldByPeer
    <3> QED
      BY <2>1, <2>3, <3>1 DEF OwningConns
  <2>8. UserStreams(j) = UserStreams(k)
    BY <2>7 DEF UserStreams
  <2>9. View(j) = View(k)
    BY <2>3, <2>8 DEF View
  <2>10. Tuned(v, j)
    BY <2>3, <2>4, <2>5, <2>6, <2>9 DEF Tuned
  <2> QED
    BY <2>1, <2>3, <2>10, MappedKnown
<1> QED
  BY <1>1, <1>2

\* dispatch_protocol_data
LEMMA DispatchTuned ==
    ASSUME NEW v, NEW k, Tuned(v, k), NEW c \in Conns, NEW s \in StreamIds,
           NEW chunk, chunk.len \in Nat
    PROVE  Tuned(v, DispatchProtocolData(k, c, s, chunk))
<1> PICK k1 : k1 = EnsurePeerIdForConn(k, c)
  OBVIOUS
<1> PICK p \in PeerIds : p = k1.conn_to_peer[c]
  BY EnsureTuned
<1>1. Meets(v, k1, c, p)
  BY EnsureTuned
<1>2. /\ Tuned(v, k1) /\ k1 \in CoreState /\ Known(k1, p)
      /\ k1.ping[p] \in Ping!PeerPingState /\ k1.identify[p] \in Identify!PeerIdentifyState
  BY <1>1 DEF Meets
<1> DEFINE d1 == DrainPing(k1, p, Ping!OnStreamData(k1.ping[p], p, s, chunk.len, chunk.payload))
           d2 == DrainIdentify(k1, p, s, Identify!OnStreamData(k1.identify[p], s, chunk.oversize))
           d3 == Emit(k1, "UserStreamData", p, s)
<1>3. Tuned(v, d1)
  <2> PICK r : r = Ping!OnStreamData(k1.ping[p], p, s, chunk.len, chunk.payload)
    OBVIOUS
  <2>1. PingResult(k1.ping[p], r)
    BY <1>2, PingReceives
  <2> QED
    BY <1>2, <2>1, DrainPingKept DEF Kept
<1>4. Tuned(v, d2)
  <2> PICK r : r = Identify!OnStreamData(k1.identify[p], s, chunk.oversize)
    OBVIOUS
  <2>1. IdentifyResult(r)
    BY <1>2, IdentifyHandlers
  <2> QED
    BY <1>2, <2>1, DrainIdentifyKept DEF Kept
<1>5. Tuned(v, d3)
  <2>1. "UserStreamData" \in EventKinds /\ "UserStreamData" \notin Tells
    BY DEF EventKinds, Tells
  <2> QED
    BY <1>2, <2>1, EmitTuned
<1> HIDE DEF d1, d2, d3
<1>6. DispatchProtocolData(k, c, s, chunk) \in {d1, d2, k1, d3, k}
  BY Zenon DEF DispatchProtocolData, d1, d2, d3
<1> QED
  BY <1>2, <1>3, <1>4, <1>5, <1>6

\* handle_stream_remote_write_closed
LEMMA RemoteClosedTuned ==
    ASSUME NEW v, NEW k, Tuned(v, k), NEW c \in Conns, NEW s \in StreamIds,
           NEW decoded \in IdentifyInfo \cup {Malformed}
    PROVE  Tuned(v, HandleStreamRemoteWriteClosed(k, c, s, decoded))
<1> PICK k1 : k1 = EnsurePeerIdForConn(k, c)
  OBVIOUS
<1> PICK p \in PeerIds : p = k1.conn_to_peer[c]
  BY EnsureTuned
<1>1. Meets(v, k1, c, p)
  BY EnsureTuned
<1>2. /\ Tuned(v, k1) /\ k1 \in CoreState /\ Known(k1, p)
      /\ k1.ping[p] \in Ping!PeerPingState /\ k1.identify[p] \in Identify!PeerIdentifyState
  BY <1>1 DEF Meets
<1> DEFINE d1 == DrainPing(k1, p, Ping!OnStreamRemoteWriteClosed(k1.ping[p], p, s))
           d2 == DrainIdentify(k1, p, s,
                   Identify!OnStreamRemoteWriteClosed(k1.identify[p], s, decoded))
           d3 == Emit(k1, "UserStreamRemoteWriteClosed", p, s)
<1>3. Tuned(v, d1)
  <2> PICK r : r = Ping!OnStreamRemoteWriteClosed(k1.ping[p], p, s)
    OBVIOUS
  <2>1. PingResult(k1.ping[p], r)
    BY <1>2, PingEnds
  <2> QED
    BY <1>2, <2>1, DrainPingKept DEF Kept
<1>4. Tuned(v, d2)
  <2> PICK r : r = Identify!OnStreamRemoteWriteClosed(k1.identify[p], s, decoded)
    OBVIOUS
  <2>1. IdentifyResult(r)
    BY <1>2, IdentifyHandlers
  <2> QED
    BY <1>2, <2>1, DrainIdentifyKept DEF Kept
<1>5. Tuned(v, d3)
  <2>1. "UserStreamRemoteWriteClosed" \in EventKinds /\ "UserStreamRemoteWriteClosed" \notin Tells
    BY DEF EventKinds, Tells
  <2> QED
    BY <1>2, <2>1, EmitTuned
<1> HIDE DEF d1, d2, d3
<1>6. HandleStreamRemoteWriteClosed(k, c, s, decoded) \in {d1, d2, k1, d3, k}
  BY Zenon DEF HandleStreamRemoteWriteClosed, d1, d2, d3
<1> QED
  BY <1>2, <1>3, <1>4, <1>5, <1>6

\* The negotiators forget a stream.
LEMMA PruneTuned ==
    ASSUME NEW v, NEW k, Tuned(v, k), NEW c \in Conns, NEW s \in StreamIds
    PROVE  /\ Kept(v, k, [k EXCEPT !.inbound_negotiators = @ \ {<<c, s>>}])
           /\ Kept(v, k, [k EXCEPT !.outbound_negotiators = [@ EXCEPT ![<<c, s>>] = None]])
           /\ Tuned(v, [k EXCEPT !.inbound_negotiators  = @ \ {<<c, s>>},
                                 !.outbound_negotiators = [@ EXCEPT ![<<c, s>>] = None]])
<1>0. k \in CoreState
  BY DEF Tuned
<1> PICK f : f = k.inbound_negotiators \ {<<c, s>>}
  OBVIOUS
<1> PICK g : g = [k.outbound_negotiators EXCEPT ![<<c, s>>] = None]
  OBVIOUS
<1>1. f \in SUBSET StreamKeys /\ g \in [StreamKeys -> ProtocolKind \cup {None}]
  BY <1>0 DEF CoreState
<1>2. Kept(v, k, [k EXCEPT !.inbound_negotiators = f])
  BY <1>1, FieldsKept
<1>3. Kept(v, k, [k EXCEPT !.outbound_negotiators = g])
  BY <1>1, FieldsKept
<1> PICK j : j = [k EXCEPT !.inbound_negotiators = f, !.outbound_negotiators = g]
  OBVIOUS
<1>4. j \in CoreState /\ SameAnswers(k, j) /\ j.events = k.events
  BY <1>0, <1>1 DEF CoreState, SameAnswers, SameMaps
<1>5. Tuned(v, j)
  BY <1>4, QuietTuned
<1> QED
  BY <1>2, <1>3, <1>5

\* handle_stream_closed
LEMMA StreamClosedTuned ==
    ASSUME NEW v, NEW k, Tuned(v, k), NEW c \in Conns, NEW s \in StreamIds
    PROVE  Tuned(v, HandleStreamClosed(k, c, s))
<1> PICK kind : kind = k.stream_owner[<<c, s>>]
  OBVIOUS
<1> PICK p : p = k.conn_to_peer[c]
  OBVIOUS
<1> PICK k1 : k1 = SetOwner(k, c, s, None)
  OBVIOUS
<1>0. k \in CoreState /\ HeldByPeer(k) /\ p \in PeerIds \cup {None} /\ None # "User"
  BY AbsentAssumption DEF Tuned, CoreState, ProtocolKind
<1>1. kind # "User" => Reowned(v, k, k1, c, s, None)
  BY <1>0, OwnerTuned
<1>2. ASSUME kind # "User", p # None
      PROVE  Meets(v, k1, c, p) /\ p \in PeerIds
  <2>1. Tuned(v, k1) /\ k1.conn_to_peer[c] = p
    BY <1>1, <1>2 DEF Reowned, SameMaps
  <2> QED
    BY <1>0, <1>2, <2>1, MappedKnown
<1> DEFINE d1 == DrainPing(k1, p, Ping!OnStreamClosed(k1.ping[p], s))
           d2 == DrainIdentify(k1, p, s, Identify!OnStreamClosed(k1.identify[p], s))
           d3 == Emit(k1, "UserStreamClosed", p, s)
<1>3. ASSUME kind = "Ping", p # None PROVE Tuned(v, d1)
  <2>1. /\ Tuned(v, k1) /\ Known(k1, p) /\ p \in PeerIds
        /\ k1.ping[p] \in Ping!PeerPingState
    BY <1>2, <1>3 DEF Meets
  <2> PICK r : r = Ping!OnStreamClosed(k1.ping[p], s)
    OBVIOUS
  <2>2. PingResult(k1.ping[p], r)
    BY <2>1, PingEnds
  <2> QED
    BY <2>1, <2>2, DrainPingKept DEF Kept
<1>4. ASSUME kind \in {"IdentifyInitiator", "IdentifyResponder"}, p # None PROVE Tuned(v, d2)
  <2>1. /\ Tuned(v, k1) /\ Known(k1, p) /\ p \in PeerIds
        /\ k1.identify[p] \in Identify!PeerIdentifyState
    BY <1>2, <1>4 DEF Meets
  <2> PICK r : r = Identify!OnStreamClosed(k1.identify[p], s)
    OBVIOUS
  <2>2. IdentifyResult(r)
    BY <2>1, IdentifyHandlers
  <2> QED
    BY <2>1, <2>2, DrainIdentifyKept DEF Kept
<1>5. ASSUME kind = "User", p # None PROVE Tuned(v, d3)
  <2>1. p \in PeerIds /\ Known(k, p)
    BY <1>0, <1>5, MappedKnown DEF Meets
  <2> QED
    BY <1>5, <2>1, UserGoneTuned
<1>6. ASSUME kind # "User" PROVE Tuned(v, k1)
  BY <1>1, <1>6 DEF Reowned
<1>7. kind = "User" => p # None
  BY <1>0 DEF HeldByPeer
<1> PICK k2 : k2 = CASE kind = "Ping" /\ p # None -> d1
                     [] kind \in {"IdentifyInitiator", "IdentifyResponder"} /\ p # None -> d2
                     [] kind = "User" /\ p # None -> d3
                     [] OTHER -> k1
  OBVIOUS
<1>8. HandleStreamClosed(k, c, s) =
        [k2 EXCEPT !.inbound_negotiators  = @ \ {<<c, s>>},
                   !.outbound_negotiators = [@ EXCEPT ![<<c, s>>] = None]]
  BY DEF HandleStreamClosed
<1> HIDE DEF d1, d2, d3
<1>9. Tuned(v, k2)
  <2>1. CASE kind = "Ping" /\ p # None
    BY <1>3, <2>1
  <2>2. CASE kind \in {"IdentifyInitiator", "IdentifyResponder"} /\ p # None
    BY <1>4, <2>2
  <2>3. CASE kind = "User"
    BY <1>5, <1>7, <2>3
  <2>4. CASE kind # "User" /\ (p = None \/ kind \notin {"Ping", "IdentifyInitiator", "IdentifyResponder"})
    <3>1. k2 = k1
      BY <2>4
    <3> QED
      BY <1>6, <2>4, <3>1
  <2> QED
    BY <2>1, <2>2, <2>3, <2>4
<1>10. Tuned(v, [k2 EXCEPT !.inbound_negotiators  = @ \ {<<c, s>>},
                           !.outbound_negotiators = [@ EXCEPT ![<<c, s>>] = None]])
  <2>1. c \in Conns /\ s \in StreamIds
    OBVIOUS
  <2> QED
    BY ONLY <1>9, <2>1, PruneTuned
<1> QED
  BY <1>8, <1>10, Zenon

-----------------------------------------------------------------------------
(* Negotiation.                                                            *)

\* on_inbound_negotiated
LEMMA InboundTuned ==
    ASSUME NEW v, NEW k, Tuned(v, k), NEW c \in Conns, NEW s \in StreamIds,
           k.stream_owner[<<c, s>>] # "User", NEW protocol \in {"Ping", "Identify", "User"}
    PROVE  Tuned(v, OnInboundNegotiated(k, c, s, protocol))
<1> PICK k1 : k1 = EnsurePeerIdForConn(k, c)
  OBVIOUS
<1> PICK p \in PeerIds : p = k1.conn_to_peer[c]
  BY EnsureTuned
<1>1. Meets(v, k1, c, p) /\ k1.stream_owner = k.stream_owner
  BY EnsureTuned
<1>2. /\ Tuned(v, k1) /\ k1 \in CoreState /\ Known(k1, p) /\ k1.conn_to_peer[c] = p
      /\ k1.ping[p] \in Ping!PeerPingState /\ k1.identify[p] \in Identify!PeerIdentifyState
  BY <1>1 DEF Meets
<1>3. ASSUME NEW kind \in {"Ping", "IdentifyResponder"}, NEW o, o = SetOwner(k1, c, s, kind)
      PROVE  Meets(v, o, c, p)
  <2>1. kind \in ProtocolKind \cup {None} /\ kind # "User"
    BY DEF ProtocolKind
  <2>2. Reowned(v, k1, o, c, s, kind)
    BY <1>1, <1>2, <1>3, <2>1, OwnerTuned
  <2> QED
    BY <1>2, <2>2, MappedKnown DEF Reowned, SameMaps
<1> PICK r : r = Identify!RegisterOutboundStream(k1.identify[p], s)
  OBVIOUS
<1>4. IdentifyResult(r)
  BY <1>2, IdentifyHandlers
<1>5. CASE protocol = "Ping"
  <2> PICK o : o = SetOwner(k1, c, s, "Ping")
    OBVIOUS
  <2>1. Tuned(v, o) /\ Known(o, p) /\ o.ping[p] \in Ping!PeerPingState
    BY <1>3 DEF Meets
  <2> PICK q : q = Ping!RegisterInboundStream(o.ping[p], p, s)
    OBVIOUS
  <2>2. PingResult(o.ping[p], q)
    BY <2>1, PingRegisters
  <2>3. Tuned(v, DrainPing(o, p, q))
    BY <2>1, <2>2, DrainPingKept DEF Kept
  <2>4. OnInboundNegotiated(k, c, s, protocol) = DrainPing(o, p, q)
    BY <1>5 DEF OnInboundNegotiated
  <2> QED
    BY <2>3, <2>4
<1>6. CASE protocol = "Identify" /\ r.ok
  <2> PICK o : o = SetOwner(k1, c, s, "IdentifyResponder")
    OBVIOUS
  <2>1. Tuned(v, o) /\ Known(o, p)
    BY <1>3 DEF Meets
  <2>2. Tuned(v, DrainIdentify(o, p, s, r))
    BY <1>4, <2>1, DrainIdentifyKept DEF Kept
  <2>3. OnInboundNegotiated(k, c, s, protocol) = DrainIdentify(o, p, s, r)
    BY <1>6 DEF OnInboundNegotiated
  <2> QED
    BY <2>2, <2>3
<1>7. CASE protocol = "Identify" /\ ~r.ok
  <2> PICK e : e = EmitError(k1, "IdentifyStreamRejected", p)
    OBVIOUS
  <2>1. Tuned(v, e)
    BY <1>2, ErrorTuned DEF ErrorKinds
  <2>2. Tuned(v, Act(e, "ResetStream", c, s))
    BY <2>1, ActTuned DEF StreamActions
  <2>3. OnInboundNegotiated(k, c, s, protocol) = Act(e, "ResetStream", c, s)
    BY <1>7 DEF OnInboundNegotiated
  <2> QED
    BY <2>2, <2>3
<1>8. CASE protocol = "User"
  <2>1. Tuned(v, Emit(SetOwner(k1, c, s, "User"), "UserStreamReady", p, s))
    BY <1>2, UserReadyTuned
  <2>2. OnInboundNegotiated(k, c, s, protocol) =
          Emit(SetOwner(k1, c, s, "User"), "UserStreamReady", p, s)
    BY <1>8 DEF OnInboundNegotiated
  <2> QED
    BY <2>1, <2>2
<1> QED
  BY <1>5, <1>6, <1>7, <1>8

\* A ping is queued, or fires.
LEMMA PendingKept ==
    ASSUME NEW v, NEW k, Tuned(v, k), NEW p \in PeerIds, NEW payload \in Payloads \cup {None}
    PROVE  Kept(v, k, [k EXCEPT !.pending_pings = [@ EXCEPT ![p] = payload]])
<1> PICK f : f = [k.pending_pings EXCEPT ![p] = payload]
  OBVIOUS
<1>1. f \in [PeerIds -> Payloads \cup {None}]
  BY DEF Tuned, CoreState
<1> QED
  BY <1>1, FieldsKept

\* send_deferred_ping
LEMMA DeferredTuned ==
    ASSUME NEW v, NEW k, Tuned(v, k), NEW p \in PeerIds, Known(k, p)
    PROVE  Tuned(v, SendDeferredPing(k, p))
<1>1. CASE k.pending_pings[p] = None
  BY <1>1 DEF SendDeferredPing
<1>2. CASE k.pending_pings[p] # None
  <2>0. k \in CoreState
    BY DEF Tuned
  <2> PICK payload \in Payloads : payload = k.pending_pings[p]
    BY <1>2, <2>0 DEF CoreState
  <2> PICK k1 : k1 = [k EXCEPT !.pending_pings = [@ EXCEPT ![p] = None]]
    OBVIOUS
  <2> PICK r : r = Ping!SendPing(k.ping[p], p, payload)
    OBVIOUS
  <2>1. Tuned(v, k1) /\ Known(k1, p)
    <3>1. Tuned(v, k) /\ p \in PeerIds /\ None \in Payloads \cup {None}
      OBVIOUS
    <3>2. Kept(v, k, [k EXCEPT !.pending_pings = [@ EXCEPT ![p] = None]])
      BY ONLY <3>1, PendingKept
    <3>3. Kept(v, k, k1)
      BY <3>2
    <3>4. Tuned(v, k1)
      BY <3>3 DEF Kept
    <3>5. Known(k1, p)
      BY ONLY <3>3, Known(k, p), KeptKnown
    <3> QED
      BY <3>4, <3>5
  <2>2. PingResult(k.ping[p], r)
    BY <2>0, PingSends DEF CoreState
  <2>3. Tuned(v, DrainPing(k1, p, r))
    BY <2>1, <2>2, DrainPingKept DEF Kept
  <2>4. Tuned(v, EmitError(k1, "Ping", p))
    BY <2>1, ErrorTuned DEF ErrorKinds
  <2> QED
    BY <1>2, <2>3, <2>4 DEF SendDeferredPing
<1> QED
  BY <1>1, <1>2

\* on_outbound_negotiated
LEMMA OutboundTuned ==
    ASSUME NEW v, NEW k, Tuned(v, k), NEW c \in Conns, NEW s \in StreamIds,
           k.stream_owner[<<c, s>>] # "User", NEW target \in ProtocolKind
    PROVE  Tuned(v, OnOutboundNegotiated(k, c, s, target))
<1> PICK k0 : k0 = EnsurePeerIdForConn(k, c)
  OBVIOUS
<1> PICK p \in PeerIds : p = k0.conn_to_peer[c]
  BY EnsureTuned
<1>1. Meets(v, k0, c, p) /\ k0.stream_owner = k.stream_owner
  BY EnsureTuned
<1>2. /\ Tuned(v, k0) /\ k0 \in CoreState /\ Known(k0, p) /\ k0.conn_to_peer[c] = p
  BY <1>1 DEF Meets
<1> PICK k1 : k1 = SetOwner(k0, c, s, target)
  OBVIOUS
<1>3. k1.conn_to_peer[c] = p
  <2>1. target \in ProtocolKind \cup {None}
    OBVIOUS
  <2> QED
    BY <1>2, <2>1, SetOwnerIs DEF SameMaps
<1>4. CASE target = "User"
  <2>1. Tuned(v, Emit(k1, "UserStreamReady", p, s))
    BY <1>2, <1>4, UserReadyTuned
  <2>2. OnOutboundNegotiated(k, c, s, target) = Emit(k1, "UserStreamReady", p, s)
    BY <1>3, <1>4 DEF OnOutboundNegotiated
  <2> QED
    BY <2>1, <2>2
<1>5. CASE target # "User"
  <2>1. Reowned(v, k0, k1, c, s, target)
    BY <1>1, <1>2, <1>5, OwnerTuned
  <2>2. Meets(v, k1, c, p)
    BY <1>3, <2>1, MappedKnown DEF Reowned
  <2>3. /\ Tuned(v, k1) /\ k1 \in CoreState /\ Known(k1, p)
        /\ k1.ping[p] \in Ping!PeerPingState /\ k1.identify[p] \in Identify!PeerIdentifyState
    BY <2>2 DEF Meets
  <2> PICK r : r = Ping!RegisterOutboundStream(k1.ping[p], p, s)
    OBVIOUS
  <2>4. PingResult(k1.ping[p], r)
    BY <2>3, PingRegisters
  <2>5. CASE target = "Ping" /\ r.ok
    <3> PICK j : j = DrainPing(k1, p, r)
      OBVIOUS
    <3>1. Tuned(v, j) /\ Known(j, p)
      BY <2>3, <2>4, DrainPingKept, KeptKnown DEF Kept
    <3>2. Tuned(v, SendDeferredPing(j, p))
      BY <3>1, DeferredTuned
    <3>3. OnOutboundNegotiated(k, c, s, target) = SendDeferredPing(j, p)
      BY <1>3, <2>5 DEF OnOutboundNegotiated
    <3> QED
      BY <3>2, <3>3
  <2>6. CASE target = "Ping" /\ ~r.ok
    <3> PICK e : e = EmitError(k1, "Ping", p)
      OBVIOUS
    <3>1. Tuned(v, e) /\ SameAnswers(k1, e)
      BY <2>3, ErrorTuned DEF ErrorKinds
    <3> PICK d : d = SetOwner(e, c, s, None)
      OBVIOUS
    <3>2. e.stream_owner[<<c, s>>] # "User" /\ None # "User"
      BY <2>1, <1>5, <3>1, AbsentAssumption DEF SameAnswers, Reowned, ProtocolKind
    <3>3. Tuned(v, d)
      BY <3>1, <3>2, OwnerTuned DEF Reowned
    <3>4. Tuned(v, Act(d, "ResetStream", c, s))
      BY <3>3, ActTuned DEF StreamActions
    <3>5. OnOutboundNegotiated(k, c, s, target) = Act(d, "ResetStream", c, s)
      BY <1>3, <2>6 DEF OnOutboundNegotiated
    <3> QED
      BY <3>4, <3>5
  <2>7. CASE target = "IdentifyInitiator"
    <3> PICK q : q = Identify!RegisterInboundStream(k1.identify[p], s)
      OBVIOUS
    <3>1. IdentifyResult(q)
      BY <2>3, IdentifyHandlers
    <3>2. Tuned(v, DrainIdentify(k1, p, s, q))
      BY <2>3, <3>1, DrainIdentifyKept DEF Kept
    <3>3. OnOutboundNegotiated(k, c, s, target) = DrainIdentify(k1, p, s, q)
      BY <1>3, <2>7 DEF OnOutboundNegotiated
    <3> QED
      BY <3>2, <3>3
  <2>8. CASE target = "IdentifyResponder"
    BY <2>3, <2>8 DEF OnOutboundNegotiated
  <2> QED
    BY <1>5, <2>5, <2>6, <2>7, <2>8 DEF ProtocolKind
<1> QED
  BY <1>4, <1>5

\* The data behind the negotiation.
LEMMA RestTuned ==
    ASSUME NEW v, NEW k, Tuned(v, k), NEW c \in Conns, NEW s \in StreamIds,
           NEW rest, rest # None => rest.len \in Nat
    PROVE  Tuned(v, DispatchRest(k, c, s, rest))
BY DispatchTuned DEF DispatchRest

\* An event that names nobody is about no verified peer.
LEMMA NobodyKnown == \A k : Known(k, None)
BY PeersAssumption DEF Known, PeerIds

\* The peer of a connection, once it is announced, may be named.
LEMMA EstablishedKnown ==
    ASSUME NEW v, NEW k, Tuned(v, k), NEW c \in Conns
    PROVE  /\ EstablishedPeerForConn(k, c) \in PeerIds \cup {None}
           /\ \A j : j.established_peers = k.established_peers => Known(j, EstablishedPeerForConn(k, c))
           /\ \A j : Known(j, None)
<1>1. EstablishedPeerForConn(k, c) \in PeerIds \cup {None}
  BY EstablishedType DEF Tuned
<1>2. None \notin Peers
  BY PeersAssumption DEF PeerIds
<1> QED
  BY <1>1, <1>2 DEF EstablishedPeerForConn, Known

\* feed_inbound_negotiator
LEMMA FeedInboundTuned ==
    ASSUME NEW v, NEW k, Tuned(v, k), NEW c \in Conns, NEW s \in StreamIds,
           k.stream_owner[<<c, s>>] # "User", NEW outcome \in {"negotiated", "not_available", "error"},
           NEW protocol, outcome = "negotiated" => protocol \in {"Ping", "Identify", "User"},
           NEW rest, rest # None => rest.len \in Nat
    PROVE  Tuned(v, FeedInboundNegotiator(k, c, s, outcome, protocol, rest))
<1> PICK k1 : k1 = [k EXCEPT !.inbound_negotiators = @ \ {<<c, s>>}]
  OBVIOUS
<1>1. Kept(v, k, k1)
  BY PruneTuned
<1> PICK sent : sent = Act(k1, "SendStream", c, s)
  OBVIOUS
<1>2. Tuned(v, sent) /\ sent.stream_owner[<<c, s>>] # "User"
  <2>1. Tuned(v, k1) /\ k1.stream_owner = k.stream_owner
    BY <1>1 DEF Kept
  <2>2. "SendStream" \in StreamActions
    BY DEF StreamActions
  <2>3. Tuned(v, sent) /\ SameAnswers(k1, sent)
    BY <2>1, <2>2, ActTuned
  <2> QED
    BY <2>1, <2>3 DEF SameAnswers
<1>3. CASE outcome = "negotiated"
  <2> PICK j : j = OnInboundNegotiated(sent, c, s, protocol)
    OBVIOUS
  <2>1. Tuned(v, j)
    BY <1>2, <1>3, InboundTuned
  <2>2. Tuned(v, DispatchRest(j, c, s, rest))
    BY <2>1, RestTuned
  <2>3. FeedInboundNegotiator(k, c, s, outcome, protocol, rest) = DispatchRest(j, c, s, rest)
    BY <1>3 DEF FeedInboundNegotiator
  <2> QED
    BY <2>2, <2>3
<1>4. CASE outcome = "not_available"
  <2>1. Tuned(v, Act(sent, "ResetStream", c, s))
    BY <1>2, ActTuned DEF StreamActions
  <2>2. FeedInboundNegotiator(k, c, s, outcome, protocol, rest) = Act(sent, "ResetStream", c, s)
    BY <1>4 DEF FeedInboundNegotiator
  <2> QED
    BY <2>1, <2>2
<1>5. CASE outcome = "error"
  <2> PICK p : p = EstablishedPeerForConn(k, c)
    OBVIOUS
  <2>1. p \in PeerIds \cup {None} /\ Known(k1, p)
    BY <1>1, EstablishedKnown DEF Kept
  <2> PICK e : e = EmitError(k1, "Multistream", p)
    OBVIOUS
  <2>2. Tuned(v, e)
    BY <1>1, <2>1, ErrorTuned DEF Kept, ErrorKinds
  <2>3. Tuned(v, Act(e, "ResetStream", c, s))
    BY <2>2, ActTuned DEF StreamActions
  <2>4. FeedInboundNegotiator(k, c, s, outcome, protocol, rest) = Act(e, "ResetStream", c, s)
    BY <1>5 DEF FeedInboundNegotiator
  <2> QED
    BY <2>3, <2>4
<1> QED
  BY <1>3, <1>4, <1>5

\* feed_outbound_negotiator
LEMMA FeedOutboundTuned ==
    ASSUME NEW v, NEW k, Tuned(v, k), NEW c \in Conns, NEW s \in StreamIds,
           k.stream_owner[<<c, s>>] # "User", k.outbound_negotiators[<<c, s>>] # None,
           NEW proposed \in BOOLEAN,
           NEW outcome \in {"waiting", "negotiated", "not_available", "error"},
           NEW rest, rest # None => rest.len \in Nat
    PROVE  Tuned(v, FeedOutboundNegotiator(k, c, s, proposed, outcome, rest))
<1> PICK target \in ProtocolKind : target = k.outbound_negotiators[<<c, s>>]
  BY DEF Tuned, CoreState, StreamKeys
<1> PICK k1 : k1 = IF proposed THEN Act(k, "SendStream", c, s) ELSE k
  OBVIOUS
<1>0. Kept(v, k, k)
  BY DEF Kept, SameMaps
<1>1. Kept(v, k, k1)
  BY <1>0, ActTuned, AnswersKept DEF StreamActions
<1> PICK k2 : k2 = [k1 EXCEPT !.outbound_negotiators = [@ EXCEPT ![<<c, s>>] = None]]
  OBVIOUS
<1>2. Kept(v, k1, k2)
  <2>1. Tuned(v, k1)
    BY <1>1 DEF Kept
  <2>2. c \in Conns /\ s \in StreamIds
    OBVIOUS
  <2>3. Kept(v, k1, [k1 EXCEPT !.outbound_negotiators = [@ EXCEPT ![<<c, s>>] = None]])
    BY ONLY <2>1, <2>2, PruneTuned
  <2> QED
    BY <2>3
<1>3. Kept(v, k, k2)
  BY <1>1, <1>2, KeptTrans
<1>4. Tuned(v, k2) /\ k2.stream_owner[<<c, s>>] # "User"
  BY <1>3 DEF Kept
<1> PICK p : p = EstablishedPeerForConn(k, c)
  OBVIOUS
<1>5. p \in PeerIds \cup {None} /\ Known(k2, p)
  BY <1>3, EstablishedKnown DEF Kept
<1>6. CASE outcome = "waiting"
  BY <1>1, <1>6 DEF FeedOutboundNegotiator, Kept
<1>7. CASE outcome = "negotiated"
  <2> PICK j : j = OnOutboundNegotiated(k2, c, s, target)
    OBVIOUS
  <2>1. Tuned(v, j)
    BY <1>4, OutboundTuned
  <2>2. Tuned(v, DispatchRest(j, c, s, rest))
    BY <2>1, RestTuned
  <2>3. FeedOutboundNegotiator(k, c, s, proposed, outcome, rest) = DispatchRest(j, c, s, rest)
    BY <1>7 DEF FeedOutboundNegotiator
  <2> QED
    BY <2>2, <2>3
<1>8. ASSUME NEW kind \in ErrorKinds PROVE Tuned(v, Act(EmitError(k2, kind, p), "ResetStream", c, s))
  <2> PICK e : e = EmitError(k2, kind, p)
    OBVIOUS
  <2>1. Tuned(v, e)
    BY <1>4, <1>5, ErrorTuned
  <2> QED
    BY <2>1, ActTuned DEF StreamActions
<1>9. CASE outcome = "not_available"
  <2>1. FeedOutboundNegotiator(k, c, s, proposed, outcome, rest) =
          Act(EmitError(k2, "UnsupportedProtocol", p), "ResetStream", c, s)
    BY <1>9 DEF FeedOutboundNegotiator
  <2> QED
    BY <1>8, <2>1 DEF ErrorKinds
<1>10. CASE outcome = "error"
  <2>1. FeedOutboundNegotiator(k, c, s, proposed, outcome, rest) =
          Act(EmitError(k2, "Multistream", p), "ResetStream", c, s)
    BY <1>10 DEF FeedOutboundNegotiator
  <2> QED
    BY <1>8, <2>1 DEF ErrorKinds
<1> QED
  BY <1>6, <1>7, <1>9, <1>10

-----------------------------------------------------------------------------
(* Opens, time and the application's calls.                                *)

\* queue_open_protocol_stream
LEMMA QueueOpenKept ==
    ASSUME NEW v, NEW k, Tuned(v, k), NEW p \in PeerIds, k.peer_to_conn[p] # None,
           NEW target \in ProtocolKind
    PROVE  Kept(v, k, QueueOpenProtocolStream(k, p, target))
<1>0. k \in CoreState
  BY DEF Tuned
<1> PICK c \in Conns : c = k.peer_to_conn[p]
  BY <1>0 DEF CoreState
<1> PICK t \in Nat : t = k.next_open_token
  BY <1>0 DEF CoreState
<1> PICK o : o = [token |-> t, conn |-> c, target |-> target]
  OBVIOUS
<1> PICK a : a = [kind |-> "OpenStream", conn |-> c, stream |-> None, token |-> t]
  OBVIOUS
<1>1. o \in PendingOpen /\ a \in SwarmAction
  BY DEF PendingOpen, SwarmAction
<1> PICK as : as = Append(k.actions, a)
  OBVIOUS
<1> PICK os : os = k.pending_opens \cup {o}
  OBVIOUS
<1> PICK t1 \in Nat : t1 = t + 1
  OBVIOUS
<1>2. as \in Seq(SwarmAction) /\ os \in SUBSET PendingOpen
  BY <1>0, <1>1 DEF CoreState
<1> PICK j : j = QueueOpenProtocolStream(k, p, target)
  OBVIOUS
<1>3. j = [k EXCEPT !.next_open_token = t1, !.pending_opens = os, !.actions = as]
  BY <1>0 DEF QueueOpenProtocolStream, CoreState
<1>4. j \in CoreState /\ SameAnswers(k, j) /\ j.events = k.events
  BY <1>0, <1>2, <1>3 DEF CoreState, SameAnswers, SameMaps
<1>5. Tuned(v, j)
  BY <1>4, QuietTuned
<1> QED
  BY <1>4, <1>5, AnswersKept

\* handle_tick, for a peer that has a connection.
LEMMA TickTuned ==
    ASSUME NEW v, NEW k, Tuned(v, k), NEW p \in PeerIds, k.peer_to_conn[p] # None,
           k.ping[p].outbound_stream # None
    PROVE  Tuned(v, HandleTick(k, p))
<1>0. k \in CoreState /\ Announced(k)
  BY DEF Tuned
<1>1. Known(k, p)
  BY <1>0 DEF Announced, Known
<1> PICK r : r = Ping!OnTick(k.ping[p], p)
  OBVIOUS
<1>2. PingResult(k.ping[p], r)
  <2>1. k.ping[p] \in Ping!PeerPingState
    BY <1>0 DEF CoreState
  <2> PICK s \in StreamIds : s = k.ping[p].outbound_stream
    BY <2>1 DEF Ping!PeerPingState
  <2> QED
    BY <2>1, PingEnds
<1>3. Kept(v, k, DrainPing(k, p, r))
  BY <1>1, <1>2, DrainPingKept
<1> QED
  BY <1>3 DEF Kept, HandleTick

\* SwarmCore::ping
LEMMA DoPingTuned ==
    ASSUME NEW v, NEW k, Tuned(v, k), NEW p \in PeerIds, NEW payload \in Payloads
    PROVE  Tuned(v, DoPing(k, p, payload))
<1>1. CASE k.peer_to_conn[p] = None
  BY <1>1 DEF DoPing
<1>2. CASE k.peer_to_conn[p] # None
  <2>0. k \in CoreState /\ Announced(k)
    BY DEF Tuned
  <2>1. Known(k, p)
    BY <1>2, <2>0 DEF Announced, Known
  <2> PICK queued : queued = [k EXCEPT !.pending_pings = [@ EXCEPT ![p] = payload]]
    OBVIOUS
  <2>2. Kept(v, k, queued)
    <3>1. Tuned(v, k) /\ p \in PeerIds /\ payload \in Payloads \cup {None}
      OBVIOUS
    <3>2. Kept(v, k, [k EXCEPT !.pending_pings = [@ EXCEPT ![p] = payload]])
      BY ONLY <3>1, PendingKept
    <3> QED
      BY <3>2
  <2>3. Tuned(v, queued) /\ queued.peer_to_conn[p] # None
    BY <1>2, <2>2 DEF Kept, SameMaps
  <2> PICK r : r = Ping!SendPing(k.ping[p], p, payload)
    OBVIOUS
  <2>4. PingResult(k.ping[p], r)
    BY <2>0, PingSends DEF CoreState
  <2>5. Tuned(v, DrainPing(k, p, r))
    BY <2>1, <2>4, DrainPingKept DEF Kept
  <2>6. Tuned(v, QueueOpenProtocolStream(queued, p, "Ping"))
    BY <2>3, QueueOpenKept DEF Kept, ProtocolKind
  <2> QED
    BY <1>2, <2>3, <2>5, <2>6 DEF DoPing
<1> QED
  BY <1>1, <1>2

\* open_user_stream, disconnect and the calls on a user stream
LEMMA CallsTuned ==
    ASSUME NEW v, NEW k, Tuned(v, k), NEW p \in PeerIds
    PROVE  /\ Tuned(v, OpenUserStream(k, p))
           /\ Tuned(v, Disconnect(k, p))
           /\ \A s \in StreamIds, kind \in {"SendStream", "CloseStreamWrite", "ResetStream"} :
                Tuned(v, UserStreamCall(k, p, s, kind))
<1>0. k \in CoreState
  BY DEF Tuned
<1>1. Tuned(v, OpenUserStream(k, p))
  <2>1. k.peer_to_conn[p] # None => Tuned(v, QueueOpenProtocolStream(k, p, "User"))
    BY QueueOpenKept DEF Kept, ProtocolKind
  <2> QED
    BY <2>1 DEF OpenUserStream
<1>2. Tuned(v, Disconnect(k, p))
  <2>1. ASSUME k.peer_to_conn[p] # None
        PROVE  Tuned(v, Act(k, "CloseConnection", k.peer_to_conn[p], None))
    <3> PICK c \in Conns : c = k.peer_to_conn[p]
      BY <1>0, <2>1 DEF CoreState
    <3> QED
      BY ActTuned DEF StreamActions
  <2> QED
    BY <2>1 DEF Disconnect
<1>3. ASSUME NEW s \in StreamIds, NEW kind \in {"SendStream", "CloseStreamWrite", "ResetStream"}
      PROVE  Tuned(v, UserStreamCall(k, p, s, kind))
  <2> PICK c : c = ConnForOwnedStream(k, p, s, "User")
    OBVIOUS
  <2>1. ASSUME c # None PROVE Tuned(v, Act(k, kind, c, s))
    <3>1. c \in OwningConns(k, p, s, "User")
      BY <2>1, OwningConn
    <3>2. c \in Conns
      BY <3>1 DEF OwningConns
    <3> QED
      BY <3>2, ActTuned DEF StreamActions
  <2> QED
    BY <2>1 DEF UserStreamCall
<1> QED
  BY <1>1, <1>2, <1>3

\* handle_stream_opened and handle_open_stream_failed
LEMMA OpenedTuned ==
    ASSUME NEW v, NEW k, Tuned(v, k), NEW token
    PROVE  /\ \A c \in Conns, s \in StreamIds : Tuned(v, HandleStreamOpened(k, c, s, token))
           /\ Tuned(v, HandleOpenStreamFailed(k, token))
<1> DEFINE opens == {x \in k.pending_opens : x.token = token}
           o     == CHOOSE x \in opens : TRUE
           k1    == [k EXCEPT !.pending_opens = @ \ opens]
<1>0. k \in CoreState
  BY DEF Tuned
<1>1. opens # {} => o \in opens
  OBVIOUS
<1>2. \A x \in opens : x \in k.pending_opens /\ x.conn \in Conns /\ x.target \in ProtocolKind
  BY <1>0 DEF CoreState, PendingOpen
<1>3. /\ HandleOpenStreamFailed(k, token) =
           EmitError(k1, "OpenStreamFailed",
                     IF opens = {} THEN None ELSE EstablishedPeerForConn(k, o.conn))
      /\ \A c, s : HandleStreamOpened(k, c, s, token) =
           IF opens = {}
           THEN EmitError(k, "Driver", None)
           ELSE IF o.conn # c
           THEN EmitError(k1, "Driver", EstablishedPeerForConn(k1, c))
           ELSE [Act(k1, "SendStream", c, s) EXCEPT
                   !.outbound_negotiators = [@ EXCEPT ![<<c, s>>] = o.target]]
  BY DEF HandleOpenStreamFailed, HandleStreamOpened
<1> HIDE DEF opens, o
<1>4. Kept(v, k, k1)
  <2> PICK f : f = k.pending_opens \ opens
    OBVIOUS
  <2>1. f \in SUBSET PendingOpen
    BY <1>0 DEF CoreState
  <2> QED
    BY <2>1, FieldsKept
<1> HIDE DEF k1
<1>5. Tuned(v, k1) /\ k1 \in CoreState /\ k1.established_peers = k.established_peers
  BY <1>4 DEF Kept, Tuned
<1>6. {"Driver", "OpenStreamFailed"} \subseteq ErrorKinds
  BY DEF ErrorKinds
<1>7. Tuned(v, HandleOpenStreamFailed(k, token))
  <2> PICK p : p = IF opens = {} THEN None ELSE EstablishedPeerForConn(k, o.conn)
    OBVIOUS
  <2>1. p \in PeerIds \cup {None} /\ Known(k1, p)
    <3>1. CASE opens = {}
      BY <3>1, NobodyKnown
    <3>2. CASE opens # {}
      <4> PICK c \in Conns : c = o.conn
        BY <1>1, <1>2, <3>2
      <4> PICK q : q = EstablishedPeerForConn(k, c)
        OBVIOUS
      <4>1. q \in PeerIds \cup {None} /\ Known(k1, q)
        BY <1>5, EstablishedKnown
      <4> QED
        BY <3>2, <4>1
    <3> QED
      BY <3>1, <3>2
  <2>2. Tuned(v, EmitError(k1, "OpenStreamFailed", p))
    BY <1>5, <1>6, <2>1, ErrorTuned
  <2> QED
    BY <1>3, <2>2
<1>8. ASSUME NEW c \in Conns, NEW s \in StreamIds
      PROVE  Tuned(v, HandleStreamOpened(k, c, s, token))
  <2>1. CASE opens = {}
    <3>1. Known(k, None)
      BY NobodyKnown
    <3>2. Tuned(v, EmitError(k, "Driver", None))
      BY <1>6, <3>1, ErrorTuned
    <3> QED
      BY <1>3, <2>1, <3>2
  <2>2. CASE opens # {} /\ o.conn # c
    <3> PICK p : p = EstablishedPeerForConn(k1, c)
      OBVIOUS
    <3>1. p \in PeerIds \cup {None} /\ Known(k1, p)
      BY <1>5, EstablishedKnown
    <3>2. Tuned(v, EmitError(k1, "Driver", p))
      BY <1>5, <1>6, <3>1, ErrorTuned
    <3> QED
      BY <1>3, <2>2, <3>2
  <2>3. CASE opens # {} /\ o.conn = c
    <3> PICK j : j = Act(k1, "SendStream", c, s)
      OBVIOUS
    <3>1. Tuned(v, j) /\ j \in CoreState
      BY <1>5, ActTuned DEF StreamActions, Tuned
    <3> PICK f : f = [j.outbound_negotiators EXCEPT ![<<c, s>>] = o.target]
      OBVIOUS
    <3>2. f \in [StreamKeys -> ProtocolKind \cup {None}]
      BY <1>1, <1>2, <2>3, <3>1 DEF CoreState
    <3>3. Kept(v, j, [j EXCEPT !.outbound_negotiators = f])
      BY ONLY <3>1, <3>2, FieldsKept
    <3> QED
      BY <1>3, <2>3, <3>3 DEF Kept
  <2> QED
    BY <2>1, <2>2, <2>3
<1> QED
  BY <1>7, <1>8

\* handle_incoming_stream
LEMMA IncomingTuned ==
    ASSUME NEW v, NEW k, Tuned(v, k), NEW c \in Conns, NEW s \in StreamIds
    PROVE  Tuned(v, HandleIncomingStream(k, c, s))
<1> PICK f : f = k.inbound_negotiators \cup {<<c, s>>}
  OBVIOUS
<1>1. f \in SUBSET StreamKeys
  BY DEF Tuned, CoreState, StreamKeys
<1> PICK j : j = [k EXCEPT !.inbound_negotiators = f]
  OBVIOUS
<1>2. Tuned(v, j)
  BY <1>1, FieldsKept DEF Kept
<1>3. Tuned(v, Act(j, "SendStream", c, s))
  BY <1>2, ActTuned DEF StreamActions
<1> QED
  BY <1>3 DEF HandleIncomingStream

\* PopAction: the driver takes an action.
LEMMA PopTuned ==
    ASSUME NEW v, NEW k, Tuned(v, k), k.actions # << >>
    PROVE  Tuned(v, PopAction(k)) /\ Tuned(v, EmitError(PopAction(k), "Transport", None))
<1> PICK f : f = Tail(k.actions)
  OBVIOUS
<1>1. f \in Seq(SwarmAction)
  BY DEF Tuned, CoreState
<1> PICK j : j = [k EXCEPT !.actions = f]
  OBVIOUS
<1>2. Tuned(v, j)
  BY <1>1, FieldsKept DEF Kept
<1>3. Known(j, None)
  BY NobodyKnown
<1>4. Tuned(v, EmitError(j, "Transport", None))
  BY <1>2, <1>3, ErrorTuned DEF ErrorKinds
<1> QED
  BY <1>2, <1>4 DEF PopAction

-----------------------------------------------------------------------------
(* Connections come and go.                                                *)

\* From k to j the streams and the negotiators of c are dropped, and nothing else.
Forgets(k, j, c) ==
    /\ j \in CoreState /\ SameMaps(k, j) /\ j.events = k.events
    /\ j.established_peers = k.established_peers /\ j.ready_peers = k.ready_peers
    /\ \A d \in Conns, s \in StreamIds :
         j.stream_owner[<<d, s>>] = IF d = c THEN None ELSE k.stream_owner[<<d, s>>]

\* What the retain() calls leave alone.
LEMMA ForgetIs ==
    ASSUME NEW k \in CoreState, NEW c \in Conns, NEW j, j = ForgetConn(k, c)
    PROVE  Forgets(k, j, c)
<1> PICK f : f = [cs \in StreamKeys |-> IF cs[1] = c THEN None ELSE k.stream_owner[cs]]
  OBVIOUS
<1> PICK g : g = [cs \in StreamKeys |-> IF cs[1] = c THEN None ELSE k.outbound_negotiators[cs]]
  OBVIOUS
<1> PICK h : h = {cs \in k.inbound_negotiators : cs[1] # c}
  OBVIOUS
<1> PICK os : os = {o \in k.pending_opens : o.conn # c}
  OBVIOUS
<1>1. /\ f \in [StreamKeys -> ProtocolKind \cup {None}]
      /\ g \in [StreamKeys -> ProtocolKind \cup {None}]
      /\ h \in SUBSET StreamKeys /\ os \in SUBSET PendingOpen
  BY DEF CoreState
<1>2. j = [k EXCEPT !.stream_owner = f, !.inbound_negotiators = h,
                    !.outbound_negotiators = g, !.pending_opens = os]
  BY DEF ForgetConn
<1>3. /\ j \in CoreState /\ SameMaps(k, j) /\ j.events = k.events
      /\ j.established_peers = k.established_peers /\ j.ready_peers = k.ready_peers
      /\ j.stream_owner = f
  BY <1>1, <1>2 DEF CoreState, SameMaps
<1>4. ASSUME NEW d \in Conns, NEW s \in StreamIds
      PROVE  f[<<d, s>>] = IF d = c THEN None ELSE k.stream_owner[<<d, s>>]
  <2>1. <<d, s>> \in StreamKeys /\ <<d, s>>[1] = d
    BY DEF StreamKeys
  <2> QED
    BY <2>1
<1> QED
  BY <1>3, <1>4 DEF Forgets

\* From k to j only what is kept of p changes, and no user has a stream of p.
Drops(k, j, p) ==
    /\ \A d \in Conns, q \in PeerIds :
         q # p => (j.conn_to_peer[d] = q <=> k.conn_to_peer[d] = q)
    /\ \A d \in Conns, s \in StreamIds :
         k.conn_to_peer[d] \notin {p, None} => j.stream_owner[<<d, s>>] = k.stream_owner[<<d, s>>]
    /\ \A d \in Conns, s \in StreamIds :
         j.conn_to_peer[d] = p => j.stream_owner[<<d, s>>] # "User"

\* Then the other peers' streams are all there is.
LEMMA DropsStreams ==
    ASSUME NEW k, NEW j, NEW p \in PeerIds, Drops(k, j, p)
    PROVE  UserStreams(j) = {ps \in UserStreams(k) : ps[1] # p}
<1>1. ASSUME NEW q \in PeerIds, q # p, NEW s \in StreamIds
      PROVE  OwningConns(j, q, s, "User") = OwningConns(k, q, s, "User")
  BY <1>1, PeersAssumption DEF OwningConns, Drops
<1>2. ASSUME NEW s \in StreamIds PROVE OwningConns(j, p, s, "User") = {}
  BY DEF OwningConns, Drops
<1>3. ASSUME NEW q \in PeerIds, NEW s \in StreamIds
      PROVE  <<q, s>> \in UserStreams(j) <=> <<q, s>> \in UserStreams(k) /\ q # p
  BY <1>1, <1>2 DEF UserStreams
<1>4. UserStreams(j) \subseteq PeerIds \X StreamIds /\ UserStreams(k) \subseteq PeerIds \X StreamIds
  BY DEF UserStreams
<1> QED
  BY <1>3, <1>4

\* handle_connection_closed
LEMMA ClosedTuned ==
    ASSUME NEW v, NEW k, Tuned(v, k), NEW c \in Conns
    PROVE  Tuned(v, HandleConnectionClosed(k, c))
<1>0. k \in CoreState /\ MapsAgree(k) /\ Paired(k) /\ Announced(k) /\ HeldByPeer(k)
  BY DEF Tuned
<1>a. None # "User"
  BY AbsentAssumption DEF ProtocolKind
<1> PICK j : j = HandleConnectionClosed(k, c)
  OBVIOUS
<1>1. MapsAgree(j) /\ Paired(j)
  <2>1. HasMaps(k)
    BY <1>0 DEF CoreState, HasMaps
  <2> QED
    BY <1>0, <2>1, ClosedKeeps
<1>2. CASE k.conn_to_peer[c] = None
  <2> PICK f : f = [k.conn_to_peer EXCEPT ![c] = None]
    OBVIOUS
  <2>1. f = k.conn_to_peer
    BY <1>0, <1>2 DEF CoreState
  <2> PICK h : h = [k EXCEPT !.conn_to_peer = f]
    OBVIOUS
  <2>2. h = k
    BY <1>0, <2>1 DEF CoreState
  <2>3. j = ForgetConn(k, c)
    BY <1>2, <2>2 DEF HandleConnectionClosed
  <2>4. /\ j \in CoreState /\ SameMaps(k, j) /\ j.events = k.events
        /\ j.established_peers = k.established_peers /\ j.ready_peers = k.ready_peers
        /\ \A d \in Conns, s \in StreamIds :
             j.stream_owner[<<d, s>>] = IF d = c THEN None ELSE k.stream_owner[<<d, s>>]
    BY ONLY <1>0, <2>3, c \in Conns, ForgetIs DEF Forgets
  <2>5. \A d \in Conns, s \in StreamIds :
          j.stream_owner[<<d, s>>] = "User" <=> k.stream_owner[<<d, s>>] = "User"
    BY <1>0, <1>2, <1>a, <2>4 DEF HeldByPeer
  <2>6. UserStreams(j) = UserStreams(k)
    <3>1. ASSUME NEW q \in PeerIds, NEW s \in StreamIds
          PROVE  OwningConns(j, q, s, "User") = OwningConns(k, q, s, "User")
      BY <2>4, <2>5 DEF OwningConns, SameMaps
    <3> QED
      BY <3>1 DEF UserStreams
  <2>7. View(j) = View(k)
    BY <2>4, <2>6 DEF View
  <2>8. Announced(j)
    BY <1>0, <2>4 DEF Announced, SameMaps
  <2>9. HeldByPeer(j)
    BY <1>0, <2>4, <2>5 DEF HeldByPeer, SameMaps
  <2> QED
    BY <1>1, <2>4, <2>7, <2>8, <2>9 DEF Tuned
<1>3. CASE k.conn_to_peer[c] # None
  <2> PICK p \in PeerIds : p = k.conn_to_peer[c]
    BY <1>0, <1>3 DEF CoreState
  <2>1. k.peer_to_conn[p] = c /\ p # None /\ c # None
    BY <1>0, <1>3, ConnsAssumption DEF Paired, NoOrphan
  <2> PICK h : h = Unmap(k, c, p)
    OBVIOUS
  <2>2. /\ h \in CoreState /\ Unmapped(k, h, c, p) /\ h.events = k.events
        /\ h.ready_peers = k.ready_peers \ {p}
        /\ h.established_peers = k.established_peers \ {p}
    BY <1>0, UnmapIs
  <2> PICK e : e = Event("ConnectionClosed", p, None)
    OBVIOUS
  <2>3. e \in SwarmEvent /\ e.kind = "ConnectionClosed" /\ e.peer = p
    BY DEF Event, SwarmEvent, EventKinds
  <2> PICK l : l = Emit(h, "ConnectionClosed", p, None)
    OBVIOUS
  <2>4. /\ l \in CoreState /\ SameMaps(h, l) /\ l.events = Append(k.events, e)
        /\ l.stream_owner = h.stream_owner /\ l.established_peers = h.established_peers
        /\ l.ready_peers = h.ready_peers
    BY <2>2, <2>3, EmitIs
  <2>5. j = ForgetConn(l, c)
    BY <1>3, <2>1 DEF HandleConnectionClosed, Unmap
  <2>6. /\ j \in CoreState /\ SameMaps(l, j) /\ j.events = l.events
        /\ j.established_peers = l.established_peers /\ j.ready_peers = l.ready_peers
        /\ \A d \in Conns, s \in StreamIds :
             j.stream_owner[<<d, s>>] = IF d = c THEN None ELSE l.stream_owner[<<d, s>>]
    BY ONLY <2>4, <2>5, c \in Conns, ForgetIs DEF Forgets
  <2>7. /\ j.events = Append(k.events, e)
        /\ j.established_peers = k.established_peers \ {p}
        /\ j.ready_peers = k.ready_peers \ {p}
    BY <2>2, <2>4, <2>6
  <2>8. /\ j.conn_to_peer[c] = None /\ j.peer_to_conn[p] = None
        /\ \A d \in Conns : d # c => j.conn_to_peer[d] = k.conn_to_peer[d]
        /\ \A q \in PeerIds : q # p => j.peer_to_conn[q] = k.peer_to_conn[q]
    BY <2>2, <2>4, <2>6 DEF Unmapped, SameMaps
  <2>9. \A d \in Conns, s \in StreamIds :
          j.stream_owner[<<d, s>>] = IF d = c THEN None ELSE k.stream_owner[<<d, s>>]
    <3>1. l.stream_owner = k.stream_owner
      BY <2>2, <2>4 DEF Unmapped, SameTables
    <3> QED
      BY <2>6, <3>1
  <2>10. \A d \in Conns : d # c => k.conn_to_peer[d] # p
    BY <1>0, <2>1 DEF Paired, NoOrphan
  <2>11. Drops(k, j, p)
    BY <2>1, <2>8, <2>9, <2>10, PeersAssumption DEF Drops
  <2>12. UserStreams(j) = {ps \in UserStreams(k) : ps[1] # p}
    BY <2>11, DropsStreams
  <2>13. Told(View(k), e) =
           [connected |-> View(k).connected \ {p}, ready |-> View(k).ready \ {p},
            streams |-> {ps \in View(k).streams : ps[1] # p}]
    BY <2>3 DEF Told
  <2>14. View(j) = Told(View(k), e)
    BY <2>7, <2>12, <2>13 DEF View
  <2>15. Announced(j)
    BY <1>0, <2>7, <2>8 DEF Announced, PeerIds, CoreState
  <2>16. HeldByPeer(j)
    BY <1>0, <1>a, <2>8, <2>9 DEF HeldByPeer
  <2>17. Known(k, p)
    BY <1>0, <2>1 DEF Known, Announced
  <2>18. InSession(View(k), e)
    BY <2>3, <2>17 DEF InSession, View, Known
  <2> QED
    BY <1>1, <2>3, <2>6, <2>7, <2>14, <2>15, <2>16, <2>18, SaysTuned
<1> QED
  BY <1>2, <1>3

\* The new connection of p takes the place of whatever p had.
Replaces(k, m, c, p) ==
    /\ m.conn_to_peer[c] = p /\ m.peer_to_conn[p] = c
    /\ \A q \in PeerIds : q # p => m.peer_to_conn[q] = k.peer_to_conn[q]
    /\ m.events = k.events
    /\ m.ready_peers = k.ready_peers \ {p}
    /\ m.established_peers \ {p} = k.established_peers \ {p}
    /\ Drops(k, m, p)

\* The end of register_connection: ConnectionEstablished starts the session afresh.
LEMMA AnnounceTuned ==
    ASSUME NEW v, NEW k, Tuned(v, k), NEW c \in Conns, NEW p \in PeerIds,
           NEW m \in CoreState, MapsAgree(m), Paired(m), HeldByPeer(m), Replaces(k, m, c, p)
    PROVE  Tuned(v, AnnounceConnection(m, p))
<1>0. k \in CoreState /\ Announced(k) /\ c # None
  BY ConnsAssumption DEF Tuned
<1> PICK f : f = m.established_peers \cup {p}
  OBVIOUS
<1>1. f \in SUBSET PeerIds /\ f = k.established_peers \cup {p}
  BY <1>0 DEF CoreState, Replaces
<1> PICK h : h = [m EXCEPT !.established_peers = f]
  OBVIOUS
<1>2. /\ h \in CoreState /\ SameMaps(m, h) /\ h.events = m.events
      /\ h.stream_owner = m.stream_owner /\ h.established_peers = f
      /\ h.ready_peers = m.ready_peers
  BY <1>1 DEF CoreState, SameMaps
<1> PICK e : e = Event("ConnectionEstablished", p, None)
  OBVIOUS
<1>3. e \in SwarmEvent /\ e.kind = "ConnectionEstablished" /\ e.peer = p
  BY DEF Event, SwarmEvent, EventKinds
<1> PICK k1 : k1 = Emit(h, "ConnectionEstablished", p, None)
  OBVIOUS
<1>4. /\ k1 \in CoreState /\ SameMaps(h, k1) /\ k1.events = Append(k.events, e)
      /\ k1.stream_owner = h.stream_owner /\ k1.established_peers = h.established_peers
      /\ k1.ready_peers = h.ready_peers
  <2>1. h.events = k.events
    BY <1>2 DEF Replaces
  <2>2. /\ k1 \in CoreState /\ SameMaps(h, k1) /\ k1.events = Append(h.events, e)
        /\ k1.stream_owner = h.stream_owner /\ k1.established_peers = h.established_peers
        /\ k1.ready_peers = h.ready_peers
    BY ONLY <1>2, <1>3, e = Event("ConnectionEstablished", p, None),
       k1 = Emit(h, "ConnectionEstablished", p, None), EmitIs
  <2> QED
    BY <2>1, <2>2
<1>5. SameMaps(m, k1) /\ k1.stream_owner = m.stream_owner
  BY <1>2, <1>4 DEF SameMaps
<1>6. MapsAgree(k1) /\ Paired(k1)
  BY <1>5, SameMapsKeeps
<1>7. HeldByPeer(k1)
  BY <1>5 DEF HeldByPeer, SameMaps
<1>8. Announced(k1)
  <2>1. k1.peer_to_conn = m.peer_to_conn
    BY <1>5 DEF SameMaps
  <2>2. k1.established_peers = k.established_peers \cup {p} /\ k1.ready_peers = k.ready_peers \ {p}
    BY <1>1, <1>2, <1>4 DEF Replaces
  <2>3. \A q \in PeerIds : q # p => k1.peer_to_conn[q] = k.peer_to_conn[q]
    BY <2>1 DEF Replaces
  <2>4. Peers \subseteq PeerIds /\ k.ready_peers \subseteq PeerIds
    BY <1>0 DEF PeerIds, CoreState
  <2> QED
    BY <1>0, <2>2, <2>3, <2>4 DEF Announced
<1>9. UserStreams(k1) = {ps \in UserStreams(k) : ps[1] # p}
  <2>1. UserStreams(k1) = UserStreams(m)
    BY <1>5 DEF UserStreams, OwningConns, SameMaps
  <2> QED
    BY <2>1, DropsStreams DEF Replaces
<1>10. Told(View(k), e) =
         [connected |-> View(k).connected \cup {p}, ready |-> View(k).ready \ {p},
          streams |-> {ps \in View(k).streams : ps[1] # p}]
  BY <1>3 DEF Told
<1>11. View(k1) = Told(View(k), e)
  BY <1>1, <1>2, <1>4, <1>9, <1>10 DEF View, Replaces
<1>12. InSession(View(k), e)
  BY <1>3 DEF InSession
<1>13. Tuned(v, k1)
  BY <1>3, <1>4, <1>6, <1>7, <1>8, <1>11, <1>12, SaysTuned
<1>14. k1.peer_to_conn[p] # None
  BY <1>0, <1>5 DEF SameMaps, Replaces
<1> PICK k2 : k2 = QueueOpenProtocolStream(k1, p, "IdentifyInitiator")
  OBVIOUS
<1>15. Kept(v, k1, k2)
  BY <1>13, <1>14, QueueOpenKept DEF ProtocolKind
<1>16. Tuned(v, k2) /\ k2.peer_to_conn[p] # None
  BY <1>14, <1>15 DEF Kept, SameMaps
<1>17. Tuned(v, QueueOpenProtocolStream(k2, p, "Ping"))
  BY <1>16, QueueOpenKept DEF Kept, ProtocolKind
<1> QED
  BY <1>16, <1>17 DEF AnnounceConnection

\* register_connection, for a connection that was not known before.
LEMMA RegisterTuned ==
    ASSUME NEW v, NEW k, Tuned(v, k), NEW c \in Conns, k.conn_to_peer[c] = None, NEW p \in Peers
    PROVE  Tuned(v, RegisterConnection(k, c, p))
<1>0. /\ k \in CoreState /\ MapsAgree(k) /\ Paired(k) /\ Announced(k) /\ HeldByPeer(k)
      /\ HasMaps(k) /\ p \in PeerIds /\ p # None /\ c # None /\ None # "User"
  BY PeersAssumption, ConnsAssumption, AbsentAssumption
     DEF Tuned, CoreState, HasMaps, PeerIds, ProtocolKind
<1> PICK old : old = k.peer_to_conn[p]
  OBVIOUS
<1>1. \A s \in StreamIds : k.stream_owner[<<c, s>>] # "User"
  BY <1>0 DEF HeldByPeer
<1> PICK m : m = MapConn(IF old \notin {None, c} THEN SupersedeConnection(k, old) ELSE k, c, p)
  OBVIOUS
<1>2. RegisterConnection(k, c, p) = AnnounceConnection(m, p)
  BY DEF RegisterConnection
<1>3. \A d \in Conns : k.conn_to_peer[d] = p => d = old
  BY <1>0 DEF Paired, NoOrphan
<1>4. /\ m \in CoreState /\ m.events = k.events
      /\ m.ready_peers = k.ready_peers \ {p}
      /\ m.established_peers \ {p} = k.established_peers \ {p}
      /\ m.conn_to_peer[c] = p /\ m.peer_to_conn[p] = c
      /\ \A q \in PeerIds : q # p => m.peer_to_conn[q] = k.peer_to_conn[q]
      /\ \A d \in Conns : d # c => m.conn_to_peer[d] = IF d = old THEN None ELSE k.conn_to_peer[d]
      /\ \A d \in Conns, s \in StreamIds :
           m.stream_owner[<<d, s>>] = IF d = old THEN None ELSE k.stream_owner[<<d, s>>]
  <2>1. CASE old = None
    <3> PICK a : a = [k.conn_to_peer EXCEPT ![c] = p]
      OBVIOUS
    <3> PICK b : b = [k.peer_to_conn EXCEPT ![p] = c]
      OBVIOUS
    <3>1. /\ a \in [Conns -> PeerIds \cup {None}] /\ b \in [PeerIds -> Conns \cup {None}]
          /\ a[c] = p /\ \A d \in Conns : d # c => a[d] = k.conn_to_peer[d]
          /\ b[p] = c /\ \A q \in PeerIds : q # p => b[q] = k.peer_to_conn[q]
      BY <1>0 DEF CoreState
    <3>2. m = [k EXCEPT !.conn_to_peer = a, !.peer_to_conn = b]
      BY <2>1 DEF MapConn
    <3>3. /\ m \in CoreState /\ m.events = k.events /\ m.ready_peers = k.ready_peers
          /\ m.established_peers = k.established_peers /\ m.stream_owner = k.stream_owner
          /\ m.conn_to_peer = a /\ m.peer_to_conn = b
      BY <1>0, <3>1, <3>2 DEF CoreState
    <3>4. p \notin k.ready_peers
      BY <1>0, <2>1 DEF Announced
    <3>5. \A d \in Conns : d # old
      BY <2>1, ConnsAssumption
    <3> QED
      BY <3>1, <3>3, <3>4, <3>5
  <2>2. CASE old # None
    <3>1. old \in Conns /\ k.conn_to_peer[old] = p /\ old # c
      BY <1>0, <2>2 DEF HasMaps, MapsAgree
    <3> PICK x \in Payloads \cup {None} : x = k.pending_pings[p]
      BY <1>0 DEF CoreState
    <3> PICK h1 : h1 = Unmap(k, old, p)
      OBVIOUS
    <3>2. /\ h1 \in CoreState /\ Unmapped(k, h1, old, p) /\ h1.events = k.events
          /\ h1.ready_peers = k.ready_peers \ {p}
          /\ h1.established_peers = k.established_peers \ {p}
      BY ONLY <1>0, <3>1, h1 = Unmap(k, old, p), UnmapIs
    <3>b. PICK h2 : h2 = ForgetConn(h1, old)
      OBVIOUS
    <3>3. /\ h2 \in CoreState /\ SameMaps(h1, h2) /\ h2.events = h1.events
          /\ h2.established_peers = h1.established_peers /\ h2.ready_peers = h1.ready_peers
          /\ \A d \in Conns, s \in StreamIds :
               h2.stream_owner[<<d, s>>] = IF d = old THEN None ELSE h1.stream_owner[<<d, s>>]
      <4>1. h1 \in CoreState
        BY <3>2
      <4>2. PICK o \in Conns : o = old
        BY <3>1
      <4>3. h2 = ForgetConn(h1, o)
        BY <3>b, <4>2
      <4>4. Forgets(h1, h2, o)
        BY ONLY <4>1, <4>3, o \in Conns, ForgetIs
      <4> QED
        BY ONLY <4>2, <4>4 DEF Forgets
    <3> PICK h3 : h3 = Join(h2, c, p, x)
      OBVIOUS
    <3> PICK h4 : h4 = Act(h3, "CloseConnection", old, None)
      OBVIOUS
    <3>4. m = h4
      <4>1. m = MapConn(SupersedeConnection(k, old), c, p)
        BY <2>2, <3>1
      <4> QED
        BY ONLY <1>0, <3>1, <4>1, k.conn_to_peer[c] = None, c \in Conns, h1 = Unmap(k, old, p),
           h2 = ForgetConn(h1, old), x = k.pending_pings[p], h3 = Join(h2, c, p, x),
           h4 = Act(h3, "CloseConnection", old, None), SupersedeIs
    <3> PICK a : a = [h2.conn_to_peer EXCEPT ![c] = p]
      OBVIOUS
    <3> PICK b : b = [h2.peer_to_conn EXCEPT ![p] = c]
      OBVIOUS
    <3> PICK g : g = [h2.pending_pings EXCEPT ![p] = x]
      OBVIOUS
    <3> PICK as : as = Append(h2.actions, StreamAction("CloseConnection", old, None))
      OBVIOUS
    <3>5. /\ a \in [Conns -> PeerIds \cup {None}] /\ b \in [PeerIds -> Conns \cup {None}]
          /\ g \in [PeerIds -> Payloads \cup {None}]
          /\ a[c] = p /\ \A d \in Conns : d # c => a[d] = h2.conn_to_peer[d]
          /\ b[p] = c /\ \A q \in PeerIds : q # p => b[q] = h2.peer_to_conn[q]
      BY <1>0, <3>3 DEF CoreState
    <3>6. as \in Seq(SwarmAction)
      <4>1. StreamAction("CloseConnection", old, None) \in SwarmAction
        BY <3>1 DEF StreamAction, SwarmAction
      <4> QED
        BY <3>3, <4>1 DEF CoreState
    <3>7. h3 = [h2 EXCEPT !.conn_to_peer = a, !.peer_to_conn = b, !.pending_pings = g]
      BY DEF Join
    <3>8. h4 = [h2 EXCEPT !.conn_to_peer = a, !.peer_to_conn = b, !.pending_pings = g, !.actions = as]
      BY ONLY <3>3, <3>7, h4 = Act(h3, "CloseConnection", old, None),
         as = Append(h2.actions, StreamAction("CloseConnection", old, None)) DEF Act, CoreState
    <3>9. /\ m \in CoreState /\ m.events = h2.events /\ m.ready_peers = h2.ready_peers
          /\ m.established_peers = h2.established_peers /\ m.stream_owner = h2.stream_owner
          /\ m.conn_to_peer = a /\ m.peer_to_conn = b
      BY ONLY <3>3, <3>4, <3>5, <3>6, <3>8 DEF CoreState
    <3>10. /\ \A d \in Conns : h2.conn_to_peer[d] = IF d = old THEN None ELSE k.conn_to_peer[d]
           /\ \A q \in PeerIds : q # p => h2.peer_to_conn[q] = k.peer_to_conn[q]
      BY <3>2, <3>3 DEF Unmapped, SameMaps
    <3>11. h1.stream_owner = k.stream_owner
      BY <3>2 DEF Unmapped, SameTables
    <3>12. \A d \in Conns : d # c => m.conn_to_peer[d] = IF d = old THEN None ELSE k.conn_to_peer[d]
      BY ONLY <3>5, <3>9, <3>10
    <3>13. \A q \in PeerIds : q # p => m.peer_to_conn[q] = k.peer_to_conn[q]
      BY ONLY <3>5, <3>9, <3>10
    <3>14. \A d \in Conns, s \in StreamIds :
             m.stream_owner[<<d, s>>] = IF d = old THEN None ELSE k.stream_owner[<<d, s>>]
      BY ONLY <3>3, <3>9, <3>11
    <3>15. /\ m.events = k.events /\ m.ready_peers = k.ready_peers \ {p}
           /\ m.established_peers \ {p} = k.established_peers \ {p}
      BY ONLY <3>2, <3>3, <3>9
    <3> QED
      BY <3>5, <3>9, <3>12, <3>13, <3>14, <3>15
  <2> QED
    BY <2>1, <2>2
<1>5. MapsAgree(m) /\ Paired(m)
  <2> PICK j : j = RegisterConnection(k, c, p)
    OBVIOUS
  <2>1. MapsAgree(j) /\ Paired(j)
    BY <1>0, RegisterKeeps
  <2>2. SameMaps(m, j)
    <3>1. HasMaps(m)
      BY <1>4 DEF HasMaps, CoreState
    <3> QED
      BY <1>0, <1>2, <3>1, AnnounceSame
  <2>3. m.conn_to_peer = j.conn_to_peer /\ m.peer_to_conn = j.peer_to_conn
    BY <2>2 DEF SameMaps
  <2> QED
    BY <2>1, <2>3 DEF MapsAgree, Paired, NoOrphan, OwnPlaceholder
<1>6. HeldByPeer(m)
  <2> SUFFICES ASSUME NEW d \in Conns, NEW s \in StreamIds, m.stream_owner[<<d, s>>] = "User"
               PROVE  m.conn_to_peer[d] # None
    BY DEF HeldByPeer
  <2>1. d # old /\ k.stream_owner[<<d, s>>] = "User"
    BY <1>0, <1>4
  <2>2. d # c /\ k.conn_to_peer[d] # None
    BY <1>0, <1>1, <2>1 DEF HeldByPeer
  <2> QED
    BY <1>4, <2>1, <2>2
<1>7. Drops(k, m, p)
  <2>1. ASSUME NEW d \in Conns, NEW q \in PeerIds, q # p
        PROVE  m.conn_to_peer[d] = q <=> k.conn_to_peer[d] = q
    <3>1. q # None
      BY PeersAssumption
    <3>2. CASE d = c
      BY <1>4, <2>1, <3>1, <3>2
    <3>3. CASE d # c /\ d = old
      <4>1. k.conn_to_peer[d] = p
        BY <1>0, <3>3, ConnsAssumption DEF MapsAgree
      <4> QED
        BY <1>4, <2>1, <3>1, <3>3, <4>1
    <3>4. CASE d # c /\ d # old
      BY <1>4, <3>4
    <3> QED
      BY <3>2, <3>3, <3>4
  <2>2. ASSUME NEW d \in Conns, NEW s \in StreamIds, k.conn_to_peer[d] \notin {p, None}
        PROVE  m.stream_owner[<<d, s>>] = k.stream_owner[<<d, s>>]
    <3>1. d # old
      BY <1>0, <2>2, ConnsAssumption DEF MapsAgree
    <3> QED
      BY <1>4, <3>1
  <2>3. ASSUME NEW d \in Conns, NEW s \in StreamIds, m.conn_to_peer[d] = p
        PROVE  m.stream_owner[<<d, s>>] # "User"
    <3>1. CASE d = c
      BY <1>0, <1>1, <1>4, <3>1
    <3>2. CASE d # c
      <4>1. d = old
        BY <1>0, <1>3, <1>4, <2>3, <3>2
      <4> QED
        BY <1>0, <1>4, <4>1
    <3> QED
      BY <3>1, <3>2
  <2> QED
    BY <2>1, <2>2, <2>3 DEF Drops
<1>8. Replaces(k, m, c, p)
  BY <1>4, <1>7 DEF Replaces
<1>9. Tuned(v, AnnounceConnection(m, p))
  BY <1>0, <1>4, <1>5, <1>6, <1>8, AnnounceTuned
<1> QED
  BY <1>2, <1>9

-----------------------------------------------------------------------------
(* The swarm.                                                              *)

\* The events that wait for the application make up the difference between
\* what it knows and what the core knows, where identities come with the
\* connection.
ViewInv == AuthAtHandshake => Tuned(app, core)

\* A new core has nothing to tell.
LEMMA NewCoreTuned ==
    ASSUME NEW v, v = [connected |-> {}, ready |-> {}, streams |-> {}]
    PROVE  Tuned(v, NewCore)
<1> PICK k : k = NewCore
  OBVIOUS
<1>1. /\ k.conn_to_peer = [c \in Conns |-> None]
      /\ k.peer_to_conn = [p \in PeerIds |-> None]
      /\ k.stream_owner = [cs \in StreamKeys |-> None]
      /\ k.ready_peers = {} /\ k.established_peers = {} /\ k.events = << >>
  BY DEF NewCore
<1>2. None # "User" /\ None \notin PeerIds /\ None \notin Synthetics
  BY AbsentAssumption, PeersAssumption DEF ProtocolKind, PeerIds
<1>3. k \in CoreState
  BY AbsentTypes DEF NewCore, CoreState
<1>4. MapsAgree(k) /\ Paired(k)
  BY <1>1, <1>2 DEF MapsAgree, Paired, NoOrphan, OwnPlaceholder
<1>5. Announced(k)
  BY <1>1 DEF Announced, PeerIds
<1>6. \A c \in Conns, s \in StreamIds : k.stream_owner[<<c, s>>] # "User"
  BY <1>1, <1>2 DEF StreamKeys
<1>7. HeldByPeer(k)
  BY <1>6 DEF HeldByPeer
<1>8. UserStreams(k) = {}
  BY <1>6 DEF UserStreams, OwningConns
<1>9. View(k) = v
  BY <1>1, <1>8 DEF View
<1>10. Story(v, k.events, View(k))
  BY <1>1, <1>9, StoryEmpty
<1> QED
  BY <1>3, <1>4, <1>5, <1>7, <1>10 DEF Tuned

\* An event reaches the application.
LEMMA DeliverTuned ==
    ASSUME NEW v, NEW k, Tuned(v, k), k.events # << >>
    PROVE  InSession(v, Head(k.events)) /\ Tuned(Told(v, Head(k.events)), PopEvent(k))
<1>0. k \in CoreState /\ Story(v, k.events, View(k))
  BY DEF Tuned
<1> PICK es \in Seq(SwarmEvent) : es = k.events
  BY <1>0 DEF CoreState
<1> PICK u : u = Told(v, Head(es))
  OBVIOUS
<1> PICK fs : fs = Tail(es)
  OBVIOUS
<1> PICK j : j = [k EXCEPT !.events = fs]
  OBVIOUS
<1>1. fs \in Seq(SwarmEvent)
  OBVIOUS
<1>2. InSession(v, Head(es)) /\ Story(u, fs, View(k))
  BY <1>0, StoryTail
<1>3. j \in CoreState /\ SameAnswers(k, j) /\ j.events = fs
  BY <1>0, <1>1 DEF CoreState, SameAnswers, SameMaps
<1>4. /\ View(j) = View(k) /\ MapsAgree(j) /\ Paired(j)
      /\ Announced(j) /\ HeldByPeer(j)
  BY <1>3, SameView
<1>5. Tuned(u, j)
  BY <1>2, <1>3, <1>4 DEF Tuned
<1> QED
  BY <1>2, <1>5 DEF PopEvent

\* The transport's events about connections.
LEMMA ConnStepView ==
    ASSUME MapInv, StreamInv, AuthAtHandshake, Tuned(app, core), NEW c \in Conns,
           (\E p \in Peers : Connected(c, p)) \/ PeerIdentityVerified(c) \/ Closed(c)
             \/ TransportError(c)
    PROVE  Tuned(app', core')
<1> PICK k : k = core
  OBVIOUS
<1>1. ASSUME NEW p \in Peers, Connected(c, p) PROVE Tuned(app', core')
  <2>1. app' = app /\ core' = HandleConnected(k, c, p) /\ conns[c] = "unused"
    BY <1>1 DEF Connected
  <2>2. p # None
    BY PeersAssumption DEF PeerIds
  <2>3. core' = RegisterConnection(k, c, p)
    BY <2>1, <2>2 DEF HandleConnected
  <2>4. k.conn_to_peer[c] = None
    <3>1. c \notin LiveConns
      BY <2>1 DEF LiveConns, Live
    <3> QED
      BY <3>1 DEF StreamInv, Sound, Mapped
  <2>5. Tuned(app, RegisterConnection(k, c, p))
    BY <2>4, RegisterTuned
  <2> QED
    BY <2>1, <2>3, <2>5
<1>2. ~PeerIdentityVerified(c)
  BY DEF PeerIdentityVerified, MapInv, WireOK
<1>3. CASE Closed(c)
  <2>1. app' = app /\ core' = HandleConnectionClosed(k, c)
    BY <1>3 DEF Closed
  <2> QED
    BY <2>1, ClosedTuned
<1>4. CASE TransportError(c)
  <2> PICK p : p = EstablishedPeerForConn(k, c)
    OBVIOUS
  <2>1. app' = app /\ core' = EmitError(k, "Transport", p)
    BY <1>4 DEF TransportError
  <2>2. p \in PeerIds \cup {None} /\ Known(k, p)
    BY EstablishedKnown
  <2>3. Tuned(app, EmitError(k, "Transport", p))
    BY <2>2, ErrorTuned DEF ErrorKinds
  <2> QED
    BY <2>1, <2>3
<1> QED
  BY <1>1, <1>2, <1>3, <1>4

\* Its events about streams.
LEMMA StreamStepView ==
    ASSUME StreamInv, Tuned(app, core), NEW c \in Conns, NEW s \in StreamIds,
           IncomingStream(c, s) \/ StreamData(c, s) \/ StreamRemoteWriteClosed(c, s) \/ StreamClosed(c, s)
    PROVE  Tuned(app', core')
<1> PICK k : k = core
  OBVIOUS
<1>0. Exclusive(k) /\ <<c, s>> \in StreamKeys /\ None # "User"
  BY AbsentAssumption DEF StreamInv, Sound, StreamKeys, ProtocolKind
<1>1. app' = app
  BY DEF IncomingStream, StreamData, StreamRemoteWriteClosed, StreamClosed
<1>2. \A rest \in Chunks \cup {None} : rest # None => rest.len \in Nat
  BY CorePayloadAssumption DEF Chunks
<1>3. CASE IncomingStream(c, s)
  <2>1. core' = HandleIncomingStream(k, c, s)
    BY <1>3 DEF IncomingStream
  <2> QED
    BY <1>1, <2>1, IncomingTuned
<1>4. ASSUME NEW chunk \in Chunks, DataForOwner(c, s, chunk) PROVE Tuned(app', core')
  <2>1. core' = DispatchProtocolData(k, c, s, chunk)
    BY <1>4 DEF DataForOwner
  <2>2. chunk.len \in Nat
    BY CorePayloadAssumption DEF Chunks
  <2>3. Tuned(app, DispatchProtocolData(k, c, s, chunk))
    BY <2>2, DispatchTuned
  <2> QED
    BY <1>1, <2>1, <2>3
<1>5. ASSUME NEW rest \in Chunks \cup {None}, DataForListener(c, s, rest) PROVE Tuned(app', core')
  <2>1. k.stream_owner[<<c, s>>] # "User"
    BY <1>0, <1>5 DEF DataForListener, Exclusive
  <2>2. PICK outcome \in {"negotiated", "not_available", "error"},
             protocol \in {"Ping", "Identify", "User", None}, data \in {rest, None} :
          /\ core' = FeedInboundNegotiator(k, c, s, outcome, protocol, data)
          /\ outcome = "negotiated" => protocol \in {"Ping", "Identify", "User"}
    BY <1>5 DEF DataForListener
  <2>3. data # None => data.len \in Nat
    BY <1>2
  <2>4. Tuned(app, FeedInboundNegotiator(k, c, s, outcome, protocol, data))
    BY <2>1, <2>2, <2>3, FeedInboundTuned
  <2> QED
    BY <1>1, <2>2, <2>4
<1>6. ASSUME NEW rest \in Chunks \cup {None}, DataForDialer(c, s, rest) PROVE Tuned(app', core')
  <2>1. k.outbound_negotiators[<<c, s>>] # None
    BY <1>6 DEF DataForDialer
  <2>2. k.stream_owner[<<c, s>>] # "User"
    BY <1>0, <2>1 DEF Exclusive
  <2>3. PICK proposed \in BOOLEAN, outcome \in {"waiting", "negotiated", "not_available", "error"},
             data \in {rest, None} :
          core' = FeedOutboundNegotiator(k, c, s, proposed, outcome, data)
    BY <1>6 DEF DataForDialer
  <2>4. data # None => data.len \in Nat
    BY <1>2
  <2>5. Tuned(app, FeedOutboundNegotiator(k, c, s, proposed, outcome, data))
    BY <2>1, <2>2, <2>4, FeedOutboundTuned
  <2> QED
    BY <1>1, <2>3, <2>5
<1>7. CASE StreamRemoteWriteClosed(c, s)
  <2>1. PICK decoded \in IdentifyInfo \cup {Malformed} :
          core' = HandleStreamRemoteWriteClosed(k, c, s, decoded)
    BY <1>7 DEF StreamRemoteWriteClosed
  <2>2. Tuned(app, HandleStreamRemoteWriteClosed(k, c, s, decoded))
    BY RemoteClosedTuned
  <2> QED
    BY <1>1, <2>1, <2>2
<1>8. CASE StreamClosed(c, s)
  <2>1. core' = HandleStreamClosed(k, c, s)
    BY <1>8 DEF StreamClosed
  <2> QED
    BY <1>1, <2>1, StreamClosedTuned
<1>9. CASE StreamData(c, s)
  BY <1>4, <1>5, <1>6, <1>9 DEF StreamData
<1> QED
  BY <1>3, <1>7, <1>8, <1>9

\* dispatch_action
LEMMA DispatchStepView ==
    ASSUME StreamInv, Tuned(app, core), DispatchAction
    PROVE  Tuned(app', core')
<1>1. app' = app /\ core.actions # << >>
  BY DEF DispatchAction
<1> PICK a \in SwarmAction : a = Head(core.actions)
  BY <1>1 DEF Tuned, CoreState
<1> PICK c \in Conns : c = a.conn
  BY DEF SwarmAction
<1> PICK k : k = PopAction(core)
  OBVIOUS
<1>2. Tuned(app, k) /\ Tuned(app, EmitError(k, "Transport", None))
  BY <1>1, PopTuned
<1>3. CASE DispatchOpenStream(a)
  <2>1. CASE core' = HandleOpenStreamFailed(k, a.token)
    BY <1>1, <1>2, <2>1, OpenedTuned
  <2>2. ASSUME NEW s \in NextStream(c), core' = HandleStreamOpened(k, c, s, a.token)
        PROVE  Tuned(app', core')
    <3>1. s \in StreamIds
      BY DEF NextStream
    <3> QED
      BY <1>1, <1>2, <2>2, <3>1, OpenedTuned
  <2> QED
    BY <1>3, <2>1, <2>2 DEF DispatchOpenStream
<1>4. CASE DispatchStreamAction(a)
  BY <1>1, <1>2, <1>4 DEF DispatchStreamAction, DispatchFails
<1>5. CASE DispatchCloseConnection(a)
  BY <1>1, <1>2, <1>5 DEF DispatchCloseConnection, DispatchFails
<1>6. DispatchOpenStream(a) \/ DispatchStreamAction(a) \/ DispatchCloseConnection(a)
  BY Zenon DEF DispatchAction
<1> QED
  BY <1>3, <1>4, <1>5, <1>6

\* BeginPoll, Tick, DeliverEvent and the application's calls
LEMMA DriverStepView ==
    ASSUME StreamInv, AuthAtHandshake, Tuned(app, core), BeginPoll \/ Tick \/ DeliverEvent \/ Call
    PROVE  Tuned(app', core')
<1> PICK k : k = core
  OBVIOUS
<1>1. CASE BeginPoll
  BY <1>1 DEF BeginPoll
<1>2. CASE Tick
  <2>1. app' = app
    BY <1>2 DEF Tick
  <2>2. ASSUME NEW p \in PeerIds, k.ping[p].outbound_stream # None, core' = HandleTick(k, p)
        PROVE  Tuned(app', core')
    <3>1. k.ping[p] \in Ping!PeerPingState
      BY DEF Tuned, CoreState
    <3> PICK s \in StreamIds : s = k.ping[p].outbound_stream
      BY <2>2, <3>1 DEF Ping!PeerPingState
    <3>2. k.peer_to_conn[p] # None
      BY DEF StreamInv, Sound, Owned, OwnedAt, OwnedBy, Ping!IsKnown
    <3> QED
      BY <2>1, <2>2, <3>2, TickTuned
  <2> QED
    BY <1>2, <2>1, <2>2 DEF Tick
<1>3. CASE DeliverEvent
  <2>1. /\ core' = PopEvent(k) /\ app' = Told(app, Head(k.events)) /\ k.events # << >>
    BY <1>3 DEF DeliverEvent
  <2> QED
    BY <2>1, DeliverTuned
<1>4. CASE Call
  <2>0. app' = app
    BY <1>4 DEF Call, AppPing, AppOpenUserStream, AppDisconnect, AppUserStreamCall
  <2>1. PICK p \in Peers :
          \/ \E payload \in Payloads : AppPing(p, payload)
          \/ AppOpenUserStream(p)
          \/ AppDisconnect(p)
          \/ \E s \in StreamIds : AppUserStreamCall(p, s)
    BY <1>4 DEF Call
  <2>2. p \in PeerIds
    BY DEF PeerIds
  <2>3. ASSUME NEW payload \in Payloads, AppPing(p, payload) PROVE Tuned(app', core')
    BY <2>0, <2>2, <2>3, DoPingTuned DEF AppPing
  <2>4. CASE AppOpenUserStream(p) \/ AppDisconnect(p)
    <3>1. core' \in {OpenUserStream(k, p), Disconnect(k, p)}
      BY <2>4 DEF AppOpenUserStream, AppDisconnect
    <3> QED
      BY <2>0, <2>2, <3>1, CallsTuned
  <2>5. ASSUME NEW s \in StreamIds, AppUserStreamCall(p, s) PROVE Tuned(app', core')
    BY <2>0, <2>2, <2>5, CallsTuned DEF AppUserStreamCall
  <2> QED
    BY <2>1, <2>3, <2>4, <2>5
<1> QED
  BY <1>1, <1>2, <1>3, <1>4

\* The waiting events always make up the difference between the application's
\* view and the core's: ViewInv, inductive together with MapInv and StreamInv.
THEOREM ViewInvariant == Spec => []ViewInv
<1>1. Init => ViewInv
  BY NewCoreTuned DEF Init, ViewInv
<1>2. MapInv /\ StreamInv /\ ViewInv /\ [Next]_vars => ViewInv'
  <2> SUFFICES ASSUME MapInv, StreamInv, AuthAtHandshake, Tuned(app, core), [Next]_vars
               PROVE  Tuned(app', core')
    BY DEF ViewInv
  <2>1. CASE Feed
    <3> PICK c \in Conns :
          \/ (\E p \in Peers : Connected(c, p)) \/ PeerIdentityVerified(c) \/ Closed(c)
               \/ TransportError(c)
          \/ \E s \in StreamIds : \/ IncomingStream(c, s)
                                  \/ StreamData(c, s)
                                  \/ StreamRemoteWriteClosed(c, s)
                                  \/ StreamClosed(c, s)
      BY <2>1 DEF Feed
    <3> QED
      BY ConnStepView, StreamStepView
  <2>2. CASE DispatchAction
    BY <2>2, DispatchStepView
  <2>3. CASE BeginPoll \/ Tick \/ DeliverEvent \/ Call
    BY <2>3, DriverStepView
  <2>4. CASE UNCHANGED vars
    BY <2>4 DEF vars
  <2> QED
    BY <2>1, <2>2, <2>3, <2>4 DEF Next
<1> QED
  BY <1>1, <1>2, MapInvariant, StreamInvariant, PTL DEF Spec

\* When everything is delivered the application's view is the core's own.
LEMMA DrainedView ==
    ASSUME AuthAtHandshake, ViewInv, Drained
    PROVE  app = View(core)
<1>1. Tuned(app, core) /\ core.events = << >>
  BY DEF ViewInv, Drained, IsIdle
<1>2. Story(app, << >>, View(core))
  BY <1>1 DEF Tuned
<1> QED
  BY <1>2, StoryOver

\* With a transport that authenticates in the handshake, connected_peers() and
\* is_peer_ready() say what the delivered events said, for any number of
\* connections that supersede each other while events wait.
THEOREM PeersAreKnown == Spec => [](AuthAtHandshake => AppKnowsPeers)
<1>1. ViewInv => (AuthAtHandshake => AppKnowsPeers)
  BY DrainedView DEF AppKnowsPeers, View
<1> QED
  BY <1>1, ViewInvariant, PTL

\* With such a transport the user streams that the events left open are those
\* that send_user_stream finds: none is lost or outlives its connection.
THEOREM StreamsAreKnown == Spec => [](AuthAtHandshake => AppKnowsStreams)
<1>1. ViewInv => (AuthAtHandshake => AppKnowsStreams)
  BY DrainedView DEF AppKnowsStreams, View, UserStreams
<1> QED
  BY <1>1, ViewInvariant, PTL

\* With such a transport no event about a verified peer is delivered before its
\* ConnectionEstablished or after its ConnectionClosed.
THEOREM EventsStayInSession == Spec => [](AuthAtHandshake => EventsInSession)
<1>1. ViewInv => (AuthAtHandshake => EventsInSession)
  <2> SUFFICES ASSUME AuthAtHandshake, Tuned(app, core), core.events # << >>
               PROVE  InSession(app, Head(core.events))
    BY DEF ViewInv, EventsInSession, AboutToDeliver, InSession
  <2> QED
    BY DeliverTuned
<1> QED
  BY <1>1, ViewInvariant, PTL
=============================================================================
