---------------------------- MODULE FlowsProofs -----------------------------
(***************************************************************************)
(* The proofs about the relay, DCUtR and AutoNAT flows.  The inductive     *)
(* invariant FlowsInv says, for each kind of flow, which phases its state  *)
(* can be in, and that what the flow has buffered followed by what is on   *)
(* the wire is what is left of the stream the remote wrote, so that a      *)
(* decode sees the remote's own frame, whole, or asks for more.  TypeOK    *)
(* and the four safety properties follow from it, for every set of peers   *)
(* and addresses, every script, every length of data and every cut of the  *)
(* stream into chunks.                                                     *)
(***************************************************************************)
EXTENDS Flows, SequenceLemmas

-----------------------------------------------------------------------------
(* Messages and units.                                                     *)

MessageKinds ==
    {"malformed", "garbage", "STATUS", "CONNECT", "RESERVE", "SYNC", "DIAL", "DIAL_RESPONSE"}

AddrSets == SUBSET Addrs
DialBodies == [peer : Peers \cup {None}, addrs : AddrSets]
ResponseBodies == [status : Statuses, addrs : AddrSets]

Bodies ==
    {None, "Ok", "ReservationRefused", "ConnectionFailed"} \cup Peers
      \cup AddrSets \cup DialBodies \cup ResponseBodies

Messages == [kind : MessageKinds, body : Bodies]

Units == [msg : Messages, part : Nat] \cup [data : Nat]

\* Two sequences of units in a row.
LEMMA Joins ==
    ASSUME NEW a \in Seq(Units), NEW b \in Seq(Units), NEW c, c = a \o b
    PROVE  c \in Seq(Units) /\ Len(a) \in Nat /\ Len(b) \in Nat /\ Len(c) = Len(a) + Len(b)
BY ConcatHalves

\* The units of a frame.
LEMMA FrameIs ==
    ASSUME NEW m \in Messages
    PROVE  /\ EncodeFrame(m) \in Seq(Units) /\ Len(EncodeFrame(m)) = FrameLen
           /\ EncodeFrame(m) # << >>
           /\ \A i \in 1 .. FrameLen : EncodeFrame(m)[i] = [msg |-> m, part |-> i]
<1>1. FrameLen \in Nat /\ FrameLen > 0
  BY FramesAssumption
<1>2. PICK e : e = EncodeFrame(m)
  OBVIOUS
<1>3. /\ e \in [1 .. FrameLen -> Units]
      /\ \A i \in 1 .. FrameLen : e[i] = [msg |-> m, part |-> i]
  BY <1>1, <1>2 DEF EncodeFrame, Units
<1>4. e \in Seq(Units) /\ Len(e) = FrameLen
  BY <1>1, <1>3
<1> QED
  BY <1>1, <1>2, <1>3, <1>4

\* The units of data.
LEMMA DataIs ==
    ASSUME NEW n \in Nat
    PROVE  /\ Data(1, n) \in Seq(Units) /\ Data(1, n) \in Seq([data : 1 .. n])
           /\ Len(Data(1, n)) = n
<1>1. PICK e : e = Data(1, n)
  OBVIOUS
<1>2. n + 1 - 1 = n
  OBVIOUS
<1>3. e \in [1 .. n -> [data : 1 .. n]]
  <2>1. \A i \in 1 .. n : [data |-> 1 + i - 1] \in [data : 1 .. n]
    OBVIOUS
  <2> QED
    BY <1>1, <1>2, <2>1 DEF Data
<1>4. e \in [1 .. n -> Units]
  BY <1>3 DEF Units
<1>5. e \in Seq([data : 1 .. n]) /\ Len(e) = n
  <2>1. PICK D : D = [data : 1 .. n]
    OBVIOUS
  <2>2. e \in [1 .. n -> D]
    BY <1>3, <2>1
  <2>3. e \in Seq(D) /\ Len(e) = n
    BY ONLY <2>2, n \in Nat
  <2> QED
    BY <2>1, <2>3
<1>6. e \in Seq(Units)
  BY <1>4
<1> QED
  BY <1>1, <1>5, <1>6

\* What a decoder sees of buf, the start of a frame of m and of what follows it.
Sees(buf, rest, m, after) ==
    /\ Decode(buf) \in {"MessageTooLarge", "Malformed", "Incomplete", "Complete"}
    /\ Decode(buf) = "MessageTooLarge" => Len(buf) > MaxSize
    /\ Decode(buf) = "Malformed" => m.kind \in {"garbage", "malformed"}
    /\ Decode(buf) = "Complete" => /\ m.kind \notin {"garbage", "malformed"}
                                   /\ FrontOf(buf) = m /\ RestOf(buf) \o rest = after
    /\ DecodeFrame(buf) = "Complete" \/ Decode(buf) = "Complete" => RestOf(buf) \in Seq(Units)

\* However the frame is cut, it is never taken for another one.
LEMMA DecodeSees ==
    ASSUME NEW buf \in Seq(Units), NEW rest \in Seq(Units), NEW m \in Messages,
           NEW after \in Seq(Units), buf \o rest = EncodeFrame(m) \o after
    PROVE  Sees(buf, rest, m, after)
<1>0. FrameLen \in Nat /\ FrameLen > 0 /\ MaxSize \in Nat /\ Len(buf) \in Nat
  BY FramesAssumption
<1>1. PICK e : e = EncodeFrame(m)
  OBVIOUS
<1>2. /\ e \in Seq(Units) /\ Len(e) = FrameLen
      /\ \A i \in 1 .. FrameLen : e[i] = [msg |-> m, part |-> i]
  BY <1>1, FrameIs
<1>3. Reads(Units, buf, rest, e, after)
  <2>1. buf \o rest = e \o after
    BY <1>1
  <2> QED
    BY ONLY <1>2, <2>1, buf \in Seq(Units), rest \in Seq(Units), after \in Seq(Units), ReadsInOrder
<1>4. buf # << >> => buf[1] = [msg |-> m, part |-> 1]
  <2> SUFFICES ASSUME buf # << >> PROVE buf[1] = [msg |-> m, part |-> 1]
    OBVIOUS
  <2>1. 1 \in 1 .. Len(buf) /\ 1 \in 1 .. FrameLen /\ 1 <= Len(e)
    BY <1>0, <1>2, EmptySeq
  <2>2. buf[1] = e[1]
    BY <1>3, <2>1 DEF Reads
  <2> QED
    BY <1>2, <2>1, <2>2
<1>5. buf # << >> => IsFrameUnit(buf[1]) /\ buf[1].part = 1 /\ buf[1].msg = m
  BY <1>4 DEF IsFrameUnit
<1>6. FrameLen <= Len(buf) => RestOf(buf) \in Seq(Units) /\ RestOf(buf) \o rest = after
  BY <1>2, <1>3 DEF Reads, RestOf
<1>7. /\ DecodeFrame(buf) \in {"Incomplete", "Error", "Complete"}
      /\ DecodeFrame(buf) = "Error" => m.kind = "garbage"
      /\ DecodeFrame(buf) = "Complete" => buf # << >> /\ FrameLen <= Len(buf) /\ m.kind # "garbage"
  <2>1. CASE buf = << >>
    BY <2>1 DEF DecodeFrame
  <2>2. CASE buf # << >>
    BY <1>0, <1>5, <2>2 DEF DecodeFrame
  <2> QED
    BY <2>1, <2>2
<1>8. /\ Decode(buf) \in {"MessageTooLarge", "Malformed", "Incomplete", "Complete"}
      /\ Decode(buf) = "MessageTooLarge" => Len(buf) > MaxSize
      /\ Decode(buf) = "Malformed" => m.kind \in {"garbage", "malformed"}
      /\ Decode(buf) = "Complete" => DecodeFrame(buf) = "Complete" /\ m.kind # "malformed"
  BY <1>0, <1>5, <1>7 DEF Decode
<1> QED
  BY <1>5, <1>6, <1>7, <1>8 DEF Sees, FrontOf

-----------------------------------------------------------------------------
(* What the remote sends.                                                  *)

Right(k, s) == s.frames \in RightFrames(k)

\* What may excuse an error.
Wrong(k, s) == ~Right(k, s) \/ ~(Len(s.frames) * FrameLen + s.data <= MaxSize)

Stream(s) == Encoded(s.frames) \o Data(1, s.data)

\* The remote sends one frame, m.
Sends(s, m) == s.frames = <<m>> /\ m \in Messages /\ s.data \in 0 .. MaxData

\* It sends the frames m and l.
SendsTwo(s, m, l) ==
    s.frames = <<m, l>> /\ m \in Messages /\ l \in Messages /\ s.data \in 0 .. MaxData

SentOK(k, s) == s.frames \in RightFrames(k) \cup WrongFrames(k) /\ s.data \in 0 .. MaxData

\* A stream with one frame.
LEMMA StreamOfOne ==
    ASSUME NEW s, NEW m, Sends(s, m)
    PROVE  /\ Stream(s) = EncodeFrame(m) \o Data(1, s.data) /\ Stream(s) \in Seq(Units)
           /\ Len(Stream(s)) = FrameLen + s.data /\ Len(s.frames) = 1 /\ s.frames[1] = m
           /\ Data(1, s.data) \in Seq(Units)
<1>1. /\ s.frames = <<m>> /\ m \in Messages /\ s.data \in Nat
  BY FlowsAssumption DEF Sends
<1>2. Len(s.frames) = 1 /\ s.frames[1] = m /\ s.frames # << >>
  BY <1>1
<1>3. Encoded(s.frames) = EncodeFrame(m)
  BY <1>2 DEF Encoded
<1>4. EncodeFrame(m) \in Seq(Units) /\ Len(EncodeFrame(m)) = FrameLen
  BY <1>1, FrameIs
<1>5. Data(1, s.data) \in Seq(Units) /\ Len(Data(1, s.data)) = s.data
  BY <1>1, DataIs
<1>a. PICK e : e = EncodeFrame(m)
  OBVIOUS
<1>b. PICK d : d = Data(1, s.data)
  OBVIOUS
<1>c. PICK u : u = e \o d
  OBVIOUS
<1>6. e \in Seq(Units) /\ Len(e) = FrameLen /\ d \in Seq(Units) /\ Len(d) = s.data
  BY <1>4, <1>5, <1>a, <1>b
<1>7. u \in Seq(Units) /\ Len(u) = FrameLen + s.data
  <2>1. u \in Seq(Units) /\ Len(u) = Len(e) + Len(d)
    BY ONLY <1>6, <1>c, Joins
  <2> QED
    BY <2>1, <1>6
<1>8. Stream(s) = u
  BY <1>3, <1>a, <1>b, <1>c DEF Stream
<1> QED
  BY ONLY <1>2, <1>6, <1>7, <1>8, <1>a, <1>b, <1>c

\* A stream with two frames.
LEMMA StreamOfTwo ==
    ASSUME NEW s, NEW m, NEW l, SendsTwo(s, m, l)
    PROVE  /\ Stream(s) = EncodeFrame(m) \o (EncodeFrame(l) \o Data(1, s.data))
           /\ Stream(s) \in Seq(Units) /\ Len(Stream(s)) = 2 * FrameLen + s.data
           /\ Len(s.frames) = 2 /\ s.frames[1] = m /\ s.frames[2] = l
           /\ Data(1, s.data) \in Seq(Units)
           /\ EncodeFrame(l) \o Data(1, s.data) \in Seq(Units)
           /\ Len(EncodeFrame(l) \o Data(1, s.data)) = FrameLen + s.data
<1>1. /\ s.frames = <<m, l>> /\ m \in Messages /\ l \in Messages /\ s.data \in Nat
  BY FlowsAssumption DEF SendsTwo
<1>2. Len(s.frames) = 2 /\ s.frames[1] = m /\ s.frames[2] = l /\ s.frames # << >>
  BY <1>1
<1>a. PICK e : e = EncodeFrame(m)
  OBVIOUS
<1>b. PICK g : g = EncodeFrame(l)
  OBVIOUS
<1>c. PICK d : d = Data(1, s.data)
  OBVIOUS
<1>3. Encoded(s.frames) = e \o g
  BY <1>2, <1>a, <1>b DEF Encoded
<1>4. /\ e \in Seq(Units) /\ Len(e) = FrameLen
      /\ g \in Seq(Units) /\ Len(g) = FrameLen
  BY <1>1, <1>a, <1>b, FrameIs
<1>5. d \in Seq(Units) /\ Len(d) = s.data
  BY <1>1, <1>c, DataIs
<1>d. PICK h : h = g \o d
  OBVIOUS
<1>e. PICK u : u = e \o h
  OBVIOUS
<1>6. h \in Seq(Units) /\ Len(h) = FrameLen + s.data
  <2>1. h \in Seq(Units) /\ Len(h) = Len(g) + Len(d)
    BY ONLY <1>4, <1>5, <1>d, Joins
  <2> QED
    BY <2>1, <1>4, <1>5
<1>7. u \in Seq(Units) /\ Len(u) = FrameLen + (FrameLen + s.data)
  <2>1. u \in Seq(Units) /\ Len(u) = Len(e) + Len(h)
    BY ONLY <1>4, <1>6, <1>e, Joins
  <2> QED
    BY <2>1, <1>4, <1>6
<1>8. (e \o g) \o d = u
  BY ONLY <1>4, <1>5, <1>d, <1>e, ConcatAssociative
<1>9. Len(u) = 2 * FrameLen + s.data
  BY <1>1, <1>7, FramesAssumption
<1>10. Stream(s) = u
  BY <1>3, <1>8, <1>c DEF Stream
<1> QED
  BY ONLY <1>2, <1>5, <1>6, <1>7, <1>9, <1>10, <1>a, <1>b, <1>c, <1>d, <1>e

\* The bodies of messages.
LEMMA MessagesAre ==
    /\ Bad \subseteq Messages /\ Status \subseteq Messages /\ Connect \subseteq Messages
    /\ Message("RESERVE", None) \in Messages /\ Message("SYNC", {}) \in Messages
    /\ \A p \in Peers \cup {None} : Message("CONNECT", p) \in Messages
    /\ \A status \in {"Ok", "ConnectionFailed"} : Message("STATUS", status) \in Messages
    /\ \A A \in AddrSets : Message("CONNECT", A) \in Messages
    /\ \A p \in Peers \cup {None}, A \in AddrSets : Dial(p, A) \in Messages
    /\ \A status \in Statuses, A \in AddrSets : DialResponse(status, A) \in Messages
    /\ Message("DIAL_RESPONSE", None) \in Messages
<1>1. {} \in AddrSets
  BY DEF AddrSets
<1>2. ASSUME NEW kind2 \in MessageKinds, NEW body \in Bodies
      PROVE  Message(kind2, body) \in Messages
  BY DEF Message, Messages
<1>3. /\ {None, "Ok", "ReservationRefused", "ConnectionFailed"} \subseteq Bodies
      /\ Peers \subseteq Bodies /\ AddrSets \subseteq Bodies
      /\ DialBodies \subseteq Bodies /\ ResponseBodies \subseteq Bodies
  BY DEF Bodies
<1>4. {"malformed", "garbage", "STATUS", "CONNECT", "RESERVE", "SYNC", "DIAL", "DIAL_RESPONSE"}
        \subseteq MessageKinds
  BY DEF MessageKinds
<1>5. ASSUME NEW p \in Peers \cup {None}, NEW A \in AddrSets PROVE Dial(p, A) \in Messages
  <2>1. [peer |-> p, addrs |-> A] \in Bodies
    BY <1>3 DEF DialBodies
  <2> QED
    BY <1>2, <1>4, <2>1 DEF Dial
<1>6. ASSUME NEW status \in Statuses, NEW A \in AddrSets PROVE DialResponse(status, A) \in Messages
  <2>1. [status |-> status, addrs |-> A] \in Bodies
    BY <1>3 DEF ResponseBodies
  <2> QED
    BY <1>2, <1>4, <2>1 DEF DialResponse
<1>7. Bad \subseteq Messages /\ Status \subseteq Messages /\ Connect \subseteq Messages
  BY <1>2, <1>3, <1>4 DEF Bad, Status, Connect, AddrSets
<1> QED
  BY <1>1, <1>2, <1>3, <1>4, <1>5, <1>6, <1>7

\* What the decoder sees of a stream with one frame.
LEMMA OneSeen ==
    ASSUME NEW s, NEW m, Sends(s, m), NEW buf \in Seq(Units), NEW w \in Seq(Units),
           buf \o w = Stream(s)
    PROVE  /\ Sees(buf, w, m, Data(1, s.data))
           /\ Len(buf) > MaxSize => ~(Len(s.frames) * FrameLen + s.data <= MaxSize)
<1>1. /\ Stream(s) = EncodeFrame(m) \o Data(1, s.data) /\ Len(Stream(s)) = FrameLen + s.data
      /\ Len(s.frames) = 1 /\ Data(1, s.data) \in Seq(Units) /\ m \in Messages
  BY StreamOfOne DEF Sends
<1>2. PICK d \in Seq(Units) : d = Data(1, s.data)
  BY <1>1
<1>3. Sees(buf, w, m, d)
  <2>1. buf \o w = EncodeFrame(m) \o d
    BY <1>1, <1>2
  <2> QED
    BY ONLY <2>1, <1>1, d \in Seq(Units), buf \in Seq(Units), w \in Seq(Units), DecodeSees
<1>4. Len(buf) <= FrameLen + s.data
  <2>1. PICK u : u = buf \o w
    OBVIOUS
  <2>2. Len(u) = Len(buf) + Len(w) /\ Len(buf) \in Nat /\ Len(w) \in Nat
    BY <2>1, Joins
  <2>3. Len(u) = FrameLen + s.data
    BY <1>1, <2>1
  <2> QED
    BY <2>2, <2>3
<1>5. FrameLen \in Nat /\ MaxSize \in Nat /\ s.data \in Nat /\ Len(buf) \in Nat
  BY FramesAssumption, FlowsAssumption DEF Sends
<1>6. Len(buf) > MaxSize => ~(Len(s.frames) * FrameLen + s.data <= MaxSize)
  BY <1>1, <1>4, <1>5
<1> QED
  BY <1>2, <1>3, <1>6

\* The one frame that a relay, a dialed peer or an AutoNAT peer sends.
LEMMA OneSent ==
    ASSUME NEW k \in Kinds, NEW s, SentOK(k, s), k # "responder"
    PROVE  \E m : /\ Sends(s, m)
                  /\ k \in {"reserve", "connect"} => (Right(k, s) <=> m.kind = "STATUS")
                  /\ k = "initiator" => /\ Right(k, s) <=> m.kind = "CONNECT"
                                        /\ Right(k, s) => m.body \in SUBSET Addrs
                  /\ k = "stop" => /\ Right(k, s) <=> m.kind = "CONNECT" /\ m.body # None
                                   /\ Right(k, s) => m.body \in Peers
                  /\ k = "client" => /\ Right(k, s) <=> m.kind = "DIAL_RESPONSE" /\ m.body # None
                                     /\ Right(k, s) => m.body \in [status : Statuses, addrs : {OurAddrs}]
                  /\ k = "server" => /\ Right(k, s) <=> m.kind = "DIAL" /\ m.body.peer # None
                                     /\ Right(k, s) => m.body \in [peer : Peers, addrs : {OurAddrs}]
<1>0. /\ None \notin Peers /\ None \notin ResponseBodies /\ s.data \in 0 .. MaxData
      /\ Ours \in Peers /\ OurAddrs \in AddrSets
  BY FlowsAbsentAssumption, FlowsAssumption DEF ResponseBodies, AddrSets, SentOK, Ours, OurAddrs
<1>b. /\ \A m \in Bad : m.kind \in {"malformed", "garbage"} /\ m \in Messages
      /\ \A m \in Status : m.kind = "STATUS" /\ m \in Messages
      /\ \A m \in Connect : m.kind = "CONNECT" /\ m.body \in SUBSET Addrs /\ m \in Messages
  <2>1. \A m \in Bad : m.kind \in {"malformed", "garbage"}
    BY DEF Bad, Message
  <2>2. \A m \in Status : m.kind = "STATUS"
    BY DEF Status, Message
  <2>3. \A m \in Connect : m.kind = "CONNECT" /\ m.body \in SUBSET Addrs
    BY DEF Connect, Message
  <2> QED
    BY <2>1, <2>2, <2>3, MessagesAre
<1>1. CASE k \in {"reserve", "connect"}
  <2>1. RightFrames(k) = {<<m>> : m \in Status}
    BY <1>1 DEF RightFrames
  <2>2. WrongFrames(k) = {<<m>> : m \in Bad} \cup {<<Message("RESERVE", None)>>}
    BY <1>1 DEF WrongFrames
  <2>3. PICK m \in Messages : s.frames = <<m>> /\ (m \in Status \/ m.kind # "STATUS")
    BY <1>b, <2>1, <2>2, MessagesAre DEF SentOK, Message
  <2>4. Right(k, s) <=> m.kind = "STATUS"
    BY <1>b, <2>1, <2>3 DEF Right
  <2>5. Sends(s, m)
    BY <1>0, <2>3 DEF Sends
  <2> QED
    BY <1>1, <2>4, <2>5
<1>2. CASE k = "initiator"
  <2>1. RightFrames(k) = {<<m>> : m \in Connect}
    BY <1>2 DEF RightFrames
  <2>2. WrongFrames(k) = {<<m>> : m \in Bad} \cup {<<Message("SYNC", {})>>}
    BY <1>2 DEF WrongFrames
  <2>3. PICK m \in Messages : s.frames = <<m>> /\ (m \in Connect \/ m.kind # "CONNECT")
    BY <1>b, <2>1, <2>2, MessagesAre DEF SentOK, Message
  <2>4. (Right(k, s) <=> m.kind = "CONNECT") /\ (Right(k, s) => m.body \in SUBSET Addrs)
    BY <1>b, <2>1, <2>3 DEF Right
  <2>5. Sends(s, m)
    BY <1>0, <2>3 DEF Sends
  <2> QED
    BY <1>2, <2>4, <2>5
<1>3. CASE k = "stop"
  <2>1. RightFrames(k) = {<<Message("CONNECT", p)>> : p \in Peers}
    BY <1>3 DEF RightFrames
  <2>2. WrongFrames(k) = {<<m>> : m \in Bad} \cup {<<Message("CONNECT", None)>>, <<Message("STATUS", "Ok")>>}
    BY <1>3 DEF WrongFrames
  <2>3. PICK m \in Messages :
          /\ s.frames = <<m>>
          /\ \/ m.kind = "CONNECT" /\ m.body \in Peers /\ m = Message("CONNECT", m.body)
             \/ m.kind # "CONNECT" \/ m.body = None
    BY <1>b, <2>1, <2>2, MessagesAre DEF SentOK, Message
  <2>4. /\ Right(k, s) <=> m.kind = "CONNECT" /\ m.body # None
        /\ Right(k, s) => m.body \in Peers
    BY <1>0, <2>1, <2>3 DEF Right, Message
  <2>5. Sends(s, m)
    BY <1>0, <2>3 DEF Sends
  <2> QED
    BY <1>3, <2>4, <2>5
<1>4. CASE k = "client"
  <2>1. RightFrames(k) = {<<DialResponse(x, OurAddrs)>> : x \in Statuses}
    BY <1>4 DEF RightFrames
  <2>2. WrongFrames(k) = {<<m>> : m \in Bad}
                           \cup {<<Dial(Ours, OurAddrs)>>, <<Message("DIAL_RESPONSE", None)>>}
    BY <1>4 DEF WrongFrames
  <2>3. \A x \in Statuses : /\ DialResponse(x, OurAddrs).kind = "DIAL_RESPONSE"
                            /\ DialResponse(x, OurAddrs).body \in [status : Statuses, addrs : {OurAddrs}]
                            /\ DialResponse(x, OurAddrs).body # None
                            /\ DialResponse(x, OurAddrs) \in Messages
    BY <1>0, MessagesAre DEF DialResponse, Message, ResponseBodies
  <2>4. /\ Dial(Ours, OurAddrs).kind = "DIAL" /\ Dial(Ours, OurAddrs) \in Messages
        /\ Message("DIAL_RESPONSE", None).body = None /\ Message("DIAL_RESPONSE", None) \in Messages
    BY <1>0, MessagesAre DEF Dial, Message
  <2>5. CASE Right(k, s)
    <3>1. PICK x \in Statuses : s.frames = <<DialResponse(x, OurAddrs)>>
      BY <2>1, <2>5 DEF Right
    <3>2. PICK m : m = DialResponse(x, OurAddrs)
      OBVIOUS
    <3>3. Sends(s, m)
      BY <1>0, <2>3, <3>1, <3>2 DEF Sends
    <3> QED
      BY <1>4, <2>3, <2>5, <3>2, <3>3
  <2>6. CASE ~Right(k, s)
    <3>1. PICK m \in Messages : s.frames = <<m>> /\ (m.kind # "DIAL_RESPONSE" \/ m.body = None)
      BY <1>b, <2>2, <2>4, <2>6 DEF SentOK, Right
    <3>2. Sends(s, m)
      BY <1>0, <3>1 DEF Sends
    <3> QED
      BY <1>4, <2>6, <3>1, <3>2
  <2> QED
    BY <2>5, <2>6
<1>5. CASE k = "server"
  <2>1. RightFrames(k) = {<<Dial(p, OurAddrs)>> : p \in Peers}
    BY <1>5 DEF RightFrames
  <2>2. WrongFrames(k) = {<<m>> : m \in Bad}
                           \cup {<<Dial(None, OurAddrs)>>, <<DialResponse("Ok", {})>>}
    BY <1>5 DEF WrongFrames
  <2>3. \A p \in Peers : /\ Dial(p, OurAddrs).kind = "DIAL"
                         /\ Dial(p, OurAddrs).body \in [peer : Peers, addrs : {OurAddrs}]
                         /\ Dial(p, OurAddrs).body.peer # None
                         /\ Dial(p, OurAddrs) \in Messages
    BY <1>0, MessagesAre DEF Dial, Message
  <2>4. /\ DialResponse("Ok", {}).kind # "DIAL" /\ DialResponse("Ok", {}) \in Messages
        /\ Dial(None, OurAddrs).body.peer = None /\ Dial(None, OurAddrs) \in Messages
    <3>1. "Ok" \in Statuses /\ {} \in AddrSets
      BY DEF Statuses, AddrSets
    <3> QED
      BY <1>0, <3>1, MessagesAre DEF Dial, Message, DialResponse
  <2>5. CASE Right(k, s)
    <3>1. PICK x \in Peers : s.frames = <<Dial(x, OurAddrs)>>
      BY <2>1, <2>5 DEF Right
    <3>2. PICK m : m = Dial(x, OurAddrs)
      OBVIOUS
    <3>3. Sends(s, m)
      BY <1>0, <2>3, <3>1, <3>2 DEF Sends
    <3> QED
      BY <1>5, <2>3, <2>5, <3>2, <3>3
  <2>6. CASE ~Right(k, s)
    <3>1. PICK m \in Messages : s.frames = <<m>> /\ (m.kind # "DIAL" \/ m.body.peer = None)
      BY <1>b, <2>2, <2>4, <2>6 DEF SentOK, Right
    <3>2. Sends(s, m)
      BY <1>0, <3>1 DEF Sends
    <3> QED
      BY <1>5, <2>6, <3>1, <3>2
  <2> QED
    BY <2>5, <2>6
<1> QED
  BY <1>1, <1>2, <1>3, <1>4, <1>5 DEF Kinds

\* Three sequences in a row.
LEMMA Regroup == \A p, q, u \in Seq(Units) : (p \o q) \o u = p \o (q \o u)
BY ConcatAssociative

\* The next units a move from the wire, which is z then, to the buffer, which
\* is buf2 then.
Moves(buf, w, a, buf2, z) ==
    /\ a \in Seq(Units) /\ z \in Seq(Units) /\ buf2 \in Seq(Units)
    /\ buf2 \o z = buf \o w /\ a \o z = w

\* StreamData moves units so.
LEMMA Arrive ==
    ASSUME NEW buf \in Seq(Units), NEW w \in Seq(Units), NEW n \in 1 .. Len(w),
           NEW a, a = SubSeq(w, 1, n), NEW z, z = SubSeq(w, n + 1, Len(w)),
           NEW buf2, buf2 = buf \o a
    PROVE  Moves(buf, w, a, buf2, z)
<1>1. a \in Seq(Units) /\ z \in Seq(Units) /\ a \o z = w
  <2>1. n \in 0 .. Len(w)
    OBVIOUS
  <2> QED
    BY ONLY <2>1, w \in Seq(Units), a = SubSeq(w, 1, n), z = SubSeq(w, n + 1, Len(w)), CutAt
<1>2. (buf \o a) \o z = buf \o (a \o z)
  BY ONLY <1>1, buf \in Seq(Units), Regroup
<1>3. buf2 \in Seq(Units)
  BY ONLY <1>1, buf \in Seq(Units), buf2 = buf \o a, Joins
<1> QED
  BY <1>1, <1>2, <1>3 DEF Moves

-----------------------------------------------------------------------------
(* The flows that ask: f is the flow, w the wire, t what the host was told, *)
(* o what it has written, req the request.                                 *)

\* The request is not flushed yet.
Unasked(s, f, w, t, o, req) ==
    /\ f.state = "Pending" /\ f.outbound = EncodeFrame(req) /\ f.recv_buf = << >>
    /\ f.outcome = None /\ ~f.emitted_outcome
    /\ w = Stream(s) /\ t = << >> /\ o = << >>

\* The answer is not there yet.
Waiting(s, f, w, t, o, req, state) ==
    /\ f.state = state /\ f.outbound = << >> /\ f.outcome = None /\ ~f.emitted_outcome
    /\ f.recv_buf \o w = Stream(s) /\ t = << >> /\ o = EncodeFrame(req)

\* The answer v is there, and is told once.
Answered(f, t, v) ==
    /\ f.outbound = << >> /\ f.outcome = v
    /\ t = IF f.emitted_outcome THEN <<v>> ELSE << >>

-----------------------------------------------------------------------------
(* HopReservation                                                          *)

ReservationFlow ==
    [outbound : Seq(Units), recv_buf : Seq(Units), state : FlowState,
     outcome : {None, "Accepted", "Refused"}, emitted_outcome : BOOLEAN]

Reserve == Message("RESERVE", None)
ReserveVerdict(s) == IF s.frames[1].body = "Ok" THEN "Accepted" ELSE "Refused"

ReserveInv(s, f, w, fl, t, o) ==
    /\ f \in ReservationFlow
    /\ ~fl => \/ Unasked(s, f, w, t, o, Reserve)
              \/ Waiting(s, f, w, t, o, Reserve, "AwaitingResponse")
              \/ /\ f.state = "Done" /\ Right("reserve", s) /\ o = EncodeFrame(Reserve)
                 /\ Answered(f, t, ReserveVerdict(s))
    /\ fl => Wrong("reserve", s) /\ t = << >> /\ o = EncodeFrame(Reserve)

\* try_decode_response
LEMMA ReserveDecodes ==
    ASSUME NEW s, SentOK("reserve", s), NEW f \in ReservationFlow, NEW w \in Seq(Units),
           NEW t, NEW o, Waiting(s, f, w, t, o, Reserve, "AwaitingResponse"),
           NEW r, r = ReservationDecode(f)
    PROVE  r.ok \in BOOLEAN /\ ReserveInv(s, r.flow, w, ~r.ok, t, o)
<1>1. PICK m : Sends(s, m) /\ (Right("reserve", s) <=> m.kind = "STATUS")
  BY OneSent DEF Kinds
<1>2. PICK buf \in Seq(Units) : buf = f.recv_buf /\ buf \o w = Stream(s)
  BY DEF Waiting, ReservationFlow
<1>3. /\ Sees(buf, w, m, Data(1, s.data))
      /\ Len(buf) > MaxSize => ~(Len(s.frames) * FrameLen + s.data <= MaxSize)
  BY ONLY <1>1, <1>2, buf \in Seq(Units), w \in Seq(Units), OneSeen
<1>4. s.frames[1] = m
  BY <1>1 DEF Sends
<1>5. CASE Decode(buf) = "Incomplete"
  <2>1. r = Ok(f)
    BY <1>2, <1>5 DEF ReservationDecode
  <2> QED
    BY <2>1 DEF Ok, ReserveInv
<1>6. CASE Decode(buf) \in {"MessageTooLarge", "Malformed"}
  <2>1. r = Err(Done(f))
    BY <1>2, <1>6 DEF ReservationDecode, Waiting
  <2>2. Done(f) \in ReservationFlow
    BY DEF Done, ReservationFlow, FlowState
  <2>3. Wrong("reserve", s)
    BY <1>1, <1>3, <1>6 DEF Wrong, Sees
  <2> QED
    BY <2>1, <2>2, <2>3 DEF Err, ReserveInv, Waiting
<1>7. CASE Decode(buf) = "Complete"
  <2>1. FrontOf(buf) = m /\ RestOf(buf) \in Seq(Units)
    BY <1>3, <1>7 DEF Sees
  <2>2. PICK g : g = [Done(f) EXCEPT !.recv_buf = RestOf(@)]
    OBVIOUS
  <2>3. g \in ReservationFlow /\ g.outbound = << >> /\ g.state = "Done"
    BY <1>2, <2>1, <2>2 DEF Done, ReservationFlow, FlowState, Waiting
  <2>4. CASE m.kind # "STATUS"
    <3>1. r = Err(g)
      BY <1>2, <1>7, <2>1, <2>2, <2>4 DEF ReservationDecode, Waiting
    <3> QED
      BY <1>1, <2>3, <2>4, <3>1 DEF Err, ReserveInv, Waiting, Wrong
  <2>5. CASE m.kind = "STATUS"
    <3>1. PICK h : h = [g EXCEPT !.outcome = IF m.body = "Ok" THEN "Accepted" ELSE "Refused",
                                 !.emitted_outcome = FALSE]
      OBVIOUS
    <3>2. r = Ok(h)
      BY <1>2, <1>7, <2>1, <2>2, <2>5, <3>1 DEF ReservationDecode, Waiting
    <3>3. /\ h \in ReservationFlow /\ h.state = "Done" /\ h.outbound = << >>
          /\ h.outcome = ReserveVerdict(s) /\ ~h.emitted_outcome
      BY <1>4, <2>3, <3>1 DEF ReservationFlow, ReserveVerdict
    <3>4. Answered(h, t, ReserveVerdict(s)) /\ o = EncodeFrame(Reserve)
      BY <3>3 DEF Answered, Waiting
    <3> QED
      BY <1>1, <2>5, <3>2, <3>3, <3>4 DEF Ok, ReserveInv
  <2> QED
    BY <2>4, <2>5
<1> QED
  BY <1>3, <1>5, <1>6, <1>7 DEF Sees

\* Any of its states, once asked, when units arrive.
LEMMA ReserveArrives ==
    ASSUME NEW s, SentOK("reserve", s), NEW f, NEW w \in Seq(Units), NEW t, NEW o, o # << >>,
           ReserveInv(s, f, w, FALSE, t, o), NEW n \in 1 .. Len(w),
           NEW a, a = SubSeq(w, 1, n), NEW z, z = SubSeq(w, n + 1, Len(w)),
           NEW r, r = ReservationData(f, a)
    PROVE  r.ok \in BOOLEAN /\ ReserveInv(s, r.flow, z, ~r.ok, t, o)
<1>1. f \in ReservationFlow
  BY DEF ReserveInv
<1>2. CASE Waiting(s, f, w, t, o, Reserve, "AwaitingResponse")
  <2>1. PICK buf \in Seq(Units) : buf = f.recv_buf
    BY <1>1 DEF ReservationFlow
  <2>2. PICK b2 : b2 = buf \o a
    OBVIOUS
  <2>a. Moves(buf, w, a, b2, z)
    BY ONLY <2>2, buf \in Seq(Units), w \in Seq(Units), n \in 1 .. Len(w), a = SubSeq(w, 1, n),
       z = SubSeq(w, n + 1, Len(w)), Arrive
  <2>3. z \in Seq(Units) /\ b2 \in Seq(Units) /\ b2 \o z = buf \o w
    BY <2>a DEF Moves
  <2>4. PICK g : g = [f EXCEPT !.recv_buf = b2]
    OBVIOUS
  <2>5. g \in ReservationFlow /\ Waiting(s, g, z, t, o, Reserve, "AwaitingResponse")
    BY <1>1, <1>2, <2>1, <2>3, <2>4 DEF ReservationFlow, Waiting
  <2>6. r = ReservationDecode(g)
    BY <1>2, <2>1, <2>2, <2>4 DEF ReservationData, Waiting
  <2> QED
    BY ONLY <2>3, <2>5, <2>6, SentOK("reserve", s), ReserveDecodes
<1>3. CASE f.state = "Done" /\ Right("reserve", s) /\ o = EncodeFrame(Reserve)
           /\ Answered(f, t, ReserveVerdict(s))
  <2>1. r.flow = f /\ r.ok = TRUE
    BY <1>3 DEF ReservationData, Ok
  <2>2. ReserveInv(s, f, z, FALSE, t, o)
    BY <1>1, <1>3 DEF ReserveInv
  <2> QED
    BY <2>1, <2>2
<1> QED
  BY <1>2, <1>3 DEF ReserveInv, Unasked

\* And when the remote writes no more.
LEMMA ReserveCloses ==
    ASSUME NEW s, SentOK("reserve", s), NEW f, NEW w \in Seq(Units), NEW t, NEW o, o # << >>,
           ReserveInv(s, f, w, FALSE, t, o), NEW r, r = ReservationDecode(f)
    PROVE  r.ok \in BOOLEAN /\ ReserveInv(s, r.flow, w, ~r.ok, t, o)
<1>1. f \in ReservationFlow
  BY DEF ReserveInv
<1>2. CASE Waiting(s, f, w, t, o, Reserve, "AwaitingResponse")
  BY ONLY <1>1, <1>2, SentOK("reserve", s), w \in Seq(Units), r = ReservationDecode(f), ReserveDecodes
<1>3. CASE f.state = "Done" /\ Right("reserve", s) /\ o = EncodeFrame(Reserve)
           /\ Answered(f, t, ReserveVerdict(s))
  <2>1. r = Ok(f)
    BY <1>3 DEF ReservationDecode
  <2> QED
    BY <1>1, <1>3, <2>1 DEF Ok, ReserveInv
<1> QED
  BY <1>2, <1>3 DEF ReserveInv, Unasked

\* What the host's records become with the output out.
ToldBy(t, out) == IF out.kind \in {"Outcome", "Request", "Event"} THEN Append(t, out.value) ELSE t
WrittenBy(o, out) == IF out.kind = "Outbound" THEN o \o out.value ELSE o
BridgedBy(b, out) == IF out.kind = "BridgeData" THEN b \o out.value ELSE b

\* An output that goes to the stream, first and behind a frame.
LEMMA OutboundIs ==
    ASSUME NEW m \in Messages, NEW out, NEW v, out = [kind |-> "Outbound", value |-> v]
    PROVE  /\ \A t : ToldBy(t, out) = t /\ BridgedBy(t, out) = t
           /\ v = EncodeFrame(m) => WrittenBy(<< >>, out) = EncodeFrame(m)
           /\ \A o : WrittenBy(o, out) = o \o v
<1>1. PICK e \in Seq(Units) : e = EncodeFrame(m)
  BY FrameIs
<1>2. << >> \o e = e
  BY ConcatEmptySeq
<1> QED
  BY <1>1, <1>2 DEF ToldBy, BridgedBy, WrittenBy

\* An output that the host is told of.
LEMMA OutcomeIs ==
    ASSUME NEW out, NEW v, NEW k \in {"Outcome", "Request", "Event"}, out = [kind |-> k, value |-> v]
    PROVE  /\ \A t : ToldBy(t, out) = Append(t, v) /\ BridgedBy(t, out) = t /\ WrittenBy(t, out) = t
           /\ ToldBy(<< >>, out) = <<v>>
BY DEF ToldBy, BridgedBy, WrittenBy

\* poll_output
LEMMA ReservePolls ==
    ASSUME NEW s, NEW f, NEW w, NEW t, NEW o, ReserveInv(s, f, w, FALSE, t, o),
           SentOK("reserve", s), NEW r, r = ReservationPoll(f), r.out # None
    PROVE  /\ ReserveInv(s, r.flow, w, FALSE, ToldBy(t, r.out), WrittenBy(o, r.out))
           /\ (\A b : BridgedBy(b, r.out) = b)
<1>1. f \in ReservationFlow /\ Reserve \in Messages
  BY MessagesAre DEF ReserveInv, Reserve
<1>2. Flushed(f) \in ReservationFlow
  <2>1. << >> \in Seq(Units)
    BY EmptySeq
  <2> QED
    BY <1>1, <2>1 DEF Flushed, ReservationFlow, FlowState
<1>3. PICK g : g = Flushed(f)
  OBVIOUS
<1>4. /\ g \in ReservationFlow /\ g.outbound = << >> /\ g.recv_buf = f.recv_buf
      /\ g.outcome = f.outcome /\ g.emitted_outcome = f.emitted_outcome
      /\ g.state = IF f.state = "Pending" THEN "AwaitingResponse" ELSE f.state
  BY <1>1, <1>2, <1>3 DEF Flushed, ReservationFlow
<1>5. CASE Unasked(s, f, w, t, o, Reserve)
  <2>1. EncodeFrame(Reserve) # << >> /\ EncodeFrame(Reserve) \in Seq(Units)
    BY <1>1, FrameIs
  <2>2. r = Output(g, "Outbound", EncodeFrame(Reserve))
    BY <1>3, <1>5, <2>1 DEF ReservationPoll, Unasked
  <2>3. r.flow = g /\ r.out = [kind |-> "Outbound", value |-> EncodeFrame(Reserve)]
    BY <2>2 DEF Output
  <2>4. ToldBy(t, r.out) = t /\ (\A b : BridgedBy(b, r.out) = b) /\ WrittenBy(<< >>, r.out) = EncodeFrame(Reserve)
    BY ONLY <1>1, <2>3, OutboundIs
  <2>5. << >> \o Stream(s) = Stream(s)
    <3>1. Stream(s) \in Seq(Units)
      BY OneSent, StreamOfOne DEF Kinds
    <3> QED
      BY ONLY <3>1, ConcatEmptySeq
  <2>6. Waiting(s, g, w, t, EncodeFrame(Reserve), Reserve, "AwaitingResponse")
    BY <1>4, <1>5, <2>5 DEF Waiting, Unasked
  <2>7. WrittenBy(o, r.out) = EncodeFrame(Reserve)
    BY <1>5, <2>4 DEF Unasked
  <2> QED
    BY ONLY <1>4, <2>3, <2>4, <2>6, <2>7 DEF ReserveInv
<1>6. CASE Waiting(s, f, w, t, o, Reserve, "AwaitingResponse")
  <2>1. r = Nothing(g)
    BY <1>3, <1>6 DEF ReservationPoll, Waiting
  <2> QED
    BY <2>1 DEF Nothing
<1>7. CASE f.state = "Done" /\ Right("reserve", s) /\ o = EncodeFrame(Reserve)
           /\ Answered(f, t, ReserveVerdict(s))
  <2>1. ~f.emitted_outcome /\ f.outcome # None /\ f.outbound = << >>
    BY <1>3, <1>7 DEF ReservationPoll, Answered, Nothing
  <2>2. PICK h : h = [g EXCEPT !.emitted_outcome = TRUE]
    OBVIOUS
  <2>3. r = Output(h, "Outcome", f.outcome)
    BY <1>3, <2>1, <2>2 DEF ReservationPoll
  <2>4. r.flow = h /\ r.out = [kind |-> "Outcome", value |-> f.outcome]
    BY <2>3 DEF Output
  <2>5. /\ ToldBy(<< >>, r.out) = <<f.outcome>> /\ (\A b : BridgedBy(b, r.out) = b)
        /\ WrittenBy(o, r.out) = o
    BY ONLY <2>4, OutcomeIs
  <2>6. t = << >> /\ f.outcome = ReserveVerdict(s)
    BY <1>7, <2>1 DEF Answered
  <2>7. /\ h \in ReservationFlow /\ h.state = "Done" /\ h.outbound = << >>
        /\ h.outcome = f.outcome /\ h.emitted_outcome
    BY <1>4, <1>7, <2>2 DEF ReservationFlow
  <2>8. Answered(h, ToldBy(t, r.out), ReserveVerdict(s))
    BY <2>5, <2>6, <2>7 DEF Answered
  <2> QED
    BY <1>7, <2>4, <2>5, <2>7, <2>8 DEF ReserveInv
<1> QED
  BY <1>5, <1>6, <1>7 DEF ReserveInv

-----------------------------------------------------------------------------
(* The bridge: b is the data the host got, held what waits for it.         *)

\* The data is in these three places, in order.
Carries(s, b, held, w) == (b \o held) \o w = Data(1, s.data)

\* Units come in.
LEMMA CarriesMore ==
    ASSUME NEW s, NEW b \in Seq(Units), NEW held \in Seq(Units), NEW w \in Seq(Units),
           Carries(s, b, held, w), NEW n \in 1 .. Len(w),
           NEW a, a = SubSeq(w, 1, n), NEW z, z = SubSeq(w, n + 1, Len(w))
    PROVE  z \in Seq(Units) /\ held \o a \in Seq(Units) /\ Carries(s, b, held \o a, z)
<1>1. PICK h2 : h2 = held \o a
  OBVIOUS
<1>2. Moves(held, w, a, h2, z)
  BY ONLY <1>1, held \in Seq(Units), w \in Seq(Units), n \in 1 .. Len(w), a = SubSeq(w, 1, n),
     z = SubSeq(w, n + 1, Len(w)), Arrive
<1>3. a \in Seq(Units) /\ z \in Seq(Units) /\ h2 \in Seq(Units) /\ h2 \o z = held \o w
  BY <1>2 DEF Moves
<1>4. (b \o h2) \o z = b \o (h2 \o z) /\ (b \o held) \o w = b \o (held \o w)
  BY ONLY <1>3, b \in Seq(Units), held \in Seq(Units), w \in Seq(Units), Regroup
<1> QED
  BY <1>1, <1>3, <1>4 DEF Carries

\* What is held is handed out.
LEMMA CarriesOut ==
    ASSUME NEW s, NEW b \in Seq(Units), NEW held \in Seq(Units), NEW w, Carries(s, b, held, w)
    PROVE  b \o held \in Seq(Units) /\ Carries(s, b \o held, << >>, w)
<1>1. PICK c \in Seq(Units) : c = b \o held
  BY Joins
<1>2. c \o << >> = c
  BY ONLY c \in Seq(Units), ConcatEmptySeq
<1> QED
  BY <1>1, <1>2 DEF Carries

\* The first data.
LEMMA CarriesFirst ==
    ASSUME NEW s, NEW a \in Seq(Units), NEW w, a \o w = Data(1, s.data)
    PROVE  Carries(s, << >>, a, w) /\ << >> \o a = a
<1>1. << >> \o a = a
  BY ONLY a \in Seq(Units), ConcatEmptySeq
<1> QED
  BY <1>1 DEF Carries

\* An output that goes to the bridge.
LEMMA BridgeDataIs ==
    ASSUME NEW out, NEW v, out = [kind |-> "BridgeData", value |-> v]
    PROVE  \A t : ToldBy(t, out) = t /\ WrittenBy(t, out) = t /\ BridgedBy(t, out) = t \o v
BY DEF ToldBy, BridgedBy, WrittenBy

-----------------------------------------------------------------------------
(* HopConnect                                                              *)

ConnectFlow ==
    [outbound : Seq(Units), recv_buf : Seq(Units), state : FlowState,
     outcome : {None, "Bridged", "Refused"}, emitted_outcome : BOOLEAN,
     bridge_bytes : Seq(Units)]

ConnectRequest == Message("CONNECT", Ours)
ConnectVerdict(s) == IF s.frames[1].body = "Ok" THEN "Bridged" ELSE "Refused"

\* The circuit is there, or refused.
Connected(s, f, w, t, o, b) ==
    /\ f.state = "Done" /\ Right("connect", s) /\ o = EncodeFrame(ConnectRequest)
    /\ Answered(f, t, ConnectVerdict(s))
    /\ ConnectVerdict(s) = "Bridged" =>
         /\ f.recv_buf = << >> /\ Carries(s, b, f.bridge_bytes, w)
         /\ b # << >> => f.emitted_outcome
    /\ ConnectVerdict(s) # "Bridged" => f.bridge_bytes = << >> /\ b = << >>

ConnectInv(s, f, w, fl, t, o, b) ==
    /\ f \in ConnectFlow /\ b \in Seq(Units)
    /\ ~fl => \/ Unasked(s, f, w, t, o, ConnectRequest) /\ f.bridge_bytes = << >> /\ b = << >>
              \/ /\ Waiting(s, f, w, t, o, ConnectRequest, "AwaitingResponse")
                 /\ f.bridge_bytes = << >> /\ b = << >>
              \/ Connected(s, f, w, t, o, b)
    /\ fl => /\ Wrong("connect", s) /\ t = << >> /\ o = EncodeFrame(ConnectRequest)
             /\ f.bridge_bytes = << >> /\ b = << >>

\* try_decode_response
LEMMA ConnectDecodes ==
    ASSUME NEW s, SentOK("connect", s), NEW f \in ConnectFlow, NEW w \in Seq(Units),
           NEW t, NEW o, Waiting(s, f, w, t, o, ConnectRequest, "AwaitingResponse"),
           f.bridge_bytes = << >>, NEW r, r = ConnectDecode(f)
    PROVE  r.ok \in BOOLEAN /\ ConnectInv(s, r.flow, w, ~r.ok, t, o, << >>)
<1>1. PICK m : Sends(s, m) /\ (Right("connect", s) <=> m.kind = "STATUS")
  BY OneSent DEF Kinds
<1>2. PICK buf \in Seq(Units) : buf = f.recv_buf /\ buf \o w = Stream(s)
  BY DEF Waiting, ConnectFlow
<1>3. /\ Sees(buf, w, m, Data(1, s.data))
      /\ Len(buf) > MaxSize => ~(Len(s.frames) * FrameLen + s.data <= MaxSize)
  BY ONLY <1>1, <1>2, buf \in Seq(Units), w \in Seq(Units), OneSeen
<1>4. s.frames[1] = m /\ << >> \in Seq(Units)
  BY <1>1, EmptySeq DEF Sends
<1>5. CASE Decode(buf) = "Incomplete"
  <2>1. r.flow = f /\ r.ok = TRUE
    BY <1>2, <1>5 DEF ConnectDecode, Ok
  <2>2. ConnectInv(s, f, w, FALSE, t, o, << >>)
    BY <1>4 DEF ConnectInv
  <2> QED
    BY <2>1, <2>2
<1>6. CASE Decode(buf) \in {"MessageTooLarge", "Malformed"}
  <2>1. r.flow = Done(f) /\ r.ok = FALSE
    BY <1>2, <1>6 DEF ConnectDecode, Waiting, Err
  <2>2. Done(f) \in ConnectFlow /\ Done(f).bridge_bytes = << >>
    BY DEF Done, ConnectFlow, FlowState
  <2>3. Wrong("connect", s)
    BY <1>1, <1>3, <1>6 DEF Wrong, Sees
  <2> QED
    BY <1>4, <2>1, <2>2, <2>3 DEF ConnectInv, Waiting
<1>7. CASE Decode(buf) = "Complete"
  <2>1. PICK rest \in Seq(Units) : rest = RestOf(buf) /\ FrontOf(buf) = m /\ rest \o w = Data(1, s.data)
    BY <1>3, <1>7 DEF Sees
  <2>2. PICK g : g = [Done(f) EXCEPT !.recv_buf = RestOf(@), !.emitted_outcome = FALSE]
    OBVIOUS
  <2>3. /\ g \in ConnectFlow /\ g.outbound = << >> /\ g.state = "Done" /\ g.recv_buf = rest
        /\ g.bridge_bytes = << >> /\ ~g.emitted_outcome
    BY <1>2, <2>1, <2>2 DEF Done, ConnectFlow, FlowState, Waiting
  <2>4. CASE m.kind # "STATUS"
    <3>1. r.flow = g /\ r.ok = FALSE
      BY <1>2, <1>7, <2>1, <2>2, <2>4 DEF ConnectDecode, Waiting, Err
    <3> QED
      BY <1>1, <1>4, <2>3, <2>4, <3>1 DEF ConnectInv, Waiting, Wrong
  <2>5. CASE m.kind = "STATUS" /\ m.body = "Ok"
    <3>1. PICK h : h = [g EXCEPT !.outcome = "Bridged", !.recv_buf = << >>,
                                 !.bridge_bytes = @ \o g.recv_buf]
      OBVIOUS
    <3>2. r.flow = h /\ r.ok = TRUE
      BY <1>2, <1>7, <2>1, <2>2, <2>5, <3>1 DEF ConnectDecode, Waiting, Ok
    <3>3. Carries(s, << >>, rest, w) /\ << >> \o rest = rest
      BY ONLY <2>1, rest \in Seq(Units), CarriesFirst
    <3>4. /\ h \in ConnectFlow /\ h.state = "Done" /\ h.outbound = << >> /\ h.recv_buf = << >>
          /\ h.outcome = "Bridged" /\ ~h.emitted_outcome /\ h.bridge_bytes = rest
      BY <1>4, <2>3, <3>1, <3>3 DEF ConnectFlow
    <3>5. ConnectVerdict(s) = "Bridged"
      BY <1>4, <2>5 DEF ConnectVerdict
    <3>6. Connected(s, h, w, t, o, << >>)
      BY <1>1, <2>5, <3>3, <3>4, <3>5 DEF Connected, Answered, Waiting
    <3> QED
      BY <1>4, <3>2, <3>4, <3>6 DEF ConnectInv
  <2>6. CASE m.kind = "STATUS" /\ m.body # "Ok"
    <3>1. PICK h : h = [g EXCEPT !.outcome = "Refused"]
      OBVIOUS
    <3>2. r.flow = h /\ r.ok = TRUE
      BY <1>2, <1>7, <2>1, <2>2, <2>6, <3>1 DEF ConnectDecode, Waiting, Ok
    <3>4. /\ h \in ConnectFlow /\ h.state = "Done" /\ h.outbound = << >>
          /\ h.outcome = "Refused" /\ ~h.emitted_outcome /\ h.bridge_bytes = << >>
      BY <2>3, <3>1 DEF ConnectFlow
    <3>5. ConnectVerdict(s) = "Refused"
      BY <1>4, <2>6 DEF ConnectVerdict
    <3>6. Connected(s, h, w, t, o, << >>)
      BY <1>1, <2>6, <3>4, <3>5 DEF Connected, Answered, Waiting
    <3> QED
      BY <1>4, <3>2, <3>4, <3>6 DEF ConnectInv
  <2> QED
    BY <2>4, <2>5, <2>6
<1> QED
  BY <1>3, <1>5, <1>6, <1>7 DEF Sees

\* Any of its states, once asked, when units arrive.
LEMMA ConnectArrives ==
    ASSUME NEW s, SentOK("connect", s), NEW f, NEW w \in Seq(Units), NEW t, NEW o, NEW b, o # << >>,
           ConnectInv(s, f, w, FALSE, t, o, b), NEW n \in 1 .. Len(w),
           NEW a, a = SubSeq(w, 1, n), NEW z, z = SubSeq(w, n + 1, Len(w)),
           NEW r, r = ConnectData(f, a)
    PROVE  r.ok \in BOOLEAN /\ ConnectInv(s, r.flow, z, ~r.ok, t, o, b)
<1>1. f \in ConnectFlow /\ b \in Seq(Units)
  BY DEF ConnectInv
<1>2. CASE Waiting(s, f, w, t, o, ConnectRequest, "AwaitingResponse")
           /\ f.bridge_bytes = << >> /\ b = << >>
  <2>1. PICK buf \in Seq(Units) : buf = f.recv_buf
    BY <1>1 DEF ConnectFlow
  <2>2. PICK b2 : b2 = buf \o a
    OBVIOUS
  <2>a. Moves(buf, w, a, b2, z)
    BY ONLY <2>2, buf \in Seq(Units), w \in Seq(Units), n \in 1 .. Len(w), a = SubSeq(w, 1, n),
       z = SubSeq(w, n + 1, Len(w)), Arrive
  <2>3. z \in Seq(Units) /\ b2 \in Seq(Units) /\ b2 \o z = buf \o w
    BY <2>a DEF Moves
  <2>4. PICK g : g = [f EXCEPT !.recv_buf = b2]
    OBVIOUS
  <2>5. /\ g \in ConnectFlow /\ Waiting(s, g, z, t, o, ConnectRequest, "AwaitingResponse")
        /\ g.bridge_bytes = << >>
    BY <1>1, <1>2, <2>1, <2>3, <2>4 DEF ConnectFlow, Waiting
  <2>6. r = ConnectDecode(g)
    BY <1>2, <2>1, <2>2, <2>4 DEF ConnectData, Waiting
  <2> QED
    BY ONLY <1>2, <2>3, <2>5, <2>6, SentOK("connect", s), ConnectDecodes
<1>3. CASE Connected(s, f, w, t, o, b) /\ ConnectVerdict(s) = "Bridged"
  <2>1. PICK held \in Seq(Units) : held = f.bridge_bytes /\ Carries(s, b, held, w)
    BY <1>1, <1>3 DEF ConnectFlow, Connected
  <2>2. z \in Seq(Units) /\ held \o a \in Seq(Units) /\ Carries(s, b, held \o a, z)
    BY ONLY <1>1, <2>1, held \in Seq(Units), w \in Seq(Units), n \in 1 .. Len(w), a = SubSeq(w, 1, n),
       z = SubSeq(w, n + 1, Len(w)), CarriesMore
  <2>3. PICK g : g = [f EXCEPT !.bridge_bytes = held \o a]
    OBVIOUS
  <2>4. r.flow = g /\ r.ok = TRUE
    BY <1>3, <2>1, <2>3 DEF ConnectData, Ok, Connected, Answered
  <2>5. /\ g \in ConnectFlow /\ g.bridge_bytes = held \o a /\ g.state = f.state /\ g.outcome = f.outcome
        /\ g.outbound = f.outbound /\ g.recv_buf = f.recv_buf /\ g.emitted_outcome = f.emitted_outcome
    BY <1>1, <2>2, <2>3 DEF ConnectFlow
  <2>6. Connected(s, g, z, t, o, b)
    BY <1>3, <2>2, <2>5 DEF Connected, Answered
  <2> QED
    BY <1>1, <2>4, <2>5, <2>6 DEF ConnectInv
<1>4. CASE Connected(s, f, w, t, o, b) /\ ConnectVerdict(s) # "Bridged"
  <2>1. r.flow = f /\ r.ok = TRUE
    BY <1>4 DEF ConnectData, Ok, Connected, Answered
  <2>2. Connected(s, f, z, t, o, b)
    BY <1>4 DEF Connected
  <2> QED
    BY <1>1, <2>1, <2>2 DEF ConnectInv
<1> QED
  BY <1>2, <1>3, <1>4 DEF ConnectInv, Unasked

\* And when the remote writes no more.
LEMMA ConnectCloses ==
    ASSUME NEW s, SentOK("connect", s), NEW f, NEW w \in Seq(Units), NEW t, NEW o, NEW b, o # << >>,
           ConnectInv(s, f, w, FALSE, t, o, b), NEW r, r = ConnectDecode(f)
    PROVE  r.ok \in BOOLEAN /\ ConnectInv(s, r.flow, w, ~r.ok, t, o, b)
<1>1. f \in ConnectFlow
  BY DEF ConnectInv
<1>2. CASE Waiting(s, f, w, t, o, ConnectRequest, "AwaitingResponse")
           /\ f.bridge_bytes = << >> /\ b = << >>
  BY ONLY <1>1, <1>2, SentOK("connect", s), w \in Seq(Units), r = ConnectDecode(f), ConnectDecodes
<1>3. CASE Connected(s, f, w, t, o, b)
  <2>1. r.flow = f /\ r.ok = TRUE
    BY <1>3 DEF ConnectDecode, Connected, Ok
  <2> QED
    BY <2>1
<1> QED
  BY <1>2, <1>3 DEF ConnectInv, Unasked

\* poll_output
LEMMA ConnectPolls ==
    ASSUME NEW s, NEW f, NEW w, NEW t, NEW o, NEW b, ConnectInv(s, f, w, FALSE, t, o, b),
           SentOK("connect", s), NEW r, r = ConnectPoll(f), r.out # None
    PROVE  ConnectInv(s, r.flow, w, FALSE, ToldBy(t, r.out), WrittenBy(o, r.out), BridgedBy(b, r.out))
<1>1. f \in ConnectFlow /\ b \in Seq(Units) /\ ConnectRequest \in Messages
  <2>1. Ours \in Peers
    BY FlowsAssumption DEF Ours
  <2> QED
    BY <2>1, MessagesAre DEF ConnectInv, ConnectRequest
<1>e. << >> \in Seq(Units)
  BY EmptySeq
<1>2. Flushed(f) \in ConnectFlow
  BY <1>1, <1>e DEF Flushed, ConnectFlow, FlowState
<1>3. PICK g : g = Flushed(f)
  OBVIOUS
<1>4. /\ g \in ConnectFlow /\ g.outbound = << >> /\ g.recv_buf = f.recv_buf
      /\ g.outcome = f.outcome /\ g.emitted_outcome = f.emitted_outcome
      /\ g.state = IF f.state = "Pending" THEN "AwaitingResponse" ELSE f.state
      /\ g.bridge_bytes = f.bridge_bytes
  BY <1>1, <1>2, <1>3 DEF Flushed, ConnectFlow
<1>5. CASE Unasked(s, f, w, t, o, ConnectRequest) /\ f.bridge_bytes = << >> /\ b = << >>
  <2>1. EncodeFrame(ConnectRequest) # << >> /\ EncodeFrame(ConnectRequest) \in Seq(Units)
    BY <1>1, FrameIs
  <2>2. r = Output(g, "Outbound", EncodeFrame(ConnectRequest))
    BY <1>3, <1>5, <2>1 DEF ConnectPoll, Unasked
  <2>3. r.flow = g /\ r.out = [kind |-> "Outbound", value |-> EncodeFrame(ConnectRequest)]
    BY <2>2 DEF Output
  <2>4. /\ ToldBy(t, r.out) = t /\ BridgedBy(b, r.out) = b
        /\ WrittenBy(<< >>, r.out) = EncodeFrame(ConnectRequest)
    BY ONLY <1>1, <2>3, OutboundIs
  <2>5. << >> \o Stream(s) = Stream(s)
    <3>1. Stream(s) \in Seq(Units)
      BY OneSent, StreamOfOne DEF Kinds
    <3> QED
      BY ONLY <3>1, ConcatEmptySeq
  <2>6. Waiting(s, g, w, t, EncodeFrame(ConnectRequest), ConnectRequest, "AwaitingResponse")
    BY <1>4, <1>5, <2>5 DEF Waiting, Unasked
  <2>7. WrittenBy(o, r.out) = EncodeFrame(ConnectRequest)
    BY <1>5, <2>4 DEF Unasked
  <2> QED
    BY ONLY <1>1, <1>4, <1>5, <2>3, <2>4, <2>6, <2>7 DEF ConnectInv
<1>6. CASE Waiting(s, f, w, t, o, ConnectRequest, "AwaitingResponse")
           /\ f.bridge_bytes = << >> /\ b = << >>
  <2>1. r = Nothing(g)
    BY <1>3, <1>6 DEF ConnectPoll, Waiting
  <2> QED
    BY <2>1 DEF Nothing
<1>7. CASE Connected(s, f, w, t, o, b) /\ f.outcome # None /\ ~f.emitted_outcome
  <2>1. f.outbound = << >>
    BY <1>7 DEF Connected, Answered
  <2>2. PICK h : h = [g EXCEPT !.emitted_outcome = TRUE]
    OBVIOUS
  <2>3. r = Output(h, "Outcome", f.outcome)
    BY <1>3, <1>7, <2>1, <2>2 DEF ConnectPoll
  <2>4. r.flow = h /\ r.out = [kind |-> "Outcome", value |-> f.outcome]
    BY <2>3 DEF Output
  <2>5. /\ ToldBy(<< >>, r.out) = <<f.outcome>> /\ BridgedBy(b, r.out) = b
        /\ WrittenBy(o, r.out) = o
    BY ONLY <2>4, OutcomeIs
  <2>6. t = << >> /\ f.outcome = ConnectVerdict(s)
    BY <1>7 DEF Answered, Connected
  <2>7. /\ h \in ConnectFlow /\ h.state = "Done" /\ h.outbound = << >>
        /\ h.outcome = f.outcome /\ h.emitted_outcome /\ h.recv_buf = f.recv_buf
        /\ h.bridge_bytes = f.bridge_bytes
    BY <1>4, <1>7, <2>2 DEF ConnectFlow, Connected
  <2>8. Answered(h, ToldBy(t, r.out), ConnectVerdict(s))
    BY <2>5, <2>6, <2>7 DEF Answered
  <2>9. Connected(s, h, w, ToldBy(t, r.out), o, b)
    BY <1>7, <2>7, <2>8 DEF Connected
  <2> QED
    BY <1>1, <2>4, <2>5, <2>7, <2>9 DEF ConnectInv
<1>8. CASE Connected(s, f, w, t, o, b) /\ (f.outcome = None \/ f.emitted_outcome)
  <2>1. f.outbound = << >>
    BY <1>8 DEF Connected, Answered
  <2>2. f.bridge_bytes # << >>
    <3> SUFFICES ASSUME f.bridge_bytes = << >> PROVE FALSE
      OBVIOUS
    <3>1. r = Nothing(g)
      BY <1>3, <1>8, <2>1 DEF ConnectPoll
    <3> QED
      BY <3>1 DEF Nothing
  <2>3. PICK held \in Seq(Units) : held = f.bridge_bytes /\ Carries(s, b, held, w)
    BY <1>1, <1>8, <2>2 DEF ConnectFlow, Connected
  <2>4. PICK h : h = [g EXCEPT !.bridge_bytes = << >>]
    OBVIOUS
  <2>5. r = Output(h, "BridgeData", held)
    BY <1>3, <1>8, <2>1, <2>2, <2>3, <2>4 DEF ConnectPoll
  <2>6. r.flow = h /\ r.out = [kind |-> "BridgeData", value |-> held]
    BY <2>5 DEF Output
  <2>7. ToldBy(t, r.out) = t /\ WrittenBy(o, r.out) = o /\ BridgedBy(b, r.out) = b \o held
    BY ONLY <2>6, BridgeDataIs
  <2>8. b \o held \in Seq(Units) /\ Carries(s, b \o held, << >>, w)
    BY ONLY <1>1, <2>3, held \in Seq(Units), CarriesOut
  <2>9. /\ h \in ConnectFlow /\ h.state = "Done" /\ h.outbound = << >>
        /\ h.outcome = f.outcome /\ h.emitted_outcome = f.emitted_outcome /\ h.recv_buf = f.recv_buf
        /\ h.bridge_bytes = << >>
    BY <1>4, <1>8, <1>e, <2>4 DEF ConnectFlow, Connected
  <2>10. ConnectVerdict(s) = "Bridged" /\ f.emitted_outcome
    <3>1. ConnectVerdict(s) = "Bridged"
      BY <1>8, <2>2 DEF Connected
    <3>2. f.outcome # None
      BY <1>8, <3>1, FlowsAbsentAssumption DEF Connected, Answered
    <3> QED
      BY <1>8, <3>1, <3>2
  <2>11. Connected(s, h, w, t, o, b \o held)
    BY <1>8, <2>8, <2>9, <2>10 DEF Connected, Answered
  <2> QED
    BY <2>6, <2>7, <2>8, <2>9, <2>11 DEF ConnectInv
<1> QED
  BY <1>5, <1>6, <1>7, <1>8 DEF ConnectInv

-----------------------------------------------------------------------------
(* StopResponder; d is the host's decision.                                *)

StopFlow ==
    [outbound : Seq(Units), recv_buf : Seq(Units), state : StopState,
     request : Peers \cup {None}, emitted_request : BOOLEAN, bridge_bytes : Seq(Units)]

\* The reply is in the flow, or written.
Replies(f, o, reply) ==
    \/ f.outbound = EncodeFrame(reply) /\ o = << >>
    \/ f.outbound = << >> /\ o = EncodeFrame(reply)

StopReply(d) == Message("STATUS", IF d.call = "Accept" THEN "Ok" ELSE "ConnectionFailed")

\* The request is not there yet.
StopWaits(s, f, w, d, t, o, b) ==
    /\ f.state = "AwaitingConnect" /\ f.outbound = << >> /\ f.request = None /\ ~f.emitted_request
    /\ f.recv_buf \o w = Stream(s) /\ f.bridge_bytes = << >>
    /\ d = None /\ t = << >> /\ o = << >> /\ b = << >>

\* It waits for the host.
StopAsks(s, f, w, d, t, o, b) ==
    /\ f.state = "AwaitingDecision" /\ f.outbound = << >> /\ Right("stop", s)
    /\ f.request = s.frames[1].body
    /\ t = IF f.emitted_request THEN <<s.frames[1].body>> ELSE << >>
    /\ f.recv_buf \o w = Data(1, s.data) /\ f.bridge_bytes = << >>
    /\ d = None /\ o = << >> /\ b = << >>

\* The host has decided.
StopDecided(s, f, w, d, t, o, b) ==
    /\ Right("stop", s) /\ f.emitted_request /\ t = <<s.frames[1].body>>
    /\ d \in Decisions /\ Replies(f, o, StopReply(d))
    /\ \/ /\ f.state = "Bridged" /\ d.call = "Accept"
          /\ f.recv_buf = << >> /\ Carries(s, b, f.bridge_bytes, w)
       \/ /\ f.state = "Done" /\ d.call = "Reject"
          /\ f.bridge_bytes = << >> /\ b = << >>

StopInv(s, f, w, fl, d, t, o, b) ==
    /\ f \in StopFlow /\ b \in Seq(Units)
    /\ ~fl => \/ StopWaits(s, f, w, d, t, o, b)
              \/ StopAsks(s, f, w, d, t, o, b)
              \/ StopDecided(s, f, w, d, t, o, b)
    /\ fl => /\ Wrong("stop", s) /\ d = None /\ t = << >> /\ o = << >> /\ b = << >>
             /\ f.bridge_bytes = << >>

\* The reply is a message.
LEMMA StopReplyIs == \A d : StopReply(d) \in Messages
BY MessagesAre DEF StopReply

\* try_decode_connect
LEMMA StopDecodes ==
    ASSUME NEW s, SentOK("stop", s), NEW f \in StopFlow, NEW w \in Seq(Units), NEW d,
           NEW t, NEW o, NEW b, StopWaits(s, f, w, d, t, o, b), NEW r, r = StopDecode(f)
    PROVE  r.ok \in BOOLEAN /\ StopInv(s, r.flow, w, ~r.ok, d, t, o, b)
<1>1. PICK m : /\ Sends(s, m) /\ (Right("stop", s) <=> m.kind = "CONNECT" /\ m.body # None)
               /\ (Right("stop", s) => m.body \in Peers)
  BY OneSent DEF Kinds
<1>2. PICK buf \in Seq(Units) : buf = f.recv_buf /\ buf \o w = Stream(s)
  BY DEF StopWaits, StopFlow
<1>3. /\ Sees(buf, w, m, Data(1, s.data))
      /\ Len(buf) > MaxSize => ~(Len(s.frames) * FrameLen + s.data <= MaxSize)
  BY ONLY <1>1, <1>2, buf \in Seq(Units), w \in Seq(Units), OneSeen
<1>4. s.frames[1] = m /\ << >> \in Seq(Units) /\ b \in Seq(Units)
  BY <1>1, EmptySeq DEF Sends, StopWaits
<1>5. CASE Decode(buf) = "Incomplete"
  <2>1. r.flow = f /\ r.ok = TRUE
    BY <1>2, <1>5 DEF StopDecode, Ok
  <2>2. StopInv(s, f, w, FALSE, d, t, o, b)
    BY <1>4 DEF StopInv
  <2> QED
    BY <2>1, <2>2
<1>6. CASE Decode(buf) \in {"MessageTooLarge", "Malformed"}
  <2>1. r.flow = Done(f) /\ r.ok = FALSE
    BY <1>2, <1>6 DEF StopDecode, StopWaits, Err
  <2>2. Done(f) \in StopFlow /\ Done(f).bridge_bytes = << >>
    BY DEF Done, StopFlow, StopState, StopWaits
  <2>3. Wrong("stop", s)
    BY <1>1, <1>3, <1>6 DEF Wrong, Sees
  <2> QED
    BY <1>4, <2>1, <2>2, <2>3 DEF StopInv, StopWaits
<1>7. CASE Decode(buf) = "Complete"
  <2>1. PICK rest \in Seq(Units) : rest = RestOf(buf) /\ FrontOf(buf) = m /\ rest \o w = Data(1, s.data)
    BY <1>3, <1>7 DEF Sees
  <2>2. PICK g : g = [f EXCEPT !.recv_buf = RestOf(@)]
    OBVIOUS
  <2>3. /\ g \in StopFlow /\ g.outbound = << >> /\ g.state = "AwaitingConnect" /\ g.recv_buf = rest
        /\ g.bridge_bytes = << >>
    BY <1>2, <2>1, <2>2 DEF StopFlow, StopState, StopWaits
  <2>4. CASE m.kind # "CONNECT" \/ m.body = None
    <3>1. r.flow = Done(g) /\ r.ok = FALSE
      BY <1>2, <1>7, <2>1, <2>2, <2>4 DEF StopDecode, StopWaits, Err
    <3>2. Done(g) \in StopFlow /\ Done(g).bridge_bytes = << >>
      BY <2>3 DEF Done, StopFlow, StopState
    <3>3. Wrong("stop", s)
      BY <1>1, <2>4 DEF Wrong
    <3> QED
      BY <1>4, <3>1, <3>2, <3>3 DEF StopInv, StopWaits
  <2>5. CASE m.kind = "CONNECT" /\ m.body # None
    <3>1. PICK h : h = [g EXCEPT !.request = m.body, !.emitted_request = FALSE,
                                 !.state = "AwaitingDecision"]
      OBVIOUS
    <3>2. r.flow = h /\ r.ok = TRUE
      BY <1>2, <1>7, <2>1, <2>2, <2>5, <3>1 DEF StopDecode, StopWaits, Ok
    <3>4. /\ h \in StopFlow /\ h.state = "AwaitingDecision" /\ h.outbound = << >> /\ h.recv_buf = rest
          /\ h.request = m.body /\ ~h.emitted_request /\ h.bridge_bytes = << >>
      BY <1>1, <2>3, <2>5, <3>1 DEF StopFlow, StopState
    <3>6. StopAsks(s, h, w, d, t, o, b)
      BY <1>1, <1>4, <2>1, <2>5, <3>4 DEF StopAsks, StopWaits
    <3> QED
      BY <1>4, <3>2, <3>4, <3>6 DEF StopInv
  <2> QED
    BY <2>4, <2>5
<1> QED
  BY <1>3, <1>5, <1>6, <1>7 DEF Sees

\* Units arrive.
LEMMA StopArrives ==
    ASSUME NEW s, SentOK("stop", s), NEW f, NEW w \in Seq(Units), NEW d, NEW t, NEW o, NEW b,
           StopInv(s, f, w, FALSE, d, t, o, b), NEW n \in 1 .. Len(w),
           NEW a, a = SubSeq(w, 1, n), NEW z, z = SubSeq(w, n + 1, Len(w)),
           NEW r, r = StopData(f, a)
    PROVE  r.ok \in BOOLEAN /\ StopInv(s, r.flow, z, ~r.ok, d, t, o, b)
<1>1. f \in StopFlow /\ b \in Seq(Units)
  BY DEF StopInv
<1>a. PICK buf \in Seq(Units) : buf = f.recv_buf
  BY <1>1 DEF StopFlow
<1>b. PICK b2 : b2 = buf \o a
  OBVIOUS
<1>c. Moves(buf, w, a, b2, z)
  BY ONLY <1>b, buf \in Seq(Units), w \in Seq(Units), n \in 1 .. Len(w), a = SubSeq(w, 1, n),
     z = SubSeq(w, n + 1, Len(w)), Arrive
<1>d. z \in Seq(Units) /\ b2 \in Seq(Units) /\ b2 \o z = buf \o w
  BY <1>c DEF Moves
<1>e. PICK g : g = [f EXCEPT !.recv_buf = b2]
  OBVIOUS
<1>2. CASE StopWaits(s, f, w, d, t, o, b)
  <2>5. g \in StopFlow /\ StopWaits(s, g, z, d, t, o, b)
    BY <1>1, <1>2, <1>a, <1>d, <1>e DEF StopFlow, StopWaits
  <2>6. r = StopDecode(g)
    BY <1>2, <1>a, <1>b, <1>e DEF StopData, StopWaits
  <2> QED
    BY ONLY <1>d, <2>5, <2>6, SentOK("stop", s), StopDecodes
<1>3. CASE StopAsks(s, f, w, d, t, o, b)
  <2>5. g \in StopFlow /\ StopAsks(s, g, z, d, t, o, b) /\ g.state = "AwaitingDecision"
    BY <1>1, <1>3, <1>a, <1>d, <1>e DEF StopFlow, StopAsks
  <2>6. r = StopDecode(g)
    BY <1>3, <1>a, <1>b, <1>e DEF StopData, StopAsks
  <2>7. r.flow = g /\ r.ok = TRUE
    BY <2>5, <2>6 DEF StopDecode, Ok
  <2> QED
    BY <1>1, <2>5, <2>7 DEF StopInv
<1>4. CASE StopDecided(s, f, w, d, t, o, b) /\ f.state = "Bridged"
  <2>1. PICK held \in Seq(Units) : held = f.bridge_bytes /\ Carries(s, b, held, w)
    BY <1>1, <1>4 DEF StopFlow, StopDecided
  <2>2. held \o a \in Seq(Units) /\ Carries(s, b, held \o a, z)
    BY ONLY <1>1, <2>1, held \in Seq(Units), w \in Seq(Units), n \in 1 .. Len(w), a = SubSeq(w, 1, n),
       z = SubSeq(w, n + 1, Len(w)), CarriesMore
  <2>3. PICK h : h = [f EXCEPT !.bridge_bytes = held \o a]
    OBVIOUS
  <2>4. r.flow = h /\ r.ok = TRUE
    BY <1>4, <2>1, <2>3 DEF StopData, Ok
  <2>5. /\ h \in StopFlow /\ h.bridge_bytes = held \o a /\ h.state = f.state /\ h.request = f.request
        /\ h.outbound = f.outbound /\ h.recv_buf = f.recv_buf /\ h.emitted_request = f.emitted_request
    BY <1>1, <2>2, <2>3 DEF StopFlow
  <2>6. StopDecided(s, h, z, d, t, o, b)
    BY <1>4, <2>2, <2>5 DEF StopDecided, Replies
  <2> QED
    BY <1>1, <2>4, <2>5, <2>6 DEF StopInv
<1>5. CASE StopDecided(s, f, w, d, t, o, b) /\ f.state # "Bridged"
  <2>1. r.flow = f /\ r.ok = TRUE
    BY <1>5 DEF StopData, Ok, StopDecided
  <2>2. StopDecided(s, f, z, d, t, o, b)
    BY <1>5 DEF StopDecided
  <2> QED
    BY <1>1, <2>1, <2>2 DEF StopInv
<1> QED
  BY <1>2, <1>3, <1>4, <1>5 DEF StopInv

\* The remote writes no more.
LEMMA StopCloses ==
    ASSUME NEW s, SentOK("stop", s), NEW f, NEW w \in Seq(Units), NEW d, NEW t, NEW o, NEW b,
           StopInv(s, f, w, FALSE, d, t, o, b), NEW r, r = StopDecode(f)
    PROVE  r.ok \in BOOLEAN /\ StopInv(s, r.flow, w, ~r.ok, d, t, o, b)
<1>1. f \in StopFlow
  BY DEF StopInv
<1>2. CASE StopWaits(s, f, w, d, t, o, b)
  BY ONLY <1>1, <1>2, SentOK("stop", s), w \in Seq(Units), r = StopDecode(f), StopDecodes
<1>3. CASE f.state # "AwaitingConnect"
  <2>1. r.flow = f /\ r.ok = TRUE
    BY <1>3 DEF StopDecode, Ok
  <2> QED
    BY <2>1
<1> QED
  BY <1>2, <1>3 DEF StopInv, StopAsks, StopDecided

\* poll_output
LEMMA StopPolls ==
    ASSUME NEW s, NEW f, NEW w, NEW d, NEW t, NEW o, NEW b, StopInv(s, f, w, FALSE, d, t, o, b),
           NEW r, r = StopPoll(f), r.out # None
    PROVE  StopInv(s, r.flow, w, FALSE, d, ToldBy(t, r.out), WrittenBy(o, r.out), BridgedBy(b, r.out))
<1>1. f \in StopFlow /\ b \in Seq(Units)
  BY DEF StopInv
<1>e. << >> \in Seq(Units)
  BY EmptySeq
<1>2. CASE f.request # None /\ ~f.emitted_request
  <2>1. StopAsks(s, f, w, d, t, o, b)
    BY <1>2 DEF StopInv, StopWaits, StopDecided
  <2>2. PICK h : h = [f EXCEPT !.emitted_request = TRUE]
    OBVIOUS
  <2>3. r = Output(h, "Request", f.request)
    BY <1>2, <2>2 DEF StopPoll
  <2>4. r.flow = h /\ r.out = [kind |-> "Request", value |-> f.request]
    BY <2>3 DEF Output
  <2>5. /\ ToldBy(<< >>, r.out) = <<f.request>> /\ BridgedBy(b, r.out) = b
        /\ WrittenBy(o, r.out) = o
    BY ONLY <2>4, OutcomeIs
  <2>6. t = << >> /\ f.request = s.frames[1].body
    BY <1>2, <2>1 DEF StopAsks
  <2>7. /\ h \in StopFlow /\ h.state = f.state /\ h.outbound = f.outbound
        /\ h.request = f.request /\ h.emitted_request /\ h.recv_buf = f.recv_buf
        /\ h.bridge_bytes = f.bridge_bytes
    BY <1>1, <2>2 DEF StopFlow
  <2>8. StopAsks(s, h, w, d, ToldBy(t, r.out), o, b)
    BY <2>1, <2>5, <2>6, <2>7 DEF StopAsks
  <2> QED
    BY <1>1, <2>4, <2>5, <2>7, <2>8 DEF StopInv
<1>3. CASE (f.request = None \/ f.emitted_request) /\ f.outbound # << >>
  <2>1. StopDecided(s, f, w, d, t, o, b)
    BY <1>3 DEF StopInv, StopWaits, StopAsks
  <2>2. f.outbound = EncodeFrame(StopReply(d)) /\ o = << >>
    BY <1>3, <2>1 DEF StopDecided, Replies
  <2>3. PICK h : h = [f EXCEPT !.outbound = << >>]
    OBVIOUS
  <2>4. r = Output(h, "Outbound", f.outbound)
    BY <1>3, <2>3 DEF StopPoll
  <2>5. r.flow = h /\ r.out = [kind |-> "Outbound", value |-> EncodeFrame(StopReply(d))]
    BY <2>2, <2>4 DEF Output
  <2>6. PICK m \in Messages : m = StopReply(d)
    BY StopReplyIs
  <2>7. /\ ToldBy(t, r.out) = t /\ BridgedBy(b, r.out) = b
        /\ WrittenBy(<< >>, r.out) = EncodeFrame(m)
    BY ONLY <2>5, <2>6, m \in Messages, OutboundIs
  <2>8. /\ h \in StopFlow /\ h.state = f.state /\ h.outbound = << >>
        /\ h.request = f.request /\ h.emitted_request = f.emitted_request
        /\ h.recv_buf = f.recv_buf /\ h.bridge_bytes = f.bridge_bytes
    BY <1>1, <1>e, <2>3 DEF StopFlow
  <2>9. StopDecided(s, h, w, d, t, EncodeFrame(m), b)
    BY <2>1, <2>6, <2>8 DEF StopDecided, Replies
  <2> QED
    BY <1>1, <2>2, <2>5, <2>7, <2>8, <2>9 DEF StopInv
<1>4. CASE (f.request = None \/ f.emitted_request) /\ f.outbound = << >>
  <2>2. f.bridge_bytes # << >>
    <3> SUFFICES ASSUME f.bridge_bytes = << >> PROVE FALSE
      OBVIOUS
    <3>1. r = Nothing(f)
      BY <1>4 DEF StopPoll
    <3> QED
      BY <3>1 DEF Nothing
  <2>1. StopDecided(s, f, w, d, t, o, b) /\ f.state = "Bridged"
    BY <1>4, <2>2 DEF StopInv, StopWaits, StopAsks, StopDecided
  <2>3. PICK held \in Seq(Units) : held = f.bridge_bytes /\ Carries(s, b, held, w)
    BY <1>1, <2>1 DEF StopFlow, StopDecided
  <2>4. PICK h : h = [f EXCEPT !.bridge_bytes = << >>]
    OBVIOUS
  <2>5. r = Output(h, "BridgeData", held)
    BY <1>4, <2>2, <2>3, <2>4 DEF StopPoll
  <2>6. r.flow = h /\ r.out = [kind |-> "BridgeData", value |-> held]
    BY <2>5 DEF Output
  <2>7. ToldBy(t, r.out) = t /\ WrittenBy(o, r.out) = o /\ BridgedBy(b, r.out) = b \o held
    BY ONLY <2>6, BridgeDataIs
  <2>8. b \o held \in Seq(Units) /\ Carries(s, b \o held, << >>, w)
    BY ONLY <1>1, <2>3, held \in Seq(Units), CarriesOut
  <2>9. /\ h \in StopFlow /\ h.state = f.state /\ h.outbound = f.outbound
        /\ h.request = f.request /\ h.emitted_request = f.emitted_request
        /\ h.recv_buf = f.recv_buf /\ h.bridge_bytes = << >>
    BY <1>1, <1>e, <2>4 DEF StopFlow
  <2>11. StopDecided(s, h, w, d, t, o, b \o held)
    BY <2>1, <2>8, <2>9 DEF StopDecided, Replies
  <2> QED
    BY <2>6, <2>7, <2>8, <2>9, <2>11 DEF StopInv
<1> QED
  BY <1>2, <1>3, <1>4

\* accept
LEMMA StopAccepts ==
    ASSUME NEW s, NEW f, NEW w \in Seq(Units), NEW t, NEW o, NEW b, t # << >>,
           StopInv(s, f, w, FALSE, None, t, o, b), NEW r, r = Accept(f),
           NEW d, d = [call |-> "Accept", addrs |-> {}]
    PROVE  r.ok \in BOOLEAN /\ StopInv(s, r.flow, w, ~r.ok, d, t, o, b)
<1>1. f \in StopFlow /\ b \in Seq(Units) /\ StopAsks(s, f, w, None, t, o, b)
  BY FlowsAbsentAssumption DEF StopInv, StopDecided, StopWaits
<1>2. PICK e \in Seq(Units) : e = EncodeFrame(Message("STATUS", "Ok"))
  BY MessagesAre, FrameIs
<1>3. << >> \o e = e /\ << >> \in Seq(Units)
  BY ConcatEmptySeq, EmptySeq
<1>4. PICK buf \in Seq(Units) : buf = f.recv_buf /\ buf \o w = Data(1, s.data)
  BY <1>1 DEF StopFlow, StopAsks
<1>5. Carries(s, << >>, buf, w) /\ << >> \o buf = buf
  BY ONLY <1>4, buf \in Seq(Units), CarriesFirst
<1>6. PICK h : h = [f EXCEPT !.outbound = e, !.state = "Bridged", !.recv_buf = << >>,
                             !.bridge_bytes = buf]
  OBVIOUS
<1>7. r.flow = h /\ r.ok = TRUE
  <2>1. PICK g : g = [f EXCEPT !.outbound = @ \o EncodeFrame(Message("STATUS", "Ok")), !.state = "Bridged"]
    OBVIOUS
  <2>2. SendStatus(f, "Ok", "Bridged") = Ok(g)
    BY <1>1, <2>1 DEF SendStatus, StopAsks
  <2>a. PICK q : q = SendStatus(f, "Ok", "Bridged")
    OBVIOUS
  <2>b. q.ok = TRUE /\ q.flow = g
    BY <2>2, <2>a DEF Ok
  <2>c. r = Ok([q.flow EXCEPT !.recv_buf = << >>, !.bridge_bytes = @ \o f.recv_buf])
    BY <2>a, <2>b DEF Accept
  <2>3. r = Ok([g EXCEPT !.recv_buf = << >>, !.bridge_bytes = @ \o f.recv_buf])
    BY ONLY <2>b, <2>c
  <2>4. g = [f EXCEPT !.outbound = e, !.state = "Bridged"]
    BY <1>1, <1>2, <1>3, <2>1 DEF StopAsks
  <2>5. [g EXCEPT !.recv_buf = << >>, !.bridge_bytes = @ \o f.recv_buf] = h
    BY <1>1, <1>4, <1>5, <1>6, <2>4 DEF StopFlow, StopAsks
  <2> QED
    BY <2>3, <2>5 DEF Ok
<1>8. /\ h \in StopFlow /\ h.outbound = e /\ h.state = "Bridged" /\ h.recv_buf = << >>
      /\ h.bridge_bytes = buf /\ h.request = f.request /\ h.emitted_request = f.emitted_request
  BY <1>1, <1>3, <1>6 DEF StopFlow, StopState
<1>9. d \in Decisions /\ d.call = "Accept" /\ StopReply(d) = Message("STATUS", "Ok")
  BY DEF Decisions, StopReply
<1>10. f.emitted_request /\ t = <<s.frames[1].body>> /\ b = << >> /\ o = << >> /\ Right("stop", s)
  BY <1>1 DEF StopAsks
<1>11. StopDecided(s, h, w, d, t, o, b)
  BY <1>2, <1>5, <1>8, <1>9, <1>10 DEF StopDecided, Replies
<1> QED
  BY <1>1, <1>7, <1>8, <1>11 DEF StopInv

\* reject
LEMMA StopRejects ==
    ASSUME NEW s, NEW f, NEW w, NEW t, NEW o, NEW b, t # << >>,
           StopInv(s, f, w, FALSE, None, t, o, b), NEW r, r = Reject(f, "ConnectionFailed"),
           NEW d, d = [call |-> "Reject", addrs |-> {}]
    PROVE  r.ok \in BOOLEAN /\ StopInv(s, r.flow, w, ~r.ok, d, t, o, b)
<1>1. f \in StopFlow /\ b \in Seq(Units) /\ StopAsks(s, f, w, None, t, o, b)
  BY FlowsAbsentAssumption DEF StopInv, StopDecided, StopWaits
<1>2. PICK e \in Seq(Units) : e = EncodeFrame(Message("STATUS", "ConnectionFailed"))
  BY MessagesAre, FrameIs
<1>3. << >> \o e = e
  BY ConcatEmptySeq
<1>6. PICK h : h = [f EXCEPT !.outbound = e, !.state = "Done"]
  OBVIOUS
<1>7. r.flow = h /\ r.ok = TRUE
  <2>1. r = Ok([f EXCEPT !.outbound = @ \o EncodeFrame(Message("STATUS", "ConnectionFailed")), !.state = "Done"])
    BY <1>1 DEF Reject, SendStatus, StopAsks
  <2>2. f.outbound = << >>
    BY <1>1 DEF StopAsks
  <2> QED
    BY <1>2, <1>3, <1>6, <2>1, <2>2 DEF Ok
<1>8. /\ h \in StopFlow /\ h.outbound = e /\ h.state = "Done"
      /\ h.bridge_bytes = f.bridge_bytes /\ h.request = f.request /\ h.emitted_request = f.emitted_request
  BY <1>1, <1>3, <1>6 DEF StopFlow, StopState
<1>9. d \in Decisions /\ d.call = "Reject" /\ StopReply(d) = Message("STATUS", "ConnectionFailed")
  BY DEF Decisions, StopReply
<1>10. /\ f.emitted_request /\ t = <<s.frames[1].body>> /\ b = << >> /\ o = << >> /\ Right("stop", s)
       /\ f.bridge_bytes = << >>
  BY <1>1 DEF StopAsks
<1>11. StopDecided(s, h, w, d, t, o, b)
  BY <1>2, <1>8, <1>9, <1>10 DEF StopDecided, Replies
<1> QED
  BY <1>1, <1>7, <1>8, <1>11 DEF StopInv

-----------------------------------------------------------------------------
(* DcutrInitiator                                                          *)

InitiatorFlow ==
    [outbound : Seq(Units), recv_buf : Seq(Units), state : InitiatorState,
     outcome : {None} \cup AddrSets, emitted_outcome : BOOLEAN]

InitiatorRequest == Message("CONNECT", OurAddrs)
Sync == Message("SYNC", {})
InitiatorVerdict(s) == DecodeRemoteAddrs(s.frames[1].body)

\* The reply is there; the host has not acted yet.
ReadyToSync(s, f, d, t, o) ==
    /\ f.state = "ReadyToSync" /\ Right("initiator", s) /\ o = EncodeFrame(InitiatorRequest)
    /\ d = None /\ Answered(f, t, InitiatorVerdict(s))

\* The host has asked for the SYNC.
Synchronizes(s, f, d, t, o) ==
    /\ f.emitted_outcome /\ Right("initiator", s) /\ d \in Decisions /\ t = <<InitiatorVerdict(s)>>
    /\ \/ /\ f.state = "SyncPending" /\ f.outbound = EncodeFrame(Sync)
          /\ o = EncodeFrame(InitiatorRequest)
       \/ /\ f.state = "Done" /\ f.outbound = << >>
          /\ o = EncodeFrame(InitiatorRequest) \o EncodeFrame(Sync)

InitiatorInv(s, f, w, fl, d, t, o) ==
    /\ f \in InitiatorFlow
    /\ ~fl => \/ Unasked(s, f, w, t, o, InitiatorRequest) /\ d = None
              \/ Waiting(s, f, w, t, o, InitiatorRequest, "AwaitingConnectReply") /\ d = None
              \/ ReadyToSync(s, f, d, t, o)
              \/ Synchronizes(s, f, d, t, o)
    /\ fl => Wrong("initiator", s) /\ t = << >> /\ o = EncodeFrame(InitiatorRequest) /\ d = None

\* The messages it writes.
LEMMA InitiatorWrites == InitiatorRequest \in Messages /\ Sync \in Messages
<1>1. OurAddrs \in AddrSets
  BY DEF OurAddrs, AddrSets
<1> QED
  BY <1>1, MessagesAre DEF InitiatorRequest, Sync

\* try_decode_reply
LEMMA InitiatorDecodes ==
    ASSUME NEW s, SentOK("initiator", s), NEW f \in InitiatorFlow, NEW w \in Seq(Units), NEW d,
           NEW t, NEW o, Waiting(s, f, w, t, o, InitiatorRequest, "AwaitingConnectReply"),
           d = None, NEW r, r = InitiatorDecode(f)
    PROVE  r.ok \in BOOLEAN /\ InitiatorInv(s, r.flow, w, ~r.ok, d, t, o)
<1>1. PICK m : /\ Sends(s, m) /\ (Right("initiator", s) <=> m.kind = "CONNECT")
               /\ Right("initiator", s) => m.body \in SUBSET Addrs
  BY OneSent DEF Kinds
<1>2. PICK buf \in Seq(Units) : buf = f.recv_buf /\ buf \o w = Stream(s)
  BY DEF Waiting, InitiatorFlow
<1>3. /\ Sees(buf, w, m, Data(1, s.data))
      /\ Len(buf) > MaxSize => ~(Len(s.frames) * FrameLen + s.data <= MaxSize)
  BY ONLY <1>1, <1>2, buf \in Seq(Units), w \in Seq(Units), OneSeen
<1>4. s.frames[1] = m
  BY <1>1 DEF Sends
<1>5. CASE Decode(buf) = "Incomplete"
  <2>1. r.flow = f /\ r.ok = TRUE
    BY <1>2, <1>5 DEF InitiatorDecode, Ok
  <2> QED
    BY <2>1 DEF InitiatorInv
<1>6. CASE Decode(buf) \in {"MessageTooLarge", "Malformed"}
  <2>1. r.flow = Ended(f) /\ r.ok = FALSE
    BY <1>2, <1>6 DEF InitiatorDecode, Waiting, Err
  <2>2. Ended(f) \in InitiatorFlow
    BY DEF Ended, InitiatorFlow, InitiatorState
  <2>3. Wrong("initiator", s)
    BY <1>1, <1>3, <1>6 DEF Wrong, Sees
  <2> QED
    BY <2>1, <2>2, <2>3 DEF InitiatorInv, Waiting
<1>7. CASE Decode(buf) = "Complete"
  <2>1. FrontOf(buf) = m /\ RestOf(buf) \in Seq(Units)
    BY <1>3, <1>7 DEF Sees
  <2>2. PICK g : g = [f EXCEPT !.recv_buf = RestOf(@)]
    OBVIOUS
  <2>3. g \in InitiatorFlow /\ g.outbound = << >>
    BY <1>2, <2>1, <2>2 DEF InitiatorFlow, InitiatorState, Waiting
  <2>4. CASE m.kind # "CONNECT"
    <3>1. r.flow = Ended(g) /\ r.ok = FALSE
      BY <1>2, <1>7, <2>1, <2>2, <2>4 DEF InitiatorDecode, Waiting, Err
    <3>2. Ended(g) \in InitiatorFlow
      BY <2>3 DEF Ended, InitiatorFlow, InitiatorState
    <3> QED
      BY <1>1, <2>4, <3>1, <3>2 DEF InitiatorInv, Waiting, Wrong
  <2>5. CASE m.kind = "CONNECT"
    <3>1. PICK h : h = [g EXCEPT !.state = "ReadyToSync", !.emitted_outcome = FALSE,
                                 !.outcome = DecodeRemoteAddrs(m.body)]
      OBVIOUS
    <3>2. r.flow = h /\ r.ok = TRUE
      BY <1>2, <1>7, <2>1, <2>2, <2>5, <3>1 DEF InitiatorDecode, Waiting, Ok
    <3>a. DecodeRemoteAddrs(m.body) \in AddrSets
      BY <1>1, <2>5 DEF DecodeRemoteAddrs, AddrSets
    <3>3. /\ h \in InitiatorFlow /\ h.state = "ReadyToSync" /\ h.outbound = << >>
          /\ h.outcome = InitiatorVerdict(s) /\ ~h.emitted_outcome
      BY <1>4, <2>3, <3>1, <3>a DEF InitiatorFlow, InitiatorState, InitiatorVerdict
    <3>4. ReadyToSync(s, h, d, t, o)
      BY <1>1, <2>5, <3>3 DEF ReadyToSync, Answered, Waiting
    <3> QED
      BY <3>2, <3>3, <3>4 DEF InitiatorInv
  <2> QED
    BY <2>4, <2>5
<1> QED
  BY <1>3, <1>5, <1>6, <1>7 DEF Sees

\* Any of its states, once asked, when units arrive.
LEMMA InitiatorArrives ==
    ASSUME NEW s, SentOK("initiator", s), NEW f, NEW w \in Seq(Units), NEW d, NEW t, NEW o, o # << >>,
           InitiatorInv(s, f, w, FALSE, d, t, o), NEW n \in 1 .. Len(w),
           NEW a, a = SubSeq(w, 1, n), NEW z, z = SubSeq(w, n + 1, Len(w)),
           NEW r, r = InitiatorData(f, a)
    PROVE  r.ok \in BOOLEAN /\ InitiatorInv(s, r.flow, z, ~r.ok, d, t, o)
<1>1. f \in InitiatorFlow
  BY DEF InitiatorInv
<1>a. PICK buf \in Seq(Units) : buf = f.recv_buf
  BY <1>1 DEF InitiatorFlow
<1>b. PICK b2 : b2 = buf \o a
  OBVIOUS
<1>c. Moves(buf, w, a, b2, z)
  BY ONLY <1>b, buf \in Seq(Units), w \in Seq(Units), n \in 1 .. Len(w), a = SubSeq(w, 1, n),
     z = SubSeq(w, n + 1, Len(w)), Arrive
<1>d. z \in Seq(Units) /\ b2 \in Seq(Units) /\ b2 \o z = buf \o w
  BY <1>c DEF Moves
<1>e. PICK g : g = [f EXCEPT !.recv_buf = b2]
  OBVIOUS
<1>2. CASE Waiting(s, f, w, t, o, InitiatorRequest, "AwaitingConnectReply") /\ d = None
  <2>5. g \in InitiatorFlow /\ Waiting(s, g, z, t, o, InitiatorRequest, "AwaitingConnectReply")
    BY <1>1, <1>2, <1>a, <1>d, <1>e DEF InitiatorFlow, Waiting
  <2>6. r = InitiatorDecode(g)
    BY <1>2, <1>a, <1>b, <1>e DEF InitiatorData, Waiting
  <2> QED
    BY ONLY <1>2, <1>d, <2>5, <2>6, SentOK("initiator", s), InitiatorDecodes
<1>3. CASE ReadyToSync(s, f, d, t, o)
  <2>5. g \in InitiatorFlow /\ ReadyToSync(s, g, d, t, o) /\ g.state = "ReadyToSync"
    BY <1>1, <1>3, <1>a, <1>d, <1>e DEF InitiatorFlow, ReadyToSync, Answered
  <2>6. r = InitiatorDecode(g)
    BY <1>3, <1>a, <1>b, <1>e DEF InitiatorData, ReadyToSync
  <2>7. r.flow = g /\ r.ok = TRUE
    BY <2>5, <2>6 DEF InitiatorDecode, Ok
  <2> QED
    BY <2>5, <2>7 DEF InitiatorInv
<1>4. CASE Synchronizes(s, f, d, t, o)
  <2>1. r.flow = f /\ r.ok = TRUE
    BY <1>4 DEF InitiatorData, Ok, Synchronizes
  <2> QED
    BY <1>1, <1>4, <2>1 DEF InitiatorInv
<1> QED
  BY <1>2, <1>3, <1>4 DEF InitiatorInv, Unasked

\* poll_output
LEMMA InitiatorPolls ==
    ASSUME NEW s, NEW f, NEW w, NEW d, NEW t, NEW o, InitiatorInv(s, f, w, FALSE, d, t, o),
           SentOK("initiator", s), NEW r, r = InitiatorPoll(f), r.out # None
    PROVE  /\ InitiatorInv(s, r.flow, w, FALSE, d, ToldBy(t, r.out), WrittenBy(o, r.out))
           /\ (\A b : BridgedBy(b, r.out) = b)
<1>1. f \in InitiatorFlow /\ InitiatorRequest \in Messages /\ Sync \in Messages
  BY InitiatorWrites DEF InitiatorInv
<1>2. InitiatorFlushed(f) \in InitiatorFlow
  <2>1. << >> \in Seq(Units)
    BY EmptySeq
  <2> QED
    BY <1>1, <2>1 DEF InitiatorFlushed, InitiatorFlow, InitiatorState
<1>3. PICK g : g = InitiatorFlushed(f)
  OBVIOUS
<1>4. /\ g \in InitiatorFlow /\ g.outbound = << >> /\ g.recv_buf = f.recv_buf
      /\ g.outcome = f.outcome /\ g.emitted_outcome = f.emitted_outcome
      /\ f.state = "Pending" => g.state = "AwaitingConnectReply"
      /\ f.state = "SyncPending" => g.state = "Done"
      /\ f.state \notin {"Pending", "SyncPending"} => g.state = f.state
  BY <1>1, <1>2, <1>3 DEF InitiatorFlushed, InitiatorFlow
<1>5. CASE Unasked(s, f, w, t, o, InitiatorRequest) /\ d = None
  <2>1. EncodeFrame(InitiatorRequest) # << >>
    BY <1>1, FrameIs
  <2>2. r = Output(g, "Outbound", EncodeFrame(InitiatorRequest))
    BY <1>3, <1>5, <2>1 DEF InitiatorPoll, Unasked
  <2>3. r.flow = g /\ r.out = [kind |-> "Outbound", value |-> EncodeFrame(InitiatorRequest)]
    BY <2>2 DEF Output
  <2>4. /\ ToldBy(t, r.out) = t /\ (\A b : BridgedBy(b, r.out) = b)
        /\ WrittenBy(<< >>, r.out) = EncodeFrame(InitiatorRequest)
    BY ONLY <1>1, <2>3, OutboundIs
  <2>5. << >> \o Stream(s) = Stream(s)
    <3>1. Stream(s) \in Seq(Units)
      BY OneSent, StreamOfOne DEF Kinds
    <3> QED
      BY ONLY <3>1, ConcatEmptySeq
  <2>6. Waiting(s, g, w, t, EncodeFrame(InitiatorRequest), InitiatorRequest, "AwaitingConnectReply")
    BY <1>4, <1>5, <2>5 DEF Waiting, Unasked
  <2>7. WrittenBy(o, r.out) = EncodeFrame(InitiatorRequest)
    BY <1>5, <2>4 DEF Unasked
  <2> QED
    BY ONLY <1>4, <1>5, <2>3, <2>4, <2>6, <2>7 DEF InitiatorInv
<1>6. CASE Waiting(s, f, w, t, o, InitiatorRequest, "AwaitingConnectReply") /\ d = None
  <2>1. r = Nothing(g)
    BY <1>3, <1>6 DEF InitiatorPoll, Waiting
  <2> QED
    BY <2>1 DEF Nothing
<1>7. CASE ReadyToSync(s, f, d, t, o)
  <2>1. ~f.emitted_outcome /\ f.outcome # None /\ f.outbound = << >>
    BY <1>3, <1>7 DEF InitiatorPoll, Answered, Nothing, ReadyToSync
  <2>2. PICK h : h = [g EXCEPT !.emitted_outcome = TRUE]
    OBVIOUS
  <2>3. r = Output(h, "Outcome", f.outcome)
    BY <1>3, <2>1, <2>2 DEF InitiatorPoll
  <2>4. r.flow = h /\ r.out = [kind |-> "Outcome", value |-> f.outcome]
    BY <2>3 DEF Output
  <2>5. /\ ToldBy(<< >>, r.out) = <<f.outcome>> /\ (\A b : BridgedBy(b, r.out) = b)
        /\ WrittenBy(o, r.out) = o
    BY ONLY <2>4, OutcomeIs
  <2>6. t = << >> /\ f.outcome = InitiatorVerdict(s)
    BY <1>7, <2>1 DEF Answered, ReadyToSync
  <2>7. /\ h \in InitiatorFlow /\ h.state = "ReadyToSync" /\ h.outbound = << >>
        /\ h.outcome = f.outcome /\ h.emitted_outcome
    BY <1>4, <1>7, <2>2 DEF InitiatorFlow, ReadyToSync
  <2>8. Answered(h, ToldBy(t, r.out), InitiatorVerdict(s))
    BY <2>5, <2>6, <2>7 DEF Answered
  <2>9. ReadyToSync(s, h, d, ToldBy(t, r.out), o)
    BY <1>7, <2>7, <2>8 DEF ReadyToSync
  <2> QED
    BY <2>4, <2>5, <2>7, <2>9 DEF InitiatorInv
<1>8. CASE Synchronizes(s, f, d, t, o)
  <2>0. f.outbound # << >>
    <3> SUFFICES ASSUME f.outbound = << >> PROVE FALSE
      OBVIOUS
    <3>1. r = Nothing(g)
      BY <1>3, <1>8 DEF InitiatorPoll, Synchronizes
    <3> QED
      BY <3>1 DEF Nothing
  <2>1. /\ f.state = "SyncPending" /\ f.outbound = EncodeFrame(Sync)
        /\ o = EncodeFrame(InitiatorRequest)
    BY <1>8, <2>0 DEF Synchronizes
  <2>2. r = Output(g, "Outbound", EncodeFrame(Sync))
    BY <1>3, <2>0, <2>1 DEF InitiatorPoll
  <2>3. r.flow = g /\ r.out = [kind |-> "Outbound", value |-> EncodeFrame(Sync)]
    BY <2>2 DEF Output
  <2>4. ToldBy(t, r.out) = t /\ (\A b : BridgedBy(b, r.out) = b) /\ WrittenBy(o, r.out) = o \o EncodeFrame(Sync)
    BY ONLY <1>1, <2>3, OutboundIs
  <2>5. Synchronizes(s, g, d, t, o \o EncodeFrame(Sync))
    BY <1>4, <1>8, <2>1 DEF Synchronizes
  <2> QED
    BY <1>4, <2>3, <2>4, <2>5 DEF InitiatorInv
<1> QED
  BY <1>5, <1>6, <1>7, <1>8 DEF InitiatorInv

\* send_sync
LEMMA InitiatorSyncs ==
    ASSUME NEW s, NEW f, NEW w, NEW t, NEW o, t # << >>,
           InitiatorInv(s, f, w, FALSE, None, t, o), NEW r, r = SendSync(f),
           NEW d, d = [call |-> "SendSync", addrs |-> {}]
    PROVE  r.ok \in BOOLEAN /\ InitiatorInv(s, r.flow, w, ~r.ok, d, t, o)
<1>1. f \in InitiatorFlow /\ ReadyToSync(s, f, None, t, o)
  BY FlowsAbsentAssumption DEF InitiatorInv, Synchronizes, Unasked, Waiting
<1>2. PICK e \in Seq(Units) : e = EncodeFrame(Sync)
  BY InitiatorWrites, FrameIs
<1>3. << >> \o e = e
  BY ConcatEmptySeq
<1>6. PICK h : h = [f EXCEPT !.outbound = e, !.state = "SyncPending"]
  OBVIOUS
<1>7. r.flow = h /\ r.ok = TRUE
  <2>1. r = Ok([f EXCEPT !.outbound = @ \o EncodeFrame(Sync), !.state = "SyncPending"])
    BY <1>1 DEF SendSync, ReadyToSync, Sync
  <2>2. f.outbound = << >>
    BY <1>1 DEF ReadyToSync, Answered
  <2> QED
    BY <1>2, <1>3, <1>6, <2>1, <2>2 DEF Ok
<1>8. /\ h \in InitiatorFlow /\ h.outbound = e /\ h.state = "SyncPending"
      /\ h.emitted_outcome = f.emitted_outcome
  BY <1>1, <1>6 DEF InitiatorFlow, InitiatorState
<1>9. d \in Decisions
  BY DEF Decisions
<1>10. /\ f.emitted_outcome /\ t = <<InitiatorVerdict(s)>> /\ Right("initiator", s)
       /\ o = EncodeFrame(InitiatorRequest)
  BY <1>1 DEF ReadyToSync, Answered
<1>11. Synchronizes(s, h, d, t, o)
  BY <1>2, <1>8, <1>9, <1>10 DEF Synchronizes
<1> QED
  BY <1>7, <1>8, <1>11 DEF InitiatorInv

-----------------------------------------------------------------------------
(* AutoNatClient                                                           *)

Reachabilities == [kind : {"Public", "Private", "Unknown"}, addrs : AddrSets]

ClientFlow ==
    [outbound : Seq(Units), recv_buf : Seq(Units), state : ClientState,
     outcome : {None} \cup Reachabilities, emitted_outcome : BOOLEAN]

ClientRequest == Dial(Ours, OurAddrs)
ClientVerdict(s) == Reachability(s.frames[1].body.status, s.frames[1].body.addrs)

ClientInv(s, f, w, fl, t, o) ==
    /\ f \in ClientFlow
    /\ ~fl => \/ Unasked(s, f, w, t, o, ClientRequest)
              \/ Waiting(s, f, w, t, o, ClientRequest, "AwaitingResponse")
              \/ /\ f.state = "Done" /\ Right("client", s) /\ o = EncodeFrame(ClientRequest)
                 /\ Answered(f, t, ClientVerdict(s))
    /\ fl => Wrong("client", s) /\ t = << >> /\ o = EncodeFrame(ClientRequest)

\* The message it writes, and what the answer means.
LEMMA ClientWrites ==
    /\ ClientRequest \in Messages
    /\ \A body \in [status : Statuses, addrs : {OurAddrs}] :
         Reachability(body.status, body.addrs) \in Reachabilities
<1>1. OurAddrs \in AddrSets /\ {} \in AddrSets /\ Ours \in Peers
  BY FlowsAssumption DEF OurAddrs, AddrSets, Ours
<1>2. ClientRequest \in Messages
  BY <1>1, MessagesAre DEF ClientRequest
<1>3. ASSUME NEW body \in [status : Statuses, addrs : {OurAddrs}]
      PROVE  Reachability(body.status, body.addrs) \in Reachabilities
  <2>1. PICK status \in Statuses, A \in AddrSets : status = body.status /\ A = body.addrs
    BY <1>1
  <2>2. Reachability(status, A) \in Reachabilities
    BY <1>1 DEF Reachability, Reachabilities, Statuses
  <2> QED
    BY <2>1, <2>2
<1> QED
  BY <1>2, <1>3

\* try_decode_response
LEMMA ClientDecodes ==
    ASSUME NEW s, SentOK("client", s), NEW f \in ClientFlow, NEW w \in Seq(Units),
           NEW t, NEW o, Waiting(s, f, w, t, o, ClientRequest, "AwaitingResponse"),
           NEW r, r = ClientDecode(f)
    PROVE  r.ok \in BOOLEAN /\ ClientInv(s, r.flow, w, ~r.ok, t, o)
<1>1. PICK m : /\ Sends(s, m) /\ (Right("client", s) <=> m.kind = "DIAL_RESPONSE" /\ m.body # None)
               /\ Right("client", s) => m.body \in [status : Statuses, addrs : {OurAddrs}]
  BY OneSent DEF Kinds
<1>2. PICK buf \in Seq(Units) : buf = f.recv_buf /\ buf \o w = Stream(s)
  BY DEF Waiting, ClientFlow
<1>3. /\ Sees(buf, w, m, Data(1, s.data))
      /\ Len(buf) > MaxSize => ~(Len(s.frames) * FrameLen + s.data <= MaxSize)
  BY ONLY <1>1, <1>2, buf \in Seq(Units), w \in Seq(Units), OneSeen
<1>4. s.frames[1] = m
  BY <1>1 DEF Sends
<1>a. PICK g : g = [f EXCEPT !.recv_buf = RestOf(@)]
  OBVIOUS
<1>b. RestOf(buf) \in Seq(Units) => /\ g \in ClientFlow /\ g.outbound = << >> /\ g.outcome = None
                                    /\ ~g.emitted_outcome /\ [g EXCEPT !.state = "Done"] \in ClientFlow
  BY <1>2, <1>a DEF ClientFlow, ClientState, Waiting
<1>c. ASSUME NEW h \in ClientFlow, Wrong("client", s)
      PROVE  ClientInv(s, h, w, TRUE, t, o)
  BY <1>c DEF ClientInv, Waiting
<1>5. CASE Decode(buf) = "Incomplete"
  <2>1. r.flow = f /\ r.ok = TRUE
    BY <1>2, <1>5 DEF ClientDecode, Ok
  <2> QED
    BY <2>1 DEF ClientInv
<1>6. CASE Decode(buf) \in {"MessageTooLarge", "Malformed"}
  <2>1. (r.flow = f \/ (r.flow = g /\ DecodeFrame(buf) = "Complete")) /\ r.ok = FALSE
    BY <1>2, <1>6, <1>a DEF ClientDecode, Waiting, Err
  <2>2. r.flow \in ClientFlow
    BY <1>3, <1>b, <2>1 DEF Sees
  <2>3. Wrong("client", s)
    BY <1>1, <1>3, <1>6 DEF Wrong, Sees
  <2> QED
    BY <1>c, <2>1, <2>2, <2>3
<1>7. CASE Decode(buf) = "Complete"
  <2>1. FrontOf(buf) = m /\ RestOf(buf) \in Seq(Units)
    BY <1>3, <1>7 DEF Sees
  <2>4. CASE m.kind # "DIAL_RESPONSE" \/ m.body = None
    <3>1. (r.flow = g \/ r.flow = [g EXCEPT !.state = "Done"]) /\ r.ok = FALSE
      BY <1>2, <1>7, <1>a, <2>1, <2>4 DEF ClientDecode, Waiting, Err
    <3>2. r.flow \in ClientFlow
      BY <1>b, <2>1, <3>1
    <3>3. Wrong("client", s)
      BY <1>1, <2>4 DEF Wrong
    <3> QED
      BY <1>c, <3>1, <3>2, <3>3
  <2>5. CASE m.kind = "DIAL_RESPONSE" /\ m.body # None
    <3>1. PICK h : h = [g EXCEPT !.state = "Done",
                                 !.outcome = Reachability(m.body.status, m.body.addrs)]
      OBVIOUS
    <3>2. r.flow = h /\ r.ok = TRUE
      BY <1>2, <1>7, <1>a, <2>1, <2>5, <3>1 DEF ClientDecode, Waiting, Ok
    <3>a. Reachability(m.body.status, m.body.addrs) \in Reachabilities
      BY <1>1, <2>5, ClientWrites
    <3>3. /\ h \in ClientFlow /\ h.state = "Done" /\ h.outbound = << >>
          /\ h.outcome = ClientVerdict(s) /\ ~h.emitted_outcome
      BY <1>4, <1>b, <2>1, <3>1, <3>a DEF ClientFlow, ClientState, ClientVerdict
    <3>4. Answered(h, t, ClientVerdict(s)) /\ o = EncodeFrame(ClientRequest)
      BY <3>3 DEF Answered, Waiting
    <3> QED
      BY <1>1, <2>5, <3>2, <3>3, <3>4 DEF ClientInv
  <2> QED
    BY <2>4, <2>5
<1> QED
  BY <1>3, <1>5, <1>6, <1>7 DEF Sees

\* Any of its states, once asked, when units arrive.
LEMMA ClientArrives ==
    ASSUME NEW s, SentOK("client", s), NEW f, NEW w \in Seq(Units), NEW t, NEW o, o # << >>,
           ClientInv(s, f, w, FALSE, t, o), NEW n \in 1 .. Len(w),
           NEW a, a = SubSeq(w, 1, n), NEW z, z = SubSeq(w, n + 1, Len(w)),
           NEW r, r = ClientData(f, a)
    PROVE  r.ok \in BOOLEAN /\ ClientInv(s, r.flow, z, ~r.ok, t, o)
<1>1. f \in ClientFlow
  BY DEF ClientInv
<1>2. CASE Waiting(s, f, w, t, o, ClientRequest, "AwaitingResponse")
  <2>1. PICK buf \in Seq(Units) : buf = f.recv_buf
    BY <1>1 DEF ClientFlow
  <2>2. PICK b2 : b2 = buf \o a
    OBVIOUS
  <2>a. Moves(buf, w, a, b2, z)
    BY ONLY <2>2, buf \in Seq(Units), w \in Seq(Units), n \in 1 .. Len(w), a = SubSeq(w, 1, n),
       z = SubSeq(w, n + 1, Len(w)), Arrive
  <2>3. z \in Seq(Units) /\ b2 \in Seq(Units) /\ b2 \o z = buf \o w
    BY <2>a DEF Moves
  <2>4. PICK g : g = [f EXCEPT !.recv_buf = b2]
    OBVIOUS
  <2>5. g \in ClientFlow /\ Waiting(s, g, z, t, o, ClientRequest, "AwaitingResponse")
    BY <1>1, <1>2, <2>1, <2>3, <2>4 DEF ClientFlow, Waiting
  <2>6. r = ClientDecode(g)
    BY <1>2, <2>1, <2>2, <2>4 DEF ClientData, Waiting
  <2> QED
    BY ONLY <2>3, <2>5, <2>6, SentOK("client", s), ClientDecodes
<1>3. CASE f.state = "Done" /\ Right("client", s) /\ o = EncodeFrame(ClientRequest)
           /\ Answered(f, t, ClientVerdict(s))
  <2>1. r.flow = f /\ r.ok = TRUE
    BY <1>3 DEF ClientData, Ok
  <2>2. ClientInv(s, f, z, FALSE, t, o)
    BY <1>1, <1>3 DEF ClientInv
  <2> QED
    BY <2>1, <2>2
<1> QED
  BY <1>2, <1>3 DEF ClientInv, Unasked

\* poll_output
LEMMA ClientPolls ==
    ASSUME NEW s, NEW f, NEW w, NEW t, NEW o, ClientInv(s, f, w, FALSE, t, o),
           SentOK("client", s), NEW r, r = ClientPoll(f), r.out # None
    PROVE  /\ ClientInv(s, r.flow, w, FALSE, ToldBy(t, r.out), WrittenBy(o, r.out))
           /\ (\A b : BridgedBy(b, r.out) = b)
<1>1. f \in ClientFlow /\ ClientRequest \in Messages
  BY ClientWrites DEF ClientInv
<1>3. PICK g : g = [f EXCEPT !.outbound = << >>,
                             !.state = IF @ = "Pending" THEN "AwaitingResponse" ELSE @]
  OBVIOUS
<1>4. /\ g \in ClientFlow /\ g.outbound = << >> /\ g.recv_buf = f.recv_buf
      /\ g.outcome = f.outcome /\ g.emitted_outcome = f.emitted_outcome
      /\ g.state = IF f.state = "Pending" THEN "AwaitingResponse" ELSE f.state
  <2>1. << >> \in Seq(Units)
    BY EmptySeq
  <2> QED
    BY <1>1, <1>3, <2>1 DEF ClientFlow, ClientState
<1>5. CASE Unasked(s, f, w, t, o, ClientRequest)
  <2>1. EncodeFrame(ClientRequest) # << >>
    BY <1>1, FrameIs
  <2>2. r = Output(g, "Outbound", EncodeFrame(ClientRequest))
    BY <1>3, <1>5, <2>1 DEF ClientPoll, Unasked
  <2>3. r.flow = g /\ r.out = [kind |-> "Outbound", value |-> EncodeFrame(ClientRequest)]
    BY <2>2 DEF Output
  <2>4. /\ ToldBy(t, r.out) = t /\ (\A b : BridgedBy(b, r.out) = b)
        /\ WrittenBy(<< >>, r.out) = EncodeFrame(ClientRequest)
    BY ONLY <1>1, <2>3, OutboundIs
  <2>5. << >> \o Stream(s) = Stream(s)
    <3>1. Stream(s) \in Seq(Units)
      BY OneSent, StreamOfOne DEF Kinds
    <3> QED
      BY ONLY <3>1, ConcatEmptySeq
  <2>6. Waiting(s, g, w, t, EncodeFrame(ClientRequest), ClientRequest, "AwaitingResponse")
    BY <1>4, <1>5, <2>5 DEF Waiting, Unasked
  <2>7. WrittenBy(o, r.out) = EncodeFrame(ClientRequest)
    BY <1>5, <2>4 DEF Unasked
  <2> QED
    BY ONLY <1>4, <2>3, <2>4, <2>6, <2>7 DEF ClientInv
<1>6. CASE Waiting(s, f, w, t, o, ClientRequest, "AwaitingResponse")
  <2>1. r = Nothing(g)
    BY <1>3, <1>6 DEF ClientPoll, Waiting
  <2> QED
    BY <2>1 DEF Nothing
<1>7. CASE f.state = "Done" /\ Right("client", s) /\ o = EncodeFrame(ClientRequest)
           /\ Answered(f, t, ClientVerdict(s))
  <2>1. ~f.emitted_outcome /\ f.outcome # None /\ f.outbound = << >>
    BY <1>3, <1>7 DEF ClientPoll, Answered, Nothing
  <2>2. PICK h : h = [g EXCEPT !.emitted_outcome = TRUE]
    OBVIOUS
  <2>3. r = Output(h, "Outcome", f.outcome)
    BY <1>3, <2>1, <2>2 DEF ClientPoll
  <2>4. r.flow = h /\ r.out = [kind |-> "Outcome", value |-> f.outcome]
    BY <2>3 DEF Output
  <2>5. /\ ToldBy(<< >>, r.out) = <<f.outcome>> /\ (\A b : BridgedBy(b, r.out) = b)
        /\ WrittenBy(o, r.out) = o
    BY ONLY <2>4, OutcomeIs
  <2>6. t = << >> /\ f.outcome = ClientVerdict(s)
    BY <1>7, <2>1 DEF Answered
  <2>7. /\ h \in ClientFlow /\ h.state = "Done" /\ h.outbound = << >>
        /\ h.outcome = f.outcome /\ h.emitted_outcome
    BY <1>4, <1>7, <2>2 DEF ClientFlow
  <2>8. Answered(h, ToldBy(t, r.out), ClientVerdict(s))
    BY <2>5, <2>6, <2>7 DEF Answered
  <2> QED
    BY <1>7, <2>4, <2>5, <2>7, <2>8 DEF ClientInv
<1> QED
  BY <1>5, <1>6, <1>7 DEF ClientInv

-----------------------------------------------------------------------------
(* AutoNatServer                                                           *)

ServerFlow ==
    [outbound : Seq(Units), recv_buf : Seq(Units), state : ServerState,
     request : {None} \cup DialBodies, emitted_request : BOOLEAN]

ServerStatus(s, d) ==
    CASE s.frames[1].body.peer # Ours -> "BadRequest"
      [] s.frames[1].body.peer = Ours /\ d.addrs = {} -> "DialError"
      [] OTHER -> "Ok"

ServerReply(s, d) == DialResponse(ServerStatus(s, d), d.addrs)

\* The request is not there yet.
ServerWaits(s, f, w, d, t, o) ==
    /\ f.state = "AwaitingRequest" /\ f.outbound = << >> /\ f.request = None /\ ~f.emitted_request
    /\ f.recv_buf \o w = Stream(s)
    /\ d = None /\ t = << >> /\ o = << >>

\* It waits for the host.
ServerAsks(s, f, d, t, o) ==
    /\ f.state = "RequestReady" /\ f.outbound = << >> /\ Right("server", s)
    /\ s.frames[1].body \in [peer : Peers, addrs : {OurAddrs}]
    /\ f.request = s.frames[1].body
    /\ t = IF f.emitted_request THEN <<s.frames[1].body>> ELSE << >>
    /\ d = None /\ o = << >>

\* The host has answered.
ServerDecided(s, f, d, t, o) ==
    /\ f.state = "Done" /\ Right("server", s) /\ f.emitted_request /\ d \in Decisions
    /\ t = <<s.frames[1].body>> /\ Replies(f, o, ServerReply(s, d))

ServerInv(s, f, w, fl, d, t, o) ==
    /\ f \in ServerFlow
    /\ ~fl => \/ ServerWaits(s, f, w, d, t, o)
              \/ ServerAsks(s, f, d, t, o)
              \/ ServerDecided(s, f, d, t, o)
    /\ fl => Wrong("server", s) /\ d = None /\ t = << >> /\ o = << >>

\* The reply is a message.
LEMMA ServerReplyIs == \A s : \A d \in Decisions : ServerReply(s, d) \in Messages
<1> SUFFICES ASSUME NEW s, NEW d \in Decisions PROVE ServerReply(s, d) \in Messages
  OBVIOUS
<1>1. ServerStatus(s, d) \in Statuses
  BY DEF ServerStatus, Statuses
<1>2. d.addrs \in AddrSets
  BY DEF Decisions, OurAddrs, AddrSets
<1> QED
  BY <1>1, <1>2, MessagesAre DEF ServerReply

\* try_decode_request
LEMMA ServerDecodes ==
    ASSUME NEW s, SentOK("server", s), NEW f \in ServerFlow, NEW w \in Seq(Units), NEW d,
           NEW t, NEW o, ServerWaits(s, f, w, d, t, o), NEW r, r = ServerDecode(f)
    PROVE  r.ok \in BOOLEAN /\ ServerInv(s, r.flow, w, ~r.ok, d, t, o)
<1>1. PICK m : /\ Sends(s, m) /\ (Right("server", s) <=> m.kind = "DIAL" /\ m.body.peer # None)
               /\ Right("server", s) => m.body \in [peer : Peers, addrs : {OurAddrs}]
  BY OneSent DEF Kinds
<1>2. PICK buf \in Seq(Units) : buf = f.recv_buf /\ buf \o w = Stream(s)
  BY DEF ServerWaits, ServerFlow
<1>3. /\ Sees(buf, w, m, Data(1, s.data))
      /\ Len(buf) > MaxSize => ~(Len(s.frames) * FrameLen + s.data <= MaxSize)
  BY ONLY <1>1, <1>2, buf \in Seq(Units), w \in Seq(Units), OneSeen
<1>4. s.frames[1] = m
  BY <1>1 DEF Sends
<1>a. PICK g : g = [f EXCEPT !.recv_buf = RestOf(@)]
  OBVIOUS
<1>b. RestOf(buf) \in Seq(Units) => /\ g \in ServerFlow /\ g.outbound = << >>
                                    /\ [g EXCEPT !.state = "Done"] \in ServerFlow
  BY <1>2, <1>a DEF ServerFlow, ServerState, ServerWaits
<1>c. ASSUME NEW h \in ServerFlow, Wrong("server", s)
      PROVE  ServerInv(s, h, w, TRUE, d, t, o)
  BY <1>c DEF ServerInv, ServerWaits
<1>5. CASE Decode(buf) = "Incomplete"
  <2>1. r.flow = f /\ r.ok = TRUE
    BY <1>2, <1>5 DEF ServerDecode, Ok
  <2> QED
    BY <2>1 DEF ServerInv
<1>6. CASE Decode(buf) \in {"MessageTooLarge", "Malformed"}
  <2>1. (r.flow = f \/ (r.flow = g /\ DecodeFrame(buf) = "Complete")) /\ r.ok = FALSE
    BY <1>2, <1>6, <1>a DEF ServerDecode, Err
  <2>2. r.flow \in ServerFlow
    BY <1>3, <1>b, <2>1 DEF Sees
  <2>3. Wrong("server", s)
    BY <1>1, <1>3, <1>6 DEF Wrong, Sees
  <2> QED
    BY <1>c, <2>1, <2>2, <2>3
<1>7. CASE Decode(buf) = "Complete"
  <2>1. FrontOf(buf) = m /\ RestOf(buf) \in Seq(Units)
    BY <1>3, <1>7 DEF Sees
  <2>4. CASE m.kind # "DIAL" \/ m.body.peer = None
    <3>1. (r.flow = g \/ r.flow = [g EXCEPT !.state = "Done"]) /\ r.ok = FALSE
      BY <1>2, <1>7, <1>a, <2>1, <2>4 DEF ServerDecode, Err
    <3>2. r.flow \in ServerFlow
      BY <1>b, <2>1, <3>1
    <3>3. Wrong("server", s)
      BY <1>1, <2>4 DEF Wrong
    <3> QED
      BY <1>c, <3>1, <3>2, <3>3
  <2>5. CASE m.kind = "DIAL" /\ m.body.peer # None
    <3>1. PICK h : h = [g EXCEPT !.request = m.body, !.emitted_request = FALSE,
                                 !.state = "RequestReady"]
      OBVIOUS
    <3>2. r.flow = h /\ r.ok = TRUE
      BY <1>2, <1>7, <1>a, <2>1, <2>5, <3>1 DEF ServerDecode, Ok
    <3>a. m.body \in [peer : Peers, addrs : {OurAddrs}] /\ m.body \in DialBodies
      BY <1>1, <2>5 DEF DialBodies, AddrSets, OurAddrs
    <3>3. /\ h \in ServerFlow /\ h.state = "RequestReady" /\ h.outbound = << >>
          /\ h.request = m.body /\ ~h.emitted_request
      BY <1>b, <2>1, <3>1, <3>a DEF ServerFlow, ServerState
    <3>4. ServerAsks(s, h, d, t, o)
      BY <1>1, <1>4, <2>5, <3>3, <3>a DEF ServerAsks, ServerWaits
    <3> QED
      BY <3>2, <3>3, <3>4 DEF ServerInv
  <2> QED
    BY <2>4, <2>5
<1> QED
  BY <1>3, <1>5, <1>6, <1>7 DEF Sees

\* Units arrive.
LEMMA ServerArrives ==
    ASSUME NEW s, SentOK("server", s), NEW f, NEW w \in Seq(Units), NEW d, NEW t, NEW o,
           ServerInv(s, f, w, FALSE, d, t, o), NEW n \in 1 .. Len(w),
           NEW a, a = SubSeq(w, 1, n), NEW z, z = SubSeq(w, n + 1, Len(w)),
           NEW r, r = ServerData(f, a)
    PROVE  r.ok \in BOOLEAN /\ ServerInv(s, r.flow, z, ~r.ok, d, t, o)
<1>1. f \in ServerFlow
  BY DEF ServerInv
<1>2. CASE ServerWaits(s, f, w, d, t, o)
  <2>1. PICK buf \in Seq(Units) : buf = f.recv_buf
    BY <1>1 DEF ServerFlow
  <2>2. PICK b2 : b2 = buf \o a
    OBVIOUS
  <2>a. Moves(buf, w, a, b2, z)
    BY ONLY <2>2, buf \in Seq(Units), w \in Seq(Units), n \in 1 .. Len(w), a = SubSeq(w, 1, n),
       z = SubSeq(w, n + 1, Len(w)), Arrive
  <2>3. z \in Seq(Units) /\ b2 \in Seq(Units) /\ b2 \o z = buf \o w
    BY <2>a DEF Moves
  <2>4. PICK g : g = [f EXCEPT !.recv_buf = b2]
    OBVIOUS
  <2>5. g \in ServerFlow /\ ServerWaits(s, g, z, d, t, o)
    BY <1>1, <1>2, <2>1, <2>3, <2>4 DEF ServerFlow, ServerWaits
  <2>6. r = ServerDecode(g)
    BY <1>2, <2>1, <2>2, <2>4 DEF ServerData, ServerWaits
  <2> QED
    BY ONLY <2>3, <2>5, <2>6, SentOK("server", s), ServerDecodes
<1>3. CASE ServerAsks(s, f, d, t, o) \/ ServerDecided(s, f, d, t, o)
  <2>1. r.flow = f /\ r.ok = TRUE
    BY <1>3 DEF ServerData, Ok, ServerAsks, ServerDecided
  <2>2. ServerInv(s, f, z, FALSE, d, t, o)
    BY <1>1, <1>3 DEF ServerInv
  <2> QED
    BY <2>1, <2>2
<1> QED
  BY <1>2, <1>3 DEF ServerInv

\* poll_output
LEMMA ServerPolls ==
    ASSUME NEW s, NEW f, NEW w, NEW d, NEW t, NEW o, ServerInv(s, f, w, FALSE, d, t, o),
           NEW r, r = ServerPoll(f), r.out # None
    PROVE  /\ ServerInv(s, r.flow, w, FALSE, d, ToldBy(t, r.out), WrittenBy(o, r.out))
           /\ (\A b : BridgedBy(b, r.out) = b)
<1>1. f \in ServerFlow
  BY DEF ServerInv
<1>2. CASE f.request # None /\ ~f.emitted_request
  <2>1. ServerAsks(s, f, d, t, o)
    BY <1>2 DEF ServerInv, ServerWaits, ServerDecided
  <2>2. PICK h : h = [f EXCEPT !.emitted_request = TRUE]
    OBVIOUS
  <2>3. r = Output(h, "Request", f.request)
    BY <1>2, <2>2 DEF ServerPoll
  <2>4. r.flow = h /\ r.out = [kind |-> "Request", value |-> f.request]
    BY <2>3 DEF Output
  <2>5. /\ ToldBy(<< >>, r.out) = <<f.request>> /\ (\A b : BridgedBy(b, r.out) = b)
        /\ WrittenBy(o, r.out) = o
    BY ONLY <2>4, OutcomeIs
  <2>6. t = << >> /\ f.request = s.frames[1].body
    BY <1>2, <2>1 DEF ServerAsks
  <2>7. /\ h \in ServerFlow /\ h.state = f.state /\ h.outbound = f.outbound
        /\ h.request = f.request /\ h.emitted_request
    BY <1>1, <2>2 DEF ServerFlow
  <2>8. ServerAsks(s, h, d, ToldBy(t, r.out), o)
    BY <2>1, <2>5, <2>6, <2>7 DEF ServerAsks
  <2> QED
    BY <2>4, <2>5, <2>7, <2>8 DEF ServerInv
<1>3. CASE f.request = None \/ f.emitted_request
  <2>0. f.outbound # << >>
    <3> SUFFICES ASSUME f.outbound = << >> PROVE FALSE
      OBVIOUS
    <3>1. r = Nothing(f)
      BY <1>3 DEF ServerPoll
    <3> QED
      BY <3>1 DEF Nothing
  <2>1. ServerDecided(s, f, d, t, o)
    BY <2>0 DEF ServerInv, ServerWaits, ServerAsks
  <2>2. f.outbound = EncodeFrame(ServerReply(s, d)) /\ o = << >>
    BY <2>0, <2>1 DEF ServerDecided, Replies
  <2>3. PICK h : h = [f EXCEPT !.outbound = << >>]
    OBVIOUS
  <2>4. r = Output(h, "Outbound", f.outbound)
    BY <1>3, <2>0, <2>3 DEF ServerPoll
  <2>5. r.flow = h /\ r.out = [kind |-> "Outbound", value |-> EncodeFrame(ServerReply(s, d))]
    BY <2>2, <2>4 DEF Output
  <2>6. PICK m \in Messages : m = ServerReply(s, d)
    BY <2>1, ServerReplyIs DEF ServerDecided
  <2>7. /\ ToldBy(t, r.out) = t /\ (\A b : BridgedBy(b, r.out) = b)
        /\ WrittenBy(<< >>, r.out) = EncodeFrame(m)
    BY ONLY <2>5, <2>6, m \in Messages, OutboundIs
  <2>8. /\ h \in ServerFlow /\ h.state = f.state /\ h.outbound = << >>
        /\ h.emitted_request = f.emitted_request
    <3>1. << >> \in Seq(Units)
      BY EmptySeq
    <3> QED
      BY <1>1, <2>3, <3>1 DEF ServerFlow
  <2>9. ServerDecided(s, h, d, t, EncodeFrame(m))
    BY <2>1, <2>6, <2>8 DEF ServerDecided, Replies
  <2> QED
    BY <2>2, <2>5, <2>7, <2>8, <2>9 DEF ServerInv
<1> QED
  BY <1>2, <1>3

\* respond, as handle_autonat_request calls it
LEMMA ServerResponds ==
    ASSUME NEW s, NEW f, NEW w, NEW t, NEW o, t # << >>, ServerInv(s, f, w, FALSE, None, t, o),
           NEW A, NEW status,
           \/ t[1].peer # Ours /\ status = "BadRequest" /\ A = {}
           \/ /\ t[1].peer = Ours /\ A \subseteq t[1].addrs
              /\ status = IF A = {} THEN "DialError" ELSE "Ok",
           NEW r, r = Ok(Respond(f, status, A)), NEW d, d = [call |-> "Respond", addrs |-> A]
    PROVE  r.ok \in BOOLEAN /\ ServerInv(s, r.flow, w, ~r.ok, d, t, o)
<1>1. f \in ServerFlow /\ ServerAsks(s, f, None, t, o)
  BY FlowsAbsentAssumption DEF ServerInv, ServerDecided, ServerWaits
<1>2. f.emitted_request /\ t = <<s.frames[1].body>> /\ o = << >> /\ Right("server", s)
  BY <1>1 DEF ServerAsks
<1>3. t[1] = s.frames[1].body /\ t[1].addrs = OurAddrs
  BY <1>1, <1>2 DEF ServerAsks
<1>4. A \in SUBSET OurAddrs
  BY <1>3
<1>5. d \in Decisions /\ d.addrs = A
  BY <1>4 DEF Decisions
<1>6. ServerStatus(s, d) = status
  BY <1>3, <1>5 DEF ServerStatus
<1>7. PICK e \in Seq(Units) : e = EncodeFrame(ServerReply(s, d))
  BY <1>5, ServerReplyIs, FrameIs
<1>8. DialResponse(status, A) = ServerReply(s, d)
  BY <1>5, <1>6 DEF ServerReply
<1>9. PICK h : h = [f EXCEPT !.outbound = e, !.state = "Done"]
  OBVIOUS
<1>10. r.flow = h /\ r.ok = TRUE
  BY <1>7, <1>8, <1>9 DEF Ok, Respond
<1>11. /\ h \in ServerFlow /\ h.outbound = e /\ h.state = "Done"
       /\ h.emitted_request = f.emitted_request
  BY <1>1, <1>9 DEF ServerFlow, ServerState
<1>12. ServerDecided(s, h, d, t, o)
  BY <1>2, <1>5, <1>7, <1>11 DEF ServerDecided, Replies
<1> QED
  BY <1>10, <1>11, <1>12 DEF ServerInv

-----------------------------------------------------------------------------
(* DcutrResponder                                                          *)

\* The one or two frames that an initiator sends, with m in front.
Initiates(s, m, after) ==
    /\ m \in Messages /\ after \in Seq(Units) /\ s.data \in Nat
    /\ s.frames[1] = m /\ Stream(s) = EncodeFrame(m) \o after /\ Stream(s) \in Seq(Units)
    /\ Len(Stream(s)) = Len(s.frames) * FrameLen + s.data
    /\ m.kind # "CONNECT" => ~Right("responder", s) /\ Len(s.frames) = 1
    /\ m.kind = "CONNECT" =>
         /\ Len(s.frames) = 2 /\ m.body \in SUBSET Addrs /\ s.frames[2] \in Messages
         /\ Data(1, s.data) \in Seq(Units)
         /\ after = EncodeFrame(s.frames[2]) \o Data(1, s.data)
         /\ Len(after) = FrameLen + s.data
         /\ Right("responder", s) <=> s.frames[2].kind = "SYNC"

\* Every remote does one or the other.
LEMMA ResponderSent ==
    ASSUME NEW s, SentOK("responder", s)
    PROVE  \E m, after : Initiates(s, m, after)
<1>1. RightFrames("responder") = {<<m, Message("SYNC", {})>> : m \in Connect}
  BY DEF RightFrames
<1>2. WrongFrames("responder") =
        {<<m>> : m \in Bad} \cup
        ({<<Message("SYNC", {})>>} \cup {<<m, n>> : m \in Connect, n \in Connect \cup Bad})
  BY DEF WrongFrames
<1>3. /\ \A m \in Bad : m.kind \in {"malformed", "garbage"} /\ m \in Messages
      /\ \A m \in Connect : m.kind = "CONNECT" /\ m.body \in SUBSET Addrs /\ m \in Messages
      /\ Message("SYNC", {}) \in Messages /\ Message("SYNC", {}).kind = "SYNC"
  <2>1. \A m \in Bad : m.kind \in {"malformed", "garbage"}
    BY DEF Bad, Message
  <2>2. \A m \in Connect : m.kind = "CONNECT" /\ m.body \in SUBSET Addrs
    BY DEF Connect, Message
  <2>3. Message("SYNC", {}).kind = "SYNC"
    BY DEF Message
  <2> QED
    BY <2>1, <2>2, <2>3, MessagesAre
<1>4. FrameLen \in Nat /\ s.data \in Nat /\ s.data \in 0 .. MaxData
  BY FramesAssumption, FlowsAssumption DEF SentOK
<1>5. CASE \E m \in Messages : s.frames = <<m>> /\ m.kind # "CONNECT"
  <2>1. PICK m \in Messages : s.frames = <<m>> /\ m.kind # "CONNECT"
    BY <1>5
  <2>2. Sends(s, m)
    BY <1>4, <2>1 DEF Sends
  <2>3. /\ Stream(s) = EncodeFrame(m) \o Data(1, s.data) /\ Stream(s) \in Seq(Units)
        /\ Len(Stream(s)) = FrameLen + s.data /\ Len(s.frames) = 1 /\ s.frames[1] = m
        /\ Data(1, s.data) \in Seq(Units)
    BY <2>2, StreamOfOne
  <2>4. ~Right("responder", s)
    <3> SUFFICES ASSUME Right("responder", s) PROVE FALSE
      OBVIOUS
    <3>1. PICK l \in Connect : s.frames = <<l, Message("SYNC", {})>>
      BY <1>1 DEF Right
    <3>2. Len(s.frames) = 2
      BY ONLY <3>1
    <3>3. Len(s.frames) = 1
      BY ONLY <2>1
    <3> QED
      BY ONLY <3>2, <3>3
  <2>5. Len(Stream(s)) = Len(s.frames) * FrameLen + s.data
    BY <1>4, <2>3
  <2> QED
    BY <1>4, <2>1, <2>3, <2>4, <2>5 DEF Initiates
<1>6. CASE \E m \in Connect, l \in Messages : s.frames = <<m, l>> /\ (l.kind = "SYNC" <=> l = Message("SYNC", {}))
  <2>1. PICK m \in Connect, l \in Messages :
          s.frames = <<m, l>> /\ (l.kind = "SYNC" <=> l = Message("SYNC", {}))
    BY <1>6
  <2>2. SendsTwo(s, m, l)
    BY <1>3, <1>4, <2>1 DEF SendsTwo
  <2>3. /\ Stream(s) = EncodeFrame(m) \o (EncodeFrame(l) \o Data(1, s.data))
        /\ Stream(s) \in Seq(Units) /\ Len(Stream(s)) = 2 * FrameLen + s.data
        /\ Len(s.frames) = 2 /\ s.frames[1] = m /\ s.frames[2] = l
        /\ Data(1, s.data) \in Seq(Units)
        /\ EncodeFrame(l) \o Data(1, s.data) \in Seq(Units)
        /\ Len(EncodeFrame(l) \o Data(1, s.data)) = FrameLen + s.data
    BY <2>2, StreamOfTwo
  <2>4. Right("responder", s) <=> l.kind = "SYNC"
    <3>1. ASSUME Right("responder", s) PROVE l.kind = "SYNC"
      <4>1. PICK k \in Connect : s.frames = <<k, Message("SYNC", {})>>
        BY <1>1, <3>1 DEF Right
      <4>2. s.frames[2] = Message("SYNC", {})
        BY <4>1
      <4> QED
        BY <1>3, <2>3, <4>2
    <3>2. ASSUME l.kind = "SYNC" PROVE Right("responder", s)
      BY <1>1, <2>1, <3>2 DEF Right
    <3> QED
      BY <3>1, <3>2
  <2>5. PICK after : after = EncodeFrame(l) \o Data(1, s.data)
    OBVIOUS
  <2>6. Initiates(s, m, after)
    BY <1>3, <1>4, <2>1, <2>3, <2>4, <2>5 DEF Initiates
  <2> QED
    BY <2>6
<1>7. CASE s.frames \in RightFrames("responder")
  BY <1>1, <1>3, <1>6, <1>7
<1>8. CASE s.frames \in WrongFrames("responder")
  BY <1>2, <1>3, <1>5, <1>6, <1>8
<1> QED
  BY <1>7, <1>8 DEF SentOK

ResponderEvents == [kind : {"ConnectReceived", "SyncReceived"}, body : AddrSets]

ResponderFlow ==
    [own_addrs : {OurAddrs}, outbound : Seq(Units), recv_buf : Seq(Units),
     state : ResponderState, events : Seq(ResponderEvents)]

ConnectReceived(s) == Message("ConnectReceived", DecodeRemoteAddrs(s.frames[1].body))
SyncReceived == Message("SyncReceived", {})

\* No CONNECT yet.
ResponderWaits(s, f, w, t, o) ==
    /\ f.state = "AwaitingConnect" /\ f.outbound = << >> /\ f.events = << >>
    /\ f.recv_buf \o w = Stream(s) /\ t = << >> /\ o = << >>

\* CONNECT is answered.
ResponderAnswers(s, f, w, t, o) ==
    /\ f.state = "AwaitingSync" /\ s.frames[1].kind = "CONNECT"
    /\ Replies(f, o, InitiatorRequest)
    /\ f.recv_buf \o w = EncodeFrame(s.frames[2]) \o Data(1, s.data)
    /\ \/ t = << >> /\ f.events = <<ConnectReceived(s)>>
       \/ t = <<ConnectReceived(s)>> /\ f.events = << >>

\* SYNC is there.
ResponderEnds(s, f, t, o) ==
    /\ f.state = "Done" /\ Right("responder", s)
    /\ Replies(f, o, InitiatorRequest)
    /\ \/ t = << >> /\ f.events = <<ConnectReceived(s), SyncReceived>>
       \/ t = <<ConnectReceived(s)>> /\ f.events = <<SyncReceived>>
       \/ t = <<ConnectReceived(s), SyncReceived>> /\ f.events = << >>

ResponderInv(s, f, w, fl, t, o) ==
    /\ f \in ResponderFlow
    /\ ~fl => \/ ResponderWaits(s, f, w, t, o)
              \/ ResponderAnswers(s, f, w, t, o)
              \/ ResponderEnds(s, f, t, o)
    /\ fl => /\ Wrong("responder", s) /\ (o = << >> \/ o = EncodeFrame(InitiatorRequest))
             /\ t = << >> \/ (t = <<ConnectReceived(s)>> /\ s.frames[1].kind = "CONNECT")

\* Between two rounds of the loop.
RoundOK(s, q, w, t, o) ==
    /\ q \in [flow : ResponderFlow, ok : BOOLEAN, more : BOOLEAN]
    /\ ResponderInv(s, q.flow, w, ~q.ok, t, o) /\ (q.more => q.ok)

\* Two elements in a row.
LEMMA Pairs ==
    /\ \A x, y : /\ Append(<< >>, y) = <<y>> /\ Append(<<x>>, y) = <<x, y>>
                 /\ Head(<<y>>) = y /\ Tail(<<y>>) = << >>
    /\ \A S : \A x, y \in S : <<y>> \in Seq(S) /\ <<x, y>> \in Seq(S)
<1>1. ASSUME NEW x, NEW y PROVE Append(<<x>>, y) = <<x, y>>
  <2>1. PICK S : S = {x, y}
    OBVIOUS
  <2>2. PICK a : a = Append(<<x>>, y)
    OBVIOUS
  <2>3. a \in Seq(S) /\ Len(a) = 2 /\ a[1] = x /\ a[2] = y
    <3>1. <<x>> \in Seq(S) /\ Len(<<x>>) = 1 /\ <<x>>[1] = x /\ y \in S
      BY <2>1
    <3>2. PICK p : p = <<x>>
      OBVIOUS
    <3>3. p \in Seq(S) /\ Len(p) = 1 /\ p[1] = x /\ y \in S
      BY ONLY <3>1, <3>2
    <3>4. a = Append(p, y)
      BY <2>2, <3>2
    <3>5. a \in Seq(S) /\ Len(a) = Len(p) + 1 /\ a[Len(p) + 1] = y /\ \A i \in 1 .. Len(p) : a[i] = p[i]
      <4>1. /\ Append(p, y) \in Seq(S) /\ Len(Append(p, y)) = Len(p) + 1
            /\ Append(p, y)[Len(p) + 1] = y /\ \A i \in 1 .. Len(p) : Append(p, y)[i] = p[i]
        <5>1. p \in Seq(S)
          BY <3>3
        <5>2. y \in S
          BY <3>3
        <5> QED
          BY ONLY <5>1, <5>2, AppendProperties
      <4> QED
        BY ONLY <3>4, <4>1, Zenon
    <3> QED
      BY ONLY <3>3, <3>5
  <2>4. PICK b : b = <<x, y>>
    OBVIOUS
  <2>b. b \in Seq(S) /\ Len(b) = 2 /\ b[1] = x /\ b[2] = y
    BY <2>1, <2>4
  <2>5. \A i \in 1 .. Len(a) : a[i] = b[i]
    BY ONLY <2>3, <2>b
  <2>6. a = b
    BY ONLY <2>3, <2>b, <2>5, SeqEqual
  <2> QED
    BY ONLY <2>2, <2>4, <2>6
<1>2. ASSUME NEW y PROVE Head(<<y>>) = y /\ Tail(<<y>>) = << >> /\ Append(<< >>, y) = <<y>>
  OBVIOUS
<1>3. ASSUME NEW S, NEW x \in S, NEW y \in S PROVE <<y>> \in Seq(S) /\ <<x, y>> \in Seq(S)
  OBVIOUS
<1> QED
  BY <1>1, <1>2, <1>3

\* A round that is over already changes nothing.
LEMMA RoundOver ==
    ASSUME NEW q, NEW r, r = ResponderRound(q), q.more \in BOOLEAN, ~q.more
    PROVE  r = q
BY ZenonT(60) DEF ResponderRound

\* A buffer that no frame can begin.
LEMMA RoundRefuses ==
    ASSUME NEW q, NEW r, r = ResponderRound(q), q.more \in BOOLEAN, q.more,
           NEW f, f = q.flow, f.state # "Done",
           Decode(f.recv_buf) \in {"MessageTooLarge", "Malformed"}
    PROVE  r = [flow |-> Ended(f), ok |-> FALSE, more |-> FALSE]
BY ZenonT(60) DEF ResponderRound

\* A frame that is there.
LEMMA RoundTakes ==
    ASSUME NEW q, NEW r, r = ResponderRound(q), q.more \in BOOLEAN, q.more,
           q.flow.state # "Done", Decode(q.flow.recv_buf) = "Complete"
    PROVE  r = ResponderTakes(q, FrontOf(q.flow.recv_buf), [q.flow EXCEPT !.recv_buf = RestOf(@)])
BY ZenonT(60) DEF ResponderRound

\* One round: a frame that is there is taken, and answered or refused.
LEMMA ResponderRounds ==
    ASSUME NEW s, SentOK("responder", s), NEW q, NEW w \in Seq(Units), NEW t, NEW o,
           RoundOK(s, q, w, t, o), NEW r, r = ResponderRound(q)
    PROVE  RoundOK(s, r, w, t, o)
<1>1. PICK m, after : Initiates(s, m, after)
  BY ResponderSent
<1>2. PICK f \in ResponderFlow : f = q.flow
  BY DEF RoundOK
<1>3. PICK buf \in Seq(Units) : buf = f.recv_buf
  BY DEF ResponderFlow
<1>4. PICK g : g = [f EXCEPT !.recv_buf = RestOf(@)]
  OBVIOUS
<1>5. RestOf(buf) \in Seq(Units) =>
        /\ g \in ResponderFlow /\ Ended(g) \in ResponderFlow /\ g.recv_buf = RestOf(buf)
        /\ g.outbound = f.outbound /\ g.events = f.events /\ g.own_addrs = OurAddrs
  BY <1>3, <1>4 DEF ResponderFlow, Ended, ResponderState
<1>6. Ended(f) \in ResponderFlow
  BY DEF ResponderFlow, Ended, ResponderState
<1>0. q.more \in BOOLEAN
  BY DEF RoundOK
<1>7. CASE ~q.more
  <2>1. r = q
    BY ONLY <1>0, <1>7, r = ResponderRound(q), RoundOver
  <2> QED
    BY <2>1
<1>8. CASE q.more /\ (f.state = "Done" \/ Decode(buf) = "Incomplete")
  <2>1. r = [flow |-> f, ok |-> TRUE, more |-> FALSE]
    <3>1. q.more
      BY <1>8
    <3>2. CASE f.state = "Done"
      BY ONLY <1>2, <3>1, <3>2, r = ResponderRound(q) DEF ResponderRound
    <3>3. CASE Decode(f.recv_buf) = "Incomplete"
      BY ONLY <1>2, <3>1, <3>3, r = ResponderRound(q) DEF ResponderRound
    <3> QED
      BY <1>3, <1>8, <3>2, <3>3
  <2>2. r.flow = f /\ r.ok = TRUE /\ r.more = FALSE
    BY <2>1
  <2>3. ResponderInv(s, f, w, FALSE, t, o)
    BY <1>2, <1>8 DEF RoundOK
  <2> QED
    BY <2>1, <2>2, <2>3 DEF RoundOK
<1>9. ASSUME NEW h \in ResponderFlow, Wrong("responder", s), r = [flow |-> h, ok |-> FALSE, more |-> FALSE],
             ResponderWaits(s, f, w, t, o) \/ ResponderAnswers(s, f, w, t, o)
      PROVE  RoundOK(s, r, w, t, o)
  <2>1. r.flow = h /\ r.ok = FALSE /\ r.more = FALSE
    BY <1>9
  <2>2. /\ o = << >> \/ o = EncodeFrame(InitiatorRequest)
        /\ t = << >> \/ (t = <<ConnectReceived(s)>> /\ s.frames[1].kind = "CONNECT")
    BY <1>9 DEF ResponderWaits, ResponderAnswers, Replies
  <2>3. ResponderInv(s, h, w, TRUE, t, o)
    BY <1>9, <2>2 DEF ResponderInv
  <2> QED
    BY <1>9, <2>1, <2>3 DEF RoundOK
<1>10. CASE q.more /\ f.state # "Done" /\ Decode(buf) # "Incomplete" /\ ResponderWaits(s, f, w, t, o)
  <2>1. buf \o w = EncodeFrame(m) \o after
    BY <1>1, <1>3, <1>10 DEF ResponderWaits, Initiates
  <2>2. m \in Messages /\ after \in Seq(Units)
    BY <1>1 DEF Initiates
  <2>3. Sees(buf, w, m, after)
    BY ONLY <2>1, <2>2, buf \in Seq(Units), w \in Seq(Units), DecodeSees
  <2>4. Len(buf) > MaxSize => ~(Len(s.frames) * FrameLen + s.data <= MaxSize)
    <3>1. PICK u : u = buf \o w
      OBVIOUS
    <3>2. Len(u) = Len(buf) + Len(w) /\ Len(buf) \in Nat /\ Len(w) \in Nat
      BY ONLY <3>1, buf \in Seq(Units), w \in Seq(Units), Joins
    <3>3. Len(u) = Len(s.frames) * FrameLen + s.data
      BY <1>1, <2>1, <3>1 DEF Initiates
    <3> QED
      BY <3>2, <3>3, FramesAssumption
  <2>5. CASE Decode(buf) \in {"MessageTooLarge", "Malformed"}
    <3>1. r = [flow |-> Ended(f), ok |-> FALSE, more |-> FALSE]
      <4>1. f.state # "Done" /\ q.more /\ Decode(f.recv_buf) \in {"MessageTooLarge", "Malformed"}
        BY <1>3, <1>10, <2>5
      <4> QED
        BY ONLY <1>2, <4>1, <1>0, r = ResponderRound(q), RoundRefuses
    <3>2. Wrong("responder", s)
      BY <1>1, <2>3, <2>4, <2>5 DEF Wrong, Sees, Initiates
    <3> QED
      BY <1>6, <1>9, <1>10, <3>1, <3>2
  <2>6. CASE Decode(buf) = "Complete"
    <3>1. FrontOf(buf) = m /\ RestOf(buf) \in Seq(Units) /\ RestOf(buf) \o w = after
      BY <2>3, <2>6 DEF Sees
    <3>2. CASE m.kind # "CONNECT"
      <4>1. r = [flow |-> Ended(g), ok |-> FALSE, more |-> FALSE]
        <5>1. q.more /\ f.state = "AwaitingConnect" /\ Decode(f.recv_buf) = "Complete"
              /\ m = FrontOf(f.recv_buf)
          BY <1>0, <1>3, <1>10, <2>6, <3>1 DEF ResponderWaits
        <5> QED
          <6>1. f.state # "Done" /\ g.state = "AwaitingConnect"
            BY <5>1, <1>4, <1>5, <3>1 DEF ResponderFlow
          <6>2. r = ResponderTakes(q, m, g)
            BY ONLY <1>0, <1>2, <1>4, <5>1, <6>1, r = ResponderRound(q), RoundTakes
          <6> QED
            BY ONLY <3>2, <6>1, <6>2 DEF ResponderTakes
      <4>2. Wrong("responder", s)
        BY <1>1, <3>2 DEF Wrong, Initiates
      <4> QED
        BY <1>5, <1>9, <1>10, <3>1, <4>1, <4>2
    <3>3. CASE m.kind = "CONNECT"
      <4>1. PICK e \in Seq(Units) : e = EncodeFrame(InitiatorRequest)
        BY InitiatorWrites, FrameIs
      <4>2. PICK x \in ResponderEvents : x = Message("ConnectReceived", DecodeRemoteAddrs(m.body))
        BY <1>1, <3>3 DEF ResponderEvents, Message, DecodeRemoteAddrs, AddrSets, Initiates
      <4>3. PICK h : h = [g EXCEPT
                           !.outbound = @ \o EncodeFrame(Message("CONNECT", f.own_addrs)),
                           !.events = Append(@, Message("ConnectReceived", DecodeRemoteAddrs(m.body))),
                           !.state = "AwaitingSync"]
        OBVIOUS
      <4>4. r = [q EXCEPT !.flow = h]
        <5>1. q.more /\ f.state = "AwaitingConnect" /\ Decode(f.recv_buf) = "Complete"
              /\ m = FrontOf(f.recv_buf)
          BY <1>0, <1>3, <1>10, <2>6, <3>1 DEF ResponderWaits
        <5> QED
          <6>1. f.state # "Done" /\ g.state = "AwaitingConnect" /\ g.own_addrs = f.own_addrs
            BY <5>1, <1>4, <1>5, <3>1 DEF ResponderFlow
          <6>2. r = ResponderTakes(q, m, g)
            BY ONLY <1>0, <1>2, <1>4, <5>1, <6>1, r = ResponderRound(q), RoundTakes
          <6> QED
            BY ONLY <3>3, <4>3, <6>1, <6>2 DEF ResponderTakes
      <4>5. << >> \o e = e /\ Append(<< >>, x) = <<x>> /\ <<x>> \in Seq(ResponderEvents)
        BY <4>1, <4>2, ConcatEmptySeq
      <4>6. f.outbound = << >> /\ f.events = << >> /\ f.own_addrs = OurAddrs /\ t = << >> /\ o = << >>
        BY <1>10 DEF ResponderWaits, ResponderFlow
      <4>7. h = [g EXCEPT !.outbound = e, !.events = <<x>>, !.state = "AwaitingSync"]
        BY <1>5, <3>1, <4>1, <4>2, <4>3, <4>5, <4>6 DEF InitiatorRequest
      <4>8. /\ h \in ResponderFlow /\ h.outbound = e /\ h.events = <<x>> /\ h.state = "AwaitingSync"
            /\ h.recv_buf = RestOf(buf)
        BY <1>5, <3>1, <4>5, <4>7 DEF ResponderFlow, ResponderState
      <4>9. s.frames[1] = m /\ after = EncodeFrame(s.frames[2]) \o Data(1, s.data)
        BY <1>1, <3>3 DEF Initiates
      <4>10. ResponderAnswers(s, h, w, t, o)
        BY <3>1, <3>3, <4>1, <4>2, <4>6, <4>8, <4>9 DEF ResponderAnswers, Replies, ConnectReceived
      <4>11. r.flow = h /\ r.ok = q.ok /\ r.more = q.more
             /\ r \in [flow : ResponderFlow, ok : BOOLEAN, more : BOOLEAN]
        BY <4>4, <4>8 DEF RoundOK
      <4>12. q.ok
        BY <1>10 DEF RoundOK
      <4> QED
        BY <4>8, <4>10, <4>11, <4>12 DEF RoundOK, ResponderInv
    <3> QED
      BY <3>2, <3>3
  <2> QED
    BY <1>10, <2>3, <2>5, <2>6 DEF Sees
<1>11. CASE q.more /\ f.state # "Done" /\ Decode(buf) # "Incomplete" /\ ResponderAnswers(s, f, w, t, o)
  <2>0. PICK l \in Messages, d \in Seq(Units) :
          /\ l = s.frames[2] /\ d = Data(1, s.data) /\ after = EncodeFrame(l) \o d
          /\ Len(after) = FrameLen + s.data /\ Len(s.frames) = 2
          /\ Right("responder", s) <=> l.kind = "SYNC"
    BY <1>1, <1>11 DEF Initiates, ResponderAnswers
  <2>1. buf \o w = EncodeFrame(l) \o d
    BY <1>3, <1>11, <2>0 DEF ResponderAnswers
  <2>3. Sees(buf, w, l, d)
    BY ONLY <2>1, l \in Messages, d \in Seq(Units), buf \in Seq(Units), w \in Seq(Units), DecodeSees
  <2>4. Len(buf) > MaxSize => ~(Len(s.frames) * FrameLen + s.data <= MaxSize)
    <3>1. PICK u : u = buf \o w
      OBVIOUS
    <3>2. Len(u) = Len(buf) + Len(w) /\ Len(buf) \in Nat /\ Len(w) \in Nat
      BY ONLY <3>1, buf \in Seq(Units), w \in Seq(Units), Joins
    <3>3. Len(u) = FrameLen + s.data /\ Len(s.frames) = 2 /\ s.data \in Nat
      BY <1>1, <2>0, <2>1, <3>1 DEF Initiates
    <3>4. FrameLen \in Nat /\ MaxSize \in Nat
      BY FramesAssumption
    <3>5. Len(s.frames) * FrameLen = 2 * FrameLen
      BY <3>3
    <3> QED
      BY ONLY <3>2, <3>3, <3>4, <3>5
  <2>5. CASE Decode(buf) \in {"MessageTooLarge", "Malformed"}
    <3>1. r = [flow |-> Ended(f), ok |-> FALSE, more |-> FALSE]
      <4>1. f.state # "Done" /\ q.more /\ Decode(f.recv_buf) \in {"MessageTooLarge", "Malformed"}
        BY <1>3, <1>11, <2>5
      <4> QED
        BY ONLY <1>2, <4>1, <1>0, r = ResponderRound(q), RoundRefuses
    <3>2. Wrong("responder", s)
      BY <2>0, <2>3, <2>4, <2>5 DEF Wrong, Sees
    <3> QED
      BY <1>6, <1>9, <1>11, <3>1, <3>2
  <2>6. CASE Decode(buf) = "Complete"
    <3>1. FrontOf(buf) = l /\ RestOf(buf) \in Seq(Units)
      BY <2>3, <2>6 DEF Sees
    <3>2. CASE l.kind # "SYNC"
      <4>1. r = [flow |-> Ended(g), ok |-> FALSE, more |-> FALSE]
        <5>1. q.more /\ f.state = "AwaitingSync" /\ Decode(f.recv_buf) = "Complete"
              /\ l = FrontOf(f.recv_buf)
          BY <1>0, <1>3, <1>11, <2>6, <3>1 DEF ResponderAnswers
        <5> QED
          <6>1. f.state # "Done" /\ g.state = "AwaitingSync"
            BY <5>1, <1>4, <1>5, <3>1 DEF ResponderFlow
          <6>2. r = ResponderTakes(q, l, g)
            BY ONLY <1>0, <1>2, <1>4, <5>1, <6>1, r = ResponderRound(q), RoundTakes
          <6> QED
            BY ONLY <3>2, <6>1, <6>2 DEF ResponderTakes
      <4>2. Wrong("responder", s)
        BY <2>0, <3>2 DEF Wrong
      <4> QED
        BY <1>5, <1>9, <1>11, <3>1, <4>1, <4>2
    <3>3. CASE l.kind = "SYNC"
      <4>1. PICK y \in ResponderEvents : y = SyncReceived
        BY DEF ResponderEvents, Message, AddrSets, SyncReceived
      <4>2. PICK x \in ResponderEvents : x = ConnectReceived(s)
        BY <1>1, <1>11 DEF ResponderEvents, Message, DecodeRemoteAddrs, AddrSets, Initiates,
                           ConnectReceived, ResponderAnswers
      <4>3. PICK h : h = [g EXCEPT !.events = Append(@, y), !.state = "Done"]
        OBVIOUS
      <4>4. r = [q EXCEPT !.flow = h]
        <5>1. q.more /\ f.state = "AwaitingSync" /\ Decode(f.recv_buf) = "Complete"
              /\ l = FrontOf(f.recv_buf)
          BY <1>0, <1>3, <1>11, <2>6, <3>1 DEF ResponderAnswers
        <5> QED
          <6>1. f.state # "Done" /\ g.state = "AwaitingSync"
            BY <5>1, <1>4, <1>5, <3>1 DEF ResponderFlow
          <6>2. r = ResponderTakes(q, l, g)
            BY ONLY <1>0, <1>2, <1>4, <5>1, <6>1, r = ResponderRound(q), RoundTakes
          <6> QED
            BY ONLY <3>3, <4>1, <4>3, <6>1, <6>2 DEF ResponderTakes, SyncReceived
      <4>5. /\ Append(<< >>, y) = <<y>> /\ Append(<<x>>, y) = <<x, y>>
            /\ <<y>> \in Seq(ResponderEvents) /\ <<x, y>> \in Seq(ResponderEvents)
        BY ONLY x \in ResponderEvents, y \in ResponderEvents, Pairs
      <4>6. \/ t = << >> /\ f.events = <<x>>
            \/ t = <<x>> /\ f.events = << >>
        BY <1>11, <4>2 DEF ResponderAnswers
      <4>7. h \in ResponderFlow /\ h.state = "Done" /\ h.outbound = f.outbound
            /\ h.events = Append(f.events, y)
        <5>1. Append(f.events, y) \in Seq(ResponderEvents)
          BY <4>5, <4>6
        <5> QED
          BY <1>5, <3>1, <4>3, <5>1 DEF ResponderFlow, ResponderState
      <4>8. ResponderEnds(s, h, t, o)
        <5>1. \/ t = << >> /\ h.events = <<x, y>>
              \/ t = <<x>> /\ h.events = <<y>>
          BY <4>5, <4>6, <4>7
        <5>2. Right("responder", s) /\ Replies(h, o, InitiatorRequest)
          BY <1>11, <2>0, <3>3, <4>7 DEF Replies, ResponderAnswers
        <5> QED
          BY <4>1, <4>2, <4>7, <5>1, <5>2 DEF ResponderEnds
      <4>11. r.flow = h /\ r.ok = q.ok /\ r.more = q.more
             /\ r \in [flow : ResponderFlow, ok : BOOLEAN, more : BOOLEAN]
        BY <4>4, <4>7 DEF RoundOK
      <4>12. q.ok
        BY <1>11 DEF RoundOK
      <4> QED
        BY <4>7, <4>8, <4>11, <4>12 DEF RoundOK, ResponderInv
    <3> QED
      BY <3>2, <3>3
  <2> QED
    BY <1>11, <2>3, <2>5, <2>6 DEF Sees
<1> QED
  BY <1>2, <1>7, <1>8, <1>10, <1>11 DEF RoundOK, ResponderInv, ResponderEnds

\* try_decode
LEMMA ResponderDecodes ==
    ASSUME NEW s, SentOK("responder", s), NEW f, NEW w \in Seq(Units), NEW t, NEW o,
           ResponderInv(s, f, w, FALSE, t, o), NEW r, r = ResponderDecode(f)
    PROVE  r.ok \in BOOLEAN /\ ResponderInv(s, r.flow, w, ~r.ok, t, o)
<1>1. PICK q : q = [flow |-> f, ok |-> TRUE, more |-> TRUE]
  OBVIOUS
<1>2. RoundOK(s, q, w, t, o)
  <2>1. q.flow = f /\ q.ok = TRUE /\ q.more = TRUE
    BY <1>1
  <2> QED
    BY <1>1, <2>1 DEF RoundOK, ResponderInv
<1>3. PICK q1 : q1 = ResponderRound(q)
  OBVIOUS
<1>4. RoundOK(s, q1, w, t, o)
  BY ONLY <1>2, <1>3, SentOK("responder", s), w \in Seq(Units), ResponderRounds
<1>5. PICK q2 : q2 = ResponderRound(q1)
  OBVIOUS
<1>6. RoundOK(s, q2, w, t, o)
  BY ONLY <1>4, <1>5, SentOK("responder", s), w \in Seq(Units), ResponderRounds
<1>7. PICK q3 : q3 = ResponderRound(q2)
  OBVIOUS
<1>8. RoundOK(s, q3, w, t, o)
  BY ONLY <1>6, <1>7, SentOK("responder", s), w \in Seq(Units), ResponderRounds
<1>9. r = [flow |-> q3.flow, ok |-> q3.ok]
  BY <1>1, <1>3, <1>5, <1>7 DEF ResponderDecode
<1>10. r.flow = q3.flow /\ r.ok = q3.ok
  BY <1>9
<1> QED
  BY <1>8, <1>10 DEF RoundOK

\* Units arrive.
LEMMA ResponderArrives ==
    ASSUME NEW s, SentOK("responder", s), NEW f, NEW w \in Seq(Units), NEW t, NEW o,
           ResponderInv(s, f, w, FALSE, t, o), NEW n \in 1 .. Len(w),
           NEW a, a = SubSeq(w, 1, n), NEW z, z = SubSeq(w, n + 1, Len(w)),
           NEW r, r = ResponderData(f, a)
    PROVE  r.ok \in BOOLEAN /\ ResponderInv(s, r.flow, z, ~r.ok, t, o)
<1>1. f \in ResponderFlow
  BY DEF ResponderInv
<1>2. CASE f.state # "Done"
  <2>1. PICK buf \in Seq(Units) : buf = f.recv_buf
    BY <1>1 DEF ResponderFlow
  <2>2. PICK b2 : b2 = buf \o a
    OBVIOUS
  <2>a. Moves(buf, w, a, b2, z)
    BY ONLY <2>2, buf \in Seq(Units), w \in Seq(Units), n \in 1 .. Len(w), a = SubSeq(w, 1, n),
       z = SubSeq(w, n + 1, Len(w)), Arrive
  <2>3. z \in Seq(Units) /\ b2 \in Seq(Units) /\ b2 \o z = buf \o w
    BY <2>a DEF Moves
  <2>4. PICK g : g = [f EXCEPT !.recv_buf = b2]
    OBVIOUS
  <2>5. /\ g \in ResponderFlow /\ g.recv_buf = b2 /\ g.state = f.state /\ g.events = f.events
        /\ g.outbound = f.outbound
    BY <1>1, <2>3, <2>4 DEF ResponderFlow
  <2>6. ResponderInv(s, g, z, FALSE, t, o)
    <3>1. CASE ResponderWaits(s, f, w, t, o)
      BY <2>1, <2>3, <2>5, <3>1 DEF ResponderInv, ResponderWaits
    <3>2. CASE ResponderAnswers(s, f, w, t, o)
      <4>1. ResponderAnswers(s, g, z, t, o)
        BY <2>1, <2>3, <2>5, <3>2 DEF ResponderAnswers, Replies
      <4> QED
        BY <2>5, <4>1 DEF ResponderInv
    <3> QED
      BY <1>2, <3>1, <3>2 DEF ResponderInv, ResponderEnds
  <2>7. r = ResponderDecode(g)
    BY <1>2, <2>1, <2>2, <2>4 DEF ResponderData
  <2> QED
    BY ONLY <2>3, <2>6, <2>7, SentOK("responder", s), ResponderDecodes
<1>3. CASE f.state = "Done"
  <2>1. r.flow = f /\ r.ok = TRUE
    BY <1>3 DEF ResponderData, Ok
  <2>2. ResponderEnds(s, f, t, o)
    BY <1>3 DEF ResponderInv, ResponderWaits, ResponderAnswers
  <2> QED
    BY <1>1, <2>1, <2>2 DEF ResponderInv
<1> QED
  BY <1>2, <1>3

\* poll_output
LEMMA ResponderPolls ==
    ASSUME NEW s, NEW f, NEW w, NEW t, NEW o, ResponderInv(s, f, w, FALSE, t, o),
           NEW r, r = ResponderPoll(f), r.out # None
    PROVE  /\ ResponderInv(s, r.flow, w, FALSE, ToldBy(t, r.out), WrittenBy(o, r.out))
           /\ (\A b : BridgedBy(b, r.out) = b)
<1>1. f \in ResponderFlow
  BY DEF ResponderInv
<1>2. CASE f.outbound # << >>
  <2>1. ResponderAnswers(s, f, w, t, o) \/ ResponderEnds(s, f, t, o)
    BY <1>2 DEF ResponderInv, ResponderWaits
  <2>2. f.outbound = EncodeFrame(InitiatorRequest) /\ o = << >>
    BY <1>2, <2>1 DEF ResponderAnswers, ResponderEnds, Replies
  <2>3. PICK h : h = [f EXCEPT !.outbound = << >>]
    OBVIOUS
  <2>4. r = Output(h, "Outbound", f.outbound)
    BY <1>2, <2>3 DEF ResponderPoll
  <2>5. r.flow = h /\ r.out = [kind |-> "Outbound", value |-> EncodeFrame(InitiatorRequest)]
    BY <2>2, <2>4 DEF Output
  <2>6. PICK m \in Messages : m = InitiatorRequest
    BY InitiatorWrites
  <2>7. /\ ToldBy(t, r.out) = t /\ (\A b : BridgedBy(b, r.out) = b)
        /\ WrittenBy(<< >>, r.out) = EncodeFrame(m)
    BY ONLY <2>5, <2>6, m \in Messages, OutboundIs
  <2>8. /\ h \in ResponderFlow /\ h.state = f.state /\ h.outbound = << >>
        /\ h.recv_buf = f.recv_buf /\ h.events = f.events
    <3>1. << >> \in Seq(Units)
      BY EmptySeq
    <3> QED
      BY <1>1, <2>3, <3>1 DEF ResponderFlow
  <2>9. Replies(h, EncodeFrame(m), InitiatorRequest)
    BY <2>6, <2>8 DEF Replies
  <2>10. ResponderAnswers(s, h, w, t, EncodeFrame(m)) \/ ResponderEnds(s, h, t, EncodeFrame(m))
    BY <2>1, <2>8, <2>9 DEF ResponderAnswers, ResponderEnds
  <2> QED
    BY <2>2, <2>5, <2>7, <2>8, <2>10 DEF ResponderInv
<1>3. CASE f.outbound = << >>
  <2>1. f.events # << >>
    <3> SUFFICES ASSUME f.events = << >> PROVE FALSE
      OBVIOUS
    <3>1. r = Nothing(f)
      BY <1>3 DEF ResponderPoll
    <3> QED
      BY <3>1 DEF Nothing
  <2>2. PICK h : h = [f EXCEPT !.events = Tail(f.events)]
    OBVIOUS
  <2>3. r = Output(h, "Event", Head(f.events))
    BY <1>3, <2>1, <2>2 DEF ResponderPoll
  <2>4. r.flow = h /\ r.out = [kind |-> "Event", value |-> Head(f.events)]
    BY <2>3 DEF Output
  <2>5. ToldBy(t, r.out) = Append(t, Head(f.events)) /\ (\A b : BridgedBy(b, r.out) = b)
        /\ WrittenBy(o, r.out) = o
    BY <2>4 DEF ToldBy, BridgedBy, WrittenBy
  <2>6. /\ h \in ResponderFlow /\ h.state = f.state /\ h.outbound = f.outbound
        /\ h.recv_buf = f.recv_buf /\ h.events = Tail(f.events)
    <3>1. Tail(f.events) \in Seq(ResponderEvents)
      BY <1>1, <2>1 DEF ResponderFlow
    <3> QED
      BY <1>1, <2>2, <3>1 DEF ResponderFlow
  <2>7. CASE ResponderAnswers(s, f, w, t, o)
    <3>1. t = << >> /\ f.events = <<ConnectReceived(s)>>
      BY <2>1, <2>7 DEF ResponderAnswers
    <3>2. Append(t, Head(f.events)) = <<ConnectReceived(s)>> /\ Tail(f.events) = << >>
      BY ONLY <3>1
    <3>3. Replies(h, o, InitiatorRequest)
      BY <2>6, <2>7 DEF ResponderAnswers, Replies
    <3>4. ResponderAnswers(s, h, w, <<ConnectReceived(s)>>, o)
      BY <2>6, <2>7, <3>2, <3>3 DEF ResponderAnswers
    <3> QED
      BY <2>4, <2>5, <2>6, <3>2, <3>4 DEF ResponderInv
  <2>8. CASE ResponderEnds(s, f, t, o)
    <3>3. Replies(h, o, InitiatorRequest)
      BY <2>6, <2>8 DEF ResponderEnds, Replies
    <3>4. PICK x : x = ConnectReceived(s)
      OBVIOUS
    <3>5. \/ t = << >> /\ f.events = <<x, SyncReceived>>
          \/ t = <<x>> /\ f.events = <<SyncReceived>>
      BY <2>1, <2>8, <3>4 DEF ResponderEnds
    <3>6. \/ Append(t, Head(f.events)) = <<x>> /\ Tail(f.events) = <<SyncReceived>>
          \/ Append(t, Head(f.events)) = <<x, SyncReceived>> /\ Tail(f.events) = << >>
      <4>1. PICK y : y = SyncReceived
        OBVIOUS
      <4>2. Head(<<x, y>>) = x /\ Tail(<<x, y>>) = <<y>> /\ Append(<< >>, x) = <<x>>
        OBVIOUS
      <4>3. Head(<<y>>) = y /\ Tail(<<y>>) = << >> /\ Append(<<x>>, y) = <<x, y>>
        BY Pairs
      <4> QED
        BY ONLY <3>5, <4>1, <4>2, <4>3
    <3>7. ResponderEnds(s, h, Append(t, Head(f.events)), o)
      BY <2>6, <2>8, <3>3, <3>4, <3>6 DEF ResponderEnds
    <3> QED
      BY <2>4, <2>5, <2>6, <3>7 DEF ResponderInv
  <2> QED
    BY <2>1, <2>7, <2>8 DEF ResponderInv, ResponderWaits
<1> QED
  BY <1>2, <1>3

-----------------------------------------------------------------------------
(* Every flow.                                                             *)

\* The invariant of the flow of kind k.
FlowInv(k, s, f, w, fl, d, t, o, b) ==
    /\ k = "reserve" => ReserveInv(s, f, w, fl, t, o) /\ d = None /\ b = << >>
    /\ k = "connect" => ConnectInv(s, f, w, fl, t, o, b) /\ d = None
    /\ k = "stop" => StopInv(s, f, w, fl, d, t, o, b)
    /\ k = "initiator" => InitiatorInv(s, f, w, fl, d, t, o) /\ b = << >>
    /\ k = "responder" => ResponderInv(s, f, w, fl, t, o) /\ d = None /\ b = << >>
    /\ k = "client" => ClientInv(s, f, w, fl, t, o) /\ d = None /\ b = << >>
    /\ k = "server" => ServerInv(s, f, w, fl, d, t, o) /\ b = << >>

FlowsInv ==
    /\ kind \in Kinds /\ fin \in {"open", "told"} /\ failed \in BOOLEAN
    /\ SentOK(kind, sent) /\ wire \in Seq(Units)
    /\ FlowInv(kind, sent, flow, wire, failed, decided, told, written, bridge)

\* handle_input with data, of every flow
LEMMA Arrives ==
    ASSUME NEW k \in Kinds, NEW s, SentOK(k, s), NEW f, NEW w \in Seq(Units), NEW d, NEW t, NEW o,
           NEW b, FlowInv(k, s, f, w, FALSE, d, t, o, b),
           k \in {"reserve", "connect", "initiator", "client"} => o # << >>, NEW n \in 1 .. Len(w),
           NEW a, a = SubSeq(w, 1, n), NEW z, z = SubSeq(w, n + 1, Len(w)),
           NEW r, r = OnData(k, f, a)
    PROVE  r.ok \in BOOLEAN /\ FlowInv(k, s, r.flow, z, ~r.ok, d, t, o, b)
<1>1. CASE k = "reserve"
  <2>1. r = ReservationData(f, a) /\ ReserveInv(s, f, w, FALSE, t, o) /\ d = None /\ b = << >> /\ o # << >>
    BY <1>1 DEF OnData, FlowInv
  <2>2. r.ok \in BOOLEAN /\ ReserveInv(s, r.flow, z, ~r.ok, t, o)
    BY ONLY <1>1, <2>1, SentOK(k, s), w \in Seq(Units), n \in 1 .. Len(w), a = SubSeq(w, 1, n),
       z = SubSeq(w, n + 1, Len(w)), ReserveArrives
  <2> QED
    BY ONLY <1>1, <2>1, <2>2 DEF FlowInv
<1>2. CASE k = "connect"
  <2>1. r = ConnectData(f, a) /\ ConnectInv(s, f, w, FALSE, t, o, b) /\ d = None /\ o # << >>
    BY <1>2 DEF OnData, FlowInv
  <2>2. r.ok \in BOOLEAN /\ ConnectInv(s, r.flow, z, ~r.ok, t, o, b)
    BY ONLY <1>2, <2>1, SentOK(k, s), w \in Seq(Units), n \in 1 .. Len(w), a = SubSeq(w, 1, n),
       z = SubSeq(w, n + 1, Len(w)), ConnectArrives
  <2> QED
    BY ONLY <1>2, <2>1, <2>2 DEF FlowInv
<1>3. CASE k = "stop"
  <2>1. r = StopData(f, a) /\ StopInv(s, f, w, FALSE, d, t, o, b)
    BY <1>3 DEF OnData, FlowInv
  <2>2. r.ok \in BOOLEAN /\ StopInv(s, r.flow, z, ~r.ok, d, t, o, b)
    BY ONLY <1>3, <2>1, SentOK(k, s), w \in Seq(Units), n \in 1 .. Len(w), a = SubSeq(w, 1, n),
       z = SubSeq(w, n + 1, Len(w)), StopArrives
  <2> QED
    BY ONLY <1>3, <2>1, <2>2 DEF FlowInv
<1>4. CASE k = "initiator"
  <2>1. r = InitiatorData(f, a) /\ InitiatorInv(s, f, w, FALSE, d, t, o) /\ b = << >> /\ o # << >>
    BY <1>4 DEF OnData, FlowInv
  <2>2. r.ok \in BOOLEAN /\ InitiatorInv(s, r.flow, z, ~r.ok, d, t, o)
    BY ONLY <1>4, <2>1, SentOK(k, s), w \in Seq(Units), n \in 1 .. Len(w), a = SubSeq(w, 1, n),
       z = SubSeq(w, n + 1, Len(w)), InitiatorArrives
  <2> QED
    BY ONLY <1>4, <2>1, <2>2 DEF FlowInv
<1>5. CASE k = "responder"
  <2>1. r = ResponderData(f, a) /\ ResponderInv(s, f, w, FALSE, t, o) /\ d = None /\ b = << >>
    BY <1>5 DEF OnData, FlowInv
  <2>2. r.ok \in BOOLEAN /\ ResponderInv(s, r.flow, z, ~r.ok, t, o)
    BY ONLY <1>5, <2>1, SentOK(k, s), w \in Seq(Units), n \in 1 .. Len(w), a = SubSeq(w, 1, n),
       z = SubSeq(w, n + 1, Len(w)), ResponderArrives
  <2> QED
    BY ONLY <1>5, <2>1, <2>2 DEF FlowInv
<1>6. CASE k = "client"
  <2>1. r = ClientData(f, a) /\ ClientInv(s, f, w, FALSE, t, o) /\ d = None /\ b = << >> /\ o # << >>
    BY <1>6 DEF OnData, FlowInv
  <2>2. r.ok \in BOOLEAN /\ ClientInv(s, r.flow, z, ~r.ok, t, o)
    BY ONLY <1>6, <2>1, SentOK(k, s), w \in Seq(Units), n \in 1 .. Len(w), a = SubSeq(w, 1, n),
       z = SubSeq(w, n + 1, Len(w)), ClientArrives
  <2> QED
    BY ONLY <1>6, <2>1, <2>2 DEF FlowInv
<1>7. CASE k = "server"
  <2>1. r = ServerData(f, a) /\ ServerInv(s, f, w, FALSE, d, t, o) /\ b = << >>
    BY <1>7 DEF OnData, FlowInv
  <2>2. r.ok \in BOOLEAN /\ ServerInv(s, r.flow, z, ~r.ok, d, t, o)
    BY ONLY <1>7, <2>1, SentOK(k, s), w \in Seq(Units), n \in 1 .. Len(w), a = SubSeq(w, 1, n),
       z = SubSeq(w, n + 1, Len(w)), ServerArrives
  <2> QED
    BY ONLY <1>7, <2>1, <2>2 DEF FlowInv
<1> QED
  BY <1>1, <1>2, <1>3, <1>4, <1>5, <1>6, <1>7 DEF Kinds

\* handle_input when the remote writes no more, of every flow
LEMMA Closes ==
    ASSUME NEW k \in Kinds, NEW s, SentOK(k, s), NEW f, NEW w \in Seq(Units), NEW d, NEW t, NEW o,
           NEW b, FlowInv(k, s, f, w, FALSE, d, t, o, b),
           k \in {"reserve", "connect", "initiator", "client"} => o # << >>,
           NEW r, r = OnRemoteWriteClosed(k, f)
    PROVE  r.ok \in BOOLEAN /\ FlowInv(k, s, r.flow, w, ~r.ok, d, t, o, b)
<1>1. CASE k = "reserve"
  <2>1. r = ReservationDecode(f) /\ ReserveInv(s, f, w, FALSE, t, o) /\ d = None /\ b = << >> /\ o # << >>
    BY <1>1 DEF OnRemoteWriteClosed, FlowInv
  <2>2. r.ok \in BOOLEAN /\ ReserveInv(s, r.flow, w, ~r.ok, t, o)
    BY ONLY <1>1, <2>1, SentOK(k, s), w \in Seq(Units), ReserveCloses
  <2> QED
    BY ONLY <1>1, <2>1, <2>2 DEF FlowInv
<1>2. CASE k = "connect"
  <2>1. r = ConnectDecode(f) /\ ConnectInv(s, f, w, FALSE, t, o, b) /\ d = None /\ o # << >>
    BY <1>2 DEF OnRemoteWriteClosed, FlowInv
  <2>2. r.ok \in BOOLEAN /\ ConnectInv(s, r.flow, w, ~r.ok, t, o, b)
    BY ONLY <1>2, <2>1, SentOK(k, s), w \in Seq(Units), ConnectCloses
  <2> QED
    BY ONLY <1>2, <2>1, <2>2 DEF FlowInv
<1>3. CASE k = "stop"
  <2>1. r = StopDecode(f) /\ StopInv(s, f, w, FALSE, d, t, o, b)
    BY <1>3 DEF OnRemoteWriteClosed, FlowInv
  <2>2. r.ok \in BOOLEAN /\ StopInv(s, r.flow, w, ~r.ok, d, t, o, b)
    BY ONLY <1>3, <2>1, SentOK(k, s), w \in Seq(Units), StopCloses
  <2> QED
    BY ONLY <1>3, <2>1, <2>2 DEF FlowInv
<1>5. CASE k = "responder"
  <2>1. r = ResponderDecode(f) /\ ResponderInv(s, f, w, FALSE, t, o) /\ d = None /\ b = << >>
    BY <1>5 DEF OnRemoteWriteClosed, FlowInv
  <2>2. r.ok \in BOOLEAN /\ ResponderInv(s, r.flow, w, ~r.ok, t, o)
    BY ONLY <1>5, <2>1, SentOK(k, s), w \in Seq(Units), ResponderDecodes
  <2> QED
    BY ONLY <1>5, <2>1, <2>2 DEF FlowInv
<1>7. CASE k \in {"initiator", "client", "server"}
  <2>1. r = Ok(f)
    BY <1>7 DEF OnRemoteWriteClosed
  <2>2. r.flow = f /\ r.ok = TRUE
    BY <2>1 DEF Ok
  <2> QED
    BY <2>2
<1> QED
  BY <1>1, <1>2, <1>3, <1>5, <1>7 DEF Kinds

\* poll_output of every flow
LEMMA Polls ==
    ASSUME NEW k \in Kinds, NEW s, SentOK(k, s), NEW f, NEW w, NEW d, NEW t, NEW o,
           NEW b, FlowInv(k, s, f, w, FALSE, d, t, o, b), NEW r, r = PollOutput(k, f), r.out # None
    PROVE  FlowInv(k, s, r.flow, w, FALSE, d, ToldBy(t, r.out), WrittenBy(o, r.out), BridgedBy(b, r.out))
<1>1. CASE k = "reserve"
  <2>1. r = ReservationPoll(f) /\ ReserveInv(s, f, w, FALSE, t, o) /\ d = None /\ b = << >>
    BY <1>1 DEF PollOutput, FlowInv
  <2>2. ReserveInv(s, r.flow, w, FALSE, ToldBy(t, r.out), WrittenBy(o, r.out))
    BY ONLY <1>1, <2>1, SentOK(k, s), r.out # None, ReservePolls
  <2>3. BridgedBy(b, r.out) = b
    BY ONLY <1>1, <2>1, SentOK(k, s), r.out # None, ReservePolls
  <2> QED
    BY ONLY <1>1, <2>1, <2>2, <2>3 DEF FlowInv
<1>2. CASE k = "connect"
  <2>1. r = ConnectPoll(f) /\ ConnectInv(s, f, w, FALSE, t, o, b) /\ d = None
    BY <1>2 DEF PollOutput, FlowInv
  <2>2. ConnectInv(s, r.flow, w, FALSE, ToldBy(t, r.out), WrittenBy(o, r.out), BridgedBy(b, r.out))
    BY ONLY <1>2, <2>1, SentOK(k, s), r.out # None, ConnectPolls
  <2> QED
    BY ONLY <1>2, <2>1, <2>2 DEF FlowInv
<1>3. CASE k = "stop"
  <2>1. r = StopPoll(f) /\ StopInv(s, f, w, FALSE, d, t, o, b)
    BY <1>3 DEF PollOutput, FlowInv
  <2>2. StopInv(s, r.flow, w, FALSE, d, ToldBy(t, r.out), WrittenBy(o, r.out), BridgedBy(b, r.out))
    BY ONLY <2>1, r.out # None, StopPolls
  <2> QED
    BY ONLY <1>3, <2>1, <2>2 DEF FlowInv
<1>4. CASE k = "initiator"
  <2>1. r = InitiatorPoll(f) /\ InitiatorInv(s, f, w, FALSE, d, t, o) /\ b = << >>
    BY <1>4 DEF PollOutput, FlowInv
  <2>2. InitiatorInv(s, r.flow, w, FALSE, d, ToldBy(t, r.out), WrittenBy(o, r.out))
    BY ONLY <1>4, <2>1, SentOK(k, s), r.out # None, InitiatorPolls
  <2>3. BridgedBy(b, r.out) = b
    BY ONLY <1>4, <2>1, SentOK(k, s), r.out # None, InitiatorPolls
  <2> QED
    BY ONLY <1>4, <2>1, <2>2, <2>3 DEF FlowInv
<1>5. CASE k = "responder"
  <2>1. r = ResponderPoll(f) /\ ResponderInv(s, f, w, FALSE, t, o) /\ d = None /\ b = << >>
    BY <1>5 DEF PollOutput, FlowInv
  <2>2. ResponderInv(s, r.flow, w, FALSE, ToldBy(t, r.out), WrittenBy(o, r.out))
    BY ONLY <2>1, r.out # None, ResponderPolls
  <2>3. BridgedBy(b, r.out) = b
    BY ONLY <2>1, r.out # None, ResponderPolls
  <2> QED
    BY ONLY <1>5, <2>1, <2>2, <2>3 DEF FlowInv
<1>6. CASE k = "client"
  <2>1. r = ClientPoll(f) /\ ClientInv(s, f, w, FALSE, t, o) /\ d = None /\ b = << >>
    BY <1>6 DEF PollOutput, FlowInv
  <2>2. ClientInv(s, r.flow, w, FALSE, ToldBy(t, r.out), WrittenBy(o, r.out))
    BY ONLY <1>6, <2>1, SentOK(k, s), r.out # None, ClientPolls
  <2>3. BridgedBy(b, r.out) = b
    BY ONLY <1>6, <2>1, SentOK(k, s), r.out # None, ClientPolls
  <2> QED
    BY ONLY <1>6, <2>1, <2>2, <2>3 DEF FlowInv
<1>7. CASE k = "server"
  <2>1. r = ServerPoll(f) /\ ServerInv(s, f, w, FALSE, d, t, o) /\ b = << >>
    BY <1>7 DEF PollOutput, FlowInv
  <2>2. ServerInv(s, r.flow, w, FALSE, d, ToldBy(t, r.out), WrittenBy(o, r.out))
    BY ONLY <2>1, r.out # None, ServerPolls
  <2>3. BridgedBy(b, r.out) = b
    BY ONLY <2>1, r.out # None, ServerPolls
  <2> QED
    BY ONLY <1>7, <2>1, <2>2, <2>3 DEF FlowInv
<1> QED
  BY <1>1, <1>2, <1>3, <1>4, <1>5, <1>6, <1>7 DEF Kinds

\* The constructors, before anything has happened
LEMMA Starts ==
    ASSUME NEW k \in Kinds, NEW s, SentOK(k, s), NEW w, w = Stream(s), NEW f, f = New(k)
    PROVE  FlowInv(k, s, f, w, FALSE, None, << >>, << >>, << >>) /\ w \in Seq(Units)
<1>e. << >> \in Seq(Units) /\ << >> \in Seq(ResponderEvents)
  BY EmptySeq
<1>w. Stream(s) \in Seq(Units)
  <2>1. CASE k = "responder"
    BY <2>1, ResponderSent DEF Initiates
  <2>2. CASE k # "responder"
    BY <2>2, OneSent, StreamOfOne
  <2> QED
    BY <2>1, <2>2
<1>s. << >> \o Stream(s) = Stream(s)
  BY ONLY <1>w, ConcatEmptySeq
<1>m. /\ Reserve \in Messages /\ ConnectRequest \in Messages
      /\ InitiatorRequest \in Messages /\ ClientRequest \in Messages
  BY FlowsAssumption, MessagesAre, InitiatorWrites, ClientWrites DEF Reserve, ConnectRequest, Ours
<1>f. /\ EncodeFrame(Reserve) \in Seq(Units) /\ EncodeFrame(ConnectRequest) \in Seq(Units)
      /\ EncodeFrame(InitiatorRequest) \in Seq(Units) /\ EncodeFrame(ClientRequest) \in Seq(Units)
  BY <1>m, FrameIs
<1>1. CASE k = "reserve"
  <2>1. f = NewReservation
    BY <1>1 DEF New
  <2>2. f \in ReservationFlow
    BY <1>e, <1>f, <2>1 DEF NewReservation, ReservationFlow, FlowState, Reserve
  <2>3. Unasked(s, f, w, << >>, << >>, Reserve)
    BY <2>1 DEF NewReservation, Unasked, Reserve
  <2> QED
    BY <1>1, <1>w, <2>2, <2>3 DEF FlowInv, ReserveInv
<1>2. CASE k = "connect"
  <2>1. f = NewConnect(Ours)
    BY <1>2 DEF New
  <2>2. f \in ConnectFlow
    BY <1>e, <1>f, <2>1 DEF NewConnect, ConnectFlow, FlowState, ConnectRequest
  <2>3. Unasked(s, f, w, << >>, << >>, ConnectRequest) /\ f.bridge_bytes = << >>
    BY <2>1 DEF NewConnect, Unasked, ConnectRequest
  <2> QED
    BY <1>2, <1>e, <1>w, <2>2, <2>3 DEF FlowInv, ConnectInv
<1>3. CASE k = "stop"
  <2>1. f = NewStop
    BY <1>3 DEF New
  <2>2. f \in StopFlow
    BY <1>e, <2>1 DEF NewStop, StopFlow, StopState
  <2>3. StopWaits(s, f, w, None, << >>, << >>, << >>)
    BY <1>s, <2>1 DEF NewStop, StopWaits
  <2> QED
    BY <1>3, <1>e, <1>w, <2>2, <2>3 DEF FlowInv, StopInv
<1>4. CASE k = "initiator"
  <2>1. f = NewInitiator(OurAddrs)
    BY <1>4 DEF New
  <2>2. f \in InitiatorFlow
    BY <1>e, <1>f, <2>1 DEF NewInitiator, InitiatorFlow, InitiatorState, InitiatorRequest
  <2>3. Unasked(s, f, w, << >>, << >>, InitiatorRequest)
    BY <2>1 DEF NewInitiator, Unasked, InitiatorRequest
  <2> QED
    BY <1>4, <1>w, <2>2, <2>3 DEF FlowInv, InitiatorInv
<1>5. CASE k = "responder"
  <2>1. f = NewResponder(OurAddrs)
    BY <1>5 DEF New
  <2>2. f \in ResponderFlow
    BY <1>e, <2>1 DEF NewResponder, ResponderFlow, ResponderState
  <2>3. ResponderWaits(s, f, w, << >>, << >>)
    BY <1>s, <2>1 DEF NewResponder, ResponderWaits
  <2> QED
    BY <1>5, <1>w, <2>2, <2>3 DEF FlowInv, ResponderInv
<1>6. CASE k = "client"
  <2>1. f = NewClient(Ours, OurAddrs)
    BY <1>6 DEF New
  <2>2. f \in ClientFlow
    BY <1>e, <1>f, <2>1 DEF NewClient, ClientFlow, ClientState, ClientRequest
  <2>3. Unasked(s, f, w, << >>, << >>, ClientRequest)
    BY <2>1 DEF NewClient, Unasked, ClientRequest
  <2> QED
    BY <1>6, <1>w, <2>2, <2>3 DEF FlowInv, ClientInv
<1>7. CASE k = "server"
  <2>1. f = NewServer
    BY <1>7 DEF New
  <2>2. f \in ServerFlow
    BY <1>e, <2>1 DEF NewServer, ServerFlow, ServerState
  <2>3. ServerWaits(s, f, w, None, << >>, << >>)
    BY <1>s, <2>1 DEF NewServer, ServerWaits
  <2> QED
    BY <1>7, <1>w, <2>2, <2>3 DEF FlowInv, ServerInv
<1> QED
  BY <1>1, <1>2, <1>3, <1>4, <1>5, <1>6, <1>7 DEF Kinds

\* The initial states satisfy the invariant.
LEMMA FlowsStart == Init => FlowsInv
<1> SUFFICES ASSUME Init PROVE FlowsInv
  OBVIOUS
<1>1. PICK frames \in RightFrames(kind) \cup WrongFrames(kind), n \in 0 .. MaxData :
        sent = [frames |-> frames, data |-> n] /\ wire = Encoded(frames) \o Data(1, n)
  BY DEF Init
<1>2. SentOK(kind, sent)
  BY <1>1 DEF SentOK
<1>3. wire = Stream(sent)
  BY <1>1 DEF Stream
<1>4. /\ kind \in Kinds /\ fin = "open" /\ flow = New(kind) /\ failed = FALSE /\ decided = None
      /\ told = << >> /\ written = << >> /\ bridge = << >>
  BY DEF Init
<1>5. FlowInv(kind, sent, flow, wire, FALSE, None, << >>, << >>, << >>) /\ wire \in Seq(Units)
  BY ONLY <1>2, <1>3, <1>4, Starts
<1> QED
  BY <1>2, <1>4, <1>5 DEF FlowsInv

\* What a step has to show.
Keeps(k, s, f, w, fl, d, t, o, b) ==
    /\ kind' = k /\ sent' = s /\ flow' = f /\ wire' = w /\ failed' = fl /\ decided' = d
    /\ told' = t /\ written' = o /\ bridge' = b

\* The next state satisfies the invariant when its parts do.
LEMMA FlowsKept ==
    ASSUME NEW k, NEW s, NEW f, NEW w, NEW fl, NEW d, NEW t, NEW o, NEW b,
           Keeps(k, s, f, w, fl, d, t, o, b), k \in Kinds, SentOK(k, s), w \in Seq(Units),
           fl \in BOOLEAN, fin' \in {"open", "told"}, FlowInv(k, s, f, w, fl, d, t, o, b)
    PROVE  FlowsInv'
<1>1. /\ k = kind' /\ s = sent' /\ f = flow' /\ w = wire' /\ fl = failed' /\ d = decided'
      /\ t = told' /\ o = written' /\ b = bridge'
  BY DEF Keeps
<1>2. SentOK(kind', sent') /\ FlowInv(kind', sent', flow', wire', failed', decided', told', written', bridge')
  BY <1>1
<1>3. kind' \in Kinds /\ wire' \in Seq(Units) /\ failed' \in BOOLEAN
  BY <1>1
<1> QED
  BY <1>2, <1>3 DEF FlowsInv, SentOK, FlowInv

\* Units arrive.
LEMMA FlowsReceive == FlowsInv /\ Receives => FlowsInv'
<1> SUFFICES ASSUME FlowsInv, Receives PROVE FlowsInv'
  OBVIOUS
<1>1. PICK n \in 1 .. MaxWire : StreamData(n)
  BY DEF Receives
<1>2. PICK a : a = SubSeq(wire, 1, n)
  OBVIOUS
<1>3. PICK z : z = SubSeq(wire, n + 1, Len(wire))
  OBVIOUS
<1>4. PICK r : r = OnData(kind, flow, a)
  OBVIOUS
<1>5. /\ kind \in Kinds /\ SentOK(kind, sent) /\ wire \in Seq(Units) /\ fin \in {"open", "told"}
      /\ FlowInv(kind, sent, flow, wire, FALSE, decided, told, written, bridge)
  <2>1. failed = FALSE
    BY <1>1 DEF StreamData, FlowsInv
  <2> QED
    BY <2>1 DEF FlowsInv
<1>6. n \in 1 .. Len(wire)
  <2>1. Len(wire) \in Nat /\ n <= Len(wire)
    BY <1>1, <1>5 DEF StreamData
  <2>2. n \in Int /\ n >= 1
    <3>1. MaxWire \in Int
      BY FramesAssumption, FlowsAssumption DEF MaxWire
    <3> QED
      BY <3>1
  <2> QED
    BY <2>1, <2>2
<1>7. kind \in {"reserve", "connect", "initiator", "client"} => written # << >>
  BY <1>1 DEF StreamData, Asked
<1>8. /\ r.ok \in BOOLEAN
      /\ FlowInv(kind, sent, r.flow, z, ~r.ok, decided, told, written, bridge)
  BY ONLY <1>2, <1>3, <1>4, <1>5, <1>6, <1>7, Arrives
<1>9. z \in Seq(Units)
  <2>1. n \in 0 .. Len(wire)
    BY <1>6
  <2> QED
    BY ONLY <1>2, <1>3, <1>5, <2>1, CutAt
<1>10. Keeps(kind, sent, r.flow, z, ~r.ok, decided, told, written, bridge) /\ fin' = fin
  BY <1>1, <1>2, <1>3, <1>4 DEF StreamData, Feed, Keeps
<1> QED
  BY ONLY <1>5, <1>8, <1>9, <1>10, FlowsKept

\* The remote writes no more.
LEMMA FlowsClose == FlowsInv /\ RemoteWriteClosed => FlowsInv'
<1> SUFFICES ASSUME FlowsInv, RemoteWriteClosed PROVE FlowsInv'
  OBVIOUS
<1>4. PICK r : r = OnRemoteWriteClosed(kind, flow)
  OBVIOUS
<1>5. /\ kind \in Kinds /\ SentOK(kind, sent) /\ wire \in Seq(Units)
      /\ FlowInv(kind, sent, flow, wire, FALSE, decided, told, written, bridge)
  <2>1. failed = FALSE
    BY DEF RemoteWriteClosed, FlowsInv
  <2> QED
    BY <2>1 DEF FlowsInv
<1>7. kind \in {"reserve", "connect", "initiator", "client"} => written # << >>
  BY DEF RemoteWriteClosed, Asked
<1>8. /\ r.ok \in BOOLEAN
      /\ FlowInv(kind, sent, r.flow, wire, ~r.ok, decided, told, written, bridge)
  BY ONLY <1>4, <1>5, <1>7, Closes
<1>10. Keeps(kind, sent, r.flow, wire, ~r.ok, decided, told, written, bridge) /\ fin' = "told"
  BY <1>4 DEF RemoteWriteClosed, Feed, Keeps
<1> QED
  BY ONLY <1>5, <1>8, <1>10, FlowsKept

\* The host drains an output.
LEMMA FlowsPoll == FlowsInv /\ Poll => FlowsInv'
<1> SUFFICES ASSUME FlowsInv, Poll PROVE FlowsInv'
  OBVIOUS
<1>4. PICK r : r = PollOutput(kind, flow)
  OBVIOUS
<1>5. /\ kind \in Kinds /\ SentOK(kind, sent) /\ wire \in Seq(Units) /\ fin \in {"open", "told"}
      /\ FlowInv(kind, sent, flow, wire, FALSE, decided, told, written, bridge)
  <2>1. failed = FALSE
    BY DEF Poll, FlowsInv
  <2> QED
    BY <2>1 DEF FlowsInv
<1>6. r.out # None
  BY <1>4 DEF Poll
<1>8. FlowInv(kind, sent, r.flow, wire, FALSE, decided, ToldBy(told, r.out), WrittenBy(written, r.out),
              BridgedBy(bridge, r.out))
  BY ONLY <1>4, <1>5, <1>6, Polls
<1>10. /\ Keeps(kind, sent, r.flow, wire, FALSE, decided, ToldBy(told, r.out), WrittenBy(written, r.out),
                BridgedBy(bridge, r.out))
       /\ fin' = fin
  BY <1>4 DEF Poll, Keeps, ToldBy, WrittenBy, BridgedBy, FlowsInv
<1>11. FALSE \in BOOLEAN
  OBVIOUS
<1> QED
  BY ONLY <1>5, <1>8, <1>10, <1>11, FlowsKept

\* The host decides.
LEMMA FlowsDecide == FlowsInv /\ Decides => FlowsInv'
<1> SUFFICES ASSUME FlowsInv, Decides PROVE FlowsInv'
  OBVIOUS
<1>1. ASSUME NEW call, NEW A, NEW r, Decide(call, A, r), NEW d, d = [call |-> call, addrs |-> A],
             r.ok \in BOOLEAN, FlowInv(kind, sent, r.flow, wire, ~r.ok, d, told, written, bridge)
      PROVE  FlowsInv'
  <2>1. Keeps(kind, sent, r.flow, wire, ~r.ok, d, told, written, bridge) /\ fin' = fin
    BY <1>1 DEF Decide, Feed, Keeps
  <2>2. /\ kind \in Kinds /\ SentOK(kind, sent) /\ wire \in Seq(Units) /\ fin \in {"open", "told"}
        /\ (~r.ok) \in BOOLEAN
    BY DEF FlowsInv
  <2> QED
    BY ONLY <1>1, <2>1, <2>2, FlowsKept
<1>2. ASSUME Undecided
      PROVE  /\ told # << >> /\ wire \in Seq(Units)
             /\ FlowInv(kind, sent, flow, wire, FALSE, None, told, written, bridge)
  <2>1. failed = FALSE /\ decided = None /\ told # << >>
    BY <1>2 DEF Undecided, FlowsInv
  <2> QED
    BY <2>1 DEF FlowsInv
<1>3. CASE AcceptCircuit
  <2>1. PICK r : r = Accept(flow)
    OBVIOUS
  <2>2. PICK d : d = [call |-> "Accept", addrs |-> {}]
    OBVIOUS
  <2>3. kind = "stop" /\ Decide("Accept", {}, r) /\ Undecided
    BY <1>3, <2>1 DEF AcceptCircuit, Decide
  <2>4. told # << >> /\ wire \in Seq(Units) /\ StopInv(sent, flow, wire, FALSE, None, told, written, bridge)
    BY <1>2, <2>3 DEF FlowInv
  <2>5. r.ok \in BOOLEAN /\ StopInv(sent, r.flow, wire, ~r.ok, d, told, written, bridge)
    BY ONLY <2>1, <2>2, <2>4, StopAccepts
  <2>6. FlowInv(kind, sent, r.flow, wire, ~r.ok, d, told, written, bridge)
    BY ONLY <2>3, <2>5 DEF FlowInv
  <2> QED
    BY <1>1, <2>2, <2>3, <2>5, <2>6
<1>4. CASE RejectCircuit
  <2>1. PICK r : r = Reject(flow, "ConnectionFailed")
    OBVIOUS
  <2>2. PICK d : d = [call |-> "Reject", addrs |-> {}]
    OBVIOUS
  <2>3. kind = "stop" /\ Decide("Reject", {}, r) /\ Undecided
    BY <1>4, <2>1 DEF RejectCircuit, Decide
  <2>4. told # << >> /\ StopInv(sent, flow, wire, FALSE, None, told, written, bridge)
    BY <1>2, <2>3 DEF FlowInv
  <2>5. r.ok \in BOOLEAN /\ StopInv(sent, r.flow, wire, ~r.ok, d, told, written, bridge)
    BY ONLY <2>1, <2>2, <2>4, StopRejects
  <2>6. FlowInv(kind, sent, r.flow, wire, ~r.ok, d, told, written, bridge)
    BY ONLY <2>3, <2>5 DEF FlowInv
  <2> QED
    BY <1>1, <2>2, <2>3, <2>5, <2>6
<1>5. CASE StartSync
  <2>1. PICK r : r = SendSync(flow)
    OBVIOUS
  <2>2. PICK d : d = [call |-> "SendSync", addrs |-> {}]
    OBVIOUS
  <2>3. kind = "initiator" /\ Decide("SendSync", {}, r) /\ Undecided
    BY <1>5, <2>1 DEF StartSync, Decide
  <2>4. /\ told # << >> /\ InitiatorInv(sent, flow, wire, FALSE, None, told, written)
        /\ bridge = << >>
    BY <1>2, <2>3 DEF FlowInv
  <2>5. r.ok \in BOOLEAN /\ InitiatorInv(sent, r.flow, wire, ~r.ok, d, told, written)
    BY ONLY <2>1, <2>2, <2>4, InitiatorSyncs
  <2>6. FlowInv(kind, sent, r.flow, wire, ~r.ok, d, told, written, bridge)
    BY ONLY <2>3, <2>4, <2>5 DEF FlowInv
  <2> QED
    BY <1>1, <2>2, <2>3, <2>5, <2>6
<1>6. CASE HandleAutonatRequest
  <2>1. PICK status, A :
          /\ Decide("Respond", A, Ok(Respond(flow, status, A)))
          /\ \/ told[1].peer # Ours /\ status = "BadRequest" /\ A = {}
             \/ /\ told[1].peer = Ours /\ A \subseteq told[1].addrs
                /\ status = IF A = {} THEN "DialError" ELSE "Ok"
    <3>1. CASE told[1].peer # Ours
      BY <1>6, <3>1 DEF HandleAutonatRequest
    <3>2. CASE told[1].peer = Ours
      <4>1. PICK probes \in [told[1].addrs -> SUBSET {"found", "timeout", "error"}] :
              LET dialable == {x \in told[1].addrs : DialbackCandidate(probes[x]) = "found"}
                  status == IF dialable = {} THEN "DialError" ELSE "Ok"
              IN  Decide("Respond", dialable, Ok(Respond(flow, status, dialable)))
        BY <1>6, <3>2 DEF HandleAutonatRequest
      <4>2. PICK A : A = {x \in told[1].addrs : DialbackCandidate(probes[x]) = "found"}
        OBVIOUS
      <4>3. A \subseteq told[1].addrs
        BY <4>2
      <4> QED
        BY <3>2, <4>1, <4>2, <4>3
    <3> QED
      BY <3>1, <3>2
  <2>2. PICK r : r = Ok(Respond(flow, status, A))
    OBVIOUS
  <2>3. PICK d : d = [call |-> "Respond", addrs |-> A]
    OBVIOUS
  <2>4. kind = "server" /\ Decide("Respond", A, r) /\ Undecided
    BY <1>6, <2>1, <2>2 DEF HandleAutonatRequest
  <2>5. /\ told # << >> /\ ServerInv(sent, flow, wire, FALSE, None, told, written)
        /\ bridge = << >>
    BY <1>2, <2>4 DEF FlowInv
  <2>6. r.ok \in BOOLEAN /\ ServerInv(sent, r.flow, wire, ~r.ok, d, told, written)
    BY ONLY <2>1, <2>2, <2>3, <2>5, ServerResponds
  <2>7. FlowInv(kind, sent, r.flow, wire, ~r.ok, d, told, written, bridge)
    BY ONLY <2>4, <2>5, <2>6 DEF FlowInv
  <2> QED
    BY <1>1, <2>3, <2>4, <2>6, <2>7
<1> QED
  BY <1>3, <1>4, <1>5, <1>6 DEF Decides

\* Stream, polls and decisions in any order: every flow is at a point of its
\* exchange that accounts for each unit, output and decision so far.
THEOREM FlowsInvariant == Spec => []FlowsInv
<1>1. Init => FlowsInv
  BY FlowsStart
<1>2. FlowsInv /\ [Next]_vars => FlowsInv'
  <2>1. FlowsInv /\ Next => FlowsInv'
    BY FlowsReceive, FlowsClose, FlowsPoll, FlowsDecide DEF Next
  <2>2. FlowsInv /\ UNCHANGED vars => FlowsInv'
    <3> SUFFICES ASSUME FlowsInv, UNCHANGED vars PROVE FlowsInv'
      OBVIOUS
    <3>1. /\ Keeps(kind, sent, flow, wire, failed, decided, told, written, bridge) /\ fin' = fin
      BY DEF vars, Keeps
    <3>2. /\ kind \in Kinds /\ fin \in {"open", "told"} /\ failed \in BOOLEAN
          /\ SentOK(kind, sent) /\ wire \in Seq(Units)
          /\ FlowInv(kind, sent, flow, wire, failed, decided, told, written, bridge)
      BY DEF FlowsInv
    <3> QED
      BY ONLY <3>1, <3>2, FlowsKept
  <2> QED
    BY <2>1, <2>2
<1> QED
  BY <1>1, <1>2, PTL DEF Spec

-----------------------------------------------------------------------------
(* The properties.                                                         *)

\* The start of a sequence.
LEMMA PrefixIs ==
    ASSUME NEW S, NEW a \in Seq(S), NEW t \in Seq(S), Len(a) <= Len(t),
           \A i \in 1 .. Len(a) : a[i] = t[i]
    PROVE  IsPrefix(a, t)
<1>1. Len(a) \in Nat /\ Len(t) \in Nat
  OBVIOUS
<1>2. PICK A : A = SubSeq(a, 1, Len(a))
  OBVIOUS
<1>3. PICK T : T = SubSeq(t, 1, Len(a))
  OBVIOUS
<1>4. A \in Seq(S) /\ Len(A) = Len(a) /\ \A i \in 1 .. Len(a) : A[i] = a[i]
  BY <1>1, <1>2, SubSeqProperties
<1>5. T \in Seq(S) /\ Len(T) = Len(a) /\ \A i \in 1 .. Len(a) : T[i] = t[i]
  BY <1>1, <1>3, SubSeqProperties
<1>6. Len(A) = Len(T) /\ \A i \in 1 .. Len(A) : A[i] = T[i]
  BY <1>4, <1>5
<1>7. A = T
  BY ONLY <1>4, <1>5, <1>6, SeqEqual
<1> QED
  BY <1>2, <1>3, <1>7 DEF IsPrefix

\* Nothing, and all of it.
LEMMA PrefixEnds ==
    ASSUME NEW S, NEW t \in Seq(S)
    PROVE  IsPrefix(<< >>, t) /\ IsPrefix(t, t)
<1>1. << >> \in Seq(S) /\ Len(<< >>) = 0
  BY EmptySeq
<1>2. Len(t) \in Nat /\ Len(<< >>) <= Len(t) /\ Len(t) <= Len(t)
  BY <1>1
<1>3. \A i \in 1 .. Len(<< >>) : << >>[i] = t[i]
  BY <1>1
<1>4. IsPrefix(<< >>, t)
  BY ONLY <1>1, <1>2, <1>3, t \in Seq(S), PrefixIs
<1>5. IsPrefix(t, t)
  BY ONLY <1>2, t \in Seq(S), PrefixIs
<1> QED
  BY <1>4, <1>5

\* Of one element.
LEMMA PrefixOfOne == \A x : IsPrefix(<< >>, <<x>>) /\ IsPrefix(<<x>>, <<x>>)
<1> SUFFICES ASSUME NEW x PROVE IsPrefix(<< >>, <<x>>) /\ IsPrefix(<<x>>, <<x>>)
  OBVIOUS
<1>1. <<x>> \in Seq({x})
  OBVIOUS
<1> QED
  BY ONLY <1>1, PrefixEnds

\* Of two elements.
LEMMA PrefixOfTwo ==
    \A x, y : /\ IsPrefix(<< >>, <<x, y>>) /\ IsPrefix(<<x>>, <<x, y>>)
              /\ IsPrefix(<<x, y>>, <<x, y>>)
<1> SUFFICES ASSUME NEW x, NEW y
             PROVE  /\ IsPrefix(<< >>, <<x, y>>) /\ IsPrefix(<<x>>, <<x, y>>)
                    /\ IsPrefix(<<x, y>>, <<x, y>>)
  OBVIOUS
<1>1. PICK S : S = {x, y}
  OBVIOUS
<1>2. PICK a : a = <<x>>
  OBVIOUS
<1>3. PICK b : b = <<x, y>>
  OBVIOUS
<1>4. a \in Seq(S) /\ Len(a) = 1 /\ a[1] = x
  BY <1>1, <1>2
<1>5. b \in Seq(S) /\ Len(b) = 2 /\ b[1] = x
  BY <1>1, <1>3
<1>6. Len(a) <= Len(b) /\ \A i \in 1 .. Len(a) : a[i] = b[i]
  BY ONLY <1>4, <1>5
<1>7. IsPrefix(a, b)
  BY ONLY <1>4, <1>5, <1>6, PrefixIs
<1>8. IsPrefix(<< >>, b) /\ IsPrefix(b, b)
  BY ONLY <1>5, PrefixEnds
<1> QED
  BY ONLY <1>2, <1>3, <1>7, <1>8

\* Of a frame and what follows it.
LEMMA PrefixOfConcat ==
    ASSUME NEW a \in Seq(Units), NEW c \in Seq(Units)
    PROVE  IsPrefix(a, a \o c)
<1>1. PICK t : t = a \o c
  OBVIOUS
<1>2. t \in Seq(Units) /\ Len(t) = Len(a) + Len(c) /\ Len(a) \in Nat /\ Len(c) \in Nat
  BY ONLY <1>1, a \in Seq(Units), c \in Seq(Units), Joins
<1>3. \A i \in 1 .. Len(a) : a[i] = t[i]
  BY ONLY <1>1, a \in Seq(Units), c \in Seq(Units), ConcatHalves
<1>4. Len(a) <= Len(t)
  BY <1>2
<1>5. IsPrefix(a, t)
  BY ONLY <1>2, <1>3, <1>4, a \in Seq(Units), PrefixIs
<1> QED
  BY <1>1, <1>5

\* Both parts of a sequence of D are sequences of D.
LEMMA PartsOf ==
    ASSUME NEW D, NEW a \in Seq(Units), NEW c \in Seq(Units), NEW t \in Seq(D), a \o c = t
    PROVE  a \in Seq(D) /\ c \in Seq(D)
<1>1. PICK u : u = a \o c
  OBVIOUS
<1>2. /\ Len(u) = Len(a) + Len(c) /\ Len(a) \in Nat /\ Len(c) \in Nat
  BY ONLY <1>1, a \in Seq(Units), c \in Seq(Units), Joins
<1>3. /\ \A i \in 1 .. Len(a) : u[i] = a[i]
      /\ \A i \in 1 .. Len(c) : u[Len(a) + i] = c[i]
  BY ONLY <1>1, a \in Seq(Units), c \in Seq(Units), ConcatHalves
<1>4. u = t /\ \A i \in 1 .. Len(u) : u[i] \in D
  BY <1>1
<1>5. a \in [1 .. Len(a) -> D]
  <2>1. \A i \in 1 .. Len(a) : i \in 1 .. Len(u) /\ u[i] = a[i] /\ u[i] \in D
    BY <1>2, <1>3, <1>4
  <2>2. a \in [1 .. Len(a) -> Units]
    OBVIOUS
  <2> QED
    BY <2>1, <2>2
<1>6. c \in [1 .. Len(c) -> D]
  <2>1. \A i \in 1 .. Len(c) : Len(a) + i \in 1 .. Len(u)
    BY <1>2
  <2>2. \A i \in 1 .. Len(c) : c[i] \in D
    BY <1>3, <1>4, <2>1
  <2>3. c \in [1 .. Len(c) -> Units]
    OBVIOUS
  <2> QED
    BY <2>2, <2>3
<1>7. PICK n \in Nat, k \in Nat : n = Len(a) /\ k = Len(c)
  BY <1>2
<1>8. a \in [1 .. n -> D] /\ c \in [1 .. k -> D]
  BY ONLY <1>5, <1>6, <1>7
<1> QED
  BY ONLY <1>8, n \in Nat, k \in Nat, SeqDef

\* The data of a bridge, where it is.
LEMMA CarriesData ==
    ASSUME NEW s, s.data \in 0 .. MaxData, NEW b \in Seq(Units), NEW held \in Seq(Units),
           NEW w \in Seq(Units), Carries(s, b, held, w)
    PROVE  b \in Seq([data : 1 .. MaxData]) /\ held \in Seq([data : 1 .. MaxData])
<1>1. PICK D : D = [data : 1 .. MaxData]
  OBVIOUS
<1>2. s.data \in Nat /\ MaxData \in Nat /\ s.data <= MaxData
  BY FlowsAssumption
<1>3. PICK x : x = Data(1, s.data)
  OBVIOUS
<1>4. x \in Seq([data : 1 .. s.data])
  BY <1>2, <1>3, DataIs
<1>5. x \in Seq(D)
  <2>1. [data : 1 .. s.data] \subseteq D
    BY <1>1, <1>2
  <2>2. PICK E : E = [data : 1 .. s.data]
    OBVIOUS
  <2>3. x \in Seq(E) /\ E \subseteq D
    BY <1>4, <2>1, <2>2
  <2> QED
    BY ONLY <2>3
<1>6. PICK c \in Seq(Units) : c = b \o held
  BY Joins
<1>7. c \o w = x
  BY <1>3, <1>6 DEF Carries
<1>8. c \in Seq(D)
  BY ONLY <1>5, <1>7, c \in Seq(Units), w \in Seq(Units), PartsOf
<1>9. b \in Seq(D) /\ held \in Seq(D)
  BY ONLY <1>6, <1>8, b \in Seq(Units), held \in Seq(Units), PartsOf
<1> QED
  BY <1>1, <1>9

\* Every value the flows and the host keep has its type.
LEMMA FlowsTyped == FlowsInv => TypeOK
<1> SUFFICES ASSUME FlowsInv PROVE TypeOK
  OBVIOUS
<1>d. PICK D : D = [data : 1 .. MaxData]
  OBVIOUS
<1>e. << >> \in Seq(D)
  BY EmptySeq
<1>0. /\ kind \in Kinds /\ fin \in {"open", "told"} /\ failed \in BOOLEAN /\ wire \in Seq(Units)
      /\ sent.data \in 0 .. MaxData
      /\ FlowInv(kind, sent, flow, wire, failed, decided, told, written, bridge)
  BY DEF FlowsInv, SentOK
<1> DEFINE States == FlowState \cup StopState \cup InitiatorState \cup ResponderState
                       \cup ClientState \cup ServerState
<1>1. ASSUME bridge \in Seq(D), flow.state \in States, decided = None \/ decided \in Decisions,
             kind \in {"connect", "stop"} => flow.bridge_bytes \in Seq(D)
      PROVE  TypeOK
  BY <1>0, <1>1, <1>d DEF TypeOK
<1> HIDE DEF States
<1>2. CASE kind = "reserve"
  <2>1. ReserveInv(sent, flow, wire, failed, told, written) /\ decided = None /\ bridge = << >>
    BY <1>0, <1>2 DEF FlowInv
  <2>2. flow.state \in States
    BY <2>1 DEF ReserveInv, ReservationFlow, States
  <2> QED
    BY <1>1, <1>2, <1>e, <2>1, <2>2
<1>3. CASE kind = "connect"
  <2>1. ConnectInv(sent, flow, wire, failed, told, written, bridge) /\ decided = None
    BY <1>0, <1>3 DEF FlowInv
  <2>2. flow.state \in States
    BY <2>1 DEF ConnectInv, ConnectFlow, States
  <2>3. PICK held \in Seq(Units), b \in Seq(Units) : held = flow.bridge_bytes /\ b = bridge
    BY <2>1 DEF ConnectInv, ConnectFlow
  <2>4. (b = << >> /\ held = << >>) \/ Carries(sent, b, held, wire)
    BY <2>1, <2>3 DEF ConnectInv, Connected
  <2>5. b \in Seq(D) /\ held \in Seq(D)
    <3>1. CASE Carries(sent, b, held, wire)
      BY ONLY <1>0, <1>d, <3>1, b \in Seq(Units), held \in Seq(Units), CarriesData
    <3> QED
      BY <1>e, <2>4, <3>1
  <2> QED
    BY <1>1, <1>3, <2>1, <2>2, <2>3, <2>5
<1>4. CASE kind = "stop"
  <2>1. StopInv(sent, flow, wire, failed, decided, told, written, bridge)
    BY <1>0, <1>4 DEF FlowInv
  <2>2. flow.state \in States
    BY <2>1 DEF StopInv, StopFlow, States
  <2>3. PICK held \in Seq(Units), b \in Seq(Units) : held = flow.bridge_bytes /\ b = bridge
    BY <2>1 DEF StopInv, StopFlow
  <2>4. /\ (b = << >> /\ held = << >>) \/ Carries(sent, b, held, wire)
        /\ decided = None \/ decided \in Decisions
    BY <2>1, <2>3 DEF StopInv, StopWaits, StopAsks, StopDecided
  <2>5. b \in Seq(D) /\ held \in Seq(D)
    <3>1. CASE Carries(sent, b, held, wire)
      BY ONLY <1>0, <1>d, <3>1, b \in Seq(Units), held \in Seq(Units), CarriesData
    <3> QED
      BY <1>e, <2>4, <3>1
  <2> QED
    BY <1>1, <1>4, <2>2, <2>3, <2>4, <2>5
<1>5. CASE kind = "initiator"
  <2>1. InitiatorInv(sent, flow, wire, failed, decided, told, written) /\ bridge = << >>
    BY <1>0, <1>5 DEF FlowInv
  <2>2. flow.state \in States /\ (decided = None \/ decided \in Decisions)
    BY <2>1 DEF InitiatorInv, InitiatorFlow, States, ReadyToSync, Synchronizes
  <2> QED
    BY <1>1, <1>5, <1>e, <2>1, <2>2
<1>6. CASE kind = "responder"
  <2>1. ResponderInv(sent, flow, wire, failed, told, written) /\ decided = None /\ bridge = << >>
    BY <1>0, <1>6 DEF FlowInv
  <2>2. flow.state \in States
    BY <2>1 DEF ResponderInv, ResponderFlow, States
  <2> QED
    BY <1>1, <1>6, <1>e, <2>1, <2>2
<1>7. CASE kind = "client"
  <2>1. ClientInv(sent, flow, wire, failed, told, written) /\ decided = None /\ bridge = << >>
    BY <1>0, <1>7 DEF FlowInv
  <2>2. flow.state \in States
    BY <2>1 DEF ClientInv, ClientFlow, States
  <2> QED
    BY <1>1, <1>7, <1>e, <2>1, <2>2
<1>8. CASE kind = "server"
  <2>1. ServerInv(sent, flow, wire, failed, decided, told, written) /\ bridge = << >>
    BY <1>0, <1>8 DEF FlowInv
  <2>2. flow.state \in States /\ (decided = None \/ decided \in Decisions)
    BY <2>1 DEF ServerInv, ServerFlow, States, ServerWaits, ServerAsks, ServerDecided
  <2> QED
    BY <1>1, <1>8, <1>e, <2>1, <2>2
<1> QED
  BY <1>0, <1>2, <1>3, <1>4, <1>5, <1>6, <1>7, <1>8 DEF Kinds

\* An error is excused.
LEMMA FlowsExcused == FlowsInv => FailsOnlyWhenWrong
<1> SUFFICES ASSUME FlowsInv, failed PROVE ~Conforms \/ ~Fits
  BY DEF FailsOnlyWhenWrong
<1>1. Wrong(kind, sent)
  BY DEF FlowsInv, FlowInv, Kinds, ReserveInv, ConnectInv, StopInv, InitiatorInv, ResponderInv,
         ClientInv, ServerInv
<1> QED
  BY <1>1 DEF Wrong, Right, Conforms, Fits

\* What the host was told, in one flow that tells one thing, v.
TellsOne(k, s, t, v) ==
    /\ t = << >> \/ (t = <<v>> /\ Right(k, s))
    /\ Len(s.frames) = 1

\* Such a flow tells the meaning.
LEMMA OneIsMeaning ==
    ASSUME NEW v, TellsOne(kind, sent, told, v), Conforms => Meaning = <<v>>
    PROVE  TellsTheMeaning
<1>1. IsPrefix(<< >>, <<v>>) /\ IsPrefix(<<v>>, <<v>>)
  BY PrefixOfOne
<1>2. Conforms => IsPrefix(told, Meaning)
  BY <1>1 DEF TellsOne
<1>3. ~Conforms => told = << >>
  BY DEF TellsOne, Right, Conforms
<1>4. ~Conforms => Len(told) < Len(sent.frames)
  <2>1. Len(<< >>) = 0 /\ Len(sent.frames) = 1
    BY DEF TellsOne
  <2> QED
    BY <1>3, <2>1
<1> QED
  BY <1>2, <1>3, <1>4 DEF TellsTheMeaning

\* The host is told what the frames mean.
LEMMA FlowsTell == FlowsInv => TellsTheMeaning
<1> SUFFICES ASSUME FlowsInv PROVE TellsTheMeaning
  OBVIOUS
<1>0. /\ kind \in Kinds /\ failed \in BOOLEAN /\ SentOK(kind, sent)
      /\ FlowInv(kind, sent, flow, wire, failed, decided, told, written, bridge)
  BY DEF FlowsInv
<1>1. kind # "responder" => Len(sent.frames) = 1
  <2> SUFFICES ASSUME kind # "responder" PROVE Len(sent.frames) = 1
    OBVIOUS
  <2>1. PICK m : Sends(sent, m)
    BY <1>0, OneSent
  <2> QED
    BY <2>1, StreamOfOne
<1>2. CASE kind = "reserve"
  <2>1. ReserveInv(sent, flow, wire, failed, told, written)
    BY <1>0, <1>2 DEF FlowInv
  <2>2. TellsOne(kind, sent, told, ReserveVerdict(sent))
    BY <1>0, <1>1, <1>2, <2>1 DEF TellsOne, ReserveInv, Unasked, Waiting, Answered
  <2>3. Meaning = <<ReserveVerdict(sent)>>
    BY <1>2 DEF Meaning, ReserveVerdict, First
  <2> QED
    BY ONLY <2>2, <2>3, OneIsMeaning
<1>3. CASE kind = "connect"
  <2>1. ConnectInv(sent, flow, wire, failed, told, written, bridge)
    BY <1>0, <1>3 DEF FlowInv
  <2>2. TellsOne(kind, sent, told, ConnectVerdict(sent))
    BY <1>0, <1>1, <1>3, <2>1 DEF TellsOne, ConnectInv, Connected, Unasked, Waiting, Answered
  <2>3. Meaning = <<ConnectVerdict(sent)>>
    BY <1>3 DEF Meaning, ConnectVerdict, First
  <2> QED
    BY ONLY <2>2, <2>3, OneIsMeaning
<1>4. CASE kind = "stop"
  <2>1. StopInv(sent, flow, wire, failed, decided, told, written, bridge)
    BY <1>0, <1>4 DEF FlowInv
  <2>2. TellsOne(kind, sent, told, sent.frames[1].body)
    BY <1>0, <1>1, <1>4, <2>1 DEF TellsOne, StopInv, StopWaits, StopAsks, StopDecided
  <2>3. Meaning = <<sent.frames[1].body>>
    BY <1>4 DEF Meaning, First
  <2> QED
    BY ONLY <2>2, <2>3, OneIsMeaning
<1>5. CASE kind = "initiator"
  <2>1. InitiatorInv(sent, flow, wire, failed, decided, told, written)
    BY <1>0, <1>5 DEF FlowInv
  <2>2. TellsOne(kind, sent, told, InitiatorVerdict(sent))
    BY <1>0, <1>1, <1>5, <2>1
       DEF TellsOne, InitiatorInv, ReadyToSync, Synchronizes, Unasked, Waiting, Answered
  <2>3. Meaning = <<InitiatorVerdict(sent)>>
    BY <1>5 DEF Meaning, InitiatorVerdict, First
  <2> QED
    BY ONLY <2>2, <2>3, OneIsMeaning
<1>6. CASE kind = "responder"
  <2>1. ResponderInv(sent, flow, wire, failed, told, written)
    BY <1>0, <1>6 DEF FlowInv
  <2>2. PICK m, after : Initiates(sent, m, after)
    BY <1>0, <1>6, ResponderSent
  <2>3. PICK x, y : x = ConnectReceived(sent) /\ y = SyncReceived
    OBVIOUS
  <2>4. Meaning = <<x, y>>
    BY <1>6, <2>3 DEF Meaning, First, ConnectReceived, SyncReceived
  <2>5. \/ told = << >>
        \/ told = <<x>> /\ (m.kind = "CONNECT" \/ Conforms)
        \/ told = <<x, y>> /\ Conforms
    BY <1>0, <1>6, <2>1, <2>2, <2>3
       DEF ResponderInv, ResponderWaits, ResponderAnswers, ResponderEnds, Initiates, Right, Conforms
  <2>6. IsPrefix(<< >>, <<x, y>>) /\ IsPrefix(<<x>>, <<x, y>>) /\ IsPrefix(<<x, y>>, <<x, y>>)
    BY PrefixOfTwo
  <2>7. Conforms => IsPrefix(told, Meaning)
    BY <2>4, <2>5, <2>6
  <2>8. ~Conforms => Len(told) < Len(sent.frames)
    <3>1. Len(<< >>) = 0 /\ Len(<<x>>) = 1
      OBVIOUS
    <3>2. /\ m.kind = "CONNECT" => Len(sent.frames) = 2
          /\ m.kind # "CONNECT" => Len(sent.frames) = 1
      BY <2>2 DEF Initiates
    <3> QED
      BY <2>5, <3>1, <3>2
  <2> QED
    BY <1>6, <2>7, <2>8 DEF TellsTheMeaning
<1>7. CASE kind = "client"
  <2>1. ClientInv(sent, flow, wire, failed, told, written)
    BY <1>0, <1>7 DEF FlowInv
  <2>2. TellsOne(kind, sent, told, ClientVerdict(sent))
    BY <1>0, <1>1, <1>7, <2>1 DEF TellsOne, ClientInv, Unasked, Waiting, Answered
  <2>3. Meaning = <<ClientVerdict(sent)>>
    BY <1>7 DEF Meaning, ClientVerdict, First
  <2> QED
    BY ONLY <2>2, <2>3, OneIsMeaning
<1>8. CASE kind = "server"
  <2>1. ServerInv(sent, flow, wire, failed, decided, told, written)
    BY <1>0, <1>8 DEF FlowInv
  <2>2. TellsOne(kind, sent, told, sent.frames[1].body)
    BY <1>0, <1>1, <1>8, <2>1 DEF TellsOne, ServerInv, ServerWaits, ServerAsks, ServerDecided
  <2>3. Meaning = <<sent.frames[1].body>>
    BY <1>8 DEF Meaning, First
  <2> QED
    BY ONLY <2>2, <2>3, OneIsMeaning
<1> QED
  BY <1>0, <1>2, <1>3, <1>4, <1>5, <1>6, <1>7, <1>8 DEF Kinds

\* A flow whose request is one frame, m, has written all of it or nothing.
LEMMA OneIsWritten ==
    ASSUME NEW m \in Messages, Requests = <<m>>, written = << >> \/ written = EncodeFrame(m)
    PROVE  IsPrefix(written, Encoded(Requests))
<1>1. PICK e \in Seq(Units) : e = EncodeFrame(m)
  BY FrameIs
<1>2. Encoded(Requests) = e
  <2>1. PICK q : q = <<m>>
    OBVIOUS
  <2>2. Len(q) = 1 /\ q # << >> /\ q[1] = m
    BY <2>1
  <2>3. Encoded(q) = EncodeFrame(m)
    BY <2>2 DEF Encoded
  <2> QED
    BY <1>1, <2>1, <2>3
<1>3. IsPrefix(<< >>, e) /\ IsPrefix(e, e)
  BY ONLY e \in Seq(Units), PrefixEnds
<1> QED
  BY <1>1, <1>2, <1>3

\* So has one that has nothing to write yet.
LEMMA NoneIsWritten ==
    ASSUME Requests = << >>, written = << >>
    PROVE  IsPrefix(written, Encoded(Requests))
<1>1. Encoded(<< >>) = << >>
  BY DEF Encoded
<1>2. << >> \in Seq(Units)
  BY EmptySeq
<1>3. IsPrefix(<< >>, << >>)
  BY ONLY <1>2, PrefixEnds
<1> QED
  BY <1>1, <1>3

\* The host writes the requests.
LEMMA FlowsWrite == FlowsInv => WritesTheRequests
<1> SUFFICES ASSUME FlowsInv PROVE WritesTheRequests
  OBVIOUS
<1>0. /\ kind \in Kinds /\ failed \in BOOLEAN /\ SentOK(kind, sent)
      /\ FlowInv(kind, sent, flow, wire, failed, decided, told, written, bridge)
  BY DEF FlowsInv
<1>m. /\ Reserve \in Messages /\ ConnectRequest \in Messages
      /\ InitiatorRequest \in Messages /\ ClientRequest \in Messages /\ Sync \in Messages
  BY FlowsAssumption, MessagesAre, InitiatorWrites, ClientWrites DEF Reserve, ConnectRequest, Ours
<1>1. ASSUME kind # "initiator", IsPrefix(written, Encoded(Requests)) PROVE WritesTheRequests
  BY <1>1 DEF WritesTheRequests
<1>2. CASE kind = "reserve"
  <2>1. ReserveInv(sent, flow, wire, failed, told, written)
    BY <1>0, <1>2 DEF FlowInv
  <2>2. written = << >> \/ written = EncodeFrame(Reserve)
    BY <1>0, <2>1 DEF ReserveInv, Unasked, Waiting
  <2>3. Requests = <<Reserve>>
    BY <1>2 DEF Requests, Reserve
  <2>4. IsPrefix(written, Encoded(Requests))
    BY ONLY <1>m, <2>2, <2>3, OneIsWritten
  <2> QED
    BY <1>1, <1>2, <2>4
<1>3. CASE kind = "connect"
  <2>1. ConnectInv(sent, flow, wire, failed, told, written, bridge)
    BY <1>0, <1>3 DEF FlowInv
  <2>2. written = << >> \/ written = EncodeFrame(ConnectRequest)
    BY <1>0, <2>1 DEF ConnectInv, Connected, Unasked, Waiting
  <2>3. Requests = <<ConnectRequest>>
    BY <1>3 DEF Requests, ConnectRequest
  <2>4. IsPrefix(written, Encoded(Requests))
    BY ONLY <1>m, <2>2, <2>3, OneIsWritten
  <2> QED
    BY <1>1, <1>3, <2>4
<1>4. CASE kind = "stop"
  <2>1. StopInv(sent, flow, wire, failed, decided, told, written, bridge)
    BY <1>0, <1>4 DEF FlowInv
  <2>2. CASE decided = None
    <3>1. written = << >>
      BY <1>0, <2>1, <2>2, FlowsAbsentAssumption DEF StopInv, StopWaits, StopAsks, StopDecided
    <3>2. Requests = << >>
      BY <1>4, <2>2 DEF Requests
    <3>3. IsPrefix(written, Encoded(Requests))
      BY ONLY <3>1, <3>2, NoneIsWritten
    <3> QED
      BY <1>1, <1>4, <3>3
  <2>3. CASE decided # None
    <3>1. written = << >> \/ written = EncodeFrame(StopReply(decided))
      BY <1>0, <2>1, <2>3 DEF StopInv, StopWaits, StopAsks, StopDecided, Replies
    <3>2. Requests = <<StopReply(decided)>>
      BY <1>4, <2>3 DEF Requests, StopReply
    <3>3. StopReply(decided) \in Messages
      BY StopReplyIs
    <3>4. IsPrefix(written, Encoded(Requests))
      BY ONLY <3>1, <3>2, <3>3, OneIsWritten
    <3> QED
      BY <1>1, <1>4, <3>4
  <2> QED
    BY <2>2, <2>3
<1>5. CASE kind = "initiator"
  <2>1. InitiatorInv(sent, flow, wire, failed, decided, told, written)
    BY <1>0, <1>5 DEF FlowInv
  <2>2. PICK e \in Seq(Units) : e = EncodeFrame(InitiatorRequest) /\ Len(e) = FrameLen
    BY <1>m, FrameIs
  <2>3. PICK g \in Seq(Units) : g = EncodeFrame(Sync)
    BY <1>m, FrameIs
  <2>4. /\ written = << >> \/ written = e \/ (written = e \o g /\ decided \in Decisions)
    BY <1>0, <2>1, <2>2, <2>3 DEF InitiatorInv, Unasked, Waiting, ReadyToSync, Synchronizes
  <2>5. Encoded(Requests) = e \o g
    <3>1. PICK q : q = <<InitiatorRequest, Sync>>
      OBVIOUS
    <3>2. Requests = q
      BY <1>5, <3>1 DEF Requests, InitiatorRequest, Sync
    <3>3. Len(q) = 2 /\ q # << >> /\ q[1] = InitiatorRequest /\ q[2] = Sync
      BY <3>1
    <3> QED
      BY <2>2, <2>3, <3>2, <3>3 DEF Encoded
  <2>6. PICK t \in Seq(Units) : t = e \o g
    BY Joins
  <2>7. IsPrefix(<< >>, t) /\ IsPrefix(t, t)
    BY ONLY t \in Seq(Units), PrefixEnds
  <2>8. IsPrefix(e, e \o g)
    BY ONLY e \in Seq(Units), g \in Seq(Units), PrefixOfConcat
  <2>9. IsPrefix(written, Encoded(Requests))
    BY <2>4, <2>5, <2>6, <2>7, <2>8
  <2>10. decided = None => Len(written) <= FrameLen
    <3> SUFFICES ASSUME decided = None PROVE Len(written) <= FrameLen
      OBVIOUS
    <3>1. written = << >> \/ written = e
      BY <2>4, FlowsAbsentAssumption
    <3>2. Len(<< >>) = 0 /\ FrameLen \in Nat
      BY FramesAssumption
    <3> QED
      BY <2>2, <3>1, <3>2
  <2> QED
    BY <2>9, <2>10 DEF WritesTheRequests
<1>6. CASE kind = "responder"
  <2>1. ResponderInv(sent, flow, wire, failed, told, written)
    BY <1>0, <1>6 DEF FlowInv
  <2>2. written = << >> \/ written = EncodeFrame(InitiatorRequest)
    BY <1>0, <2>1 DEF ResponderInv, ResponderWaits, ResponderAnswers, ResponderEnds, Replies
  <2>3. Requests = <<InitiatorRequest>>
    BY <1>6 DEF Requests, InitiatorRequest
  <2>4. IsPrefix(written, Encoded(Requests))
    BY ONLY <1>m, <2>2, <2>3, OneIsWritten
  <2> QED
    BY <1>1, <1>6, <2>4
<1>7. CASE kind = "client"
  <2>1. ClientInv(sent, flow, wire, failed, told, written)
    BY <1>0, <1>7 DEF FlowInv
  <2>2. written = << >> \/ written = EncodeFrame(ClientRequest)
    BY <1>0, <2>1 DEF ClientInv, Unasked, Waiting
  <2>3. Requests = <<ClientRequest>>
    BY <1>7 DEF Requests, ClientRequest
  <2>4. IsPrefix(written, Encoded(Requests))
    BY ONLY <1>m, <2>2, <2>3, OneIsWritten
  <2> QED
    BY <1>1, <1>7, <2>4
<1>8. CASE kind = "server"
  <2>1. ServerInv(sent, flow, wire, failed, decided, told, written)
    BY <1>0, <1>8 DEF FlowInv
  <2>2. CASE decided = None
    <3>1. written = << >>
      BY <1>0, <2>1, <2>2, FlowsAbsentAssumption DEF ServerInv, ServerWaits, ServerAsks, ServerDecided
    <3>2. Requests = << >>
      BY <1>8, <2>2 DEF Requests
    <3>3. IsPrefix(written, Encoded(Requests))
      BY ONLY <3>1, <3>2, NoneIsWritten
    <3> QED
      BY <1>1, <1>8, <3>3
  <2>3. CASE decided # None
    <3>1. /\ decided \in Decisions
          /\ written = << >> \/ written = EncodeFrame(ServerReply(sent, decided))
      BY <1>0, <2>1, <2>3 DEF ServerInv, ServerWaits, ServerAsks, ServerDecided, Replies
    <3>2. Requests = <<ServerReply(sent, decided)>>
      BY <1>8, <2>3 DEF Requests, ServerReply, ServerStatus, First
    <3>3. ServerReply(sent, decided) \in Messages
      BY <3>1, ServerReplyIs
    <3>4. IsPrefix(written, Encoded(Requests))
      BY ONLY <3>1, <3>2, <3>3, OneIsWritten
    <3> QED
      BY <1>1, <1>8, <3>4
  <2> QED
    BY <2>2, <2>3
<1> QED
  BY <1>0, <1>2, <1>3, <1>4, <1>5, <1>6, <1>7, <1>8 DEF Kinds

\* The units are framed ones and then the n units of data.
EndsInData(units, n) ==
    LET framed == Len(units) - n
    IN  /\ SubSeq(units, framed + 1, Len(units)) = Data(1, n)
        /\ \A i \in 1 .. framed : IsFrameUnit(units[i])

\* They are where frame units e come first.
LEMMA EndsInDataIs ==
    ASSUME NEW n \in Nat, NEW e \in Seq(Units), \A i \in 1 .. Len(e) : IsFrameUnit(e[i]),
           NEW units, units = e \o Data(1, n)
    PROVE  EndsInData(units, n)
<1>1. PICK x \in Seq(Units) : x = Data(1, n) /\ Len(x) = n
  BY DataIs
<1>2. /\ units \in Seq(Units) /\ Len(units) = Len(e) + Len(x) /\ Len(e) \in Nat
  BY <1>1, Joins
<1>3. /\ \A i \in 1 .. Len(e) : units[i] = e[i]
      /\ \A i \in 1 .. Len(x) : units[Len(e) + i] = x[i]
  <2>1. units = e \o x
    BY <1>1
  <2> QED
    BY ONLY <2>1, e \in Seq(Units), x \in Seq(Units), ConcatHalves
<1>4. Len(units) - n = Len(e)
  <2>1. Len(x) = n
    BY <1>1
  <2>2. Len(units) = Len(e) + Len(x)
    BY <1>2
  <2>3. Len(e) \in Nat
    BY <1>2
  <2> QED
    BY ONLY <2>1, <2>2, <2>3, n \in Nat
<1>5. PICK q : q = SubSeq(units, Len(e) + 1, Len(units))
  OBVIOUS
<1>6. q \in Seq(Units) /\ Len(q) = Len(x) /\ \A i \in 1 .. Len(q) : q[i] = units[Len(e) + i]
  <2>1. Len(e) + 1 \in 1 .. Len(units) + 1 /\ Len(units) - (Len(e) + 1) + 1 = Len(x)
    BY <1>1, <1>2
  <2>2. /\ q \in Seq(Units)
        /\ Len(q) = IF Len(e) + 1 <= Len(units) THEN Len(units) - (Len(e) + 1) + 1 ELSE 0
        /\ \A i \in 1 .. Len(units) - (Len(e) + 1) + 1 : q[i] = units[Len(e) + 1 + i - 1]
    BY <1>2, <1>5, <2>1, SubSeqProperties
  <2>3. Len(q) = Len(x)
    BY <1>1, <1>2, <2>1, <2>2
  <2>4. \A i \in 1 .. Len(q) : q[i] = units[Len(e) + i]
    <3> SUFFICES ASSUME NEW i \in 1 .. Len(q) PROVE q[i] = units[Len(e) + i]
      OBVIOUS
    <3>1. Len(e) + 1 + i - 1 = Len(e) + i
      BY <1>2
    <3>2. i \in 1 .. Len(units) - (Len(e) + 1) + 1
      BY <2>1, <2>3
    <3> QED
      BY <2>2, <3>1, <3>2
  <2> QED
    BY <2>2, <2>3, <2>4
<1>7. q = x
  <2>1. \A i \in 1 .. Len(q) : q[i] = x[i]
    BY <1>3, <1>6
  <2> QED
    BY ONLY <1>6, <2>1, x \in Seq(Units), SeqEqual
<1>8. \A i \in 1 .. Len(e) : IsFrameUnit(units[i])
  BY <1>3
<1> QED
  BY <1>1, <1>4, <1>5, <1>7, <1>8 DEF EndsInData

\* Nothing is lost, doubled or reordered on its way to the bridge.
LEMMA FlowsBridge == FlowsInv => BridgeKeepsEveryByte
<1> SUFFICES ASSUME FlowsInv PROVE BridgeKeepsEveryByte
  OBVIOUS
<1>0. /\ kind \in Kinds /\ failed \in BOOLEAN /\ SentOK(kind, sent) /\ wire \in Seq(Units)
      /\ FlowInv(kind, sent, flow, wire, failed, decided, told, written, bridge)
  BY DEF FlowsInv
<1>n. sent.data \in Nat
  BY <1>0, FlowsAssumption DEF SentOK
<1>1. bridge # << >> => told # << >>
  <2> SUFFICES ASSUME bridge # << >> PROVE told # << >>
    OBVIOUS
  <2>1. CASE kind = "connect"
    <3>1. ConnectInv(sent, flow, wire, failed, told, written, bridge)
      BY <1>0, <2>1 DEF FlowInv
    <3>2. Connected(sent, flow, wire, told, written, bridge)
      BY <1>0, <3>1 DEF ConnectInv
    <3>3. told = <<ConnectVerdict(sent)>>
      BY <3>2 DEF Connected, Answered
    <3> QED
      BY <3>3
  <2>2. CASE kind = "stop"
    <3>1. StopInv(sent, flow, wire, failed, decided, told, written, bridge)
      BY <1>0, <2>2 DEF FlowInv
    <3>2. told = <<sent.frames[1].body>>
      BY <1>0, <3>1 DEF StopInv, StopWaits, StopAsks, StopDecided
    <3> QED
      BY <3>2
  <2>3. kind \in {"connect", "stop"}
    BY <1>0 DEF FlowInv, Kinds
  <2> QED
    BY <2>1, <2>2, <2>3
<1>2. ASSUME Bridges, ~failed
      PROVE  EndsInData(bridge \o flow.bridge_bytes \o flow.recv_buf \o wire, sent.data)
  <2>1. PICK units : units = bridge \o flow.bridge_bytes \o flow.recv_buf \o wire
    OBVIOUS
  <2>e. << >> \in Seq(Units) /\ Len(<< >>) = 0
    BY EmptySeq
  <2>c. << >> \o << >> = << >>
    BY ONLY <2>e, ConcatEmptySeq
  <2>2. ASSUME NEW b \in Seq(Units), b = bridge, NEW held \in Seq(Units), held = flow.bridge_bytes,
               flow.recv_buf = << >>, Carries(sent, b, held, wire)
        PROVE  EndsInData(units, sent.data)
    <3>1. PICK c \in Seq(Units) : c = b \o held
      BY Joins
    <3>2. c \o << >> = c
      BY ONLY c \in Seq(Units), ConcatEmptySeq
    <3>3. units = Data(1, sent.data)
      BY <2>1, <2>2, <3>1, <3>2 DEF Carries
    <3>4. << >> \o Data(1, sent.data) = Data(1, sent.data)
      <4>1. Data(1, sent.data) \in Seq(Units)
        BY <1>n, DataIs
      <4> QED
        BY ONLY <4>1, ConcatEmptySeq
    <3>5. units = << >> \o Data(1, sent.data)
      BY <3>3, <3>4
    <3>6. \A i \in 1 .. Len(<< >>) : IsFrameUnit(<< >>[i])
      BY <2>e
    <3> QED
      BY ONLY <1>n, <2>e, <3>5, <3>6, EndsInDataIs
  <2>3. CASE kind = "connect"
    <3>1. ConnectInv(sent, flow, wire, FALSE, told, written, bridge)
      BY <1>0, <1>2, <2>3 DEF FlowInv
    <3>2. ConnectVerdict(sent) = "Bridged"
      BY <1>2, <2>3 DEF Bridges, ConnectVerdict, First
    <3>3. PICK buf \in Seq(Units), held \in Seq(Units), b \in Seq(Units) :
            buf = flow.recv_buf /\ held = flow.bridge_bytes /\ b = bridge
      BY <3>1 DEF ConnectInv, ConnectFlow
    <3>4. CASE Connected(sent, flow, wire, told, written, bridge)
      <4>1. flow.recv_buf = << >> /\ Carries(sent, b, held, wire)
        BY <3>2, <3>3, <3>4 DEF Connected
      <4> QED
        BY <2>1, <2>2, <3>3, <4>1
    <3>5. CASE ~Connected(sent, flow, wire, told, written, bridge)
      <4>1. PICK m : Sends(sent, m)
        BY <1>0, <2>3, OneSent
      <4>2. Stream(sent) = EncodeFrame(m) \o Data(1, sent.data) /\ m \in Messages
            /\ Stream(sent) \in Seq(Units)
        BY <4>1, StreamOfOne DEF Sends
      <4>3. << >> \o Stream(sent) = Stream(sent)
        BY ONLY <4>2, ConcatEmptySeq
      <4>4. held = << >> /\ b = << >> /\ buf \o wire = Stream(sent)
        BY <3>1, <3>3, <3>5, <4>3 DEF ConnectInv, Unasked, Waiting
      <4>5. << >> \o buf = buf
        BY ONLY buf \in Seq(Units), ConcatEmptySeq
      <4>6. PICK e \in Seq(Units) : /\ e = EncodeFrame(m) /\ Len(e) = FrameLen
                                    /\ \A i \in 1 .. FrameLen : e[i] = [msg |-> m, part |-> i]
        BY <4>2, FrameIs
      <4>7. units = e \o Data(1, sent.data)
        <5>1. PICK d : d = Data(1, sent.data)
          OBVIOUS
        <5>2. units = ((b \o held) \o buf) \o wire
          BY <2>1, <2>c, <3>3
        <5>3. Stream(sent) = e \o d
          BY <4>2, <4>6, <5>1
        <5>4. (b \o held) \o buf = buf
          BY <4>3, <4>4, <4>5
        <5> QED
          BY ONLY <4>4, <5>1, <5>2, <5>3, <5>4
      <4>8. \A i \in 1 .. Len(e) : IsFrameUnit(e[i])
        BY <4>6 DEF IsFrameUnit
      <4>9. EndsInData(units, sent.data)
        BY ONLY <1>n, <4>7, <4>8, e \in Seq(Units), EndsInDataIs
      <4> QED
        BY <2>1, <4>9
    <3> QED
      BY <3>4, <3>5
  <2>4. CASE kind = "stop"
    <3>1. StopInv(sent, flow, wire, FALSE, decided, told, written, bridge)
      BY <1>0, <1>2, <2>4 DEF FlowInv
    <3>2. decided # None /\ decided.call = "Accept"
      BY <1>2, <2>4 DEF Bridges
    <3>3. PICK held \in Seq(Units), b \in Seq(Units) : held = flow.bridge_bytes /\ b = bridge
      BY <3>1 DEF StopInv, StopFlow
    <3>4. flow.recv_buf = << >> /\ Carries(sent, b, held, wire)
      BY <3>1, <3>2, <3>3 DEF StopInv, StopWaits, StopAsks, StopDecided
    <3> QED
      BY <2>1, <2>2, <3>3, <3>4
  <2> QED
    BY <1>2, <2>3, <2>4 DEF Bridges
<1> QED
  BY <1>1, <1>2 DEF BridgeKeepsEveryByte, EndsInData

-----------------------------------------------------------------------------
\* Each variable of the host and each flow's state has its type.
THEOREM FlowsTypes == Spec => []TypeOK
BY FlowsInvariant, FlowsTyped, PTL

\* However the bytes are cut, joined with what follows and polled, a host is
\* told what the frames mean, once and in order, and nothing of a wrong frame.
THEOREM MeaningIsTold == Spec => []TellsTheMeaning
BY FlowsInvariant, FlowsTell, PTL

\* Every flow writes its own messages and no others, none before the host has
\* acted where it has to.
THEOREM RequestsAreWritten == Spec => []WritesTheRequests
BY FlowsInvariant, FlowsWrite, PTL

\* The bytes behind the STATUS or CONNECT frame all get to the bridge, in
\* order, whether they came with the frame, before the decision or after it.
THEOREM BridgeIsComplete == Spec => []BridgeKeepsEveryByte
BY FlowsInvariant, FlowsBridge, PTL

\* No flow refuses a remote that keeps to the protocol and to the size limit.
THEOREM ErrorsAreExcused == Spec => []FailsOnlyWhenWrong
BY FlowsInvariant, FlowsExcused, PTL
=============================================================================
