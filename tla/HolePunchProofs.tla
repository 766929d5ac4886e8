-------------------------- MODULE HolePunchProofs ---------------------------
(***************************************************************************)
(* The proofs about the two scripts that meet through a relay.  The        *)
(* inductive invariant HolePunchInv says, for each wait of a script, what   *)
(* it has buffered and what is on its way to it: the start of the other     *)
(* end's next frame, the rest of that frame and what may follow it, then    *)
(* nothing but the end of the stream, which is there only if the circuit is *)
(* closed or the other script has ended.  So a decode always sees the frame *)
(* the script waits for.                                                    *)
(***************************************************************************)
EXTENDS HolePunch, SequenceLemmas

-----------------------------------------------------------------------------
(* Messages and units.                                                     *)

MessageKinds == {"RESERVE", "CONNECT", "STATUS", "SYNC"}
Names == {None, "Ok", "ReservationRefused", "NoReservation", "Dialer", "Listener"}
Messages == [kind : MessageKinds, body : Names \cup SUBSET Sides]

FrameUnits == [msg : Messages, part : Nat]
DataUnits == [data : Nat]

Clear == FrameUnits \cup DataUnits
Plain == FrameUnits \cup {Fin}
Units == Clear \cup {Fin}
Fins == Seq({Fin})

\* Fin, data and frames are told apart.
LEMMA UnitsDiffer == Fin \notin Clear /\ (\A u \in DataUnits : u \notin Plain)
<1>1. DOMAIN Fin = {"fin"} /\ Fin.fin
  BY DEF Fin
<1>2. \A u \in FrameUnits : "msg" \in DOMAIN u
  BY DEF FrameUnits
<1>3. \A u \in DataUnits : DOMAIN u = {"data"}
  BY DEF DataUnits
<1> QED
  BY <1>1, <1>2, <1>3 DEF Clear, Plain

\* A sequence over a smaller set.
LEMMA SeqWidens ==
    ASSUME NEW X, NEW Y, X \subseteq Y, NEW s \in Seq(X)
    PROVE  s \in Seq(Y)
OBVIOUS

\* Sequences of units of each kind.
LEMMA UnitSeqs ==
    /\ \A s \in Seq(Clear) : s \in Seq(Units)
    /\ \A s \in Seq(Plain) : s \in Seq(Units)
    /\ \A s \in Fins : s \in Seq(Units) /\ s \in Seq(Plain)
    /\ \A s \in Seq(FrameUnits) : s \in Seq(Clear) /\ s \in Seq(Plain)
    /\ \A s \in Seq(DataUnits) : s \in Seq(Clear)
<1>1. /\ Clear \subseteq Units /\ Plain \subseteq Units /\ {Fin} \subseteq Units /\ {Fin} \subseteq Plain
      /\ FrameUnits \subseteq Clear /\ FrameUnits \subseteq Plain /\ DataUnits \subseteq Clear
  BY DEF Units, Clear, Plain
<1>2. \A X, Y : X \subseteq Y => \A s \in Seq(X) : s \in Seq(Y)
  BY SeqWidens
<1> QED
  BY ONLY <1>1, <1>2 DEF Fins

\* The empty sequence and a single Fin.
LEMMA SmallSeqs ==
    /\ << >> \in Seq(Clear) /\ << >> \in Fins /\ << >> \in Seq(Units) /\ << >> \in Seq(Plain)
    /\ <<Fin>> \in Fins
BY DEF Fins

\* The units of a frame.
LEMMA FrameIs ==
    ASSUME NEW m \in Messages
    PROVE  /\ EncodeFrame(m) \in Seq(FrameUnits) /\ Len(EncodeFrame(m)) = FrameLen
           /\ EncodeFrame(m) # << >>
           /\ \A i \in 1 .. FrameLen : EncodeFrame(m)[i] = [msg |-> m, part |-> i]
<1>1. FrameLen \in Nat /\ FrameLen > 0
  BY FramesAssumption
<1>2. PICK e : e = EncodeFrame(m)
  OBVIOUS
<1>3. /\ e \in [1 .. FrameLen -> FrameUnits]
      /\ \A i \in 1 .. FrameLen : e[i] = [msg |-> m, part |-> i]
  BY <1>1, <1>2 DEF EncodeFrame, FrameUnits
<1>4. e \in Seq(FrameUnits) /\ Len(e) = FrameLen
  BY <1>1, <1>3
<1> QED
  BY <1>1, <1>2, <1>3, <1>4

\* The relayed ping.
LEMMA PayloadIs ==
    /\ Payload \in Seq(DataUnits) /\ Len(Payload) = PayloadLen /\ Payload # << >>
    /\ Payload[1] \in DataUnits
<1>1. PayloadLen \in Nat /\ PayloadLen > 0 /\ PayloadLen + 1 - 1 = PayloadLen
  BY HolePunchAssumption
<1>2. PICK e : e = Payload
  OBVIOUS
<1>3. e \in [1 .. PayloadLen -> DataUnits]
  <2>1. \A i \in 1 .. PayloadLen : [data |-> 1 + i - 1] \in DataUnits
    BY <1>1 DEF DataUnits
  <2> QED
    BY <1>1, <1>2, <2>1 DEF Payload, Data
<1>4. e \in Seq(DataUnits) /\ Len(e) = PayloadLen
  BY <1>1, <1>3
<1>5. e # << >> /\ e[1] \in DataUnits
  BY <1>1, <1>4
<1> QED
  BY <1>2, <1>4, <1>5

-----------------------------------------------------------------------------
(* The frames of the two scripts and of the relay.                         *)

ReserveF == EncodeFrame(Message("RESERVE", None))
HopF == EncodeFrame(Message("CONNECT", "Listener"))
StatusF(status) == EncodeFrame(Message("STATUS", status))
StopF == EncodeFrame(Message("CONNECT", "Dialer"))
ConnectF(addrs) == EncodeFrame(Message("CONNECT", addrs))
SyncF == EncodeFrame(Message("SYNC", {}))

Statuses == {"Ok", "ReservationRefused", "NoReservation"}

\* They are messages of the wire.
LEMMA MessagesAre ==
    /\ Message("RESERVE", None) \in Messages /\ Message("SYNC", {}) \in Messages
    /\ Message("CONNECT", "Listener") \in Messages /\ Message("CONNECT", "Dialer") \in Messages
    /\ \A status \in Statuses : Message("STATUS", status) \in Messages
    /\ \A addrs \in SUBSET Sides : Message("CONNECT", addrs) \in Messages
<1>1. ASSUME NEW k \in MessageKinds, NEW b \in Names \cup SUBSET Sides PROVE Message(k, b) \in Messages
  BY DEF Message, Messages
<1>2. {} \in SUBSET Sides /\ Statuses \subseteq Names
  BY DEF Statuses, Names
<1> QED
  BY <1>1, <1>2 DEF MessageKinds, Names

-----------------------------------------------------------------------------
(* What a stream brings.                                                   *)

\* buf, then w, is x and then, only if the stream may be over, Fin.
Brings(buf, w, x, gone) ==
    \E t \in Fins : buf \o w = x \o t /\ (t = << >> \/ gone)

\* Two sequences in a row, for the sets of units.
LEMMA Joins ==
    ASSUME NEW X, NEW a \in Seq(X), NEW b \in Seq(X), NEW c, c = a \o b
    PROVE  c \in Seq(X) /\ Len(a) \in Nat /\ Len(b) \in Nat /\ Len(c) = Len(a) + Len(b)
BY ConcatHalves

\* Two sequences that make up an empty one.
LEMMA JoinsEmpty ==
    ASSUME NEW X, NEW a \in Seq(X), NEW b \in Seq(X), a \o b = << >>
    PROVE  a = << >> /\ b = << >>
<1>1. PICK c : c = a \o b
  OBVIOUS
<1>2. Len(a) \in Nat /\ Len(b) \in Nat /\ Len(c) = Len(a) + Len(b)
  BY ONLY <1>1, a \in Seq(X), b \in Seq(X), Joins
<1>3. Len(c) = 0
  BY <1>1
<1>4. Len(a) = 0 /\ Len(b) = 0
  BY <1>2, <1>3
<1> QED
  BY <1>4

\* Three sequences in a row.
LEMMA Regroup == \A p, q, u \in Seq(Units) : (p \o q) \o u = p \o (q \o u)
BY ConcatAssociative

\* Nothing on either side of a sequence.
LEMMA Alone == \A p \in Seq(Units) : p \o << >> = p /\ << >> \o p = p
BY ConcatEmptySeq

\* b is the first part of x, and z the other part with t behind it.
Split(b, z, x, t) == \E y \in Seq(Clear) : x = b \o y /\ z = y \o t

\* Fin ends what is read: b, which has none, is a part of x.
LEMMA Splits ==
    ASSUME NEW b \in Seq(Clear), NEW z \in Seq(Units), NEW x \in Seq(Clear), NEW t \in Fins,
           b \o z = x \o t
    PROVE  Split(b, z, x, t)
<1>1. b \in Seq(Units) /\ x \in Seq(Units) /\ t \in Seq(Units)
  BY UnitSeqs
<1>2. PICK C : C = b \o z
  OBVIOUS
<1>3. /\ Len(b) \in Nat /\ Len(z) \in Nat /\ Len(C) = Len(b) + Len(z)
      /\ \A i \in 1 .. Len(b) : C[i] = b[i]
  <2>1. /\ Len(b) \in Nat /\ Len(z) \in Nat /\ Len(b \o z) = Len(b) + Len(z)
        /\ \A i \in 1 .. Len(b) : (b \o z)[i] = b[i]
    BY ONLY <1>1, z \in Seq(Units), ConcatHalves
  <2> QED
    BY ONLY <1>2, <2>1, Zenon
<1>4. /\ Len(x) \in Nat /\ Len(t) \in Nat /\ Len(C) = Len(x) + Len(t)
      /\ \A i \in 1 .. Len(x) : C[i] = x[i]
      /\ \A i \in 1 .. Len(t) : C[Len(x) + i] = t[i]
  <2>1. /\ Len(x) \in Nat /\ Len(t) \in Nat /\ Len(x \o t) = Len(x) + Len(t)
        /\ \A i \in 1 .. Len(x) : (x \o t)[i] = x[i]
        /\ \A i \in 1 .. Len(t) : (x \o t)[Len(x) + i] = t[i]
    BY ONLY <1>1, ConcatHalves
  <2>2. C = x \o t
    BY ONLY <1>2, b \o z = x \o t, Zenon
  <2> QED
    BY ONLY <2>1, <2>2, Zenon
<1>5. Len(b) <= Len(x)
  <2> SUFFICES ASSUME Len(b) > Len(x) PROVE FALSE
    BY <1>3, <1>4
  <2>1. Len(x) + 1 \in 1 .. Len(b) /\ 1 \in 1 .. Len(t)
    BY <1>3, <1>4
  <2>2. b[Len(x) + 1] = t[1]
    BY <1>3, <1>4, <2>1
  <2>3. t[1] = Fin
    BY <2>1 DEF Fins
  <2>4. b[Len(x) + 1] \in Clear
    BY <2>1
  <2> QED
    BY <2>2, <2>3, <2>4, UnitsDiffer
<1>6. Reads(Units, x, t, b, z)
  BY ONLY <1>1, z \in Seq(Units), b \o z = x \o t, ReadsInOrder
<1>7. PICK y : y = SubSeq(x, Len(b) + 1, Len(x))
  OBVIOUS
<1>8. y \o t = z
  BY <1>5, <1>6, <1>7 DEF Reads
<1>9. y \in Seq(Clear) /\ SubSeq(x, 1, Len(b)) \in Seq(Clear) /\ Len(SubSeq(x, 1, Len(b))) = Len(b)
      /\ SubSeq(x, 1, Len(b)) \o y = x
  <2>1. Len(b) \in 0 .. Len(x)
    BY <1>3, <1>4, <1>5
  <2> QED
    BY ONLY <1>7, <2>1, x \in Seq(Clear), CutAt
<1>10. SubSeq(x, 1, Len(b)) = b
  <2>1. PICK u : u = SubSeq(x, 1, Len(b))
    OBVIOUS
  <2>2. u \in Seq(Clear) /\ Len(u) = Len(b) /\ \A i \in 1 .. Len(b) : u[i] = x[i]
    BY <1>3, <1>4, <1>5, <1>9, <2>1, SubSeqProperties
  <2>3. \A i \in 1 .. Len(b) : u[i] = b[i]
    BY <1>3, <1>4, <1>5, <2>2
  <2>4. u \in [1 .. Len(b) -> Clear] /\ b \in [1 .. Len(b) -> Clear]
    BY ONLY <1>3, <2>2, b \in Seq(Clear)
  <2>5. u = b
    BY ONLY <2>3, <2>4
  <2> QED
    BY <2>1, <2>5
<1> QED
  BY <1>8, <1>9, <1>10 DEF Split

\* Units a, with no Fin among them, move from the wire, which is z then, to the
\* buffer, which is b then.
Moves(buf, w, a, b, z) ==
    /\ a \in Seq(Clear) /\ a # << >> /\ b \in Seq(Clear) /\ z \in Seq(Units)
    /\ b = buf \o a /\ b \o z = buf \o w /\ a \o z = w

\* UserStreamData moves units so.
LEMMA Arrive ==
    ASSUME NEW buf \in Seq(Clear), NEW w \in Seq(Units), NEW n \in 1 .. Len(w),
           NEW a, a = SubSeq(w, 1, n), NEW z, z = SubSeq(w, n + 1, Len(w)),
           \A i \in DOMAIN a : a[i] # Fin
    PROVE  Moves(buf, w, a, buf \o a, z)
<1>1. a \in Seq(Units) /\ z \in Seq(Units) /\ a \o z = w /\ Len(a) = n
  <2>1. n \in 0 .. Len(w)
    OBVIOUS
  <2> QED
    BY ONLY <2>1, w \in Seq(Units), a = SubSeq(w, 1, n), z = SubSeq(w, n + 1, Len(w)), CutAt
<1>2. a \in Seq(Clear)
  <2>2. Len(a) \in Nat /\ a \in [1 .. Len(a) -> Units] /\ DOMAIN a = 1 .. Len(a)
    BY ONLY <1>1
  <2>1. \A i \in 1 .. Len(a) : a[i] \in Clear
    BY ONLY <2>2, \A i \in DOMAIN a : a[i] # Fin DEF Units
  <2>3. a \in [1 .. Len(a) -> Clear]
    BY ONLY <2>1, <2>2
  <2> QED
    BY ONLY <2>2, <2>3
<1>3. a # << >>
  <2>1. n > 0
    OBVIOUS
  <2> QED
    BY ONLY <1>1, <2>1
<1>4. buf \in Seq(Units)
  BY UnitSeqs
<1>5. (buf \o a) \o z = buf \o (a \o z)
  BY ONLY <1>1, <1>4, Regroup
<1>6. PICK b : b = buf \o a
  OBVIOUS
<1>7. b \in Seq(Clear)
  BY ONLY <1>2, <1>6, buf \in Seq(Clear), Joins
<1> QED
  BY <1>1, <1>2, <1>3, <1>5, <1>6, <1>7 DEF Moves

\* A stream that brings nothing brings no data.
LEMMA NothingComes ==
    ASSUME NEW buf \in Seq(Clear), NEW w \in Seq(Units), NEW a, NEW b, NEW z, NEW gone,
           Moves(buf, w, a, b, z), Brings(buf, w, << >>, gone)
    PROVE  FALSE
<1>1. PICK t \in Fins : buf \o w = << >> \o t
  BY DEF Brings
<1>2. b \in Seq(Clear) /\ z \in Seq(Units) /\ b \o z = << >> \o t
  BY <1>1 DEF Moves
<1>a. PICK e : e = << >>
  OBVIOUS
<1>b. e \in Seq(Clear) /\ b \o z = e \o t /\ Len(e) = 0
  BY <1>a, <1>2, SmallSeqs
<1>3. PICK y \in Seq(Clear) : e = b \o y
  <2>1. b \o z = e \o t
    BY <1>b
  <2>2. Split(b, z, e, t)
    BY ONLY <1>2, <1>b, <2>1, t \in Fins, Splits
  <2> QED
    BY ONLY <2>2, Zenon DEF Split
<1>4. b = << >>
  BY <1>a, <1>2, <1>3, JoinsEmpty
<1>5. a \in Seq(Clear) /\ b = buf \o a /\ a # << >>
  BY DEF Moves
<1> QED
  BY <1>4, <1>5, JoinsEmpty

\* A stream that brings nothing more has brought nothing.
LEMMA NothingHeld ==
    ASSUME NEW buf \in Seq(Clear), NEW w \in Seq(Units), NEW gone, Brings(buf, w, << >>, gone)
    PROVE  /\ buf = << >>
           /\ ~gone => w = << >>
<1>1. PICK t \in Fins : buf \o w = << >> \o t /\ (t = << >> \/ gone)
  BY DEF Brings
<1>a. PICK e : e = << >>
  OBVIOUS
<1>b. e \in Seq(Clear) /\ Len(e) = 0
  BY <1>a, SmallSeqs
<1>2. PICK y \in Seq(Clear) : e = buf \o y /\ w = y \o t
  <2>1. buf \o w = e \o t
    BY <1>1, <1>a
  <2>2. Split(buf, w, e, t)
    BY ONLY <2>1, <1>b, buf \in Seq(Clear), w \in Seq(Units), t \in Fins, Splits
  <2> QED
    BY ONLY <2>2, Zenon DEF Split
<1>5. buf = << >> /\ y = << >>
  BY <1>a, <1>2, JoinsEmpty
<1>6. t = << >> => w = << >>
  BY <1>2, <1>5, SmallSeqs, Alone
<1> QED
  BY <1>1, <1>5, <1>6

\* Fin in front of the wire: the buffer holds all there was before it.
LEMMA FinComes ==
    ASSUME NEW buf \in Seq(Clear), NEW w \in Seq(Units), NEW x \in Seq(Clear), NEW gone \in BOOLEAN,
           Brings(buf, w, x, gone), w # << >>, Head(w) = Fin
    PROVE  gone /\ Brings(buf, Tail(w), x, gone)
<1>1. PICK t \in Fins : buf \o w = x \o t /\ (t = << >> \/ gone)
  BY DEF Brings
<1>2. PICK y \in Seq(Clear) : x = buf \o y /\ w = y \o t
  <2>1. buf \o w = x \o t
    BY <1>1
  <2>2. Split(buf, w, x, t)
    BY ONLY <2>1, buf \in Seq(Clear), w \in Seq(Units), t \in Fins, x \in Seq(Clear), Splits
  <2> QED
    BY ONLY <2>2, Zenon DEF Split
<1>3. t \in Seq(Units) /\ y \in Seq(Units) /\ x \in Seq(Units) /\ buf \in Seq(Units)
  BY UnitSeqs
<1>4. y = << >>
  <2> SUFFICES ASSUME y # << >> PROVE FALSE
    OBVIOUS
  <2>1. Len(y) \in Nat /\ Len(y) > 0 /\ y[1] \in Clear
    BY <2>1
  <2>2. (y \o t)[1] = y[1]
    BY ONLY <1>3, <2>1, ConcatHalves
  <2>3. w[1] = Fin
    BY w # << >>
  <2> QED
    BY <1>2, <2>1, <2>2, <2>3, UnitsDiffer
<1>5. w = t /\ x = buf
  BY <1>2, <1>3, <1>4, Alone
<1>6. gone /\ Tail(w) \in Fins
  <2>1. t # << >>
    BY <1>5
  <2>2. Tail(t) \in Fins
    BY <2>1, HeadTailProperties DEF Fins
  <2> QED
    BY <1>1, <1>5, <2>1, <2>2
<1> QED
  BY <1>5, <1>6 DEF Brings

-----------------------------------------------------------------------------
(* A decoder at the front of a stream.                                     *)

\* b is the start of the frame of m, or has it whole with some of what follows.
Decodes(b, z, m, after, gone) ==
    \/ /\ Decode(b) = "Incomplete" /\ Len(b) < FrameLen
       /\ Brings(b, z, EncodeFrame(m) \o after, gone)
    \/ /\ Decode(b) = "Complete" /\ FrontOf(b) = m /\ RestOf(b) \in Seq(Clear)
       /\ Brings(RestOf(b), z, after, gone)

Sees(b, y, m, after) ==
    \/ Decode(b) = "Incomplete" /\ Len(b) < FrameLen
    \/ /\ Decode(b) = "Complete" /\ FrontOf(b) = m
       /\ RestOf(b) \in Seq(Clear) /\ RestOf(b) \o y = after

\* However the frame is cut, it is never taken for another one.
LEMMA DecodeSees ==
    ASSUME NEW b \in Seq(Clear), NEW y \in Seq(Clear), NEW m \in Messages, NEW after \in Seq(Clear),
           EncodeFrame(m) \o after = b \o y, FrameLen + Len(after) <= MaxSize
    PROVE  Sees(b, y, m, after)
<1>0. FrameLen \in Nat /\ FrameLen > 0 /\ MaxSize \in Nat /\ Len(b) \in Nat /\ Len(after) \in Nat
  BY FramesAssumption
<1>1. PICK e : e = EncodeFrame(m)
  OBVIOUS
<1>2. /\ e \in Seq(Clear) /\ Len(e) = FrameLen
      /\ \A i \in 1 .. FrameLen : e[i] = [msg |-> m, part |-> i]
  BY <1>1, FrameIs, UnitSeqs
<1>3. Reads(Clear, b, y, e, after)
  <2>1. b \o y = e \o after
    BY <1>1
  <2> QED
    BY ONLY <1>2, <2>1, b \in Seq(Clear), y \in Seq(Clear), after \in Seq(Clear), ReadsInOrder
<1>4. Len(b) <= MaxSize
  <2>1. PICK u : u = b \o y
    OBVIOUS
  <2>2. Len(u) = Len(b) + Len(y) /\ Len(b) \in Nat /\ Len(y) \in Nat
    BY ONLY <2>1, b \in Seq(Clear), y \in Seq(Clear), Joins
  <2>3. u = e \o after
    BY <1>1, <2>1
  <2>5. e \in Seq(Clear)
    BY <1>2
  <2>4. Len(u) = Len(e) + Len(after)
    BY ONLY <2>3, <2>5, after \in Seq(Clear), Joins
  <2> QED
    BY <1>0, <1>2, <2>2, <2>4
<1>5. b # << >> => b[1] = [msg |-> m, part |-> 1]
  <2> SUFFICES ASSUME b # << >> PROVE b[1] = [msg |-> m, part |-> 1]
    OBVIOUS
  <2>1. 1 \in 1 .. Len(b) /\ 1 \in 1 .. FrameLen /\ 1 <= Len(e)
    BY <1>0, <1>2, EmptySeq
  <2>2. b[1] = e[1]
    BY <1>3, <2>1 DEF Reads
  <2> QED
    BY <1>2, <2>1, <2>2
<1>6. b # << >> => IsFrameUnit(b[1]) /\ b[1].part = 1 /\ b[1].msg = m
  BY <1>5 DEF IsFrameUnit
<1>7. FrameLen <= Len(b) => RestOf(b) \in Seq(Clear) /\ RestOf(b) \o y = after
  BY <1>2, <1>3 DEF Reads, RestOf
<1>8. m.kind \notin {"garbage", "malformed"}
  BY DEF Messages, MessageKinds
<1>9. /\ Len(b) < FrameLen => DecodeFrame(b) = "Incomplete"
      /\ FrameLen <= Len(b) => DecodeFrame(b) = "Complete" /\ b # << >>
  <2>1. CASE b = << >>
    BY <1>0, <2>1 DEF DecodeFrame
  <2>2. CASE b # << >>
    BY <1>0, <1>6, <1>8, <2>2 DEF DecodeFrame
  <2> QED
    BY <2>1, <2>2
<1>10. /\ Len(b) < FrameLen => Decode(b) = "Incomplete"
       /\ FrameLen <= Len(b) => Decode(b) = "Complete"
  BY <1>0, <1>4, <1>6, <1>8, <1>9 DEF Decode
<1> QED
  BY <1>0, <1>6, <1>7, <1>9, <1>10 DEF FrontOf, Sees

\* What a frame's decoder sees when data arrives.
LEMMA FrameComes ==
    ASSUME NEW buf \in Seq(Clear), NEW w \in Seq(Units), NEW a, NEW b, NEW z, NEW gone \in BOOLEAN,
           Moves(buf, w, a, b, z), NEW m \in Messages, NEW after \in Seq(Clear),
           Brings(buf, w, EncodeFrame(m) \o after, gone), FrameLen + Len(after) <= MaxSize
    PROVE  Decodes(b, z, m, after, gone)
<1>1. PICK x : x = EncodeFrame(m) \o after
  OBVIOUS
<1>2. x \in Seq(Clear)
  <2>1. EncodeFrame(m) \in Seq(Clear)
    BY FrameIs, UnitSeqs
  <2> QED
    BY ONLY <1>1, <2>1, after \in Seq(Clear), Joins
<1>3. PICK t \in Fins : buf \o w = x \o t /\ (t = << >> \/ gone)
  BY <1>1 DEF Brings
<1>4. b \in Seq(Clear) /\ z \in Seq(Units) /\ b \o z = x \o t
  BY <1>3 DEF Moves
<1>5. Brings(b, z, x, gone)
  BY <1>3, <1>4 DEF Brings
<1>6. PICK y \in Seq(Clear) : x = b \o y /\ z = y \o t
  <2>1. b \o z = x \o t
    BY <1>4
  <2>2. Split(b, z, x, t)
    BY ONLY <1>2, <1>4, <2>1, t \in Fins, Splits
  <2> QED
    BY ONLY <2>2, Zenon DEF Split
<1>7. \/ Decode(b) = "Incomplete" /\ Len(b) < FrameLen
      \/ /\ Decode(b) = "Complete" /\ FrontOf(b) = m
         /\ RestOf(b) \in Seq(Clear) /\ RestOf(b) \o y = after
  <2>1. EncodeFrame(m) \o after = b \o y
    BY <1>1, <1>6
  <2>2. b \in Seq(Clear)
    BY <1>4
  <2>3. Sees(b, y, m, after)
    BY ONLY <2>1, <2>2, y \in Seq(Clear), m \in Messages, after \in Seq(Clear),
            FrameLen + Len(after) <= MaxSize, DecodeSees
  <2> QED
    BY ONLY <2>3, Zenon DEF Sees
<1>8. CASE Decode(b) = "Incomplete" /\ Len(b) < FrameLen
  BY <1>1, <1>5, <1>8 DEF Decodes
<1>9. CASE /\ Decode(b) = "Complete" /\ FrontOf(b) = m
           /\ RestOf(b) \in Seq(Clear) /\ RestOf(b) \o y = after
  <2>1. PICK r : r = RestOf(b)
    OBVIOUS
  <2>2. r \in Seq(Units) /\ y \in Seq(Units) /\ t \in Seq(Units)
    BY <1>9, <2>1, UnitSeqs
  <2>3. r \o (y \o t) = (r \o y) \o t
    BY ONLY <2>2, Regroup
  <2>4. r \o z = after \o t
    BY <1>6, <1>9, <2>1, <2>3
  <2>5. Brings(r, z, after, gone)
    BY <1>3, <2>4 DEF Brings
  <2> QED
    BY <1>9, <2>1, <2>5 DEF Decodes
<1> QED
  BY <1>7, <1>8, <1>9

\* The same for a frame that nothing follows: the buffer is empty once it is taken.
LEMMA LastFrameComes ==
    ASSUME NEW buf \in Seq(Clear), NEW w \in Seq(Units), NEW a, NEW b, NEW z, NEW gone \in BOOLEAN,
           Moves(buf, w, a, b, z), NEW m \in Messages, Brings(buf, w, EncodeFrame(m), gone)
    PROVE  \/ /\ Decode(b) = "Incomplete" /\ Len(b) < FrameLen
              /\ Brings(b, z, EncodeFrame(m), gone)
           \/ /\ Decode(b) = "Complete" /\ FrontOf(b) = m /\ RestOf(b) = << >>
              /\ Brings(<< >>, z, << >>, gone)
<1>1. EncodeFrame(m) \in Seq(Units)
  BY FrameIs, UnitSeqs
<1>2. EncodeFrame(m) \o << >> = EncodeFrame(m)
  BY ONLY <1>1, Alone
<1>3. PICK e : e = << >>
  OBVIOUS
<1>4. e \in Seq(Clear) /\ FrameLen + Len(e) <= MaxSize /\ EncodeFrame(m) \o e = EncodeFrame(m)
  BY <1>2, <1>3, FramesAssumption, SmallSeqs
<1>5. Brings(buf, w, EncodeFrame(m) \o e, gone)
  BY <1>4
<1>6. Decodes(b, z, m, e, gone)
  BY ONLY <1>4, <1>5, FrameComes, buf \in Seq(Clear), w \in Seq(Units), gone \in BOOLEAN,
          Moves(buf, w, a, b, z), m \in Messages
<1>7. z \in Seq(Units)
  BY DEF Moves
<1>8. RestOf(b) \in Seq(Clear) /\ Brings(RestOf(b), z, e, gone) => RestOf(b) = << >>
  <2>1. PICK r : r = RestOf(b)
    OBVIOUS
  <2>2. r \in Seq(Clear) /\ Brings(r, z, << >>, gone) => r = << >>
    BY ONLY <1>7, NothingHeld
  <2> QED
    BY <1>3, <2>1, <2>2
<1> QED
  BY <1>3, <1>4, <1>6, <1>8 DEF Decodes

-----------------------------------------------------------------------------
(* The flows while a script waits for the next frame, buf received so far.  *)

ReserveFlow(buf) ==
    [outbound : {<< >>}, recv_buf : {buf}, state : {"AwaitingResponse"}, outcome : {None},
     emitted_outcome : {FALSE}]

HopFlow(buf) ==
    [outbound : {<< >>}, recv_buf : {buf}, state : {"AwaitingResponse"}, outcome : {None},
     emitted_outcome : {FALSE}, bridge_bytes : {<< >>}]

StopFlow(buf) ==
    [outbound : {<< >>}, recv_buf : {buf}, state : {"AwaitingConnect"}, request : {None},
     emitted_request : {FALSE}, bridge_bytes : {<< >>}]

InitiatorFlow(buf) ==
    [outbound : {<< >>}, recv_buf : {buf}, state : {"AwaitingConnectReply"}, outcome : {None},
     emitted_outcome : {FALSE}]

ResponderFlow(own, buf, state) ==
    [own_addrs : {own}, outbound : {<< >>}, recv_buf : {buf}, state : {state}, events : {<< >>}]

\* The outputs of a flow are not taken for none.
LEMMA OutputsAre ==
    /\ \A v \in {"Accepted", "Refused", "Bridged"} : [kind |-> "Outcome", value |-> v] # None /\ v # None
    /\ [kind |-> "Request", value |-> "Dialer"] # None /\ "Dialer" # None
    /\ \A A \in SUBSET Sides : [kind |-> "Outcome", value |-> A] # None /\ A # None
<1>1. ASSUME NEW v \in {"Accepted", "Refused", "Bridged"}
      PROVE  [kind |-> "Outcome", value |-> v] # None /\ v # None
  BY AbsentAssumption
<1>2. [kind |-> "Request", value |-> "Dialer"] # None /\ "Dialer" # None
  BY AbsentAssumption
<1>3. ASSUME NEW A \in SUBSET Sides PROVE [kind |-> "Outcome", value |-> A] # None /\ A # None
  <2>1. A \in SUBSET {"Dialer", "Listener"}
    BY DEF Sides
  <2>2. [kind |-> "Outcome", value |-> A] \in [kind : {"Outcome"}, value : SUBSET {"Dialer", "Listener"}]
    BY <2>1
  <2> QED
    BY <2>1, <2>2, AbsentAssumption
<1> QED
  BY <1>1, <1>2, <1>3

\* HopReservation flushes its request.
LEMMA ReserveAsks ==
    ASSUME NEW r, r = ReservationPoll(NewReservation)
    PROVE  r.flow \in ReserveFlow(<< >>) /\ r.out.value = ReserveF
<1>1. ReserveF # << >>
  BY FrameIs, MessagesAre DEF ReserveF
<1>2. NewReservation.outbound = ReserveF
  BY DEF NewReservation, ReserveF
<1>3. r = Output(Flushed(NewReservation), "Outbound", ReserveF)
  BY <1>1, <1>2 DEF ReservationPoll
<1>4. Flushed(NewReservation) \in ReserveFlow(<< >>)
  BY DEF Flushed, NewReservation, ReserveFlow
<1> QED
  BY <1>3, <1>4 DEF Output

\* HopConnect flushes its request.
LEMMA HopAsks ==
    ASSUME NEW r, r = ConnectPoll(NewConnect("Listener"))
    PROVE  r.flow \in HopFlow(<< >>) /\ r.out.value = HopF
<1>1. HopF # << >>
  BY FrameIs, MessagesAre DEF HopF
<1>0. PICK f : f = NewConnect("Listener")
  OBVIOUS
<1>2. f.outbound = HopF
  BY <1>0 DEF NewConnect, HopF
<1>3. r = Output(Flushed(f), "Outbound", HopF)
  BY <1>0, <1>1, <1>2 DEF ConnectPoll
<1>4. Flushed(f) \in HopFlow(<< >>)
  BY <1>0 DEF Flushed, NewConnect, HopFlow
<1> QED
  BY <1>3, <1>4 DEF Output

\* HopReservation reads a part of the answer.
LEMMA ReserveWaitsOn ==
    ASSUME NEW buf, NEW f \in ReserveFlow(buf), NEW data, NEW b, b = buf \o data,
           Decode(b) = "Incomplete", NEW r, r = ReservationData(f, data)
    PROVE  r.ok /\ r.flow \in ReserveFlow(b)
<1>1. PICK g : g = [f EXCEPT !.recv_buf = @ \o data]
  OBVIOUS
<1>2. g \in ReserveFlow(b) /\ f.state # "Done"
  BY <1>1 DEF ReserveFlow
<1>3. r = ReservationDecode(g)
  BY <1>1, <1>2 DEF ReservationData
<1>4. g.recv_buf = b
  BY <1>2 DEF ReserveFlow
<1>5. r = Ok(g)
  BY <1>3, <1>4 DEF ReservationDecode
<1> QED
  BY <1>2, <1>5 DEF Ok

ReserveOver(r) ==
    /\ r.ok /\ r.flow.outbound = << >> /\ ~r.flow.emitted_outcome
    /\ r.flow.outcome \in {"Accepted", "Refused"}

\* HopReservation reads the answer.
LEMMA ReserveAnswers ==
    ASSUME NEW buf, NEW f \in ReserveFlow(buf), NEW data, NEW b, b = buf \o data, NEW st,
           Decode(b) = "Complete", FrontOf(b) = Message("STATUS", st),
           NEW r, r = ReservationData(f, data)
    PROVE  ReserveOver(r)
<1>1. PICK g : g = [f EXCEPT !.recv_buf = @ \o data]
  OBVIOUS
<1>2. g \in ReserveFlow(b) /\ f.state # "Done"
  BY <1>1 DEF ReserveFlow
<1>3. r = ReservationDecode(g)
  BY <1>1, <1>2 DEF ReservationData
<1>4. g.recv_buf = b /\ g.state # "Done"
  BY <1>2 DEF ReserveFlow
<1>5. PICK h : h = [Done(g) EXCEPT !.recv_buf = RestOf(@)]
  OBVIOUS
<1>6. FrontOf(b).kind = "STATUS" /\ FrontOf(b).body = st
  BY DEF Message
<1>a. PICK v : v = IF st = "Ok" THEN "Accepted" ELSE "Refused"
  OBVIOUS
<1>b. PICK k : k = [h EXCEPT !.outcome = v, !.emitted_outcome = FALSE]
  OBVIOUS
<1>7. r = Ok(k)
  BY <1>3, <1>4, <1>5, <1>6, <1>a, <1>b DEF ReservationDecode
<1>8. h \in [outbound : {<< >>}, recv_buf : {RestOf(b)}, state : {"Done"}, outcome : {None},
             emitted_outcome : {FALSE}]
  BY <1>2, <1>5 DEF ReserveFlow, Done
<1>9. k.outbound = << >> /\ ~k.emitted_outcome /\ k.outcome = v
  BY <1>b, <1>8
<1>10. r.ok /\ r.flow = k
  BY <1>7 DEF Ok
<1> QED
  BY <1>9, <1>10, <1>a DEF ReserveOver

\* What it tells: nothing while it waits, then the verdict.
LEMMA ReserveTells ==
    ASSUME NEW f, NEW r, r = ReservationPoll(f)
    PROVE  /\ \A b : f \in ReserveFlow(b) => r.out = None /\ r.flow \in ReserveFlow(b)
           /\ f.outbound = << >> /\ ~f.emitted_outcome /\ f.outcome \in {"Accepted", "Refused"} =>
                r.out # None /\ r.out.value = f.outcome
<1>1. ASSUME NEW b, f \in ReserveFlow(b) PROVE r.out = None /\ r.flow \in ReserveFlow(b)
  <2>1. f.outbound = << >> /\ f.outcome = None /\ Flushed(f) \in ReserveFlow(b)
    BY <1>1 DEF ReserveFlow, Flushed
  <2>2. r = Nothing(Flushed(f))
    BY <2>1 DEF ReservationPoll
  <2> QED
    BY <2>1, <2>2 DEF Nothing
<1>2. ASSUME f.outbound = << >>, ~f.emitted_outcome, f.outcome \in {"Accepted", "Refused"}
      PROVE  r.out # None /\ r.out.value = f.outcome
  <2>1. f.outcome # None /\ [kind |-> "Outcome", value |-> f.outcome] # None
    BY <1>2, OutputsAre
  <2>2. r.out = [kind |-> "Outcome", value |-> f.outcome]
    BY <1>2, <2>1 DEF ReservationPoll, Output
  <2> QED
    BY <2>1, <2>2
<1> QED
  BY <1>1, <1>2

\* HopConnect reads a part of the answer.
LEMMA HopWaitsOn ==
    ASSUME NEW buf, NEW f \in HopFlow(buf), NEW data, NEW b, b = buf \o data,
           Decode(b) = "Incomplete", NEW r, r = ConnectData(f, data)
    PROVE  r.ok /\ r.flow \in HopFlow(b)
<1>1. PICK g : g = [f EXCEPT !.recv_buf = @ \o data]
  OBVIOUS
<1>2. g \in HopFlow(b) /\ f.state # "Done"
  BY <1>1 DEF HopFlow
<1>3. r = ConnectDecode(g)
  BY <1>1, <1>2 DEF ConnectData
<1>4. g.recv_buf = b
  BY <1>2 DEF HopFlow
<1>5. r = Ok(g)
  BY <1>3, <1>4 DEF ConnectDecode
<1> QED
  BY <1>2, <1>5 DEF Ok

\* HopConnect after the answer.
HopDone(v, emitted) ==
    [outbound : {<< >>}, recv_buf : {<< >>}, state : {"Done"}, outcome : {v},
     emitted_outcome : {emitted}, bridge_bytes : {<< >>}]

\* HopConnect reads the answer, with nothing behind it.
LEMMA HopAnswers ==
    ASSUME NEW buf, NEW f \in HopFlow(buf), NEW data, NEW b, b = buf \o data, NEW st,
           Decode(b) = "Complete", FrontOf(b) = Message("STATUS", st), RestOf(b) = << >>,
           NEW r, r = ConnectData(f, data)
    PROVE  r.ok /\ r.flow \in HopDone(IF st = "Ok" THEN "Bridged" ELSE "Refused", FALSE)
<1>1. PICK g : g = [f EXCEPT !.recv_buf = @ \o data]
  OBVIOUS
<1>2. g \in HopFlow(b) /\ f.state # "Done"
  BY <1>1 DEF HopFlow
<1>3. r = ConnectDecode(g)
  BY <1>1, <1>2 DEF ConnectData
<1>4. g.recv_buf = b /\ g.state # "Done"
  BY <1>2 DEF HopFlow
<1>5. PICK h : h = [Done(g) EXCEPT !.recv_buf = RestOf(@), !.emitted_outcome = FALSE]
  OBVIOUS
<1>6. FrontOf(b).kind = "STATUS" /\ FrontOf(b).body = st
  BY DEF Message
<1>7. h \in [outbound : {<< >>}, recv_buf : {<< >>}, state : {"Done"}, outcome : {None},
             emitted_outcome : {FALSE}, bridge_bytes : {<< >>}]
  BY <1>2, <1>5 DEF HopFlow, Done
<1>8. CASE st = "Ok"
  <2>1. PICK k : k = [h EXCEPT !.outcome = "Bridged", !.recv_buf = << >>,
                               !.bridge_bytes = @ \o h.recv_buf]
    OBVIOUS
  <2>2. r = Ok(k)
    BY <1>3, <1>4, <1>5, <1>6, <1>8, <2>1 DEF ConnectDecode
  <2>3. h.bridge_bytes \o h.recv_buf = << >>
    <3>1. h.bridge_bytes = << >> /\ h.recv_buf = << >>
      BY <1>7
    <3> QED
      BY <3>1, SmallSeqs, Alone
  <2>4. k \in HopDone("Bridged", FALSE)
    BY <1>7, <2>1, <2>3 DEF HopDone
  <2>5. r.ok /\ r.flow = k
    BY <2>2 DEF Ok
  <2> QED
    BY <1>8, <2>4, <2>5
<1>9. CASE st # "Ok"
  <2>1. PICK k : k = [h EXCEPT !.outcome = "Refused"]
    OBVIOUS
  <2>2. r = Ok(k)
    BY <1>3, <1>4, <1>5, <1>6, <1>9, <2>1 DEF ConnectDecode
  <2>4. k \in HopDone("Refused", FALSE)
    BY <1>7, <2>1 DEF HopDone
  <2>5. r.ok /\ r.flow = k
    BY <2>2 DEF Ok
  <2> QED
    BY <1>9, <2>4, <2>5
<1> QED
  BY <1>8, <1>9

\* What it tells: nothing while it waits, then the verdict, then nothing.
LEMMA HopTells ==
    ASSUME NEW f, NEW r, r = ConnectPoll(f)
    PROVE  /\ \A b : f \in HopFlow(b) => r.out = None /\ r.flow \in HopFlow(b)
           /\ \A v \in {"Bridged", "Refused"} : f \in HopDone(v, FALSE) =>
                r.out # None /\ r.out.value = v /\ r.flow \in HopDone(v, TRUE)
           /\ \A v : f \in HopDone(v, TRUE) => r.out = None
<1>1. ASSUME NEW b, f \in HopFlow(b) PROVE r.out = None /\ r.flow \in HopFlow(b)
  <2>1. f.outbound = << >> /\ f.outcome = None /\ f.bridge_bytes = << >> /\ Flushed(f) \in HopFlow(b)
    BY <1>1 DEF HopFlow, Flushed
  <2>2. r = Nothing(Flushed(f))
    BY <2>1 DEF ConnectPoll
  <2> QED
    BY <2>1, <2>2 DEF Nothing
<1>2. ASSUME NEW v \in {"Bridged", "Refused"}, f \in HopDone(v, FALSE)
      PROVE  r.out # None /\ r.out.value = v /\ r.flow \in HopDone(v, TRUE)
  <2>1. /\ f.outbound = << >> /\ f.outcome = v /\ v # None /\ ~f.emitted_outcome
        /\ Flushed(f) \in HopDone(v, FALSE)
    BY <1>2, OutputsAre DEF HopDone, Flushed
  <2>2. PICK g : g = [Flushed(f) EXCEPT !.emitted_outcome = TRUE]
    OBVIOUS
  <2>3. g \in HopDone(v, TRUE)
    BY <2>1, <2>2 DEF HopDone
  <2>4. r = Output(g, "Outcome", v)
    BY <2>1, <2>2 DEF ConnectPoll
  <2>5. r.flow = g /\ r.out = [kind |-> "Outcome", value |-> v]
    BY <2>4 DEF Output
  <2>6. [kind |-> "Outcome", value |-> v] # None
    BY OutputsAre
  <2>7. r.out.value = v
    BY <2>5
  <2> QED
    BY <2>3, <2>5, <2>6, <2>7, Zenon
<1>3. ASSUME NEW v, f \in HopDone(v, TRUE) PROVE r.out = None
  <2>1. f.outbound = << >> /\ f.emitted_outcome /\ f.bridge_bytes = << >>
    BY <1>3 DEF HopDone
  <2>2. r = Nothing(Flushed(f))
    BY <2>1 DEF ConnectPoll
  <2> QED
    BY <2>2 DEF Nothing
<1> QED
  BY <1>1, <1>2, <1>3

\* StopResponder starts.
LEMMA StopStarts == NewStop \in StopFlow(<< >>)
BY DEF NewStop, StopFlow

\* It reads a part of the request.
LEMMA StopWaitsOn ==
    ASSUME NEW buf, NEW f \in StopFlow(buf), NEW data, NEW b, b = buf \o data,
           Decode(b) = "Incomplete", NEW r, r = StopData(f, data)
    PROVE  r.ok /\ r.flow \in StopFlow(b)
<1>1. PICK g : g = [f EXCEPT !.recv_buf = @ \o data]
  OBVIOUS
<1>2. g \in StopFlow(b) /\ f.state = "AwaitingConnect"
  BY <1>1 DEF StopFlow
<1>3. r = StopDecode(g)
  BY <1>1, <1>2 DEF StopData
<1>4. g.recv_buf = b
  BY <1>2 DEF StopFlow
<1>5. r = Ok(g)
  BY <1>3, <1>4 DEF StopDecode
<1> QED
  BY <1>2, <1>5 DEF Ok

\* StopResponder after the request, and accepted.
StopDone(state, out, emitted) ==
    [outbound : {out}, recv_buf : {<< >>}, state : {state}, request : {"Dialer"},
     emitted_request : {emitted}, bridge_bytes : {<< >>}]

\* StopResponder reads the request, with nothing behind it.
LEMMA StopAnswers ==
    ASSUME NEW buf, NEW f \in StopFlow(buf), NEW data, NEW b, b = buf \o data,
           Decode(b) = "Complete", FrontOf(b) = Message("CONNECT", "Dialer"), RestOf(b) = << >>,
           NEW r, r = StopData(f, data)
    PROVE  r.ok /\ r.flow \in StopDone("AwaitingDecision", << >>, FALSE)
<1>1. PICK g : g = [f EXCEPT !.recv_buf = @ \o data]
  OBVIOUS
<1>2. g \in StopFlow(b) /\ f.state = "AwaitingConnect"
  BY <1>1 DEF StopFlow
<1>3. r = StopDecode(g)
  BY <1>1, <1>2 DEF StopData
<1>4. g.recv_buf = b /\ g.state = "AwaitingConnect"
  BY <1>2 DEF StopFlow
<1>5. PICK h : h = [g EXCEPT !.recv_buf = RestOf(@)]
  OBVIOUS
<1>6. FrontOf(b).kind = "CONNECT" /\ FrontOf(b).body = "Dialer" /\ "Dialer" # None
  BY OutputsAre DEF Message
<1>7. h \in StopFlow(<< >>)
  BY <1>2, <1>5 DEF StopFlow
<1>8. PICK k : k = [h EXCEPT !.request = "Dialer", !.emitted_request = FALSE, !.state = "AwaitingDecision"]
  OBVIOUS
<1>9. r = Ok(k)
  BY <1>3, <1>4, <1>5, <1>6, <1>8 DEF StopDecode
<1>10. k \in StopDone("AwaitingDecision", << >>, FALSE)
  BY <1>7, <1>8 DEF StopFlow, StopDone
<1>11. r.ok /\ r.flow = k
  BY <1>9 DEF Ok
<1> QED
  BY <1>10, <1>11

\* The request is told, accepted, its STATUS flushed, and no bridge data follows.
LEMMA StopTells ==
    ASSUME NEW f, NEW r, r = StopPoll(f)
    PROVE  /\ \A b : f \in StopFlow(b) => r.out = None /\ r.flow \in StopFlow(b)
           /\ f \in StopDone("AwaitingDecision", << >>, FALSE) =>
                r.out # None /\ r.flow \in StopDone("AwaitingDecision", << >>, TRUE)
           /\ f \in StopDone("Bridged", StatusF("Ok"), TRUE) =>
                r.out.value = StatusF("Ok") /\ r.flow \in StopDone("Bridged", << >>, TRUE)
           /\ f \in StopDone("Bridged", << >>, TRUE) => r.out = None
<1>1. ASSUME NEW b, f \in StopFlow(b) PROVE r.out = None /\ r.flow \in StopFlow(b)
  <2>1. f.outbound = << >> /\ f.request = None /\ f.bridge_bytes = << >>
    BY <1>1 DEF StopFlow
  <2>2. r = Nothing(f)
    BY <2>1 DEF StopPoll
  <2> QED
    BY <1>1, <2>2 DEF Nothing
<1>2. ASSUME f \in StopDone("AwaitingDecision", << >>, FALSE)
      PROVE  r.out # None /\ r.flow \in StopDone("AwaitingDecision", << >>, TRUE)
  <2>1. f.request = "Dialer" /\ ~f.emitted_request /\ "Dialer" # None
    BY <1>2, OutputsAre DEF StopDone
  <2>2. PICK g : g = [f EXCEPT !.emitted_request = TRUE]
    OBVIOUS
  <2>3. g \in StopDone("AwaitingDecision", << >>, TRUE)
    BY <1>2, <2>2 DEF StopDone
  <2>4. r = Output(g, "Request", "Dialer")
    BY <2>1, <2>2 DEF StopPoll
  <2>5. r.flow = g /\ r.out = [kind |-> "Request", value |-> "Dialer"]
    BY <2>4 DEF Output
  <2> QED
    BY <2>3, <2>5, OutputsAre
<1>3. ASSUME f \in StopDone("Bridged", StatusF("Ok"), TRUE)
      PROVE  r.out.value = StatusF("Ok") /\ r.flow \in StopDone("Bridged", << >>, TRUE)
  <2>0. StatusF("Ok") # << >>
    BY FrameIs, MessagesAre DEF StatusF, Statuses
  <2>1. f.outbound = StatusF("Ok") /\ f.emitted_request
    BY <1>3 DEF StopDone
  <2>2. PICK g : g = [f EXCEPT !.outbound = << >>]
    OBVIOUS
  <2>3. g \in StopDone("Bridged", << >>, TRUE)
    BY <1>3, <2>2 DEF StopDone
  <2>4. r = Output(g, "Outbound", StatusF("Ok"))
    BY <2>0, <2>1, <2>2 DEF StopPoll
  <2>5. r.flow = g /\ r.out = [kind |-> "Outbound", value |-> StatusF("Ok")]
    BY <2>4 DEF Output
  <2>6. r.out.value = StatusF("Ok")
    BY <2>5
  <2> QED
    BY <2>3, <2>5, <2>6, Zenon
<1>4. ASSUME f \in StopDone("Bridged", << >>, TRUE) PROVE r.out = None
  <2>1. f.outbound = << >> /\ f.emitted_request /\ f.bridge_bytes = << >>
    BY <1>4 DEF StopDone
  <2>2. r = Nothing(f)
    BY <2>1 DEF StopPoll
  <2> QED
    BY <2>2 DEF Nothing
<1> QED
  BY <1>1, <1>2, <1>3, <1>4

\* accept
LEMMA StopAccepts ==
    ASSUME NEW f \in StopDone("AwaitingDecision", << >>, TRUE), NEW r, r = Accept(f)
    PROVE  r.flow \in StopDone("Bridged", StatusF("Ok"), TRUE)
<1>1. PICK q : q = SendStatus(f, "Ok", "Bridged")
  OBVIOUS
<1>2. /\ f.state = "AwaitingDecision" /\ f.outbound = << >> /\ f.recv_buf = << >>
      /\ f.bridge_bytes = << >>
  BY DEF StopDone
<1>3. PICK g : g = [f EXCEPT !.outbound = @ \o StatusF("Ok"), !.state = "Bridged"]
  OBVIOUS
<1>4. q = Ok(g)
  BY <1>1, <1>2, <1>3 DEF SendStatus, StatusF
<1>5. << >> \o StatusF("Ok") = StatusF("Ok") /\ << >> \o << >> = << >>
  <2>1. StatusF("Ok") \in Seq(Units)
    BY FrameIs, MessagesAre, UnitSeqs DEF StatusF, Statuses
  <2> QED
    BY <2>1, SmallSeqs, Alone
<1>6. g \in StopDone("Bridged", StatusF("Ok"), TRUE)
  BY <1>2, <1>3, <1>5 DEF StopDone
<1>7. PICK h : h = [g EXCEPT !.recv_buf = << >>, !.bridge_bytes = @ \o f.recv_buf]
  OBVIOUS
<1>8. h \in StopDone("Bridged", StatusF("Ok"), TRUE)
  <2>1. g.bridge_bytes \o f.recv_buf = << >>
    BY <1>2, <1>5, <1>6 DEF StopDone
  <2> QED
    BY <1>6, <1>7, <2>1 DEF StopDone
<1>9. q.ok /\ q.flow = g
  BY <1>4 DEF Ok
<1>10. r = Ok(h)
  BY <1>1, <1>7, <1>9 DEF Accept
<1>11. r.flow = h
  BY <1>10 DEF Ok
<1> QED
  BY <1>8, <1>11

\* DcutrInitiator flushes CONNECT.
LEMMA InitiatorAsks ==
    ASSUME NEW A \in SUBSET Sides, NEW r, r = InitiatorPoll(NewInitiator(A))
    PROVE  r.flow \in InitiatorFlow(<< >>) /\ r.out.value = ConnectF(A)
<1>1. ConnectF(A) # << >>
  BY FrameIs, MessagesAre DEF ConnectF
<1>2. PICK f : f = NewInitiator(A)
  OBVIOUS
<1>3. f.outbound = ConnectF(A)
  BY <1>2 DEF NewInitiator, ConnectF
<1>4. r = Output(InitiatorFlushed(f), "Outbound", ConnectF(A))
  BY <1>1, <1>2, <1>3 DEF InitiatorPoll
<1>5. InitiatorFlushed(f) \in InitiatorFlow(<< >>)
  BY <1>2 DEF InitiatorFlushed, NewInitiator, InitiatorFlow
<1>6. r.flow = InitiatorFlushed(f) /\ r.out = [kind |-> "Outbound", value |-> ConnectF(A)]
  BY <1>4 DEF Output
<1>7. r.out.value = ConnectF(A)
  BY <1>6
<1> QED
  BY <1>5, <1>6, <1>7

\* DcutrInitiator reads a part of the reply.
LEMMA InitiatorWaitsOn ==
    ASSUME NEW buf, NEW f \in InitiatorFlow(buf), NEW data, NEW b, b = buf \o data,
           Decode(b) = "Incomplete", NEW r, r = InitiatorData(f, data)
    PROVE  r.ok /\ r.flow \in InitiatorFlow(b)
<1>1. PICK g : g = [f EXCEPT !.recv_buf = @ \o data]
  OBVIOUS
<1>2. g \in InitiatorFlow(b) /\ f.state = "AwaitingConnectReply"
  BY <1>1 DEF InitiatorFlow
<1>3. r = InitiatorDecode(g)
  BY <1>1, <1>2 DEF InitiatorData
<1>4. g.recv_buf = b
  BY <1>2 DEF InitiatorFlow
<1>5. r = Ok(g)
  BY <1>3, <1>4 DEF InitiatorDecode
<1> QED
  BY <1>2, <1>5 DEF Ok

\* DcutrInitiator with the reply.
InitiatorReady(A, buf, emitted) ==
    [outbound : {<< >>}, recv_buf : {buf}, state : {"ReadyToSync"}, outcome : {A},
     emitted_outcome : {emitted}]

\* A peer's addresses parse.
LEMMA AddrsParse == \A A \in SUBSET Sides : DecodeRemoteAddrs(A) = A
BY PeersAssumption DEF DecodeRemoteAddrs, Sides

\* DcutrInitiator reads the reply.
LEMMA InitiatorAnswers ==
    ASSUME NEW buf, NEW f \in InitiatorFlow(buf), NEW data, NEW b, b = buf \o data,
           NEW A \in SUBSET Sides, Decode(b) = "Complete", FrontOf(b) = Message("CONNECT", A),
           NEW r, r = InitiatorData(f, data)
    PROVE  r.ok /\ r.flow \in InitiatorReady(A, RestOf(b), FALSE)
<1>1. PICK g : g = [f EXCEPT !.recv_buf = @ \o data]
  OBVIOUS
<1>2. g \in InitiatorFlow(b) /\ f.state = "AwaitingConnectReply"
  BY <1>1 DEF InitiatorFlow
<1>3. r = InitiatorDecode(g)
  BY <1>1, <1>2 DEF InitiatorData
<1>4. g.recv_buf = b /\ g.state = "AwaitingConnectReply"
  BY <1>2 DEF InitiatorFlow
<1>5. PICK h : h = [g EXCEPT !.recv_buf = RestOf(@)]
  OBVIOUS
<1>6. FrontOf(b).kind = "CONNECT" /\ FrontOf(b).body = A /\ DecodeRemoteAddrs(A) = A
  BY AddrsParse DEF Message
<1>7. h \in InitiatorFlow(RestOf(b))
  BY <1>2, <1>5 DEF InitiatorFlow
<1>8. PICK k : k = [h EXCEPT !.state = "ReadyToSync", !.emitted_outcome = FALSE, !.outcome = A]
  OBVIOUS
<1>9. r = Ok(k)
  BY <1>3, <1>4, <1>5, <1>6, <1>8 DEF InitiatorDecode
<1>10. k \in InitiatorReady(A, RestOf(b), FALSE)
  BY <1>7, <1>8 DEF InitiatorFlow, InitiatorReady
<1>11. r.ok /\ r.flow = k
  BY <1>9 DEF Ok
<1> QED
  BY <1>10, <1>11

\* What it tells: nothing while it waits, then the addresses.
LEMMA InitiatorTells ==
    ASSUME NEW f, NEW r, r = InitiatorPoll(f)
    PROVE  /\ \A b : f \in InitiatorFlow(b) => r.out = None /\ r.flow \in InitiatorFlow(b)
           /\ \A b : \A A \in SUBSET Sides : f \in InitiatorReady(A, b, FALSE) =>
                r.out # None /\ r.out.value = A /\ r.flow \in InitiatorReady(A, b, TRUE)
<1>1. ASSUME NEW b, f \in InitiatorFlow(b) PROVE r.out = None /\ r.flow \in InitiatorFlow(b)
  <2>1. f.outbound = << >> /\ f.outcome = None /\ InitiatorFlushed(f) \in InitiatorFlow(b)
    BY <1>1 DEF InitiatorFlow, InitiatorFlushed
  <2>2. r = Nothing(InitiatorFlushed(f))
    BY <2>1 DEF InitiatorPoll
  <2> QED
    BY <2>1, <2>2 DEF Nothing
<1>2. ASSUME NEW b, NEW A \in SUBSET Sides, f \in InitiatorReady(A, b, FALSE)
      PROVE  r.out # None /\ r.out.value = A /\ r.flow \in InitiatorReady(A, b, TRUE)
  <2>1. /\ f.outbound = << >> /\ f.outcome = A /\ A # None /\ ~f.emitted_outcome
        /\ InitiatorFlushed(f) \in InitiatorReady(A, b, FALSE)
    BY <1>2, OutputsAre DEF InitiatorReady, InitiatorFlushed
  <2>2. PICK g : g = [InitiatorFlushed(f) EXCEPT !.emitted_outcome = TRUE]
    OBVIOUS
  <2>3. g \in InitiatorReady(A, b, TRUE)
    BY <2>1, <2>2 DEF InitiatorReady
  <2>4. r = Output(g, "Outcome", A)
    BY <2>1, <2>2 DEF InitiatorPoll
  <2>5. r.flow = g /\ r.out = [kind |-> "Outcome", value |-> A]
    BY <2>4 DEF Output
  <2>6. [kind |-> "Outcome", value |-> A] # None
    BY OutputsAre
  <2>7. r.out.value = A
    BY <2>5
  <2> QED
    BY <2>3, <2>5, <2>6, <2>7, Zenon
<1> QED
  BY <1>1, <1>2

\* send_sync, and SYNC is flushed.
LEMMA InitiatorSyncs ==
    ASSUME NEW A, NEW b, NEW f \in InitiatorReady(A, b, TRUE), NEW r,
           r = InitiatorPoll(SendSync(f).flow)
    PROVE  r.out.value = SyncF
<1>1. f.state = "ReadyToSync" /\ f.outbound = << >>
  BY DEF InitiatorReady
<1>2. PICK g : g = [f EXCEPT !.outbound = @ \o EncodeFrame(Message("SYNC", {})), !.state = "SyncPending"]
  OBVIOUS
<1>3. SendSync(f) = Ok(g)
  BY <1>1, <1>2 DEF SendSync
<1>4. SyncF \in Seq(Units) /\ SyncF # << >>
  BY FrameIs, MessagesAre, UnitSeqs DEF SyncF
<1>5. << >> \o SyncF = SyncF
  BY <1>4, Alone
<1>6. g.outbound = SyncF
  BY <1>1, <1>2, <1>5 DEF InitiatorReady, SyncF
<1>7. SendSync(f).flow = g
  BY <1>3 DEF Ok
<1>8. r = Output(InitiatorFlushed(g), "Outbound", SyncF)
  BY <1>4, <1>6, <1>7 DEF InitiatorPoll
<1>9. r.out = [kind |-> "Outbound", value |-> SyncF]
  BY <1>8 DEF Output
<1> QED
  BY <1>9

\* DcutrResponder starts.
LEMMA ResponderStarts == \A own : NewResponder(own) \in ResponderFlow(own, << >>, "AwaitingConnect")
BY DEF NewResponder, ResponderFlow

\* A round that is over already changes nothing.
LEMMA RoundOver ==
    ASSUME NEW q, NEW r, r = ResponderRound(q), q.more \in BOOLEAN, ~q.more
    PROVE  r = q
BY ZenonT(60) DEF ResponderRound

\* A round that has nothing to decode is the last.
LEMMA RoundEnds ==
    ASSUME NEW q, NEW r, r = ResponderRound(q), q.more \in BOOLEAN, q.more,
           q.flow.state = "Done" \/ Decode(q.flow.recv_buf) = "Incomplete"
    PROVE  r = [flow |-> q.flow, ok |-> TRUE, more |-> FALSE]
<1>1. CASE q.flow.state = "Done"
  BY <1>1 DEF ResponderRound
<1>2. CASE Decode(q.flow.recv_buf) = "Incomplete"
  BY <1>2 DEF ResponderRound
<1> QED
  BY <1>1, <1>2

\* A frame that is there.
LEMMA RoundTakes ==
    ASSUME NEW q, NEW r, r = ResponderRound(q), q.more \in BOOLEAN, q.more,
           q.flow.state # "Done", Decode(q.flow.recv_buf) = "Complete"
    PROVE  r = ResponderTakes(q, FrontOf(q.flow.recv_buf), [q.flow EXCEPT !.recv_buf = RestOf(@)])
BY ZenonT(60) DEF ResponderRound

\* The loop is over.
Over(flow) == [flow |-> flow, ok |-> TRUE, more |-> FALSE]

\* The loop ends when there is nothing more to decode.
LEMMA RoundsEnd ==
    ASSUME NEW q, NEW r, r = ResponderRound(q), NEW p, p = ResponderRound(r), q.more \in BOOLEAN, q.more,
           q.flow.state = "Done" \/ Decode(q.flow.recv_buf) = "Incomplete"
    PROVE  p = Over(q.flow)
<1>2. r = [flow |-> q.flow, ok |-> TRUE, more |-> FALSE]
  BY RoundEnds
<1>3. r.more \in BOOLEAN /\ ~r.more
  BY <1>2
<1>4. p = r
  BY ONLY <1>3, p = ResponderRound(r), RoundOver
<1> QED
  BY <1>2, <1>4 DEF Over

\* What the loop starts from, and that r is what it makes of it.
LoopOf(r, flow) ==
    LET q == [flow |-> flow, ok |-> TRUE, more |-> TRUE]
        p == ResponderRound(ResponderRound(ResponderRound(q)))
    IN  r.flow = p.flow /\ r.ok = p.ok

\* handle_input puts the data in the buffer and decodes.
LEMMA ResponderFed ==
    ASSUME NEW own, NEW buf, NEW state \in {"AwaitingConnect", "AwaitingSync"},
           NEW f \in ResponderFlow(own, buf, state), NEW data, NEW b, b = buf \o data,
           NEW r, r = ResponderData(f, data)
    PROVE  \E g \in ResponderFlow(own, b, state) : LoopOf(r, g)
<1>1. PICK g : g = [f EXCEPT !.recv_buf = @ \o data]
  OBVIOUS
<1>2. g \in ResponderFlow(own, b, state) /\ f.state # "Done"
  BY <1>1 DEF ResponderFlow
<1>3. r = ResponderDecode(g)
  BY <1>1, <1>2 DEF ResponderData
<1>4. PICK q : q = [flow |-> g, ok |-> TRUE, more |-> TRUE]
  OBVIOUS
<1>5. PICK p : p = ResponderRound(ResponderRound(ResponderRound(q)))
  OBVIOUS
<1>6. r = [flow |-> p.flow, ok |-> p.ok]
  BY <1>3, <1>4, <1>5 DEF ResponderDecode
<1>7. r.flow = p.flow /\ r.ok = p.ok
  BY <1>6
<1>8. LoopOf(r, g)
  BY <1>4, <1>5, <1>7 DEF LoopOf
<1> QED
  BY <1>2, <1>8

\* DcutrResponder reads a part of a frame.
LEMMA ResponderWaitsOn ==
    ASSUME NEW own, NEW buf, NEW state \in {"AwaitingConnect", "AwaitingSync"},
           NEW f \in ResponderFlow(own, buf, state), NEW data, NEW b, b = buf \o data,
           Decode(b) = "Incomplete", NEW r, r = ResponderData(f, data)
    PROVE  r.ok /\ r.flow \in ResponderFlow(own, b, state)
<1>0. PICK g \in ResponderFlow(own, b, state) : LoopOf(r, g)
  BY ResponderFed
<1>a. PICK q : q = [flow |-> g, ok |-> TRUE, more |-> TRUE]
  OBVIOUS
<1>1. /\ q = [flow |-> g, ok |-> TRUE, more |-> TRUE]
      /\ r.flow = ResponderRound(ResponderRound(ResponderRound(q))).flow
      /\ r.ok = ResponderRound(ResponderRound(ResponderRound(q))).ok
  BY <1>0, <1>a DEF LoopOf
<1>2. q.more \in BOOLEAN /\ q.more /\ q.flow = g
  BY <1>1
<1>3. Decode(q.flow.recv_buf) = "Incomplete"
  BY <1>2 DEF ResponderFlow
<1>4. PICK p : p = Over(g)
  OBVIOUS
<1>5. ResponderRound(ResponderRound(q)) = p
  <2>a. PICK q1 : q1 = ResponderRound(q)
    OBVIOUS
  <2>b. PICK q2 : q2 = ResponderRound(q1)
    OBVIOUS
  <2>c. q2 = Over(q.flow)
    BY ONLY <1>2, <1>3, <2>a, <2>b, RoundsEnd
  <2>1. ResponderRound(ResponderRound(q)) = Over(q.flow)
    BY <2>a, <2>b, <2>c
  <2> QED
    BY <1>2, <1>4, <2>1
<1>6. p.more \in BOOLEAN /\ ~p.more /\ p.ok = TRUE /\ p.flow = g
  BY <1>4 DEF Over
<1>7. ResponderRound(p) = p
  BY <1>6, RoundOver
<1>8. r.flow = p.flow /\ r.ok = p.ok
  BY <1>1, <1>5, <1>7
<1> QED
  BY <1>6, <1>8

\* The responder when it has read CONNECT, or SYNC, and its script has not polled it.
ResponderReplied(own, A) ==
    [own_addrs : {own}, outbound : {ConnectF(own)}, recv_buf : {<< >>}, state : {"AwaitingSync"},
     events : {<<Message("ConnectReceived", A)>>}]
ResponderOver(own, rest) ==
    [own_addrs : {own}, outbound : {<< >>}, recv_buf : {rest}, state : {"Done"},
     events : {<<Message("SyncReceived", {})>>}]

\* DcutrResponder reads CONNECT, with nothing behind it, and replies.
LEMMA ResponderConnects ==
    ASSUME NEW own, NEW buf, NEW f \in ResponderFlow(own, buf, "AwaitingConnect"), NEW data,
           NEW b, b = buf \o data, NEW A \in SUBSET Sides, Decode(b) = "Complete",
           FrontOf(b) = Message("CONNECT", A), RestOf(b) = << >>, own \in SUBSET Sides,
           NEW r, r = ResponderData(f, data)
    PROVE  r.ok /\ r.flow \in ResponderReplied(own, A)
<1>0. PICK g \in ResponderFlow(own, b, "AwaitingConnect") : LoopOf(r, g)
  BY ResponderFed
<1>a. PICK q : q = [flow |-> g, ok |-> TRUE, more |-> TRUE]
  OBVIOUS
<1>1. /\ q = [flow |-> g, ok |-> TRUE, more |-> TRUE]
      /\ r.flow = ResponderRound(ResponderRound(ResponderRound(q))).flow
      /\ r.ok = ResponderRound(ResponderRound(ResponderRound(q))).ok
  BY <1>0, <1>a DEF LoopOf
<1>2. q.more \in BOOLEAN /\ q.more /\ q.flow = g
  BY <1>1
<1>3. g.recv_buf = b /\ g.state # "Done"
  BY DEF ResponderFlow
<1>4. PICK h : h = [g EXCEPT !.recv_buf = RestOf(@)]
  OBVIOUS
<1>5. h \in ResponderFlow(own, << >>, "AwaitingConnect")
  BY <1>3, <1>4 DEF ResponderFlow
<1>6. PICK m : m = Message("CONNECT", A)
  OBVIOUS
<1>7. PICK p : p = ResponderRound(q)
  OBVIOUS
<1>8. p = ResponderTakes(q, m, h)
  <2>1. q.flow.state # "Done" /\ Decode(q.flow.recv_buf) = "Complete"
    BY <1>2, <1>3
  <2>2. p = ResponderTakes(q, FrontOf(q.flow.recv_buf), [q.flow EXCEPT !.recv_buf = RestOf(@)])
    BY ONLY <1>2, <1>7, <2>1, RoundTakes
  <2> QED
    BY <1>2, <1>3, <1>4, <1>6, <2>2
<1>9. m.kind = "CONNECT" /\ m.body = A /\ DecodeRemoteAddrs(A) = A
  BY <1>6, AddrsParse DEF Message
<1>10. /\ h.state = "AwaitingConnect" /\ h.own_addrs = own /\ h.outbound = << >> /\ h.events = << >>
  BY <1>5 DEF ResponderFlow
<1>11. PICK k : k = [h EXCEPT !.outbound = @ \o EncodeFrame(Message("CONNECT", own)),
                              !.events = Append(@, Message("ConnectReceived", A)),
                              !.state = "AwaitingSync"]
  OBVIOUS
<1>12. p = [q EXCEPT !.flow = k]
  BY <1>8, <1>9, <1>10, <1>11 DEF ResponderTakes
<1>13. p.flow = k /\ p.more \in BOOLEAN /\ p.more
  BY <1>1, <1>12
<1>14. << >> \o ConnectF(own) = ConnectF(own)
  <2>1. ConnectF(own) \in Seq(Units)
    BY FrameIs, MessagesAre, UnitSeqs DEF ConnectF
  <2> QED
    BY <2>1, Alone
<1>15. k \in [own_addrs : {own}, outbound : {ConnectF(own)}, recv_buf : {<< >>},
              state : {"AwaitingSync"}, events : {<<Message("ConnectReceived", A)>>}]
  <2>1. h.outbound \o EncodeFrame(Message("CONNECT", own)) = ConnectF(own)
    BY <1>10, <1>14 DEF ConnectF
  <2>2. PICK ev : ev = Message("ConnectReceived", A)
    OBVIOUS
  <2>3. Append(h.events, ev) = <<ev>>
    BY <1>10
  <2> QED
    BY <1>5, <1>11, <2>1, <2>2, <2>3 DEF ResponderFlow
<1>16. k.recv_buf = << >>
  BY <1>15
<1>17. Decode(p.flow.recv_buf) = "Incomplete"
  BY <1>13, <1>16, FramesAssumption DEF Decode, DecodeFrame
<1>18. ResponderRound(ResponderRound(p)) = Over(k)
  <2>a. PICK q1 : q1 = ResponderRound(p)
    OBVIOUS
  <2>b. PICK q2 : q2 = ResponderRound(q1)
    OBVIOUS
  <2>c. q2 = Over(p.flow)
    BY ONLY <1>13, <1>17, <2>a, <2>b, RoundsEnd
  <2>1. ResponderRound(ResponderRound(p)) = Over(p.flow)
    BY <2>a, <2>b, <2>c
  <2> QED
    BY <1>13, <2>1
<1>19. r.flow = k /\ r.ok = TRUE
  <2>1. PICK e : e = Over(k)
    OBVIOUS
  <2>2. r.flow = e.flow /\ r.ok = e.ok
    BY <1>1, <1>7, <1>18, <2>1
  <2> QED
    BY <2>1, <2>2 DEF Over
<1> QED
  BY <1>15, <1>19 DEF ResponderReplied

\* DcutrResponder reads SYNC.
LEMMA ResponderEnds ==
    ASSUME NEW own, NEW buf, NEW f \in ResponderFlow(own, buf, "AwaitingSync"), NEW data,
           NEW b, b = buf \o data, Decode(b) = "Complete", FrontOf(b) = Message("SYNC", {}),
           NEW r, r = ResponderData(f, data)
    PROVE  r.ok /\ r.flow \in ResponderOver(own, RestOf(b))
<1>0. PICK g \in ResponderFlow(own, b, "AwaitingSync") : LoopOf(r, g)
  BY ResponderFed
<1>a. PICK q : q = [flow |-> g, ok |-> TRUE, more |-> TRUE]
  OBVIOUS
<1>1. /\ q = [flow |-> g, ok |-> TRUE, more |-> TRUE]
      /\ r.flow = ResponderRound(ResponderRound(ResponderRound(q))).flow
      /\ r.ok = ResponderRound(ResponderRound(ResponderRound(q))).ok
  BY <1>0, <1>a DEF LoopOf
<1>2. q.more \in BOOLEAN /\ q.more /\ q.flow = g
  BY <1>1
<1>3. g.recv_buf = b /\ g.state # "Done"
  BY DEF ResponderFlow
<1>4. PICK h : h = [g EXCEPT !.recv_buf = RestOf(@)]
  OBVIOUS
<1>5. h \in ResponderFlow(own, RestOf(b), "AwaitingSync")
  BY <1>3, <1>4 DEF ResponderFlow
<1>6. PICK m : m = Message("SYNC", {})
  OBVIOUS
<1>7. PICK p : p = ResponderRound(q)
  OBVIOUS
<1>8. p = ResponderTakes(q, m, h)
  <2>1. q.flow.state # "Done" /\ Decode(q.flow.recv_buf) = "Complete"
    BY <1>2, <1>3
  <2>2. p = ResponderTakes(q, FrontOf(q.flow.recv_buf), [q.flow EXCEPT !.recv_buf = RestOf(@)])
    BY ONLY <1>2, <1>7, <2>1, RoundTakes
  <2> QED
    BY <1>2, <1>3, <1>4, <1>6, <2>2
<1>9. m.kind = "SYNC"
  BY <1>6 DEF Message
<1>10. /\ h.state = "AwaitingSync" /\ h.events = << >>
  BY <1>5 DEF ResponderFlow
<1>11. PICK k : k = [h EXCEPT !.events = Append(@, Message("SyncReceived", {})), !.state = "Done"]
  OBVIOUS
<1>12. p = [q EXCEPT !.flow = k]
  BY <1>8, <1>9, <1>10, <1>11 DEF ResponderTakes
<1>13. p.flow = k /\ p.more \in BOOLEAN /\ p.more
  BY <1>1, <1>12
<1>15. k \in [own_addrs : {own}, outbound : {<< >>}, recv_buf : {RestOf(b)},
              state : {"Done"}, events : {<<Message("SyncReceived", {})>>}]
  <2>2. PICK ev : ev = Message("SyncReceived", {})
    OBVIOUS
  <2>3. Append(h.events, ev) = <<ev>>
    BY <1>10
  <2> QED
    BY <1>5, <1>11, <2>2, <2>3 DEF ResponderFlow
<1>16. p.flow.state = "Done"
  BY <1>13, <1>15
<1>18. ResponderRound(ResponderRound(p)) = Over(k)
  <2>a. PICK q1 : q1 = ResponderRound(p)
    OBVIOUS
  <2>b. PICK q2 : q2 = ResponderRound(q1)
    OBVIOUS
  <2>c. q2 = Over(p.flow)
    BY ONLY <1>13, <1>16, <2>a, <2>b, RoundsEnd
  <2>1. ResponderRound(ResponderRound(p)) = Over(p.flow)
    BY <2>a, <2>b, <2>c
  <2> QED
    BY <1>13, <2>1
<1>19. r.flow = k /\ r.ok = TRUE
  <2>1. PICK e : e = Over(k)
    OBVIOUS
  <2>2. r.flow = e.flow /\ r.ok = e.ok
    BY <1>1, <1>7, <1>18, <2>1
  <2> QED
    BY <2>1, <2>2 DEF Over
<1> QED
  BY <1>15, <1>19 DEF ResponderOver

\* The addresses that are kept.
LEMMA CapturedIs ==
    /\ \A kept : Captured(<< >>, kept) = kept
    /\ \A A, kept : Captured(<<Message("ConnectReceived", A)>>, kept) = A
    /\ \A kept : Captured(<<Message("SyncReceived", {})>>, kept) = kept
<1>1. ASSUME NEW kept PROVE Captured(<< >>, kept) = kept
  BY DEF Captured
<1>2. ASSUME NEW A, NEW kept PROVE Captured(<<Message("ConnectReceived", A)>>, kept) = A
  <2>1. PICK m : m = Message("ConnectReceived", A)
    OBVIOUS
  <2>2. PICK ev : ev = <<m>>
    OBVIOUS
  <2>3. m.kind = "ConnectReceived" /\ m.body = A
    BY <2>1 DEF Message
  <2>4. DOMAIN ev = {1} /\ ev[1] = m
    BY <2>2
  <2>5. {i \in DOMAIN ev : ev[i].kind = "ConnectReceived"} = {1}
    BY <2>3, <2>4
  <2>6. (CHOOSE i \in {1} : \A j \in {1} : j <= i) = 1
    OBVIOUS
  <2>7. Captured(ev, kept) = ev[1].body
    BY <2>5, <2>6 DEF Captured
  <2> QED
    BY <2>1, <2>2, <2>3, <2>4, <2>7
<1>3. ASSUME NEW kept PROVE Captured(<<Message("SyncReceived", {})>>, kept) = kept
  <2>1. PICK m : m = Message("SyncReceived", {})
    OBVIOUS
  <2>2. PICK ev : ev = <<m>>
    OBVIOUS
  <2>3. m.kind = "SyncReceived"
    BY <2>1 DEF Message
  <2>4. DOMAIN ev = {1} /\ ev[1] = m
    BY <2>2
  <2>5. {i \in DOMAIN ev : ev[i].kind = "ConnectReceived"} = {}
    BY <2>3, <2>4
  <2>7. Captured(ev, kept) = kept
    BY <2>5 DEF Captured
  <2> QED
    BY <2>1, <2>2, <2>7
<1> QED
  BY <1>1, <1>2, <1>3

-----------------------------------------------------------------------------
(* Scripts.                                                                *)

IsScript(sc) ==
    sc \in [at : {sc.at}, until : {sc.until}, attempt : {sc.attempt}, flow : {sc.flow},
            addrs : {sc.addrs}, remote : {sc.remote}, result : {sc.result}]

\* r is sc with another place and another flow.
Goes(r, sc, at) ==
    /\ IsScript(r) /\ r.at = at /\ r.attempt = sc.attempt /\ r.addrs = sc.addrs
    /\ r.remote = sc.remote /\ r.result = sc.result

\* r is sc, ended.
Finishes(r, sc, result) ==
    /\ IsScript(r) /\ r.at = "ended" /\ r.attempt = sc.attempt /\ r.addrs = sc.addrs
    /\ r.remote = sc.remote /\ r.result = result

\* r is sc, starting to punch.
Starts(r, sc, remote) ==
    /\ IsScript(r) /\ r.at = "punch" /\ r.attempt = sc.attempt /\ r.addrs = sc.addrs
    /\ r.remote = remote /\ r.result = sc.result

\* r is sc, knowing the other's addresses.
Replies(r, sc, remote) ==
    /\ IsScript(r) /\ r.at = sc.at /\ r.attempt = sc.attempt /\ r.addrs = sc.addrs
    /\ r.remote = remote /\ r.result = sc.result

\* A script keeps its place and has another flow.
LEMMA ScriptKeeps ==
    ASSUME NEW sc, IsScript(sc), NEW f, NEW r, r = [sc EXCEPT !.flow = f]
    PROVE  Goes(r, sc, sc.at) /\ r.flow = f
BY DEF IsScript, Goes

\* A script goes on to its next wait.
LEMMA ScriptWaits ==
    ASSUME NEW sc, IsScript(sc), NEW at, NEW u, NEW r, r = Waits(sc, at, u)
    PROVE  Goes(r, sc, at) /\ r.flow = sc.flow
BY DEF IsScript, Goes, Waits

\* It goes on with another flow.
LEMMA ScriptWaitsWith ==
    ASSUME NEW sc, IsScript(sc), NEW at, NEW u, NEW f, NEW r, r = [Waits(sc, at, u) EXCEPT !.flow = f]
    PROVE  Goes(r, sc, at) /\ r.flow = f
BY DEF IsScript, Goes, Waits

\* It starts DCUtR.
LEMMA ScriptBridged ==
    ASSUME NEW sc, IsScript(sc), NEW f, NEW r, r = [sc EXCEPT !.at = "dcutr", !.flow = f]
    PROVE  Goes(r, sc, "dcutr") /\ r.flow = f
BY DEF IsScript, Goes

\* It ends.
LEMMA ScriptEnds ==
    ASSUME NEW sc, IsScript(sc), NEW result, NEW r, r = Ends(sc, result)
    PROVE  Finishes(r, sc, result)
BY DEF IsScript, Finishes, Ends

\* How a script starts to punch.
LEMMA ScriptPunches ==
    ASSUME NEW sc, IsScript(sc), NEW remote, NEW r, r = Punches(sc, remote)
    PROVE  Starts(r, sc, remote)
BY DEF IsScript, Starts, Punches, Waits

\* A step of a script, in its parts.
LEMMA StepIs ==
    ASSUME NEW sc, NEW units, NEW st, st = Step(sc, units)
    PROVE  st.script = sc /\ st.out = units
BY DEF Step

\* run_listen waits on for the answer to RESERVE.
LEMMA ReserveStepWaits ==
    ASSUME NEW sc, IsScript(sc), NEW buf, sc.flow \in ReserveFlow(buf), NEW data, NEW b, b = buf \o data,
           Decode(b) = "Incomplete", NEW r, r = ListenerReserve(sc, data).script
    PROVE  Goes(r, sc, sc.at) /\ r.flow \in ReserveFlow(b)
<1>1. PICK fed : fed = ReservationData(sc.flow, data)
  OBVIOUS
<1>2. fed.ok /\ fed.flow \in ReserveFlow(b)
  BY <1>1, ReserveWaitsOn
<1>3. PICK polled : polled = ReservationPoll(fed.flow)
  OBVIOUS
<1>4. polled.out = None /\ polled.flow \in ReserveFlow(b)
  BY <1>2, <1>3, ReserveTells
<1>5. ListenerReserve(sc, data) = Step([sc EXCEPT !.flow = polled.flow], << >>)
  BY <1>1, <1>2, <1>3, <1>4 DEF ListenerReserve
<1>6. r = [sc EXCEPT !.flow = polled.flow]
  BY <1>5 DEF Step
<1>7. Goes(r, sc, sc.at) /\ r.flow = polled.flow
  BY ONLY <1>6, IsScript(sc), ScriptKeeps
<1> QED
  BY <1>4, <1>7

\* It has the answer.
LEMMA ReserveStepEnds ==
    ASSUME NEW sc, IsScript(sc), NEW buf, sc.flow \in ReserveFlow(buf), NEW data, NEW b, b = buf \o data,
           Decode(b) = "Complete", NEW st, FrontOf(b) = Message("STATUS", st),
           NEW r, r = ListenerReserve(sc, data).script
    PROVE  Goes(r, sc, "inbound") \/ Finishes(r, sc, "refused")
<1>1. PICK fed : fed = ReservationData(sc.flow, data)
  OBVIOUS
<1>2. /\ fed.ok /\ fed.flow.outbound = << >> /\ ~fed.flow.emitted_outcome
      /\ fed.flow.outcome \in {"Accepted", "Refused"}
  <2>1. PICK f : f = sc.flow
    OBVIOUS
  <2>2. f \in ReserveFlow(buf) /\ fed = ReservationData(f, data)
    BY <1>1, <2>1
  <2>3. ReserveOver(fed)
    BY ONLY <2>2, b = buf \o data, Decode(b) = "Complete", FrontOf(b) = Message("STATUS", st), ReserveAnswers
  <2> QED
    BY <2>3 DEF ReserveOver
<1>3. PICK polled : polled = ReservationPoll(fed.flow)
  OBVIOUS
<1>4. polled.out # None /\ polled.out.value = fed.flow.outcome
  BY <1>2, <1>3, ReserveTells
<1>5. PICK q : q = IF polled.out.value = "Accepted"
                   THEN [Waits(sc, "inbound", ListenDeadline) EXCEPT !.flow = None]
                   ELSE Ends(sc, "refused")
  OBVIOUS
<1>6. ListenerReserve(sc, data) = Step(q, << >>)
  BY <1>1, <1>2, <1>3, <1>4, <1>5 DEF ListenerReserve
<1>7. r = q
  BY <1>6 DEF Step
<1>8. CASE polled.out.value = "Accepted"
  <2>1. r = [Waits(sc, "inbound", ListenDeadline) EXCEPT !.flow = None]
    BY <1>5, <1>7, <1>8
  <2> QED
    BY <2>1, ScriptWaitsWith
<1>9. CASE polled.out.value # "Accepted"
  <2>1. r = Ends(sc, "refused")
    BY <1>5, <1>7, <1>9
  <2> QED
    BY <2>1, ScriptEnds
<1> QED
  BY <1>8, <1>9

\* run_dial waits on for the answer to HOP CONNECT.
LEMMA HopStepWaits ==
    ASSUME NEW sc, IsScript(sc), NEW buf, sc.flow \in HopFlow(buf), NEW data, NEW b, b = buf \o data,
           Decode(b) = "Incomplete", NEW st, st = DialerHop(sc, data)
    PROVE  Goes(st.script, sc, sc.at) /\ st.script.flow \in HopFlow(b) /\ st.out = << >>
<1>1. PICK fed : fed = ConnectData(sc.flow, data)
  OBVIOUS
<1>2. fed.ok /\ fed.flow \in HopFlow(b)
  BY <1>1, HopWaitsOn
<1>3. PICK polled : polled = ConnectPoll(fed.flow)
  OBVIOUS
<1>4. polled.out = None /\ polled.flow \in HopFlow(b)
  BY <1>2, <1>3, HopTells
<1>5. PICK r : r = [sc EXCEPT !.flow = polled.flow]
  OBVIOUS
<1>6. st = Step(r, << >>)
  BY <1>1, <1>2, <1>3, <1>4, <1>5 DEF DialerHop
<1>7. st.script = r /\ st.out = << >>
  BY <1>6, StepIs
<1>8. Goes(r, sc, sc.at) /\ r.flow = polled.flow
  BY ONLY <1>5, IsScript(sc), ScriptKeeps
<1> QED
  BY <1>4, <1>7, <1>8

\* It is refused.
LEMMA HopStepRefused ==
    ASSUME NEW sc, IsScript(sc), NEW buf, sc.flow \in HopFlow(buf), NEW data, NEW b, b = buf \o data,
           Decode(b) = "Complete", NEW status, FrontOf(b) = Message("STATUS", status), status # "Ok",
           RestOf(b) = << >>, NEW st, st = DialerHop(sc, data)
    PROVE  Finishes(st.script, sc, "refused") /\ st.out = << >>
<1>1. PICK fed : fed = ConnectData(sc.flow, data)
  OBVIOUS
<1>2. fed.ok /\ fed.flow \in HopDone("Refused", FALSE)
  BY <1>1, HopAnswers
<1>3. PICK polled : polled = ConnectPoll(fed.flow)
  OBVIOUS
<1>4. polled.out # None /\ polled.out.value = "Refused"
  BY <1>2, <1>3, HopTells
<1>5. PICK r : r = Ends(sc, "refused")
  OBVIOUS
<1>6. st = Step(r, << >>)
  BY <1>1, <1>2, <1>3, <1>4, <1>5 DEF DialerHop
<1>7. st.script = r /\ st.out = << >>
  BY <1>6, StepIs
<1> QED
  BY <1>5, <1>7, ScriptEnds

\* It is bridged, and sends CONNECT.
LEMMA HopStepBridged ==
    ASSUME NEW sc, IsScript(sc), NEW buf, sc.flow \in HopFlow(buf), NEW data, NEW b, b = buf \o data,
           Decode(b) = "Complete", FrontOf(b) = Message("STATUS", "Ok"), RestOf(b) = << >>,
           sc.addrs \in SUBSET Sides, NEW st, st = DialerHop(sc, data)
    PROVE  /\ Goes(st.script, sc, "dcutr") /\ st.script.flow \in InitiatorFlow(<< >>)
           /\ st.out = ConnectF(sc.addrs)
<1>1. PICK fed : fed = ConnectData(sc.flow, data)
  OBVIOUS
<1>2. fed.ok /\ fed.flow \in HopDone("Bridged", FALSE)
  BY <1>1, HopAnswers
<1>3. PICK polled : polled = ConnectPoll(fed.flow)
  OBVIOUS
<1>4. polled.out # None /\ polled.out.value = "Bridged" /\ polled.flow \in HopDone("Bridged", TRUE)
  BY <1>2, <1>3, HopTells
<1>5. PICK rest : rest = ConnectPoll(polled.flow)
  OBVIOUS
<1>6. rest.out = None
  BY <1>4, <1>5, HopTells
<1>7. PICK first : first = InitiatorPoll(NewInitiator(sc.addrs))
  OBVIOUS
<1>8. first.flow \in InitiatorFlow(<< >>) /\ first.out.value = ConnectF(sc.addrs)
  BY <1>7, InitiatorAsks
<1>9. PICK next : next = [sc EXCEPT !.at = "dcutr", !.flow = first.flow]
  OBVIOUS
<1>10. st = Behind(first.out.value, Step(next, << >>))
  BY <1>1, <1>2, <1>3, <1>4, <1>5, <1>6, <1>7, <1>9 DEF DialerHop
<1>11. st.script = next /\ st.out = ConnectF(sc.addrs) \o << >>
  BY <1>8, <1>10 DEF Behind, Step
<1>12. ConnectF(sc.addrs) \o << >> = ConnectF(sc.addrs)
  <2>1. ConnectF(sc.addrs) \in Seq(Units)
    BY FrameIs, MessagesAre, UnitSeqs DEF ConnectF
  <2> QED
    BY ONLY <2>1, Alone
<1>13. Goes(next, sc, "dcutr") /\ next.flow = first.flow
  BY <1>9, ScriptBridged
<1> QED
  BY <1>8, <1>11, <1>12, <1>13

\* run_dial waits on for the DCUtR reply.
LEMMA InitiatorStepWaits ==
    ASSUME NEW sc, IsScript(sc), NEW buf, sc.flow \in InitiatorFlow(buf), NEW data, NEW b, b = buf \o data,
           Decode(b) = "Incomplete", NEW st, st = DialerDcutr(sc, data)
    PROVE  Goes(st.script, sc, sc.at) /\ st.script.flow \in InitiatorFlow(b) /\ st.out = << >>
<1>1. PICK fed : fed = InitiatorData(sc.flow, data)
  OBVIOUS
<1>2. fed.ok /\ fed.flow \in InitiatorFlow(b)
  BY <1>1, InitiatorWaitsOn
<1>3. PICK polled : polled = InitiatorPoll(fed.flow)
  OBVIOUS
<1>4. polled.out = None /\ polled.flow \in InitiatorFlow(b)
  BY <1>2, <1>3, InitiatorTells
<1>5. PICK r : r = [sc EXCEPT !.flow = polled.flow]
  OBVIOUS
<1>6. st = Step(r, << >>)
  BY <1>1, <1>2, <1>3, <1>4, <1>5 DEF DialerDcutr
<1>7. st.script = r /\ st.out = << >>
  BY <1>6, StepIs
<1>8. Goes(r, sc, sc.at) /\ r.flow = polled.flow
  BY ONLY <1>5, IsScript(sc), ScriptKeeps
<1> QED
  BY <1>4, <1>7, <1>8

\* It has the reply, sends SYNC and dials.
LEMMA InitiatorStepPunches ==
    ASSUME NEW sc, IsScript(sc), NEW buf, sc.flow \in InitiatorFlow(buf), NEW data, NEW b, b = buf \o data,
           NEW A \in SUBSET Sides, Decode(b) = "Complete", FrontOf(b) = Message("CONNECT", A),
           NEW st, st = DialerDcutr(sc, data)
    PROVE  Starts(st.script, sc, A) /\ st.out = SyncF
<1>1. PICK fed : fed = InitiatorData(sc.flow, data)
  OBVIOUS
<1>2. fed.ok /\ fed.flow \in InitiatorReady(A, RestOf(b), FALSE)
  BY <1>1, InitiatorAnswers
<1>3. PICK polled : polled = InitiatorPoll(fed.flow)
  OBVIOUS
<1>4. polled.out # None /\ polled.out.value = A /\ polled.flow \in InitiatorReady(A, RestOf(b), TRUE)
  BY <1>2, <1>3, InitiatorTells
<1>5. PICK sync : sync = InitiatorPoll(SendSync(polled.flow).flow)
  OBVIOUS
<1>6. sync.out.value = SyncF
  BY <1>4, <1>5, InitiatorSyncs
<1>7. PICK r : r = Punches(sc, A)
  OBVIOUS
<1>8. st = Step(r, SyncF)
  BY <1>1, <1>2, <1>3, <1>4, <1>5, <1>6, <1>7 DEF DialerDcutr
<1>9. st.script = r /\ st.out = SyncF
  BY <1>8, StepIs
<1> QED
  BY <1>7, <1>9, ScriptPunches

\* run_listen waits on for STOP CONNECT.
LEMMA StopStepWaits ==
    ASSUME NEW sc, IsScript(sc), NEW buf, sc.flow \in StopFlow(buf), NEW data, NEW b, b = buf \o data,
           Decode(b) = "Incomplete", NEW st, st = ListenerStop(sc, data)
    PROVE  Goes(st.script, sc, sc.at) /\ st.script.flow \in StopFlow(b) /\ st.out = << >>
<1>1. PICK fed : fed = StopData(sc.flow, data)
  OBVIOUS
<1>2. fed.ok /\ fed.flow \in StopFlow(b)
  BY <1>1, StopWaitsOn
<1>3. PICK polled : polled = StopPoll(fed.flow)
  OBVIOUS
<1>4. polled.out = None /\ polled.flow \in StopFlow(b)
  BY <1>2, <1>3, StopTells
<1>5. PICK r : r = [sc EXCEPT !.flow = polled.flow]
  OBVIOUS
<1>6. st = Step(r, << >>)
  BY <1>1, <1>2, <1>3, <1>4, <1>5 DEF ListenerStop
<1>7. st.script = r /\ st.out = << >>
  BY <1>6, StepIs
<1>8. Goes(r, sc, sc.at) /\ r.flow = polled.flow
  BY ONLY <1>5, IsScript(sc), ScriptKeeps
<1> QED
  BY <1>4, <1>7, <1>8

\* It has the request, accepts it and starts DCUtR.
LEMMA StopStepAccepts ==
    ASSUME NEW sc, IsScript(sc), NEW buf, sc.flow \in StopFlow(buf), NEW data, NEW b, b = buf \o data,
           Decode(b) = "Complete", FrontOf(b) = Message("CONNECT", "Dialer"), RestOf(b) = << >>,
           NEW st, st = ListenerStop(sc, data)
    PROVE  /\ Goes(st.script, sc, "dcutr") /\ st.out = StatusF("Ok")
           /\ st.script.flow \in ResponderFlow(sc.addrs, << >>, "AwaitingConnect")
<1>1. PICK fed : fed = StopData(sc.flow, data)
  OBVIOUS
<1>2. fed.ok /\ fed.flow \in StopDone("AwaitingDecision", << >>, FALSE)
  BY <1>1, StopAnswers
<1>3. PICK polled : polled = StopPoll(fed.flow)
  OBVIOUS
<1>4. polled.out # None /\ polled.flow \in StopDone("AwaitingDecision", << >>, TRUE)
  BY <1>2, <1>3, StopTells
<1>5. PICK taken : taken = Accept(polled.flow)
  OBVIOUS
<1>6. taken.flow \in StopDone("Bridged", StatusF("Ok"), TRUE)
  BY <1>4, <1>5, StopAccepts
<1>7. PICK status : status = StopPoll(taken.flow)
  OBVIOUS
<1>8. status.out.value = StatusF("Ok") /\ status.flow \in StopDone("Bridged", << >>, TRUE)
  BY <1>6, <1>7, StopTells
<1>9. PICK rest : rest = StopPoll(status.flow)
  OBVIOUS
<1>10. rest.out = None
  BY <1>8, <1>9, StopTells
<1>11. PICK next : next = [sc EXCEPT !.at = "dcutr", !.flow = NewResponder(sc.addrs)]
  OBVIOUS
<1>12. st = Behind(status.out.value, Step(next, << >>))
  BY <1>1, <1>2, <1>3, <1>4, <1>5, <1>7, <1>9, <1>10, <1>11 DEF ListenerStop
<1>13. st.script = next /\ st.out = StatusF("Ok") \o << >>
  BY <1>8, <1>12 DEF Behind, Step
<1>14. StatusF("Ok") \o << >> = StatusF("Ok")
  <2>1. StatusF("Ok") \in Seq(Units)
    BY FrameIs, MessagesAre, UnitSeqs DEF StatusF, Statuses
  <2> QED
    BY ONLY <2>1, Alone
<1>15. Goes(next, sc, "dcutr") /\ next.flow = NewResponder(sc.addrs)
  BY <1>11, ScriptBridged
<1> QED
  BY <1>13, <1>14, <1>15, ResponderStarts

\* run_listen waits on in DCUtR.
LEMMA ResponderStepWaits ==
    ASSUME NEW sc, IsScript(sc), NEW buf, NEW state \in {"AwaitingConnect", "AwaitingSync"},
           sc.flow \in ResponderFlow(sc.addrs, buf, state), NEW data, NEW b, b = buf \o data,
           Decode(b) = "Incomplete", NEW st, st = ListenerDcutr(sc, data)
    PROVE  /\ Goes(st.script, sc, sc.at) /\ st.out = << >>
           /\ st.script.flow \in ResponderFlow(sc.addrs, b, state)
<1>1. PICK fed : fed = ResponderData(sc.flow, data)
  OBVIOUS
<1>2. fed.ok /\ fed.flow \in ResponderFlow(sc.addrs, b, state)
  BY <1>1, ResponderWaitsOn
<1>3. fed.flow.events = << >> /\ fed.flow.outbound = << >>
  BY <1>2 DEF ResponderFlow
<1>4. Captured(fed.flow.events, sc.remote) = sc.remote
  BY <1>3, CapturedIs
<1>5. PICK idle : idle = [fed.flow EXCEPT !.outbound = << >>, !.events = << >>]
  OBVIOUS
<1>6. idle \in ResponderFlow(sc.addrs, b, state) /\ idle.state # "Done"
  BY <1>2, <1>5 DEF ResponderFlow
<1>7. PICK r : r = [sc EXCEPT !.flow = idle, !.remote = sc.remote]
  OBVIOUS
<1>8. st = Step(r, << >>)
  BY <1>1, <1>2, <1>3, <1>4, <1>5, <1>6, <1>7 DEF ListenerDcutr
<1>9. st.script = r /\ st.out = << >>
  BY <1>8, StepIs
<1>10. Goes(r, sc, sc.at) /\ r.flow = idle
  BY <1>7 DEF Goes, IsScript
<1> QED
  BY <1>6, <1>9, <1>10

\* It has CONNECT and replies.
LEMMA ResponderStepReplies ==
    ASSUME NEW sc, IsScript(sc), NEW buf, sc.flow \in ResponderFlow(sc.addrs, buf, "AwaitingConnect"),
           NEW data, NEW b, b = buf \o data, NEW A \in SUBSET Sides, sc.addrs \in SUBSET Sides,
           Decode(b) = "Complete", FrontOf(b) = Message("CONNECT", A), RestOf(b) = << >>,
           NEW st, st = ListenerDcutr(sc, data)
    PROVE  /\ Replies(st.script, sc, A) /\ st.out = ConnectF(sc.addrs)
           /\ st.script.flow \in ResponderFlow(sc.addrs, << >>, "AwaitingSync")
<1>1. PICK fed : fed = ResponderData(sc.flow, data)
  OBVIOUS
<1>2. fed.ok /\ fed.flow \in ResponderReplied(sc.addrs, A)
  <2>1. PICK own, f : own = sc.addrs /\ f = sc.flow
    OBVIOUS
  <2>2. f \in ResponderFlow(own, buf, "AwaitingConnect") /\ fed = ResponderData(f, data) /\ own \in SUBSET Sides
    BY <1>1, <2>1
  <2>3. fed.ok /\ fed.flow \in ResponderReplied(own, A)
    BY ONLY <2>2, b = buf \o data, A \in SUBSET Sides, Decode(b) = "Complete",
            FrontOf(b) = Message("CONNECT", A), RestOf(b) = << >>, ResponderConnects
  <2> QED
    BY <2>1, <2>3
<1>3. fed.flow.events = <<Message("ConnectReceived", A)>> /\ fed.flow.outbound = ConnectF(sc.addrs)
  BY <1>2 DEF ResponderReplied
<1>4. Captured(fed.flow.events, sc.remote) = A
  BY <1>3, CapturedIs
<1>5. PICK idle : idle = [fed.flow EXCEPT !.outbound = << >>, !.events = << >>]
  OBVIOUS
<1>6. idle \in ResponderFlow(sc.addrs, << >>, "AwaitingSync") /\ idle.state # "Done"
  BY <1>2, <1>5 DEF ResponderFlow, ResponderReplied
<1>7. PICK r : r = [sc EXCEPT !.flow = idle, !.remote = A]
  OBVIOUS
<1>8. st = Step(r, ConnectF(sc.addrs))
  BY <1>1, <1>2, <1>3, <1>4, <1>5, <1>6, <1>7 DEF ListenerDcutr
<1>9. st.script = r /\ st.out = ConnectF(sc.addrs)
  BY <1>8, StepIs
<1>10. Replies(r, sc, A) /\ r.flow = idle
  BY <1>7 DEF IsScript, Replies
<1> QED
  BY <1>6, <1>9, <1>10

\* It has SYNC and dials.
LEMMA ResponderStepPunches ==
    ASSUME NEW sc, IsScript(sc), NEW buf, sc.flow \in ResponderFlow(sc.addrs, buf, "AwaitingSync"),
           NEW data, NEW b, b = buf \o data, sc.remote # None,
           Decode(b) = "Complete", FrontOf(b) = Message("SYNC", {}),
           NEW st, st = ListenerDcutr(sc, data)
    PROVE  Starts(st.script, sc, sc.remote) /\ st.out = << >>
<1>1. PICK fed : fed = ResponderData(sc.flow, data)
  OBVIOUS
<1>2. fed.ok /\ fed.flow \in ResponderOver(sc.addrs, RestOf(b))
  <2>1. PICK own, f : own = sc.addrs /\ f = sc.flow
    OBVIOUS
  <2>2. f \in ResponderFlow(own, buf, "AwaitingSync") /\ fed = ResponderData(f, data)
    BY <1>1, <2>1
  <2>3. fed.ok /\ fed.flow \in ResponderOver(own, RestOf(b))
    BY ONLY <2>2, b = buf \o data, Decode(b) = "Complete",
            FrontOf(b) = Message("SYNC", {}), ResponderEnds
  <2> QED
    BY <2>1, <2>3
<1>3. fed.flow.events = <<Message("SyncReceived", {})>> /\ fed.flow.outbound = << >>
  BY <1>2 DEF ResponderOver
<1>4. Captured(fed.flow.events, sc.remote) = sc.remote
  BY <1>3, CapturedIs
<1>5. PICK idle : idle = [fed.flow EXCEPT !.outbound = << >>, !.events = << >>]
  OBVIOUS
<1>6. idle.state = "Done"
  BY <1>2, <1>5 DEF ResponderOver
<1>7. PICK r : r = Punches(sc, sc.remote)
  OBVIOUS
<1>8. st = Step(r, << >>)
  BY <1>1, <1>2, <1>3, <1>4, <1>5, <1>6, <1>7 DEF ListenerDcutr
<1>9. st.script = r /\ st.out = << >>
  BY <1>8, StepIs
<1> QED
  BY <1>7, <1>9, ScriptPunches

-----------------------------------------------------------------------------
(* The invariant.                                                          *)

Early == {"relay", "autonat", "ready"}
Past == {"punch", "connected", "ping", "echo", "ended"}
Later == {"punch", "grace", "connected", "ping", "fallback"}
OnceBridged == {"bridged", "closed"}

\* The other end of the bridge may send no more.
Gone(c, other) == c = "closed" \/ other.at = "ended"

\* The flow of a wait, buf received so far.
FlowOf(wait, own, buf) ==
    CASE wait = "reserve" -> ReserveFlow(buf)
      [] wait = "hop" -> HopFlow(buf)
      [] wait = "stop" -> StopFlow(buf)
      [] wait = "reply" -> InitiatorFlow(buf)
      [] wait = "connect" -> ResponderFlow(own, buf, "AwaitingConnect")
      [] wait = "sync" -> ResponderFlow(own, buf, "AwaitingSync")

\* What script sc has buffered, and w behind it, is x.
Awaits(wait, sc, w, x, gone) ==
    \E buf \in Seq(Clear) : sc.flow \in FlowOf(wait, sc.addrs, buf) /\ Brings(buf, w, x, gone)

\* The listener's reservation: aR and wR are what the relay has of it and what
\* it has sent of its answer.
Reserving(L, c, aR, wR) ==
    /\ wR \in Seq(Clear) /\ aR \in {<< >>, ReserveF}
    /\ aR # << >> => c = "none"
    /\ L.at \in Early => c = "none" /\ aR = << >> /\ wR = << >>
    /\ L.at = "reserve" =>
         /\ c \in {"none", "reserved", "offered"}
         /\ \/ aR = ReserveF /\ Awaits("reserve", L, wR, << >>, FALSE)
            \/ /\ aR = << >>
               /\ \E st \in {"Ok", "ReservationRefused"} : Awaits("reserve", L, wR, StatusF(st), FALSE)

\* The STOP stream, up to the listener's answer aL.
Offering(L, c, an, aL, wL) ==
    /\ c \in {"none", "reserved"} => wL = << >> /\ ~an
    /\ aL \in {<< >>, StatusF("Ok")}
    /\ aL # << >> => c = "offered" /\ L.at \in {"dcutr", "ended"} /\ an
    /\ c = "offered" /\ ~an => wL = StopF
    /\ L.at = "inbound" => c \in {"none", "reserved", "offered"}
    /\ L.at = "stop" => c = "offered" /\ an /\ aL = << >> /\ Awaits("stop", L, wL, StopF, FALSE)

\* What the dialer at HOP CONNECT waits for.
AwaitsHop(D, c, aD, wD, gone) ==
    \/ c \in {"none", "reserved"} /\ aD = HopF /\ Awaits("hop", D, wD, << >>, FALSE)
    \/ c \in {"none", "reserved"} /\ aD = << >> /\ Awaits("hop", D, wD, StatusF("NoReservation"), FALSE)
    \/ c = "offered" /\ aD = << >> /\ Awaits("hop", D, wD, << >>, FALSE)
    \/ c \in OnceBridged /\ aD = << >> /\ Awaits("hop", D, wD, StatusF("Ok"), gone)

\* The HOP stream, up to the relay's answer.
Asking(D, L, c, aD, wD) ==
    /\ aD \in {<< >>, HopF}
    /\ aD # << >> => c \in {"none", "reserved"}
    /\ D.at \in Early => c \in {"none", "reserved"} /\ aD = << >> /\ wD = << >>
    /\ D.at = "hop" => AwaitsHop(D, c, aD, wD, Gone(c, L))

\* What the dialer in DCUtR waits for.
AwaitsReply(D, L, wD, gone) ==
    \/ Awaits("reply", D, wD, << >>, gone)
    \/ Awaits("reply", D, wD, ConnectF(L.addrs), gone) /\ (L.at = "ended" \/ L.remote # None)

Initiating(D, L, c, wD) ==
    /\ D.at \in Past \ {"ended"} => c \in OnceBridged /\ D.remote = L.addrs
    /\ D.at = "dcutr" => c \in OnceBridged /\ AwaitsReply(D, L, wD, Gone(c, L))

\* What the listener in DCUtR waits for, before and after its reply.
AwaitsConnect(D, L, wL, gone) ==
    \/ Awaits("connect", L, wL, << >>, gone) /\ (gone \/ D.at = "hop")
    \/ /\ Awaits("connect", L, wL, ConnectF(D.addrs), gone)
       /\ D.at \in Past \cup {"dcutr"} /\ (gone \/ D.at = "dcutr")

AwaitsSync(D, L, wL, gone) ==
    \/ Awaits("sync", L, wL, << >>, gone) /\ (gone \/ D.at = "dcutr")
    \/ /\ Awaits("sync", L, wL, SyncF, gone) /\ D.at \in Past /\ D.remote = L.addrs
       /\ gone \/ D.at \in {"punch", "connected", "ping"}
    \/ /\ Awaits("sync", L, wL, SyncF \o Payload, gone) /\ D.at \in Past /\ D.remote = L.addrs
       /\ gone \/ D.at = "echo"

Responding(D, L, c, an, aL, wL) ==
    L.at = "dcutr" =>
      /\ an
      /\ \/ c = "offered" /\ aL = StatusF("Ok") /\ L.remote = None
            /\ Awaits("connect", L, wL, << >>, FALSE)
         \/ c \in OnceBridged /\ L.remote = None /\ AwaitsConnect(D, L, wL, Gone(c, D))
         \/ c \in OnceBridged /\ L.remote = D.addrs /\ D.at \in Past \cup {"dcutr"}
            /\ AwaitsSync(D, L, wL, Gone(c, D))

\* After DCUtR each peer knows the other's addresses.
Following(D, L, c) ==
    L.at \in Later =>
      c \in OnceBridged /\ D.at \in Past /\ L.remote = D.addrs /\ D.remote = L.addrs

\* What the results, and what is on the bridge, say of the other peer.
Meaning(D, L, c, wD, wL) ==
    /\ wD \in Seq(Units) /\ wL \in Seq(Units)
    /\ wD \in Seq(Plain) \/ L.result = "relay-ping-echoed"
    /\ wL \in Seq(Clear) \/ c = "closed" \/ D.result = "ping-direct"
    /\ D.result = "ping-via-relay" => L.result = "relay-ping-echoed"
    /\ L.result = "bridge-closed" => D.result = "ping-direct" \/ c = "closed"
    /\ D.result # "protocol" /\ L.result # "protocol"

\* The parts of a script that no other script sees.
TypedScript(sc, s) ==
    /\ IsScript(sc) /\ sc.attempt \in 1 .. RelayReadyAttempts
    /\ sc.addrs \in SUBSET {s} /\ sc.remote \in {None} \cup SUBSET {Other(s)}
    /\ sc.result \in Results /\ (sc.at = "ended" <=> sc.result # None)

Typed(D, L) ==
    /\ TypedScript(D, "Dialer") /\ TypedScript(L, "Listener")
    /\ D.at \in Early \cup {"hop", "dcutr"} \cup Past
    /\ L.at \in Early \cup {"reserve", "inbound", "stop", "dcutr", "ended"} \cup Later
    /\ L.at \in Early \cup {"reserve", "inbound", "stop"} => L.remote = None

Consistent(D, L, c, an, aR, aD, aL, wR, wD, wL) ==
    /\ c \in {"none", "reserved", "offered", "bridged", "closed"} /\ an \in BOOLEAN
    /\ Reserving(L, c, aR, wR)
    /\ Offering(L, c, an, aL, wL)
    /\ Asking(D, L, c, aD, wD)
    /\ Initiating(D, L, c, wD)
    /\ Responding(D, L, c, an, aL, wL)
    /\ Following(D, L, c)
    /\ Meaning(D, L, c, wD, wL)
    /\ Typed(D, L)

-----------------------------------------------------------------------------
(* A wait and its stream.                                                  *)

\* A stream that may be over may be over still.
LEMMA AwaitsMore ==
    ASSUME NEW wait, NEW sc, NEW w, NEW x, NEW g \in BOOLEAN, NEW h \in BOOLEAN, g => h,
           Awaits(wait, sc, w, x, g)
    PROVE  Awaits(wait, sc, w, x, h)
<1>1. PICK buf \in Seq(Clear) : sc.flow \in FlowOf(wait, sc.addrs, buf) /\ Brings(buf, w, x, g)
  BY Zenon DEF Awaits
<1>2. Brings(buf, w, x, h)
  BY <1>1, Zenon DEF Brings
<1> QED
  BY <1>1, <1>2, Zenon DEF Awaits

\* A frame behind what was on its way.
LEMMA AwaitsGrows ==
    ASSUME NEW wait, NEW sc, NEW w \in Seq(Units), NEW x \in Seq(Clear), NEW y \in Seq(Clear),
           Awaits(wait, sc, w, x, FALSE), NEW v, v = w \o y, NEW u, u = x \o y
    PROVE  Awaits(wait, sc, v, u, FALSE)
<1>1. PICK buf \in Seq(Clear) : sc.flow \in FlowOf(wait, sc.addrs, buf) /\ Brings(buf, w, x, FALSE)
  BY Zenon DEF Awaits
<1>2. PICK t \in Fins : buf \o w = x \o t /\ t = << >>
  BY <1>1, Zenon DEF Brings
<1>3. buf \in Seq(Units) /\ x \in Seq(Units) /\ y \in Seq(Units)
  BY UnitSeqs
<1>4. x \o t = x
  BY <1>2, <1>3, Alone
<1>5. buf \o w = x
  BY <1>2, <1>4
<1>6. (buf \o w) \o y = buf \o (w \o y)
  BY ONLY <1>3, w \in Seq(Units), Regroup
<1>7. buf \o v = u
  BY <1>5, <1>6
<1>8. u \in Seq(Units)
  BY ONLY <1>3, u = x \o y, Joins
<1>9. u \o << >> = u
  BY ONLY <1>8, Alone
<1>10. << >> \in Fins
  BY SmallSeqs
<1>11. buf \o v = u \o << >>
  BY ONLY <1>7, <1>9
<1>12. Brings(buf, v, u, FALSE)
  BY ONLY <1>10, <1>11, Zenon DEF Brings
<1> QED
  BY <1>1, <1>12, Zenon DEF Awaits

\* A frame behind nothing.
LEMMA AwaitsFirst ==
    ASSUME NEW wait, NEW sc, NEW w \in Seq(Units), NEW y \in Seq(Clear),
           Awaits(wait, sc, w, << >>, FALSE), NEW v, v = w \o y
    PROVE  Awaits(wait, sc, v, y, FALSE)
<1>1. PICK e : e = << >>
  OBVIOUS
<1>2. e \in Seq(Clear) /\ Awaits(wait, sc, w, e, FALSE)
  BY <1>1, SmallSeqs
<1>3. y = e \o y
  BY <1>1, UnitSeqs, Alone
<1> QED
  BY ONLY <1>2, <1>3, w \in Seq(Units), y \in Seq(Clear), v = w \o y, AwaitsGrows

\* Fin behind what was on its way.
LEMMA AwaitsEnd ==
    ASSUME NEW wait, NEW sc, NEW w \in Seq(Units), NEW x \in Seq(Clear), NEW g \in BOOLEAN,
           Awaits(wait, sc, w, x, g), NEW v, v = w \o <<Fin>>
    PROVE  Awaits(wait, sc, v, x, TRUE)
<1>1. PICK buf \in Seq(Clear) : sc.flow \in FlowOf(wait, sc.addrs, buf) /\ Brings(buf, w, x, g)
  BY Zenon DEF Awaits
<1>2. PICK t \in Fins : buf \o w = x \o t
  BY <1>1, Zenon DEF Brings
<1>3. PICK e : e = <<Fin>>
  OBVIOUS
<1>4. e \in Fins
  BY <1>3, SmallSeqs
<1>5. buf \in Seq(Units) /\ x \in Seq(Units) /\ t \in Seq(Units) /\ e \in Seq(Units)
  BY <1>4, UnitSeqs
<1>6. (buf \o w) \o e = buf \o (w \o e)
  BY ONLY <1>5, w \in Seq(Units), Regroup
<1>a. (x \o t) \o e = x \o (t \o e)
  BY ONLY <1>5, Regroup
<1>7. buf \o v = x \o (t \o e)
  BY <1>2, <1>3, <1>6, <1>a
<1>8. PICK s : s = t \o e
  OBVIOUS
<1>9. s \in Fins
  BY ONLY <1>4, <1>8, t \in Fins, Joins DEF Fins
<1>10. buf \o v = x \o s
  BY <1>7, <1>8
<1>11. Brings(buf, v, x, TRUE)
  BY ONLY <1>9, <1>10, Zenon DEF Brings
<1> QED
  BY <1>1, <1>11, Zenon DEF Awaits

\* Fin is taken from the wire.
LEMMA AwaitsFin ==
    ASSUME NEW wait, NEW sc, NEW w \in Seq(Units), NEW x \in Seq(Clear), NEW g \in BOOLEAN,
           Awaits(wait, sc, w, x, g), w # << >>, Head(w) = Fin, NEW v, v = Tail(w)
    PROVE  g /\ Awaits(wait, sc, v, x, g)
<1>1. PICK buf \in Seq(Clear) : sc.flow \in FlowOf(wait, sc.addrs, buf) /\ Brings(buf, w, x, g)
  BY Zenon DEF Awaits
<1>2. Brings(buf, w, x, g)
  BY <1>1
<1>3. g /\ Brings(buf, Tail(w), x, g)
  BY ONLY <1>2, buf \in Seq(Clear), w \in Seq(Units), x \in Seq(Clear), g \in BOOLEAN, w # << >>,
          Head(w) = Fin, FinComes
<1> QED
  BY <1>1, <1>3, Zenon DEF Awaits

\* A flow that has received nothing.
LEMMA AwaitsFresh ==
    ASSUME NEW wait, NEW sc, NEW x \in Seq(Clear), sc.flow \in FlowOf(wait, sc.addrs, << >>)
    PROVE  Awaits(wait, sc, x, x, FALSE)
<1>1. x \in Seq(Units)
  BY UnitSeqs
<1>2. << >> \o x = x /\ x \o << >> = x
  BY ONLY <1>1, Alone
<1>3. << >> \o x = x \o << >>
  BY ONLY <1>2
<1>4. << >> \in Fins /\ << >> \in Seq(Clear)
  BY SmallSeqs
<1>5. Brings(<< >>, x, x, FALSE)
  BY ONLY <1>3, <1>4, Zenon DEF Brings
<1> QED
  BY <1>4, <1>5, Zenon DEF Awaits

\* Nothing on its way: the wire is empty.
LEMMA AwaitsNothing ==
    ASSUME NEW wait, NEW sc, NEW w \in Seq(Units), Awaits(wait, sc, w, << >>, FALSE)
    PROVE  w = << >>
<1>1. PICK buf \in Seq(Clear) : Brings(buf, w, << >>, FALSE)
  BY Zenon DEF Awaits
<1>2. Brings(buf, w, << >>, FALSE)
  BY <1>1
<1> QED
  BY ONLY <1>2, buf \in Seq(Clear), w \in Seq(Units), NothingHeld

\* Units a arrive together, z is left on the wire.
Takes(w, a, z) == \A buf \in Seq(Clear) : Moves(buf, w, a, buf \o a, z)

\* UserStreamData takes units from the wire.
LEMMA DataTakes ==
    ASSUME NEW w \in Seq(Units), NEW n \in 1 .. Len(w), NEW a, a = SubSeq(w, 1, n),
           NEW z, z = SubSeq(w, n + 1, Len(w)), \A i \in DOMAIN a : a[i] # Fin
    PROVE  Takes(w, a, z)
<1>1. ASSUME NEW buf \in Seq(Clear) PROVE Moves(buf, w, a, buf \o a, z)
  BY ONLY w \in Seq(Units), n \in 1 .. Len(w), a = SubSeq(w, 1, n), z = SubSeq(w, n + 1, Len(w)),
          \A i \in DOMAIN a : a[i] # Fin, buf \in Seq(Clear), Arrive
<1> QED
  BY <1>1, Zenon DEF Takes

\* What is taken and what is left.
LEMMA TakesAre ==
    ASSUME NEW w, NEW a, NEW z, Takes(w, a, z)
    PROVE  a \in Seq(Clear) /\ a # << >> /\ z \in Seq(Units) /\ a \o z = w
<1>1. PICK e : e = << >>
  OBVIOUS
<1>2. e \in Seq(Clear)
  BY <1>1, SmallSeqs
<1>3. Moves(e, w, a, e \o a, z)
  BY <1>2, Zenon DEF Takes
<1> QED
  BY <1>3 DEF Moves

\* No data comes where nothing is on its way.
LEMMA NothingTaken ==
    ASSUME NEW wait, NEW sc, NEW w \in Seq(Units), NEW g \in BOOLEAN, Awaits(wait, sc, w, << >>, g),
           NEW a, NEW z, Takes(w, a, z)
    PROVE  FALSE
<1>1. PICK buf \in Seq(Clear) : Brings(buf, w, << >>, g)
  BY Zenon DEF Awaits
<1>2. Moves(buf, w, a, buf \o a, z)
  BY Zenon DEF Takes
<1>3. PICK b : b = buf \o a
  OBVIOUS
<1>4. Moves(buf, w, a, b, z) /\ Brings(buf, w, << >>, g)
  BY <1>1, <1>2, <1>3
<1> QED
  BY ONLY <1>4, buf \in Seq(Clear), w \in Seq(Units), NothingComes

\* The flow of each wait.
LEMMA FlowsAre ==
    \A own, buf :
      /\ FlowOf("reserve", own, buf) = ReserveFlow(buf) /\ FlowOf("hop", own, buf) = HopFlow(buf)
      /\ FlowOf("stop", own, buf) = StopFlow(buf) /\ FlowOf("reply", own, buf) = InitiatorFlow(buf)
      /\ FlowOf("connect", own, buf) = ResponderFlow(own, buf, "AwaitingConnect")
      /\ FlowOf("sync", own, buf) = ResponderFlow(own, buf, "AwaitingSync")
BY DEF FlowOf

\* What a wait has when units arrive: buf before, b with them.
Reaches(wait, sc, w, m, g, a, z, buf, b) ==
    /\ buf \in Seq(Clear) /\ sc.flow \in FlowOf(wait, sc.addrs, buf) /\ b \in Seq(Clear) /\ b = buf \o a
    /\ \/ Decode(b) = "Incomplete" /\ Brings(b, z, EncodeFrame(m), g)
       \/ /\ Decode(b) = "Complete" /\ FrontOf(b) = m /\ RestOf(b) = << >>
          /\ Brings(<< >>, z, << >>, g)

\* Units arrive in a wait for a frame that nothing follows.
LEMMA FrameReached ==
    ASSUME NEW wait, NEW sc, NEW w \in Seq(Units), NEW m \in Messages, NEW g \in BOOLEAN,
           Awaits(wait, sc, w, EncodeFrame(m), g), NEW a, NEW z, Takes(w, a, z)
    PROVE  \E buf, b : Reaches(wait, sc, w, m, g, a, z, buf, b)
<1>1. PICK buf \in Seq(Clear) :
        sc.flow \in FlowOf(wait, sc.addrs, buf) /\ Brings(buf, w, EncodeFrame(m), g)
  BY Zenon DEF Awaits
<1>2. Moves(buf, w, a, buf \o a, z)
  BY Zenon DEF Takes
<1>3. PICK b : b = buf \o a
  OBVIOUS
<1>4. Moves(buf, w, a, b, z) /\ Brings(buf, w, EncodeFrame(m), g)
  BY <1>1, <1>2, <1>3
<1>5. \/ /\ Decode(b) = "Incomplete" /\ Len(b) < FrameLen
         /\ Brings(b, z, EncodeFrame(m), g)
      \/ /\ Decode(b) = "Complete" /\ FrontOf(b) = m /\ RestOf(b) = << >>
         /\ Brings(<< >>, z, << >>, g)
  BY ONLY <1>4, buf \in Seq(Clear), w \in Seq(Units), m \in Messages, g \in BOOLEAN, LastFrameComes
<1>6. b \in Seq(Clear)
  BY <1>4, Zenon DEF Moves
<1>7. Reaches(wait, sc, w, m, g, a, z, buf, b)
  BY <1>1, <1>3, <1>5, <1>6, Zenon DEF Reaches
<1> QED
  BY <1>7

\* run_listen reads the answer to RESERVE.
LEMMA ReserveReads ==
    ASSUME NEW sc, IsScript(sc), NEW w \in Seq(Units), NEW st \in Statuses,
           Awaits("reserve", sc, w, StatusF(st), FALSE), NEW a, NEW z, Takes(w, a, z),
           NEW r, r = ListenerReserve(sc, a).script
    PROVE  \/ Goes(r, sc, sc.at) /\ Awaits("reserve", r, z, StatusF(st), FALSE)
           \/ Goes(r, sc, "inbound")
           \/ Finishes(r, sc, "refused")
<1>1. PICK m \in Messages : m = Message("STATUS", st)
  BY MessagesAre
<1>2. Awaits("reserve", sc, w, EncodeFrame(m), FALSE) /\ FALSE \in BOOLEAN
  BY <1>1 DEF StatusF
<1>3. PICK buf, b : Reaches("reserve", sc, w, m, FALSE, a, z, buf, b)
  BY ONLY <1>2, w \in Seq(Units), m \in Messages, Takes(w, a, z), FrameReached
<1>4. /\ buf \in Seq(Clear) /\ sc.flow \in ReserveFlow(buf) /\ b \in Seq(Clear) /\ b = buf \o a
      /\ \/ Decode(b) = "Incomplete" /\ Brings(b, z, EncodeFrame(m), FALSE)
         \/ Decode(b) = "Complete" /\ FrontOf(b) = m
  BY <1>3, FlowsAre, Zenon DEF Reaches
<1>5. CASE Decode(b) = "Incomplete" /\ Brings(b, z, EncodeFrame(m), FALSE)
  <2>1. Goes(r, sc, sc.at) /\ r.flow \in ReserveFlow(b)
    BY <1>4, <1>5, ReserveStepWaits
  <2>2. r.flow \in FlowOf("reserve", r.addrs, b)
    BY <2>1, FlowsAre, Zenon
  <2>3. Awaits("reserve", r, z, EncodeFrame(m), FALSE)
    BY <1>4, <1>5, <2>2, Zenon DEF Awaits
  <2> QED
    BY <1>1, <2>1, <2>3 DEF StatusF
<1>6. CASE Decode(b) = "Complete" /\ FrontOf(b) = m
  BY <1>1, <1>4, <1>6, ReserveStepEnds
<1> QED
  BY <1>4, <1>5, <1>6

\* run_dial reads the answer to HOP CONNECT.
LEMMA HopReads ==
    ASSUME NEW sc, IsScript(sc), NEW w \in Seq(Units), NEW status \in Statuses, NEW g \in BOOLEAN,
           Awaits("hop", sc, w, StatusF(status), g), NEW a, NEW z, Takes(w, a, z),
           sc.addrs \in SUBSET Sides, NEW st, st = DialerHop(sc, a)
    PROVE  \/ /\ Goes(st.script, sc, sc.at) /\ Awaits("hop", st.script, z, StatusF(status), g)
              /\ st.out = << >>
           \/ status # "Ok" /\ Finishes(st.script, sc, "refused") /\ st.out = << >>
           \/ /\ status = "Ok" /\ Goes(st.script, sc, "dcutr") /\ st.out = ConnectF(sc.addrs)
              /\ Awaits("reply", st.script, z, << >>, g)
<1>1. PICK m \in Messages : m = Message("STATUS", status)
  BY MessagesAre
<1>2. Awaits("hop", sc, w, EncodeFrame(m), g)
  BY <1>1 DEF StatusF
<1>3. PICK buf, b : Reaches("hop", sc, w, m, g, a, z, buf, b)
  BY ONLY <1>2, w \in Seq(Units), m \in Messages, g \in BOOLEAN, Takes(w, a, z), FrameReached
<1>4. /\ buf \in Seq(Clear) /\ sc.flow \in HopFlow(buf) /\ b \in Seq(Clear) /\ b = buf \o a
      /\ \/ Decode(b) = "Incomplete" /\ Brings(b, z, EncodeFrame(m), g)
         \/ /\ Decode(b) = "Complete" /\ FrontOf(b) = m /\ RestOf(b) = << >>
            /\ Brings(<< >>, z, << >>, g)
  BY <1>3, FlowsAre, Zenon DEF Reaches
<1>5. CASE Decode(b) = "Incomplete" /\ Brings(b, z, EncodeFrame(m), g)
  <2>1. Goes(st.script, sc, sc.at) /\ st.script.flow \in HopFlow(b) /\ st.out = << >>
    BY <1>4, <1>5, HopStepWaits
  <2>2. st.script.flow \in FlowOf("hop", st.script.addrs, b)
    BY <2>1, FlowsAre, Zenon
  <2>3. Awaits("hop", st.script, z, EncodeFrame(m), g)
    BY <1>4, <1>5, <2>2, Zenon DEF Awaits
  <2> QED
    BY <1>1, <2>1, <2>3 DEF StatusF
<1>6. CASE Decode(b) = "Complete" /\ FrontOf(b) = m /\ RestOf(b) = << >> /\ Brings(<< >>, z, << >>, g)
  <2>1. CASE status # "Ok"
    BY <1>1, <1>4, <1>6, <2>1, HopStepRefused
  <2>2. CASE status = "Ok"
    <3>1. FrontOf(b) = Message("STATUS", "Ok")
      BY <1>1, <1>6, <2>2
    <3>2. /\ Goes(st.script, sc, "dcutr") /\ st.script.flow \in InitiatorFlow(<< >>)
          /\ st.out = ConnectF(sc.addrs)
      BY <1>4, <1>6, <3>1, HopStepBridged
    <3>3. st.script.flow \in FlowOf("reply", st.script.addrs, << >>)
      BY <3>2, FlowsAre, Zenon
    <3>4. << >> \in Seq(Clear)
      BY SmallSeqs
    <3>5. Awaits("reply", st.script, z, << >>, g)
      BY <1>6, <3>3, <3>4, Zenon DEF Awaits
    <3> QED
      BY <2>2, <3>2, <3>5
  <2> QED
    BY <2>1, <2>2
<1> QED
  BY <1>4, <1>5, <1>6

\* run_dial reads the DCUtR reply.
LEMMA ReplyReads ==
    ASSUME NEW sc, IsScript(sc), NEW w \in Seq(Units), NEW A \in SUBSET Sides, NEW g \in BOOLEAN,
           Awaits("reply", sc, w, ConnectF(A), g), NEW a, NEW z, Takes(w, a, z),
           NEW st, st = DialerDcutr(sc, a)
    PROVE  \/ /\ Goes(st.script, sc, sc.at) /\ Awaits("reply", st.script, z, ConnectF(A), g)
              /\ st.out = << >>
           \/ Starts(st.script, sc, A) /\ st.out = SyncF
<1>1. PICK m \in Messages : m = Message("CONNECT", A)
  BY MessagesAre
<1>2. Awaits("reply", sc, w, EncodeFrame(m), g)
  BY <1>1 DEF ConnectF
<1>3. PICK buf, b : Reaches("reply", sc, w, m, g, a, z, buf, b)
  BY ONLY <1>2, w \in Seq(Units), m \in Messages, g \in BOOLEAN, Takes(w, a, z), FrameReached
<1>4. /\ buf \in Seq(Clear) /\ sc.flow \in InitiatorFlow(buf) /\ b \in Seq(Clear) /\ b = buf \o a
      /\ \/ Decode(b) = "Incomplete" /\ Brings(b, z, EncodeFrame(m), g)
         \/ Decode(b) = "Complete" /\ FrontOf(b) = m
  BY <1>3, FlowsAre, Zenon DEF Reaches
<1>5. CASE Decode(b) = "Incomplete" /\ Brings(b, z, EncodeFrame(m), g)
  <2>1. Goes(st.script, sc, sc.at) /\ st.script.flow \in InitiatorFlow(b) /\ st.out = << >>
    BY <1>4, <1>5, InitiatorStepWaits
  <2>2. st.script.flow \in FlowOf("reply", st.script.addrs, b)
    BY <2>1, FlowsAre, Zenon
  <2>3. Awaits("reply", st.script, z, EncodeFrame(m), g)
    BY <1>4, <1>5, <2>2, Zenon DEF Awaits
  <2> QED
    BY <1>1, <2>1, <2>3 DEF ConnectF
<1>6. CASE Decode(b) = "Complete" /\ FrontOf(b) = m
  BY <1>1, <1>4, <1>6, InitiatorStepPunches
<1> QED
  BY <1>4, <1>5, <1>6

\* run_listen reads STOP CONNECT.
LEMMA StopReads ==
    ASSUME NEW sc, IsScript(sc), NEW w \in Seq(Units),
           Awaits("stop", sc, w, StopF, FALSE), NEW a, NEW z, Takes(w, a, z),
           NEW st, st = ListenerStop(sc, a)
    PROVE  \/ /\ Goes(st.script, sc, sc.at) /\ Awaits("stop", st.script, z, StopF, FALSE)
              /\ st.out = << >>
           \/ /\ Goes(st.script, sc, "dcutr") /\ st.out = StatusF("Ok")
              /\ Awaits("connect", st.script, z, << >>, FALSE)
<1>1. PICK m \in Messages : m = Message("CONNECT", "Dialer")
  BY MessagesAre
<1>2. Awaits("stop", sc, w, EncodeFrame(m), FALSE) /\ FALSE \in BOOLEAN
  BY <1>1 DEF StopF
<1>3. PICK buf, b : Reaches("stop", sc, w, m, FALSE, a, z, buf, b)
  BY ONLY <1>2, w \in Seq(Units), m \in Messages, Takes(w, a, z), FrameReached
<1>4. /\ buf \in Seq(Clear) /\ sc.flow \in StopFlow(buf) /\ b \in Seq(Clear) /\ b = buf \o a
      /\ \/ Decode(b) = "Incomplete" /\ Brings(b, z, EncodeFrame(m), FALSE)
         \/ /\ Decode(b) = "Complete" /\ FrontOf(b) = m /\ RestOf(b) = << >>
            /\ Brings(<< >>, z, << >>, FALSE)
  BY <1>3, FlowsAre, Zenon DEF Reaches
<1>5. CASE Decode(b) = "Incomplete" /\ Brings(b, z, EncodeFrame(m), FALSE)
  <2>1. Goes(st.script, sc, sc.at) /\ st.script.flow \in StopFlow(b) /\ st.out = << >>
    BY <1>4, <1>5, StopStepWaits
  <2>2. st.script.flow \in FlowOf("stop", st.script.addrs, b)
    BY <2>1, FlowsAre, Zenon
  <2>3. Awaits("stop", st.script, z, EncodeFrame(m), FALSE)
    BY <1>4, <1>5, <2>2, Zenon DEF Awaits
  <2> QED
    BY <1>1, <2>1, <2>3 DEF StopF
<1>6. CASE Decode(b) = "Complete" /\ FrontOf(b) = m /\ RestOf(b) = << >> /\ Brings(<< >>, z, << >>, FALSE)
  <2>1. FrontOf(b) = Message("CONNECT", "Dialer")
    BY <1>1, <1>6
  <2>2. /\ Goes(st.script, sc, "dcutr") /\ st.out = StatusF("Ok")
        /\ st.script.flow \in ResponderFlow(sc.addrs, << >>, "AwaitingConnect")
    BY <1>4, <1>6, <2>1, StopStepAccepts
  <2>3. st.script.addrs = sc.addrs
    BY <2>2 DEF Goes
  <2>4. st.script.flow \in FlowOf("connect", st.script.addrs, << >>)
    BY <2>2, <2>3, FlowsAre
  <2>5. << >> \in Seq(Clear)
    BY SmallSeqs
  <2>6. Awaits("connect", st.script, z, << >>, FALSE)
    BY <1>6, <2>4, <2>5, Zenon DEF Awaits
  <2> QED
    BY <2>2, <2>6
<1> QED
  BY <1>4, <1>5, <1>6

\* run_listen reads CONNECT in DCUtR.
LEMMA ConnectReads ==
    ASSUME NEW sc, IsScript(sc), NEW w \in Seq(Units), NEW A \in SUBSET Sides, NEW g \in BOOLEAN,
           Awaits("connect", sc, w, ConnectF(A), g), NEW a, NEW z, Takes(w, a, z),
           sc.addrs \in SUBSET Sides, NEW st, st = ListenerDcutr(sc, a)
    PROVE  \/ /\ Goes(st.script, sc, sc.at) /\ Awaits("connect", st.script, z, ConnectF(A), g)
              /\ st.out = << >>
           \/ /\ Replies(st.script, sc, A) /\ Awaits("sync", st.script, z, << >>, g)
              /\ st.out = ConnectF(sc.addrs)
<1>1. PICK m \in Messages : m = Message("CONNECT", A)
  BY MessagesAre
<1>2. Awaits("connect", sc, w, EncodeFrame(m), g)
  BY <1>1 DEF ConnectF
<1>3. PICK buf, b : Reaches("connect", sc, w, m, g, a, z, buf, b)
  BY ONLY <1>2, w \in Seq(Units), m \in Messages, g \in BOOLEAN, Takes(w, a, z), FrameReached
<1>4. /\ buf \in Seq(Clear) /\ sc.flow \in ResponderFlow(sc.addrs, buf, "AwaitingConnect")
      /\ b \in Seq(Clear) /\ b = buf \o a
      /\ \/ Decode(b) = "Incomplete" /\ Brings(b, z, EncodeFrame(m), g)
         \/ /\ Decode(b) = "Complete" /\ FrontOf(b) = m /\ RestOf(b) = << >>
            /\ Brings(<< >>, z, << >>, g)
  BY <1>3, FlowsAre, Zenon DEF Reaches
<1>5. CASE Decode(b) = "Incomplete" /\ Brings(b, z, EncodeFrame(m), g)
  <2>1. /\ Goes(st.script, sc, sc.at) /\ st.out = << >>
        /\ st.script.flow \in ResponderFlow(sc.addrs, b, "AwaitingConnect")
    BY <1>4, <1>5, ResponderStepWaits
  <2>a. st.script.addrs = sc.addrs
    BY <2>1 DEF Goes
  <2>2. st.script.flow \in FlowOf("connect", st.script.addrs, b)
    BY <2>1, <2>a, FlowsAre
  <2>3. Awaits("connect", st.script, z, EncodeFrame(m), g)
    BY <1>4, <1>5, <2>2, Zenon DEF Awaits
  <2> QED
    BY <1>1, <2>1, <2>3 DEF ConnectF
<1>6. CASE Decode(b) = "Complete" /\ FrontOf(b) = m /\ RestOf(b) = << >> /\ Brings(<< >>, z, << >>, g)
  <2>1. FrontOf(b) = Message("CONNECT", A)
    BY <1>1, <1>6
  <2>2. /\ Replies(st.script, sc, A) /\ st.out = ConnectF(sc.addrs)
        /\ st.script.flow \in ResponderFlow(sc.addrs, << >>, "AwaitingSync")
    BY <1>4, <1>6, <2>1, ResponderStepReplies
  <2>3. st.script.addrs = sc.addrs
    BY <2>2 DEF Replies
  <2>4. st.script.flow \in FlowOf("sync", st.script.addrs, << >>)
    BY <2>2, <2>3, FlowsAre
  <2>5. << >> \in Seq(Clear)
    BY SmallSeqs
  <2>6. Awaits("sync", st.script, z, << >>, g)
    BY <1>6, <2>4, <2>5, Zenon DEF Awaits
  <2> QED
    BY <2>2, <2>6
<1> QED
  BY <1>4, <1>5, <1>6

\* run_listen reads SYNC, with the relayed ping behind it or without.
LEMMA SyncReads ==
    ASSUME NEW sc, IsScript(sc), NEW w \in Seq(Units), NEW after \in {<< >>, Payload}, NEW g \in BOOLEAN,
           NEW x, x = SyncF \o after, Awaits("sync", sc, w, x, g), NEW a, NEW z, Takes(w, a, z),
           sc.remote # None, NEW st, st = ListenerDcutr(sc, a)
    PROVE  \/ /\ Goes(st.script, sc, sc.at) /\ Awaits("sync", st.script, z, x, g)
              /\ st.out = << >>
           \/ Starts(st.script, sc, sc.remote) /\ st.out = << >>
<1>1. PICK m \in Messages : m = Message("SYNC", {})
  BY MessagesAre
<1>2. after \in Seq(Clear) /\ FrameLen + Len(after) <= MaxSize
  <2>1. CASE after = << >>
    BY <2>1, SmallSeqs, FramesAssumption
  <2>2. CASE after = Payload
    BY <2>2, PayloadIs, UnitSeqs, PeersAssumption
  <2> QED
    BY <2>1, <2>2
<1>3. PICK buf \in Seq(Clear) : sc.flow \in FlowOf("sync", sc.addrs, buf) /\ Brings(buf, w, x, g)
  BY Zenon DEF Awaits
<1>4. Moves(buf, w, a, buf \o a, z)
  BY Zenon DEF Takes
<1>5. PICK b : b = buf \o a
  OBVIOUS
<1>6. Moves(buf, w, a, b, z) /\ Brings(buf, w, EncodeFrame(m) \o after, g)
  BY <1>1, <1>3, <1>4, <1>5 DEF SyncF
<1>7. Decodes(b, z, m, after, g)
  BY ONLY <1>2, <1>6, buf \in Seq(Clear), w \in Seq(Units), m \in Messages, g \in BOOLEAN, FrameComes
<1>8. sc.flow \in ResponderFlow(sc.addrs, buf, "AwaitingSync") /\ b \in Seq(Clear)
  BY <1>3, <1>6, FlowsAre, Zenon DEF Moves
<1>9. CASE Decode(b) = "Incomplete" /\ Brings(b, z, EncodeFrame(m) \o after, g)
  <2>1. /\ Goes(st.script, sc, sc.at) /\ st.out = << >>
        /\ st.script.flow \in ResponderFlow(sc.addrs, b, "AwaitingSync")
    BY <1>5, <1>8, <1>9, ResponderStepWaits
  <2>a. st.script.addrs = sc.addrs
    BY <2>1 DEF Goes
  <2>2. st.script.flow \in FlowOf("sync", st.script.addrs, b)
    BY <2>1, <2>a, FlowsAre
  <2>b. Brings(b, z, x, g)
    BY <1>1, <1>9 DEF SyncF
  <2>3. Awaits("sync", st.script, z, x, g)
    BY <1>8, <2>b, <2>2, Zenon DEF Awaits
  <2> QED
    BY <2>1, <2>3
<1>10. CASE Decode(b) = "Complete" /\ FrontOf(b) = m
  BY <1>1, <1>5, <1>8, <1>10, ResponderStepPunches
<1> QED
  BY <1>7, <1>9, <1>10 DEF Decodes

-----------------------------------------------------------------------------
(* What each change does to the invariant.                                 *)

\* run_dial ends.
LEMMA DialerEnds ==
    ASSUME NEW D, NEW L, NEW c, NEW an, NEW aR, NEW aD, NEW aL, NEW wR, NEW wD, NEW wL,
           Consistent(D, L, c, an, aR, aD, aL, wR, wD, wL), NEW result \in Results \ {None, "protocol"},
           D.at # "ended", result = "ping-via-relay" => L.result = "relay-ping-echoed",
           NEW E, Finishes(E, D, result)
    PROVE  Consistent(E, L, c, an, aR, aD, aL, wR, wD, wL)
<1>1. /\ c \in {"none", "reserved", "offered", "bridged", "closed"} /\ an \in BOOLEAN
      /\ Reserving(L, c, aR, wR) /\ Offering(L, c, an, aL, wL)
      /\ Asking(D, L, c, aD, wD) /\ Initiating(D, L, c, wD) /\ Responding(D, L, c, an, aL, wL)
      /\ Following(D, L, c) /\ Meaning(D, L, c, wD, wL) /\ Typed(D, L)
  BY Zenon DEF Consistent
<1>2. /\ IsScript(E) /\ E.at = "ended" /\ E.attempt = D.attempt /\ E.addrs = D.addrs
      /\ E.remote = D.remote /\ E.result = result
  BY Zenon DEF Finishes
<1>3. Typed(E, L) /\ D.result = None
  BY <1>1, <1>2 DEF Typed, TypedScript, Past
<1>4. Meaning(E, L, c, wD, wL)
  BY <1>1, <1>2, <1>3, AbsentAssumption DEF Meaning
<1>5. Following(E, L, c)
  BY <1>1, <1>2 DEF Following, Past
<1>6. Asking(E, L, c, aD, wD) /\ Initiating(E, L, c, wD)
  BY <1>1, <1>2 DEF Asking, Initiating, Early, Past
<1>7. Responding(E, L, c, an, aL, wL)
  <2>0. PICK g \in BOOLEAN : g = Gone(c, D)
    BY DEF Gone
  <2>1. Gone(c, E) = TRUE
    BY <1>2 DEF Gone
  <2>2. AwaitsConnect(D, L, wL, g) => AwaitsConnect(E, L, wL, TRUE)
    BY <1>1, <1>2, AwaitsMore DEF AwaitsConnect, Past
  <2>3. AwaitsSync(D, L, wL, g) => AwaitsSync(E, L, wL, TRUE)
    BY <1>1, <1>2, AwaitsMore DEF AwaitsSync, Past
  <2> QED
    BY <1>1, <1>2, <2>0, <2>1, <2>2, <2>3 DEF Responding, Past
<1> QED
  BY <1>1, <1>3, <1>4, <1>5, <1>6, <1>7 DEF Consistent

\* run_dial before it asks for the circuit.
LEMMA DialerEarly ==
    ASSUME NEW D, NEW L, NEW c, NEW an, NEW aR, NEW aD, NEW aL, NEW wR, NEW wD, NEW wL,
           Consistent(D, L, c, an, aR, aD, aL, wR, wD, wL),
           D.at \in Early, NEW E, E.at \in Early, TypedScript(E, "Dialer")
    PROVE  Consistent(E, L, c, an, aR, aD, aL, wR, wD, wL)
<1>1. /\ c \in {"none", "reserved", "offered", "bridged", "closed"} /\ an \in BOOLEAN
      /\ Reserving(L, c, aR, wR) /\ Offering(L, c, an, aL, wL)
      /\ Asking(D, L, c, aD, wD) /\ Initiating(D, L, c, wD) /\ Responding(D, L, c, an, aL, wL)
      /\ Following(D, L, c) /\ Meaning(D, L, c, wD, wL) /\ Typed(D, L)
  BY Zenon DEF Consistent
<1>2. Typed(E, L)
  BY <1>1 DEF Typed, Early
<1>3. c \in {"none", "reserved"} /\ aD = << >> /\ wD = << >> /\ D.result = None /\ E.result = None
  BY <1>1 DEF Asking, Typed, TypedScript, Early
<1>4. Meaning(E, L, c, wD, wL)
  BY <1>1, <1>3 DEF Meaning
<1>5. Following(E, L, c) /\ Responding(E, L, c, an, aL, wL)
  BY <1>1, <1>3 DEF Following, Responding, OnceBridged
<1>6. Asking(E, L, c, aD, wD)
  BY <1>1, <1>3 DEF Asking, Early
<1>7. Initiating(E, L, c, wD)
  BY DEF Initiating, Early, Past
<1> QED
  BY <1>1, <1>2, <1>4, <1>5, <1>6, <1>7 DEF Consistent

\* run_dial goes on over the direct connection.
LEMMA DialerGoesOn ==
    ASSUME NEW D, NEW L, NEW c, NEW an, NEW aR, NEW aD, NEW aL, NEW wR, NEW wD, NEW wL,
           Consistent(D, L, c, an, aR, aD, aL, wR, wD, wL),
           D.at \in {"punch", "connected"}, NEW at \in {"connected", "ping"}, NEW E, Goes(E, D, at)
    PROVE  Consistent(E, L, c, an, aR, aD, aL, wR, wD, wL)
<1>1. /\ c \in {"none", "reserved", "offered", "bridged", "closed"} /\ an \in BOOLEAN
      /\ Reserving(L, c, aR, wR) /\ Offering(L, c, an, aL, wL)
      /\ Asking(D, L, c, aD, wD) /\ Initiating(D, L, c, wD) /\ Responding(D, L, c, an, aL, wL)
      /\ Following(D, L, c) /\ Meaning(D, L, c, wD, wL) /\ Typed(D, L)
  BY Zenon DEF Consistent
<1>2. /\ IsScript(E) /\ E.at = at /\ E.attempt = D.attempt /\ E.addrs = D.addrs
      /\ E.remote = D.remote /\ E.result = D.result
  BY Zenon DEF Goes
<1>3. Typed(E, L)
  BY <1>1, <1>2 DEF Typed, TypedScript, Past
<1>4. Meaning(E, L, c, wD, wL)
  BY <1>1, <1>2 DEF Meaning
<1>5. Following(E, L, c)
  BY <1>1, <1>2 DEF Following, Past
<1>6. Asking(E, L, c, aD, wD)
  BY <1>1, <1>2 DEF Asking, Early
<1>a. Initiating(E, L, c, wD)
  BY <1>1, <1>2 DEF Initiating, Past
<1>7. Responding(E, L, c, an, aL, wL)
  <2>1. Gone(c, E) = Gone(c, D)
    BY <1>2 DEF Gone
  <2>2. PICK g : g = Gone(c, D)
    OBVIOUS
  <2>3. AwaitsConnect(D, L, wL, g) => AwaitsConnect(E, L, wL, g)
    BY <1>2 DEF AwaitsConnect, Past
  <2>4. AwaitsSync(D, L, wL, g) => AwaitsSync(E, L, wL, g)
    BY <1>2 DEF AwaitsSync, Past
  <2> QED
    BY <1>1, <1>2, <2>1, <2>2, <2>3, <2>4 DEF Responding, Past
<1> QED
  BY <1>1, <1>3, <1>4, <1>5, <1>6, <1>7, <1>a DEF Consistent

\* run_listen before it reserves.
LEMMA ListenerEarly ==
    ASSUME NEW D, NEW L, NEW c, NEW an, NEW aR, NEW aD, NEW aL, NEW wR, NEW wD, NEW wL,
           Consistent(D, L, c, an, aR, aD, aL, wR, wD, wL),
           L.at \in Early, NEW F, F.at \in Early, F.remote = None, TypedScript(F, "Listener")
    PROVE  Consistent(D, F, c, an, aR, aD, aL, wR, wD, wL)
<1>1. /\ c \in {"none", "reserved", "offered", "bridged", "closed"} /\ an \in BOOLEAN
      /\ Reserving(L, c, aR, wR) /\ Offering(L, c, an, aL, wL)
      /\ Asking(D, L, c, aD, wD) /\ Initiating(D, L, c, wD) /\ Responding(D, L, c, an, aL, wL)
      /\ Following(D, L, c) /\ Meaning(D, L, c, wD, wL) /\ Typed(D, L)
  BY Zenon DEF Consistent
<1>2. Typed(D, F)
  BY <1>1 DEF Typed, Early
<1>3. c = "none" /\ aR = << >> /\ wR = << >> /\ L.result = None /\ F.result = None /\ aL = << >>
  BY <1>1 DEF Reserving, Offering, Typed, TypedScript, Early
<1>4. Meaning(D, F, c, wD, wL)
  BY <1>1, <1>3 DEF Meaning
<1>5. Following(D, F, c) /\ Responding(D, F, c, an, aL, wL)
  BY DEF Following, Responding, Early, Later
<1>6. Reserving(F, c, aR, wR)
  BY <1>1, <1>3 DEF Reserving, Early
<1>7. Offering(F, c, an, aL, wL)
  BY <1>1, <1>3 DEF Offering, Early
<1>8. Asking(D, F, c, aD, wD)
  BY <1>1, <1>3 DEF Asking, AwaitsHop, OnceBridged
<1>9. Initiating(D, F, c, wD)
  BY <1>1, <1>3 DEF Initiating, OnceBridged
<1> QED
  BY <1>1, <1>2, <1>4, <1>5, <1>6, <1>7, <1>8, <1>9 DEF Consistent

\* run_listen goes on after DCUtR.
LEMMA ListenerGoesOn ==
    ASSUME NEW D, NEW L, NEW c, NEW an, NEW aR, NEW aD, NEW aL, NEW wR, NEW wD, NEW wL,
           Consistent(D, L, c, an, aR, aD, aL, wR, wD, wL),
           L.at \in Later, NEW at \in Later, NEW F, Goes(F, L, at)
    PROVE  Consistent(D, F, c, an, aR, aD, aL, wR, wD, wL)
<1>1. /\ c \in {"none", "reserved", "offered", "bridged", "closed"} /\ an \in BOOLEAN
      /\ Reserving(L, c, aR, wR) /\ Offering(L, c, an, aL, wL)
      /\ Asking(D, L, c, aD, wD) /\ Initiating(D, L, c, wD) /\ Responding(D, L, c, an, aL, wL)
      /\ Following(D, L, c) /\ Meaning(D, L, c, wD, wL) /\ Typed(D, L)
  BY Zenon DEF Consistent
<1>2. /\ IsScript(F) /\ F.at = at /\ F.attempt = L.attempt /\ F.addrs = L.addrs
      /\ F.remote = L.remote /\ F.result = L.result
  BY Zenon DEF Goes
<1>3. Typed(D, F)
  BY <1>1, <1>2 DEF Typed, TypedScript, Later, Early
<1>4. Meaning(D, F, c, wD, wL)
  BY <1>1, <1>2 DEF Meaning
<1>5. Following(D, F, c)
  BY <1>1, <1>2 DEF Following
<1>6. Reserving(F, c, aR, wR) /\ Offering(F, c, an, aL, wL)
  BY <1>1, <1>2 DEF Reserving, Offering, Early, Later
<1>7. D.at \in Past /\ D.remote = L.addrs /\ c \in OnceBridged
  BY <1>1 DEF Following
<1>8. Asking(D, F, c, aD, wD)
  BY <1>1, <1>7 DEF Asking, Past, Early
<1>9. Initiating(D, F, c, wD)
  BY <1>1, <1>2, <1>7 DEF Initiating, Past
<1>10. Responding(D, F, c, an, aL, wL)
  BY <1>2 DEF Responding, Later
<1> QED
  BY <1>1, <1>3, <1>4, <1>5, <1>6, <1>8, <1>9, <1>10 DEF Consistent

\* run_listen ends.
LEMMA ListenerEnds ==
    ASSUME NEW D, NEW L, NEW c, NEW an, NEW aR, NEW aD, NEW aL, NEW wR, NEW wD, NEW wL,
           Consistent(D, L, c, an, aR, aD, aL, wR, wD, wL),
           NEW result \in Results \ {None, "protocol"}, L.at # "ended",
           result = "bridge-closed" => D.result = "ping-direct" \/ c = "closed",
           NEW F, Finishes(F, L, result)
    PROVE  Consistent(D, F, c, an, aR, aD, aL, wR, wD, wL)
<1>1. /\ c \in {"none", "reserved", "offered", "bridged", "closed"} /\ an \in BOOLEAN
      /\ Reserving(L, c, aR, wR) /\ Offering(L, c, an, aL, wL)
      /\ Asking(D, L, c, aD, wD) /\ Initiating(D, L, c, wD) /\ Responding(D, L, c, an, aL, wL)
      /\ Following(D, L, c) /\ Meaning(D, L, c, wD, wL) /\ Typed(D, L)
  BY Zenon DEF Consistent
<1>2. /\ IsScript(F) /\ F.at = "ended" /\ F.attempt = L.attempt /\ F.addrs = L.addrs
      /\ F.remote = L.remote /\ F.result = result
  BY Zenon DEF Finishes
<1>3. Typed(D, F) /\ L.result = None
  BY <1>1, <1>2 DEF Typed, TypedScript, Later, Early
<1>4. Meaning(D, F, c, wD, wL)
  BY <1>1, <1>2, <1>3, AbsentAssumption DEF Meaning
<1>5. Following(D, F, c) /\ Responding(D, F, c, an, aL, wL)
  BY <1>2 DEF Following, Responding, Later
<1>6. Reserving(F, c, aR, wR) /\ Offering(F, c, an, aL, wL)
  BY <1>1, <1>2 DEF Reserving, Offering, Early
<1>7. PICK g \in BOOLEAN : g = Gone(c, L)
  BY DEF Gone
<1>8. Gone(c, F) = TRUE
  BY <1>2 DEF Gone
<1>9. Asking(D, F, c, aD, wD)
  <2>1. AwaitsHop(D, c, aD, wD, g) => AwaitsHop(D, c, aD, wD, TRUE)
    BY AwaitsMore DEF AwaitsHop
  <2> QED
    BY <1>1, <1>7, <1>8, <2>1 DEF Asking
<1>10. Initiating(D, F, c, wD)
  <2>1. AwaitsReply(D, L, wD, g) => AwaitsReply(D, F, wD, TRUE)
    BY <1>2, AwaitsMore DEF AwaitsReply
  <2> QED
    BY <1>1, <1>2, <1>7, <1>8, <2>1 DEF Initiating
<1> QED
  BY <1>1, <1>3, <1>4, <1>5, <1>6, <1>9, <1>10 DEF Consistent

\* run_listen has its reservation.
LEMMA ListenerGranted ==
    ASSUME NEW D, NEW L, NEW c, NEW an, NEW aR, NEW aD, NEW aL, NEW wR, NEW wD, NEW wL,
           Consistent(D, L, c, an, aR, aD, aL, wR, wD, wL),
           L.at = "reserve", NEW F, Goes(F, L, "inbound")
    PROVE  Consistent(D, F, c, an, aR, aD, aL, wR, wD, wL)
<1>1. /\ c \in {"none", "reserved", "offered", "bridged", "closed"} /\ an \in BOOLEAN
      /\ Reserving(L, c, aR, wR) /\ Offering(L, c, an, aL, wL)
      /\ Asking(D, L, c, aD, wD) /\ Initiating(D, L, c, wD) /\ Responding(D, L, c, an, aL, wL)
      /\ Following(D, L, c) /\ Meaning(D, L, c, wD, wL) /\ Typed(D, L)
  BY Zenon DEF Consistent
<1>2. /\ IsScript(F) /\ F.at = "inbound" /\ F.attempt = L.attempt /\ F.addrs = L.addrs
      /\ F.remote = L.remote /\ F.result = L.result
  BY Zenon DEF Goes
<1>3. Typed(D, F)
  BY <1>1, <1>2 DEF Typed, TypedScript, Later, Early
<1>4. Meaning(D, F, c, wD, wL)
  BY <1>1, <1>2 DEF Meaning
<1>5. Following(D, F, c) /\ Responding(D, F, c, an, aL, wL)
  BY <1>2 DEF Following, Responding, Later
<1>6. c \in {"none", "reserved", "offered"}
  BY <1>1 DEF Reserving
<1>7. Reserving(F, c, aR, wR) /\ Offering(F, c, an, aL, wL)
  BY <1>1, <1>2, <1>6 DEF Reserving, Offering, Early
<1>8. Asking(D, F, c, aD, wD)
  BY <1>1, <1>6 DEF Asking, AwaitsHop, OnceBridged
<1>9. Initiating(D, F, c, wD)
  BY <1>1, <1>6 DEF Initiating, OnceBridged
<1> QED
  BY <1>1, <1>3, <1>4, <1>5, <1>7, <1>8, <1>9 DEF Consistent

\* What run_dial does not wait for is taken from its stream.
LEMMA DialerDrops ==
    ASSUME NEW D, NEW L, NEW c, NEW an, NEW aR, NEW aD, NEW aL, NEW wR, NEW wD, NEW wL,
           Consistent(D, L, c, an, aR, aD, aL, wR, wD, wL),
           wD # << >>, D.at \notin {"hop", "dcutr"}, NEW v \in Seq(Units), wD \in Seq(Plain) => v \in Seq(Plain)
    PROVE  Consistent(D, L, c, an, aR, aD, aL, wR, v, wL)
<1>1. /\ c \in {"none", "reserved", "offered", "bridged", "closed"} /\ an \in BOOLEAN
      /\ Reserving(L, c, aR, wR) /\ Offering(L, c, an, aL, wL)
      /\ Asking(D, L, c, aD, wD) /\ Initiating(D, L, c, wD) /\ Responding(D, L, c, an, aL, wL)
      /\ Following(D, L, c) /\ Meaning(D, L, c, wD, wL) /\ Typed(D, L)
  BY Zenon DEF Consistent
<1>2. Meaning(D, L, c, v, wL)
  BY <1>1 DEF Meaning
<1>3. Asking(D, L, c, aD, v) /\ Initiating(D, L, c, v)
  BY <1>1 DEF Asking, Initiating
<1> QED
  BY <1>1, <1>2, <1>3 DEF Consistent

\* What run_listen does not wait for is taken from its STOP stream.
LEMMA ListenerDrops ==
    ASSUME NEW D, NEW L, NEW c, NEW an, NEW aR, NEW aD, NEW aL, NEW wR, NEW wD, NEW wL,
           Consistent(D, L, c, an, aR, aD, aL, wR, wD, wL),
           wL # << >>, an \/ wL # StopF, L.at \notin {"stop", "dcutr"}, NEW v \in Seq(Units),
           wL \in Seq(Clear) => v \in Seq(Clear)
    PROVE  Consistent(D, L, c, an, aR, aD, aL, wR, wD, v)
<1>1. /\ c \in {"none", "reserved", "offered", "bridged", "closed"} /\ an \in BOOLEAN
      /\ Reserving(L, c, aR, wR) /\ Offering(L, c, an, aL, wL)
      /\ Asking(D, L, c, aD, wD) /\ Initiating(D, L, c, wD) /\ Responding(D, L, c, an, aL, wL)
      /\ Following(D, L, c) /\ Meaning(D, L, c, wD, wL) /\ Typed(D, L)
  BY Zenon DEF Consistent
<1>2. Meaning(D, L, c, wD, v)
  BY <1>1 DEF Meaning
<1>3. Offering(L, c, an, aL, v) /\ Responding(D, L, c, an, aL, v)
  BY <1>1 DEF Offering, Responding
<1> QED
  BY <1>1, <1>2, <1>3 DEF Consistent

\* The same for the stream on which it reserves.
LEMMA ReserveDrops ==
    ASSUME NEW D, NEW L, NEW c, NEW an, NEW aR, NEW aD, NEW aL, NEW wR, NEW wD, NEW wL,
           Consistent(D, L, c, an, aR, aD, aL, wR, wD, wL),
           wR # << >>, L.at # "reserve", NEW v \in Seq(Clear)
    PROVE  Consistent(D, L, c, an, aR, aD, aL, v, wD, wL)
<1>1. /\ c \in {"none", "reserved", "offered", "bridged", "closed"} /\ an \in BOOLEAN
      /\ Reserving(L, c, aR, wR) /\ Offering(L, c, an, aL, wL)
      /\ Asking(D, L, c, aD, wD) /\ Initiating(D, L, c, wD) /\ Responding(D, L, c, an, aL, wL)
      /\ Following(D, L, c) /\ Meaning(D, L, c, wD, wL) /\ Typed(D, L)
  BY Zenon DEF Consistent
<1>2. Reserving(L, c, aR, v)
  BY <1>1 DEF Reserving
<1> QED
  BY <1>1, <1>2 DEF Consistent

\* A part of a sequence over X.
LEMMA TailIn ==
    ASSUME NEW X, NEW w \in Seq(X), w # << >>
    PROVE  Tail(w) \in Seq(X)
BY HeadTailProperties

\* The end of the stream comes to run_dial.
LEMMA DialerFin ==
    ASSUME NEW D, NEW L, NEW c, NEW an, NEW aR, NEW aD, NEW aL, NEW wR, NEW wD, NEW wL,
           Consistent(D, L, c, an, aR, aD, aL, wR, wD, wL),
           wD # << >>, Head(wD) = Fin, NEW v, v = Tail(wD)
    PROVE  Consistent(D, L, c, an, aR, aD, aL, wR, v, wL)
<1>1. /\ c \in {"none", "reserved", "offered", "bridged", "closed"} /\ an \in BOOLEAN
      /\ Reserving(L, c, aR, wR) /\ Offering(L, c, an, aL, wL)
      /\ Asking(D, L, c, aD, wD) /\ Initiating(D, L, c, wD) /\ Responding(D, L, c, an, aL, wL)
      /\ Following(D, L, c) /\ Meaning(D, L, c, wD, wL) /\ Typed(D, L)
  BY Zenon DEF Consistent
<1>2. wD \in Seq(Units)
  BY <1>1 DEF Meaning
<1>3. v \in Seq(Units) /\ (wD \in Seq(Plain) => v \in Seq(Plain))
  BY <1>2, TailIn
<1>4. PICK g \in BOOLEAN : g = Gone(c, L)
  BY DEF Gone
<1>5. /\ << >> \in Seq(Clear) /\ StatusF("NoReservation") \in Seq(Clear) /\ StatusF("Ok") \in Seq(Clear)
      /\ ConnectF(L.addrs) \in Seq(Clear)
  <2>1. L.addrs \in SUBSET Sides
    BY <1>1 DEF Typed, TypedScript, Sides
  <2> QED
    BY <2>1, FrameIs, MessagesAre, UnitSeqs, SmallSeqs DEF StatusF, ConnectF, Statuses
<1>6. \A wait, x, h : x \in Seq(Clear) /\ h \in BOOLEAN /\ Awaits(wait, D, wD, x, h) => h /\ Awaits(wait, D, v, x, h)
  BY ONLY <1>2, wD # << >>, Head(wD) = Fin, v = Tail(wD), AwaitsFin
<1>7. Meaning(D, L, c, v, wL)
  BY <1>1, <1>3 DEF Meaning
<1>8. Asking(D, L, c, aD, v)
  <2>1. AwaitsHop(D, c, aD, wD, g) => AwaitsHop(D, c, aD, v, g)
    BY <1>5, <1>6 DEF AwaitsHop
  <2> QED
    BY <1>1, <1>4, <2>1 DEF Asking
<1>9. Initiating(D, L, c, v)
  <2>1. AwaitsReply(D, L, wD, g) => AwaitsReply(D, L, v, g)
    BY <1>5, <1>6 DEF AwaitsReply
  <2> QED
    BY <1>1, <1>4, <2>1 DEF Initiating
<1> QED
  BY <1>1, <1>7, <1>8, <1>9 DEF Consistent

\* The frames on the bridge have no Fin.
LEMMA BridgeFrames ==
    ASSUME NEW D, NEW L, Typed(D, L)
    PROVE  /\ D.addrs \in SUBSET Sides /\ L.addrs \in SUBSET Sides
           /\ << >> \in Seq(Clear) /\ StopF \in Seq(Clear)
           /\ \A st \in Statuses : StatusF(st) \in Seq(Clear) /\ StatusF(st) \in Seq(Plain)
           /\ ConnectF(D.addrs) \in Seq(Clear) /\ ConnectF(L.addrs) \in Seq(Clear)
           /\ ConnectF(L.addrs) \in Seq(Plain)
           /\ SyncF \in Seq(Clear) /\ Payload \in Seq(Clear) /\ SyncF \o Payload \in Seq(Clear)
<1>1. D.addrs \in SUBSET Sides /\ L.addrs \in SUBSET Sides
  BY DEF Typed, TypedScript, Sides
<1>2. SyncF \in Seq(Clear) /\ Payload \in Seq(Clear)
  BY FrameIs, MessagesAre, UnitSeqs, PayloadIs DEF SyncF
<1>3. SyncF \o Payload \in Seq(Clear)
  <2>1. PICK x : x = SyncF \o Payload
    OBVIOUS
  <2>2. x \in Seq(Clear)
    BY ONLY <1>2, <2>1, Joins
  <2> QED
    BY <2>1, <2>2
<1> QED
  BY <1>1, <1>2, <1>3, FrameIs, MessagesAre, UnitSeqs, SmallSeqs DEF StatusF, ConnectF, StopF

\* Frames do not start with Fin.
LEMMA StopHasNoFin == StopF # << >> /\ Head(StopF) # Fin
<1>1. PICK e : e = StopF
  OBVIOUS
<1>2. e \in Seq(FrameUnits) /\ e # << >>
  BY <1>1, FrameIs, MessagesAre DEF StopF
<1>3. Head(e) \in FrameUnits
  BY <1>2
<1> QED
  BY <1>1, <1>2, <1>3, UnitsDiffer DEF Clear

\* The end of the stream comes to run_listen.
LEMMA ListenerFin ==
    ASSUME NEW D, NEW L, NEW c, NEW an, NEW aR, NEW aD, NEW aL, NEW wR, NEW wD, NEW wL,
           Consistent(D, L, c, an, aR, aD, aL, wR, wD, wL),
           wL # << >>, Head(wL) = Fin, NEW v, v = Tail(wL)
    PROVE  Consistent(D, L, c, an, aR, aD, aL, wR, wD, v)
<1>1. /\ c \in {"none", "reserved", "offered", "bridged", "closed"} /\ an \in BOOLEAN
      /\ Reserving(L, c, aR, wR) /\ Offering(L, c, an, aL, wL)
      /\ Asking(D, L, c, aD, wD) /\ Initiating(D, L, c, wD) /\ Responding(D, L, c, an, aL, wL)
      /\ Following(D, L, c) /\ Meaning(D, L, c, wD, wL) /\ Typed(D, L)
  BY Zenon DEF Consistent
<1>2. wL \in Seq(Units)
  BY <1>1 DEF Meaning
<1>3. v \in Seq(Units) /\ (wL \in Seq(Clear) => v \in Seq(Clear))
  BY <1>2, TailIn
<1>4. PICK g \in BOOLEAN : g = Gone(c, D)
  BY DEF Gone
<1>5. /\ << >> \in Seq(Clear) /\ StopF \in Seq(Clear) /\ ConnectF(D.addrs) \in Seq(Clear)
      /\ SyncF \in Seq(Clear) /\ SyncF \o Payload \in Seq(Clear)
  BY <1>1, BridgeFrames
<1>6. \A wait, x, h : x \in Seq(Clear) /\ h \in BOOLEAN /\ Awaits(wait, L, wL, x, h) => h /\ Awaits(wait, L, v, x, h)
  BY ONLY <1>2, wL # << >>, Head(wL) = Fin, v = Tail(wL), AwaitsFin
<1>7. Meaning(D, L, c, wD, v)
  BY <1>1, <1>3 DEF Meaning
<1>8. Offering(L, c, an, aL, v)
  <2>1. wL # StopF
    BY StopHasNoFin
  <2>2. ~Awaits("stop", L, wL, StopF, FALSE)
    BY <1>5, <1>6
  <2> QED
    BY <1>1, <2>1, <2>2 DEF Offering
<1>9. Responding(D, L, c, an, aL, v)
  <2>1. AwaitsConnect(D, L, wL, g) => AwaitsConnect(D, L, v, g)
    BY <1>5, <1>6 DEF AwaitsConnect
  <2>2. AwaitsSync(D, L, wL, g) => AwaitsSync(D, L, v, g)
    BY <1>5, <1>6 DEF AwaitsSync
  <2>3. ~Awaits("connect", L, wL, << >>, FALSE)
    BY <1>5, <1>6
  <2> QED
    BY <1>1, <1>4, <2>1, <2>2, <2>3 DEF Responding
<1> QED
  BY <1>1, <1>7, <1>8, <1>9 DEF Consistent

\* The relay drops the circuit.
LEMMA CircuitCloses ==
    ASSUME NEW D, NEW L, NEW c, NEW an, NEW aR, NEW aD, NEW aL, NEW wR, NEW wD, NEW wL,
           Consistent(D, L, c, an, aR, aD, aL, wR, wD, wL),
           c = "bridged"
    PROVE  Consistent(D, L, "closed", an, aR, aD, aL, wR, wD, wL)
<1>1. /\ c \in {"none", "reserved", "offered", "bridged", "closed"} /\ an \in BOOLEAN
      /\ Reserving(L, c, aR, wR) /\ Offering(L, c, an, aL, wL)
      /\ Asking(D, L, c, aD, wD) /\ Initiating(D, L, c, wD) /\ Responding(D, L, c, an, aL, wL)
      /\ Following(D, L, c) /\ Meaning(D, L, c, wD, wL) /\ Typed(D, L)
  BY Zenon DEF Consistent
<1>2. Meaning(D, L, "closed", wD, wL) /\ Following(D, L, "closed")
  BY <1>1 DEF Meaning, Following, OnceBridged
<1>3. Reserving(L, "closed", aR, wR) /\ Offering(L, "closed", an, aL, wL)
  BY <1>1 DEF Reserving, Offering
<1>4. PICK g \in BOOLEAN, h \in BOOLEAN : g = Gone(c, L) /\ h = Gone(c, D)
  BY DEF Gone
<1>5. Gone("closed", L) = TRUE /\ Gone("closed", D) = TRUE
  BY DEF Gone
<1>6. Asking(D, L, "closed", aD, wD)
  <2>1. AwaitsHop(D, c, aD, wD, g) => AwaitsHop(D, "closed", aD, wD, TRUE)
    BY AwaitsMore DEF AwaitsHop, OnceBridged
  <2> QED
    BY <1>1, <1>4, <1>5, <2>1 DEF Asking
<1>7. Initiating(D, L, "closed", wD)
  <2>1. AwaitsReply(D, L, wD, g) => AwaitsReply(D, L, wD, TRUE)
    BY AwaitsMore DEF AwaitsReply
  <2> QED
    BY <1>1, <1>4, <1>5, <2>1 DEF Initiating, OnceBridged
<1>8. Responding(D, L, "closed", an, aL, wL)
  <2>1. AwaitsConnect(D, L, wL, h) => AwaitsConnect(D, L, wL, TRUE)
    BY AwaitsMore DEF AwaitsConnect
  <2>2. AwaitsSync(D, L, wL, h) => AwaitsSync(D, L, wL, TRUE)
    BY AwaitsMore DEF AwaitsSync
  <2> QED
    BY <1>1, <1>4, <1>5, <2>1, <2>2 DEF Responding, OnceBridged
<1> QED
  BY <1>1, <1>2, <1>3, <1>6, <1>7, <1>8 DEF Consistent

\* Fin behind what is on its way to run_listen.
LEMMA FinToListener ==
    ASSUME NEW D, NEW L, NEW c, NEW an, NEW aR, NEW aD, NEW aL, NEW wR, NEW wD, NEW wL,
           Consistent(D, L, c, an, aR, aD, aL, wR, wD, wL),
           c = "closed" \/ (c = "bridged" /\ D.at = "ended" /\ D.result = "ping-direct"),
           NEW v, v = wL \o <<Fin>>
    PROVE  Consistent(D, L, c, an, aR, aD, aL, wR, wD, v)
<1>1. /\ c \in {"none", "reserved", "offered", "bridged", "closed"} /\ an \in BOOLEAN
      /\ Reserving(L, c, aR, wR) /\ Offering(L, c, an, aL, wL)
      /\ Asking(D, L, c, aD, wD) /\ Initiating(D, L, c, wD) /\ Responding(D, L, c, an, aL, wL)
      /\ Following(D, L, c) /\ Meaning(D, L, c, wD, wL) /\ Typed(D, L)
  BY Zenon DEF Consistent
<1>2. wL \in Seq(Units)
  BY <1>1 DEF Meaning
<1>3. v \in Seq(Units)
  <2>1. PICK e : e = <<Fin>>
    OBVIOUS
  <2>2. e \in Seq(Units) /\ v = wL \o e
    BY <2>1, SmallSeqs, UnitSeqs
  <2> QED
    BY ONLY <1>2, <2>2, Joins
<1>5. /\ << >> \in Seq(Clear) /\ ConnectF(D.addrs) \in Seq(Clear)
      /\ SyncF \in Seq(Clear) /\ SyncF \o Payload \in Seq(Clear)
  BY <1>1, BridgeFrames
<1>6. \A wait, x : x \in Seq(Clear) /\ Awaits(wait, L, wL, x, TRUE) => Awaits(wait, L, v, x, TRUE)
  BY ONLY <1>2, v = wL \o <<Fin>>, AwaitsEnd
<1>7. Meaning(D, L, c, wD, v)
  BY <1>1, <1>3 DEF Meaning
<1>8. Offering(L, c, an, aL, v)
  BY <1>1 DEF Offering
<1>9. Responding(D, L, c, an, aL, v)
  <2>0. Gone(c, D) = TRUE
    BY DEF Gone
  <2>1. AwaitsConnect(D, L, wL, TRUE) => AwaitsConnect(D, L, v, TRUE)
    BY <1>5, <1>6 DEF AwaitsConnect
  <2>2. AwaitsSync(D, L, wL, TRUE) => AwaitsSync(D, L, v, TRUE)
    BY <1>5, <1>6 DEF AwaitsSync
  <2> QED
    BY <1>1, <2>0, <2>1, <2>2 DEF Responding
<1> QED
  BY <1>1, <1>7, <1>8, <1>9 DEF Consistent

\* Fin behind what is on its way to run_dial.
LEMMA FinToDialer ==
    ASSUME NEW D, NEW L, NEW c, NEW an, NEW aR, NEW aD, NEW aL, NEW wR, NEW wD, NEW wL,
           Consistent(D, L, c, an, aR, aD, aL, wR, wD, wL),
           c = "closed" \/ (c = "bridged" /\ L.at = "ended"), NEW v, v = wD \o <<Fin>>
    PROVE  Consistent(D, L, c, an, aR, aD, aL, wR, v, wL)
<1>1. /\ c \in {"none", "reserved", "offered", "bridged", "closed"} /\ an \in BOOLEAN
      /\ Reserving(L, c, aR, wR) /\ Offering(L, c, an, aL, wL)
      /\ Asking(D, L, c, aD, wD) /\ Initiating(D, L, c, wD) /\ Responding(D, L, c, an, aL, wL)
      /\ Following(D, L, c) /\ Meaning(D, L, c, wD, wL) /\ Typed(D, L)
  BY Zenon DEF Consistent
<1>2. wD \in Seq(Units)
  BY <1>1 DEF Meaning
<1>3. v \in Seq(Units) /\ (wD \in Seq(Plain) => v \in Seq(Plain))
  <2>1. PICK e : e = <<Fin>>
    OBVIOUS
  <2>2. e \in Seq(Units) /\ e \in Seq(Plain) /\ v = wD \o e
    BY <2>1, SmallSeqs, UnitSeqs
  <2>3. v \in Seq(Units)
    BY ONLY <1>2, <2>2, Joins
  <2>4. wD \in Seq(Plain) => v \in Seq(Plain)
    BY ONLY <2>2, Joins
  <2> QED
    BY <2>3, <2>4
<1>5. << >> \in Seq(Clear) /\ StatusF("Ok") \in Seq(Clear) /\ ConnectF(L.addrs) \in Seq(Clear)
  BY <1>1, BridgeFrames DEF Statuses
<1>6. \A wait, x : x \in Seq(Clear) /\ Awaits(wait, D, wD, x, TRUE) => Awaits(wait, D, v, x, TRUE)
  BY ONLY <1>2, v = wD \o <<Fin>>, AwaitsEnd
<1>7. Meaning(D, L, c, v, wL)
  BY <1>1, <1>3 DEF Meaning
<1>8. Gone(c, L) = TRUE
  BY DEF Gone
<1>9. Asking(D, L, c, aD, v)
  <2>1. AwaitsHop(D, c, aD, wD, TRUE) => AwaitsHop(D, c, aD, v, TRUE)
    BY <1>5, <1>6 DEF AwaitsHop
  <2> QED
    BY <1>1, <1>8, <2>1 DEF Asking, Early
<1>10. Initiating(D, L, c, v)
  <2>1. AwaitsReply(D, L, wD, TRUE) => AwaitsReply(D, L, v, TRUE)
    BY <1>5, <1>6 DEF AwaitsReply
  <2> QED
    BY <1>1, <1>8, <2>1 DEF Initiating
<1> QED
  BY <1>1, <1>7, <1>9, <1>10 DEF Consistent

\* The relayed ping goes back to run_dial.
LEMMA EchoToDialer ==
    ASSUME NEW D, NEW L, NEW c, NEW an, NEW aR, NEW aD, NEW aL, NEW wR, NEW wD, NEW wL,
           Consistent(D, L, c, an, aR, aD, aL, wR, wD, wL),
           L.result = "relay-ping-echoed", D.at \in Past, NEW v \in Seq(Units)
    PROVE  Consistent(D, L, c, an, aR, aD, aL, wR, v, wL)
<1>1. /\ c \in {"none", "reserved", "offered", "bridged", "closed"} /\ an \in BOOLEAN
      /\ Reserving(L, c, aR, wR) /\ Offering(L, c, an, aL, wL)
      /\ Asking(D, L, c, aD, wD) /\ Initiating(D, L, c, wD) /\ Responding(D, L, c, an, aL, wL)
      /\ Following(D, L, c) /\ Meaning(D, L, c, wD, wL) /\ Typed(D, L)
  BY Zenon DEF Consistent
<1>2. Meaning(D, L, c, v, wL)
  BY <1>1 DEF Meaning
<1>3. Asking(D, L, c, aD, v) /\ Initiating(D, L, c, v)
  BY <1>1 DEF Asking, Initiating, Past, Early
<1> QED
  BY <1>1, <1>2, <1>3 DEF Consistent

\* What is on the bridge once units are written to it.
Sent(c, w, units) == IF c = "bridged" THEN w \o units ELSE w

\* run_dial falls back to the relayed ping.
LEMMA DialerPings ==
    ASSUME NEW D, NEW L, NEW c, NEW an, NEW aR, NEW aD, NEW aL, NEW wR, NEW wD, NEW wL,
           Consistent(D, L, c, an, aR, aD, aL, wR, wD, wL),
           D.at = "punch", NEW E, Goes(E, D, "echo"), NEW v, v = Sent(c, wL, Payload)
    PROVE  Consistent(E, L, c, an, aR, aD, aL, wR, wD, v)
<1>1. /\ c \in {"none", "reserved", "offered", "bridged", "closed"} /\ an \in BOOLEAN
      /\ Reserving(L, c, aR, wR) /\ Offering(L, c, an, aL, wL)
      /\ Asking(D, L, c, aD, wD) /\ Initiating(D, L, c, wD) /\ Responding(D, L, c, an, aL, wL)
      /\ Following(D, L, c) /\ Meaning(D, L, c, wD, wL) /\ Typed(D, L)
  BY Zenon DEF Consistent
<1>2. /\ IsScript(E) /\ E.at = "echo" /\ E.attempt = D.attempt /\ E.addrs = D.addrs
      /\ E.remote = D.remote /\ E.result = D.result
  BY Zenon DEF Goes
<1>3. Typed(E, L) /\ D.result = None
  BY <1>1, <1>2 DEF Typed, TypedScript, Past
<1>4. c \in OnceBridged /\ wL \in Seq(Units) /\ SyncF \in Seq(Clear) /\ Payload \in Seq(Clear)
  BY <1>1, BridgeFrames DEF Initiating, Past, Meaning
<1>5. v \in Seq(Units) /\ (wL \in Seq(Clear) => v \in Seq(Clear))
  <2>1. CASE c = "bridged"
    <3>1. v = wL \o Payload /\ Payload \in Seq(Units)
      BY <1>4, <2>1, UnitSeqs DEF Sent
    <3>2. v \in Seq(Units)
      BY ONLY <1>4, <3>1, Joins
    <3>3. wL \in Seq(Clear) => v \in Seq(Clear)
      BY ONLY <1>4, <3>1, Joins
    <3> QED
      BY <3>2, <3>3
  <2>2. CASE c # "bridged"
    BY <1>4, <2>2 DEF Sent
  <2> QED
    BY <2>1, <2>2
<1>6. Meaning(E, L, c, wD, v)
  BY <1>1, <1>2, <1>5 DEF Meaning
<1>7. Following(E, L, c)
  BY <1>1, <1>2 DEF Following, Past
<1>8. Asking(E, L, c, aD, wD)
  BY <1>1, <1>2 DEF Asking, Early
<1>9. Initiating(E, L, c, wD)
  BY <1>1, <1>2 DEF Initiating, Past
<1>10. Offering(L, c, an, aL, v)
  BY <1>1, <1>4 DEF Offering, OnceBridged
<1>11. Responding(E, L, c, an, aL, v)
  <2>1. CASE c = "closed"
    <3>1. v = wL /\ Gone(c, D) = TRUE /\ Gone(c, E) = TRUE
      BY <2>1 DEF Sent, Gone
    <3>2. AwaitsConnect(D, L, wL, TRUE) => AwaitsConnect(E, L, wL, TRUE)
      BY <1>2 DEF AwaitsConnect, Past
    <3>3. AwaitsSync(D, L, wL, TRUE) => AwaitsSync(E, L, wL, TRUE)
      BY <1>2 DEF AwaitsSync, Past
    <3> QED
      BY <1>1, <1>2, <2>1, <3>1, <3>2, <3>3 DEF Responding, Past
  <2>2. CASE c = "bridged"
    <3>1. v = wL \o Payload /\ Gone(c, D) = FALSE /\ Gone(c, E) = FALSE
      BY <1>2, <2>2 DEF Sent, Gone
    <3>2. ~AwaitsConnect(D, L, wL, FALSE)
      BY DEF AwaitsConnect
    <3>3. ASSUME AwaitsSync(D, L, wL, FALSE) PROVE AwaitsSync(E, L, v, FALSE)
      <4>1. Awaits("sync", L, wL, SyncF, FALSE) /\ D.remote = L.addrs
        BY <3>3 DEF AwaitsSync
      <4>2. PICK u : u = SyncF \o Payload
        OBVIOUS
      <4>3. Awaits("sync", L, v, u, FALSE)
        BY ONLY <1>4, <3>1, <4>1, <4>2, AwaitsGrows
      <4> QED
        BY <1>2, <4>1, <4>2, <4>3 DEF AwaitsSync, Past
    <3> QED
      BY <1>1, <1>2, <2>2, <3>1, <3>2, <3>3 DEF Responding, Past
  <2> QED
    BY <1>4, <2>1, <2>2 DEF OnceBridged
<1> QED
  BY <1>1, <1>3, <1>6, <1>7, <1>8, <1>9, <1>10, <1>11 DEF Consistent

\* The relay answers RESERVE.
LEMMA RelayGrants ==
    ASSUME NEW D, NEW L, NEW c, NEW an, NEW aR, NEW aD, NEW aL, NEW wR, NEW wD, NEW wL,
           Consistent(D, L, c, an, aR, aD, aL, wR, wD, wL),
           aR # << >>, NEW st \in {"Ok", "ReservationRefused"}, NEW v, v = wR \o StatusF(st),
           NEW d, d = IF st = "Ok" THEN "reserved" ELSE c
    PROVE  Consistent(D, L, d, an, << >>, aD, aL, v, wD, wL)
<1>1. /\ c \in {"none", "reserved", "offered", "bridged", "closed"} /\ an \in BOOLEAN
      /\ Reserving(L, c, aR, wR) /\ Offering(L, c, an, aL, wL)
      /\ Asking(D, L, c, aD, wD) /\ Initiating(D, L, c, wD) /\ Responding(D, L, c, an, aL, wL)
      /\ Following(D, L, c) /\ Meaning(D, L, c, wD, wL) /\ Typed(D, L)
  BY Zenon DEF Consistent
<1>2. c = "none" /\ d \in {"none", "reserved"} /\ wR \in Seq(Clear) /\ aR = ReserveF
  BY <1>1 DEF Reserving
<1>3. StatusF(st) \in Seq(Clear)
  BY <1>1, BridgeFrames DEF Statuses
<1>4. v \in Seq(Clear)
  <2>1. PICK e : e = StatusF(st)
    OBVIOUS
  <2>2. e \in Seq(Clear) /\ v = wR \o e
    BY <1>3, <2>1
  <2> QED
    BY ONLY <1>2, <2>2, Joins
<1>5. L.at = "reserve" => Awaits("reserve", L, v, StatusF(st), FALSE)
  <2>1. L.at = "reserve" => Awaits("reserve", L, wR, << >>, FALSE)
    BY <1>1 DEF Reserving
  <2>2. wR \in Seq(Units)
    BY <1>2, UnitSeqs
  <2>3. PICK e : e = StatusF(st)
    OBVIOUS
  <2>4. e \in Seq(Clear) /\ v = wR \o e
    BY <1>3, <2>3
  <2>5. Awaits("reserve", L, wR, << >>, FALSE) => Awaits("reserve", L, v, e, FALSE)
    BY ONLY <2>2, <2>4, AwaitsFirst
  <2> QED
    BY <2>1, <2>3, <2>5
<1>6. Reserving(L, d, << >>, v)
  BY <1>1, <1>2, <1>4, <1>5 DEF Reserving
<1>7. Offering(L, d, an, aL, wL)
  BY <1>1, <1>2 DEF Offering
<1>8. Asking(D, L, d, aD, wD)
  BY <1>1, <1>2 DEF Asking, AwaitsHop, OnceBridged
<1>9. Initiating(D, L, d, wD) /\ Responding(D, L, d, an, aL, wL) /\ Following(D, L, d)
  BY <1>1, <1>2 DEF Initiating, Responding, Following, OnceBridged
<1>10. Meaning(D, L, d, wD, wL)
  BY <1>1, <1>2 DEF Meaning
<1> QED
  BY <1>1, <1>2, <1>6, <1>7, <1>8, <1>9, <1>10 DEF Consistent

\* The relay opens the STOP stream.
LEMMA RelayOffers ==
    ASSUME NEW D, NEW L, NEW c, NEW an, NEW aR, NEW aD, NEW aL, NEW wR, NEW wD, NEW wL,
           Consistent(D, L, c, an, aR, aD, aL, wR, wD, wL),
           aD # << >>, c = "reserved", NEW v, v = wL \o StopF
    PROVE  Consistent(D, L, "offered", an, aR, << >>, aL, wR, wD, v)
<1>1. /\ c \in {"none", "reserved", "offered", "bridged", "closed"} /\ an \in BOOLEAN
      /\ Reserving(L, c, aR, wR) /\ Offering(L, c, an, aL, wL)
      /\ Asking(D, L, c, aD, wD) /\ Initiating(D, L, c, wD) /\ Responding(D, L, c, an, aL, wL)
      /\ Following(D, L, c) /\ Meaning(D, L, c, wD, wL) /\ Typed(D, L)
  BY Zenon DEF Consistent
<1>2. wL = << >> /\ an = FALSE /\ aD = HopF /\ aR = << >>
  BY <1>1 DEF Offering, Asking, Reserving
<1>3. StopF \in Seq(Clear) /\ StopF \in Seq(Units)
  BY <1>1, BridgeFrames, UnitSeqs
<1>4. v = StopF
  BY <1>2, <1>3, Alone
<1>5. aL = << >>
  BY <1>1 DEF Offering
<1>6. Reserving(L, "offered", aR, wR)
  BY <1>1, <1>2 DEF Reserving
<1>7. Offering(L, "offered", an, aL, v)
  BY <1>1, <1>2, <1>4, <1>5 DEF Offering
<1>8. Asking(D, L, "offered", << >>, wD)
  BY <1>1, <1>2 DEF Asking, AwaitsHop, OnceBridged
<1>9. Initiating(D, L, "offered", wD) /\ Following(D, L, "offered")
  BY <1>1 DEF Initiating, Following, OnceBridged
<1>10. Responding(D, L, "offered", an, aL, v)
  BY <1>1 DEF Responding, OnceBridged
<1>11. Meaning(D, L, "offered", wD, v)
  BY <1>1, <1>3, <1>4 DEF Meaning
<1> QED
  BY <1>1, <1>6, <1>7, <1>8, <1>9, <1>10, <1>11 DEF Consistent

\* The relay knows no reservation.
LEMMA RelayDeclines ==
    ASSUME NEW D, NEW L, NEW c, NEW an, NEW aR, NEW aD, NEW aL, NEW wR, NEW wD, NEW wL,
           Consistent(D, L, c, an, aR, aD, aL, wR, wD, wL),
           aD # << >>, c = "none", NEW v, v = wD \o StatusF("NoReservation")
    PROVE  Consistent(D, L, c, an, aR, << >>, aL, wR, v, wL)
<1>1. /\ c \in {"none", "reserved", "offered", "bridged", "closed"} /\ an \in BOOLEAN
      /\ Reserving(L, c, aR, wR) /\ Offering(L, c, an, aL, wL)
      /\ Asking(D, L, c, aD, wD) /\ Initiating(D, L, c, wD) /\ Responding(D, L, c, an, aL, wL)
      /\ Following(D, L, c) /\ Meaning(D, L, c, wD, wL) /\ Typed(D, L)
  BY Zenon DEF Consistent
<1>2. aD = HopF /\ wD \in Seq(Units)
  BY <1>1 DEF Asking, Meaning
<1>3. PICK e : e = StatusF("NoReservation")
  OBVIOUS
<1>4. e \in Seq(Clear) /\ e \in Seq(Units) /\ e \in Seq(Plain) /\ v = wD \o e
  BY <1>1, <1>3, BridgeFrames, UnitSeqs DEF Statuses
<1>5. v \in Seq(Units) /\ (wD \in Seq(Plain) => v \in Seq(Plain))
  <2>1. v \in Seq(Units)
    BY ONLY <1>2, <1>4, Joins
  <2>2. wD \in Seq(Plain) => v \in Seq(Plain)
    BY ONLY <1>4, Joins
  <2> QED
    BY <2>1, <2>2
<1>6. Awaits("hop", D, wD, << >>, FALSE) => Awaits("hop", D, v, e, FALSE)
  BY ONLY <1>2, <1>4, AwaitsFirst
<1>7. HopF # << >>
  BY FrameIs, MessagesAre DEF HopF
<1>8. Asking(D, L, c, << >>, v)
  BY <1>1, <1>2, <1>3, <1>6, <1>7 DEF Asking, AwaitsHop, OnceBridged
<1>9. Initiating(D, L, c, v)
  BY <1>1 DEF Initiating, OnceBridged
<1>10. Meaning(D, L, c, v, wL)
  BY <1>1, <1>5 DEF Meaning
<1> QED
  BY <1>1, <1>8, <1>9, <1>10 DEF Consistent

\* A frame with nothing behind it.
LEMMA FrameAlone == RestOf(StatusF("Ok")) = << >>
<1>1. PICK e : e = StatusF("Ok")
  OBVIOUS
<1>2. e \in Seq(FrameUnits) /\ Len(e) = FrameLen
  BY <1>1, FrameIs, MessagesAre DEF StatusF, Statuses
<1>3. RestOf(e) = << >>
  BY <1>2, FramesAssumption DEF RestOf
<1> QED
  BY <1>1, <1>3

\* The relay bridges.
LEMMA RelayJoins ==
    ASSUME NEW D, NEW L, NEW c, NEW an, NEW aR, NEW aD, NEW aL, NEW wR, NEW wD, NEW wL,
           Consistent(D, L, c, an, aR, aD, aL, wR, wD, wL),
           c = "offered", aL # << >>, NEW v, v = (wD \o StatusF("Ok")) \o RestOf(aL)
    PROVE  Consistent(D, L, "bridged", an, aR, << >>, << >>, wR, v, wL)
<1>1. /\ c \in {"none", "reserved", "offered", "bridged", "closed"} /\ an \in BOOLEAN
      /\ Reserving(L, c, aR, wR) /\ Offering(L, c, an, aL, wL)
      /\ Asking(D, L, c, aD, wD) /\ Initiating(D, L, c, wD) /\ Responding(D, L, c, an, aL, wL)
      /\ Following(D, L, c) /\ Meaning(D, L, c, wD, wL) /\ Typed(D, L)
  BY Zenon DEF Consistent
<1>2. /\ aL = StatusF("Ok") /\ L.at \in {"dcutr", "ended"} /\ an = TRUE /\ wD \in Seq(Units)
      /\ aR = << >> /\ aD = << >>
  BY <1>1 DEF Offering, Meaning, Asking, Reserving
<1>3. PICK e : e = StatusF("Ok")
  OBVIOUS
<1>4. e \in Seq(Clear) /\ e \in Seq(Units) /\ e \in Seq(Plain)
  BY <1>1, <1>3, BridgeFrames, UnitSeqs DEF Statuses
<1>a. PICK u : u = wD \o e
  OBVIOUS
<1>b. u \in Seq(Units)
  BY ONLY <1>2, <1>4, <1>a, Joins
<1>c. v = u
  <2>1. v = u \o << >>
    BY <1>2, <1>3, <1>a, FrameAlone
  <2> QED
    BY <1>b, <2>1, Alone
<1>5. v \in Seq(Units) /\ (wD \in Seq(Plain) => v \in Seq(Plain)) /\ v = wD \o e
  <2>2. wD \in Seq(Plain) => u \in Seq(Plain)
    BY ONLY <1>4, <1>a, Joins
  <2> QED
    BY <1>a, <1>b, <1>c, <2>2
<1>6. Awaits("hop", D, wD, << >>, FALSE) => Awaits("hop", D, v, e, FALSE)
  BY ONLY <1>2, <1>4, <1>5, AwaitsFirst
<1>7. D.at \in {"hop", "ended"} /\ (D.at = "hop" => Awaits("hop", D, wD, << >>, FALSE))
  BY <1>1 DEF Asking, Initiating, Typed, Past, Early, OnceBridged, AwaitsHop
<1>8. Asking(D, L, "bridged", << >>, v)
  <2>1. PICK g \in BOOLEAN : g = Gone("bridged", L)
    BY DEF Gone
  <2>2. D.at = "hop" => Awaits("hop", D, v, e, g)
    BY <1>6, <1>7, <2>1, AwaitsMore
  <2> QED
    BY <1>3, <1>7, <2>1, <2>2 DEF Asking, AwaitsHop, OnceBridged, Early
<1>9. Initiating(D, L, "bridged", v)
  BY <1>7 DEF Initiating, Past
<1>10. Reserving(L, "bridged", aR, wR) /\ Offering(L, "bridged", an, << >>, wL)
  BY <1>1, <1>2 DEF Reserving, Offering, Early
<1>11. Following(D, L, "bridged")
  BY <1>2 DEF Following, Later
<1>12. Responding(D, L, "bridged", an, << >>, wL)
  <2> SUFFICES ASSUME L.at = "dcutr" PROVE L.remote = None /\ AwaitsConnect(D, L, wL, Gone("bridged", D))
    BY <1>2 DEF Responding, OnceBridged
  <2>1. L.remote = None /\ Awaits("connect", L, wL, << >>, FALSE)
    BY <1>1 DEF Responding, OnceBridged
  <2>2. PICK g \in BOOLEAN : g = Gone("bridged", D)
    BY DEF Gone
  <2>3. Awaits("connect", L, wL, << >>, g)
    BY <2>1, AwaitsMore
  <2>4. g \/ D.at = "hop"
    BY <1>7, <2>2 DEF Gone
  <2> QED
    BY <2>1, <2>2, <2>3, <2>4 DEF AwaitsConnect
<1>13. Meaning(D, L, "bridged", v, wL)
  BY <1>1, <1>5 DEF Meaning
<1> QED
  BY <1>1, <1>8, <1>9, <1>10, <1>11, <1>12, <1>13 DEF Consistent

\* run_dial asks for the circuit.
LEMMA DialerAsks ==
    ASSUME NEW D, NEW L, NEW c, NEW an, NEW aR, NEW aD, NEW aL, NEW wR, NEW wD, NEW wL,
           Consistent(D, L, c, an, aR, aD, aL, wR, wD, wL),
           D.at = "ready", NEW E, Goes(E, D, "hop"), E.flow \in HopFlow(<< >>), NEW v, v = aD \o HopF
    PROVE  Consistent(E, L, c, an, aR, v, aL, wR, wD, wL)
<1>1. /\ c \in {"none", "reserved", "offered", "bridged", "closed"} /\ an \in BOOLEAN
      /\ Reserving(L, c, aR, wR) /\ Offering(L, c, an, aL, wL)
      /\ Asking(D, L, c, aD, wD) /\ Initiating(D, L, c, wD) /\ Responding(D, L, c, an, aL, wL)
      /\ Following(D, L, c) /\ Meaning(D, L, c, wD, wL) /\ Typed(D, L)
  BY Zenon DEF Consistent
<1>2. /\ IsScript(E) /\ E.at = "hop" /\ E.attempt = D.attempt /\ E.addrs = D.addrs
      /\ E.remote = D.remote /\ E.result = D.result
  BY Zenon DEF Goes
<1>3. Typed(E, L)
  BY <1>1, <1>2 DEF Typed, TypedScript, Past
<1>4. c \in {"none", "reserved"} /\ aD = << >> /\ wD = << >>
  BY <1>1 DEF Asking, Early
<1>5. v = HopF
  <2>1. HopF \in Seq(Units)
    BY FrameIs, MessagesAre, UnitSeqs DEF HopF
  <2> QED
    BY <1>4, <2>1, Alone
<1>6. Awaits("hop", E, wD, << >>, FALSE)
  <2>1. PICK x : x = << >>
    OBVIOUS
  <2>2. x \in Seq(Clear) /\ E.flow \in FlowOf("hop", E.addrs, << >>)
    BY <2>1, SmallSeqs, FlowsAre
  <2>3. Awaits("hop", E, x, x, FALSE)
    BY ONLY <2>2, AwaitsFresh
  <2> QED
    BY <1>4, <2>1, <2>3
<1>7. Asking(E, L, c, v, wD)
  BY <1>2, <1>4, <1>5, <1>6 DEF Asking, AwaitsHop, Early
<1>8. Initiating(E, L, c, wD)
  BY <1>2 DEF Initiating, Past
<1>9. Following(E, L, c) /\ Responding(E, L, c, an, aL, wL)
  BY <1>1, <1>4 DEF Following, Responding, OnceBridged
<1>10. Meaning(E, L, c, wD, wL)
  BY <1>1, <1>2 DEF Meaning
<1> QED
  BY <1>1, <1>3, <1>7, <1>8, <1>9, <1>10 DEF Consistent

\* run_listen asks for a reservation.
LEMMA ListenerAsks ==
    ASSUME NEW D, NEW L, NEW c, NEW an, NEW aR, NEW aD, NEW aL, NEW wR, NEW wD, NEW wL,
           Consistent(D, L, c, an, aR, aD, aL, wR, wD, wL),
           L.at = "ready", NEW F, Goes(F, L, "reserve"), F.flow \in ReserveFlow(<< >>),
           NEW v, v = aR \o ReserveF
    PROVE  Consistent(D, F, c, an, v, aD, aL, wR, wD, wL)
<1>1. /\ c \in {"none", "reserved", "offered", "bridged", "closed"} /\ an \in BOOLEAN
      /\ Reserving(L, c, aR, wR) /\ Offering(L, c, an, aL, wL)
      /\ Asking(D, L, c, aD, wD) /\ Initiating(D, L, c, wD) /\ Responding(D, L, c, an, aL, wL)
      /\ Following(D, L, c) /\ Meaning(D, L, c, wD, wL) /\ Typed(D, L)
  BY Zenon DEF Consistent
<1>2. /\ IsScript(F) /\ F.at = "reserve" /\ F.attempt = L.attempt /\ F.addrs = L.addrs
      /\ F.remote = L.remote /\ F.result = L.result
  BY Zenon DEF Goes
<1>3. Typed(D, F)
  BY <1>1, <1>2 DEF Typed, TypedScript, Early
<1>4. c = "none" /\ aR = << >> /\ wR = << >> /\ aL = << >>
  BY <1>1 DEF Reserving, Offering, Early
<1>5. v = ReserveF
  <2>1. ReserveF \in Seq(Units)
    BY FrameIs, MessagesAre, UnitSeqs DEF ReserveF
  <2> QED
    BY <1>4, <2>1, Alone
<1>6. Awaits("reserve", F, wR, << >>, FALSE)
  <2>1. PICK x : x = << >>
    OBVIOUS
  <2>2. x \in Seq(Clear) /\ F.flow \in FlowOf("reserve", F.addrs, << >>)
    BY <2>1, SmallSeqs, FlowsAre
  <2>3. Awaits("reserve", F, x, x, FALSE)
    BY ONLY <2>2, AwaitsFresh
  <2> QED
    BY <1>4, <2>1, <2>3
<1>7. Reserving(F, c, v, wR)
  BY <1>1, <1>2, <1>4, <1>5, <1>6 DEF Reserving, Early
<1>8. Offering(F, c, an, aL, wL)
  BY <1>1, <1>2, <1>4 DEF Offering
<1>9. Asking(D, F, c, aD, wD) /\ Initiating(D, F, c, wD)
  BY <1>1, <1>4 DEF Asking, AwaitsHop, Initiating, OnceBridged
<1>10. Following(D, F, c) /\ Responding(D, F, c, an, aL, wL)
  BY <1>2 DEF Following, Responding, Later
<1>11. Meaning(D, F, c, wD, wL)
  BY <1>1, <1>2 DEF Meaning
<1> QED
  BY <1>1, <1>3, <1>7, <1>8, <1>9, <1>10, <1>11 DEF Consistent

\* run_listen takes the STOP stream.
LEMMA StopTaken ==
    ASSUME NEW D, NEW L, NEW c, NEW an, NEW aR, NEW aD, NEW aL, NEW wR, NEW wD, NEW wL,
           Consistent(D, L, c, an, aR, aD, aL, wR, wD, wL),
           c = "offered", an = FALSE, NEW y, y = TRUE, L.at = "inbound",
           NEW F, Goes(F, L, "stop"), F.flow \in StopFlow(<< >>)
    PROVE  Consistent(D, F, c, y, aR, aD, aL, wR, wD, wL)
<1>1. /\ c \in {"none", "reserved", "offered", "bridged", "closed"} /\ an \in BOOLEAN
      /\ Reserving(L, c, aR, wR) /\ Offering(L, c, an, aL, wL)
      /\ Asking(D, L, c, aD, wD) /\ Initiating(D, L, c, wD) /\ Responding(D, L, c, an, aL, wL)
      /\ Following(D, L, c) /\ Meaning(D, L, c, wD, wL) /\ Typed(D, L)
  BY Zenon DEF Consistent
<1>2. /\ IsScript(F) /\ F.at = "stop" /\ F.attempt = L.attempt /\ F.addrs = L.addrs
      /\ F.remote = L.remote /\ F.result = L.result
  BY Zenon DEF Goes
<1>3. Typed(D, F)
  BY <1>1, <1>2 DEF Typed, TypedScript, Early
<1>4. wL = StopF /\ aL = << >>
  BY <1>1 DEF Offering
<1>5. Awaits("stop", F, wL, StopF, FALSE)
  <2>1. StopF \in Seq(Clear) /\ F.flow \in FlowOf("stop", F.addrs, << >>)
    BY <1>1, BridgeFrames, FlowsAre
  <2>2. PICK x : x = StopF
    OBVIOUS
  <2>3. x \in Seq(Clear) /\ F.flow \in FlowOf("stop", F.addrs, << >>)
    BY <2>1, <2>2
  <2>4. Awaits("stop", F, x, x, FALSE)
    BY ONLY <2>3, AwaitsFresh
  <2> QED
    BY <1>4, <2>2, <2>4
<1>6. Reserving(F, c, aR, wR)
  BY <1>1, <1>2 DEF Reserving, Early
<1>7. Offering(F, c, y, aL, wL)
  BY <1>1, <1>2, <1>4, <1>5 DEF Offering
<1>8. Asking(D, F, c, aD, wD) /\ Initiating(D, F, c, wD)
  BY <1>1 DEF Asking, AwaitsHop, Initiating, OnceBridged
<1>9. Following(D, F, c) /\ Responding(D, F, c, y, aL, wL)
  BY <1>2 DEF Following, Responding, Later
<1>10. Meaning(D, F, c, wD, wL)
  BY <1>1, <1>2 DEF Meaning
<1> QED
  BY <1>1, <1>3, <1>6, <1>7, <1>8, <1>9, <1>10 DEF Consistent

\* run_listen misses the STOP stream.
LEMMA StopMissed ==
    ASSUME NEW D, NEW L, NEW c, NEW an, NEW aR, NEW aD, NEW aL, NEW wR, NEW wD, NEW wL,
           Consistent(D, L, c, an, aR, aD, aL, wR, wD, wL),
           c = "offered", an = FALSE, NEW y, y = TRUE
    PROVE  L.at \notin {"stop", "dcutr"} /\ (L.at # "inbound" => Consistent(D, L, c, y, aR, aD, aL, wR, wD, wL))
<1>1. /\ c \in {"none", "reserved", "offered", "bridged", "closed"} /\ an \in BOOLEAN
      /\ Reserving(L, c, aR, wR) /\ Offering(L, c, an, aL, wL)
      /\ Asking(D, L, c, aD, wD) /\ Initiating(D, L, c, wD) /\ Responding(D, L, c, an, aL, wL)
      /\ Following(D, L, c) /\ Meaning(D, L, c, wD, wL) /\ Typed(D, L)
  BY Zenon DEF Consistent
<1>2. L.at \notin {"stop", "dcutr"}
  BY <1>1 DEF Offering, Responding
<1>3. Offering(L, c, y, aL, wL) /\ Responding(D, L, c, y, aL, wL)
  BY <1>1, <1>2 DEF Offering, Responding
<1> QED
  BY <1>1, <1>2, <1>3 DEF Consistent

\* Data for the wait for the answer to RESERVE.
LEMMA ReserveData ==
    ASSUME NEW D, NEW L, NEW c, NEW an, NEW aR, NEW aD, NEW aL, NEW wR, NEW wD, NEW wL,
           Consistent(D, L, c, an, aR, aD, aL, wR, wD, wL),
           L.at = "reserve", NEW a, NEW z \in Seq(Clear), Takes(wR, a, z),
           NEW F, F = ListenerReserve(L, a).script
    PROVE  Consistent(D, F, c, an, aR, aD, aL, z, wD, wL)
<1>1. /\ c \in {"none", "reserved", "offered", "bridged", "closed"} /\ an \in BOOLEAN
      /\ Reserving(L, c, aR, wR) /\ Offering(L, c, an, aL, wL)
      /\ Asking(D, L, c, aD, wD) /\ Initiating(D, L, c, wD) /\ Responding(D, L, c, an, aL, wL)
      /\ Following(D, L, c) /\ Meaning(D, L, c, wD, wL) /\ Typed(D, L)
  BY Zenon DEF Consistent
<1>2. wR \in Seq(Units) /\ IsScript(L) /\ L.result = None
  BY <1>1, UnitSeqs DEF Reserving, Typed, TypedScript
<1>3. ~Awaits("reserve", L, wR, << >>, FALSE)
  BY <1>2, NothingTaken
<1>4. /\ aR = << >> /\ c \in {"none", "reserved", "offered"}
      /\ \E st \in {"Ok", "ReservationRefused"} : Awaits("reserve", L, wR, StatusF(st), FALSE)
  BY <1>1, <1>3 DEF Reserving
<1>5. PICK st \in {"Ok", "ReservationRefused"} : Awaits("reserve", L, wR, StatusF(st), FALSE)
  BY <1>4
<1>6. \/ Goes(F, L, L.at) /\ Awaits("reserve", F, z, StatusF(st), FALSE)
      \/ Goes(F, L, "inbound")
      \/ Finishes(F, L, "refused")
  <2>1. st \in Statuses /\ Awaits("reserve", L, wR, StatusF(st), FALSE)
    BY <1>5 DEF Statuses
  <2> QED
    BY ONLY <1>2, <2>1, Takes(wR, a, z), F = ListenerReserve(L, a).script, ReserveReads
<1>7. CASE Goes(F, L, L.at) /\ Awaits("reserve", F, z, StatusF(st), FALSE)
  <2>1. /\ IsScript(F) /\ F.at = "reserve" /\ F.attempt = L.attempt /\ F.addrs = L.addrs
        /\ F.remote = L.remote /\ F.result = L.result
    BY <1>7 DEF Goes
  <2>2. Typed(D, F)
    BY <1>1, <2>1 DEF Typed, TypedScript, Early
  <2>3. Reserving(F, c, aR, z)
    BY <1>1, <1>4, <1>7, <2>1 DEF Reserving, Early
  <2>4. Offering(F, c, an, aL, wL)
    BY <1>1, <2>1 DEF Offering
  <2>5. Asking(D, F, c, aD, wD) /\ Initiating(D, F, c, wD)
    BY <1>1, <1>4 DEF Asking, AwaitsHop, Initiating, OnceBridged
  <2>6. Following(D, F, c) /\ Responding(D, F, c, an, aL, wL)
    BY <2>1 DEF Following, Responding, Later
  <2>7. Meaning(D, F, c, wD, wL)
    BY <1>1, <2>1 DEF Meaning
  <2> QED
    BY <1>1, <2>2, <2>3, <2>4, <2>5, <2>6, <2>7 DEF Consistent
<1>8. ASSUME F.at # "reserve", Consistent(D, F, c, an, aR, aD, aL, wR, wD, wL)
      PROVE  Consistent(D, F, c, an, aR, aD, aL, z, wD, wL)
  <2>1. wR # << >>
    <3>1. Moves(<< >>, wR, a, << >> \o a, z)
      BY SmallSeqs, Zenon DEF Takes
    <3>2. a \in Seq(Units) /\ a # << >> /\ z \in Seq(Units) /\ a \o z = wR
      BY <3>1, UnitSeqs DEF Moves
    <3> QED
      BY ONLY <3>2, JoinsEmpty
  <2> QED
    BY ONLY <1>8, <2>1, z \in Seq(Clear), ReserveDrops
<1>9. CASE Goes(F, L, "inbound")
  <2>1. Consistent(D, F, c, an, aR, aD, aL, wR, wD, wL)
    BY ONLY <1>9, L.at = "reserve", Consistent(D, L, c, an, aR, aD, aL, wR, wD, wL), ListenerGranted
  <2>2. F.at # "reserve"
    BY <1>9 DEF Goes
  <2> QED
    BY <1>8, <2>1, <2>2
<1>10. CASE Finishes(F, L, "refused")
  <2>1. "refused" \in Results \ {None, "protocol"} /\ L.at # "ended" /\ "refused" # "bridge-closed"
    BY AbsentAssumption DEF Results
  <2>2. Consistent(D, F, c, an, aR, aD, aL, wR, wD, wL)
    BY ONLY <1>10, <2>1, Consistent(D, L, c, an, aR, aD, aL, wR, wD, wL), ListenerEnds
  <2>3. F.at # "reserve"
    BY <1>10 DEF Finishes
  <2> QED
    BY <1>8, <2>2, <2>3
<1> QED
  BY <1>6, <1>7, <1>9, <1>10

\* What the relay has to act on once units are written.
Asks(c, a, units) == IF c \in OnceBridged THEN a ELSE a \o units

\* Nothing is written.
LEMMA NothingWritten ==
    ASSUME NEW c, NEW u \in Seq(Units)
    PROVE  Sent(c, u, << >>) = u /\ Asks(c, u, << >>) = u
BY Alone DEF Sent, Asks

\* The wire had something before it was taken.
LEMMA SomeTaken ==
    ASSUME NEW w, NEW a, NEW z, Takes(w, a, z)
    PROVE  w # << >> /\ a \in Seq(Clear)
<1>1. Moves(<< >>, w, a, << >> \o a, z)
  BY SmallSeqs, Zenon DEF Takes
<1>2. a \in Seq(Clear) /\ a # << >> /\ z \in Seq(Units) /\ a \o z = w
  BY <1>1 DEF Moves
<1>3. a \in Seq(Units)
  BY <1>2, UnitSeqs
<1> QED
  BY ONLY <1>2, <1>3, JoinsEmpty

\* run_dial keeps its place and has read more.
LEMMA DialerStays ==
    ASSUME NEW D, NEW L, NEW c, NEW an, NEW aR, NEW aD, NEW aL, NEW wR, NEW wD, NEW wL,
           Consistent(D, L, c, an, aR, aD, aL, wR, wD, wL),
           NEW E, Goes(E, D, D.at), NEW z \in Seq(Units), wD \in Seq(Plain) => z \in Seq(Plain),
           Asking(E, L, c, aD, z), Initiating(E, L, c, z)
    PROVE  Consistent(E, L, c, an, aR, aD, aL, wR, z, wL)
<1>1. /\ c \in {"none", "reserved", "offered", "bridged", "closed"} /\ an \in BOOLEAN
      /\ Reserving(L, c, aR, wR) /\ Offering(L, c, an, aL, wL)
      /\ Asking(D, L, c, aD, wD) /\ Initiating(D, L, c, wD) /\ Responding(D, L, c, an, aL, wL)
      /\ Following(D, L, c) /\ Meaning(D, L, c, wD, wL) /\ Typed(D, L)
  BY Zenon DEF Consistent
<1>2. /\ IsScript(E) /\ E.at = D.at /\ E.attempt = D.attempt /\ E.addrs = D.addrs
      /\ E.remote = D.remote /\ E.result = D.result
  BY Zenon DEF Goes
<1>3. Typed(E, L) /\ Following(E, L, c)
  BY <1>1, <1>2 DEF Typed, TypedScript, Following
<1>4. Meaning(E, L, c, z, wL)
  BY <1>1, <1>2 DEF Meaning
<1>5. Responding(E, L, c, an, aL, wL)
  <2>1. Gone(c, E) = Gone(c, D)
    BY <1>2 DEF Gone
  <2>2. PICK g : g = Gone(c, D)
    OBVIOUS
  <2>3. AwaitsConnect(D, L, wL, g) => AwaitsConnect(E, L, wL, g)
    BY <1>2 DEF AwaitsConnect
  <2>4. AwaitsSync(D, L, wL, g) => AwaitsSync(E, L, wL, g)
    BY <1>2 DEF AwaitsSync
  <2> QED
    BY <1>1, <1>2, <2>1, <2>2, <2>3, <2>4 DEF Responding
<1> QED
  BY <1>1, <1>3, <1>4, <1>5 DEF Consistent

\* run_dial has its circuit and sends CONNECT.
LEMMA DialerBridged ==
    ASSUME NEW D, NEW L, NEW c, NEW an, NEW aR, NEW aD, NEW aL, NEW wR, NEW wD, NEW wL,
           Consistent(D, L, c, an, aR, aD, aL, wR, wD, wL),
           D.at = "hop", c \in OnceBridged, NEW E, Goes(E, D, "dcutr"), NEW z \in Seq(Units),
           wD \in Seq(Plain) => z \in Seq(Plain), Awaits("reply", E, z, << >>, Gone(c, L)),
           NEW v, v = Sent(c, wL, ConnectF(D.addrs))
    PROVE  Consistent(E, L, c, an, aR, aD, aL, wR, z, v)
<1>1. /\ c \in {"none", "reserved", "offered", "bridged", "closed"} /\ an \in BOOLEAN
      /\ Reserving(L, c, aR, wR) /\ Offering(L, c, an, aL, wL)
      /\ Asking(D, L, c, aD, wD) /\ Initiating(D, L, c, wD) /\ Responding(D, L, c, an, aL, wL)
      /\ Following(D, L, c) /\ Meaning(D, L, c, wD, wL) /\ Typed(D, L)
  BY Zenon DEF Consistent
<1>2. /\ IsScript(E) /\ E.at = "dcutr" /\ E.attempt = D.attempt /\ E.addrs = D.addrs
      /\ E.remote = D.remote /\ E.result = D.result
  BY Zenon DEF Goes
<1>3. Typed(E, L)
  BY <1>1, <1>2 DEF Typed, TypedScript, Past
<1>4. wL \in Seq(Units) /\ aD = << >>
  BY <1>1 DEF Meaning, Asking, OnceBridged
<1>a. PICK e : e = ConnectF(D.addrs)
  OBVIOUS
<1>b. e \in Seq(Clear) /\ e \in Seq(Units)
  BY <1>1, <1>a, BridgeFrames, UnitSeqs
<1>5. v \in Seq(Units) /\ (wL \in Seq(Clear) => v \in Seq(Clear))
  <2>1. CASE c = "bridged"
    <3>1. v = wL \o e
      BY <1>a, <2>1 DEF Sent
    <3>2. v \in Seq(Units)
      BY ONLY <1>4, <1>b, <3>1, Joins
    <3>3. wL \in Seq(Clear) => v \in Seq(Clear)
      BY ONLY <1>b, <3>1, Joins
    <3> QED
      BY <3>2, <3>3
  <2>2. CASE c # "bridged"
    BY <1>4, <2>2 DEF Sent
  <2> QED
    BY <2>1, <2>2
<1>6. Meaning(E, L, c, z, v)
  BY <1>1, <1>2, <1>5 DEF Meaning
<1>7. Following(E, L, c)
  BY <1>1 DEF Following, Past
<1>8. Asking(E, L, c, aD, z)
  BY <1>2, <1>4 DEF Asking, Early
<1>9. Initiating(E, L, c, z)
  BY <1>2 DEF Initiating, AwaitsReply, Past
<1>10. Offering(L, c, an, aL, v)
  BY <1>1 DEF Offering, OnceBridged
<1>11. Responding(E, L, c, an, aL, v)
  <2>0. D.at \notin Past \cup {"dcutr"}
    BY DEF Past
  <2>1. CASE c = "closed"
    <3>1. v = wL /\ Gone(c, D) = TRUE /\ Gone(c, E) = TRUE
      BY <2>1 DEF Sent, Gone
    <3>2. AwaitsConnect(D, L, wL, TRUE) => AwaitsConnect(E, L, wL, TRUE)
      BY <1>2, <2>0 DEF AwaitsConnect
    <3> QED
      BY <1>1, <2>0, <2>1, <3>1, <3>2 DEF Responding
  <2>2. CASE c = "bridged"
    <3>1. v = wL \o e /\ Gone(c, D) = FALSE /\ Gone(c, E) = FALSE
      BY <1>2, <1>a, <2>2 DEF Sent, Gone
    <3>3. ASSUME AwaitsConnect(D, L, wL, FALSE) PROVE AwaitsConnect(E, L, v, FALSE)
      <4>1. Awaits("connect", L, wL, << >>, FALSE)
        BY <2>0, <3>3 DEF AwaitsConnect
      <4>3. Awaits("connect", L, v, e, FALSE)
        BY ONLY <1>4, <1>b, <3>1, <4>1, AwaitsFirst
      <4> QED
        BY <1>2, <1>a, <4>3 DEF AwaitsConnect
    <3> QED
      BY <1>1, <2>0, <2>2, <3>1, <3>3 DEF Responding
  <2> QED
    BY <2>1, <2>2 DEF OnceBridged
<1> QED
  BY <1>1, <1>3, <1>6, <1>7, <1>8, <1>9, <1>10, <1>11 DEF Consistent

\* Data for the wait for the answer to HOP CONNECT.
LEMMA HopData ==
    ASSUME NEW D, NEW L, NEW c, NEW an, NEW aR, NEW aD, NEW aL, NEW wR, NEW wD, NEW wL,
           Consistent(D, L, c, an, aR, aD, aL, wR, wD, wL),
           D.at = "hop", NEW a, NEW z \in Seq(Units), wD \in Seq(Plain) => z \in Seq(Plain), Takes(wD, a, z),
           NEW st, st = DialerHop(D, a), NEW E, E = st.script,
           NEW b, b = Asks(c, aD, st.out), NEW v, v = Sent(c, wL, st.out)
    PROVE  Consistent(E, L, c, an, aR, b, aL, wR, z, v)
<1>1. /\ c \in {"none", "reserved", "offered", "bridged", "closed"} /\ an \in BOOLEAN
      /\ Reserving(L, c, aR, wR) /\ Offering(L, c, an, aL, wL)
      /\ Asking(D, L, c, aD, wD) /\ Initiating(D, L, c, wD) /\ Responding(D, L, c, an, aL, wL)
      /\ Following(D, L, c) /\ Meaning(D, L, c, wD, wL) /\ Typed(D, L)
  BY Zenon DEF Consistent
<1>2. wD \in Seq(Units) /\ wL \in Seq(Units) /\ IsScript(D) /\ D.addrs \in SUBSET Sides /\ D.at # "ended"
  BY <1>1, BridgeFrames DEF Meaning, Typed, TypedScript
<1>3. \A g \in BOOLEAN : ~Awaits("hop", D, wD, << >>, g)
  BY ONLY <1>2, Takes(wD, a, z), NothingTaken
<1>4. PICK g \in BOOLEAN : g = Gone(c, L)
  BY DEF Gone
<1>5. \/ c \in {"none", "reserved"} /\ aD = << >> /\ Awaits("hop", D, wD, StatusF("NoReservation"), FALSE)
      \/ c \in OnceBridged /\ aD = << >> /\ Awaits("hop", D, wD, StatusF("Ok"), g)
  BY <1>1, <1>3, <1>4 DEF Asking, AwaitsHop
<1>6. aD = << >> /\ aD \in Seq(Units)
  BY <1>5, SmallSeqs
<1>7. st.out = << >> => b = aD /\ v = wL
  BY <1>2, <1>6, NothingWritten
<1>8. ASSUME Finishes(E, D, "refused"), st.out = << >> PROVE Consistent(E, L, c, an, aR, b, aL, wR, z, v)
  <2>1. "refused" \in Results \ {None, "protocol"} /\ "refused" # "ping-via-relay"
    BY AbsentAssumption DEF Results
  <2>2. Consistent(E, L, c, an, aR, aD, aL, wR, wD, wL)
    BY ONLY <1>2, <1>8, <2>1, Consistent(D, L, c, an, aR, aD, aL, wR, wD, wL), DialerEnds
  <2>3. E.at \notin {"hop", "dcutr"} /\ wD # << >>
    BY <1>8, SomeTaken DEF Finishes
  <2>4. Consistent(E, L, c, an, aR, aD, aL, wR, z, wL)
    BY ONLY <2>2, <2>3, z \in Seq(Units), wD \in Seq(Plain) => z \in Seq(Plain), DialerDrops
  <2> QED
    BY <1>7, <1>8, <2>4
<1>9. ASSUME Goes(E, D, D.at), st.out = << >>, AwaitsHop(E, c, aD, z, g)
      PROVE  Consistent(E, L, c, an, aR, b, aL, wR, z, v)
  <2>1. E.at = "hop"
    BY <1>9 DEF Goes
  <2>2. Asking(E, L, c, aD, z) /\ Initiating(E, L, c, z)
    BY <1>1, <1>4, <1>9, <2>1 DEF Asking, Initiating, Past, Early
  <2>3. Consistent(E, L, c, an, aR, aD, aL, wR, z, wL)
    BY ONLY <1>9, <2>2, Consistent(D, L, c, an, aR, aD, aL, wR, wD, wL), z \in Seq(Units),
            wD \in Seq(Plain) => z \in Seq(Plain), DialerStays
  <2> QED
    BY <1>7, <1>9, <2>3
<1>10. CASE c \in {"none", "reserved"} /\ aD = << >> /\ Awaits("hop", D, wD, StatusF("NoReservation"), FALSE)
  <2>0. PICK no \in Statuses, h \in BOOLEAN : no = "NoReservation" /\ h = FALSE
    BY DEF Statuses
  <2>1. no \in Statuses /\ Awaits("hop", D, wD, StatusF(no), h) /\ no # "Ok"
    BY <1>10, <2>0 DEF Statuses
  <2>2. \/ Goes(st.script, D, D.at) /\ Awaits("hop", st.script, z, StatusF(no), h) /\ st.out = << >>
        \/ Finishes(st.script, D, "refused") /\ st.out = << >>
    BY ONLY <1>2, <2>1, h \in BOOLEAN, Takes(wD, a, z), st = DialerHop(D, a), HopReads
  <2> QED
    BY <1>8, <1>9, <1>10, <2>0, <2>2 DEF AwaitsHop
<1>11. CASE c \in OnceBridged /\ aD = << >> /\ Awaits("hop", D, wD, StatusF("Ok"), g)
  <2>0. PICK yes : yes = "Ok"
    OBVIOUS
  <2>1. yes \in Statuses /\ Awaits("hop", D, wD, StatusF(yes), g) /\ yes = "Ok"
    BY <1>11, <2>0 DEF Statuses
  <2>2. \/ Goes(st.script, D, D.at) /\ Awaits("hop", st.script, z, StatusF(yes), g) /\ st.out = << >>
        \/ /\ Goes(st.script, D, "dcutr") /\ st.out = ConnectF(D.addrs)
           /\ Awaits("reply", st.script, z, << >>, g)
    BY ONLY <1>2, <2>1, g \in BOOLEAN, Takes(wD, a, z), st = DialerHop(D, a), HopReads
  <2>3. CASE Goes(E, D, D.at) /\ Awaits("hop", E, z, StatusF(yes), g) /\ st.out = << >>
    BY <1>9, <1>11, <2>0, <2>3 DEF AwaitsHop
  <2>4. CASE Goes(E, D, "dcutr") /\ st.out = ConnectF(D.addrs) /\ Awaits("reply", E, z, << >>, g)
    <3>1. b = aD
      BY <1>11 DEF Asks
    <3>2. Awaits("reply", E, z, << >>, Gone(c, L)) /\ v = Sent(c, wL, ConnectF(D.addrs))
      BY <1>4, <2>4
    <3>3. Consistent(E, L, c, an, aR, aD, aL, wR, z, v)
      BY ONLY <1>11, <2>4, <3>2, Consistent(D, L, c, an, aR, aD, aL, wR, wD, wL), D.at = "hop",
              z \in Seq(Units), wD \in Seq(Plain) => z \in Seq(Plain), DialerBridged
    <3> QED
      BY <3>1, <3>3
  <2> QED
    BY <2>2, <2>3, <2>4
<1> QED
  BY <1>5, <1>10, <1>11

\* run_dial has the DCUtR reply, sends SYNC and punches.
LEMMA DialerSyncs ==
    ASSUME NEW D, NEW L, NEW c, NEW an, NEW aR, NEW aD, NEW aL, NEW wR, NEW wD, NEW wL,
           Consistent(D, L, c, an, aR, aD, aL, wR, wD, wL),
           D.at = "dcutr", L.at = "ended" \/ L.remote # None, NEW E, Starts(E, D, L.addrs),
           NEW z \in Seq(Units), wD \in Seq(Plain) => z \in Seq(Plain), NEW v, v = Sent(c, wL, SyncF)
    PROVE  Consistent(E, L, c, an, aR, aD, aL, wR, z, v)
<1>1. /\ c \in {"none", "reserved", "offered", "bridged", "closed"} /\ an \in BOOLEAN
      /\ Reserving(L, c, aR, wR) /\ Offering(L, c, an, aL, wL)
      /\ Asking(D, L, c, aD, wD) /\ Initiating(D, L, c, wD) /\ Responding(D, L, c, an, aL, wL)
      /\ Following(D, L, c) /\ Meaning(D, L, c, wD, wL) /\ Typed(D, L)
  BY Zenon DEF Consistent
<1>2. /\ IsScript(E) /\ E.at = "punch" /\ E.attempt = D.attempt /\ E.addrs = D.addrs
      /\ E.remote = L.addrs /\ E.result = D.result
  BY Zenon DEF Starts
<1>3. Typed(E, L)
  <2>1. L.addrs \in SUBSET {"Listener"}
    BY <1>1 DEF Typed, TypedScript
  <2> QED
    BY <1>1, <1>2, <2>1 DEF Typed, TypedScript, Past, Other
<1>4. c \in OnceBridged /\ wL \in Seq(Units) /\ SyncF \in Seq(Clear) /\ SyncF \in Seq(Units)
  BY <1>1, BridgeFrames, UnitSeqs DEF Meaning, Initiating
<1>5. v \in Seq(Units) /\ (wL \in Seq(Clear) => v \in Seq(Clear))
  <2>1. CASE c = "bridged"
    <3>1. v = wL \o SyncF
      BY <2>1 DEF Sent
    <3>2. v \in Seq(Units)
      BY ONLY <1>4, <3>1, Joins
    <3>3. wL \in Seq(Clear) => v \in Seq(Clear)
      BY ONLY <1>4, <3>1, Joins
    <3> QED
      BY <3>2, <3>3
  <2>2. CASE c # "bridged"
    BY <1>4, <2>2 DEF Sent
  <2> QED
    BY <2>1, <2>2
<1>6. Meaning(E, L, c, z, v)
  BY <1>1, <1>2, <1>5 DEF Meaning
<1>7. Following(E, L, c)
  BY <1>1 DEF Following, Past
<1>8. Asking(E, L, c, aD, z)
  BY <1>1, <1>2 DEF Asking, Early
<1>9. Initiating(E, L, c, z)
  BY <1>2, <1>4 DEF Initiating
<1>10. Offering(L, c, an, aL, v)
  BY <1>1, <1>4 DEF Offering, OnceBridged
<1>11. Responding(E, L, c, an, aL, v)
  <2> SUFFICES ASSUME L.at = "dcutr"
               PROVE  an /\ L.remote = E.addrs /\ AwaitsSync(E, L, v, Gone(c, E))
    BY <1>2, <1>4 DEF Responding, Past
  <2>1. an /\ L.remote = D.addrs /\ AwaitsSync(D, L, wL, Gone(c, D))
    BY <1>1, <1>4 DEF Responding, OnceBridged
  <2>2. PICK g \in BOOLEAN : g = Gone(c, D)
    BY DEF Gone
  <2>3. Gone(c, E) = g /\ g = (c = "closed")
    BY <1>2, <2>2 DEF Gone
  <2>4. Awaits("sync", L, wL, << >>, g)
    BY <2>1, <2>2 DEF AwaitsSync, Past
  <2>5. CASE c = "closed"
    <3>1. v = wL
      BY <2>5 DEF Sent
    <3> QED
      BY <1>2, <2>1, <2>3, <2>4, <2>5, <3>1 DEF AwaitsSync
  <2>6. CASE c = "bridged"
    <3>1. v = wL \o SyncF /\ Awaits("sync", L, wL, << >>, FALSE)
      BY <2>3, <2>4, <2>6 DEF Sent
    <3>2. PICK e : e = SyncF
      OBVIOUS
    <3>3. v = wL \o e /\ e \in Seq(Clear)
      BY <1>4, <3>1, <3>2
    <3>4. Awaits("sync", L, v, e, FALSE)
      BY ONLY <1>4, <3>1, <3>3, AwaitsFirst
    <3> QED
      BY <1>2, <2>1, <2>3, <2>6, <3>2, <3>4 DEF AwaitsSync, Past
  <2> QED
    BY <1>4, <2>5, <2>6 DEF OnceBridged
<1> QED
  BY <1>1, <1>3, <1>6, <1>7, <1>8, <1>9, <1>10, <1>11 DEF Consistent

\* Data for the wait for the DCUtR reply.
LEMMA ReplyData ==
    ASSUME NEW D, NEW L, NEW c, NEW an, NEW aR, NEW aD, NEW aL, NEW wR, NEW wD, NEW wL,
           Consistent(D, L, c, an, aR, aD, aL, wR, wD, wL),
           D.at = "dcutr", NEW a, NEW z \in Seq(Units), wD \in Seq(Plain) => z \in Seq(Plain),
           Takes(wD, a, z), NEW st, st = DialerDcutr(D, a), NEW E, E = st.script,
           NEW b, b = Asks(c, aD, st.out), NEW v, v = Sent(c, wL, st.out)
    PROVE  Consistent(E, L, c, an, aR, b, aL, wR, z, v)
<1>1. /\ c \in {"none", "reserved", "offered", "bridged", "closed"} /\ an \in BOOLEAN
      /\ Reserving(L, c, aR, wR) /\ Offering(L, c, an, aL, wL)
      /\ Asking(D, L, c, aD, wD) /\ Initiating(D, L, c, wD) /\ Responding(D, L, c, an, aL, wL)
      /\ Following(D, L, c) /\ Meaning(D, L, c, wD, wL) /\ Typed(D, L)
  BY Zenon DEF Consistent
<1>2. wD \in Seq(Units) /\ wL \in Seq(Units) /\ IsScript(D) /\ L.addrs \in SUBSET Sides /\ c \in OnceBridged
  BY <1>1, BridgeFrames DEF Meaning, Typed, TypedScript, Initiating
<1>3. PICK g \in BOOLEAN : g = Gone(c, L)
  BY DEF Gone
<1>4. ~Awaits("reply", D, wD, << >>, g)
  BY ONLY <1>2, g \in BOOLEAN, Takes(wD, a, z), NothingTaken
<1>5. Awaits("reply", D, wD, ConnectF(L.addrs), g) /\ (L.at = "ended" \/ L.remote # None)
  BY <1>1, <1>3, <1>4 DEF Initiating, AwaitsReply
<1>6. b = aD
  BY <1>2 DEF Asks
<1>7. PICK A \in SUBSET Sides : A = L.addrs
  BY <1>2
<1>8. \/ Goes(st.script, D, D.at) /\ Awaits("reply", st.script, z, ConnectF(A), g) /\ st.out = << >>
      \/ Starts(st.script, D, A) /\ st.out = SyncF
  <2>1. Awaits("reply", D, wD, ConnectF(A), g)
    BY <1>5, <1>7
  <2> QED
    BY ONLY <1>2, <2>1, A \in SUBSET Sides, g \in BOOLEAN, Takes(wD, a, z), st = DialerDcutr(D, a), ReplyReads
<1>9. CASE Goes(E, D, D.at) /\ Awaits("reply", E, z, ConnectF(A), g) /\ st.out = << >>
  <2>1. v = wL
    BY <1>2, <1>9, NothingWritten
  <2>2. E.at = "dcutr"
    BY <1>9 DEF Goes
  <2>3. Asking(E, L, c, aD, z)
    BY <1>1, <2>2 DEF Asking, Early
  <2>4. Initiating(E, L, c, z)
    BY <1>2, <1>3, <1>5, <1>7, <1>9, <2>2 DEF Initiating, AwaitsReply, Past
  <2>5. Consistent(E, L, c, an, aR, aD, aL, wR, z, wL)
    BY ONLY <1>9, <2>3, <2>4, Consistent(D, L, c, an, aR, aD, aL, wR, wD, wL), z \in Seq(Units),
            wD \in Seq(Plain) => z \in Seq(Plain), DialerStays
  <2> QED
    BY <1>6, <2>1, <2>5
<1>10. CASE Starts(E, D, A) /\ st.out = SyncF
  <2>1. Starts(E, D, L.addrs) /\ v = Sent(c, wL, SyncF)
    BY <1>7, <1>10
  <2>2. Consistent(E, L, c, an, aR, aD, aL, wR, z, v)
    BY ONLY <1>5, <2>1, D.at = "dcutr", Consistent(D, L, c, an, aR, aD, aL, wR, wD, wL), z \in Seq(Units),
            wD \in Seq(Plain) => z \in Seq(Plain), DialerSyncs
  <2> QED
    BY <1>6, <2>2
<1> QED
  BY <1>8, <1>9, <1>10

\* run_listen keeps its place and has read more.
LEMMA ListenerStays ==
    ASSUME NEW D, NEW L, NEW c, NEW an, NEW aR, NEW aD, NEW aL, NEW wR, NEW wD, NEW wL,
           Consistent(D, L, c, an, aR, aD, aL, wR, wD, wL),
           NEW F, Goes(F, L, L.at), L.at \in {"stop", "dcutr"},
           NEW z \in Seq(Units), wL \in Seq(Clear) => z \in Seq(Clear),
           Offering(F, c, an, aL, z), Responding(D, F, c, an, aL, z)
    PROVE  Consistent(D, F, c, an, aR, aD, aL, wR, wD, z)
<1>1. /\ c \in {"none", "reserved", "offered", "bridged", "closed"} /\ an \in BOOLEAN
      /\ Reserving(L, c, aR, wR) /\ Offering(L, c, an, aL, wL)
      /\ Asking(D, L, c, aD, wD) /\ Initiating(D, L, c, wD) /\ Responding(D, L, c, an, aL, wL)
      /\ Following(D, L, c) /\ Meaning(D, L, c, wD, wL) /\ Typed(D, L)
  BY Zenon DEF Consistent
<1>2. /\ IsScript(F) /\ F.at = L.at /\ F.attempt = L.attempt /\ F.addrs = L.addrs
      /\ F.remote = L.remote /\ F.result = L.result
  BY Zenon DEF Goes
<1>3. Typed(D, F) /\ Following(D, F, c)
  BY <1>1, <1>2 DEF Typed, TypedScript, Following
<1>4. Meaning(D, F, c, wD, z)
  BY <1>1, <1>2 DEF Meaning
<1>5. Reserving(F, c, aR, wR)
  BY <1>1, <1>2 DEF Reserving, Early
<1>6. Gone(c, F) = Gone(c, L)
  BY <1>2 DEF Gone
<1>7. Asking(D, F, c, aD, wD)
  BY <1>1, <1>6 DEF Asking
<1>8. Initiating(D, F, c, wD)
  <2>1. PICK g : g = Gone(c, L)
    OBVIOUS
  <2>2. AwaitsReply(D, L, wD, g) => AwaitsReply(D, F, wD, g)
    BY <1>2 DEF AwaitsReply
  <2> QED
    BY <1>1, <1>2, <1>6, <2>1, <2>2 DEF Initiating
<1> QED
  BY <1>1, <1>3, <1>4, <1>5, <1>7, <1>8 DEF Consistent

\* run_listen accepts STOP CONNECT.
LEMMA ListenerAccepts ==
    ASSUME NEW D, NEW L, NEW c, NEW an, NEW aR, NEW aD, NEW aL, NEW wR, NEW wD, NEW wL,
           Consistent(D, L, c, an, aR, aD, aL, wR, wD, wL),
           L.at = "stop", NEW F, Goes(F, L, "dcutr"), NEW z \in Seq(Units), wL \in Seq(Clear) => z \in Seq(Clear),
           Awaits("connect", F, z, << >>, FALSE)
    PROVE  Consistent(D, F, c, an, aR, aD, StatusF("Ok"), wR, wD, z)
<1>1. /\ c \in {"none", "reserved", "offered", "bridged", "closed"} /\ an \in BOOLEAN
      /\ Reserving(L, c, aR, wR) /\ Offering(L, c, an, aL, wL)
      /\ Asking(D, L, c, aD, wD) /\ Initiating(D, L, c, wD) /\ Responding(D, L, c, an, aL, wL)
      /\ Following(D, L, c) /\ Meaning(D, L, c, wD, wL) /\ Typed(D, L)
  BY Zenon DEF Consistent
<1>2. /\ IsScript(F) /\ F.at = "dcutr" /\ F.attempt = L.attempt /\ F.addrs = L.addrs
      /\ F.remote = L.remote /\ F.result = L.result
  BY Zenon DEF Goes
<1>3. c = "offered" /\ an /\ F.remote = None
  BY <1>1, <1>2 DEF Offering, Typed
<1>4. Typed(D, F)
  BY <1>1, <1>2 DEF Typed, TypedScript, Early
<1>5. Following(D, F, c)
  BY <1>2 DEF Following, Later
<1>6. Meaning(D, F, c, wD, z)
  BY <1>1, <1>2 DEF Meaning
<1>7. Reserving(F, c, aR, wR)
  BY <1>1, <1>2 DEF Reserving, Early
<1>8. Offering(F, c, an, StatusF("Ok"), z)
  BY <1>2, <1>3 DEF Offering
<1>9. Asking(D, F, c, aD, wD) /\ Initiating(D, F, c, wD)
  BY <1>1, <1>3 DEF Asking, AwaitsHop, Initiating, OnceBridged
<1>10. Responding(D, F, c, an, StatusF("Ok"), z)
  BY <1>3 DEF Responding
<1> QED
  BY <1>1, <1>4, <1>5, <1>6, <1>7, <1>8, <1>9, <1>10 DEF Consistent

\* Data for the wait for STOP CONNECT.
LEMMA StopStreamData ==
    ASSUME NEW D, NEW L, NEW c, NEW an, NEW aR, NEW aD, NEW aL, NEW wR, NEW wD, NEW wL,
           Consistent(D, L, c, an, aR, aD, aL, wR, wD, wL),
           L.at = "stop", NEW a, NEW z \in Seq(Units), wL \in Seq(Clear) => z \in Seq(Clear),
           Takes(wL, a, z), NEW st, st = ListenerStop(L, a), NEW F, F = st.script,
           NEW b, b = Asks(c, aL, st.out), NEW v, v = Sent(c, wD, st.out)
    PROVE  Consistent(D, F, c, an, aR, aD, b, wR, v, z)
<1>1. /\ c \in {"none", "reserved", "offered", "bridged", "closed"} /\ an \in BOOLEAN
      /\ Reserving(L, c, aR, wR) /\ Offering(L, c, an, aL, wL)
      /\ Asking(D, L, c, aD, wD) /\ Initiating(D, L, c, wD) /\ Responding(D, L, c, an, aL, wL)
      /\ Following(D, L, c) /\ Meaning(D, L, c, wD, wL) /\ Typed(D, L)
  BY Zenon DEF Consistent
<1>2. wL \in Seq(Units) /\ IsScript(L)
  BY <1>1 DEF Meaning, Typed, TypedScript
<1>3. c = "offered" /\ an /\ aL = << >> /\ Awaits("stop", L, wL, StopF, FALSE)
  BY <1>1 DEF Offering
<1>4. v = wD /\ b = aL \o st.out
  BY <1>3 DEF Sent, Asks, OnceBridged
<1>5. \/ Goes(st.script, L, L.at) /\ Awaits("stop", st.script, z, StopF, FALSE) /\ st.out = << >>
      \/ /\ Goes(st.script, L, "dcutr") /\ st.out = StatusF("Ok")
         /\ Awaits("connect", st.script, z, << >>, FALSE)
  BY ONLY <1>2, <1>3, Takes(wL, a, z), st = ListenerStop(L, a), StopReads
<1>6. CASE Goes(F, L, L.at) /\ Awaits("stop", F, z, StopF, FALSE) /\ st.out = << >>
  <2>1. b = aL
    BY <1>3, <1>4, <1>6, SmallSeqs, Alone
  <2>2. F.at = "stop"
    BY <1>6 DEF Goes
  <2>3. Offering(F, c, an, aL, z) /\ Responding(D, F, c, an, aL, z)
    BY <1>3, <1>6, <2>2 DEF Offering, Responding
  <2>4. Consistent(D, F, c, an, aR, aD, aL, wR, wD, z)
    BY ONLY <1>6, <2>3, L.at = "stop", Consistent(D, L, c, an, aR, aD, aL, wR, wD, wL), z \in Seq(Units),
            wL \in Seq(Clear) => z \in Seq(Clear), ListenerStays
  <2> QED
    BY <1>4, <2>1, <2>4
<1>7. CASE Goes(F, L, "dcutr") /\ st.out = StatusF("Ok") /\ Awaits("connect", F, z, << >>, FALSE)
  <2>1. b = StatusF("Ok")
    <3>1. PICK e : e = StatusF("Ok")
      OBVIOUS
    <3>2. e \in Seq(Units) /\ b = << >> \o e
      BY <1>1, <1>3, <1>4, <1>7, <3>1, BridgeFrames, UnitSeqs DEF Statuses
    <3> QED
      BY <3>1, <3>2, Alone
  <2>2. Consistent(D, F, c, an, aR, aD, StatusF("Ok"), wR, wD, z)
    BY ONLY <1>7, L.at = "stop", Consistent(D, L, c, an, aR, aD, aL, wR, wD, wL), z \in Seq(Units),
            wL \in Seq(Clear) => z \in Seq(Clear), ListenerAccepts
  <2> QED
    BY <1>4, <2>1, <2>2
<1> QED
  BY <1>5, <1>6, <1>7

\* run_listen has CONNECT and replies.
LEMMA ListenerReplies ==
    ASSUME NEW D, NEW L, NEW c, NEW an, NEW aR, NEW aD, NEW aL, NEW wR, NEW wD, NEW wL,
           Consistent(D, L, c, an, aR, aD, aL, wR, wD, wL),
           L.at = "dcutr", L.remote = None, c \in OnceBridged, D.at \in Past \cup {"dcutr"},
           Gone(c, D) \/ D.at = "dcutr", NEW F, Replies(F, L, D.addrs),
           NEW z \in Seq(Units), wL \in Seq(Clear) => z \in Seq(Clear), Awaits("sync", F, z, << >>, Gone(c, D)),
           NEW v, v = Sent(c, wD, ConnectF(L.addrs))
    PROVE  Consistent(D, F, c, an, aR, aD, aL, wR, v, z)
<1>1. /\ c \in {"none", "reserved", "offered", "bridged", "closed"} /\ an \in BOOLEAN
      /\ Reserving(L, c, aR, wR) /\ Offering(L, c, an, aL, wL)
      /\ Asking(D, L, c, aD, wD) /\ Initiating(D, L, c, wD) /\ Responding(D, L, c, an, aL, wL)
      /\ Following(D, L, c) /\ Meaning(D, L, c, wD, wL) /\ Typed(D, L)
  BY Zenon DEF Consistent
<1>2. /\ IsScript(F) /\ F.at = "dcutr" /\ F.attempt = L.attempt /\ F.addrs = L.addrs
      /\ F.remote = D.addrs /\ F.result = L.result
  BY DEF Replies
<1>3. D.addrs \in SUBSET {"Dialer"} /\ D.addrs # None /\ D.addrs \in SUBSET Sides
  <2>1. D.addrs \in SUBSET {"Dialer"}
    BY <1>1 DEF Typed, TypedScript
  <2>2. D.addrs \in SUBSET {"Dialer", "Listener"}
    BY <2>1
  <2> QED
    BY <2>1, <2>2, AbsentAssumption DEF Sides
<1>4. Typed(D, F)
  BY <1>1, <1>2, <1>3 DEF Typed, TypedScript, Early, Other
<1>5. Following(D, F, c)
  BY <1>2 DEF Following, Later
<1>6. Reserving(F, c, aR, wR) /\ Offering(F, c, an, aL, z)
  BY <1>1, <1>2 DEF Reserving, Offering, Early, OnceBridged
<1>7. wD \in Seq(Units)
  BY <1>1 DEF Meaning
<1>8. PICK e : e = ConnectF(L.addrs)
  OBVIOUS
<1>9. e \in Seq(Clear) /\ e \in Seq(Units) /\ e \in Seq(Plain)
  BY <1>1, <1>8, BridgeFrames, UnitSeqs
<1>10. v \in Seq(Units) /\ (wD \in Seq(Plain) => v \in Seq(Plain))
  <2>1. CASE c = "bridged"
    <3>1. v = wD \o e
      BY <1>8, <2>1 DEF Sent
    <3>2. v \in Seq(Units)
      BY ONLY <1>7, <1>9, <3>1, Joins
    <3>3. wD \in Seq(Plain) => v \in Seq(Plain)
      BY ONLY <1>9, <3>1, Joins
    <3> QED
      BY <3>2, <3>3
  <2>2. CASE c # "bridged"
    BY <1>7, <2>2 DEF Sent
  <2> QED
    BY <2>1, <2>2
<1>11. Meaning(D, F, c, v, z)
  BY <1>1, <1>2, <1>10 DEF Meaning
<1>12. Asking(D, F, c, aD, v)
  BY <1>1 DEF Asking, Past, Early
<1>13. Responding(D, F, c, an, aL, z)
  BY <1>1, <1>2 DEF Responding, AwaitsSync
<1>14. Initiating(D, F, c, v)
  <2>1. ASSUME D.at = "dcutr" PROVE AwaitsReply(D, F, v, Gone(c, F))
    <3>1. PICK g \in BOOLEAN : g = Gone(c, L)
      BY DEF Gone
    <3>2. Gone(c, F) = g /\ g = (c = "closed")
      BY <1>2, <3>1 DEF Gone
    <3>3. Awaits("reply", D, wD, << >>, g)
      BY <1>1, <2>1, <3>1 DEF Initiating, AwaitsReply
    <3>4. CASE c = "closed"
      <4>1. v = wD
        BY <3>4 DEF Sent
      <4> QED
        BY <3>2, <3>3, <4>1 DEF AwaitsReply
    <3>5. CASE c = "bridged"
      <4>1. v = wD \o e /\ Awaits("reply", D, wD, << >>, FALSE)
        BY <1>8, <3>2, <3>3, <3>5 DEF Sent
      <4>2. Awaits("reply", D, v, e, FALSE)
        BY ONLY <1>7, <1>9, <4>1, AwaitsFirst
      <4> QED
        BY <1>2, <1>3, <1>8, <3>2, <3>5, <4>2 DEF AwaitsReply
    <3> QED
      BY <3>4, <3>5 DEF OnceBridged
  <2> QED
    BY <1>1, <1>2, <2>1 DEF Initiating
<1> QED
  BY <1>1, <1>4, <1>5, <1>6, <1>11, <1>12, <1>13, <1>14 DEF Consistent

\* run_listen has SYNC and punches.
LEMMA ListenerSyncs ==
    ASSUME NEW D, NEW L, NEW c, NEW an, NEW aR, NEW aD, NEW aL, NEW wR, NEW wD, NEW wL,
           Consistent(D, L, c, an, aR, aD, aL, wR, wD, wL),
           L.at = "dcutr", L.remote = D.addrs, c \in OnceBridged, D.at \in Past, D.remote = L.addrs,
           NEW F, Starts(F, L, L.remote), NEW z \in Seq(Units), wL \in Seq(Clear) => z \in Seq(Clear)
    PROVE  Consistent(D, F, c, an, aR, aD, aL, wR, wD, z)
<1>1. /\ c \in {"none", "reserved", "offered", "bridged", "closed"} /\ an \in BOOLEAN
      /\ Reserving(L, c, aR, wR) /\ Offering(L, c, an, aL, wL)
      /\ Asking(D, L, c, aD, wD) /\ Initiating(D, L, c, wD) /\ Responding(D, L, c, an, aL, wL)
      /\ Following(D, L, c) /\ Meaning(D, L, c, wD, wL) /\ Typed(D, L)
  BY Zenon DEF Consistent
<1>2. /\ IsScript(F) /\ F.at = "punch" /\ F.attempt = L.attempt /\ F.addrs = L.addrs
      /\ F.remote = D.addrs /\ F.result = L.result
  BY DEF Starts
<1>3. Typed(D, F)
  BY <1>1, <1>2 DEF Typed, TypedScript, Early, Later
<1>4. Following(D, F, c)
  BY <1>2 DEF Following
<1>5. Reserving(F, c, aR, wR) /\ Offering(F, c, an, aL, z)
  BY <1>1, <1>2 DEF Reserving, Offering, Early, OnceBridged
<1>6. Meaning(D, F, c, wD, z)
  BY <1>1, <1>2 DEF Meaning
<1>7. Asking(D, F, c, aD, wD)
  BY <1>1 DEF Asking, Past, Early
<1>8. Initiating(D, F, c, wD)
  BY <1>2 DEF Initiating, Past
<1>9. Responding(D, F, c, an, aL, z)
  BY <1>2 DEF Responding
<1> QED
  BY <1>1, <1>3, <1>4, <1>5, <1>6, <1>7, <1>8, <1>9 DEF Consistent

\* Data for the listener's DCUtR.
LEMMA DcutrData ==
    ASSUME NEW D, NEW L, NEW c, NEW an, NEW aR, NEW aD, NEW aL, NEW wR, NEW wD, NEW wL,
           Consistent(D, L, c, an, aR, aD, aL, wR, wD, wL),
           L.at = "dcutr", NEW a, NEW z \in Seq(Units), wL \in Seq(Clear) => z \in Seq(Clear),
           Takes(wL, a, z), NEW st, st = ListenerDcutr(L, a), NEW F, F = st.script,
           NEW b, b = Asks(c, aL, st.out), NEW v, v = Sent(c, wD, st.out)
    PROVE  Consistent(D, F, c, an, aR, aD, b, wR, v, z)
<1>1. /\ c \in {"none", "reserved", "offered", "bridged", "closed"} /\ an \in BOOLEAN
      /\ Reserving(L, c, aR, wR) /\ Offering(L, c, an, aL, wL)
      /\ Asking(D, L, c, aD, wD) /\ Initiating(D, L, c, wD) /\ Responding(D, L, c, an, aL, wL)
      /\ Following(D, L, c) /\ Meaning(D, L, c, wD, wL) /\ Typed(D, L)
  BY Zenon DEF Consistent
<1>2. wL \in Seq(Units) /\ wD \in Seq(Units) /\ IsScript(L)
  BY <1>1 DEF Meaning, Typed, TypedScript
<1>3. D.addrs \in SUBSET Sides /\ L.addrs \in SUBSET Sides
  BY <1>1, BridgeFrames
<1>4. \A wait : \A g \in BOOLEAN : ~Awaits(wait, L, wL, << >>, g)
  BY ONLY <1>2, Takes(wL, a, z), NothingTaken
<1>5. PICK g \in BOOLEAN : g = Gone(c, D)
  BY DEF Gone
<1>6. /\ an /\ c \in OnceBridged
      /\ \/ L.remote = None /\ AwaitsConnect(D, L, wL, g)
         \/ L.remote = D.addrs /\ D.at \in Past \cup {"dcutr"} /\ AwaitsSync(D, L, wL, g)
  BY <1>1, <1>4, <1>5 DEF Responding
<1>7. b = aL /\ (st.out = << >> => v = wD)
  BY <1>2, <1>6, NothingWritten DEF Asks
<1>8. ASSUME Goes(F, L, L.at), st.out = << >>,
             \/ L.remote = None /\ AwaitsConnect(D, F, z, g)
             \/ L.remote = D.addrs /\ D.at \in Past \cup {"dcutr"} /\ AwaitsSync(D, F, z, g)
      PROVE  Consistent(D, F, c, an, aR, aD, b, wR, v, z)
  <2>1. F.at = "dcutr" /\ F.remote = L.remote
    BY <1>8 DEF Goes
  <2>2. Responding(D, F, c, an, aL, z)
    BY <1>5, <1>6, <1>8, <2>1 DEF Responding
  <2>3. Offering(F, c, an, aL, z)
    BY <1>1, <1>6, <2>1 DEF Offering, OnceBridged
  <2>4. Consistent(D, F, c, an, aR, aD, aL, wR, wD, z)
    BY ONLY <1>8, <2>2, <2>3, L.at = "dcutr", Consistent(D, L, c, an, aR, aD, aL, wR, wD, wL),
            z \in Seq(Units), wL \in Seq(Clear) => z \in Seq(Clear), ListenerStays
  <2> QED
    BY <1>7, <1>8, <2>4
<1>9. CASE L.remote = None /\ AwaitsConnect(D, L, wL, g)
  <2>1. /\ Awaits("connect", L, wL, ConnectF(D.addrs), g)
        /\ D.at \in Past \cup {"dcutr"} /\ (g \/ D.at = "dcutr")
    BY <1>4, <1>9 DEF AwaitsConnect
  <2>2. PICK A \in SUBSET Sides : A = D.addrs
    BY <1>3
  <2>3. Awaits("connect", L, wL, ConnectF(A), g)
    BY <2>1, <2>2
  <2>4. \/ Goes(st.script, L, L.at) /\ Awaits("connect", st.script, z, ConnectF(A), g) /\ st.out = << >>
        \/ /\ Replies(st.script, L, A) /\ Awaits("sync", st.script, z, << >>, g)
           /\ st.out = ConnectF(L.addrs)
    BY ONLY <1>2, <1>3, <2>3, A \in SUBSET Sides, g \in BOOLEAN, Takes(wL, a, z), st = ListenerDcutr(L, a),
            ConnectReads
  <2>5. CASE Goes(F, L, L.at) /\ Awaits("connect", F, z, ConnectF(A), g) /\ st.out = << >>
    BY <1>8, <1>9, <2>1, <2>2, <2>5 DEF AwaitsConnect
  <2>6. CASE Replies(F, L, A) /\ Awaits("sync", F, z, << >>, g) /\ st.out = ConnectF(L.addrs)
    <3>1. /\ Replies(F, L, D.addrs) /\ Awaits("sync", F, z, << >>, Gone(c, D))
          /\ Gone(c, D) \/ D.at = "dcutr"
          /\ v = Sent(c, wD, ConnectF(L.addrs))
      BY <1>5, <2>1, <2>2, <2>6
    <3>2. Consistent(D, F, c, an, aR, aD, aL, wR, v, z)
      BY ONLY <1>6, <1>9, <2>1, <3>1, L.at = "dcutr", Consistent(D, L, c, an, aR, aD, aL, wR, wD, wL),
              z \in Seq(Units), wL \in Seq(Clear) => z \in Seq(Clear), ListenerReplies
    <3> QED
      BY <1>7, <3>2
  <2> QED
    BY <2>4, <2>5, <2>6
<1>10. CASE L.remote = D.addrs /\ D.at \in Past \cup {"dcutr"} /\ AwaitsSync(D, L, wL, g)
  <2>1. L.remote # None
    BY <1>3, <1>10, AbsentAssumption DEF Sides
  <2>2. \E after \in {<< >>, Payload} :
          /\ Awaits("sync", L, wL, SyncF \o after, g) /\ D.at \in Past /\ D.remote = L.addrs
          /\ \A y : Awaits("sync", F, y, SyncF \o after, g) /\ F.addrs = L.addrs => AwaitsSync(D, F, y, g)
    <3>1. SyncF \o << >> = SyncF
      BY <1>1, BridgeFrames, UnitSeqs, Alone
    <3>2. CASE /\ Awaits("sync", L, wL, SyncF, g) /\ D.at \in Past /\ D.remote = L.addrs
               /\ g \/ D.at \in {"punch", "connected", "ping"}
      BY <3>1, <3>2 DEF AwaitsSync
    <3>3. CASE /\ Awaits("sync", L, wL, SyncF \o Payload, g) /\ D.at \in Past /\ D.remote = L.addrs
               /\ g \/ D.at = "echo"
      BY <3>3 DEF AwaitsSync
    <3> QED
      BY <1>4, <1>10, <3>2, <3>3 DEF AwaitsSync
  <2>3. PICK after \in {<< >>, Payload} :
          /\ Awaits("sync", L, wL, SyncF \o after, g) /\ D.at \in Past /\ D.remote = L.addrs
          /\ \A y : Awaits("sync", F, y, SyncF \o after, g) /\ F.addrs = L.addrs => AwaitsSync(D, F, y, g)
    BY <2>2
  <2>4. PICK x : x = SyncF \o after
    OBVIOUS
  <2>5. Awaits("sync", L, wL, x, g)
    BY <2>3, <2>4
  <2>6. \/ Goes(st.script, L, L.at) /\ Awaits("sync", st.script, z, x, g) /\ st.out = << >>
        \/ Starts(st.script, L, L.remote) /\ st.out = << >>
    BY ONLY <1>2, <2>1, <2>4, <2>5, after \in {<< >>, Payload}, g \in BOOLEAN, Takes(wL, a, z),
            st = ListenerDcutr(L, a), SyncReads
  <2>7. CASE Goes(F, L, L.at) /\ Awaits("sync", F, z, x, g) /\ st.out = << >>
    <3>1. F.addrs = L.addrs
      BY <2>7 DEF Goes
    <3>2. AwaitsSync(D, F, z, g)
      BY <2>3, <2>4, <2>7, <3>1
    <3> QED
      BY <1>8, <1>10, <2>7, <3>2
  <2>8. CASE Starts(F, L, L.remote) /\ st.out = << >>
    <3>1. Consistent(D, F, c, an, aR, aD, aL, wR, wD, z)
      BY ONLY <1>6, <1>10, <2>3, <2>8, L.at = "dcutr", Consistent(D, L, c, an, aR, aD, aL, wR, wD, wL),
              z \in Seq(Units), wL \in Seq(Clear) => z \in Seq(Clear), ListenerSyncs
    <3> QED
      BY <1>7, <2>8, <3>1
  <2> QED
    BY <2>6, <2>7, <2>8
<1> QED
  BY <1>6, <1>9, <1>10

-----------------------------------------------------------------------------
(* The inductive invariant, and the steps.                                 *)

Phases == {"none", "dialed", "seen", "half", "both", "closed"}

Shaped ==
    /\ script = [s \in Sides |-> script[s]]
    /\ asked = [x \in Streams |-> asked[x]]
    /\ wire = [x \in Streams |-> wire[x]]

Direct ==
    /\ now \in Nat
    /\ conn \in [Sides -> Phases]
    /\ current \in [Sides -> Sides \cup {None}]
    /\ pinging \in [Sides -> Sides \cup {None}]

Talk ==
    Consistent(script["Dialer"], script["Listener"], circuit, announced,
               asked["Reserve"], asked["Dialer"], asked["Listener"],
               wire["Reserve"], wire["Dialer"], wire["Listener"])

HolePunchInv == Shaped /\ Direct /\ Talk

\* The arguments of Consistent.
Parts(D, L, aR, aD, aL, wR, wD, wL) ==
    /\ script["Dialer"] = D /\ script["Listener"] = L
    /\ asked["Reserve"] = aR /\ asked["Dialer"] = aD /\ asked["Listener"] = aL
    /\ wire["Reserve"] = wR /\ wire["Dialer"] = wD /\ wire["Listener"] = wL

\* Talk, with names for them.
LEMMA TalkIs ==
    ASSUME Talk
    PROVE  \E D, L, aR, aD, aL, wR, wD, wL :
             /\ Parts(D, L, aR, aD, aL, wR, wD, wL)
             /\ Consistent(D, L, circuit, announced, aR, aD, aL, wR, wD, wL)
<1>1. PICK D, L, aR, aD, aL, wR, wD, wL : Parts(D, L, aR, aD, aL, wR, wD, wL)
  BY Zenon DEF Parts
<1>2. Consistent(D, L, circuit, announced, aR, aD, aL, wR, wD, wL)
  BY <1>1, Zenon DEF Parts, Talk
<1> QED
  BY <1>1, <1>2

\* The streams and the scripts.
LEMMA NamesAre ==
    /\ Sides = {"Dialer", "Listener"} /\ Streams = {"Dialer", "Reserve", "Listener"}
    /\ Other("Dialer") = "Listener" /\ Other("Listener") = "Dialer"
BY DEF Sides, Streams, Other

\* The initial state.
LEMMA InitHolds == Init => HolePunchInv
<1> SUFFICES ASSUME Init PROVE HolePunchInv
  OBVIOUS
<1>1. Shaped /\ Direct
  BY DEF Init, Shaped, Direct, Phases, Sides, Streams
<1>2. PICK D, L, e : D = NewScript("Dialer") /\ L = NewScript("Listener") /\ e = << >>
  OBVIOUS
<1>3. /\ D.at = "relay" /\ L.at = "relay" /\ D.result = None /\ L.result = None /\ L.remote = None
      /\ TypedScript(D, "Dialer") /\ TypedScript(L, "Listener")
  <2>1. RelayReadyAttempts \in Nat /\ RelayReadyAttempts >= 1
    BY HolePunchAssumption
  <2> QED
    BY <1>2, <2>1 DEF NewScript, TypedScript, IsScript, Results
<1>4. e = << >> /\ e \in Seq(Clear) /\ e \in Seq(Units) /\ e \in Seq(Plain)
  BY <1>2, SmallSeqs
<1>5. Typed(D, L) /\ Meaning(D, L, "none", e, e)
  BY <1>3, <1>4, AbsentAssumption DEF Typed, Meaning, Early
<1>6. Reserving(L, "none", e, e) /\ Offering(L, "none", FALSE, e, e)
  BY <1>3, <1>4 DEF Reserving, Offering, Early
<1>7. Asking(D, L, "none", e, e) /\ Initiating(D, L, "none", e)
  BY <1>3, <1>4 DEF Asking, Initiating, Early, Past
<1>8. Responding(D, L, "none", FALSE, e, e) /\ Following(D, L, "none")
  BY <1>3 DEF Responding, Following, Later
<1>9. Consistent(D, L, "none", FALSE, e, e, e, e, e, e)
  BY <1>5, <1>6, <1>7, <1>8 DEF Consistent
<1>10. /\ script["Dialer"] = D /\ script["Listener"] = L /\ circuit = "none" /\ announced = FALSE
       /\ asked["Reserve"] = e /\ asked["Dialer"] = e /\ asked["Listener"] = e
       /\ wire["Reserve"] = e /\ wire["Dialer"] = e /\ wire["Listener"] = e
  BY <1>2 DEF Init, Sides, Streams
<1>11. Talk
  BY <1>9, <1>10, Zenon DEF Talk
<1> QED
  BY <1>1, <1>11 DEF HolePunchInv

\* A step that leaves the scripts and the streams alone.
LEMMA TalkStays ==
    ASSUME Shaped, Talk, UNCHANGED <<script, circuit, announced, asked, wire>>
    PROVE  Shaped' /\ Talk'
BY DEF Shaped, Talk

\* A step of a script that writes nothing.
LEMMA ScriptMoves ==
    ASSUME Shaped, NEW s \in Sides, NEW sc, script' = [script EXCEPT ![s] = sc],
           UNCHANGED <<asked, wire>>
    PROVE  Shaped' /\ script'[s] = sc /\ script'[Other(s)] = script[Other(s)]
BY DEF Shaped, Sides, Other

\* The clock, and the direct connections.
LEMMA TickHolds == HolePunchInv /\ Tick => HolePunchInv'
<1> SUFFICES ASSUME HolePunchInv, Tick PROVE HolePunchInv'
  OBVIOUS
<1>1. Shaped' /\ Talk'
  BY TalkStays DEF HolePunchInv, Tick
<1>2. Direct'
  BY DEF HolePunchInv, Direct, Tick, direct
<1> QED
  BY <1>1, <1>2 DEF HolePunchInv

\* The dialed peer sees a first packet.
LEMMA InitialArrivesHolds == ASSUME HolePunchInv, NEW s \in Sides, InitialArrives(s) PROVE HolePunchInv'
<1>1. Shaped' /\ Talk'
  BY TalkStays DEF HolePunchInv, InitialArrives, network
<1>2. Direct'
  BY DEF HolePunchInv, Direct, InitialArrives, Phases
<1> QED
  BY <1>1, <1>2 DEF HolePunchInv

\* A direct connection is reported closed.
LEMMA ConnectionClosedHolds == ASSUME HolePunchInv, NEW s \in Sides, ConnectionClosed(s) PROVE HolePunchInv'
<1>1. Shaped' /\ Talk'
  BY TalkStays DEF HolePunchInv, ConnectionClosed, network
<1>2. Direct'
  BY DEF HolePunchInv, Direct, ConnectionClosed
<1> QED
  BY <1>1, <1>2 DEF HolePunchInv

\* A step of run_dial that writes nothing.
LEMMA DialerStep ==
    ASSUME Shaped, NEW D, NEW L, NEW aR, NEW aD, NEW aL, NEW wR, NEW wD, NEW wL,
           Parts(D, L, aR, aD, aL, wR, wD, wL),
           NEW E, script' = [script EXCEPT !["Dialer"] = E], UNCHANGED <<circuit, announced, asked, wire>>,
           Consistent(E, L, circuit, announced, aR, aD, aL, wR, wD, wL)
    PROVE  Shaped' /\ Talk'
<1>1. Shaped' /\ script'["Dialer"] = E /\ script'["Listener"] = L
  BY DEF Shaped, Sides, Parts
<1>2. Talk'
  BY <1>1 DEF Talk, Parts
<1> QED
  BY <1>1, <1>2

\* A step of run_listen that writes nothing.
LEMMA ListenerStep ==
    ASSUME Shaped, NEW D, NEW L, NEW aR, NEW aD, NEW aL, NEW wR, NEW wD, NEW wL,
           Parts(D, L, aR, aD, aL, wR, wD, wL),
           NEW F, script' = [script EXCEPT !["Listener"] = F], UNCHANGED <<circuit, announced, asked, wire>>,
           Consistent(D, F, circuit, announced, aR, aD, aL, wR, wD, wL)
    PROVE  Shaped' /\ Talk'
<1>1. Shaped' /\ script'["Dialer"] = D /\ script'["Listener"] = F
  BY DEF Shaped, Sides, Parts
<1>2. Talk'
  BY <1>1 DEF Talk, Parts
<1> QED
  BY <1>1, <1>2

\* What a script's own part says of it.
LEMMA ScriptTyped ==
    ASSUME Talk, NEW s \in Sides
    PROVE  /\ TypedScript(script[s], s)
           /\ s = "Dialer" => script[s].at \in Early \cup {"hop", "dcutr"} \cup Past
           /\ s = "Listener" =>
                /\ script[s].at \in Early \cup {"reserve", "inbound", "stop", "dcutr", "ended"} \cup Later
                /\ script[s].at \in Early \cup {"reserve", "inbound", "stop"} => script[s].remote = None
<1>1. Typed(script["Dialer"], script["Listener"])
  BY DEF Talk, Consistent
<1> QED
  BY <1>1 DEF Typed, Sides

\* A script that has not asked for anything yet goes on.
LEMMA EarlyHolds ==
    ASSUME Shaped, Talk, NEW s \in Sides, script[s].at \in Early, NEW sc, sc.at \in Early,
           TypedScript(sc, s), sc.remote = script[s].remote, script' = [script EXCEPT ![s] = sc],
           UNCHANGED <<circuit, announced, asked, wire>>
    PROVE  Shaped' /\ Talk'
<1>1. PICK D, L, aR, aD, aL, wR, wD, wL :
             /\ Parts(D, L, aR, aD, aL, wR, wD, wL)
             /\ Consistent(D, L, circuit, announced, aR, aD, aL, wR, wD, wL)
  BY TalkIs
<1>2. CASE s = "Dialer"
  <2>1. D.at \in Early /\ TypedScript(sc, "Dialer")
    BY <1>1, <1>2 DEF Parts
  <2>2. Consistent(sc, L, circuit, announced, aR, aD, aL, wR, wD, wL)
    BY ONLY <1>1, <2>1, sc.at \in Early, DialerEarly
  <2>3. script' = [script EXCEPT !["Dialer"] = sc]
    BY <1>2
  <2> QED
    BY ONLY Shaped, <1>1, <2>2, <2>3, UNCHANGED <<circuit, announced, asked, wire>>, DialerStep
<1>3. CASE s = "Listener"
  <2>1. L.at \in Early /\ TypedScript(sc, "Listener") /\ sc.remote = None
    BY <1>1, <1>3, ScriptTyped DEF Parts
  <2>2. Consistent(D, sc, circuit, announced, aR, aD, aL, wR, wD, wL)
    BY ONLY <1>1, <2>1, sc.at \in Early, ListenerEarly
  <2>3. script' = [script EXCEPT !["Listener"] = sc]
    BY <1>3
  <2> QED
    BY ONLY Shaped, <1>1, <2>2, <2>3, UNCHANGED <<circuit, announced, asked, wire>>, ListenerStep
<1> QED
  BY <1>2, <1>3 DEF Sides

\* A script ends with a result that says nothing of the other.
LEMMA EndsHolds ==
    ASSUME Shaped, Talk, NEW s \in Sides, script[s].at # "ended", NEW result,
           result \in {"no-hop", "refused", "deadline", "silence", "not-connected"},
           NEW sc, Finishes(sc, script[s], result), script' = [script EXCEPT ![s] = sc],
           UNCHANGED <<circuit, announced, asked, wire>>
    PROVE  Shaped' /\ Talk'
<1>1. PICK D, L, aR, aD, aL, wR, wD, wL :
             /\ Parts(D, L, aR, aD, aL, wR, wD, wL)
             /\ Consistent(D, L, circuit, announced, aR, aD, aL, wR, wD, wL)
  BY TalkIs
<1>a. /\ result \in Results \ {None, "protocol"} /\ result # "ping-via-relay" /\ result # "bridge-closed"
  BY AbsentAssumption DEF Results
<1>2. CASE s = "Dialer"
  <2>1. D.at # "ended" /\ Finishes(sc, D, result)
    BY <1>1, <1>2 DEF Parts
  <2>2. Consistent(sc, L, circuit, announced, aR, aD, aL, wR, wD, wL)
    BY ONLY <1>1, <1>a, <2>1, DialerEnds
  <2>3. script' = [script EXCEPT !["Dialer"] = sc]
    BY <1>2
  <2> QED
    BY ONLY Shaped, <1>1, <2>2, <2>3, UNCHANGED <<circuit, announced, asked, wire>>, DialerStep
<1>3. CASE s = "Listener"
  <2>1. L.at # "ended" /\ Finishes(sc, L, result)
    BY <1>1, <1>3 DEF Parts
  <2>2. Consistent(D, sc, circuit, announced, aR, aD, aL, wR, wD, wL)
    BY ONLY <1>1, <1>a, <2>1, ListenerEnds
  <2>3. script' = [script EXCEPT !["Listener"] = sc]
    BY <1>3
  <2> QED
    BY ONLY Shaped, <1>1, <2>2, <2>3, UNCHANGED <<circuit, announced, asked, wire>>, ListenerStep
<1> QED
  BY <1>2, <1>3 DEF Sides

\* prepare_relay.
LEMMA RelayAdvertisesHolds == ASSUME HolePunchInv, NEW s \in Sides, RelayAdvertises(s) PROVE HolePunchInv'
<1>0. Shaped /\ Talk
  BY DEF HolePunchInv
<1>1. PICK sc : sc = script[s]
  OBVIOUS
<1>2. /\ TypedScript(sc, s) /\ IsScript(sc) /\ sc.at = "relay" /\ sc.result = None
      /\ sc.attempt \in 1 .. RelayReadyAttempts /\ RelayReadyAttempts \in Nat
  BY <1>0, <1>1, ScriptTyped, HolePunchAssumption DEF RelayAdvertises, At, TypedScript
<1>u. UNCHANGED <<circuit, announced, asked, wire>>
  BY DEF RelayAdvertises, network
<1>h. PICK hop \in BOOLEAN :
        script' = [script EXCEPT ![s] = CASE hop -> Waits(sc, "autonat", now + AutonatWindow)
                                          [] ~hop /\ sc.attempt < RelayReadyAttempts -> Retries(sc)
                                          [] ~hop /\ sc.attempt = RelayReadyAttempts -> Ends(sc, "no-hop")]
  BY <1>0, <1>1 DEF RelayAdvertises, Shaped
<1>v. PICK v : v = CASE hop -> Waits(sc, "autonat", now + AutonatWindow)
                     [] ~hop /\ sc.attempt < RelayReadyAttempts -> Retries(sc)
                     [] ~hop /\ sc.attempt = RelayReadyAttempts -> Ends(sc, "no-hop")
  OBVIOUS
<1>a. hop \in BOOLEAN /\ script' = [script EXCEPT ![s] = v]
  BY ONLY <1>h, <1>v
<1>b. /\ hop => v = Waits(sc, "autonat", now + AutonatWindow)
      /\ ~hop /\ sc.attempt < RelayReadyAttempts => v = Retries(sc)
      /\ ~hop /\ sc.attempt = RelayReadyAttempts => v = Ends(sc, "no-hop")
  <2>1. ~(sc.attempt < RelayReadyAttempts /\ sc.attempt = RelayReadyAttempts)
    BY <1>2
  <2> QED
    BY ONLY <1>v, <2>1, Zenon
<1>3. script' = [script EXCEPT ![s] = v]
  BY <1>a
<1>4. Shaped' /\ Talk'
  <2>1. CASE hop
    <3>1. PICK r : r = Waits(sc, "autonat", now + AutonatWindow)
      OBVIOUS
    <3>2. r.at \in Early /\ TypedScript(r, s) /\ r.remote = sc.remote
      BY <1>2, <3>1 DEF Waits, TypedScript, IsScript, Early
    <3>3. script' = [script EXCEPT ![s] = r] /\ script[s].at \in Early
      BY <1>1, <1>2, <1>3, <1>b, <2>1, <3>1 DEF Early
    <3> QED
      BY <1>0, <1>1, <1>u, <3>2, <3>3, EarlyHolds
  <2>2. CASE ~hop /\ sc.attempt < RelayReadyAttempts
    <3>1. PICK r : r = Retries(sc)
      OBVIOUS
    <3>2. r.at \in Early /\ TypedScript(r, s) /\ r.remote = sc.remote
      <4>1. PICK q : q = Waits(sc, "relay", EarlierDeadline(now + AttemptWindow, ListenDeadline))
        OBVIOUS
      <4>2. Goes(q, sc, "relay")
        BY <1>2, <4>1, ScriptWaits
      <4>3. /\ IsScript(q) /\ q.at = "relay" /\ q.attempt = sc.attempt /\ q.addrs = sc.addrs
            /\ q.remote = sc.remote /\ q.result = sc.result
        BY <4>2 DEF Goes
      <4>4. r = [q EXCEPT !.attempt = @ + 1]
        BY <3>1, <4>1 DEF Retries
      <4>5. /\ IsScript(r) /\ r.at = q.at /\ r.attempt = q.attempt + 1 /\ r.addrs = q.addrs
            /\ r.remote = q.remote /\ r.result = q.result
        BY <4>3, <4>4 DEF IsScript
      <4>6. r.attempt \in 1 .. RelayReadyAttempts
        BY <1>2, <2>2, <4>3, <4>5
      <4> QED
        BY <1>2, <4>3, <4>5, <4>6 DEF TypedScript, Early
    <3>3. script' = [script EXCEPT ![s] = r] /\ script[s].at \in Early
      BY <1>1, <1>2, <1>3, <1>b, <2>2, <3>1 DEF Early
    <3> QED
      BY <1>0, <1>1, <1>u, <3>2, <3>3, EarlyHolds
  <2>3. CASE ~hop /\ sc.attempt = RelayReadyAttempts
    <3>1. PICK r : r = Ends(sc, "no-hop")
      OBVIOUS
    <3>2. Finishes(r, script[s], "no-hop")
      BY <1>1, <1>2, <3>1, ScriptEnds
    <3>3. script' = [script EXCEPT ![s] = r] /\ script[s].at # "ended"
      BY <1>1, <1>2, <1>3, <1>b, <2>3, <3>1
    <3> QED
      BY <1>0, <1>u, <3>2, <3>3, EndsHolds
  <2> QED
    BY <1>2, <2>1, <2>2, <2>3
<1>5. Direct'
  BY DEF HolePunchInv, Direct, RelayAdvertises, direct
<1> QED
  BY <1>4, <1>5 DEF HolePunchInv

\* validate_candidates_with_autonat.
LEMMA CandidatesValidatedHolds == ASSUME HolePunchInv, NEW s \in Sides, CandidatesValidated(s) PROVE HolePunchInv'
<1>0. Shaped /\ Talk
  BY DEF HolePunchInv
<1>1. PICK sc : sc = script[s]
  OBVIOUS
<1>2. TypedScript(sc, s) /\ IsScript(sc) /\ sc.at = "autonat" /\ sc.result = None
  BY <1>0, <1>1, ScriptTyped DEF CandidatesValidated, At, TypedScript
<1>u. UNCHANGED <<circuit, announced, asked, wire>>
  BY DEF CandidatesValidated, network
<1>3. PICK dialable \in SUBSET sc.addrs :
        script' = [script EXCEPT ![s] = [Waits(sc, "ready", ListenDeadline) EXCEPT !.addrs = dialable]]
  BY <1>0, <1>1 DEF CandidatesValidated, Shaped
<1>4. Shaped' /\ Talk'
  <2>1. PICK r : r = [Waits(sc, "ready", ListenDeadline) EXCEPT !.addrs = dialable]
    OBVIOUS
  <2>2. r.at \in Early /\ TypedScript(r, s) /\ r.remote = sc.remote
    BY <1>2, <2>1 DEF Waits, TypedScript, IsScript, Early
  <2>3. script' = [script EXCEPT ![s] = r] /\ script[s].at \in Early
    BY <1>1, <1>2, <1>3, <2>1 DEF Early
  <2> QED
    BY <1>0, <1>1, <1>u, <2>2, <2>3, EarlyHolds
<1>5. Direct'
  BY DEF HolePunchInv, Direct, CandidatesValidated, direct
<1> QED
  BY <1>4, <1>5 DEF HolePunchInv

\* AutoNAT or a HOP stream that does not come up.
LEMMA StreamFailsHolds == ASSUME HolePunchInv, NEW s \in Sides, StreamFails(s) PROVE HolePunchInv'
<1>0. Shaped /\ Talk
  BY DEF HolePunchInv
<1>1. PICK sc : sc = script[s]
  OBVIOUS
<1>2. IsScript(sc) /\ sc.at \in {"autonat", "ready"}
  BY <1>0, <1>1, ScriptTyped DEF StreamFails, At, TypedScript
<1>u. UNCHANGED <<circuit, announced, asked, wire>>
  BY DEF StreamFails, network
<1>3. PICK r : r = Ends(sc, "refused")
  OBVIOUS
<1>4. Finishes(r, script[s], "refused")
  BY <1>1, <1>2, <1>3, ScriptEnds
<1>5. script' = [script EXCEPT ![s] = r] /\ script[s].at # "ended"
  BY <1>0, <1>1, <1>2, <1>3 DEF StreamFails, Shaped
<1>6. Shaped' /\ Talk'
  BY <1>0, <1>u, <1>4, <1>5, EndsHolds
<1>7. Direct'
  BY DEF HolePunchInv, Direct, StreamFails, direct
<1> QED
  BY <1>6, <1>7 DEF HolePunchInv

\* A write to a stream that is gone.
LEMMA SendFailsHolds == ASSUME HolePunchInv, NEW s \in Sides, SendFails(s) PROVE HolePunchInv'
<1>0. Shaped /\ Talk
  BY DEF HolePunchInv
<1>1. PICK sc : sc = script[s]
  OBVIOUS
<1>2. IsScript(sc) /\ sc.at # "ended"
  BY <1>0, <1>1, ScriptTyped DEF SendFails, Alive, At, TypedScript
<1>u. UNCHANGED <<circuit, announced, asked, wire>>
  BY DEF SendFails, network
<1>3. PICK r : r = Ends(sc, "refused")
  OBVIOUS
<1>4. Finishes(r, script[s], "refused")
  BY <1>1, <1>2, <1>3, ScriptEnds
<1>5. script' = [script EXCEPT ![s] = r] /\ script[s].at # "ended"
  BY <1>0, <1>1, <1>2, <1>3 DEF SendFails, Shaped
<1>6. Shaped' /\ Talk'
  BY <1>0, <1>u, <1>4, <1>5, EndsHolds
<1>7. Direct'
  BY DEF HolePunchInv, Direct, SendFails, direct
<1> QED
  BY <1>6, <1>7 DEF HolePunchInv

\* A script goes on after DCUtR.
LEMMA GoesOnHolds ==
    ASSUME Shaped, Talk, NEW s \in Sides, NEW at, NEW sc, Goes(sc, script[s], at),
           \/ s = "Dialer" /\ script[s].at \in {"punch", "connected"} /\ at \in {"connected", "ping"}
           \/ s = "Listener" /\ script[s].at \in Later /\ at \in Later,
           script' = [script EXCEPT ![s] = sc], UNCHANGED <<circuit, announced, asked, wire>>
    PROVE  Shaped' /\ Talk'
<1>1. PICK D, L, aR, aD, aL, wR, wD, wL :
             /\ Parts(D, L, aR, aD, aL, wR, wD, wL)
             /\ Consistent(D, L, circuit, announced, aR, aD, aL, wR, wD, wL)
  BY TalkIs
<1>2. CASE s = "Dialer"
  <2>1. D.at \in {"punch", "connected"} /\ at \in {"connected", "ping"} /\ Goes(sc, D, at)
    BY <1>1, <1>2 DEF Parts
  <2>2. Consistent(sc, L, circuit, announced, aR, aD, aL, wR, wD, wL)
    BY ONLY <1>1, <2>1, DialerGoesOn
  <2>3. script' = [script EXCEPT !["Dialer"] = sc]
    BY <1>2
  <2> QED
    BY ONLY Shaped, <1>1, <2>2, <2>3, UNCHANGED <<circuit, announced, asked, wire>>, DialerStep
<1>3. CASE s = "Listener"
  <2>1. L.at \in Later /\ at \in Later /\ Goes(sc, L, at)
    BY <1>1, <1>3 DEF Parts
  <2>2. Consistent(D, sc, circuit, announced, aR, aD, aL, wR, wD, wL)
    BY ONLY <1>1, <2>1, ListenerGoesOn
  <2>3. script' = [script EXCEPT !["Listener"] = sc]
    BY <1>3
  <2> QED
    BY ONLY Shaped, <1>1, <2>2, <2>3, UNCHANGED <<circuit, announced, asked, wire>>, ListenerStep
<1> QED
  BY <1>2, <1>3 DEF Sides

\* The HOP stream is ready and the request is written.
LEMMA StreamReadyHolds == ASSUME HolePunchInv, NEW s \in Sides, StreamReady(s) PROVE HolePunchInv'
<1>0. Shaped /\ Talk
  BY DEF HolePunchInv
<1>1. PICK D, L, aR, aD, aL, wR, wD, wL :
             /\ Parts(D, L, aR, aD, aL, wR, wD, wL)
             /\ Consistent(D, L, circuit, announced, aR, aD, aL, wR, wD, wL)
  BY <1>0, TalkIs
<1>2. IsScript(D) /\ IsScript(L)
  BY <1>1 DEF Consistent, Typed, TypedScript
<1>u. UNCHANGED <<circuit, announced, wire>>
  BY DEF StreamReady
<1>3. Shaped' /\ Talk'
  <2>1. CASE s = "Dialer"
    <3>1. PICK r : r = ConnectPoll(NewConnect("Listener"))
      OBVIOUS
    <3>2. r.flow \in HopFlow(<< >>) /\ r.out.value = HopF
      BY <3>1, HopAsks
    <3>a. PICK f, u : f = r.flow /\ u = ListenDeadline
      OBVIOUS
    <3>b. PICK E : E = [Waits(D, "hop", u) EXCEPT !.flow = f]
      OBVIOUS
    <3>3. E = [Waits(D, "hop", ListenDeadline) EXCEPT !.flow = r.flow]
      BY ONLY <3>a, <3>b
    <3>c. IsScript(D)
      BY <1>2
    <3>d. Goes(E, D, "hop") /\ E.flow = f
      BY ONLY <3>b, <3>c DEF IsScript, Goes, Waits
    <3>4. Goes(E, D, "hop") /\ E.flow = r.flow
      BY ONLY <3>a, <3>d
    <3>5. D.at = "ready" /\ E.flow \in HopFlow(<< >>)
      BY <1>1, <2>1, <3>2, <3>4 DEF StreamReady, At, Parts
    <3>6. PICK v : v = aD \o HopF
      OBVIOUS
    <3>7. Consistent(E, L, circuit, announced, aR, v, aL, wR, wD, wL)
      BY ONLY <1>1, <3>4, <3>5, <3>6, DialerAsks
    <3>8. script' = [script EXCEPT !["Dialer"] = E] /\ asked' = [asked EXCEPT !["Dialer"] = v]
      BY <1>0, <1>1, <2>1, <3>1, <3>2, <3>3, <3>6 DEF StreamReady, HopStream, Parts, Shaped, Sides, Streams
    <3>9. /\ Shaped' /\ script'["Dialer"] = E /\ script'["Listener"] = L
          /\ asked'["Dialer"] = v /\ asked'["Reserve"] = aR /\ asked'["Listener"] = aL
      BY <1>0, <1>1, <1>u, <3>8 DEF Shaped, Sides, Streams, Parts
    <3>10. Talk'
      BY <1>1, <1>u, <3>7, <3>9 DEF Talk, Parts
    <3> QED
      BY <3>9, <3>10
  <2>2. CASE s = "Listener"
    <3>1. PICK r : r = ReservationPoll(NewReservation)
      OBVIOUS
    <3>2. r.flow \in ReserveFlow(<< >>) /\ r.out.value = ReserveF
      BY <3>1, ReserveAsks
    <3>a. PICK f, u : f = r.flow /\ u = ListenDeadline
      OBVIOUS
    <3>b. PICK F : F = [Waits(L, "reserve", u) EXCEPT !.flow = f]
      OBVIOUS
    <3>3. F = [Waits(L, "reserve", ListenDeadline) EXCEPT !.flow = r.flow]
      BY ONLY <3>a, <3>b
    <3>c. IsScript(L)
      BY <1>2
    <3>d. Goes(F, L, "reserve") /\ F.flow = f
      BY ONLY <3>b, <3>c DEF IsScript, Goes, Waits
    <3>4. Goes(F, L, "reserve") /\ F.flow = r.flow
      BY ONLY <3>a, <3>d
    <3>5. L.at = "ready" /\ F.flow \in ReserveFlow(<< >>)
      BY <1>1, <2>2, <3>2, <3>4 DEF StreamReady, At, Parts
    <3>6. PICK v : v = aR \o ReserveF
      OBVIOUS
    <3>7. Consistent(D, F, circuit, announced, v, aD, aL, wR, wD, wL)
      BY ONLY <1>1, <3>4, <3>5, <3>6, ListenerAsks
    <3>8. script' = [script EXCEPT !["Listener"] = F] /\ asked' = [asked EXCEPT !["Reserve"] = v]
      BY <1>0, <1>1, <2>2, <3>1, <3>2, <3>3, <3>6 DEF StreamReady, HopStream, Parts, Shaped, Sides, Streams
    <3>9. /\ Shaped' /\ script'["Dialer"] = D /\ script'["Listener"] = F
          /\ asked'["Dialer"] = aD /\ asked'["Reserve"] = v /\ asked'["Listener"] = aL
      BY <1>0, <1>1, <1>u, <3>8 DEF Shaped, Sides, Streams, Parts
    <3>10. Talk'
      BY <1>1, <1>u, <3>7, <3>9 DEF Talk, Parts
    <3> QED
      BY <3>9, <3>10
  <2> QED
    BY <2>1, <2>2 DEF Sides
<1>5. Direct'
  BY DEF HolePunchInv, Direct, StreamReady, direct
<1> QED
  BY <1>3, <1>5 DEF HolePunchInv

\* The STOP stream is announced.
LEMMA InboundStreamHolds == ASSUME HolePunchInv, InboundStream PROVE HolePunchInv'
<1>0. Shaped /\ Talk
  BY DEF HolePunchInv
<1>1. PICK D, L, aR, aD, aL, wR, wD, wL :
             /\ Parts(D, L, aR, aD, aL, wR, wD, wL)
             /\ Consistent(D, L, circuit, announced, aR, aD, aL, wR, wD, wL)
  BY <1>0, TalkIs
<1>2. IsScript(L)
  BY <1>1 DEF Consistent, Typed, TypedScript
<1>u. UNCHANGED <<circuit, asked, wire>> /\ announced' = TRUE /\ circuit = "offered" /\ ~announced
  BY DEF InboundStream
<1>n. PICK c, an : c = circuit /\ an = announced
  OBVIOUS
<1>c. Consistent(D, L, c, an, aR, aD, aL, wR, wD, wL)
  BY ONLY <1>1, <1>n
<1>d. c = "offered"
  BY ONLY <1>u, <1>n
<1>e. an = FALSE
  BY <1>1, <1>u, <1>n DEF Consistent
<1>y. PICK y : y = TRUE
  OBVIOUS
<1>3. Shaped' /\ Talk'
  <2>1. CASE L.at # "inbound"
    <3>1. Consistent(D, L, c, y, aR, aD, aL, wR, wD, wL)
      BY ONLY <1>c, <1>d, <1>e, <1>y, <2>1, StopMissed
    <3>2. script' = script
      BY <1>1, <2>1 DEF InboundStream, At, Parts
    <3> QED
      BY <1>0, <1>1, <1>n, <1>u, <1>y, <3>1, <3>2 DEF Shaped, Talk, Parts
  <2>2. CASE L.at = "inbound"
    <3>a. PICK f, u : f = NewStop /\ u = ListenDeadline
      OBVIOUS
    <3>b. PICK F : F = [Waits(L, "stop", u) EXCEPT !.flow = f]
      OBVIOUS
    <3>2. Goes(F, L, "stop") /\ F.flow = f
      BY ONLY <1>2, <3>b DEF IsScript, Goes, Waits
    <3>3. Goes(F, L, "stop") /\ F.flow \in StopFlow(<< >>)
      BY ONLY <3>a, <3>2, StopStarts
    <3>4. Consistent(D, F, c, y, aR, aD, aL, wR, wD, wL)
      BY ONLY <1>c, <1>d, <1>e, <1>y, <2>2, <3>3, StopTaken
    <3>5. script' = [script EXCEPT !["Listener"] = F]
      BY <1>0, <1>1, <2>2, <3>a, <3>b DEF InboundStream, At, Parts, Shaped, Sides
    <3>6. Shaped' /\ script'["Dialer"] = D /\ script'["Listener"] = F
      BY <1>0, <1>1, <1>u, <3>5 DEF Shaped, Sides, Parts
    <3>7. Talk'
      BY <1>1, <1>n, <1>u, <1>y, <3>4, <3>6 DEF Talk, Parts
    <3> QED
      BY <3>6, <3>7
  <2> QED
    BY <2>1, <2>2
<1>5. Direct'
  BY DEF HolePunchInv, Direct, InboundStream, direct
<1> QED
  BY <1>3, <1>5 DEF HolePunchInv

\* The punch loop's coarse sign.
LEMMA InboundSeenHolds == ASSUME HolePunchInv, InboundSeen PROVE HolePunchInv'
<1>0. Shaped /\ Talk
  BY DEF HolePunchInv
<1>1. PICK sc : sc = script["Listener"]
  OBVIOUS
<1>2. IsScript(sc) /\ sc.at = "punch"
  BY <1>0, <1>1, ScriptTyped DEF InboundSeen, At, TypedScript, Sides
<1>u. UNCHANGED <<circuit, announced, asked, wire>>
  BY DEF InboundSeen, network
<1>3. PICK r : r = Waits(sc, "grace", now + GraceWindow)
  OBVIOUS
<1>4. Goes(r, script["Listener"], "grace")
  BY <1>1, <1>2, <1>3, ScriptWaits
<1>5. script' = [script EXCEPT !["Listener"] = r] /\ script["Listener"].at \in Later /\ "grace" \in Later
  BY <1>0, <1>1, <1>2, <1>3 DEF InboundSeen, Shaped, Sides, Later
<1>6. Shaped' /\ Talk'
  BY <1>0, <1>u, <1>4, <1>5, GoesOnHolds DEF Sides
<1>7. Direct'
  BY DEF HolePunchInv, Direct, InboundSeen, direct
<1> QED
  BY <1>6, <1>7 DEF HolePunchInv

\* Swarm::ping.
LEMMA StartPingHolds == ASSUME HolePunchInv, NEW s \in Sides, StartPing(s) PROVE HolePunchInv'
<1>0. Shaped /\ Talk
  BY DEF HolePunchInv
<1>1. PICK sc : sc = script[s]
  OBVIOUS
<1>2. IsScript(sc) /\ sc.at = "connected"
  BY <1>0, <1>1, ScriptTyped DEF StartPing, At, TypedScript
<1>u. UNCHANGED <<circuit, announced, asked, wire>>
  BY DEF StartPing, network
<1>3. Shaped' /\ Talk'
  <2>1. CASE current[s] = None
    <3>1. PICK r : r = Ends(sc, "not-connected")
      OBVIOUS
    <3>2. Finishes(r, script[s], "not-connected")
      BY <1>1, <1>2, <3>1, ScriptEnds
    <3>3. script' = [script EXCEPT ![s] = r] /\ script[s].at # "ended"
      BY <1>0, <1>1, <1>2, <2>1, <3>1 DEF StartPing, Shaped
    <3> QED
      BY <1>0, <1>u, <3>2, <3>3, EndsHolds
  <2>2. CASE current[s] # None
    <3>1. PICK r : r = [sc EXCEPT !.at = "ping"]
      OBVIOUS
    <3>2. Goes(r, script[s], "ping")
      BY <1>1, <1>2, <3>1 DEF Goes, IsScript
    <3>3. script' = [script EXCEPT ![s] = r] /\ script[s].at = "connected"
      BY <1>0, <1>1, <1>2, <2>2, <3>1 DEF StartPing, Shaped
    <3>4. \/ s = "Dialer" /\ script[s].at \in {"punch", "connected"} /\ "ping" \in {"connected", "ping"}
          \/ s = "Listener" /\ script[s].at \in Later /\ "ping" \in Later
      BY <3>3 DEF Sides, Later
    <3> QED
      BY <1>0, <1>u, <3>2, <3>3, <3>4, GoesOnHolds
  <2> QED
    BY <2>1, <2>2
<1>4. Direct'
  BY DEF HolePunchInv, Direct, StartPing
<1> QED
  BY <1>3, <1>4 DEF HolePunchInv

\* Where a script's bytes go: w and a are the streams to the other peer and to
\* the relay before it writes.
LEMMA WritesAre ==
    ASSUME Shaped, NEW s \in Sides, NEW units, NEW to, to = [x \in Streams |-> to[x]], Writes(s, units, to)
    PROVE  /\ wire' = [x \in Streams |-> wire'[x]] /\ asked' = [x \in Streams |-> asked'[x]]
           /\ wire'[s] = to[s] /\ wire'["Reserve"] = to["Reserve"]
           /\ wire'[Other(s)] = Sent(circuit, to[Other(s)], units)
           /\ asked'[s] = Asks(circuit, asked[s], units) /\ asked'["Reserve"] = asked["Reserve"]
           /\ asked'[Other(s)] = asked[Other(s)]
<1>1. s \in Streams /\ Other(s) \in Streams /\ s # Other(s) /\ s # "Reserve" /\ Other(s) # "Reserve"
  BY DEF Sides, Streams, Other
<1>2. asked = [x \in Streams |-> asked[x]]
  BY DEF Shaped
<1>p. PICK p : p = Other(s)
  OBVIOUS
<1>3. CASE circuit = "bridged"
  <2>1. PICK w : w = to[p] \o units
    OBVIOUS
  <2>2. wire' = [to EXCEPT ![p] = w] /\ asked' = asked
    BY <1>3, <1>p, <2>1 DEF Writes, Bridged
  <2>3. Sent(circuit, to[Other(s)], units) = w /\ Asks(circuit, asked[s], units) = asked[s]
    BY <1>3, <1>p, <2>1 DEF Sent, Asks, OnceBridged
  <2>4. /\ wire' = [x \in Streams |-> wire'[x]] /\ wire'[s] = to[s] /\ wire'["Reserve"] = to["Reserve"]
        /\ wire'[p] = w
    BY <1>1, <1>p, <2>2 DEF Streams
  <2> QED
    BY <1>2, <1>p, <2>2, <2>3, <2>4
<1>4. CASE circuit = "closed"
  BY <1>1, <1>2, <1>4 DEF Writes, Bridged, Sent, Asks, OnceBridged
<1>5. CASE circuit \notin {"bridged", "closed"}
  <2>1. PICK a : a = asked[s] \o units
    OBVIOUS
  <2>2. asked' = [asked EXCEPT ![s] = a] /\ wire' = to
    BY <1>5, <2>1 DEF Writes, Bridged
  <2>3. Asks(circuit, asked[s], units) = a /\ Sent(circuit, to[Other(s)], units) = to[Other(s)]
    BY <1>5, <2>1 DEF Sent, Asks, OnceBridged
  <2>4. /\ asked' = [x \in Streams |-> asked'[x]] /\ asked'[Other(s)] = asked[Other(s)]
        /\ asked'["Reserve"] = asked["Reserve"] /\ asked'[s] = a
    BY <1>1, <1>2, <2>2 DEF Streams
  <2> QED
    BY <2>2, <2>3, <2>4
<1> QED
  BY <1>3, <1>4, <1>5

\* A step of run_dial that reads from its stream and writes to it.
LEMMA DialerWrites ==
    ASSUME Shaped, NEW D, NEW L, NEW aR, NEW aD, NEW aL, NEW wR, NEW wD, NEW wL,
           Parts(D, L, aR, aD, aL, wR, wD, wL),
           NEW E, script' = [script EXCEPT !["Dialer"] = E], UNCHANGED <<circuit, announced>>,
           NEW to, to = [x \in Streams |-> to[x]], to["Reserve"] = wR, to["Listener"] = wL,
           NEW units, Writes("Dialer", units, to), NEW z, z = to["Dialer"],
           NEW b, b = Asks(circuit, aD, units), NEW v, v = Sent(circuit, wL, units),
           Consistent(E, L, circuit, announced, aR, b, aL, wR, z, v)
    PROVE  Shaped' /\ Talk'
<1>1. /\ wire' = [x \in Streams |-> wire'[x]] /\ asked' = [x \in Streams |-> asked'[x]]
      /\ wire'["Dialer"] = to["Dialer"] /\ wire'["Reserve"] = to["Reserve"]
      /\ wire'["Listener"] = Sent(circuit, to["Listener"], units)
      /\ asked'["Dialer"] = Asks(circuit, asked["Dialer"], units) /\ asked'["Reserve"] = asked["Reserve"]
      /\ asked'["Listener"] = asked["Listener"]
  <2>1. PICK s : s = "Dialer" /\ s \in Sides /\ Other(s) = "Listener"
    BY NamesAre
  <2>2. Writes(s, units, to)
    BY <2>1
  <2>3. /\ wire' = [x \in Streams |-> wire'[x]] /\ asked' = [x \in Streams |-> asked'[x]]
        /\ wire'[s] = to[s] /\ wire'["Reserve"] = to["Reserve"]
        /\ wire'[Other(s)] = Sent(circuit, to[Other(s)], units)
        /\ asked'[s] = Asks(circuit, asked[s], units) /\ asked'["Reserve"] = asked["Reserve"]
        /\ asked'[Other(s)] = asked[Other(s)]
    BY ONLY Shaped, <2>1, <2>2, to = [x \in Streams |-> to[x]], WritesAre
  <2> QED
    BY ONLY <2>1, <2>3
<1>2. script' = [x \in Sides |-> script'[x]] /\ script'["Dialer"] = E /\ script'["Listener"] = L
  BY DEF Shaped, Sides, Parts
<1>3. /\ asked["Dialer"] = aD /\ asked["Reserve"] = aR /\ asked["Listener"] = aL
  BY DEF Parts
<1>4. /\ asked'["Dialer"] = b /\ asked'["Reserve"] = aR /\ asked'["Listener"] = aL
      /\ wire'["Dialer"] = z /\ wire'["Reserve"] = wR /\ wire'["Listener"] = v
  BY <1>1, <1>3
<1>5. circuit' = circuit /\ announced' = announced
  OBVIOUS
<1>6. Talk'
  BY ONLY <1>2, <1>4, <1>5, Consistent(E, L, circuit, announced, aR, b, aL, wR, z, v) DEF Talk
<1> QED
  BY <1>1, <1>2, <1>6 DEF Shaped

\* A step of run_listen that reads from its stream and writes to it.
LEMMA ListenerWrites ==
    ASSUME Shaped, NEW D, NEW L, NEW aR, NEW aD, NEW aL, NEW wR, NEW wD, NEW wL,
           Parts(D, L, aR, aD, aL, wR, wD, wL),
           NEW F, script' = [script EXCEPT !["Listener"] = F], UNCHANGED <<circuit, announced>>,
           NEW to, to = [x \in Streams |-> to[x]], to["Reserve"] = wR, to["Dialer"] = wD,
           NEW units, Writes("Listener", units, to), NEW z, z = to["Listener"],
           NEW b, b = Asks(circuit, aL, units), NEW v, v = Sent(circuit, wD, units),
           Consistent(D, F, circuit, announced, aR, aD, b, wR, v, z)
    PROVE  Shaped' /\ Talk'
<1>1. /\ wire' = [x \in Streams |-> wire'[x]] /\ asked' = [x \in Streams |-> asked'[x]]
      /\ wire'["Listener"] = to["Listener"] /\ wire'["Reserve"] = to["Reserve"]
      /\ wire'["Dialer"] = Sent(circuit, to["Dialer"], units)
      /\ asked'["Listener"] = Asks(circuit, asked["Listener"], units) /\ asked'["Reserve"] = asked["Reserve"]
      /\ asked'["Dialer"] = asked["Dialer"]
  <2>1. PICK s : s = "Listener" /\ s \in Sides /\ Other(s) = "Dialer"
    BY NamesAre
  <2>2. Writes(s, units, to)
    BY <2>1
  <2>3. /\ wire' = [x \in Streams |-> wire'[x]] /\ asked' = [x \in Streams |-> asked'[x]]
        /\ wire'[s] = to[s] /\ wire'["Reserve"] = to["Reserve"]
        /\ wire'[Other(s)] = Sent(circuit, to[Other(s)], units)
        /\ asked'[s] = Asks(circuit, asked[s], units) /\ asked'["Reserve"] = asked["Reserve"]
        /\ asked'[Other(s)] = asked[Other(s)]
    BY ONLY Shaped, <2>1, <2>2, to = [x \in Streams |-> to[x]], WritesAre
  <2> QED
    BY ONLY <2>1, <2>3
<1>2. script' = [x \in Sides |-> script'[x]] /\ script'["Listener"] = F /\ script'["Dialer"] = D
  BY DEF Shaped, Sides, Parts
<1>3. /\ asked["Dialer"] = aD /\ asked["Reserve"] = aR /\ asked["Listener"] = aL
  BY DEF Parts
<1>4. /\ asked'["Dialer"] = aD /\ asked'["Reserve"] = aR /\ asked'["Listener"] = b
      /\ wire'["Dialer"] = v /\ wire'["Reserve"] = wR /\ wire'["Listener"] = z
  BY <1>1, <1>3
<1>5. circuit' = circuit /\ announced' = announced
  OBVIOUS
<1>6. Talk'
  BY ONLY <1>2, <1>4, <1>5, Consistent(D, F, circuit, announced, aR, aD, b, wR, v, z) DEF Talk
<1> QED
  BY <1>1, <1>2, <1>6 DEF Shaped

\* ConnectionEstablished.
LEMMA EstablishedHolds ==
    ASSUME HolePunchInv, NEW s \in Sides, NEW c \in Sides, NEW phase \in Phases, Established(s, c, phase)
    PROVE  HolePunchInv'
<1>0. Shaped /\ Talk
  BY DEF HolePunchInv
<1>u. UNCHANGED <<circuit, announced, asked, wire>>
  BY DEF Established, network
<1>1. PICK sc : sc = script[s]
  OBVIOUS
<1>2. /\ IsScript(sc)
      /\ s = "Dialer" => sc.at \in Early \cup {"hop", "dcutr"} \cup Past
  BY <1>0, <1>1, ScriptTyped DEF TypedScript
<1>3. Shaped' /\ Talk'
  <2>1. CASE script' = script
    BY <1>0, <1>u, <2>1, TalkStays
  <2>2. CASE script' # script
    <3>1. sc.at \in {"punch", "grace"} /\ script' = [script EXCEPT ![s] = Waits(@, "connected", ListenDeadline)]
      BY <1>1, <2>2 DEF Established, At
    <3>2. PICK u : u = ListenDeadline
      OBVIOUS
    <3>3. PICK r : r = Waits(sc, "connected", u)
      OBVIOUS
    <3>4. Goes(r, script[s], "connected")
      BY ONLY <1>1, <1>2, <3>3, ScriptWaits
    <3>5. script' = [script EXCEPT ![s] = r]
      BY <1>0, <1>1, <3>1, <3>2, <3>3 DEF Shaped
    <3>6. \/ s = "Dialer" /\ script[s].at \in {"punch", "connected"} /\ "connected" \in {"connected", "ping"}
          \/ s = "Listener" /\ script[s].at \in Later /\ "connected" \in Later
      BY <1>1, <1>2, <3>1 DEF Sides, Later, Early, Past
    <3> QED
      BY <1>0, <1>u, <3>4, <3>5, <3>6, GoesOnHolds
  <2> QED
    BY <2>1, <2>2
<1>4. Direct'
  <2>1. /\ now \in Nat /\ conn \in [Sides -> Phases] /\ current \in [Sides -> Sides \cup {None}]
        /\ pinging \in [Sides -> Sides \cup {None}] /\ "closed" \in Phases
    BY DEF HolePunchInv, Direct, Phases
  <2>2. now' = now /\ current' = [current EXCEPT ![s] = c]
        /\ (pinging' = pinging \/ pinging' = [pinging EXCEPT ![s] = c])
    BY DEF Established
  <2>3. PICK old : old = current[s]
    OBVIOUS
  <2>4. conn' = [x \in Sides |-> CASE x = c -> phase
                                      [] x = old /\ x # c -> "closed"
                                      [] OTHER -> conn[x]]
    BY <2>3 DEF Established
  <2>5. ASSUME NEW x \in Sides PROVE conn'[x] \in Phases
    <3>1. PICK e : e = conn[x] /\ e \in Phases
      BY <2>1
    <3>2. conn'[x] = CASE x = c -> phase
                       [] x = old /\ x # c -> "closed"
                       [] OTHER -> e
      BY <2>4, <3>1
    <3> QED
      BY <2>1, <3>1, <3>2
  <2>6. conn' \in [Sides -> Phases]
    BY <2>4, <2>5
  <2>7. current' \in [Sides -> Sides \cup {None}] /\ pinging' \in [Sides -> Sides \cup {None}]
    BY <2>1, <2>2
  <2> QED
    BY <2>1, <2>2, <2>6, <2>7 DEF Direct
<1> QED
  BY <1>3, <1>4 DEF HolePunchInv

\* The streams hold units; nothing is written when units is empty.
LEMMA StreamsTyped ==
    ASSUME NEW D, NEW L, NEW c, NEW an, NEW aR, NEW aD, NEW aL, NEW wR, NEW wD, NEW wL,
           Consistent(D, L, c, an, aR, aD, aL, wR, wD, wL)
    PROVE  /\ IsScript(D) /\ IsScript(L)
           /\ wR \in Seq(Clear) /\ wD \in Seq(Units) /\ wL \in Seq(Units)
           /\ Asks(c, aD, << >>) = aD /\ Asks(c, aL, << >>) = aL
           /\ Sent(c, wD, << >>) = wD /\ Sent(c, wL, << >>) = wL
<1>1. /\ Typed(D, L) /\ wR \in Seq(Clear) /\ wD \in Seq(Units) /\ wL \in Seq(Units)
      /\ aD \in {<< >>, HopF} /\ aL \in {<< >>, StatusF("Ok")}
  BY Zenon DEF Consistent, Meaning, Reserving, Asking, Offering
<1>2. HopF \in Seq(Units) /\ StatusF("Ok") \in Seq(Units) /\ << >> \in Seq(Units)
  <2>1. HopF \in Seq(FrameUnits) /\ StatusF("Ok") \in Seq(FrameUnits)
    BY MessagesAre, FrameIs DEF HopF, StatusF, Statuses
  <2> QED
    BY <2>1, UnitSeqs, SmallSeqs
<1>3. aD \in Seq(Units) /\ aL \in Seq(Units)
  BY <1>1, <1>2
<1>4. IsScript(D) /\ IsScript(L)
  BY <1>1 DEF Typed, TypedScript
<1> QED
  BY <1>1, <1>3, <1>4, NothingWritten

\* The direct ping ends, and the bridge is half-closed.
LEMMA PingRttHolds == ASSUME HolePunchInv, NEW s \in Sides, PingRtt(s) PROVE HolePunchInv'
<1>0. Shaped /\ Talk
  BY DEF HolePunchInv
<1>1. PICK D, L, aR, aD, aL, wR, wD, wL :
             /\ Parts(D, L, aR, aD, aL, wR, wD, wL)
             /\ Consistent(D, L, circuit, announced, aR, aD, aL, wR, wD, wL)
  BY <1>0, TalkIs
<1>2. IsScript(D) /\ IsScript(L)
  BY <1>1, StreamsTyped
<1>u. /\ UNCHANGED <<circuit, announced>> /\ script[s].at = "ping"
      /\ wire = [x \in Streams |-> wire[x]] /\ wire["Reserve"] = wR /\ wire["Dialer"] = wD /\ wire["Listener"] = wL
  BY <1>0, <1>1 DEF PingRtt, At, Shaped, Parts
<1>r. PICK result : result = "ping-direct"
  OBVIOUS
<1>a. /\ result \in Results \ {None, "protocol"} /\ result # "ping-via-relay" /\ result # "bridge-closed"
  BY <1>r, AbsentAssumption DEF Results
<1>f. PICK units : units = <<Fin>>
  OBVIOUS
<1>3. Shaped' /\ Talk'
  <2>1. CASE s = "Dialer"
    <3>1. D.at = "ping" /\ D.at # "ended" /\ circuit \in OnceBridged
      BY <1>1, <1>u, <2>1 DEF Parts, Consistent, Initiating, Past
    <3>2. PICK E : E = Ends(D, result)
      OBVIOUS
    <3>3. Finishes(E, D, result)
      BY <1>2, <3>2, ScriptEnds
    <3>4. Consistent(E, L, circuit, announced, aR, aD, aL, wR, wD, wL)
      BY ONLY <1>1, <1>a, <3>1, <3>3, DialerEnds
    <3>5. PICK b, v : b = Asks(circuit, aD, units) /\ v = Sent(circuit, wL, units)
      OBVIOUS
    <3>6. b = aD
      BY <3>1, <3>5 DEF Asks
    <3>7. Consistent(E, L, circuit, announced, aR, b, aL, wR, wD, v)
      <4>1. CASE circuit = "bridged"
        <5>1. v = wL \o <<Fin>> /\ E.at = "ended" /\ E.result = "ping-direct"
          BY <1>f, <1>r, <3>3, <3>5, <4>1 DEF Sent, Finishes
        <5>2. Consistent(E, L, circuit, announced, aR, aD, aL, wR, wD, v)
          BY ONLY <3>4, <4>1, <5>1, FinToListener
        <5> QED
          BY <3>6, <5>2
      <4>2. CASE circuit = "closed"
        <5>1. v = wL
          BY <3>5, <4>2 DEF Sent
        <5> QED
          BY <3>4, <3>6, <5>1
      <4> QED
        BY <3>1, <4>1, <4>2 DEF OnceBridged
    <3>8. script' = [script EXCEPT !["Dialer"] = E] /\ Writes("Dialer", units, wire)
      BY <1>0, <1>1, <1>f, <1>r, <2>1, <3>2 DEF PingRtt, Parts, Shaped, Sides
    <3> QED
      BY ONLY <1>0, <1>1, <1>u, <3>5, <3>7, <3>8, DialerWrites
  <2>2. CASE s = "Listener"
    <3>1. L.at = "ping" /\ L.at # "ended" /\ circuit \in OnceBridged
      BY <1>1, <1>u, <2>2 DEF Parts, Consistent, Following, Later
    <3>2. PICK F : F = Ends(L, result)
      OBVIOUS
    <3>3. Finishes(F, L, result)
      BY <1>2, <3>2, ScriptEnds
    <3>4. Consistent(D, F, circuit, announced, aR, aD, aL, wR, wD, wL)
      BY ONLY <1>1, <1>a, <3>1, <3>3, ListenerEnds
    <3>5. PICK b, v : b = Asks(circuit, aL, units) /\ v = Sent(circuit, wD, units)
      OBVIOUS
    <3>6. b = aL
      BY <3>1, <3>5 DEF Asks
    <3>7. Consistent(D, F, circuit, announced, aR, aD, b, wR, v, wL)
      <4>1. CASE circuit = "bridged"
        <5>1. v = wD \o <<Fin>> /\ F.at = "ended"
          BY <1>f, <3>3, <3>5, <4>1 DEF Sent, Finishes
        <5>2. Consistent(D, F, circuit, announced, aR, aD, aL, wR, v, wL)
          BY ONLY <3>4, <4>1, <5>1, FinToDialer
        <5> QED
          BY <3>6, <5>2
      <4>2. CASE circuit = "closed"
        <5>1. v = wD
          BY <3>5, <4>2 DEF Sent
        <5> QED
          BY <3>4, <3>6, <5>1
      <4> QED
        BY <3>1, <4>1, <4>2 DEF OnceBridged
    <3>8. script' = [script EXCEPT !["Listener"] = F] /\ Writes("Listener", units, wire)
      BY <1>0, <1>1, <1>f, <1>r, <2>2, <3>2 DEF PingRtt, Parts, Shaped, Sides
    <3> QED
      BY ONLY <1>0, <1>1, <1>u, <3>5, <3>7, <3>8, ListenerWrites
  <2> QED
    BY <2>1, <2>2 DEF Sides
<1>4. Direct'
  BY DEF HolePunchInv, Direct, PingRtt, direct
<1> QED
  BY <1>3, <1>4 DEF HolePunchInv

\* What OnTimeout does.
LEMMA TimeoutIs ==
    ASSUME NEW s \in Sides, NEW sc, NEW st, st = OnTimeout(s, sc)
    PROVE  /\ s = "Dialer" /\ sc.at = "punch" => st = Step(Waits(sc, "echo", ListenDeadline), Payload)
           /\ s = "Listener" /\ sc.at \in {"punch", "grace"} =>
                st = Step(Waits(sc, "fallback", now + FallbackWindow), << >>)
           /\ (s = "Dialer" => sc.at # "punch") /\ (s = "Listener" => sc.at \notin {"punch", "grace"}) =>
                \E result \in {"silence", "deadline"} : st = Step(Ends(sc, result), << >>)
<1>1. "Dialer" # "Listener" /\ "punch" # "fallback" /\ "grace" # "fallback"
  OBVIOUS
<1>2. st = CASE s = "Dialer" /\ sc.at = "punch" -> Step(Waits(sc, "echo", ListenDeadline), Payload)
             [] s = "Listener" /\ sc.at \in {"punch", "grace"} ->
                  Step(Waits(sc, "fallback", now + FallbackWindow), << >>)
             [] sc.at = "fallback" -> Step(Ends(sc, "silence"), << >>)
             [] OTHER -> Step(Ends(sc, "deadline"), << >>)
  BY DEF OnTimeout
<1>3. PICK e, f, x, y : /\ e = Step(Waits(sc, "echo", ListenDeadline), Payload)
                        /\ f = Step(Waits(sc, "fallback", now + FallbackWindow), << >>)
                        /\ x = Step(Ends(sc, "silence"), << >>) /\ y = Step(Ends(sc, "deadline"), << >>)
  OBVIOUS
<1>4. st = CASE s = "Dialer" /\ sc.at = "punch" -> e
             [] s = "Listener" /\ sc.at \in {"punch", "grace"} -> f
             [] sc.at = "fallback" -> x
             [] OTHER -> y
  BY ONLY <1>2, <1>3
<1>5. /\ s = "Dialer" /\ sc.at = "punch" => st = e
      /\ s = "Listener" /\ sc.at \in {"punch", "grace"} => st = f
      /\ (s = "Dialer" => sc.at # "punch") /\ (s = "Listener" => sc.at \notin {"punch", "grace"}) => st \in {x, y}
  BY ONLY <1>1, <1>4, s \in Sides DEF Sides
<1> QED
  BY ONLY <1>3, <1>5

\* The parts of a step.
LEMMA StepParts ==
    ASSUME NEW sc, NEW units, NEW st, st = Step(sc, units)
    PROVE  st.script = sc /\ st.out = units
BY DEF Step

\* A script ends when its deadline has come, without a word.
LEMMA QuietEnd ==
    ASSUME Shaped, Talk, NEW s \in Sides, script[s].at # "ended", NEW result,
           result \in {"no-hop", "refused", "deadline", "silence", "not-connected"},
           NEW sc, Finishes(sc, script[s], result), script' = [script EXCEPT ![s] = sc],
           UNCHANGED <<circuit, announced>>, Writes(s, << >>, wire)
    PROVE  Shaped' /\ Talk'
<1>1. PICK D, L, aR, aD, aL, wR, wD, wL :
             /\ Parts(D, L, aR, aD, aL, wR, wD, wL)
             /\ Consistent(D, L, circuit, announced, aR, aD, aL, wR, wD, wL)
  BY TalkIs
<1>2. /\ Asks(circuit, aD, << >>) = aD /\ Asks(circuit, aL, << >>) = aL
      /\ Sent(circuit, wD, << >>) = wD /\ Sent(circuit, wL, << >>) = wL
  BY <1>1, StreamsTyped
<1>a. /\ result \in Results \ {None, "protocol"} /\ result # "ping-via-relay" /\ result # "bridge-closed"
  BY AbsentAssumption DEF Results
<1>u. /\ wire = [x \in Streams |-> wire[x]] /\ wire["Reserve"] = wR /\ wire["Dialer"] = wD /\ wire["Listener"] = wL
  BY <1>1 DEF Shaped, Parts
<1>e. PICK e : e = << >>
  OBVIOUS
<1>3. CASE s = "Dialer"
  <2>1. D.at # "ended" /\ Finishes(sc, D, result)
    BY <1>1, <1>3 DEF Parts
  <2>2. Consistent(sc, L, circuit, announced, aR, aD, aL, wR, wD, wL)
    BY ONLY <1>1, <1>a, <2>1, DialerEnds
  <2>3. script' = [script EXCEPT !["Dialer"] = sc] /\ Writes("Dialer", e, wire)
    BY <1>3, <1>e
  <2>4. aD = Asks(circuit, aD, e) /\ wL = Sent(circuit, wL, e)
    BY <1>2, <1>e
  <2> QED
    BY ONLY Shaped, <1>1, <1>u, <2>2, <2>3, <2>4, UNCHANGED <<circuit, announced>>, DialerWrites
<1>4. CASE s = "Listener"
  <2>1. L.at # "ended" /\ Finishes(sc, L, result)
    BY <1>1, <1>4 DEF Parts
  <2>2. Consistent(D, sc, circuit, announced, aR, aD, aL, wR, wD, wL)
    BY ONLY <1>1, <1>a, <2>1, ListenerEnds
  <2>3. script' = [script EXCEPT !["Listener"] = sc] /\ Writes("Listener", e, wire)
    BY <1>4, <1>e
  <2>4. aL = Asks(circuit, aL, e) /\ wD = Sent(circuit, wD, e)
    BY <1>2, <1>e
  <2> QED
    BY ONLY Shaped, <1>1, <1>u, <2>2, <2>3, <2>4, UNCHANGED <<circuit, announced>>, ListenerWrites
<1> QED
  BY <1>3, <1>4 DEF Sides

\* A deadline comes.
LEMMA TimeoutHolds == ASSUME HolePunchInv, NEW s \in Sides, Timeout(s) PROVE HolePunchInv'
<1>0. Shaped /\ Talk
  BY DEF HolePunchInv
<1>1. PICK D, L, aR, aD, aL, wR, wD, wL :
             /\ Parts(D, L, aR, aD, aL, wR, wD, wL)
             /\ Consistent(D, L, circuit, announced, aR, aD, aL, wR, wD, wL)
  BY <1>0, TalkIs
<1>2. IsScript(D) /\ IsScript(L)
  BY <1>1, StreamsTyped
<1>u. /\ UNCHANGED <<circuit, announced>> /\ script[s].at # "ended"
      /\ wire = [x \in Streams |-> wire[x]] /\ wire["Reserve"] = wR /\ wire["Dialer"] = wD /\ wire["Listener"] = wL
  BY <1>0, <1>1 DEF Timeout, At, Shaped, Parts
<1>s. PICK sc, st : sc = script[s] /\ st = OnTimeout(s, sc)
  OBVIOUS
<1>i. /\ s = "Dialer" /\ sc.at = "punch" => st = Step(Waits(sc, "echo", ListenDeadline), Payload)
      /\ s = "Listener" /\ sc.at \in {"punch", "grace"} =>
           st = Step(Waits(sc, "fallback", now + FallbackWindow), << >>)
      /\ (s = "Dialer" => sc.at # "punch") /\ (s = "Listener" => sc.at \notin {"punch", "grace"}) =>
           \E result \in {"silence", "deadline"} : st = Step(Ends(sc, result), << >>)
  BY <1>s, TimeoutIs
<1>w. script' = [script EXCEPT ![s] = st.script] /\ Writes(s, st.out, wire)
  BY <1>s DEF Timeout
<1>t. IsScript(sc)
  BY <1>1, <1>2, <1>s DEF Parts, Sides
<1>3. Shaped' /\ Talk'
  <2>1. CASE s = "Dialer" /\ sc.at = "punch"
    <3>1. PICK E, u : u = ListenDeadline /\ E = Waits(sc, "echo", u)
      OBVIOUS
    <3>2. Goes(E, sc, "echo")
      BY ONLY <1>t, <3>1, ScriptWaits
    <3>3. sc = D /\ D.at = "punch" /\ circuit \in OnceBridged
      BY <1>1, <1>s, <2>1 DEF Parts, Consistent, Initiating, Past
    <3>4. PICK units : units = Payload
      OBVIOUS
    <3>5. PICK b, v : b = Asks(circuit, aD, units) /\ v = Sent(circuit, wL, units)
      OBVIOUS
    <3>6. Goes(E, D, "echo") /\ v = Sent(circuit, wL, Payload)
      BY ONLY <3>2, <3>3, <3>4, <3>5
    <3>7. Consistent(E, L, circuit, announced, aR, aD, aL, wR, wD, v)
      BY ONLY <1>1, <3>3, <3>6, DialerPings
    <3>8. b = aD
      BY <3>3, <3>5 DEF Asks
    <3>9. Consistent(E, L, circuit, announced, aR, b, aL, wR, wD, v)
      BY ONLY <3>7, <3>8
    <3>a. st = Step(E, units)
      BY ONLY <1>i, <2>1, <3>1, <3>4
    <3>c. st.script = E /\ st.out = units
      BY ONLY <3>a, StepParts
    <3>b. script' = [script EXCEPT !["Dialer"] = E] /\ Writes("Dialer", units, wire)
      BY ONLY <1>w, <2>1, <3>c
    <3> QED
      BY ONLY <1>0, <1>1, <1>u, <3>5, <3>9, <3>b, DialerWrites
  <2>2. CASE s = "Listener" /\ sc.at \in {"punch", "grace"}
    <3>1. PICK F, u : u = now + FallbackWindow /\ F = Waits(sc, "fallback", u)
      OBVIOUS
    <3>2. Goes(F, sc, "fallback")
      BY ONLY <1>t, <3>1, ScriptWaits
    <3>3. sc = L /\ L.at \in Later /\ "fallback" \in Later
      BY <1>1, <1>s, <2>2 DEF Parts, Later
    <3>4. Consistent(D, F, circuit, announced, aR, aD, aL, wR, wD, wL)
      BY ONLY <1>1, <3>2, <3>3, ListenerGoesOn
    <3>5. PICK e : e = << >>
      OBVIOUS
    <3>6. aL = Asks(circuit, aL, e) /\ wD = Sent(circuit, wD, e)
      BY <1>1, <3>5, StreamsTyped
    <3>a. st = Step(F, e)
      BY ONLY <1>i, <2>2, <3>1, <3>5
    <3>c. st.script = F /\ st.out = e
      BY ONLY <3>a, StepParts
    <3>b. script' = [script EXCEPT !["Listener"] = F] /\ Writes("Listener", e, wire)
      BY ONLY <1>w, <2>2, <3>c
    <3> QED
      BY ONLY <1>0, <1>1, <1>u, <3>4, <3>6, <3>b, ListenerWrites
  <2>3. CASE (s = "Dialer" => sc.at # "punch") /\ (s = "Listener" => sc.at \notin {"punch", "grace"})
    <3>1. PICK result \in {"silence", "deadline"} : st = Step(Ends(sc, result), << >>)
      BY ONLY <1>i, <2>3
    <3>2. PICK r : r = Ends(sc, result)
      OBVIOUS
    <3>3. Finishes(r, script[s], result)
      BY ONLY <1>s, <1>t, <3>2, ScriptEnds
    <3>4. st = Step(r, << >>)
      BY ONLY <3>1, <3>2
    <3>5. script' = [script EXCEPT ![s] = r] /\ Writes(s, << >>, wire)
      BY ONLY <1>w, <3>4, StepParts
    <3>6. result \in {"no-hop", "refused", "deadline", "silence", "not-connected"}
      BY <3>1
    <3> QED
      BY ONLY <1>0, <1>u, <3>3, <3>5, <3>6, s \in Sides, QuietEnd
  <2> QED
    BY <2>1, <2>2, <2>3 DEF Sides
<1>4. Direct'
  BY DEF HolePunchInv, Direct, Timeout, direct
<1> QED
  BY <1>3, <1>4 DEF HolePunchInv

\* The bridge is closed.
LEMMA BridgeClosedHolds == ASSUME HolePunchInv, NEW s \in Sides, BridgeClosed(s) PROVE HolePunchInv'
<1>0. Shaped /\ Talk
  BY DEF HolePunchInv
<1>1. PICK D, L, aR, aD, aL, wR, wD, wL :
             /\ Parts(D, L, aR, aD, aL, wR, wD, wL)
             /\ Consistent(D, L, circuit, announced, aR, aD, aL, wR, wD, wL)
  BY <1>0, TalkIs
<1>2. IsScript(D) /\ IsScript(L) /\ wL \in Seq(Units)
  BY <1>1, StreamsTyped
<1>u. UNCHANGED <<circuit, announced, asked>>
  BY DEF BridgeClosed
<1>3. Shaped' /\ Talk'
  <2>1. CASE s = "Dialer"
    <3>1. PICK v : v = Tail(wD)
      OBVIOUS
    <3>2. wD # << >> /\ Head(wD) = Fin
      BY <1>1, <2>1 DEF BridgeClosed, Parts
    <3>3. Consistent(D, L, circuit, announced, aR, aD, aL, wR, v, wL)
      BY ONLY <1>1, <3>1, <3>2, DialerFin
    <3>4. script' = script
      BY <1>0, <2>1 DEF BridgeClosed, OnBridgeClosed, Shaped
    <3>5. wire' = [wire EXCEPT !["Dialer"] = v]
      BY <1>1, <2>1, <3>1 DEF BridgeClosed, Parts
    <3>6. Shaped' /\ wire'["Dialer"] = v /\ wire'["Reserve"] = wR /\ wire'["Listener"] = wL
      BY <1>0, <1>1, <1>u, <3>4, <3>5 DEF Shaped, Streams, Parts
    <3>7. Talk'
      BY <1>1, <1>u, <3>3, <3>4, <3>6 DEF Talk, Parts
    <3> QED
      BY <3>6, <3>7
  <2>2. CASE s = "Listener"
    <3>1. PICK v : v = Tail(wL)
      OBVIOUS
    <3>2. wL # << >> /\ Head(wL) = Fin
      BY <1>1, <2>2 DEF BridgeClosed, Parts
    <3>3. Consistent(D, L, circuit, announced, aR, aD, aL, wR, wD, v)
      BY ONLY <1>1, <3>1, <3>2, ListenerFin
    <3>4. wL \notin Seq(Clear)
      BY <3>2, UnitsDiffer
    <3>5. circuit = "closed" \/ D.result = "ping-direct"
      BY <1>1, <3>4 DEF Consistent, Meaning
    <3>6. PICK F : F = OnBridgeClosed("Listener", L)
      OBVIOUS
    <3>7. Consistent(D, F, circuit, announced, aR, aD, aL, wR, wD, v)
      <4>1. CASE L.at \in {"punch", "fallback"}
        <5>1. PICK result : result = "bridge-closed"
          OBVIOUS
        <5>2. F = Ends(L, result) /\ L.at # "ended"
          BY <3>6, <4>1, <5>1 DEF OnBridgeClosed
        <5>3. Finishes(F, L, result)
          BY ONLY <1>2, <5>2, ScriptEnds
        <5>4. result \in Results \ {None, "protocol"} /\ (result = "bridge-closed" => D.result = "ping-direct" \/ circuit = "closed")
          BY <3>5, <5>1, AbsentAssumption DEF Results
        <5> QED
          BY ONLY <3>3, <5>2, <5>3, <5>4, ListenerEnds
      <4>2. CASE L.at \notin {"punch", "fallback"}
        <5>1. F = L
          BY <3>6, <4>2 DEF OnBridgeClosed
        <5> QED
          BY ONLY <3>3, <5>1
      <4> QED
        BY <4>1, <4>2
    <3>8. script' = [script EXCEPT !["Listener"] = F] /\ wire' = [wire EXCEPT !["Listener"] = v]
      BY <1>1, <2>2, <3>1, <3>6 DEF BridgeClosed, Parts
    <3>9. /\ Shaped' /\ wire'["Listener"] = v /\ wire'["Reserve"] = wR /\ wire'["Dialer"] = wD
          /\ script'["Dialer"] = D /\ script'["Listener"] = F
      BY <1>0, <1>1, <1>u, <3>8 DEF Shaped, Streams, Sides, Parts
    <3>10. Talk'
      BY <1>1, <1>u, <3>7, <3>9 DEF Talk, Parts
    <3> QED
      BY <3>9, <3>10
  <2> QED
    BY <2>1, <2>2 DEF Sides
<1>4. Direct'
  BY DEF HolePunchInv, Direct, BridgeClosed, direct
<1> QED
  BY <1>3, <1>4 DEF HolePunchInv

\* What OnData does for run_dial.
LEMMA DialerDataIs ==
    ASSUME NEW sc, NEW a, NEW st, st = OnData("Dialer", sc, a),
           sc.at \in Early \cup {"hop", "dcutr"} \cup Past
    PROVE  /\ sc.at = "hop" => st = DialerHop(sc, a)
           /\ sc.at = "dcutr" => st = DialerDcutr(sc, a)
           /\ sc.at = "echo" /\ a = Payload => st = Step(Ends(sc, "ping-via-relay"), << >>)
           /\ sc.at \notin {"hop", "dcutr"} /\ ~(sc.at = "echo" /\ a = Payload) => st = Step(sc, << >>)
<1>1. PICK at : at = sc.at
  OBVIOUS
<1>2. PICK h, p, d, e, f, x :
        /\ h = DialerHop(sc, a) /\ p = ListenerStop(sc, a) /\ d = DialerDcutr(sc, a)
        /\ e = Step(Ends(sc, "ping-via-relay"), << >>) /\ f = Step(Ends(sc, "relay-ping-echoed"), a)
        /\ x = Step(sc, << >>)
  OBVIOUS
<1>3. st = CASE at = "hop" -> h
             [] at = "stop" -> p
             [] at = "dcutr" -> d
             [] at = "echo" /\ a = Payload -> e
             [] at = "fallback" -> f
             [] OTHER -> x
  BY <1>1, <1>2 DEF OnData
<1>4. PICK y \in BOOLEAN : y <=> a = Payload
  OBVIOUS
<1>5. st = CASE at = "hop" -> h
             [] at = "stop" -> p
             [] at = "dcutr" -> d
             [] at = "echo" /\ y -> e
             [] at = "fallback" -> f
             [] OTHER -> x
  BY ONLY <1>3, <1>4
<1>6. at \notin {"stop", "fallback"}
  BY <1>1 DEF Early, Past
<1>7. /\ at = "hop" => st = h
      /\ at = "dcutr" => st = d
      /\ at = "echo" /\ y => st = e
      /\ at \notin {"hop", "dcutr"} /\ ~(at = "echo" /\ y) => st = x
  BY ONLY <1>5, <1>6
<1> QED
  BY ONLY <1>1, <1>2, <1>4, <1>7

\* What OnData does for run_listen.
LEMMA ListenerDataIs ==
    ASSUME NEW sc, NEW a, NEW st, st = OnData("Listener", sc, a),
           sc.at \in Early \cup {"reserve", "inbound", "stop", "dcutr", "ended"} \cup Later
    PROVE  /\ sc.at = "stop" => st = ListenerStop(sc, a)
           /\ sc.at = "dcutr" => st = ListenerDcutr(sc, a)
           /\ sc.at = "fallback" => st = Step(Ends(sc, "relay-ping-echoed"), a)
           /\ sc.at \notin {"stop", "dcutr", "fallback"} => st = Step(sc, << >>)
<1>1. PICK at : at = sc.at
  OBVIOUS
<1>2. PICK h, p, d, e, f, x :
        /\ h = DialerHop(sc, a) /\ p = ListenerStop(sc, a) /\ d = ListenerDcutr(sc, a)
        /\ e = Step(Ends(sc, "ping-via-relay"), << >>) /\ f = Step(Ends(sc, "relay-ping-echoed"), a)
        /\ x = Step(sc, << >>)
  OBVIOUS
<1>3. st = CASE at = "hop" -> h
             [] at = "stop" -> p
             [] at = "dcutr" -> d
             [] at = "echo" /\ a = Payload -> e
             [] at = "fallback" -> f
             [] OTHER -> x
  BY <1>1, <1>2 DEF OnData
<1>6. at \notin {"hop", "echo"}
  BY <1>1 DEF Early, Later
<1>7. /\ at = "stop" => st = p
      /\ at = "dcutr" => st = d
      /\ at = "fallback" => st = f
      /\ at \notin {"stop", "dcutr", "fallback"} => st = x
  BY ONLY <1>3, <1>6
<1> QED
  BY ONLY <1>1, <1>2, <1>7

\* The relayed ping comes back only from a listener that has echoed.
LEMMA EchoIsNotPlain ==
    ASSUME NEW w \in Seq(Plain), NEW z \in Seq(Units), w = Payload \o z
    PROVE  FALSE
<1>1. Payload \in Seq(DataUnits) /\ Len(Payload) >= 1
  BY PayloadIs
<1>2. 1 \in 1 .. Len(Payload) /\ Payload[1] \in DataUnits
  BY <1>1
<1>3. w[1] = Payload[1] /\ Len(w) >= 1
  BY <1>1, <1>2
<1>4. w[1] \in Plain
  BY <1>3
<1> QED
  BY <1>2, <1>3, <1>4, UnitsDiffer

\* What is taken from a stream leaves units of the same kind.
LEMMA RestIn ==
    ASSUME NEW X, NEW w \in Seq(X), NEW n \in 1 .. Len(w), NEW z, z = SubSeq(w, n + 1, Len(w))
    PROVE  z \in Seq(X)
OBVIOUS

\* run_dial takes units from its stream.
LEMMA DialerData ==
    ASSUME NEW D, NEW L, NEW c, NEW an, NEW aR, NEW aD, NEW aL, NEW wR, NEW wD, NEW wL,
           Consistent(D, L, c, an, aR, aD, aL, wR, wD, wL),
           NEW n \in 1 .. Len(wD), NEW a, a = SubSeq(wD, 1, n), \A i \in DOMAIN a : a[i] # Fin,
           NEW z, z = SubSeq(wD, n + 1, Len(wD)), NEW st, st = OnData("Dialer", D, a), NEW E, E = st.script,
           NEW b, b = Asks(c, aD, st.out), NEW v, v = Sent(c, wL, st.out)
    PROVE  Consistent(E, L, c, an, aR, b, aL, wR, z, v)
<1>1. /\ IsScript(D) /\ wD \in Seq(Units)
      /\ Asks(c, aD, << >>) = aD /\ Sent(c, wL, << >>) = wL
  BY StreamsTyped
<1>0. wD \in Seq(Units)
  BY <1>1
<1>t. Takes(wD, a, z)
  BY ONLY <1>0, n \in 1 .. Len(wD), a = SubSeq(wD, 1, n), z = SubSeq(wD, n + 1, Len(wD)),
          \A i \in DOMAIN a : a[i] # Fin, DataTakes
<1>2. Takes(wD, a, z) /\ a \in Seq(Clear) /\ a # << >> /\ z \in Seq(Units) /\ a \o z = wD
  BY ONLY <1>t, TakesAre
<1>3. wD \in Seq(Plain) => z \in Seq(Plain)
  BY ONLY n \in 1 .. Len(wD), z = SubSeq(wD, n + 1, Len(wD)), RestIn
<1>4. wD # << >>
  BY <1>2, SomeTaken
<1>5. D.at \in Early \cup {"hop", "dcutr"} \cup Past
  BY DEF Consistent, Typed
<1>6. /\ D.at = "hop" => st = DialerHop(D, a)
      /\ D.at = "dcutr" => st = DialerDcutr(D, a)
      /\ D.at = "echo" /\ a = Payload => st = Step(Ends(D, "ping-via-relay"), << >>)
      /\ D.at \notin {"hop", "dcutr"} /\ ~(D.at = "echo" /\ a = Payload) => st = Step(D, << >>)
  BY ONLY <1>5, st = OnData("Dialer", D, a), DialerDataIs
<1>7. CASE D.at = "hop"
  <2>1. st = DialerHop(D, a)
    BY ONLY <1>6, <1>7
  <2> QED
    BY ONLY Consistent(D, L, c, an, aR, aD, aL, wR, wD, wL), <1>2, <1>3, <1>7, <2>1, E = st.script,
            b = Asks(c, aD, st.out), v = Sent(c, wL, st.out), HopData
<1>8. CASE D.at = "dcutr"
  <2>1. st = DialerDcutr(D, a)
    BY ONLY <1>6, <1>8
  <2> QED
    BY ONLY Consistent(D, L, c, an, aR, aD, aL, wR, wD, wL), <1>2, <1>3, <1>8, <2>1, E = st.script,
            b = Asks(c, aD, st.out), v = Sent(c, wL, st.out), ReplyData
<1>9. ASSUME D.at \notin {"hop", "dcutr"}
      PROVE  Consistent(D, L, c, an, aR, aD, aL, wR, z, wL)
  BY ONLY Consistent(D, L, c, an, aR, aD, aL, wR, wD, wL), <1>2, <1>3, <1>4, <1>9, DialerDrops
<1>10. CASE D.at = "echo" /\ a = Payload
  <2>1. PICK result, X : result = "ping-via-relay" /\ X = Ends(D, result)
    OBVIOUS
  <2>2. st = Step(X, << >>)
    BY ONLY <1>6, <1>10, <2>1
  <2>3. E = X /\ st.out = << >>
    BY ONLY <2>2, E = st.script, StepParts
  <2>4. b = aD /\ v = wL
    BY <1>1, <2>3
  <2>5. wD \notin Seq(Plain)
    BY <1>2, <1>10, EchoIsNotPlain
  <2>6. L.result = "relay-ping-echoed"
    BY <2>5 DEF Consistent, Meaning
  <2>7. Finishes(E, D, result)
    BY ONLY <1>1, <2>1, <2>3, ScriptEnds
  <2>8. Consistent(D, L, c, an, aR, aD, aL, wR, z, wL)
    BY <1>9, <1>10
  <2>9. /\ result \in Results \ {None, "protocol"} /\ D.at # "ended"
        /\ result = "ping-via-relay" => L.result = "relay-ping-echoed"
    BY <1>10, <2>1, <2>6, AbsentAssumption DEF Results
  <2>10. Consistent(E, L, c, an, aR, aD, aL, wR, z, wL)
    BY ONLY <2>7, <2>8, <2>9, DialerEnds
  <2> QED
    BY ONLY <2>4, <2>10
<1>11. CASE D.at \notin {"hop", "dcutr"} /\ ~(D.at = "echo" /\ a = Payload)
  <2>1. st = Step(D, << >>)
    BY ONLY <1>6, <1>11
  <2>2. E = D /\ st.out = << >>
    BY ONLY <2>1, E = st.script, StepParts
  <2>3. b = aD /\ v = wL
    BY <1>1, <2>2
  <2> QED
    BY <1>9, <1>11, <2>2, <2>3
<1> QED
  BY <1>7, <1>8, <1>10, <1>11

\* run_listen takes units from the STOP stream.
LEMMA ListenerData ==
    ASSUME NEW D, NEW L, NEW c, NEW an, NEW aR, NEW aD, NEW aL, NEW wR, NEW wD, NEW wL,
           Consistent(D, L, c, an, aR, aD, aL, wR, wD, wL), an,
           NEW n \in 1 .. Len(wL), NEW a, a = SubSeq(wL, 1, n), \A i \in DOMAIN a : a[i] # Fin,
           NEW z, z = SubSeq(wL, n + 1, Len(wL)), NEW st, st = OnData("Listener", L, a), NEW F, F = st.script,
           NEW b, b = Asks(c, aL, st.out), NEW v, v = Sent(c, wD, st.out)
    PROVE  Consistent(D, F, c, an, aR, aD, b, wR, v, z)
<1>1. /\ IsScript(L) /\ wL \in Seq(Units) /\ wD \in Seq(Units)
      /\ Asks(c, aL, << >>) = aL /\ Sent(c, wD, << >>) = wD
  BY ONLY Consistent(D, L, c, an, aR, aD, aL, wR, wD, wL), StreamsTyped
<1>0. wL \in Seq(Units)
  BY <1>1
<1>t. Takes(wL, a, z)
  BY ONLY <1>0, n \in 1 .. Len(wL), a = SubSeq(wL, 1, n), z = SubSeq(wL, n + 1, Len(wL)),
          \A i \in DOMAIN a : a[i] # Fin, DataTakes
<1>2. Takes(wL, a, z) /\ a \in Seq(Clear) /\ a # << >> /\ z \in Seq(Units) /\ a \o z = wL
  BY ONLY <1>t, TakesAre
<1>3. wL \in Seq(Clear) => z \in Seq(Clear)
  BY ONLY n \in 1 .. Len(wL), z = SubSeq(wL, n + 1, Len(wL)), RestIn
<1>4. wL # << >>
  BY <1>2, SomeTaken
<1>5. L.at \in Early \cup {"reserve", "inbound", "stop", "dcutr", "ended"} \cup Later
  BY DEF Consistent, Typed
<1>6. /\ L.at = "stop" => st = ListenerStop(L, a)
      /\ L.at = "dcutr" => st = ListenerDcutr(L, a)
      /\ L.at = "fallback" => st = Step(Ends(L, "relay-ping-echoed"), a)
      /\ L.at \notin {"stop", "dcutr", "fallback"} => st = Step(L, << >>)
  BY ONLY <1>5, st = OnData("Listener", L, a), ListenerDataIs
<1>7. CASE L.at = "stop"
  <2>1. st = ListenerStop(L, a)
    BY ONLY <1>6, <1>7
  <2> QED
    BY ONLY Consistent(D, L, c, an, aR, aD, aL, wR, wD, wL), <1>2, <1>3, <1>7, <2>1, F = st.script,
            b = Asks(c, aL, st.out), v = Sent(c, wD, st.out), StopStreamData
<1>8. CASE L.at = "dcutr"
  <2>1. st = ListenerDcutr(L, a)
    BY ONLY <1>6, <1>8
  <2> QED
    BY ONLY Consistent(D, L, c, an, aR, aD, aL, wR, wD, wL), <1>2, <1>3, <1>8, <2>1, F = st.script,
            b = Asks(c, aL, st.out), v = Sent(c, wD, st.out), DcutrData
<1>9. ASSUME L.at \notin {"stop", "dcutr"}
      PROVE  Consistent(D, L, c, an, aR, aD, aL, wR, wD, z)
  BY ONLY Consistent(D, L, c, an, aR, aD, aL, wR, wD, wL), an, <1>2, <1>3, <1>4, <1>9, ListenerDrops
<1>10. CASE L.at = "fallback"
  <2>1. PICK result, X : result = "relay-ping-echoed" /\ X = Ends(L, result)
    OBVIOUS
  <2>2. st = Step(X, a)
    BY ONLY <1>6, <1>10, <2>1
  <2>3. F = X /\ st.out = a
    BY ONLY <2>2, F = st.script, StepParts
  <2>4. c \in OnceBridged /\ D.at \in Past
    BY <1>10 DEF Consistent, Following, Later
  <2>5. b = aL
    BY <2>4 DEF Asks
  <2>6. v \in Seq(Units)
    <3>1. a \in Seq(Units)
      BY <1>2, UnitSeqs
    <3>2. wD \o a \in Seq(Units)
      BY ONLY <1>1, <3>1
    <3> QED
      BY <1>1, <2>3, <3>2 DEF Sent
  <2>7. Finishes(F, L, result)
    BY ONLY <1>1, <2>1, <2>3, ScriptEnds
  <2>8. Consistent(D, L, c, an, aR, aD, aL, wR, wD, z)
    BY <1>9, <1>10
  <2>9. result \in Results \ {None, "protocol"} /\ L.at # "ended" /\ result # "bridge-closed"
    BY <1>10, <2>1, AbsentAssumption DEF Results
  <2>10. Consistent(D, F, c, an, aR, aD, aL, wR, wD, z)
    BY ONLY <2>7, <2>8, <2>9, ListenerEnds
  <2>11. F.result = "relay-ping-echoed"
    BY <2>1, <2>7 DEF Finishes
  <2>12. Consistent(D, F, c, an, aR, aD, aL, wR, v, z)
    BY ONLY <2>4, <2>6, <2>10, <2>11, EchoToDialer
  <2> QED
    BY ONLY <2>5, <2>12
<1>11. CASE L.at \notin {"stop", "dcutr", "fallback"}
  <2>1. st = Step(L, << >>)
    BY ONLY <1>6, <1>11
  <2>2. F = L /\ st.out = << >>
    BY ONLY <2>1, F = st.script, StepParts
  <2>3. b = aL /\ v = wD
    BY <1>1, <2>2
  <2> QED
    BY <1>9, <1>11, <2>2, <2>3
<1> QED
  BY <1>7, <1>8, <1>10, <1>11

\* UserStreamData on the bridge.
LEMMA BridgeDataHolds ==
    ASSUME HolePunchInv, NEW s \in Sides, NEW n \in 1 .. MaxWire, BridgeData(s, n) PROVE HolePunchInv'
<1>0. Shaped /\ Talk
  BY DEF HolePunchInv
<1>1. PICK D, L, aR, aD, aL, wR, wD, wL :
             /\ Parts(D, L, aR, aD, aL, wR, wD, wL)
             /\ Consistent(D, L, circuit, announced, aR, aD, aL, wR, wD, wL)
  BY <1>0, TalkIs
<1>u. UNCHANGED <<circuit, announced>>
  BY DEF BridgeData
<1>2. PICK w, a, st, z :
        w = wire[s] /\ a = SubSeq(w, 1, n) /\ st = OnData(s, script[s], a) /\ z = SubSeq(w, n + 1, Len(w))
  OBVIOUS
<1>3. PICK to : to = [wire EXCEPT ![s] = z]
  OBVIOUS
<1>4. /\ n <= Len(w) /\ (\A i \in DOMAIN a : a[i] # Fin) /\ (s = "Listener" => announced)
      /\ script' = [script EXCEPT ![s] = st.script] /\ Writes(s, st.out, to)
  BY <1>2, <1>3 DEF BridgeData
<1>5. w \in Seq(Units)
  BY <1>1, <1>2, StreamsTyped DEF Parts, Sides
<1>6. n \in 1 .. Len(w)
  BY <1>4, <1>5
<1>7. PICK sc, units : sc = st.script /\ units = st.out
  OBVIOUS
<1>8. Shaped' /\ Talk'
  <2>1. CASE s = "Dialer"
    <3>1. w = wD /\ st = OnData("Dialer", D, a)
      BY <1>1, <1>2, <2>1 DEF Parts
    <3>2. PICK b, v : b = Asks(circuit, aD, st.out) /\ v = Sent(circuit, wL, st.out)
      OBVIOUS
    <3>3. n \in 1 .. Len(wD) /\ a = SubSeq(wD, 1, n) /\ z = SubSeq(wD, n + 1, Len(wD))
      BY ONLY <1>2, <1>6, <3>1
    <3>4. Consistent(sc, L, circuit, announced, aR, b, aL, wR, z, v)
      BY ONLY <1>1, <1>4, <1>7, <3>1, <3>2, <3>3, DialerData
    <3>5. /\ to = [x \in Streams |-> to[x]] /\ to["Reserve"] = wR /\ to["Listener"] = wL /\ z = to["Dialer"]
      BY <1>0, <1>1, <1>3, <2>1 DEF Shaped, Streams, Parts
    <3>6. script' = [script EXCEPT !["Dialer"] = sc] /\ Writes("Dialer", units, to)
      BY <1>4, <1>7, <2>1
    <3>7. b = Asks(circuit, aD, units) /\ v = Sent(circuit, wL, units)
      BY ONLY <1>7, <3>2
    <3> QED
      BY ONLY <1>0, <1>1, <1>u, <3>4, <3>5, <3>6, <3>7, DialerWrites
  <2>2. CASE s = "Listener"
    <3>1. w = wL /\ st = OnData("Listener", L, a) /\ announced
      BY <1>1, <1>2, <1>4, <2>2 DEF Parts
    <3>2. PICK b, v : b = Asks(circuit, aL, st.out) /\ v = Sent(circuit, wD, st.out)
      OBVIOUS
    <3>3. n \in 1 .. Len(wL) /\ a = SubSeq(wL, 1, n) /\ z = SubSeq(wL, n + 1, Len(wL))
      BY ONLY <1>2, <1>6, <3>1
    <3>4. Consistent(D, sc, circuit, announced, aR, aD, b, wR, v, z)
      BY ONLY <1>1, <1>4, <1>7, <3>1, <3>2, <3>3, ListenerData
    <3>5. /\ to = [x \in Streams |-> to[x]] /\ to["Reserve"] = wR /\ to["Dialer"] = wD /\ z = to["Listener"]
      BY <1>0, <1>1, <1>3, <2>2 DEF Shaped, Streams, Parts
    <3>6. script' = [script EXCEPT !["Listener"] = sc] /\ Writes("Listener", units, to)
      BY <1>4, <1>7, <2>2
    <3>7. b = Asks(circuit, aL, units) /\ v = Sent(circuit, wD, units)
      BY ONLY <1>7, <3>2
    <3> QED
      BY ONLY <1>0, <1>1, <1>u, <3>4, <3>5, <3>6, <3>7, ListenerWrites
  <2> QED
    BY <2>1, <2>2 DEF Sides
<1>9. Direct'
  <2>1. UNCHANGED <<now, current, pinging>> /\ Dials(s, sc)
    BY <1>2, <1>7 DEF BridgeData
  <2>2. conn \in [Sides -> Phases] /\ "dialed" \in Phases
    BY DEF HolePunchInv, Direct, Phases
  <2>3. conn' \in [Sides -> Phases]
    BY <2>1, <2>2 DEF Dials
  <2> QED
    BY <2>1, <2>3 DEF HolePunchInv, Direct
<1> QED
  BY <1>8, <1>9 DEF HolePunchInv

\* Single requests have nothing behind them.
LEMMA RequestsAlone == RestOf(ReserveF) = << >> /\ RestOf(HopF) = << >>
<1>1. PICK e, f : e = ReserveF /\ f = HopF
  OBVIOUS
<1>2. e \in Seq(FrameUnits) /\ Len(e) = FrameLen /\ f \in Seq(FrameUnits) /\ Len(f) = FrameLen
  BY <1>1, FrameIs, MessagesAre DEF ReserveF, HopF
<1>3. RestOf(e) = << >> /\ RestOf(f) = << >>
  BY <1>2, FramesAssumption DEF RestOf
<1> QED
  BY <1>1, <1>3

\* The answer to RESERVE, or what comes after it.
LEMMA ReservationAnsweredHolds ==
    ASSUME HolePunchInv, NEW n \in 1 .. MaxWire, ReservationAnswered(n) PROVE HolePunchInv'
<1>0. Shaped /\ Talk
  BY DEF HolePunchInv
<1>1. PICK D, L, aR, aD, aL, wR, wD, wL :
             /\ Parts(D, L, aR, aD, aL, wR, wD, wL)
             /\ Consistent(D, L, circuit, announced, aR, aD, aL, wR, wD, wL)
  BY <1>0, TalkIs
<1>u. UNCHANGED <<circuit, announced, asked>>
  BY DEF ReservationAnswered
<1>2. PICK a, z : a = SubSeq(wR, 1, n) /\ z = SubSeq(wR, n + 1, Len(wR))
  OBVIOUS
<1>w. wire["Reserve"] = wR
  BY <1>1 DEF Parts
<1>3. wR \in Seq(Clear)
  BY ONLY <1>1, StreamsTyped
<1>4. n \in 1 .. Len(wR)
  BY <1>3, <1>w DEF ReservationAnswered
<1>5. z \in Seq(Clear)
  BY ONLY <1>2, <1>3, <1>4, RestIn
<1>6. Takes(wR, a, z)
  <2>1. wR \in Seq(Units)
    BY <1>3, UnitSeqs
  <2>2. a \in Seq(Clear)
    BY <1>2, <1>3, <1>4
  <2>3. \A i \in DOMAIN a : a[i] # Fin
    BY <2>2, UnitsDiffer
  <2>4. a = SubSeq(wR, 1, n)
    BY <1>2
  <2>5. z = SubSeq(wR, n + 1, Len(wR))
    BY <1>2
  <2> QED
    BY ONLY <1>4, <2>1, <2>3, <2>4, <2>5, DataTakes
<1>7. wR # << >>
  BY <1>6, SomeTaken
<1>8. wire' = [wire EXCEPT !["Reserve"] = z]
  BY <1>2, <1>w DEF ReservationAnswered
<1>9. wire'["Reserve"] = z /\ wire'["Dialer"] = wD /\ wire'["Listener"] = wL /\ wire' = [x \in Streams |-> wire'[x]]
  BY <1>0, <1>1, <1>8 DEF Shaped, Streams, Parts
<1>10. Shaped' /\ Talk'
  <2>1. CASE L.at # "reserve"
    <3>1. Consistent(D, L, circuit, announced, aR, aD, aL, z, wD, wL)
      BY ONLY <1>1, <1>5, <1>7, <2>1, ReserveDrops
    <3>2. script' = script
      BY <1>1, <2>1 DEF ReservationAnswered, At, Parts
    <3>3. Talk'
      BY <1>1, <1>u, <1>9, <3>1, <3>2 DEF Talk, Parts
    <3> QED
      BY <1>0, <1>u, <1>9, <3>2, <3>3 DEF Shaped
  <2>2. CASE L.at = "reserve"
    <3>1. PICK F : F = ListenerReserve(L, a).script
      OBVIOUS
    <3>2. Consistent(D, F, circuit, announced, aR, aD, aL, z, wD, wL)
      BY ONLY <1>1, <1>5, <1>6, <2>2, <3>1, ReserveData
    <3>3. script' = [script EXCEPT !["Listener"] = F]
      BY <1>1, <1>2, <1>w, <2>2, <3>1 DEF ReservationAnswered, At, Parts
    <3>4. script'["Dialer"] = D /\ script'["Listener"] = F /\ script' = [s \in Sides |-> script'[s]]
      BY <1>0, <1>1, <3>3 DEF Shaped, Sides, Parts
    <3>5. Talk'
      BY <1>1, <1>u, <1>9, <3>2, <3>4 DEF Talk, Parts
    <3> QED
      BY <1>0, <1>u, <1>9, <3>4, <3>5 DEF Shaped
  <2> QED
    BY <2>1, <2>2
<1>11. Direct'
  BY DEF HolePunchInv, Direct, ReservationAnswered, direct
<1> QED
  BY <1>10, <1>11 DEF HolePunchInv

\* The relay answers RESERVE.
LEMMA RelayReservesHolds == ASSUME HolePunchInv, RelayReserves PROVE HolePunchInv'
<1>0. Shaped /\ Talk
  BY DEF HolePunchInv
<1>1. PICK D, L, aR, aD, aL, wR, wD, wL :
             /\ Parts(D, L, aR, aD, aL, wR, wD, wL)
             /\ Consistent(D, L, circuit, announced, aR, aD, aL, wR, wD, wL)
  BY <1>0, TalkIs
<1>u. UNCHANGED <<script, announced>>
  BY DEF RelayReserves
<1>w. wire["Reserve"] = wR /\ asked["Reserve"] = aR
  BY <1>1 DEF Parts
<1>2. PICK status \in {"Ok", "ReservationRefused"} :
        /\ wire' = [wire EXCEPT !["Reserve"] = @ \o StatusF(status)]
        /\ circuit' = IF status = "Ok" THEN "reserved" ELSE circuit
  BY DEF RelayReserves, StatusF
<1>3. PICK v, d : v = wR \o StatusF(status) /\ d = IF status = "Ok" THEN "reserved" ELSE circuit
  OBVIOUS
<1>4. aR # << >> /\ aR = ReserveF
  BY <1>1, <1>w DEF RelayReserves, Request, Consistent, Reserving
<1>5. Consistent(D, L, d, announced, << >>, aD, aL, v, wD, wL)
  BY ONLY <1>1, <1>2, <1>3, <1>4, RelayGrants
<1>6. wire' = [wire EXCEPT !["Reserve"] = v] /\ circuit' = d
  BY <1>2, <1>3, <1>w
<1>7. asked' = [asked EXCEPT !["Reserve"] = << >>]
  BY <1>4, <1>w, RequestsAlone DEF RelayReserves, Answered
<1>8. /\ Shaped' /\ wire'["Reserve"] = v /\ wire'["Dialer"] = wD /\ wire'["Listener"] = wL
      /\ asked'["Reserve"] = << >> /\ asked'["Dialer"] = aD /\ asked'["Listener"] = aL
  BY <1>0, <1>1, <1>u, <1>6, <1>7 DEF Shaped, Streams, Parts
<1>9. Talk'
  BY <1>1, <1>u, <1>5, <1>6, <1>8 DEF Talk, Parts
<1>10. Direct'
  BY DEF HolePunchInv, Direct, RelayReserves, direct
<1> QED
  BY <1>8, <1>9, <1>10 DEF HolePunchInv

\* The relay answers HOP CONNECT, or opens the STOP stream.
LEMMA RelayConnectsHolds == ASSUME HolePunchInv, RelayConnects PROVE HolePunchInv'
<1>0. Shaped /\ Talk
  BY DEF HolePunchInv
<1>1. PICK D, L, aR, aD, aL, wR, wD, wL :
             /\ Parts(D, L, aR, aD, aL, wR, wD, wL)
             /\ Consistent(D, L, circuit, announced, aR, aD, aL, wR, wD, wL)
  BY <1>0, TalkIs
<1>u. UNCHANGED <<script, announced>> /\ circuit \in {"none", "reserved"}
  BY DEF RelayConnects
<1>w. wire["Listener"] = wL /\ wire["Dialer"] = wD /\ asked["Dialer"] = aD
  BY <1>1 DEF Parts
<1>4. aD # << >> /\ aD = HopF
  BY <1>1, <1>w DEF RelayConnects, Request, Consistent, Asking
<1>7. asked' = [asked EXCEPT !["Dialer"] = << >>]
  BY <1>4, <1>w, RequestsAlone DEF RelayConnects, Answered
<1>8. /\ asked'["Reserve"] = aR /\ asked'["Dialer"] = << >> /\ asked'["Listener"] = aL
      /\ asked' = [x \in Streams |-> asked'[x]]
  BY <1>0, <1>1, <1>7 DEF Shaped, Streams, Parts
<1>9. Shaped' /\ Talk'
  <2>1. CASE circuit = "reserved"
    <3>1. PICK v : v = wL \o StopF
      OBVIOUS
    <3>2. Consistent(D, L, "offered", announced, aR, << >>, aL, wR, wD, v)
      BY ONLY <1>1, <1>4, <2>1, <3>1, RelayOffers
    <3>3. wire' = [wire EXCEPT !["Listener"] = v] /\ circuit' = "offered"
      BY <1>w, <2>1, <3>1 DEF RelayConnects, StopF
    <3>4. /\ wire'["Reserve"] = wR /\ wire'["Dialer"] = wD /\ wire'["Listener"] = v
          /\ wire' = [x \in Streams |-> wire'[x]]
      BY <1>0, <1>1, <3>3 DEF Shaped, Streams, Parts
    <3>5. Talk'
      BY <1>1, <1>u, <1>8, <3>2, <3>3, <3>4 DEF Talk, Parts
    <3> QED
      BY <1>0, <1>u, <1>8, <3>4, <3>5 DEF Shaped
  <2>2. CASE circuit = "none"
    <3>1. PICK v : v = wD \o StatusF("NoReservation")
      OBVIOUS
    <3>2. Consistent(D, L, circuit, announced, aR, << >>, aL, wR, v, wL)
      BY ONLY <1>1, <1>4, <2>2, <3>1, RelayDeclines
    <3>3. wire' = [wire EXCEPT !["Dialer"] = v] /\ circuit' = circuit
      BY <1>w, <2>2, <3>1 DEF RelayConnects, StatusF
    <3>4. /\ wire'["Reserve"] = wR /\ wire'["Dialer"] = v /\ wire'["Listener"] = wL
          /\ wire' = [x \in Streams |-> wire'[x]]
      BY <1>0, <1>1, <3>3 DEF Shaped, Streams, Parts
    <3>5. Talk'
      BY <1>1, <1>u, <1>8, <3>2, <3>3, <3>4 DEF Talk, Parts
    <3> QED
      BY <1>0, <1>u, <1>8, <3>4, <3>5 DEF Shaped
  <2> QED
    BY <1>u, <2>1, <2>2
<1>10. Direct'
  BY DEF HolePunchInv, Direct, RelayConnects, direct
<1> QED
  BY <1>9, <1>10 DEF HolePunchInv

\* The relay bridges.
LEMMA RelayBridgesHolds == ASSUME HolePunchInv, RelayBridges PROVE HolePunchInv'
<1>0. Shaped /\ Talk
  BY DEF HolePunchInv
<1>1. PICK D, L, aR, aD, aL, wR, wD, wL :
             /\ Parts(D, L, aR, aD, aL, wR, wD, wL)
             /\ Consistent(D, L, circuit, announced, aR, aD, aL, wR, wD, wL)
  BY <1>0, TalkIs
<1>u. UNCHANGED <<script, announced>> /\ circuit = "offered" /\ circuit' = "bridged"
  BY DEF RelayBridges
<1>w. wire["Dialer"] = wD /\ asked["Listener"] = aL
  BY <1>1 DEF Parts
<1>2. PICK v : v = (wD \o StatusF("Ok")) \o RestOf(aL)
  OBVIOUS
<1>3. aL # << >>
  BY <1>w DEF RelayBridges, Request
<1>4. circuit = "offered"
  BY <1>u
<1>5. Consistent(D, L, "bridged", announced, aR, << >>, << >>, wR, v, wL)
  BY ONLY <1>1, <1>2, <1>3, <1>4, RelayJoins
<1>6. wire' = [wire EXCEPT !["Dialer"] = v]
  BY <1>2, <1>w DEF RelayBridges, StatusF
<1>7. asked' = [asked EXCEPT !["Dialer"] = << >>, !["Listener"] = << >>]
  BY DEF RelayBridges
<1>8. /\ Shaped' /\ wire'["Reserve"] = wR /\ wire'["Dialer"] = v /\ wire'["Listener"] = wL
      /\ asked'["Reserve"] = aR /\ asked'["Dialer"] = << >> /\ asked'["Listener"] = << >>
  BY <1>0, <1>1, <1>u, <1>6, <1>7 DEF Shaped, Streams, Parts
<1>9. Talk'
  BY <1>1, <1>u, <1>5, <1>8 DEF Talk, Parts
<1>10. Direct'
  BY DEF HolePunchInv, Direct, RelayBridges, direct
<1> QED
  BY <1>8, <1>9, <1>10 DEF HolePunchInv

\* The relay drops the circuit.
LEMMA RelayClosesHolds == ASSUME HolePunchInv, RelayCloses PROVE HolePunchInv'
<1>0. Shaped /\ Talk
  BY DEF HolePunchInv
<1>1. PICK D, L, aR, aD, aL, wR, wD, wL :
             /\ Parts(D, L, aR, aD, aL, wR, wD, wL)
             /\ Consistent(D, L, circuit, announced, aR, aD, aL, wR, wD, wL)
  BY <1>0, TalkIs
<1>u. UNCHANGED <<script, announced, asked>> /\ circuit' = "closed"
  BY DEF RelayCloses
<1>b. circuit = "bridged"
  BY DEF RelayCloses, Bridged
<1>w. wire["Dialer"] = wD /\ wire["Listener"] = wL
  BY <1>1 DEF Parts
<1>2. PICK d : d = "closed"
  OBVIOUS
<1>3. Consistent(D, L, "closed", announced, aR, aD, aL, wR, wD, wL)
  BY ONLY <1>1, <1>b, CircuitCloses
<1>4. Consistent(D, L, d, announced, aR, aD, aL, wR, wD, wL)
  BY ONLY <1>2, <1>3
<1>5. PICK v, w : v = wD \o <<Fin>> /\ w = wL \o <<Fin>>
  OBVIOUS
<1>6. Consistent(D, L, d, announced, aR, aD, aL, wR, v, wL)
  BY ONLY <1>2, <1>4, <1>5, FinToDialer
<1>7. Consistent(D, L, d, announced, aR, aD, aL, wR, v, w)
  BY ONLY <1>2, <1>5, <1>6, FinToListener
<1>8. wire' = [wire EXCEPT !["Dialer"] = v, !["Listener"] = w]
  BY <1>5, <1>w DEF RelayCloses
<1>9. /\ Shaped' /\ wire'["Reserve"] = wR /\ wire'["Dialer"] = v /\ wire'["Listener"] = w
  BY <1>0, <1>1, <1>u, <1>8 DEF Shaped, Streams, Parts
<1>10. Talk'
  BY <1>1, <1>2, <1>u, <1>7, <1>9 DEF Talk, Parts
<1>11. Direct'
  BY DEF HolePunchInv, Direct, RelayCloses, direct
<1> QED
  BY <1>9, <1>10, <1>11 DEF HolePunchInv

\* Every step keeps the invariant.
LEMMA StepHolds == HolePunchInv /\ [Next]_vars => HolePunchInv'
<1> SUFFICES ASSUME HolePunchInv, [Next]_vars PROVE HolePunchInv'
  OBVIOUS
<1>1. CASE Tick
  BY <1>1, TickHolds
<1>2. CASE InboundStream
  BY <1>2, InboundStreamHolds
<1>3. CASE InboundSeen
  BY <1>3, InboundSeenHolds
<1>4. CASE RelayReserves
  BY <1>4, RelayReservesHolds
<1>5. CASE RelayConnects
  BY <1>5, RelayConnectsHolds
<1>6. CASE RelayBridges
  BY <1>6, RelayBridgesHolds
<1>7. CASE RelayCloses
  BY <1>7, RelayClosesHolds
<1>8. ASSUME NEW n \in 1 .. MaxWire, ReservationAnswered(n) PROVE HolePunchInv'
  BY <1>8, ReservationAnsweredHolds
<1>9. ASSUME NEW s \in Sides, NEW n \in 1 .. MaxWire, BridgeData(s, n) PROVE HolePunchInv'
  BY <1>9, BridgeDataHolds
<1>10. ASSUME NEW s \in Sides, RelayAdvertises(s) PROVE HolePunchInv'
  BY <1>10, RelayAdvertisesHolds
<1>11. ASSUME NEW s \in Sides, CandidatesValidated(s) PROVE HolePunchInv'
  BY <1>11, CandidatesValidatedHolds
<1>12. ASSUME NEW s \in Sides, StreamReady(s) PROVE HolePunchInv'
  BY <1>12, StreamReadyHolds
<1>13. ASSUME NEW s \in Sides, StreamFails(s) PROVE HolePunchInv'
  BY <1>13, StreamFailsHolds
<1>23. ASSUME NEW s \in Sides, SendFails(s) PROVE HolePunchInv'
  BY <1>23, SendFailsHolds
<1>14. ASSUME NEW s \in Sides, BridgeClosed(s) PROVE HolePunchInv'
  BY <1>14, BridgeClosedHolds
<1>15. ASSUME NEW s \in Sides, Timeout(s) PROVE HolePunchInv'
  BY <1>15, TimeoutHolds
<1>16. ASSUME NEW s \in Sides, InitialArrives(s) PROVE HolePunchInv'
  BY <1>16, InitialArrivesHolds
<1>17. ASSUME NEW s \in Sides, DialEstablished(s) PROVE HolePunchInv'
  <2>1. PICK phase \in Phases : phase = "half"
    BY DEF Phases
  <2>2. Established(s, s, phase)
    BY <1>17, <2>1 DEF DialEstablished
  <2> QED
    BY ONLY HolePunchInv, s \in Sides, phase \in Phases, <2>2, EstablishedHolds
<1>18. ASSUME NEW s \in Sides, AcceptEstablished(s) PROVE HolePunchInv'
  <2>1. PICK phase \in Phases : phase = "both"
    BY DEF Phases
  <2>2. PICK x \in Sides : x = Other(s)
    BY DEF Other, Sides
  <2>3. Established(x, s, phase)
    BY <1>18, <2>1, <2>2 DEF AcceptEstablished
  <2> QED
    BY ONLY HolePunchInv, s \in Sides, x \in Sides, phase \in Phases, <2>3, EstablishedHolds
<1>19. ASSUME NEW s \in Sides, ConnectionClosed(s) PROVE HolePunchInv'
  BY <1>19, ConnectionClosedHolds
<1>20. ASSUME NEW s \in Sides, StartPing(s) PROVE HolePunchInv'
  BY <1>20, StartPingHolds
<1>21. ASSUME NEW s \in Sides, PingRtt(s) PROVE HolePunchInv'
  BY <1>21, PingRttHolds
<1>22. CASE UNCHANGED vars
  <2>1. Shaped' /\ Talk'
    BY <1>22, TalkStays DEF vars, HolePunchInv
  <2>2. Direct'
    BY <1>22 DEF vars, HolePunchInv, Direct
  <2> QED
    BY <2>1, <2>2 DEF HolePunchInv
<1> QED
  BY ONLY [Next]_vars, <1>1, <1>2, <1>3, <1>4, <1>5, <1>6, <1>7, <1>8, <1>9, <1>10, <1>11, <1>12, <1>13,
          <1>14, <1>15, <1>16, <1>17, <1>18, <1>19, <1>20, <1>21, <1>22, <1>23, Zenon DEF Next

\* The invariant HolePunchInv: where the two scripts of relay.rs are, what each
\* flow has buffered and what is on the three streams always fit together, for
\* any frame length, payload, deadlines and number of attempts, whatever the
\* relay and the network do.
THEOREM HolePunchInvariant == Spec => []HolePunchInv
<1>1. Init => HolePunchInv
  BY InitHolds
<1>2. HolePunchInv /\ [Next]_vars => HolePunchInv'
  BY StepHolds
<1> QED
  BY <1>1, <1>2, PTL DEF Spec

\* What the invariant says of the two scripts.
LEMMA ScriptsAre ==
    ASSUME HolePunchInv
    PROVE  /\ TypedScript(script["Dialer"], "Dialer") /\ TypedScript(script["Listener"], "Listener")
           /\ Typed(script["Dialer"], script["Listener"])
           /\ circuit \in {"none", "reserved", "offered", "bridged", "closed"}
BY DEF HolePunchInv, Talk, Consistent, Typed

\* Every place, result and connection state is one the code has, a script is
\* ended exactly when it has a result, and prepare_relay never exceeds
\* RELAY_READY_ATTEMPTS.
THEOREM HolePunchTypes == Spec => []TypeOK
<1>1. HolePunchInv => TypeOK
  <2> SUFFICES ASSUME HolePunchInv PROVE TypeOK
    OBVIOUS
  <2>1. ASSUME NEW s \in Sides
        PROVE  /\ At(s) \in Places /\ Result(s) \in Results /\ script[s].addrs \subseteq {s}
               /\ script[s].remote \in {None} \cup SUBSET {Other(s)}
               /\ script[s].attempt \in 1 .. RelayReadyAttempts
               /\ At(s) = "ended" <=> Result(s) # None
    <3>1. TypedScript(script[s], s)
      BY ScriptsAre DEF Sides
    <3>2. At(s) \in Places
      BY ScriptsAre DEF Sides, Typed, At, Places, Early, Past, Later
    <3> QED
      BY <3>1, <3>2 DEF TypedScript, At, Result
  <2>2. /\ circuit \in {"none", "reserved", "offered", "bridged", "closed"}
        /\ now \in Nat /\ conn \in [Sides -> {"none", "dialed", "seen", "half", "both", "closed"}]
        /\ current \in [Sides -> Sides \cup {None}] /\ pinging \in [Sides -> Sides \cup {None}]
    BY ScriptsAre DEF HolePunchInv, Direct, Phases
  <2> QED
    BY <2>1, <2>2 DEF TypeOK
<1> QED
  BY <1>1, HolePunchInvariant, PTL

\* run_dial and run_listen: a peer that punches holds exactly the addresses the
\* other validated, and the listener punches only when the dialer knows its
\* addresses.
THEOREM AddressesAreTheOthers == Spec => []CandidatesExchanged
<1>1. HolePunchInv => CandidatesExchanged
  <2> SUFFICES ASSUME HolePunchInv PROVE CandidatesExchanged
    OBVIOUS
  <2>1. PICK D, L : D = script["Dialer"] /\ L = script["Listener"]
    OBVIOUS
  <2>2. Typed(D, L) /\ Following(D, L, circuit) /\ \E wD : Initiating(D, L, circuit, wD)
    BY <2>1 DEF HolePunchInv, Talk, Consistent
  <2>3. D.at \in {"punch", "grace"} => D.remote = L.addrs
    BY <2>2 DEF Initiating, Typed, Early, Past
  <2>4. L.at \in {"punch", "grace"} => L.remote = D.addrs /\ D.remote = L.addrs
    BY <2>2 DEF Following, Later
  <2>5. L.addrs # None
    BY <2>2, AbsentAssumption DEF Typed, TypedScript
  <2> QED
    BY <2>1, <2>3, <2>4, <2>5 DEF CandidatesExchanged, At, Sides, Other
<1> QED
  BY <1>1, HolePunchInvariant, PTL

\* Neither script ends with a protocol error: however the bytes of the relay and
\* of the bridge are split and joined, the flows take them.
THEOREM FramesAreTaken == Spec => []NoProtocolError
<1>1. HolePunchInv => NoProtocolError
  BY DEF HolePunchInv, Talk, Consistent, Meaning, NoProtocolError, Result, Sides
<1> QED
  BY <1>1, HolePunchInvariant, PTL

\* What a script reports is true of the other one: the dialer's relayed ping was
\* echoed, and a bridge-closed listener has seen the dialer's success or a
\* closed circuit.
THEOREM ReportsAreTrue == Spec => []ResultsAgree
<1>1. HolePunchInv => ResultsAgree
  BY DEF HolePunchInv, Talk, Consistent, Meaning, ResultsAgree, Result
<1> QED
  BY <1>1, HolePunchInvariant, PTL
=============================================================================
