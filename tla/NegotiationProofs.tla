------------------------- MODULE NegotiationProofs --------------------------
(***************************************************************************)
(* Proofs about Negotiation.  What an end has still to read, its buffer    *)
(* and the wire together, is the other end's header, its line and its data *)
(* as far as they have been sent and not been read (Listening, Dialing).   *)
(* receive takes whole lines off the front of it, wherever the transport   *)
(* has cut it (ListenerReceives, DialerReceives, by induction over the     *)
(* rounds of its loop), so that no line is misread and no unit is lost.    *)
(***************************************************************************)
EXTENDS Negotiation, SequenceLemmas

-----------------------------------------------------------------------------
(* Sequences.                                                              *)

\* Three sequences in a row.
LEMMA Regroup == \A p, q, u \in Seq(Units) : (p \o q) \o u = p \o (q \o u)
BY ConcatAssociative

-----------------------------------------------------------------------------
(* Framing.                                                                *)

\* The units of an encoded line.
LEMMA EncodedIs ==
    ASSUME NEW x \in Lines
    PROVE  /\ EncodeMessage(x) \in Seq(Units) /\ Len(EncodeMessage(x)) = FrameLen
           /\ \A i \in 1 .. FrameLen : EncodeMessage(x)[i] = [line |-> x, part |-> i]
<1>1. FrameLen \in Nat
  BY FrameLenAssumption
<1>2. EncodeMessage(x) \in [1 .. FrameLen -> Units]
  BY <1>1 DEF EncodeMessage, Units
<1> QED
  BY <1>1, <1>2 DEF EncodeMessage

\* The start of a sequence that goes on with an encoded line's units.
LEMMA StartIs ==
    ASSUME NEW A \in Seq(Units), NEW x \in Lines, NEW n \in Nat, n <= Len(A), n <= FrameLen,
           \A i \in 1 .. n : A[i] = EncodeMessage(x)[i]
    PROVE  StartsLine(A, n)
<1>0. FrameLen \in Nat /\ Len(A) \in Nat
  BY FrameLenAssumption
<1> PICK E \in Seq(Units) : E = EncodeMessage(x) /\ Len(E) = FrameLen
  BY EncodedIs
<1>1. (\A i \in 1 .. n : A[i] \in Units) /\ (\A i \in 1 .. n : E[i] \in Units) /\ 1 \in Int /\ n \in Int
  BY <1>0
<1> PICK B : B = SubSeq(A, 1, n)
  OBVIOUS
<1> PICK F : F = SubSeq(E, 1, n)
  OBVIOUS
<1>2. B \in Seq(Units) /\ Len(B) = n /\ \A i \in 1 .. n : B[i] = A[i]
  BY <1>1, SubSeqProperties
<1>3. F \in Seq(Units) /\ Len(F) = n /\ \A i \in 1 .. n : F[i] = E[i]
  BY <1>1, SubSeqProperties
<1>4. B = F
  BY <1>2, <1>3, SeqEqual
<1> QED
  BY <1>4 DEF StartsLine

\* What decode_message makes of A, where A and z make up the line x and Y.
Decodes(A, z, x, Y) ==
    IF Len(A) < FrameLen
    THEN DecodeMessage(A) = "incomplete"
    ELSE /\ DecodeMessage(A) = "complete" /\ A[1].line = x
         /\ SubSeq(A, FrameLen + 1, Len(A)) \in Seq(Units)
         /\ SubSeq(A, FrameLen + 1, Len(A)) \o z = Y

\* decode_message sees no error in the units of a line, nor in none.
LEMMA DecodeIs ==
    ASSUME NEW A \in Seq(Units), NEW z \in Seq(Units), NEW x \in Lines, NEW Y \in Seq(Units),
           A \o z = EncodeMessage(x) \o Y
    PROVE  Decodes(A, z, x, Y)
<1>0. FrameLen \in Nat \ {0} /\ Len(A) \in Nat
  BY FrameLenAssumption
<1>a. PICK E : E = EncodeMessage(x)
  OBVIOUS
<1>b. /\ E \in Seq(Units) /\ Len(E) = FrameLen
      /\ \A i \in 1 .. FrameLen : E[i] = [line |-> x, part |-> i]
  BY <1>a, EncodedIs
<1>c. A \o z = E \o Y
  BY <1>a
<1>1. /\ \A i \in 1 .. Len(A) : i <= Len(E) => A[i] = E[i]
      /\ Len(E) <= Len(A) => /\ SubSeq(A, Len(E) + 1, Len(A)) \in Seq(Units)
                             /\ SubSeq(A, Len(E) + 1, Len(A)) \o z = Y
  <2>1. Reads(Units, A, z, E, Y)
    BY ONLY <1>b, <1>c, A \in Seq(Units), z \in Seq(Units), Y \in Seq(Units), ReadsInOrder
  <2> QED
    BY ONLY <2>1 DEF Reads
<1>2. CASE Len(A) < FrameLen
  <2>1. Len(A) <= Len(A) /\ Len(A) <= FrameLen /\ \A i \in 1 .. Len(A) : A[i] = EncodeMessage(x)[i]
    BY <1>0, <1>a, <1>b, <1>1, <1>2
  <2>2. StartsLine(A, Len(A))
    BY ONLY <1>0, <2>1, A \in Seq(Units), x \in Lines, StartIs
  <2> QED
    BY <1>2, <2>2 DEF DecodeMessage, Decodes
<1>3. CASE ~(Len(A) < FrameLen)
  <2>1. StartsLine(A, FrameLen)
    <3>1. FrameLen <= Len(A) /\ FrameLen <= FrameLen /\ \A i \in 1 .. FrameLen : A[i] = EncodeMessage(x)[i]
      BY <1>0, <1>a, <1>b, <1>1, <1>3
    <3> QED
      BY ONLY <1>0, <3>1, A \in Seq(Units), x \in Lines, StartIs
  <2>2. DecodeMessage(A) = "complete"
    BY <1>0, <1>3, <2>1 DEF DecodeMessage
  <2>3. A[1].line = x
    <3>1. 1 \in 1 .. Len(A) /\ 1 \in 1 .. FrameLen /\ 1 <= Len(E)
      BY <1>0, <1>b, <1>3
    <3>2. A[1] = [line |-> x, part |-> 1]
      BY ONLY <1>b, <1>1, <3>1
    <3> QED
      BY <3>2
  <2> QED
    BY <1>0, <1>b, <1>1, <1>3, <2>2, <2>3 DEF Decodes
<1> QED
  BY <1>2, <1>3

\* decode_message waits for more of nothing.
LEMMA DecodeNothing == DecodeMessage(<< >>) = "incomplete"
<1>1. FrameLen \in Nat \ {0} /\ Header \in Lines /\ << >> \in Seq(Units) /\ Len(<< >>) = 0
  BY FrameLenAssumption DEF Lines
<1>2. StartsLine(<< >>, 0)
  <2>1. \A i \in 1 .. 0 : << >>[i] = EncodeMessage(Header)[i]
    OBVIOUS
  <2>2. 0 \in Nat /\ 0 <= Len(<< >>) /\ 0 <= FrameLen
    BY <1>1
  <2> QED
    BY ONLY <1>1, <2>1, <2>2, StartIs
<1> QED
  BY <1>1, <1>2 DEF DecodeMessage

-----------------------------------------------------------------------------
(* The loop of receive.                                                    *)

\* The negotiator m in another state, with another buffer.
Moved(m, state, b) == [m EXCEPT !.state = state, !.recv_buf = b]

\* A round that finds no line changes nothing.
LEMMA StepWaits ==
    ASSUME NEW r, r.m.state # "Done", DecodeMessage(r.m.recv_buf) = "incomplete"
    PROVE  ReceiveStep(r) = r
BY DEF ReceiveStep

\* What a round makes of a buffer that holds x, or the start of it.
TakesLine(r, m, x, z, Y) ==
    \/ ReceiveStep(r) = r
    \/ \E b \in Seq(Units) :
         /\ b \o z = Y
         /\ ReceiveStep(r) = [m |-> Moved(m, HandleMessage(m, x).state, b),
                              outputs |-> r.outputs \o HandleMessage(m, x).outputs]

\* A round takes the line x, once all of it is there.
LEMMA StepTakes ==
    ASSUME NEW m \in Negotiator, m.state # "Done", NEW o, NEW z \in Seq(Units),
           NEW x \in Lines, NEW Y \in Seq(Units), m.recv_buf \o z = EncodeMessage(x) \o Y,
           NEW r, r = [m |-> m, outputs |-> o]
    PROVE  TakesLine(r, m, x, z, Y)
<1>0. PICK A \in Seq(Units) : A = m.recv_buf
  BY DEF Negotiator
<1>1. r.m = m /\ r.outputs = o /\ A \o z = EncodeMessage(x) \o Y
  BY <1>0
<1>2. Decodes(A, z, x, Y)
  BY ONLY <1>0, <1>1, z \in Seq(Units), x \in Lines, Y \in Seq(Units), DecodeIs
<1>3. CASE DecodeMessage(A) = "incomplete"
  BY <1>0, <1>1, <1>3, StepWaits DEF TakesLine
<1>4. CASE DecodeMessage(A) = "complete"
  <2> PICK b : b = SubSeq(A, FrameLen + 1, Len(A))
    OBVIOUS
  <2>1. A[1].line = x /\ b \in Seq(Units) /\ b \o z = Y
    BY <1>2, <1>4 DEF Decodes
  <2>2. ReceiveStep(r) = [m |-> [m EXCEPT !.state = HandleMessage(m, x).state, !.recv_buf = b],
                          outputs |-> o \o HandleMessage(m, x).outputs]
    BY <1>0, <1>1, <1>4, <2>1 DEF ReceiveStep
  <2> QED
    BY <1>1, <2>1, <2>2 DEF TakesLine, Moved
<1> QED
  BY <1>2, <1>3, <1>4 DEF Decodes

\* A round waits where nothing is left to come.
LEMMA StepEmpty ==
    ASSUME NEW m \in Negotiator, m.state # "Done", NEW o, NEW z \in Seq(Units),
           m.recv_buf \o z = << >>, NEW r, r = [m |-> m, outputs |-> o]
    PROVE  ReceiveStep(r) = r
<1>1. m.recv_buf \in Seq(Units)
  BY DEF Negotiator
<1>2. m.recv_buf = << >>
  BY <1>1, ConcatEqualIffEmpty
<1> QED
  BY <1>2, DecodeNothing, StepWaits

\* g are the rounds of receive, up to n.
Rounds(g, start, n) == g = [i \in 0 .. n |-> IF i = 0 THEN start ELSE ReceiveStep(g[i - 1])]

\* There are such rounds, however many.
LEMMA RoundsExist ==
    ASSUME NEW start
    PROVE  \A n \in Nat : \E g : Rounds(g, start, n)
<1> DEFINE S == {n \in Nat : \E g : Rounds(g, start, n)}
<1>1. 0 \in S
  <2> DEFINE g == [i \in 0 .. 0 |-> start]
  <2>1. Rounds(g, start, 0)
    BY DEF Rounds
  <2> QED
    BY <2>1
<1>2. ASSUME NEW n \in S PROVE n + 1 \in S
  <2>1. PICK g : Rounds(g, start, n)
    BY <1>2
  <2> DEFINE h == [i \in 0 .. n + 1 |-> IF i <= n THEN g[i] ELSE ReceiveStep(g[i - 1])]
  <2>2. \A i \in 0 .. n : h[i] = g[i]
    OBVIOUS
  <2>3. \A i \in 0 .. n + 1 : h[i] = IF i = 0 THEN start ELSE ReceiveStep(h[i - 1])
    <3> TAKE i \in 0 .. n + 1
    <3>1. CASE i <= n
      <4>1. g[i] = IF i = 0 THEN start ELSE ReceiveStep(g[i - 1])
        BY <2>1, <3>1 DEF Rounds
      <4>2. h[i] = g[i] /\ (i # 0 => h[i - 1] = g[i - 1])
        BY <2>2, <3>1
      <4> QED
        BY <4>1, <4>2
    <3>2. CASE i = n + 1
      BY <2>2, <3>2
    <3> QED
      BY <3>1, <3>2
  <2>4. Rounds(h, start, n + 1)
    <3> HIDE DEF h
    <3>1. h = [i \in 0 .. n + 1 |-> h[i]]
      BY DEF h
    <3> QED
      BY <2>3, <3>1 DEF Rounds
  <2> QED
    BY <2>4
<1> QED
  <2> HIDE DEF S
  <2>1. \A n \in Nat : n \in S
    BY <1>1, <1>2, SetInduction DEF S
  <2> QED
    BY <2>1 DEF S

\* Division by a positive number.
LEMMA Quotient ==
    ASSUME NEW a \in Nat, NEW b \in Nat \ {0}
    PROVE  a \div b \in Nat
OBVIOUS

\* What every round keeps, receive keeps.
LEMMA ReceiveKeeps ==
    ASSUME NEW m \in Negotiator, m.state # "Done", NEW data \in Seq(Units), NEW J,
           [m |-> [m EXCEPT !.recv_buf = @ \o data], outputs |-> << >>] \in J,
           \A r \in J : ReceiveStep(r) \in J
    PROVE  Receive(m, data) \in J
<1> DEFINE start == [m |-> [m EXCEPT !.recv_buf = @ \o data], outputs |-> << >>]
           N == 1 + (Len(start.m.recv_buf) \div FrameLen)
           g == CHOOSE f : Rounds(f, start, N)
<1>1. N \in Nat
  <2>1. m.recv_buf \o data \in Seq(Units) /\ FrameLen \in Nat \ {0}
    BY FrameLenAssumption, ConcatProperties DEF Negotiator
  <2>2. start.m.recv_buf = m.recv_buf \o data
    BY DEF Negotiator
  <2>3. PICK k \in Nat : k = Len(start.m.recv_buf)
    BY <2>1, <2>2
  <2>4. k \div FrameLen \in Nat
    BY <2>1, Quotient
  <2> QED
    BY <2>3, <2>4
<1>2. Receive(m, data) = g[N]
  BY DEF Receive, Rounds
<1> HIDE DEF N, start
<1>3. Rounds(g, start, N)
  BY <1>1, RoundsExist
<1> HIDE DEF g
<1>4. \A i \in 0 .. N : g[i] = IF i = 0 THEN start ELSE ReceiveStep(g[i - 1])
  BY <1>3 DEF Rounds
<1>5. start \in J
  BY DEF start
<1> DEFINE S == {n \in Nat : n <= N => g[n] \in J}
<1>6. 0 \in S
  BY <1>1, <1>4, <1>5
<1>7. ASSUME NEW n \in S PROVE n + 1 \in S
  <2> SUFFICES ASSUME n + 1 <= N PROVE g[n + 1] \in J
    OBVIOUS
  <2>1. g[n] \in J /\ n + 1 \in 0 .. N /\ n + 1 # 0 /\ n + 1 - 1 = n
    BY <1>1, <1>7
  <2>2. g[n + 1] = ReceiveStep(g[n])
    BY <1>4, <2>1
  <2> QED
    BY <2>1, <2>2
<1>8. \A n \in Nat : n \in S
  <2> HIDE DEF S
  <2> QED
    BY <1>6, <1>7, SetInduction DEF S
<1> QED
  BY <1>1, <1>2, <1>8

-----------------------------------------------------------------------------
(* What the two ends receive.                                              *)

\* What is still to be read where A follows the header.
HeaderThen(state, A) ==
    IF state = "WaitingForRemoteHeader" THEN EncodeMessage(Header) \o A ELSE A

\* A negotiator that has moved.
LEMMA MovedIs ==
    ASSUME NEW m \in Negotiator, NEW state \in States, NEW b \in Seq(Units)
    PROVE  /\ Moved(m, state, b) \in Negotiator
           /\ Moved(m, state, b).state = state /\ Moved(m, state, b).recv_buf = b
           /\ Moved(m, state, b).role = m.role
           /\ Moved(m, state, b).desired_protocol = m.desired_protocol
           /\ Moved(m, state, b).supported_protocols = m.supported_protocols
           /\ \A state2, b2 : Moved(Moved(m, state, b), state2, b2) = Moved(m, state2, b2)
BY DEF Negotiator, Moved

\* The listener's outputs for a request of d.
Verdict(m, d) ==
    IF d \in m.supported_protocols
    THEN <<Out("OutboundData", d), Out("Negotiated", d)>>
    ELSE <<Out("OutboundData", NotAvailable), Out("NotAvailable", d)>>

\* What the listener m makes of data, when w is still to come: it waits for a
\* line, or it has read the request d, and w completes what is behind it.
ListenerResult(m, res, w, d, Z, A) ==
    \E b \in Seq(Units) :
      \/ \E state \in {"WaitingForRemoteHeader", "WaitingForProtocolRequest"} :
           /\ res = [m |-> Moved(m, state, b), outputs |-> << >>]
           /\ b \o w = HeaderThen(state, A)
      \/ /\ A = EncodeMessage(d) \o Z
         /\ b \o w = Z
         /\ res = [m |-> Moved(m, "Done", b), outputs |-> Verdict(m, d)]

\* A round of the listener.
LEMMA ListenerStep ==
    ASSUME NEW m \in Negotiator, m.role = "Listener", NEW w \in Seq(Units),
           NEW d \in Protocols, NEW Z \in Seq(Units), NEW A \in {<< >>, EncodeMessage(d) \o Z},
           NEW r, ListenerResult(m, r, w, d, Z, A)
    PROVE  ListenerResult(m, ReceiveStep(r), w, d, Z, A)
<1>0. /\ Header \in Lines /\ d \in Lines /\ EncodeMessage(d) \in Seq(Units)
      /\ EncodeMessage(d) \o Z \in Seq(Units) /\ << >> \in Seq(Units)
  BY EncodedIs, ConcatProperties DEF Lines
<1>a. A \in Seq(Units)
  BY <1>0
<1>1. PICK b \in Seq(Units) :
        \/ \E state \in {"WaitingForRemoteHeader", "WaitingForProtocolRequest"} :
             /\ r = [m |-> Moved(m, state, b), outputs |-> << >>]
             /\ b \o w = HeaderThen(state, A)
        \/ /\ A = EncodeMessage(d) \o Z
           /\ b \o w = Z
           /\ r = [m |-> Moved(m, "Done", b), outputs |-> Verdict(m, d)]
  BY DEF ListenerResult
<1>2. CASE ReceiveStep(r) = r
  BY <1>2
<1>3. CASE r.m.state = "Done"
  BY <1>2, <1>3 DEF ReceiveStep
<1>4. ASSUME NEW state \in {"WaitingForRemoteHeader", "WaitingForProtocolRequest"},
             r = [m |-> Moved(m, state, b), outputs |-> << >>],
             b \o w = HeaderThen(state, A)
      PROVE  ListenerResult(m, ReceiveStep(r), w, d, Z, A)
  <2>1. PICK n : n = Moved(m, state, b)
    OBVIOUS
  <2>2. /\ n \in Negotiator /\ n.state = state /\ n.recv_buf = b /\ n.role = "Listener"
        /\ n.supported_protocols = m.supported_protocols /\ n.state # "Done"
        /\ \A state2, b2 : Moved(n, state2, b2) = Moved(m, state2, b2)
    <3>1. state \in States
      BY <1>4 DEF States
    <3> QED
      BY <1>4, <2>1, <3>1, MovedIs
  <2>3. r = [m |-> n, outputs |-> << >>] /\ r.outputs = << >>
    BY <1>4, <2>1
  <2>4. CASE state = "WaitingForRemoteHeader"
    <3>1. b \o w = EncodeMessage(Header) \o A
      BY <1>4, <2>4 DEF HeaderThen
    <3>2. TakesLine(r, n, Header, w, A)
      BY ONLY <1>0, <1>a, <2>2, <2>3, <3>1, w \in Seq(Units), StepTakes
    <3>3. HandleMessage(n, Header) = Reply("WaitingForProtocolRequest", << >>)
      BY <2>2, <2>4 DEF HandleMessage, OnRemoteHeader
    <3>4. ASSUME NEW b2 \in Seq(Units), b2 \o w = A,
                 ReceiveStep(r) = [m |-> Moved(n, HandleMessage(n, Header).state, b2),
                                   outputs |-> r.outputs \o HandleMessage(n, Header).outputs]
          PROVE  ListenerResult(m, ReceiveStep(r), w, d, Z, A)
      <4>1. ReceiveStep(r) = [m |-> Moved(m, "WaitingForProtocolRequest", b2), outputs |-> << >>]
        BY <2>2, <2>3, <3>3, <3>4 DEF Reply
      <4>2. b2 \o w = HeaderThen("WaitingForProtocolRequest", A)
        BY <3>4 DEF HeaderThen
      <4> QED
        BY <4>1, <4>2 DEF ListenerResult
    <3> QED
      BY <1>2, <3>2, <3>4 DEF TakesLine
  <2>5. CASE state = "WaitingForProtocolRequest" /\ A = << >>
    <3>1. n.recv_buf \o w = << >>
      BY <1>4, <2>2, <2>5 DEF HeaderThen
    <3>2. ReceiveStep(r) = r
      BY ONLY <2>2, <2>3, <3>1, w \in Seq(Units), StepEmpty
    <3> QED
      BY <1>2, <3>2
  <2>6. CASE state = "WaitingForProtocolRequest" /\ A = EncodeMessage(d) \o Z
    <3>1. b \o w = EncodeMessage(d) \o Z
      BY <1>4, <2>6 DEF HeaderThen
    <3>2. TakesLine(r, n, d, w, Z)
      BY ONLY <1>0, <2>2, <2>3, <3>1, w \in Seq(Units), Z \in Seq(Units), StepTakes
    <3>3. HandleMessage(n, d) = Reply("Done", Verdict(m, d))
      BY <2>2, <2>6 DEF HandleMessage, OnProtocolRequest, Verdict
    <3>4. ASSUME NEW b2 \in Seq(Units), b2 \o w = Z,
                 ReceiveStep(r) = [m |-> Moved(n, HandleMessage(n, d).state, b2),
                                   outputs |-> r.outputs \o HandleMessage(n, d).outputs]
          PROVE  ListenerResult(m, ReceiveStep(r), w, d, Z, A)
      <4>1. << >> \o Verdict(m, d) = Verdict(m, d)
        BY DEF Verdict
      <4>2. ReceiveStep(r) = [m |-> Moved(m, "Done", b2), outputs |-> Verdict(m, d)]
        BY <2>2, <2>3, <3>3, <3>4, <4>1 DEF Reply
      <4> QED
        BY <2>6, <3>4, <4>2 DEF ListenerResult
    <3> QED
      BY <1>2, <3>2, <3>4 DEF TakesLine
  <2> QED
    BY <2>4, <2>5, <2>6
<1>5. CASE r = [m |-> Moved(m, "Done", b), outputs |-> Verdict(m, d)]
  <2>1. "Done" \in States
    BY DEF States
  <2> QED
    BY <1>3, <1>5, <2>1, MovedIs
<1> QED
  BY <1>1, <1>4, <1>5

\* receive of the listener.
LEMMA ListenerReceives ==
    ASSUME NEW m \in Negotiator, m.role = "Listener",
           m.state \in {"WaitingForRemoteHeader", "WaitingForProtocolRequest"},
           NEW data \in Seq(Units), NEW w \in Seq(Units), NEW d \in Protocols,
           NEW Z \in Seq(Units), NEW A \in {<< >>, EncodeMessage(d) \o Z},
           (m.recv_buf \o data) \o w = HeaderThen(m.state, A)
    PROVE  ListenerResult(m, Receive(m, data), w, d, Z, A)
<1> DEFINE X == {[m |-> n, outputs |-> o] : n \in Negotiator, o \in {<< >>, Verdict(m, d)}}
           J == {r \in X : ListenerResult(m, r, w, d, Z, A)}
<1>0. PICK c \in Seq(Units) : c = m.recv_buf \o data
  BY ConcatProperties DEF Negotiator
<1>1. ASSUME NEW r, ListenerResult(m, r, w, d, Z, A) PROVE r \in X
  <2>1. \A state \in States, b \in Seq(Units) : Moved(m, state, b) \in Negotiator
    BY MovedIs
  <2> QED
    BY <1>1, <2>1 DEF ListenerResult, States
<1> HIDE DEF X
<1>2. \A r \in J : ReceiveStep(r) \in J
  BY <1>1, ListenerStep
<1>3. [m |-> [m EXCEPT !.recv_buf = @ \o data], outputs |-> << >>] \in J
  <2>1. PICK r : r = [m |-> [m EXCEPT !.recv_buf = @ \o data], outputs |-> << >>]
    OBVIOUS
  <2>2. r = [m |-> Moved(m, m.state, c), outputs |-> << >>]
    BY <1>0, <2>1 DEF Moved, Negotiator
  <2>3. ListenerResult(m, r, w, d, Z, A)
    BY <1>0, <2>2 DEF ListenerResult
  <2> QED
    BY <1>1, <2>1, <2>3
<1>4. m.state # "Done"
  OBVIOUS
<1>5. Receive(m, data) \in J
  <2> HIDE DEF J
  <2> QED
    BY ONLY <1>2, <1>3, <1>4, m \in Negotiator, data \in Seq(Units), ReceiveKeeps
<1> QED
  BY <1>5

\* What the dialer has to say to the listener's header.
Proposal(m) ==
    IF m.state = "WaitingForRemoteHeader"
    THEN <<Out("OutboundData", m.desired_protocol)>> ELSE << >>

\* What the dialer concludes from the answer x.
Conclusion(m, x) ==
    IF x = NotAvailable THEN <<Out("NotAvailable", x)>> ELSE <<Out("Negotiated", x)>>

\* What the dialer m makes of data, when w is still to come: it waits for the
\* header, or for the answer, or it has read the answer x and w completes what
\* is behind it.
DialerResult(m, res, w, x, Z, A) ==
    \E b \in Seq(Units) :
      \/ /\ m.state = "WaitingForRemoteHeader"
         /\ res = [m |-> Moved(m, "WaitingForRemoteHeader", b), outputs |-> << >>]
         /\ b \o w = EncodeMessage(Header) \o A
      \/ /\ res = [m |-> Moved(m, "WaitingForProtocolResponse", b), outputs |-> Proposal(m)]
         /\ b \o w = A
      \/ /\ A = EncodeMessage(x) \o Z
         /\ b \o w = Z
         /\ res = [m |-> Moved(m, "Done", b), outputs |-> Proposal(m) \o Conclusion(m, x)]

\* A round of the dialer.
LEMMA DialerStep ==
    ASSUME NEW m \in Negotiator, m.role = "Dialer", NEW w \in Seq(Units),
           NEW x \in {m.desired_protocol, NotAvailable},
           NEW Z \in Seq(Units), NEW A \in {<< >>, EncodeMessage(x) \o Z},
           NEW r, DialerResult(m, r, w, x, Z, A)
    PROVE  DialerResult(m, ReceiveStep(r), w, x, Z, A)
<1>0. /\ Header \in Lines /\ x \in Lines /\ EncodeMessage(x) \in Seq(Units)
      /\ EncodeMessage(x) \o Z \in Seq(Units) /\ << >> \in Seq(Units)
  <2>1. x \in Lines
    BY DEF Lines, Negotiator
  <2> QED
    BY <2>1, EncodedIs, ConcatProperties DEF Lines
<1>a. A \in Seq(Units)
  BY <1>0
<1>b. "WaitingForRemoteHeader" \in States /\ "WaitingForProtocolResponse" \in States /\ "Done" \in States
  BY DEF States
<1>1. PICK b \in Seq(Units) :
      \/ /\ m.state = "WaitingForRemoteHeader"
         /\ r = [m |-> Moved(m, "WaitingForRemoteHeader", b), outputs |-> << >>]
         /\ b \o w = EncodeMessage(Header) \o A
      \/ /\ r = [m |-> Moved(m, "WaitingForProtocolResponse", b), outputs |-> Proposal(m)]
         /\ b \o w = A
      \/ /\ A = EncodeMessage(x) \o Z
         /\ b \o w = Z
         /\ r = [m |-> Moved(m, "Done", b), outputs |-> Proposal(m) \o Conclusion(m, x)]
  BY DEF DialerResult
<1>2. CASE ReceiveStep(r) = r
  BY <1>2
<1>3. CASE /\ m.state = "WaitingForRemoteHeader"
           /\ r = [m |-> Moved(m, "WaitingForRemoteHeader", b), outputs |-> << >>]
           /\ b \o w = EncodeMessage(Header) \o A
  <2>1. PICK n : n = Moved(m, "WaitingForRemoteHeader", b)
    OBVIOUS
  <2>2. /\ n \in Negotiator /\ n.state = "WaitingForRemoteHeader" /\ n.recv_buf = b /\ n.role = "Dialer"
        /\ n.desired_protocol = m.desired_protocol /\ n.state # "Done"
        /\ \A state2, b2 : Moved(n, state2, b2) = Moved(m, state2, b2)
    BY <1>b, <2>1, MovedIs
  <2>3. r = [m |-> n, outputs |-> << >>] /\ r.outputs = << >>
    BY <1>3, <2>1
  <2>4. b \o w = EncodeMessage(Header) \o A
    BY <1>3
  <2>5. TakesLine(r, n, Header, w, A)
    BY ONLY <1>0, <1>a, <2>2, <2>3, <2>4, w \in Seq(Units), StepTakes
  <2>6. HandleMessage(n, Header) = Reply("WaitingForProtocolResponse", Proposal(m))
    BY <1>3, <2>2 DEF HandleMessage, OnRemoteHeader, Proposal
  <2>7. ASSUME NEW b2 \in Seq(Units), b2 \o w = A,
               ReceiveStep(r) = [m |-> Moved(n, HandleMessage(n, Header).state, b2),
                                 outputs |-> r.outputs \o HandleMessage(n, Header).outputs]
        PROVE  DialerResult(m, ReceiveStep(r), w, x, Z, A)
    <3>1. << >> \o Proposal(m) = Proposal(m)
      BY DEF Proposal
    <3>2. ReceiveStep(r) = [m |-> Moved(m, "WaitingForProtocolResponse", b2), outputs |-> Proposal(m)]
      BY <2>2, <2>3, <2>6, <2>7, <3>1 DEF Reply
    <3> QED
      BY <2>7, <3>2 DEF DialerResult
  <2> QED
    BY <1>2, <2>5, <2>7 DEF TakesLine
<1>4. CASE /\ r = [m |-> Moved(m, "WaitingForProtocolResponse", b), outputs |-> Proposal(m)]
           /\ b \o w = A
  <2>1. PICK n : n = Moved(m, "WaitingForProtocolResponse", b)
    OBVIOUS
  <2>2. /\ n \in Negotiator /\ n.state = "WaitingForProtocolResponse" /\ n.recv_buf = b
        /\ n.desired_protocol = m.desired_protocol /\ n.state # "Done"
        /\ \A state2, b2 : Moved(n, state2, b2) = Moved(m, state2, b2)
    BY <1>b, <2>1, MovedIs
  <2>3. r = [m |-> n, outputs |-> Proposal(m)] /\ r.outputs = Proposal(m)
    BY <1>4, <2>1
  <2>4. CASE A = << >>
    <3>1. n.recv_buf \o w = << >>
      BY <1>4, <2>2, <2>4
    <3>2. ReceiveStep(r) = r
      BY ONLY <2>2, <2>3, <3>1, w \in Seq(Units), StepEmpty
    <3> QED
      BY <1>2, <3>2
  <2>5. CASE A = EncodeMessage(x) \o Z
    <3>1. b \o w = EncodeMessage(x) \o Z
      BY <1>4, <2>5
    <3>2. TakesLine(r, n, x, w, Z)
      BY ONLY <1>0, <2>2, <2>3, <3>1, w \in Seq(Units), Z \in Seq(Units), StepTakes
    <3>3. HandleMessage(n, x) = Reply("Done", Conclusion(m, x))
      <4>1. m.desired_protocol # NotAvailable
        BY LinesAssumption DEF Negotiator
      <4> QED
        BY <2>2, <4>1 DEF HandleMessage, OnProtocolResponse, Conclusion
    <3>4. ASSUME NEW b2 \in Seq(Units), b2 \o w = Z,
                 ReceiveStep(r) = [m |-> Moved(n, HandleMessage(n, x).state, b2),
                                   outputs |-> r.outputs \o HandleMessage(n, x).outputs]
          PROVE  DialerResult(m, ReceiveStep(r), w, x, Z, A)
      <4>a. /\ Moved(n, HandleMessage(n, x).state, b2) = Moved(m, "Done", b2)
            /\ HandleMessage(n, x).outputs = Conclusion(m, x)
        BY <2>2, <3>3 DEF Reply
      <4>1. ReceiveStep(r) = [m |-> Moved(m, "Done", b2),
                              outputs |-> Proposal(m) \o Conclusion(m, x)]
        BY <2>3, <3>4, <4>a, Zenon
      <4> QED
        BY <2>5, <3>4, <4>1 DEF DialerResult
    <3> QED
      BY <1>2, <3>2, <3>4 DEF TakesLine
  <2> QED
    BY <2>4, <2>5
<1>5. CASE r = [m |-> Moved(m, "Done", b), outputs |-> Proposal(m) \o Conclusion(m, x)]
  <2>1. r.m.state = "Done"
    BY <1>b, <1>5, MovedIs
  <2> QED
    BY <1>2, <2>1 DEF ReceiveStep
<1> QED
  BY <1>1, <1>3, <1>4, <1>5

\* receive of the dialer.
LEMMA DialerReceives ==
    ASSUME NEW m \in Negotiator, m.role = "Dialer",
           m.state \in {"WaitingForRemoteHeader", "WaitingForProtocolResponse"},
           NEW data \in Seq(Units), NEW w \in Seq(Units),
           NEW x \in {m.desired_protocol, NotAvailable},
           NEW Z \in Seq(Units), NEW A \in {<< >>, EncodeMessage(x) \o Z},
           (m.recv_buf \o data) \o w = HeaderThen(m.state, A)
    PROVE  DialerResult(m, Receive(m, data), w, x, Z, A)
<1> DEFINE X == {[m |-> n, outputs |-> o] :
                   n \in Negotiator, o \in {<< >>, Proposal(m), Proposal(m) \o Conclusion(m, x)}}
           J == {r \in X : DialerResult(m, r, w, x, Z, A)}
<1>0. PICK c \in Seq(Units) : c = m.recv_buf \o data
  BY ConcatProperties DEF Negotiator
<1>1. ASSUME NEW r, DialerResult(m, r, w, x, Z, A) PROVE r \in X
  <2>1. \A state \in States, b \in Seq(Units) : Moved(m, state, b) \in Negotiator
    BY MovedIs
  <2> QED
    BY <1>1, <2>1 DEF DialerResult, States
<1> HIDE DEF X
<1>2. \A r \in J : ReceiveStep(r) \in J
  BY <1>1, DialerStep
<1>3. [m |-> [m EXCEPT !.recv_buf = @ \o data], outputs |-> << >>] \in J
  <2>1. PICK r : r = [m |-> [m EXCEPT !.recv_buf = @ \o data], outputs |-> << >>]
    OBVIOUS
  <2>2. r = [m |-> Moved(m, m.state, c), outputs |-> << >>]
    BY <1>0, <2>1 DEF Moved, Negotiator
  <2>3. DialerResult(m, r, w, x, Z, A)
    BY <1>0, <2>2 DEF DialerResult, HeaderThen, Proposal
  <2> QED
    BY <1>1, <2>1, <2>3
<1>4. m.state # "Done"
  OBVIOUS
<1>5. Receive(m, data) \in J
  <2> HIDE DEF J
  <2> QED
    BY ONLY <1>2, <1>3, <1>4, m \in Negotiator, data \in Seq(Units), ReceiveKeeps
<1> QED
  BY <1>5

-----------------------------------------------------------------------------
(* Application data.                                                       *)

\* The units of data from first to last.
LEMMA DataIs ==
    ASSUME NEW first \in Nat, NEW last \in Nat, first <= last + 1
    PROVE  /\ Data(first, last) \in Seq([data : Nat])
           /\ Len(Data(first, last)) = last + 1 - first
           /\ \A i \in 1 .. last + 1 - first : Data(first, last)[i] = [data |-> first + i - 1]
<1>1. PICK n \in Nat : n = last + 1 - first
  OBVIOUS
<1>2. Data(first, last) = [i \in 1 .. n |-> [data |-> first + i - 1]]
  BY <1>1 DEF Data
<1>3. Data(first, last) \in [1 .. n -> [data : Nat]]
  BY <1>2
<1> QED
  BY <1>1, <1>2, <1>3

\* No data, and data that goes on.
LEMMA DataMore ==
    /\ Data(1, 0) = << >>
    /\ \A k \in Nat : Data(1, k) \o Data(k + 1, k + 1) = Data(1, k + 1)
<1>1. Data(1, 0) = << >>
  <2>1. Data(1, 0) \in Seq([data : Nat]) /\ Len(Data(1, 0)) = 0
    BY DataIs
  <2> QED
    BY <2>1
<1>2. ASSUME NEW k \in Nat
      PROVE  Data(1, k) \o Data(k + 1, k + 1) = Data(1, k + 1)
  <2>1. PICK A : A = Data(1, k)
    OBVIOUS
  <2>2. PICK B : B = Data(k + 1, k + 1)
    OBVIOUS
  <2>3. PICK L : L = Data(1, k + 1)
    OBVIOUS
  <2>4. A \in Seq([data : Nat]) /\ Len(A) = k /\ \A i \in 1 .. k : A[i] = [data |-> i]
    <3>1. 1 \in Nat /\ k \in Nat /\ 1 <= k + 1
      OBVIOUS
    <3>2. /\ Data(1, k) \in Seq([data : Nat]) /\ Len(Data(1, k)) = k + 1 - 1
          /\ \A i \in 1 .. k + 1 - 1 : Data(1, k)[i] = [data |-> 1 + i - 1]
      BY ONLY <3>1, DataIs
    <3>3. /\ A \in Seq([data : Nat]) /\ Len(A) = k + 1 - 1
          /\ \A i \in 1 .. k + 1 - 1 : A[i] = [data |-> 1 + i - 1]
      BY ONLY <2>1, <3>2, Zenon
    <3> QED
      BY <3>3
  <2>5. B \in Seq([data : Nat]) /\ Len(B) = 1 /\ B[1] = [data |-> k + 1]
    <3>1. (k + 1) \in Nat /\ (k + 1) \in Nat /\ (k + 1) <= (k + 1) + 1
      OBVIOUS
    <3>2. /\ Data(k + 1, k + 1) \in Seq([data : Nat]) /\ Len(Data(k + 1, k + 1)) = (k + 1) + 1 - (k + 1)
          /\ \A i \in 1 .. (k + 1) + 1 - (k + 1) : Data(k + 1, k + 1)[i] = [data |-> (k + 1) + i - 1]
      BY ONLY <3>1, DataIs
    <3>3. /\ B \in Seq([data : Nat]) /\ Len(B) = (k + 1) + 1 - (k + 1)
          /\ \A i \in 1 .. (k + 1) + 1 - (k + 1) : B[i] = [data |-> (k + 1) + i - 1]
      BY ONLY <2>2, <3>2, Zenon
    <3> QED
      BY <3>3
  <2>6. L \in Seq([data : Nat]) /\ Len(L) = k + 1 /\ \A i \in 1 .. k + 1 : L[i] = [data |-> i]
    <3>1. 1 \in Nat /\ (k + 1) \in Nat /\ 1 <= (k + 1) + 1
      OBVIOUS
    <3>2. /\ Data(1, k + 1) \in Seq([data : Nat]) /\ Len(Data(1, k + 1)) = (k + 1) + 1 - 1
          /\ \A i \in 1 .. (k + 1) + 1 - 1 : Data(1, k + 1)[i] = [data |-> 1 + i - 1]
      BY ONLY <3>1, DataIs
    <3>3. /\ L \in Seq([data : Nat]) /\ Len(L) = (k + 1) + 1 - 1
          /\ \A i \in 1 .. (k + 1) + 1 - 1 : L[i] = [data |-> 1 + i - 1]
      BY ONLY <2>3, <3>2, Zenon
    <3> QED
      BY <3>3
  <2>7. /\ Len(L) = Len(A) + Len(B) /\ \A i \in 1 .. Len(A) : L[i] = A[i]
        /\ \A i \in 1 .. Len(B) : L[Len(A) + i] = B[i]
    BY <2>4, <2>5, <2>6
  <2>8. L = A \o B
    BY ONLY <2>4, <2>5, <2>6, <2>7, ConcatIs
  <2> QED
    BY <2>1, <2>2, <2>3, <2>8
<1> QED
  BY <1>1, <1>2

\* Data is made of units.
LEMMA DataUnits ==
    /\ Seq([data : Nat]) \subseteq Seq(Units)
    /\ \A k \in Nat : Data(1, k) \in Seq(Units) /\ Data(k + 1, k + 1) \in Seq(Units)
<1>1. [data : Nat] \subseteq Units
  BY DEF Units
<1>2. ASSUME NEW q \in Seq([data : Nat]) PROVE q \in Seq(Units)
  <2>1. q \in [1 .. Len(q) -> [data : Nat]] /\ Len(q) \in Nat
    BY LenProperties
  <2>2. q \in [1 .. Len(q) -> Units]
    BY <1>1, <2>1
  <2> QED
    BY <2>1, <2>2
<1>3. ASSUME NEW k \in Nat
      PROVE  Data(1, k) \in Seq([data : Nat]) /\ Data(k + 1, k + 1) \in Seq([data : Nat])
  BY DataIs
<1> QED
  BY <1>2, <1>3

-----------------------------------------------------------------------------
(* The inductive invariant.                                                *)

Decided == phase["Listener"] \in {"negotiated", "rejected"}

\* The dialer's proposal is on its way, or has arrived.
Proposed ==
    /\ phase["Dialer"] # "idle"
    /\ pipelining \/ end["Dialer"].state # "WaitingForRemoteHeader"

\* What the dialer sends behind its header.
Asked ==
    IF Proposed
    THEN EncodeMessage(end["Dialer"].desired_protocol) \o Data(1, sent["Dialer"])
    ELSE << >>

\* The listener's answer, once it is decided.
Answer == IF phase["Listener"] = "negotiated" THEN end["Dialer"].desired_protocol ELSE NotAvailable

\* What the listener sends behind its header.
Answered == IF Decided THEN EncodeMessage(Answer) \o Data(1, sent["Listener"]) ELSE << >>

\* How far the two ends are.
Order ==
    /\ phase["Listener"] \in {"idle", "negotiating", "negotiated", "rejected"}
    /\ phase["Dialer"] \in {"idle", "negotiating", "negotiated", "rejected", "closed"}
    /\ phase["Dialer"] = "idle" => phase["Listener"] = "idle" /\ wire["Listener"] = << >>
    /\ phase["Listener"] = "idle" =>
         /\ phase["Dialer"] \in {"idle", "negotiating"}
         /\ \A r \in Roles : end[r].state = "WaitingForRemoteHeader" /\ end[r].recv_buf = << >>
         /\ wire["Dialer"] = << >>
    /\ Decided => Proposed
    /\ phase["Listener"] = "negotiated" => Supported
    /\ phase["Listener"] = "rejected" => ~Supported
    /\ phase["Listener"] # "negotiated" => sent["Listener"] = 0
    /\ phase["Dialer"] = "negotiated" => phase["Listener"] = "negotiated"
    /\ phase["Dialer"] \in {"rejected", "closed"} => phase["Listener"] = "rejected"
    /\ ~Proposed => sent["Dialer"] = 0

\* A listener that negotiates has still to read all it has not read: what the
\* dialer says, in order.
Listening ==
    phase["Listener"] \in {"idle", "negotiating"} =>
      /\ end["Listener"].state \in {"WaitingForRemoteHeader", "WaitingForProtocolRequest"}
      /\ got["Listener"] = << >>
      /\ phase["Dialer"] # "idle" =>
           end["Listener"].recv_buf \o wire["Listener"] = HeaderThen(end["Listener"].state, Asked)

\* So has a dialer, but for the end t that the listener's reset has overtaken.
Dialing ==
    phase["Dialer"] \in {"idle", "negotiating"} =>
      /\ end["Dialer"].state \in {"WaitingForRemoteHeader", "WaitingForProtocolResponse"}
      /\ got["Dialer"] = << >>
      /\ phase["Listener"] # "idle" =>
           \E t \in Seq(Units) :
             /\ phase["Listener"] # "rejected" => t = << >>
             /\ (end["Dialer"].recv_buf \o wire["Dialer"]) \o t = HeaderThen(end["Dialer"].state, Answered)

\* The n units of data that were sent are what an end has got and what is on
\* the wire.
Served(m, g, w, n) == m.state = "Done" /\ m.recv_buf = << >> /\ g \o w = Data(1, n)

\* Once it has negotiated, an end gets the data that the other has sent.
Delivered ==
    /\ phase["Dialer"] = "negotiated" =>
         Served(end["Dialer"], got["Dialer"], wire["Dialer"], sent["Listener"])
    /\ phase["Listener"] = "negotiated" =>
         Served(end["Listener"], got["Listener"], wire["Listener"], sent["Dialer"])

Inv ==
    /\ TypeOK
    /\ \A r \in Roles : end[r].role = r
    /\ Order /\ Listening /\ Dialing /\ Delivered

\* What the invariant says of the types of things.
Typed ==
    /\ \A r \in Roles : /\ end[r] \in Negotiator /\ end[r].recv_buf \in Seq(Units)
                        /\ end[r].role = r /\ end[r].desired_protocol \in Protocols
                        /\ wire[r] \in Seq(Units) /\ sent[r] \in Nat
                        /\ Data(1, sent[r]) \in Seq(Units)
    /\ Asked \in Seq(Units) /\ Answered \in Seq(Units)
    /\ Answer \in Lines /\ EncodeMessage(Answer) \in Seq(Units)
    /\ EncodeMessage(Header) \in Seq(Units) /\ EncodeMessage(NotAvailable) \in Seq(Units)
    /\ EncodeMessage(end["Dialer"].desired_protocol) \in Seq(Units)

\* The types that the invariant implies.
LEMMA InvTyped ==
    ASSUME Inv
    PROVE  Typed
<1>0. MaxData \in Nat
  BY NegotiationAssumption
<1>1. ASSUME NEW r \in Roles
      PROVE  /\ end[r] \in Negotiator /\ end[r].recv_buf \in Seq(Units)
             /\ end[r].role = r /\ end[r].desired_protocol \in Protocols
             /\ wire[r] \in Seq(Units) /\ sent[r] \in Nat
             /\ Data(1, sent[r]) \in Seq(Units)
  <2>1. end[r] \in Negotiator /\ end[r].role = r /\ wire[r] \in Seq(Units) /\ sent[r] \in Nat
    BY <1>0 DEF Inv, TypeOK
  <2>2. end[r].recv_buf \in Seq(Units) /\ end[r].desired_protocol \in Protocols
    BY <2>1 DEF Negotiator
  <2> QED
    BY <2>1, <2>2, DataUnits
<1>2. "Dialer" \in Roles /\ "Listener" \in Roles
  BY DEF Roles
<1>3. Header \in Lines /\ NotAvailable \in Lines /\ \A x \in Protocols : x \in Lines
  BY DEF Lines
<1>4. /\ EncodeMessage(Header) \in Seq(Units) /\ EncodeMessage(NotAvailable) \in Seq(Units)
      /\ EncodeMessage(end["Dialer"].desired_protocol) \in Seq(Units)
  BY <1>1, <1>2, <1>3, EncodedIs
<1>5. Answer \in Lines /\ EncodeMessage(Answer) \in Seq(Units)
  BY <1>1, <1>2, <1>3, <1>4 DEF Answer
<1>6. Asked \in Seq(Units)
  BY <1>1, <1>2, <1>4, ConcatProperties DEF Asked
<1>7. Answered \in Seq(Units)
  BY <1>1, <1>2, <1>5, ConcatProperties DEF Answered
<1> QED
  BY <1>1, <1>4, <1>5, <1>6, <1>7 DEF Typed

\* The invariant holds at first.
LEMMA InitInv == Init => Inv
<1> SUFFICES ASSUME Init PROVE Inv
  OBVIOUS
<1>0. MaxData \in Nat /\ "Dialer" \in Roles /\ "Listener" \in Roles
  BY NegotiationAssumption DEF Roles
<1>1. PICK desired \in Protocols, supported \in SUBSET Protocols :
        end = [r \in Roles |-> New(r, desired, supported)]
  BY DEF Init
<1>2. end \in [Roles -> Negotiator] /\ \A r \in Roles : /\ end[r].role = r
                                                      /\ end[r].state = "WaitingForRemoteHeader"
                                                      /\ end[r].recv_buf = << >>
  <2>1. ASSUME NEW r \in Roles
        PROVE  New(r, desired, supported) \in Negotiator
    BY DEF New, Negotiator, States
  <2> QED
    BY <1>1, <2>1 DEF New
<1>3. TypeOK
  BY <1>0, <1>2 DEF TypeOK, Init, Phases
<1>4. ~Decided /\ ~Proposed /\ Order
  BY <1>0, <1>2 DEF Order, Decided, Proposed, Init
<1>5. Listening /\ Dialing /\ Delivered
  BY <1>0, <1>2 DEF Listening, Dialing, Delivered, Init
<1> QED
  BY <1>2, <1>3, <1>4, <1>5 DEF Inv

\* A step that changes nothing.
LEMMA StutterKeeps ==
    ASSUME Inv, UNCHANGED vars
    PROVE  Inv'
<1>1. /\ pipelining' = pipelining /\ end' = end /\ phase' = phase /\ wire' = wire
      /\ sent' = sent /\ got' = got
  BY DEF vars
<1>2. Decided' = Decided /\ Proposed' = Proposed /\ Supported' = Supported
  BY <1>1 DEF Decided, Proposed, Supported
<1>3. Asked' = Asked /\ Answer' = Answer
  BY <1>1, <1>2 DEF Asked, Answer
<1>4. Answered' = Answered
  BY <1>1, <1>2, <1>3 DEF Answered
<1>5. TypeOK' /\ (\A r \in Roles : end'[r].role = r)
  BY <1>1 DEF Inv, TypeOK
<1>6. Order'
  BY <1>1, <1>2 DEF Inv, Order
<1>7. Listening' /\ Dialing'
  BY <1>1, <1>3, <1>4 DEF Inv, Listening, Dialing
<1>8. Delivered'
  BY <1>1 DEF Inv, Delivered
<1> QED
  BY <1>5, <1>6, <1>7, <1>8 DEF Inv

\* The dialer starts.
LEMMA DialerStartsKeeps ==
    ASSUME Inv, DialerStarts
    PROVE  Inv'
<1>0. Typed /\ "Dialer" \in Roles /\ "Listener" \in Roles /\ MaxData \in Nat
      /\ Roles = {"Dialer", "Listener"} /\ "Dialer" # "Listener"
  BY InvTyped, NegotiationAssumption DEF Roles
<1>1. /\ phase["Dialer"] = "idle" /\ phase["Listener"] = "idle" /\ sent["Dialer"] = 0 /\ sent["Listener"] = 0
      /\ wire["Dialer"] = << >>
      /\ \A r \in Roles : end[r].state = "WaitingForRemoteHeader" /\ end[r].recv_buf = << >>
      /\ got["Listener"] = << >> /\ got["Dialer"] = << >>
  BY <1>0 DEF Inv, DialerStarts, Order, Listening, Dialing, Proposed
<1>2. /\ phase'["Dialer"] = "negotiating" /\ phase'["Listener"] = "idle"
      /\ sent'["Dialer"] = (IF pipelining THEN MaxData ELSE 0) /\ sent'["Listener"] = 0
      /\ wire'["Dialer"] = << >>
      /\ wire'["Listener"] = (IF pipelining
                  THEN EncodeMessage(Header) \o EncodeMessage(end["Dialer"].desired_protocol)
                         \o Data(1, MaxData)
                  ELSE EncodeMessage(Header))
      /\ pipelining' = pipelining /\ end' = end /\ got' = got
  BY <1>0, <1>1 DEF DialerStarts, Inv, TypeOK
<1>a. /\ Data(1, MaxData) \in Seq(Units) /\ EncodeMessage(Header) \in Seq(Units)
      /\ EncodeMessage(end["Dialer"].desired_protocol) \in Seq(Units)
  BY <1>0, DataUnits DEF Typed
<1>b. /\ EncodeMessage(Header) \o EncodeMessage(end["Dialer"].desired_protocol) \in Seq(Units)
      /\ (EncodeMessage(Header) \o EncodeMessage(end["Dialer"].desired_protocol)) \o Data(1, MaxData)
           = EncodeMessage(Header) \o (EncodeMessage(end["Dialer"].desired_protocol) \o Data(1, MaxData))
      /\ (EncodeMessage(Header) \o EncodeMessage(end["Dialer"].desired_protocol)) \o Data(1, MaxData)
           \in Seq(Units)
  BY <1>a, ConcatProperties, ConcatAssociative
<1>3. wire'["Listener"] \in Seq(Units)
  BY <1>2, <1>a, <1>b
<1>4. TypeOK'
  <2>1. sent' \in [Roles -> 0 .. MaxData] /\ phase' \in [Roles -> Phases]
    BY <1>0 DEF Inv, TypeOK, DialerStarts, Phases
  <2>2. wire' \in [Roles -> Seq(Units)]
    <3>1. wire' = [wire EXCEPT !["Listener"] = wire'["Listener"]] /\ wire \in [Roles -> Seq(Units)]
      BY <1>0 DEF DialerStarts, Inv, TypeOK
    <3> QED
      BY <1>3, <3>1
  <2> QED
    BY <1>2, <2>1, <2>2 DEF Inv, TypeOK
<1>5. ~Decided' /\ (Proposed' <=> pipelining)
  BY <1>0, <1>1, <1>2 DEF Decided, Proposed
<1>6. Order'
  BY <1>0, <1>1, <1>2, <1>5 DEF Order
<1>7. Listening'
  <2>1. end["Listener"].recv_buf \o wire'["Listener"] = wire'["Listener"]
    BY <1>0, <1>1, <1>3, ConcatEmptySeq
  <2>2. wire'["Listener"] = EncodeMessage(Header) \o Asked'
    <3>1. CASE pipelining
      BY <1>2, <1>5, <1>b, <3>1 DEF Asked
    <3>2. CASE ~pipelining
      BY <1>2, <1>5, <1>a, <3>2, ConcatEmptySeq DEF Asked
    <3> QED
      BY <3>1, <3>2
  <2> QED
    BY <1>0, <1>1, <1>2, <2>1, <2>2 DEF Listening, HeaderThen
<1>8. Dialing' /\ Delivered'
  BY <1>0, <1>1, <1>2 DEF Dialing, Delivered
<1> QED
  BY <1>2, <1>4, <1>6, <1>7, <1>8 DEF Inv

\* The listener starts.
LEMMA ListenerStartsKeeps ==
    ASSUME Inv, ListenerStarts
    PROVE  Inv'
<1>0. Typed /\ "Dialer" \in Roles /\ "Listener" \in Roles
      /\ Roles = {"Dialer", "Listener"} /\ "Dialer" # "Listener"
  BY InvTyped DEF Roles
<1>1. /\ phase["Listener"] = "idle" /\ phase["Dialer"] = "negotiating"
      /\ \A r \in Roles : end[r].state = "WaitingForRemoteHeader" /\ end[r].recv_buf = << >>
  BY <1>0 DEF Inv, ListenerStarts, Order
<1>2. /\ phase'["Dialer"] = "negotiating" /\ phase'["Listener"] = "negotiating"
      /\ wire'["Dialer"] = EncodeMessage(Header) /\ wire'["Listener"] = wire["Listener"]
      /\ pipelining' = pipelining /\ end' = end /\ sent' = sent /\ got' = got
  BY <1>0, <1>1 DEF ListenerStarts, Inv, TypeOK
<1>3. EncodeMessage(Header) \in Seq(Units)
  BY <1>0 DEF Typed
<1>4. TypeOK'
  <2>1. phase' \in [Roles -> Phases] /\ wire' \in [Roles -> Seq(Units)]
    BY <1>0, <1>3 DEF Inv, TypeOK, ListenerStarts, Phases
  <2> QED
    BY <1>2, <2>1 DEF Inv, TypeOK
<1>5. ~Decided /\ ~Decided' /\ (Proposed' <=> Proposed)
  BY <1>0, <1>1, <1>2 DEF Decided, Proposed
<1>6. Order'
  BY <1>0, <1>1, <1>2, <1>5 DEF Inv, Order
<1>7. Listening'
  <2>1. Asked' = Asked
    BY <1>2, <1>5 DEF Asked
  <2> QED
    BY <1>0, <1>1, <1>2, <2>1 DEF Inv, Listening
<1>8. Dialing'
  <2>1. Answered' = << >>
    BY <1>5 DEF Answered
  <2>2. << >> \in Seq(Units) /\ (<< >> \o EncodeMessage(Header)) \o << >> = EncodeMessage(Header) \o << >>
    BY <1>3, ConcatEmptySeq
  <2>3. (end'["Dialer"].recv_buf \o wire'["Dialer"]) \o << >> = HeaderThen(end'["Dialer"].state, Answered')
    BY <1>0, <1>1, <1>2, <2>1, <2>2 DEF HeaderThen
  <2> QED
    BY <1>0, <1>1, <1>2, <2>2, <2>3 DEF Inv, Dialing
<1>9. Delivered'
  BY <1>0, <1>2 DEF Delivered
<1> QED
  BY <1>2, <1>4, <1>6, <1>7, <1>8, <1>9 DEF Inv

\* The dialer learns that the listener has reset the stream; the listener
\* never has to.
LEMMA StreamClosedKeeps ==
    ASSUME Inv, NEW r \in Roles, StreamClosed(r)
    PROVE  Inv'
<1>0. "Dialer" \in Roles /\ "Listener" \in Roles
      /\ Roles = {"Dialer", "Listener"} /\ "Dialer" # "Listener"
  BY DEF Roles
<1>1. /\ phase["Listener"] = "rejected" /\ r = "Dialer" /\ phase["Dialer"] = "negotiating"
  <2>1. CASE r = "Listener"
    BY <2>1 DEF StreamClosed, HasReset, Other, Inv, Order
  <2>2. CASE r = "Dialer"
    BY <2>2 DEF StreamClosed, HasReset, Other, Inv, Order
  <2> QED
    BY <1>0, <2>1, <2>2
<1>2. /\ phase'["Dialer"] = "closed" /\ phase'["Listener"] = phase["Listener"]
      /\ pipelining' = pipelining /\ end' = end /\ sent' = sent /\ got' = got /\ wire' = wire
  BY <1>0, <1>1 DEF StreamClosed, Inv, TypeOK
<1>3. TypeOK'
  <2>1. phase' \in [Roles -> Phases]
    BY <1>0 DEF Inv, TypeOK, StreamClosed, Phases
  <2> QED
    BY <1>2, <2>1 DEF Inv, TypeOK
<1>4. Decided' /\ Decided /\ (Proposed' <=> Proposed) /\ (Supported' <=> Supported)
  BY <1>1, <1>2 DEF Decided, Proposed, Supported
<1>5. Order'
  BY <1>0, <1>1, <1>2, <1>4 DEF Inv, Order
<1>6. Listening' /\ Dialing' /\ Delivered'
  BY <1>0, <1>1, <1>2 DEF Listening, Dialing, Delivered
<1> QED
  BY <1>2, <1>3, <1>5, <1>6 DEF Inv

\* What follows U = A \o Data(1, k) by the next unit.
LEMMA OneMore ==
    ASSUME NEW A \in Seq(Units), NEW U \in Seq(Units), NEW w \in Seq(Units), NEW k \in Nat,
           U \o w = A \o Data(1, k)
    PROVE  U \o (w \o Data(k + 1, k + 1)) = A \o Data(1, k + 1)
<1>1. PICK u : u = Data(k + 1, k + 1)
  OBVIOUS
<1>2. PICK B : B = Data(1, k)
  OBVIOUS
<1>3. u \in Seq(Units) /\ B \in Seq(Units) /\ B \o u = Data(1, k + 1)
  BY <1>1, <1>2, DataUnits, DataMore
<1>4. U \o (w \o u) = (U \o w) \o u
  BY ONLY <1>3, U \in Seq(Units), w \in Seq(Units), Regroup, Zenon
<1>5. (A \o B) \o u = A \o (B \o u)
  BY ONLY <1>3, A \in Seq(Units), Regroup, Zenon
<1> QED
  BY ONLY <1>1, <1>2, <1>3, <1>4, <1>5, U \o w = A \o Data(1, k), Zenon

\* An end sends data.
LEMMA SendDataKeeps ==
    ASSUME Inv, NEW r \in Roles, SendData(r)
    PROVE  Inv'
<1>0. Typed /\ "Dialer" \in Roles /\ "Listener" \in Roles /\ MaxData \in Nat
      /\ Roles = {"Dialer", "Listener"} /\ "Dialer" # "Listener"
  BY InvTyped, NegotiationAssumption DEF Roles
<1>1. PICK k \in Nat : k = sent[r]
  BY <1>0 DEF Typed
<1>2. /\ phase[r] = "negotiated" /\ k < MaxData
      /\ sent' = [sent EXCEPT ![r] = k + 1]
      /\ wire' = [wire EXCEPT ![Other(r)] = wire[Other(r)] \o Data(k + 1, k + 1)]
      /\ pipelining' = pipelining /\ end' = end /\ phase' = phase /\ got' = got
  BY <1>0, <1>1 DEF SendData, Inv, TypeOK
<1>3. wire[Other(r)] \o Data(k + 1, k + 1) \in Seq(Units) /\ Other(r) \in Roles
  <2>1. Other(r) \in Roles
    BY DEF Other, Roles
  <2>2. wire[Other(r)] \in Seq(Units) /\ Data(k + 1, k + 1) \in Seq(Units)
    BY <1>0, <2>1, DataUnits DEF Typed
  <2> QED
    BY <2>1, <2>2, ConcatProperties
<1>4. TypeOK'
  <2>1. wire' \in [Roles -> Seq(Units)]
    BY <1>2, <1>3 DEF Inv, TypeOK
  <2>2. sent' \in [Roles -> 0 .. MaxData]
    BY <1>0, <1>2 DEF Inv, TypeOK
  <2> QED
    BY <1>2, <2>1, <2>2 DEF Inv, TypeOK
<1>5. (Decided' <=> Decided) /\ (Proposed' <=> Proposed) /\ (Supported' <=> Supported)
      /\ Answer' = Answer
  BY <1>2 DEF Decided, Proposed, Supported, Answer
<1>6. phase["Listener"] = "negotiated" /\ Decided /\ Proposed
  BY <1>0, <1>2 DEF Inv, Order, Decided
<1>7. Order'
  BY <1>0, <1>2, <1>5, <1>6 DEF Inv, Order
<1>8. Listening'
  BY <1>2, <1>6 DEF Listening
<1>9. CASE r = "Dialer"
  <2>1. /\ sent'["Dialer"] = k + 1 /\ sent'["Listener"] = sent["Listener"] /\ sent["Dialer"] = k
        /\ wire'["Dialer"] = wire["Dialer"]
        /\ wire'["Listener"] = wire["Listener"] \o Data(k + 1, k + 1)
    BY <1>0, <1>1, <1>2, <1>9 DEF Inv, TypeOK, Other
  <2>2. Dialing'
    BY <1>2, <1>9 DEF Dialing
  <2>3. got["Listener"] \o wire["Listener"] = Data(1, k)
    BY <1>0, <1>6, <2>1 DEF Inv, Delivered, Served
  <2>4. got["Listener"] \o (wire["Listener"] \o Data(k + 1, k + 1)) = Data(1, k + 1)
    <3>1. << >> \in Seq(Units) /\ got["Listener"] \in Seq(Units) /\ wire["Listener"] \in Seq(Units)
      BY <1>0, DataUnits DEF Inv, TypeOK, Typed
    <3>2. /\ << >> \o Data(1, k) = Data(1, k) /\ << >> \o Data(1, k + 1) = Data(1, k + 1)
      BY DataUnits, ConcatEmptySeq
    <3>3. got["Listener"] \o wire["Listener"] = << >> \o Data(1, k)
      BY ONLY <2>3, <3>2
    <3>4. got["Listener"] \o (wire["Listener"] \o Data(k + 1, k + 1)) = << >> \o Data(1, k + 1)
      BY ONLY <3>1, <3>3, k \in Nat, OneMore
    <3> QED
      BY ONLY <3>2, <3>4
  <2>5. Delivered'
    BY <1>0, <1>2, <2>1, <2>4 DEF Inv, Delivered, Served
  <2> QED
    BY <1>2, <1>4, <1>7, <1>8, <2>2, <2>5 DEF Inv
<1>10. CASE r = "Listener"
  <2>1. /\ sent'["Listener"] = k + 1 /\ sent'["Dialer"] = sent["Dialer"] /\ sent["Listener"] = k
        /\ wire'["Listener"] = wire["Listener"]
        /\ wire'["Dialer"] = wire["Dialer"] \o Data(k + 1, k + 1)
    BY <1>0, <1>1, <1>2, <1>10 DEF Inv, TypeOK, Other
  <2>2. ASSUME NEW A \in Seq(Units), NEW U \in Seq(Units), U \o wire["Dialer"] = A \o Data(1, k)
        PROVE  U \o wire'["Dialer"] = A \o Data(1, k + 1)
    <3>1. wire["Dialer"] \in Seq(Units)
      BY <1>0 DEF Typed
    <3>2. U \o (wire["Dialer"] \o Data(k + 1, k + 1)) = A \o Data(1, k + 1)
      BY ONLY <2>2, <3>1, k \in Nat, OneMore
    <3> QED
      BY ONLY <2>1, <3>2
  <2>3. Dialing'
    <3> SUFFICES ASSUME phase["Dialer"] = "negotiating" PROVE Dialing'
      BY <1>2, <1>6 DEF Dialing, Inv, Order
    <3>0. PICK U \in Seq(Units) : U = end["Dialer"].recv_buf
      BY <1>0 DEF Typed
    <3>1. /\ end["Dialer"].state \in {"WaitingForRemoteHeader", "WaitingForProtocolResponse"}
          /\ got["Dialer"] = << >>
          /\ (U \o wire["Dialer"]) \o << >> = HeaderThen(end["Dialer"].state, Answered)
      BY <1>6, <3>0 DEF Inv, Dialing
    <3>2. /\ U \o wire["Dialer"] \in Seq(Units) /\ wire["Dialer"] \in Seq(Units)
          /\ (U \o wire["Dialer"]) \o << >> = U \o wire["Dialer"]
      BY <1>0, ConcatProperties, ConcatEmptySeq DEF Typed
    <3>3. PICK E \in Seq(Units) : E = EncodeMessage(Answer)
      BY <1>0 DEF Typed
    <3>4. Answered = E \o Data(1, k) /\ Answered' = E \o Data(1, k + 1)
      BY <1>5, <1>6, <2>1, <3>3 DEF Answered
    <3>5. U \o wire'["Dialer"] = HeaderThen(end["Dialer"].state, Answered')
      <4>1. CASE end["Dialer"].state = "WaitingForRemoteHeader"
        <5>1. PICK H \in Seq(Units) : H = EncodeMessage(Header)
          BY <1>0 DEF Typed
        <5>2. Data(1, k) \in Seq(Units) /\ Data(1, k + 1) \in Seq(Units)
          <6>1. k + 1 \in Nat
            OBVIOUS
          <6> QED
            BY ONLY <6>1, k \in Nat, DataUnits, Zenon
        <5>3. /\ H \o E \in Seq(Units) /\ (H \o E) \o Data(1, k) = H \o (E \o Data(1, k))
              /\ (H \o E) \o Data(1, k + 1) = H \o (E \o Data(1, k + 1))
          <6>1. H \o E \in Seq(Units)
            BY ConcatProperties
          <6>2. \A q \in Seq(Units) : (H \o E) \o q = H \o (E \o q)
            BY ONLY H \in Seq(Units), E \in Seq(Units), Regroup, Zenon
          <6>3. (H \o E) \o Data(1, k) = H \o (E \o Data(1, k))
            BY ONLY <5>2, <6>2, Zenon
          <6>4. (H \o E) \o Data(1, k + 1) = H \o (E \o Data(1, k + 1))
            BY ONLY <5>2, <6>2, Zenon
          <6> QED
            BY ONLY <6>1, <6>3, <6>4, Zenon
        <5>4. U \o wire["Dialer"] = (H \o E) \o Data(1, k)
          BY <3>1, <3>2, <3>4, <4>1, <5>1, <5>3 DEF HeaderThen
        <5>5. U \o wire'["Dialer"] = (H \o E) \o Data(1, k + 1)
          BY ONLY <2>2, <5>3, <5>4, U \in Seq(Units)
        <5> QED
          BY <3>4, <4>1, <5>1, <5>3, <5>5 DEF HeaderThen
      <4>2. CASE end["Dialer"].state # "WaitingForRemoteHeader"
        <5>1. U \o wire["Dialer"] = E \o Data(1, k)
          BY <3>1, <3>2, <3>4, <4>2 DEF HeaderThen
        <5>2. U \o wire'["Dialer"] = E \o Data(1, k + 1)
          BY ONLY <2>2, <5>1, U \in Seq(Units), E \in Seq(Units)
        <5> QED
          BY <3>4, <4>2, <5>2 DEF HeaderThen
      <4> QED
        BY <4>1, <4>2
    <3>6. (U \o wire'["Dialer"]) \o << >> = U \o wire'["Dialer"]
      <4>1. wire'["Dialer"] \in Seq(Units)
        BY <1>0, <1>4 DEF TypeOK
      <4> QED
        BY <4>1, ConcatProperties, ConcatEmptySeq
    <3>7. << >> \in Seq(Units)
      OBVIOUS
    <3> QED
      BY <1>2, <1>6, <3>0, <3>1, <3>5, <3>6, <3>7 DEF Dialing
  <2>4. Delivered'
    <3>1. phase["Dialer"] = "negotiated" => got["Dialer"] \o wire'["Dialer"] = Data(1, k + 1)
      <4> HAVE phase["Dialer"] = "negotiated"
      <4>1. got["Dialer"] \in Seq(Units) /\ << >> \in Seq(Units)
        BY <1>0, DataUnits DEF Inv, TypeOK
      <4>2. /\ << >> \o Data(1, k) = Data(1, k) /\ << >> \o Data(1, k + 1) = Data(1, k + 1)
        BY DataUnits, ConcatEmptySeq
      <4>3. got["Dialer"] \o wire["Dialer"] = << >> \o Data(1, k)
        BY <1>0, <2>1, <4>2 DEF Inv, Delivered, Served
      <4>4. got["Dialer"] \o wire'["Dialer"] = << >> \o Data(1, k + 1)
        BY ONLY <2>2, <4>1, <4>3
      <4> QED
        BY ONLY <4>2, <4>4
    <3> QED
      BY <1>0, <1>2, <2>1, <3>1 DEF Inv, Delivered, Served
  <2> QED
    BY <1>2, <1>4, <1>7, <1>8, <2>3, <2>4 DEF Inv
<1> QED
  BY <1>0, <1>9, <1>10

-----------------------------------------------------------------------------
(* What the swarm makes of the outputs.                                    *)

\* One output after another.
LEMMA TwoInARow == \A p, q : <<p>> \o <<q>> = <<p, q>>
<1> TAKE p, q
<1> DEFINE X == {p, q}
<1>1. PICK A : A = <<p>>
  OBVIOUS
<1>2. PICK B : B = <<q>>
  OBVIOUS
<1>3. PICK L : L = <<p, q>>
  OBVIOUS
<1>4. A \in Seq(X) /\ Len(A) = 1 /\ A[1] = p
  BY <1>1
<1>5. B \in Seq(X) /\ Len(B) = 1 /\ B[1] = q
  BY <1>2
<1>6. L \in Seq(X) /\ Len(L) = 2 /\ L[1] = p /\ L[2] = q
  BY <1>3
<1> HIDE DEF X
<1>7. /\ Len(L) = Len(A) + Len(B) /\ \A i \in 1 .. Len(A) : L[i] = A[i]
      /\ \A i \in 1 .. Len(B) : L[Len(A) + i] = B[i]
  BY <1>4, <1>5, <1>6
<1>8. L = A \o B
  BY ONLY <1>4, <1>5, <1>6, <1>7, ConcatIs
<1> QED
  BY <1>1, <1>2, <1>3, <1>8

\* The outputs are a verdict, or nothing.
Says(r, outputs, kind, reply) ==
    /\ \A k \in {"Negotiated", "NotAvailable", "ProtocolError"} : Has(outputs, k) <=> k = kind
    /\ Replies(r, outputs) = reply

\* No output.
LEMMA SaysNothing == \A r \in Roles : Says(r, << >>, "none", << >>)
BY DEF Says, Has, Replies

\* The listener's verdict.
LEMMA SaysVerdict ==
    ASSUME NEW m, NEW d
    PROVE  /\ d \in m.supported_protocols =>
                Says("Listener", Verdict(m, d), "Negotiated", EncodeMessage(d))
           /\ d \notin m.supported_protocols =>
                Says("Listener", Verdict(m, d), "NotAvailable", EncodeMessage(NotAvailable))
<1>1. ASSUME NEW x, NEW y, NEW k \in {"Negotiated", "NotAvailable"}
      PROVE  Says("Listener", <<Out("OutboundData", x), Out(k, y)>>, k, EncodeMessage(x))
  <2>1. PICK o : o = <<Out("OutboundData", x), Out(k, y)>>
    OBVIOUS
  <2>2. DOMAIN o = {1, 2} /\ o[1] = Out("OutboundData", x) /\ o[2] = Out(k, y)
    BY <2>1
  <2>3. o[1].kind = "OutboundData" /\ o[1].line = x /\ o[2].kind = k
    BY <2>2 DEF Out
  <2>4. {i \in DOMAIN o : o[i].kind = "OutboundData"} = {1}
    BY <2>2, <2>3
  <2>5. (CHOOSE i \in {1} : TRUE) = 1
    OBVIOUS
  <2>6. Replies("Listener", o) = EncodeMessage(x)
    BY <2>3, <2>4, <2>5 DEF Replies
  <2>7. \A j \in {"Negotiated", "NotAvailable", "ProtocolError"} : Has(o, j) <=> j = k
    BY <2>2, <2>3 DEF Has
  <2> QED
    BY <2>1, <2>6, <2>7 DEF Says
<1> QED
  BY <1>1 DEF Verdict

\* The dialer's proposal leaves unless it has left with the header.
LEMMA SaysProposal ==
    ASSUME NEW m
    PROVE  Says("Dialer", Proposal(m), "none",
                IF ~pipelining /\ m.state = "WaitingForRemoteHeader"
                THEN EncodeMessage(m.desired_protocol) ELSE << >>)
<1>1. CASE m.state = "WaitingForRemoteHeader"
  <2>1. PICK o : o = <<Out("OutboundData", m.desired_protocol)>>
    OBVIOUS
  <2>2. DOMAIN o = {1} /\ o[1] = Out("OutboundData", m.desired_protocol)
    BY <2>1
  <2>3. o[1].kind = "OutboundData" /\ o[1].line = m.desired_protocol
    BY <2>2 DEF Out
  <2>4. {i \in DOMAIN o : o[i].kind = "OutboundData"} = {1}
    BY <2>2, <2>3
  <2>5. (CHOOSE i \in {1} : TRUE) = 1
    OBVIOUS
  <2>6. Replies("Dialer", o) = IF pipelining THEN << >> ELSE EncodeMessage(m.desired_protocol)
    BY <2>3, <2>4, <2>5 DEF Replies
  <2>7. \A j \in {"Negotiated", "NotAvailable", "ProtocolError"} : Has(o, j) <=> j = "none"
    BY <2>2, <2>3 DEF Has
  <2> QED
    BY <1>1, <2>1, <2>6, <2>7 DEF Says, Proposal
<1>2. CASE m.state # "WaitingForRemoteHeader"
  <2>1. Proposal(m) = << >> /\ "Dialer" \in Roles
    BY <1>2 DEF Proposal, Roles
  <2> QED
    BY <1>2, <2>1, SaysNothing
<1> QED
  BY <1>1, <1>2

\* The dialer's conclusion, where the proposal has been made.
LEMMA SaysConclusion ==
    ASSUME NEW m, NEW x, pipelining \/ m.state # "WaitingForRemoteHeader"
    PROVE  Says("Dialer", Proposal(m) \o Conclusion(m, x),
                IF x = NotAvailable THEN "NotAvailable" ELSE "Negotiated", << >>)
<1>1. PICK k : k = IF x = NotAvailable THEN "NotAvailable" ELSE "Negotiated"
  OBVIOUS
<1>2. Conclusion(m, x) = <<Out(k, x)>> /\ k \in {"NotAvailable", "Negotiated"}
  BY <1>1 DEF Conclusion
<1>3. PICK o : o = Proposal(m) \o Conclusion(m, x)
  OBVIOUS
<1>4. CASE m.state = "WaitingForRemoteHeader"
  <2>1. o = <<Out("OutboundData", m.desired_protocol)>> \o <<Out(k, x)>>
    BY <1>2, <1>3, <1>4 DEF Proposal
  <2>2. o = <<Out("OutboundData", m.desired_protocol), Out(k, x)>>
    BY <2>1, TwoInARow, Zenon
  <2>3. DOMAIN o = {1, 2} /\ o[1].kind = "OutboundData" /\ o[2].kind = k
    BY <2>2 DEF Out
  <2>4. \A j \in {"Negotiated", "NotAvailable", "ProtocolError"} : Has(o, j) <=> j = k
    BY <1>2, <2>3 DEF Has
  <2>5. Replies("Dialer", o) = << >>
    BY <1>4 DEF Replies
  <2> QED
    BY <1>1, <1>3, <2>4, <2>5 DEF Says
<1>5. CASE m.state # "WaitingForRemoteHeader"
  <2>1. o = << >> \o <<Out(k, x)>>
    BY <1>2, <1>3, <1>5 DEF Proposal
  <2>2. o = <<Out(k, x)>>
    BY <2>1
  <2>3. DOMAIN o = {1} /\ o[1].kind = k
    BY <2>2 DEF Out
  <2>4. \A j \in {"Negotiated", "NotAvailable", "ProtocolError"} : Has(o, j) <=> j = k
    BY <1>2, <2>3 DEF Has
  <2>5. Replies("Dialer", o) = << >>
    BY <1>2, <2>3 DEF Replies
  <2> QED
    BY <1>1, <1>3, <2>4, <2>5 DEF Says
<1> QED
  BY <1>4, <1>5

\* What FeedNegotiator does, by the verdict that the outputs hold.
Feeds(r, res, kind, reply, rest) ==
    LET full == wire[Other(r)] \o reply
    IN  \/ /\ kind = "Negotiated"
           /\ end' = [end EXCEPT ![r] = [res.m EXCEPT !.recv_buf = << >>]]
           /\ phase' = [phase EXCEPT ![r] = "negotiated"]
           /\ got' = [got EXCEPT ![r] = res.m.recv_buf]
           /\ wire' = [wire EXCEPT ![r] = rest, ![Other(r)] = full]
        \/ /\ kind = "NotAvailable"
           /\ end' = [end EXCEPT ![r] = res.m]
           /\ phase' = [phase EXCEPT ![r] = "rejected"]
           /\ \E n \in 0 .. Len(full) :
                wire' = [wire EXCEPT ![r] = rest, ![Other(r)] = SubSeq(full, 1, n)]
           /\ got' = got
        \/ /\ res.m.state # "Done"
           /\ end' = [end EXCEPT ![r] = res.m]
           /\ phase' = phase
           /\ wire' = [wire EXCEPT ![r] = rest, ![Other(r)] = full]
           /\ got' = got

\* FeedNegotiator follows the verdict.
LEMMA FeedsByKind ==
    ASSUME NEW r \in Roles, NEW data, FeedNegotiator(r, data), NEW res, res = Receive(end[r], data),
           NEW kind \in {"Negotiated", "NotAvailable", "none"}, NEW reply,
           Says(r, res.outputs, kind, reply)
    PROVE  Feeds(r, res, kind, reply, SubSeq(wire[r], Len(data) + 1, Len(wire[r])))
<1>1. /\ Has(res.outputs, "Negotiated") <=> kind = "Negotiated"
      /\ Has(res.outputs, "NotAvailable") <=> kind = "NotAvailable"
      /\ ~Has(res.outputs, "ProtocolError")
      /\ Replies(r, res.outputs) = reply
  BY DEF Says
<1> QED
  BY <1>1, Zenon DEF FeedNegotiator, Feeds

\* The first n units of w come behind b, and the rest of w and t is left.
Arrival(b, w, n, t, Y) ==
    \E data \in Seq(Units), rest \in Seq(Units) :
      /\ data = SubSeq(w, 1, n) /\ Len(data) = n
      /\ rest = SubSeq(w, Len(data) + 1, Len(w))
      /\ data \o rest = w /\ rest \o t \in Seq(Units)
      /\ (b \o data) \o (rest \o t) = Y

\* What is left when the first n units have come.
LEMMA Arrives ==
    ASSUME NEW b \in Seq(Units), NEW w \in Seq(Units), NEW n \in Nat, n <= Len(w), NEW t \in Seq(Units),
           NEW Y, (b \o w) \o t = Y
    PROVE  Arrival(b, w, n, t, Y)
<1>0. n \in 0 .. Len(w)
  OBVIOUS
<1>1. PICK data : data = SubSeq(w, 1, n)
  OBVIOUS
<1>2. PICK rest : rest = SubSeq(w, n + 1, Len(w))
  OBVIOUS
<1>3. data \in Seq(Units) /\ rest \in Seq(Units) /\ Len(data) = n /\ data \o rest = w
  <2>1. /\ SubSeq(w, 1, n) \in Seq(Units) /\ SubSeq(w, n + 1, Len(w)) \in Seq(Units)
        /\ Len(SubSeq(w, 1, n)) = n
        /\ SubSeq(w, 1, n) \o SubSeq(w, n + 1, Len(w)) = w
    BY ONLY <1>0, w \in Seq(Units), CutAt
  <2> QED
    BY ONLY <1>1, <1>2, <2>1, Zenon
<1>4. b \o data \in Seq(Units) /\ rest \o t \in Seq(Units)
  BY <1>3, ConcatProperties
<1>5. (b \o data) \o (rest \o t) = Y
  <2>1. (b \o data) \o (rest \o t) = ((b \o data) \o rest) \o t
    <3>1. PICK c \in Seq(Units) : c = b \o data
      BY <1>4
    <3>2. (c \o rest) \o t = c \o (rest \o t)
      BY ONLY <1>3, c \in Seq(Units), t \in Seq(Units), Regroup, Zenon
    <3> QED
      BY ONLY <3>1, <3>2, Zenon
  <2>2. (b \o data) \o rest = b \o w
    BY ONLY <1>3, b \in Seq(Units), Regroup, Zenon
  <2> QED
    BY ONLY <2>1, <2>2, (b \o w) \o t = Y, Zenon
<1> QED
  BY <1>1, <1>2, <1>3, <1>4, <1>5 DEF Arrival

-----------------------------------------------------------------------------
(* The listener negotiates.                                                *)

\* The three things that data does to the listener.
ListenerWaits ==
    \E b \in Seq(Units), rest \in Seq(Units),
       state \in {"WaitingForRemoteHeader", "WaitingForProtocolRequest"} :
      /\ b \o rest = HeaderThen(state, Asked)
      /\ end' = [end EXCEPT !["Listener"] = Moved(end["Listener"], state, b)]
      /\ wire' = [wire EXCEPT !["Listener"] = rest]
      /\ phase' = phase /\ got' = got

ListenerAccepts ==
    \E b \in Seq(Units), rest \in Seq(Units) :
      /\ Proposed /\ Supported
      /\ b \o rest = Data(1, sent["Dialer"])
      /\ end' = [end EXCEPT !["Listener"] = Moved(end["Listener"], "Done", << >>)]
      /\ phase' = [phase EXCEPT !["Listener"] = "negotiated"]
      /\ got' = [got EXCEPT !["Listener"] = b]
      /\ wire' = [wire EXCEPT !["Listener"] = rest,
                              !["Dialer"] = @ \o EncodeMessage(end["Dialer"].desired_protocol)]

ListenerRejects ==
    \E b \in Seq(Units), rest \in Seq(Units), full \in Seq(Units) : \E n \in 0 .. Len(full) :
      /\ Proposed /\ ~Supported
      /\ full = wire["Dialer"] \o EncodeMessage(NotAvailable)
      /\ end' = [end EXCEPT !["Listener"] = Moved(end["Listener"], "Done", b)]
      /\ phase' = [phase EXCEPT !["Listener"] = "rejected"]
      /\ got' = got
      /\ wire' = [wire EXCEPT !["Listener"] = rest, !["Dialer"] = SubSeq(full, 1, n)]

\* Data does one of them.
LEMMA ListenerFed ==
    ASSUME Inv, phase["Listener"] = "negotiating", NEW n \in Nat, n <= Len(wire["Listener"]),
           FeedNegotiator("Listener", SubSeq(wire["Listener"], 1, n))
    PROVE  ListenerWaits \/ ListenerAccepts \/ ListenerRejects
<1>0. Typed /\ "Dialer" \in Roles /\ "Listener" \in Roles /\ Other("Listener") = "Dialer"
      /\ "Dialer" # "Listener" /\ wire \in [Roles -> Seq(Units)]
  BY InvTyped DEF Roles, Other, Inv, TypeOK
<1>1. PICK m \in Negotiator : m = end["Listener"]
  BY <1>0 DEF Typed
<1>2. PICK d \in Protocols : d = end["Dialer"].desired_protocol
  BY <1>0 DEF Typed
<1>3. PICK Z \in Seq(Units) : Z = Data(1, sent["Dialer"])
  BY <1>0 DEF Typed
<1>4. PICK w \in Seq(Units) : w = wire["Listener"]
  BY <1>0 DEF Typed
<1>a. PICK u \in Seq(Units) : u = wire["Dialer"]
  BY <1>0 DEF Typed
<1>5. /\ m.role = "Listener" /\ m.recv_buf \in Seq(Units)
      /\ m.state \in {"WaitingForRemoteHeader", "WaitingForProtocolRequest"}
      /\ m.recv_buf \o w = HeaderThen(m.state, Asked)
      /\ Asked \in {<< >>, EncodeMessage(d) \o Z}
      /\ (Asked = EncodeMessage(d) \o Z => Proposed)
  <2>1. m.role = "Listener" /\ m.recv_buf \in Seq(Units)
    BY <1>0, <1>1 DEF Typed
  <2>2. phase["Dialer"] # "idle"
    BY DEF Inv, Order
  <2>3. /\ m.state \in {"WaitingForRemoteHeader", "WaitingForProtocolRequest"}
        /\ m.recv_buf \o w = HeaderThen(m.state, Asked)
    BY <1>1, <1>4, <2>2 DEF Inv, Listening
  <2>4. Asked \in {<< >>, EncodeMessage(d) \o Z}
    BY <1>2, <1>3 DEF Asked
  <2>5. EncodeMessage(d) \o Z # << >>
    <3>1. EncodeMessage(d) \in Seq(Units) /\ Len(EncodeMessage(d)) = FrameLen /\ FrameLen # 0
      BY EncodedIs, FrameLenAssumption DEF Lines
    <3>2. EncodeMessage(d) # << >>
      BY <3>1
    <3> QED
      BY <3>1, <3>2, ConcatEqualIffEmpty
  <2>6. Asked = EncodeMessage(d) \o Z => Proposed
    BY <2>5 DEF Asked
  <2> QED
    BY <2>1, <2>3, <2>4, <2>6
<1>6. PICK data \in Seq(Units), rest \in Seq(Units) :
        /\ data = SubSeq(w, 1, n) /\ Len(data) = n
        /\ rest = SubSeq(w, Len(data) + 1, Len(w))
        /\ data \o rest = w /\ rest \o << >> \in Seq(Units)
        /\ (m.recv_buf \o data) \o (rest \o << >>) = HeaderThen(m.state, Asked)
  <2>1. (m.recv_buf \o w) \o << >> = HeaderThen(m.state, Asked) /\ << >> \in Seq(Units)
    BY <1>5, ConcatProperties, ConcatEmptySeq
  <2>2. n <= Len(w)
    BY <1>4
  <2>3. PICK Y : Y = HeaderThen(m.state, Asked)
    OBVIOUS
  <2>4. PICK c \in Seq(Units) : c = m.recv_buf
    BY <1>5
  <2>5. (c \o w) \o << >> = Y /\ << >> \in Seq(Units)
    BY <2>1, <2>3, <2>4
  <2>6. Arrival(c, w, n, << >>, Y)
    BY ONLY <2>2, <2>5, c \in Seq(Units), n \in Nat, w \in Seq(Units), Arrives
  <2> QED
    BY ONLY <2>3, <2>4, <2>6, Zenon DEF Arrival
<1>7. PICK res : res = Receive(m, data)
  OBVIOUS
<1>8. ListenerResult(m, res, rest, d, Z, Asked)
  <2>1. (m.recv_buf \o data) \o rest = HeaderThen(m.state, Asked)
    <3>1. rest \o << >> = rest
      BY ConcatEmptySeq
    <3> QED
      BY ONLY <1>6, <3>1, Zenon
  <2>2. PICK A \in {<< >>, EncodeMessage(d) \o Z} : A = Asked
    BY <1>5
  <2>3. (m.recv_buf \o data) \o rest = HeaderThen(m.state, A)
    BY <2>1, <2>2
  <2>4. ListenerResult(m, Receive(m, data), rest, d, Z, A)
    <3>1. /\ m.role = "Listener"
          /\ m.state \in {"WaitingForRemoteHeader", "WaitingForProtocolRequest"}
      BY <1>5
    <3> QED
      BY ONLY <2>3, <3>1, m \in Negotiator, data \in Seq(Units), rest \in Seq(Units), d \in Protocols,
              Z \in Seq(Units), A \in {<< >>, EncodeMessage(d) \o Z}, ListenerReceives
  <2> QED
    BY <1>7, <2>2, <2>4
<1>9. FeedNegotiator("Listener", data)
  BY <1>4, <1>6
<1>10. PICK b \in Seq(Units) :
         \/ \E state \in {"WaitingForRemoteHeader", "WaitingForProtocolRequest"} :
              /\ res = [m |-> Moved(m, state, b), outputs |-> << >>]
              /\ b \o rest = HeaderThen(state, Asked)
         \/ /\ Asked = EncodeMessage(d) \o Z
            /\ b \o rest = Z
            /\ res = [m |-> Moved(m, "Done", b), outputs |-> Verdict(m, d)]
  BY <1>8 DEF ListenerResult
<1>11. rest = SubSeq(wire["Listener"], Len(data) + 1, Len(wire["Listener"]))
  BY <1>4, <1>6
<1>12. ASSUME NEW state \in {"WaitingForRemoteHeader", "WaitingForProtocolRequest"},
              res = [m |-> Moved(m, state, b), outputs |-> << >>],
              b \o rest = HeaderThen(state, Asked)
       PROVE  ListenerWaits
  <2>1. res.m = Moved(m, state, b) /\ res.outputs = << >> /\ state \in States /\ state # "Done"
    BY <1>12 DEF States
  <2>2. res.m.state # "Done"
    BY <2>1, MovedIs
  <2>3. Says("Listener", res.outputs, "none", << >>)
    BY <1>0, <2>1, SaysNothing
  <2>4. Feeds("Listener", res, "none", << >>, rest)
    BY ONLY <1>0, <1>1, <1>7, <1>9, <1>11, <2>3, FeedsByKind
  <2>5. u \o << >> = u
    BY ConcatEmptySeq
  <2>6. /\ end' = [end EXCEPT !["Listener"] = Moved(m, state, b)]
        /\ wire' = [wire EXCEPT !["Listener"] = rest, !["Dialer"] = u]
        /\ phase' = phase /\ got' = got
    BY <1>0, <1>a, <2>1, <2>2, <2>4, <2>5 DEF Feeds
  <2>7. wire' = [wire EXCEPT !["Listener"] = rest]
    BY <1>0, <1>a, <2>6
  <2> QED
    BY <1>1, <1>12, <2>6, <2>7 DEF ListenerWaits
<1>13. ASSUME Asked = EncodeMessage(d) \o Z, b \o rest = Z,
              res = [m |-> Moved(m, "Done", b), outputs |-> Verdict(m, d)]
       PROVE  ListenerAccepts \/ ListenerRejects
  <2>1. res.m = Moved(m, "Done", b) /\ res.outputs = Verdict(m, d) /\ "Done" \in States
    BY <1>13 DEF States
  <2>2. res.m.state = "Done" /\ res.m.recv_buf = b
    BY <2>1, MovedIs
  <2>3. CASE d \in m.supported_protocols
    <3>1. Says("Listener", res.outputs, "Negotiated", EncodeMessage(d))
      BY <2>1, <2>3, SaysVerdict
    <3>2. Feeds("Listener", res, "Negotiated", EncodeMessage(d), rest)
      BY ONLY <1>0, <1>1, <1>7, <1>9, <1>11, <3>1, FeedsByKind
    <3>3. [res.m EXCEPT !.recv_buf = << >>] = Moved(m, "Done", << >>)
      BY <2>1 DEF Moved, Negotiator
    <3>4. /\ end' = [end EXCEPT !["Listener"] = Moved(m, "Done", << >>)]
          /\ phase' = [phase EXCEPT !["Listener"] = "negotiated"]
          /\ got' = [got EXCEPT !["Listener"] = b]
          /\ wire' = [wire EXCEPT !["Listener"] = rest, !["Dialer"] = u \o EncodeMessage(d)]
      BY <1>0, <1>a, <2>2, <3>2, <3>3 DEF Feeds
    <3>5. wire' = [wire EXCEPT !["Listener"] = rest, !["Dialer"] = @ \o EncodeMessage(d)]
      BY <1>0, <1>a, <3>4
    <3>6. Supported /\ Proposed
      BY <1>1, <1>2, <1>5, <1>13, <2>3 DEF Supported
    <3> QED
      BY <1>1, <1>2, <1>3, <1>13, <3>4, <3>5, <3>6 DEF ListenerAccepts
  <2>4. CASE d \notin m.supported_protocols
    <3>1. Says("Listener", res.outputs, "NotAvailable", EncodeMessage(NotAvailable))
      BY <2>1, <2>4, SaysVerdict
    <3>2. Feeds("Listener", res, "NotAvailable", EncodeMessage(NotAvailable), rest)
      BY ONLY <1>0, <1>1, <1>7, <1>9, <1>11, <3>1, FeedsByKind
    <3>3. PICK full \in Seq(Units) : full = wire["Dialer"] \o EncodeMessage(NotAvailable)
      BY <1>0, ConcatProperties DEF Typed
    <3>4. /\ end' = [end EXCEPT !["Listener"] = Moved(m, "Done", b)]
          /\ phase' = [phase EXCEPT !["Listener"] = "rejected"]
          /\ got' = got
          /\ \E k \in 0 .. Len(full) :
               wire' = [wire EXCEPT !["Listener"] = rest, !["Dialer"] = SubSeq(full, 1, k)]
      BY <1>0, <2>1, <2>2, <3>2, <3>3 DEF Feeds
    <3>6. ~Supported /\ Proposed
      BY <1>1, <1>2, <1>5, <1>13, <2>4 DEF Supported
    <3> QED
      <4>1. PICK k \in 0 .. Len(full) :
              wire' = [wire EXCEPT !["Listener"] = rest, !["Dialer"] = SubSeq(full, 1, k)]
        BY <3>4
      <4>2. end' = [end EXCEPT !["Listener"] = Moved(end["Listener"], "Done", b)]
        BY <1>1, <3>4
      <4> QED
        BY <3>3, <3>4, <3>6, <4>1, <4>2, Zenon DEF ListenerRejects
  <2> QED
    BY <2>3, <2>4
<1> QED
  BY <1>10, <1>12, <1>13

\* What a negotiator that moves leaves alone.
EndMoved(r, state, b) ==
    /\ end' \in [Roles -> Negotiator]
    /\ end'[r].state = state /\ end'[r].recv_buf = b
    /\ end'[Other(r)] = end[Other(r)]
    /\ \A q \in Roles : /\ end'[q].role = q
                        /\ end'[q].desired_protocol = end[q].desired_protocol
                        /\ end'[q].supported_protocols = end[q].supported_protocols

\* One end moves, the other does not.
LEMMA EndMoves ==
    ASSUME Inv, NEW r \in Roles, NEW state \in States, NEW b \in Seq(Units),
           end' = [end EXCEPT ![r] = Moved(end[r], state, b)]
    PROVE  EndMoved(r, state, b)
<1>1. end \in [Roles -> Negotiator] /\ (\A q \in Roles : end[q].role = q) /\ end[r] \in Negotiator
  BY DEF Inv, TypeOK
<1>2. PICK m : m = Moved(end[r], state, b)
  OBVIOUS
<1>3. /\ m \in Negotiator /\ m.state = state /\ m.recv_buf = b /\ m.role = end[r].role
      /\ m.desired_protocol = end[r].desired_protocol
      /\ m.supported_protocols = end[r].supported_protocols
  BY <1>1, <1>2, MovedIs
<1>4. end' = [end EXCEPT ![r] = m] /\ Other(r) \in Roles /\ Other(r) # r
  BY <1>2 DEF Other, Roles
<1>5. end' \in [Roles -> Negotiator] /\ end'[r] = m /\ \A q \in Roles : q # r => end'[q] = end[q]
  BY <1>1, <1>3, <1>4
<1> QED
  BY <1>1, <1>3, <1>4, <1>5 DEF EndMoved

\* The halves of a sequence of data are data.
LEMMA HalvesAreData ==
    ASSUME NEW p \in Seq(Units), NEW q \in Seq(Units), NEW k \in Nat, p \o q = Data(1, k)
    PROVE  p \in Seq([data : Nat]) /\ q \in Seq([data : Nat])
<1>1. PICK C : C = p \o q
  OBVIOUS
<1>2. C \in Seq([data : Nat])
  <2>1. 1 \in Nat /\ 1 <= k + 1
    OBVIOUS
  <2>2. Data(1, k) \in Seq([data : Nat])
    BY ONLY <2>1, k \in Nat, DataIs
  <2> QED
    BY <1>1, <2>2
<1>3. /\ Len(p) \in Nat /\ Len(q) \in Nat /\ Len(C) = Len(p) + Len(q)
      /\ \A i \in 1 .. Len(p) : C[i] = p[i]
      /\ \A i \in 1 .. Len(q) : C[Len(p) + i] = q[i]
  <2>1. /\ Len(p) \in Nat /\ Len(q) \in Nat /\ Len(p \o q) = Len(p) + Len(q)
        /\ \A i \in 1 .. Len(p) : (p \o q)[i] = p[i]
        /\ \A i \in 1 .. Len(q) : (p \o q)[Len(p) + i] = q[i]
    BY ONLY p \in Seq(Units), q \in Seq(Units), ConcatHalves
  <2> QED
    BY ONLY <1>1, <2>1, Zenon
<1>4. \A i \in 1 .. Len(C) : C[i] \in [data : Nat]
  BY <1>2, LenProperties
<1>5. (\A i \in 1 .. Len(p) : p[i] \in [data : Nat]) /\ (\A i \in 1 .. Len(q) : q[i] \in [data : Nat])
  <2>1. \A i \in 1 .. Len(p) : i \in 1 .. Len(C)
    BY <1>3
  <2>2. \A i \in 1 .. Len(q) : Len(p) + i \in 1 .. Len(C)
    BY <1>3
  <2>3. \A i \in 1 .. Len(q) : C[Len(p) + i] \in [data : Nat]
    BY <1>4, <2>2
  <2>4. \A i \in 1 .. Len(p) : C[i] \in [data : Nat]
    BY <1>4, <2>1
  <2> QED
    BY <1>3, <2>3, <2>4
<1>6. p \in [1 .. Len(p) -> Units] /\ q \in [1 .. Len(q) -> Units]
  BY LenProperties
<1>7. p \in [1 .. Len(p) -> [data : Nat]] /\ q \in [1 .. Len(q) -> [data : Nat]]
  BY <1>5, <1>6
<1>8. Len(p) \in Nat /\ Len(q) \in Nat
  BY <1>3
<1>9. PICK X : X = [data : Nat]
  OBVIOUS
<1>10. p \in [1 .. Len(p) -> X] /\ q \in [1 .. Len(q) -> X]
  BY ONLY <1>7, <1>9, Zenon
<1>11. p \in Seq(X) /\ q \in Seq(X)
  BY ONLY <1>8, <1>10
<1> QED
  BY ONLY <1>9, <1>11, Zenon

\* A listener that waits.
LEMMA ListenerWaitsKeeps ==
    ASSUME Inv, phase["Listener"] = "negotiating", ListenerWaits, UNCHANGED <<pipelining, sent>>
    PROVE  Inv'
<1>0. /\ Typed /\ "Dialer" \in Roles /\ "Listener" \in Roles /\ Other("Listener") = "Dialer"
      /\ Roles = {"Dialer", "Listener"} /\ "Dialer" # "Listener" /\ wire \in [Roles -> Seq(Units)]
  BY InvTyped DEF Roles, Other, Inv, TypeOK
<1>1. PICK b \in Seq(Units), rest \in Seq(Units),
           state \in {"WaitingForRemoteHeader", "WaitingForProtocolRequest"} :
        /\ b \o rest = HeaderThen(state, Asked)
        /\ end' = [end EXCEPT !["Listener"] = Moved(end["Listener"], state, b)]
        /\ wire' = [wire EXCEPT !["Listener"] = rest]
        /\ phase' = phase /\ got' = got
  BY DEF ListenerWaits
<1>2. EndMoved("Listener", state, b)
  <2>1. state \in States
    BY DEF States
  <2>2. end' = [end EXCEPT !["Listener"] = Moved(end["Listener"], state, b)]
    BY <1>1
  <2> QED
    BY ONLY <1>0, <2>1, <2>2, Inv, b \in Seq(Units), EndMoves
<1>3. /\ end' \in [Roles -> Negotiator] /\ end'["Dialer"] = end["Dialer"]
      /\ end'["Listener"].state = state /\ end'["Listener"].recv_buf = b
      /\ end'["Listener"].supported_protocols = end["Listener"].supported_protocols
      /\ \A q \in Roles : end'[q].role = q
  BY <1>0, <1>2 DEF EndMoved
<1>4. wire'["Dialer"] = wire["Dialer"] /\ wire'["Listener"] = rest /\ wire' \in [Roles -> Seq(Units)]
  BY <1>0, <1>1
<1>5. TypeOK'
  BY <1>1, <1>3, <1>4 DEF Inv, TypeOK
<1>6. (Decided' <=> Decided) /\ (Proposed' <=> Proposed) /\ (Supported' <=> Supported)
  BY <1>1, <1>3 DEF Decided, Proposed, Supported
<1>7. Asked' = Asked /\ Answer' = Answer
  BY <1>1, <1>3, <1>6 DEF Asked, Answer
<1>8. Answered' = Answered
  BY <1>6, <1>7 DEF Answered
<1>9. Order'
  BY <1>0, <1>1, <1>3, <1>4, <1>6 DEF Inv, Order
<1>10. Listening'
  BY <1>1, <1>3, <1>4, <1>7 DEF Inv, Listening
<1>11. Dialing'
  BY <1>1, <1>3, <1>4, <1>8 DEF Inv, Dialing
<1>12. Delivered'
  BY <1>1, <1>3, <1>4 DEF Inv, Delivered
<1> QED
  BY <1>3, <1>5, <1>9, <1>10, <1>11, <1>12 DEF Inv

\* What the dialer has still to read grows by what the listener sends.
LEMMA HeaderThenMore ==
    \A state : \A u, w, E \in Seq(Units) :
      (u \o w) \o << >> = HeaderThen(state, << >>) => u \o (w \o E) = HeaderThen(state, E)
<1> SUFFICES ASSUME NEW state, NEW u \in Seq(Units), NEW w \in Seq(Units), NEW E \in Seq(Units),
                    (u \o w) \o << >> = HeaderThen(state, << >>)
             PROVE  u \o (w \o E) = HeaderThen(state, E)
  OBVIOUS
<1>1. u \o w \in Seq(Units) /\ (u \o w) \o << >> = u \o w
  BY ConcatProperties, ConcatEmptySeq
<1>2. u \o (w \o E) = (u \o w) \o E
  BY ONLY u \in Seq(Units), w \in Seq(Units), E \in Seq(Units), Regroup, Zenon
<1>3. CASE state = "WaitingForRemoteHeader"
  <2>1. PICK H \in Seq(Units) : H = EncodeMessage(Header)
    BY EncodedIs DEF Lines
  <2>2. H \o << >> = H
    BY ConcatEmptySeq
  <2>3. u \o w = H
    BY <1>1, <1>3, <2>1, <2>2 DEF HeaderThen
  <2> QED
    BY <1>2, <1>3, <2>1, <2>3 DEF HeaderThen
<1>4. CASE state # "WaitingForRemoteHeader"
  <2>1. u \o w = << >>
    BY <1>1, <1>4 DEF HeaderThen
  <2>2. << >> \o E = E
    BY ConcatEmptySeq
  <2> QED
    BY <1>2, <1>4, <2>1, <2>2 DEF HeaderThen
<1> QED
  BY <1>3, <1>4

\* A listener that accepts.
LEMMA ListenerAcceptsKeeps ==
    ASSUME Inv, phase["Listener"] = "negotiating", ListenerAccepts, UNCHANGED <<pipelining, sent>>
    PROVE  Inv'
<1>0. /\ Typed /\ "Dialer" \in Roles /\ "Listener" \in Roles /\ Other("Listener") = "Dialer"
      /\ Roles = {"Dialer", "Listener"} /\ "Dialer" # "Listener" /\ wire \in [Roles -> Seq(Units)]
  BY InvTyped DEF Roles, Other, Inv, TypeOK
<1>a. PICK E \in Seq(Units) : E = EncodeMessage(end["Dialer"].desired_protocol)
  BY <1>0 DEF Typed
<1>1. PICK b \in Seq(Units), rest \in Seq(Units) :
        /\ Proposed /\ Supported
        /\ b \o rest = Data(1, sent["Dialer"])
        /\ end' = [end EXCEPT !["Listener"] = Moved(end["Listener"], "Done", << >>)]
        /\ phase' = [phase EXCEPT !["Listener"] = "negotiated"]
        /\ got' = [got EXCEPT !["Listener"] = b]
        /\ wire' = [wire EXCEPT !["Listener"] = rest, !["Dialer"] = @ \o E]
  BY <1>a DEF ListenerAccepts
<1>2. EndMoved("Listener", "Done", << >>)
  <2>1. "Done" \in States /\ << >> \in Seq(Units)
    BY DEF States
  <2>2. end' = [end EXCEPT !["Listener"] = Moved(end["Listener"], "Done", << >>)]
    BY <1>1
  <2> QED
    BY ONLY <1>0, <2>1, <2>2, Inv, EndMoves
<1>3. /\ end' \in [Roles -> Negotiator] /\ end'["Dialer"] = end["Dialer"]
      /\ end'["Listener"].state = "Done" /\ end'["Listener"].recv_buf = << >>
      /\ end'["Listener"].supported_protocols = end["Listener"].supported_protocols
      /\ \A q \in Roles : end'[q].role = q
  BY <1>0, <1>2 DEF EndMoved
<1>b. wire["Dialer"] \o E \in Seq(Units) /\ wire["Dialer"] \in Seq(Units)
  BY <1>0, ConcatProperties
<1>4. /\ wire'["Dialer"] = wire["Dialer"] \o E /\ wire'["Listener"] = rest
      /\ wire' \in [Roles -> Seq(Units)]
  BY <1>0, <1>1, <1>b
<1>5. b \in Seq([data : Nat]) /\ sent["Dialer"] \in Nat
  <2>1. sent["Dialer"] \in Nat /\ b \o rest = Data(1, sent["Dialer"])
    BY <1>0, <1>1 DEF Typed
  <2> QED
    BY ONLY <2>1, b \in Seq(Units), rest \in Seq(Units), HalvesAreData
<1>6. /\ phase'["Listener"] = "negotiated" /\ phase'["Dialer"] = phase["Dialer"]
      /\ got'["Listener"] = b /\ got'["Dialer"] = got["Dialer"]
      /\ phase' \in [Roles -> Phases] /\ got' \in [Roles -> Seq([data : Nat])]
  BY <1>0, <1>1, <1>5 DEF Inv, TypeOK, Phases
<1>7. TypeOK'
  BY <1>1, <1>3, <1>4, <1>6 DEF Inv, TypeOK
<1>8. ~Decided /\ Decided' /\ Proposed' /\ Supported'
  BY <1>1, <1>3, <1>6 DEF Decided, Proposed, Supported
<1>9. phase["Dialer"] = "negotiating" /\ sent["Listener"] = 0
  BY <1>1 DEF Inv, Order, Proposed
<1>10. Order'
  BY <1>0, <1>6, <1>8, <1>9 DEF Order
<1>11. Listening'
  BY <1>6 DEF Listening
<1>12. Delivered'
  BY <1>1, <1>3, <1>4, <1>6, <1>9 DEF Delivered, Served
<1>13. Dialing'
  <2>1. PICK u \in Seq(Units) : u = end["Dialer"].recv_buf
    BY <1>0 DEF Typed
  <2>2. /\ end["Dialer"].state \in {"WaitingForRemoteHeader", "WaitingForProtocolResponse"}
        /\ got["Dialer"] = << >>
        /\ (u \o wire["Dialer"]) \o << >> = HeaderThen(end["Dialer"].state, << >>)
    BY <1>8, <1>9, <2>1 DEF Inv, Dialing, Answered
  <2>3. u \o (wire["Dialer"] \o E) = HeaderThen(end["Dialer"].state, E)
    <3>1. PICK v \in Seq(Units) : v = wire["Dialer"]
      BY <1>b
    <3>2. PICK state : state = end["Dialer"].state
      OBVIOUS
    <3>3. (u \o v) \o << >> = HeaderThen(state, << >>)
      BY <2>2, <3>1, <3>2
    <3>4. u \o (v \o E) = HeaderThen(state, E)
      BY ONLY <3>3, u \in Seq(Units), v \in Seq(Units), E \in Seq(Units), HeaderThenMore, Zenon
    <3> QED
      BY ONLY <3>1, <3>2, <3>4, Zenon
  <2>4. Answered' = E
    <3>1. Answered' = E \o Data(1, 0)
      BY <1>3, <1>6, <1>8, <1>9, <1>a DEF Answered, Answer
    <3> QED
      BY <3>1, DataMore, ConcatEmptySeq
  <2>5. << >> \in Seq(Units) /\ (u \o (wire["Dialer"] \o E)) \o << >> = u \o (wire["Dialer"] \o E)
    BY <1>b, ConcatProperties, ConcatEmptySeq
  <2>6. (end'["Dialer"].recv_buf \o wire'["Dialer"]) \o << >> = HeaderThen(end'["Dialer"].state, Answered')
    BY <1>3, <1>4, <2>1, <2>3, <2>4, <2>5
  <2> QED
    BY <1>3, <1>6, <2>2, <2>5, <2>6 DEF Dialing
<1> QED
  BY <1>3, <1>7, <1>10, <1>11, <1>12, <1>13 DEF Inv

\* A listener that refuses; its reset may overtake the answer.
LEMMA ListenerRejectsKeeps ==
    ASSUME Inv, phase["Listener"] = "negotiating", ListenerRejects, UNCHANGED <<pipelining, sent>>
    PROVE  Inv'
<1>0. /\ Typed /\ "Dialer" \in Roles /\ "Listener" \in Roles /\ Other("Listener") = "Dialer"
      /\ Roles = {"Dialer", "Listener"} /\ "Dialer" # "Listener" /\ wire \in [Roles -> Seq(Units)]
  BY InvTyped DEF Roles, Other, Inv, TypeOK
<1>a. PICK E \in Seq(Units) : E = EncodeMessage(NotAvailable)
  BY <1>0 DEF Typed
<1>1. PICK b \in Seq(Units), rest \in Seq(Units), full \in Seq(Units) : \E n \in 0 .. Len(full) :
        /\ Proposed /\ ~Supported
        /\ full = wire["Dialer"] \o EncodeMessage(NotAvailable)
        /\ end' = [end EXCEPT !["Listener"] = Moved(end["Listener"], "Done", b)]
        /\ phase' = [phase EXCEPT !["Listener"] = "rejected"]
        /\ got' = got
        /\ wire' = [wire EXCEPT !["Listener"] = rest, !["Dialer"] = SubSeq(full, 1, n)]
  BY DEF ListenerRejects
<1>b. PICK n \in 0 .. Len(full) :
        wire' = [wire EXCEPT !["Listener"] = rest, !["Dialer"] = SubSeq(full, 1, n)]
  BY <1>1
<1>c. PICK kept, lost : kept = SubSeq(full, 1, n) /\ lost = SubSeq(full, n + 1, Len(full))
  OBVIOUS
<1>d. kept \in Seq(Units) /\ lost \in Seq(Units) /\ kept \o lost = full
  <2>1. /\ SubSeq(full, 1, n) \in Seq(Units) /\ SubSeq(full, n + 1, Len(full)) \in Seq(Units)
        /\ SubSeq(full, 1, n) \o SubSeq(full, n + 1, Len(full)) = full
    BY ONLY full \in Seq(Units), n \in 0 .. Len(full), CutAt
  <2> QED
    BY ONLY <1>c, <2>1, Zenon
<1>2. EndMoved("Listener", "Done", b)
  <2>1. "Done" \in States
    BY DEF States
  <2>2. end' = [end EXCEPT !["Listener"] = Moved(end["Listener"], "Done", b)]
    BY <1>1
  <2> QED
    BY ONLY <1>0, <2>1, <2>2, Inv, b \in Seq(Units), EndMoves
<1>3. /\ end' \in [Roles -> Negotiator] /\ end'["Dialer"] = end["Dialer"]
      /\ end'["Listener"].supported_protocols = end["Listener"].supported_protocols
      /\ \A q \in Roles : end'[q].role = q
  BY <1>0, <1>2 DEF EndMoved
<1>4. /\ wire'["Dialer"] = kept /\ wire' \in [Roles -> Seq(Units)]
  BY <1>0, <1>b, <1>c, <1>d
<1>6. /\ phase'["Listener"] = "rejected" /\ phase'["Dialer"] = phase["Dialer"]
      /\ phase' \in [Roles -> Phases] /\ got' = got
  BY <1>0, <1>1 DEF Inv, TypeOK, Phases
<1>7. TypeOK'
  BY <1>3, <1>4, <1>6 DEF Inv, TypeOK
<1>8. ~Decided /\ Decided' /\ Proposed' /\ ~Supported'
  BY <1>1, <1>3, <1>6 DEF Decided, Proposed, Supported
<1>9. phase["Dialer"] = "negotiating" /\ sent["Listener"] = 0
  BY <1>1 DEF Inv, Order, Proposed
<1>10. Order'
  BY <1>0, <1>6, <1>8, <1>9 DEF Order
<1>11. Listening' /\ Delivered'
  BY <1>6, <1>9 DEF Listening, Delivered
<1>13. Dialing'
  <2>0. wire["Dialer"] \in Seq(Units)
    BY <1>0
  <2>1. PICK u \in Seq(Units) : u = end["Dialer"].recv_buf
    BY <1>0 DEF Typed
  <2>2. /\ end["Dialer"].state \in {"WaitingForRemoteHeader", "WaitingForProtocolResponse"}
        /\ got["Dialer"] = << >>
        /\ (u \o wire["Dialer"]) \o << >> = HeaderThen(end["Dialer"].state, << >>)
    BY <1>8, <1>9, <2>1 DEF Inv, Dialing, Answered
  <2>3. u \o (wire["Dialer"] \o E) = HeaderThen(end["Dialer"].state, E)
    <3>1. PICK v \in Seq(Units) : v = wire["Dialer"]
      BY <2>0
    <3>2. PICK state : state = end["Dialer"].state
      OBVIOUS
    <3>3. (u \o v) \o << >> = HeaderThen(state, << >>)
      BY <2>2, <3>1, <3>2
    <3>4. u \o (v \o E) = HeaderThen(state, E)
      <4>1. \A g \in Seq(Units) :
              (u \o v) \o << >> = HeaderThen(state, << >>) => u \o (v \o g) = HeaderThen(state, g)
        BY ONLY u \in Seq(Units), v \in Seq(Units), HeaderThenMore, Zenon
      <4> QED
        BY ONLY <3>3, <4>1, E \in Seq(Units), Zenon
    <3> QED
      BY ONLY <3>1, <3>2, <3>4, Zenon
  <2>4. Answered' = E
    <3>1. Answered' = E \o Data(1, 0)
      BY <1>3, <1>6, <1>8, <1>9, <1>a DEF Answered, Answer
    <3> QED
      BY <3>1, DataMore, ConcatEmptySeq
  <2>5. (u \o kept) \o lost = u \o full
    BY ONLY <1>d, u \in Seq(Units), Regroup, Zenon
  <2>6. (end'["Dialer"].recv_buf \o wire'["Dialer"]) \o lost = HeaderThen(end'["Dialer"].state, Answered')
    BY <1>1, <1>3, <1>4, <1>a, <2>1, <2>3, <2>4, <2>5
  <2> QED
    BY <1>3, <1>6, <1>d, <2>2, <2>6 DEF Dialing
<1> QED
  BY <1>3, <1>7, <1>10, <1>11, <1>13 DEF Inv

-----------------------------------------------------------------------------
(* The dialer negotiates.                                                  *)

\* What the dialer still has to say when the header has come.
Request(state) ==
    IF /\ ~pipelining
       /\ end["Dialer"].state = "WaitingForRemoteHeader" /\ state = "WaitingForProtocolResponse"
    THEN EncodeMessage(end["Dialer"].desired_protocol) ELSE << >>

\* The three things that data does to the dialer.
DialerWaits ==
    \E b \in Seq(Units), rest \in Seq(Units), t \in Seq(Units),
       state \in {"WaitingForRemoteHeader", "WaitingForProtocolResponse"} :
      /\ phase["Listener"] # "rejected" => t = << >>
      /\ state = "WaitingForRemoteHeader" => end["Dialer"].state = "WaitingForRemoteHeader"
      /\ (b \o rest) \o t = HeaderThen(state, Answered)
      /\ end' = [end EXCEPT !["Dialer"] = Moved(end["Dialer"], state, b)]
      /\ wire' = [wire EXCEPT !["Dialer"] = rest, !["Listener"] = @ \o Request(state)]
      /\ phase' = phase /\ got' = got

DialerAccepts ==
    \E b \in Seq(Units), rest \in Seq(Units) :
      /\ phase["Listener"] = "negotiated"
      /\ b \o rest = Data(1, sent["Listener"])
      /\ end' = [end EXCEPT !["Dialer"] = Moved(end["Dialer"], "Done", << >>)]
      /\ phase' = [phase EXCEPT !["Dialer"] = "negotiated"]
      /\ got' = [got EXCEPT !["Dialer"] = b]
      /\ wire' = [wire EXCEPT !["Dialer"] = rest]

DialerGivesUp ==
    \E b \in Seq(Units) :
      /\ phase["Listener"] = "rejected"
      /\ end' = [end EXCEPT !["Dialer"] = Moved(end["Dialer"], "Done", b)]
      /\ phase' = [phase EXCEPT !["Dialer"] = "rejected"]
      /\ got' = got
      /\ wire' \in [Roles -> Seq(Units)]

\* Data does one of them.
LEMMA DialerFed ==
    ASSUME Inv, phase["Dialer"] = "negotiating", NEW n \in Nat, n # 0, n <= Len(wire["Dialer"]),
           FeedNegotiator("Dialer", SubSeq(wire["Dialer"], 1, n))
    PROVE  DialerWaits \/ DialerAccepts \/ DialerGivesUp
<1>0. Typed /\ "Dialer" \in Roles /\ "Listener" \in Roles /\ Other("Dialer") = "Listener"
      /\ "Dialer" # "Listener" /\ wire \in [Roles -> Seq(Units)]
  BY InvTyped DEF Roles, Other, Inv, TypeOK
<1>1. PICK m \in Negotiator : m = end["Dialer"]
  BY <1>0 DEF Typed
<1>2. PICK x \in {m.desired_protocol, NotAvailable} : x = Answer
  BY <1>1 DEF Answer
<1>3. PICK Z \in Seq(Units) : Z = Data(1, sent["Listener"])
  BY <1>0 DEF Typed
<1>4. PICK w \in Seq(Units) : w = wire["Dialer"]
  BY <1>0 DEF Typed
<1>a. PICK u \in Seq(Units) : u = wire["Listener"]
  BY <1>0 DEF Typed
<1>b. phase["Listener"] # "idle" /\ m.desired_protocol # NotAvailable
  <2>1. Len(<< >>) = 0 /\ Len(wire["Dialer"]) \in Nat
    BY <1>0 DEF Typed
  <2>2. wire["Dialer"] # << >>
    BY <2>1
  <2> QED
    BY <2>2, LinesAssumption DEF Inv, Order, Negotiator
<1>5. /\ m.role = "Dialer" /\ m.recv_buf \in Seq(Units)
      /\ m.state \in {"WaitingForRemoteHeader", "WaitingForProtocolResponse"}
      /\ Answered \in {<< >>, EncodeMessage(x) \o Z}
      /\ (Answered = EncodeMessage(x) \o Z => Decided)
  <2>1. m.role = "Dialer" /\ m.recv_buf \in Seq(Units)
    BY <1>0, <1>1 DEF Typed
  <2>3. /\ m.state \in {"WaitingForRemoteHeader", "WaitingForProtocolResponse"}
    BY <1>1 DEF Inv, Dialing
  <2>4. Answered \in {<< >>, EncodeMessage(x) \o Z}
    BY <1>2, <1>3 DEF Answered
  <2>5. EncodeMessage(x) \o Z # << >>
    <3>0. x \in Lines
      BY <1>0, <1>2 DEF Typed
    <3>1. EncodeMessage(x) \in Seq(Units) /\ Len(EncodeMessage(x)) = FrameLen /\ FrameLen # 0
      BY <3>0, EncodedIs, FrameLenAssumption
    <3>2. EncodeMessage(x) # << >>
      BY <3>1
    <3> QED
      BY <3>1, <3>2, ConcatEqualIffEmpty
  <2>6. Answered = EncodeMessage(x) \o Z => Decided
    BY <2>5 DEF Answered
  <2> QED
    BY <2>1, <2>3, <2>4, <2>6
<1>c. PICK t \in Seq(Units) :
        /\ phase["Listener"] # "rejected" => t = << >>
        /\ (m.recv_buf \o w) \o t = HeaderThen(m.state, Answered)
  BY <1>1, <1>4, <1>b DEF Inv, Dialing
<1>6. PICK data \in Seq(Units), rest \in Seq(Units) :
        /\ data = SubSeq(w, 1, n) /\ Len(data) = n
        /\ rest = SubSeq(w, Len(data) + 1, Len(w))
        /\ data \o rest = w /\ rest \o t \in Seq(Units)
        /\ (m.recv_buf \o data) \o (rest \o t) = HeaderThen(m.state, Answered)
  <2>2. n <= Len(w)
    BY <1>4
  <2>3. PICK Y : Y = HeaderThen(m.state, Answered)
    OBVIOUS
  <2>4. PICK c \in Seq(Units) : c = m.recv_buf
    BY <1>5
  <2>5. (c \o w) \o t = Y
    BY <1>c, <2>3, <2>4
  <2>6. Arrival(c, w, n, t, Y)
    BY ONLY <2>2, <2>5, c \in Seq(Units), n \in Nat, w \in Seq(Units), t \in Seq(Units), Arrives
  <2> QED
    BY ONLY <2>3, <2>4, <2>6, Zenon DEF Arrival
<1>d. PICK v \in Seq(Units) : v = rest \o t
  BY <1>6
<1>7. PICK res : res = Receive(m, data)
  OBVIOUS
<1>8. DialerResult(m, res, v, x, Z, Answered)
  <2>2. PICK A \in {<< >>, EncodeMessage(x) \o Z} : A = Answered
    BY <1>5
  <2>3. (m.recv_buf \o data) \o v = HeaderThen(m.state, A)
    BY <1>6, <1>d, <2>2
  <2>4. DialerResult(m, Receive(m, data), v, x, Z, A)
    <3>1. /\ m.role = "Dialer"
          /\ m.state \in {"WaitingForRemoteHeader", "WaitingForProtocolResponse"}
      BY <1>5
    <3> QED
      BY ONLY <2>3, <3>1, m \in Negotiator, data \in Seq(Units), v \in Seq(Units),
              x \in {m.desired_protocol, NotAvailable},
              Z \in Seq(Units), A \in {<< >>, EncodeMessage(x) \o Z}, DialerReceives
  <2> QED
    BY <1>7, <2>2, <2>4
<1>9. FeedNegotiator("Dialer", data)
  BY <1>4, <1>6
<1>10. PICK b \in Seq(Units) :
      \/ /\ m.state = "WaitingForRemoteHeader"
         /\ res = [m |-> Moved(m, "WaitingForRemoteHeader", b), outputs |-> << >>]
         /\ b \o v = EncodeMessage(Header) \o Answered
      \/ /\ res = [m |-> Moved(m, "WaitingForProtocolResponse", b), outputs |-> Proposal(m)]
         /\ b \o v = Answered
      \/ /\ Answered = EncodeMessage(x) \o Z
         /\ b \o v = Z
         /\ res = [m |-> Moved(m, "Done", b), outputs |-> Proposal(m) \o Conclusion(m, x)]
  BY <1>8 DEF DialerResult
<1>11. rest = SubSeq(wire["Dialer"], Len(data) + 1, Len(wire["Dialer"]))
  BY <1>4, <1>6
<1>e. (b \o rest) \o t = b \o v
  BY ONLY <1>d, b \in Seq(Units), rest \in Seq(Units), t \in Seq(Units), Regroup, Zenon
<1>12. ASSUME NEW state \in {"WaitingForRemoteHeader", "WaitingForProtocolResponse"}, NEW o,
              state = "WaitingForRemoteHeader" => m.state = "WaitingForRemoteHeader",
              res = [m |-> Moved(m, state, b), outputs |-> o],
              b \o v = HeaderThen(state, Answered),
              Says("Dialer", o, "none", Request(state))
       PROVE  DialerWaits
  <2>1. res.m = Moved(m, state, b) /\ res.outputs = o /\ state \in States /\ state # "Done"
    BY <1>12 DEF States
  <2>2. res.m.state # "Done"
    BY <2>1, MovedIs
  <2>3. Says("Dialer", res.outputs, "none", Request(state))
    BY <1>12, <2>1
  <2>4. Feeds("Dialer", res, "none", Request(state), rest)
    BY ONLY <1>0, <1>1, <1>7, <1>9, <1>11, <2>3, FeedsByKind
  <2>6. /\ end' = [end EXCEPT !["Dialer"] = Moved(m, state, b)]
        /\ wire' = [wire EXCEPT !["Dialer"] = rest, !["Listener"] = u \o Request(state)]
        /\ phase' = phase /\ got' = got
    BY <1>0, <1>a, <2>1, <2>2, <2>4 DEF Feeds
  <2>7. wire' = [wire EXCEPT !["Dialer"] = rest, !["Listener"] = @ \o Request(state)]
    BY <1>0, <1>a, <2>6
  <2>8. (b \o rest) \o t = HeaderThen(state, Answered)
    BY ONLY <1>e, <1>12, Zenon
  <2> QED
    <3>1. phase["Listener"] # "rejected" => t = << >>
      BY <1>c
    <3>2. state = "WaitingForRemoteHeader" => end["Dialer"].state = "WaitingForRemoteHeader"
      BY <1>1, <1>12
    <3>3. end' = [end EXCEPT !["Dialer"] = Moved(end["Dialer"], state, b)]
      BY <1>1, <2>6
    <3>4. phase' = phase /\ got' = got
      BY <2>6
    <3> QED
      BY ONLY <2>7, <2>8, <3>1, <3>2, <3>3, <3>4, b \in Seq(Units), rest \in Seq(Units), t \in Seq(Units),
              state \in {"WaitingForRemoteHeader", "WaitingForProtocolResponse"}, Zenon DEF DialerWaits
<1>13. CASE /\ m.state = "WaitingForRemoteHeader"
            /\ res = [m |-> Moved(m, "WaitingForRemoteHeader", b), outputs |-> << >>]
            /\ b \o v = EncodeMessage(Header) \o Answered
  <2>1. Says("Dialer", << >>, "none", Request("WaitingForRemoteHeader"))
    BY <1>0, SaysNothing DEF Request
  <2>2. b \o v = HeaderThen("WaitingForRemoteHeader", Answered)
    BY <1>13 DEF HeaderThen
  <2> QED
    BY <1>12, <1>13, <2>1, <2>2
<1>14. CASE /\ res = [m |-> Moved(m, "WaitingForProtocolResponse", b), outputs |-> Proposal(m)]
            /\ b \o v = Answered
  <2>1. Says("Dialer", Proposal(m), "none", Request("WaitingForProtocolResponse"))
    BY <1>1, SaysProposal DEF Request
  <2>2. b \o v = HeaderThen("WaitingForProtocolResponse", Answered)
    BY <1>14 DEF HeaderThen
  <2> QED
    BY <1>12, <1>14, <2>1, <2>2
<1>15. CASE /\ Answered = EncodeMessage(x) \o Z
            /\ b \o v = Z
            /\ res = [m |-> Moved(m, "Done", b), outputs |-> Proposal(m) \o Conclusion(m, x)]
  <2>1. /\ res.m = Moved(m, "Done", b) /\ res.outputs = Proposal(m) \o Conclusion(m, x)
        /\ "Done" \in States
    BY <1>15 DEF States
  <2>2. res.m.state = "Done" /\ res.m.recv_buf = b
    BY <2>1, MovedIs
  <2>3. Decided /\ Proposed /\ (pipelining \/ m.state # "WaitingForRemoteHeader")
    BY <1>1, <1>5, <1>15 DEF Inv, Order, Proposed
  <2>4. PICK kind : kind = IF x = NotAvailable THEN "NotAvailable" ELSE "Negotiated"
    OBVIOUS
  <2>5. Says("Dialer", res.outputs, kind, << >>) /\ kind \in {"Negotiated", "NotAvailable", "none"}
    BY <2>1, <2>3, <2>4, SaysConclusion
  <2>6. Feeds("Dialer", res, kind, << >>, rest)
    BY ONLY <1>0, <1>1, <1>7, <1>9, <1>11, <2>5, FeedsByKind
  <2>7. u \o << >> = u
    BY ConcatEmptySeq
  <2>8. CASE phase["Listener"] = "negotiated"
    <3>1. kind = "Negotiated"
      BY <1>1, <1>2, <1>b, <2>4, <2>8 DEF Answer
    <3>2. [res.m EXCEPT !.recv_buf = << >>] = Moved(m, "Done", << >>)
      BY <2>1 DEF Moved, Negotiator
    <3>3. /\ end' = [end EXCEPT !["Dialer"] = Moved(m, "Done", << >>)]
          /\ phase' = [phase EXCEPT !["Dialer"] = "negotiated"]
          /\ got' = [got EXCEPT !["Dialer"] = b]
          /\ wire' = [wire EXCEPT !["Dialer"] = rest, !["Listener"] = u]
      BY <1>0, <1>a, <2>2, <2>6, <2>7, <3>1, <3>2 DEF Feeds
    <3>4. wire' = [wire EXCEPT !["Dialer"] = rest]
      BY <1>0, <1>a, <3>3
    <3>5. b \o rest = Data(1, sent["Listener"])
      <4>1. t = << >> /\ rest \o << >> = rest
        BY <1>c, <2>8, ConcatEmptySeq
      <4> QED
        BY <1>3, <1>15, <1>d, <4>1
    <3> QED
      BY <1>1, <2>8, <3>3, <3>4, <3>5 DEF DialerAccepts
  <2>9. CASE phase["Listener"] # "negotiated"
    <3>1. kind = "NotAvailable" /\ phase["Listener"] = "rejected"
      BY <1>2, <2>3, <2>4, <2>9 DEF Answer, Decided
    <3>2. /\ end' = [end EXCEPT !["Dialer"] = Moved(m, "Done", b)]
          /\ phase' = [phase EXCEPT !["Dialer"] = "rejected"]
          /\ got' = got
          /\ \E k \in 0 .. Len(u) :
               wire' = [wire EXCEPT !["Dialer"] = rest, !["Listener"] = SubSeq(u, 1, k)]
      <4>1. /\ end' = [end EXCEPT !["Dialer"] = Moved(m, "Done", b)]
            /\ phase' = [phase EXCEPT !["Dialer"] = "rejected"]
            /\ got' = got
            /\ \E k \in 0 .. Len(wire["Listener"] \o << >>) :
                 wire' = [wire EXCEPT !["Dialer"] = rest,
                                      !["Listener"] = SubSeq(wire["Listener"] \o << >>, 1, k)]
        BY <1>0, <2>1, <2>2, <2>6, <3>1 DEF Feeds
      <4>2. wire["Listener"] \o << >> = u
        BY <1>a, <2>7
      <4> QED
        BY ONLY <4>1, <4>2, Zenon
    <3>3. PICK k \in 0 .. Len(u) :
            wire' = [wire EXCEPT !["Dialer"] = rest, !["Listener"] = SubSeq(u, 1, k)]
      BY <3>2
    <3>4. SubSeq(u, 1, k) \in Seq(Units)
      BY CutAt
    <3>5. wire' \in [Roles -> Seq(Units)]
      BY <1>0, <3>3, <3>4
    <3> QED
      BY <1>1, <3>1, <3>2, <3>5 DEF DialerGivesUp
  <2> QED
    BY <2>8, <2>9
<1> QED
  BY <1>10, <1>13, <1>14, <1>15

\* A dialer that waits.
LEMMA DialerWaitsKeeps ==
    ASSUME Inv, phase["Dialer"] = "negotiating", phase["Listener"] # "idle",
           DialerWaits, UNCHANGED <<pipelining, sent>>
    PROVE  Inv'
<1>0. /\ Typed /\ "Dialer" \in Roles /\ "Listener" \in Roles /\ Other("Dialer") = "Listener"
      /\ Roles = {"Dialer", "Listener"} /\ "Dialer" # "Listener" /\ wire \in [Roles -> Seq(Units)]
  BY InvTyped DEF Roles, Other, Inv, TypeOK
<1>1. PICK b \in Seq(Units), rest \in Seq(Units), t \in Seq(Units),
           state \in {"WaitingForRemoteHeader", "WaitingForProtocolResponse"} :
        /\ phase["Listener"] # "rejected" => t = << >>
        /\ state = "WaitingForRemoteHeader" => end["Dialer"].state = "WaitingForRemoteHeader"
        /\ (b \o rest) \o t = HeaderThen(state, Answered)
        /\ end' = [end EXCEPT !["Dialer"] = Moved(end["Dialer"], state, b)]
        /\ wire' = [wire EXCEPT !["Dialer"] = rest, !["Listener"] = @ \o Request(state)]
        /\ phase' = phase /\ got' = got
  BY Zenon DEF DialerWaits
<1>2. EndMoved("Dialer", state, b)
  <2>1. state \in States
    BY DEF States
  <2>2. end' = [end EXCEPT !["Dialer"] = Moved(end["Dialer"], state, b)]
    BY <1>1
  <2> QED
    BY ONLY <1>0, <2>1, <2>2, Inv, b \in Seq(Units), EndMoves
<1>3. /\ end' \in [Roles -> Negotiator] /\ end'["Listener"] = end["Listener"]
      /\ end'["Dialer"].state = state /\ end'["Dialer"].recv_buf = b
      /\ end'["Dialer"].desired_protocol = end["Dialer"].desired_protocol
      /\ \A q \in Roles : end'[q].role = q
  BY <1>0, <1>2 DEF EndMoved
<1>a. PICK u \in Seq(Units) : u = wire["Listener"]
  BY <1>0
<1>b. PICK g \in Seq(Units) : g = Request(state)
  <2>1. << >> \in Seq(Units) /\ EncodeMessage(end["Dialer"].desired_protocol) \in Seq(Units)
    BY <1>0 DEF Typed
  <2>2. Request(state) \in Seq(Units)
    BY ONLY <2>1 DEF Request
  <2> QED
    BY <2>2
<1>4. wire'["Dialer"] = rest /\ wire'["Listener"] = u \o g /\ wire' \in [Roles -> Seq(Units)]
  <2>1. u \o g \in Seq(Units)
    BY ConcatProperties
  <2>2. wire' = [wire EXCEPT !["Dialer"] = rest, !["Listener"] = u \o g]
    BY <1>0, <1>1, <1>a, <1>b
  <2> QED
    BY <1>0, <2>1, <2>2
<1>5. TypeOK'
  BY <1>1, <1>3, <1>4 DEF Inv, TypeOK
<1>6. (Decided' <=> Decided) /\ (Supported' <=> Supported) /\ Answer' = Answer
  BY <1>1, <1>3 DEF Decided, Supported, Answer
<1>7. Answered' = Answered
  BY <1>6 DEF Answered
<1>8. Dialing'
  BY <1>1, <1>3, <1>4, <1>7 DEF Inv, Dialing
<1>9. CASE ~pipelining /\ end["Dialer"].state = "WaitingForRemoteHeader"
           /\ state = "WaitingForProtocolResponse"
  <2>1. ~Proposed /\ Proposed' /\ ~Decided /\ sent["Dialer"] = 0 /\ phase["Listener"] = "negotiating"
    BY <1>1, <1>3, <1>9 DEF Inv, Order, Proposed, Decided
  <2>2. g = EncodeMessage(end["Dialer"].desired_protocol)
    BY <1>9, <1>b DEF Request
  <2>3. Order'
    BY <1>0, <1>1, <1>6, <2>1 DEF Inv, Order
  <2>4. Delivered'
    BY <1>1, <2>1 DEF Delivered
  <2>5. Asked = << >> /\ Asked' = g
    <3>1. Asked' = g \o Data(1, 0)
      BY <1>3, <2>1, <2>2 DEF Asked
    <3> QED
      BY <2>1, <3>1, DataMore, ConcatEmptySeq DEF Asked
  <2>6. PICK c \in Seq(Units) : c = end["Listener"].recv_buf
    BY <1>0 DEF Typed
  <2>7. PICK st : st = end["Listener"].state
    OBVIOUS
  <2>8. /\ st \in {"WaitingForRemoteHeader", "WaitingForProtocolRequest"} /\ got["Listener"] = << >>
        /\ (c \o u) \o << >> = HeaderThen(st, << >>)
    <3>1. /\ st \in {"WaitingForRemoteHeader", "WaitingForProtocolRequest"} /\ got["Listener"] = << >>
          /\ c \o u = HeaderThen(st, << >>)
      BY <1>a, <2>1, <2>5, <2>6, <2>7 DEF Inv, Listening
    <3>2. (c \o u) \o << >> = c \o u
      BY ConcatProperties, ConcatEmptySeq
    <3> QED
      BY <3>1, <3>2
  <2>9. c \o (u \o g) = HeaderThen(st, g)
    <3>1. \A h \in Seq(Units) : (c \o u) \o << >> = HeaderThen(st, << >>) => c \o (u \o h) = HeaderThen(st, h)
      BY ONLY c \in Seq(Units), u \in Seq(Units), HeaderThenMore, Zenon
    <3> QED
      BY ONLY <2>8, <3>1, g \in Seq(Units), Zenon
  <2>10. Listening'
    BY <1>1, <1>3, <1>4, <2>5, <2>6, <2>7, <2>8, <2>9 DEF Listening
  <2> QED
    BY <1>3, <1>5, <1>8, <2>3, <2>4, <2>10 DEF Inv
<1>10. CASE ~(~pipelining /\ end["Dialer"].state = "WaitingForRemoteHeader"
             /\ state = "WaitingForProtocolResponse")
  <2>1. g = << >>
    BY <1>10, <1>b DEF Request
  <2>2. wire'["Listener"] = wire["Listener"]
    BY <1>4, <1>a, <2>1, ConcatEmptySeq
  <2>3. Proposed' <=> Proposed
    <3>1. end["Dialer"].state \in {"WaitingForRemoteHeader", "WaitingForProtocolResponse"}
      BY DEF Inv, Dialing
    <3> QED
      BY <1>1, <1>3, <1>10, <3>1 DEF Proposed
  <2>4. Asked' = Asked
    BY <1>3, <2>3 DEF Asked
  <2>5. Order'
    BY <1>0, <1>1, <1>3, <1>6, <2>2, <2>3 DEF Inv, Order
  <2>6. Listening'
    BY <1>1, <1>3, <2>2, <2>4 DEF Inv, Listening
  <2>7. Delivered'
    BY <1>1, <1>3, <2>2 DEF Inv, Delivered
  <2> QED
    BY <1>3, <1>5, <1>8, <2>5, <2>6, <2>7 DEF Inv
<1> QED
  BY <1>9, <1>10

\* A dialer that reads that the listener accepts.
LEMMA DialerAcceptsKeeps ==
    ASSUME Inv, phase["Dialer"] = "negotiating", DialerAccepts, UNCHANGED <<pipelining, sent>>
    PROVE  Inv'
<1>0. /\ Typed /\ "Dialer" \in Roles /\ "Listener" \in Roles /\ Other("Dialer") = "Listener"
      /\ Roles = {"Dialer", "Listener"} /\ "Dialer" # "Listener" /\ wire \in [Roles -> Seq(Units)]
  BY InvTyped DEF Roles, Other, Inv, TypeOK
<1>1. PICK b \in Seq(Units), rest \in Seq(Units) :
        /\ phase["Listener"] = "negotiated"
        /\ b \o rest = Data(1, sent["Listener"])
        /\ end' = [end EXCEPT !["Dialer"] = Moved(end["Dialer"], "Done", << >>)]
        /\ phase' = [phase EXCEPT !["Dialer"] = "negotiated"]
        /\ got' = [got EXCEPT !["Dialer"] = b]
        /\ wire' = [wire EXCEPT !["Dialer"] = rest]
  BY DEF DialerAccepts
<1>2. EndMoved("Dialer", "Done", << >>)
  <2>1. "Done" \in States /\ << >> \in Seq(Units)
    BY DEF States
  <2>2. end' = [end EXCEPT !["Dialer"] = Moved(end["Dialer"], "Done", << >>)]
    BY <1>1
  <2> QED
    BY ONLY <1>0, <2>1, <2>2, Inv, EndMoves
<1>3. /\ end' \in [Roles -> Negotiator] /\ end'["Listener"] = end["Listener"]
      /\ end'["Dialer"].state = "Done" /\ end'["Dialer"].recv_buf = << >>
      /\ end'["Dialer"].desired_protocol = end["Dialer"].desired_protocol
      /\ \A q \in Roles : end'[q].role = q
  BY <1>0, <1>2 DEF EndMoved
<1>4. /\ wire'["Dialer"] = rest /\ wire'["Listener"] = wire["Listener"]
      /\ wire' \in [Roles -> Seq(Units)]
  BY <1>0, <1>1
<1>5. b \in Seq([data : Nat])
  <2>1. sent["Listener"] \in Nat /\ b \o rest = Data(1, sent["Listener"])
    BY <1>0, <1>1 DEF Typed
  <2> QED
    BY ONLY <2>1, b \in Seq(Units), rest \in Seq(Units), HalvesAreData
<1>6. /\ phase'["Dialer"] = "negotiated" /\ phase'["Listener"] = "negotiated"
      /\ got'["Dialer"] = b /\ got'["Listener"] = got["Listener"]
      /\ phase' \in [Roles -> Phases] /\ got' \in [Roles -> Seq([data : Nat])]
  BY <1>0, <1>1, <1>5 DEF Inv, TypeOK, Phases
<1>7. TypeOK'
  BY <1>3, <1>4, <1>6 DEF Inv, TypeOK
<1>8. Decided' /\ Proposed' /\ Supported'
  BY <1>1, <1>3, <1>6 DEF Decided, Proposed, Supported, Inv, Order
<1>9. Order'
  BY <1>0, <1>6, <1>8 DEF Order
<1>10. Listening' /\ Dialing'
  BY <1>6 DEF Listening, Dialing
<1>11. Delivered'
  BY <1>1, <1>3, <1>4, <1>6 DEF Inv, Delivered, Served
<1> QED
  BY <1>3, <1>7, <1>9, <1>10, <1>11 DEF Inv

\* A dialer that reads that the listener refuses.
LEMMA DialerGivesUpKeeps ==
    ASSUME Inv, phase["Dialer"] = "negotiating", DialerGivesUp, UNCHANGED <<pipelining, sent>>
    PROVE  Inv'
<1>0. /\ Typed /\ "Dialer" \in Roles /\ "Listener" \in Roles /\ Other("Dialer") = "Listener"
      /\ Roles = {"Dialer", "Listener"} /\ "Dialer" # "Listener" /\ wire \in [Roles -> Seq(Units)]
  BY InvTyped DEF Roles, Other, Inv, TypeOK
<1>1. PICK b \in Seq(Units) :
        /\ phase["Listener"] = "rejected"
        /\ end' = [end EXCEPT !["Dialer"] = Moved(end["Dialer"], "Done", b)]
        /\ phase' = [phase EXCEPT !["Dialer"] = "rejected"]
        /\ got' = got
        /\ wire' \in [Roles -> Seq(Units)]
  BY DEF DialerGivesUp
<1>2. EndMoved("Dialer", "Done", b)
  <2>1. "Done" \in States
    BY DEF States
  <2>2. end' = [end EXCEPT !["Dialer"] = Moved(end["Dialer"], "Done", b)]
    BY <1>1
  <2> QED
    BY ONLY <1>0, <2>1, <2>2, Inv, b \in Seq(Units), EndMoves
<1>3. /\ end' \in [Roles -> Negotiator] /\ end'["Listener"] = end["Listener"]
      /\ end'["Dialer"].state = "Done"
      /\ end'["Dialer"].desired_protocol = end["Dialer"].desired_protocol
      /\ \A q \in Roles : end'[q].role = q
  BY <1>0, <1>2 DEF EndMoved
<1>4. /\ phase'["Dialer"] = "rejected" /\ phase'["Listener"] = "rejected"
      /\ phase' \in [Roles -> Phases]
  BY <1>0, <1>1 DEF Inv, TypeOK, Phases
<1>5. TypeOK'
  BY <1>1, <1>3, <1>4 DEF Inv, TypeOK
<1>6. Decided' /\ Proposed' /\ ~Supported' /\ sent["Listener"] = 0
  BY <1>1, <1>3, <1>4 DEF Decided, Proposed, Supported, Inv, Order
<1>7. Order'
  BY <1>0, <1>4, <1>6 DEF Order
<1>8. Listening' /\ Dialing' /\ Delivered'
  BY <1>4 DEF Listening, Dialing, Delivered
<1> QED
  BY <1>3, <1>5, <1>7, <1>8 DEF Inv

-----------------------------------------------------------------------------
(* Every step.                                                             *)

\* Data that arrives.
LEMMA StreamDataKeeps ==
    ASSUME Inv, NEW r \in Roles, NEW n \in Nat, n # 0, StreamData(r, n)
    PROVE  Inv'
<1>0. /\ Typed /\ "Dialer" \in Roles /\ "Listener" \in Roles
      /\ Roles = {"Dialer", "Listener"} /\ "Dialer" # "Listener" /\ wire \in [Roles -> Seq(Units)]
  BY InvTyped DEF Roles, Inv, TypeOK
<1>1. /\ n <= Len(wire[r]) /\ UNCHANGED <<pipelining, sent>>
  BY DEF StreamData
<1>2. CASE phase[r] = "negotiating"
  <2>1. FeedNegotiator(r, SubSeq(wire[r], 1, n))
    BY <1>2 DEF StreamData
  <2>2. CASE r = "Listener"
    <3>1. /\ phase["Listener"] = "negotiating" /\ n <= Len(wire["Listener"])
          /\ FeedNegotiator("Listener", SubSeq(wire["Listener"], 1, n))
      BY <1>1, <1>2, <2>1, <2>2
    <3>2. ListenerWaits \/ ListenerAccepts \/ ListenerRejects
      BY ONLY <3>1, Inv, n \in Nat, ListenerFed
    <3> QED
      BY ONLY <1>1, <3>1, <3>2, Inv, ListenerWaitsKeeps, ListenerAcceptsKeeps, ListenerRejectsKeeps
  <2>3. CASE r = "Dialer"
    <3>1. /\ phase["Dialer"] = "negotiating" /\ n <= Len(wire["Dialer"])
          /\ FeedNegotiator("Dialer", SubSeq(wire["Dialer"], 1, n))
      BY <1>1, <1>2, <2>1, <2>3
    <3>2. DialerWaits \/ DialerAccepts \/ DialerGivesUp
      BY ONLY <3>1, Inv, n \in Nat, n # 0, DialerFed
    <3>3. phase["Listener"] # "idle"
      <4>1. Len(<< >>) = 0 /\ Len(wire["Dialer"]) \in Nat
        BY <1>0
      <4>2. wire["Dialer"] # << >>
        BY <3>1, <4>1
      <4> QED
        BY <4>2 DEF Inv, Order
    <3> QED
      BY ONLY <1>1, <3>1, <3>2, <3>3, Inv, DialerWaitsKeeps, DialerAcceptsKeeps, DialerGivesUpKeeps
  <2> QED
    BY <1>0, <2>2, <2>3
<1>a. PICK w \in Seq(Units) : w = wire[r]
  BY <1>0
<1>b. PICK data, rest : data = SubSeq(w, 1, n) /\ rest = SubSeq(w, n + 1, Len(w))
  OBVIOUS
<1>c. data \in Seq(Units) /\ rest \in Seq(Units) /\ data \o rest = w
  <2>1. n \in 0 .. Len(w)
    BY <1>1, <1>a
  <2>2. /\ SubSeq(w, 1, n) \in Seq(Units) /\ SubSeq(w, n + 1, Len(w)) \in Seq(Units)
        /\ SubSeq(w, 1, n) \o SubSeq(w, n + 1, Len(w)) = w
    BY ONLY <2>1, w \in Seq(Units), CutAt
  <2> QED
    BY ONLY <1>b, <2>2, Zenon
<1>3. CASE phase[r] = "negotiated"
  <2>1. /\ got' = [got EXCEPT ![r] = got[r] \o data] /\ wire' = [wire EXCEPT ![r] = rest]
        /\ end' = end /\ phase' = phase
    BY <1>0, <1>3, <1>a, <1>b DEF StreamData, Inv, TypeOK
  <2>2. PICK g \in Seq(Units) : g = got[r] /\ g \in Seq([data : Nat])
    BY DataUnits DEF Inv, TypeOK
  <2>3. PICK k \in Nat : k = sent[Other(r)] /\ g \o w = Data(1, k)
    <3>1. Other(r) \in Roles
      BY DEF Other, Roles
    <3>2. sent[Other(r)] \in Nat
      BY <1>0, <3>1 DEF Typed
    <3>3. g \o w = Data(1, sent[Other(r)])
      BY <1>0, <1>3, <1>a, <2>2 DEF Inv, Delivered, Served, Other
    <3> QED
      BY <3>2, <3>3
  <2>4. (g \o data) \o rest = Data(1, k)
    BY ONLY <1>c, <2>3, g \in Seq(Units), Regroup, Zenon
  <2>5. g \o data \in Seq([data : Nat])
    <3>1. PICK p \in Seq(Units) : p = g \o data
      BY <1>c, ConcatProperties
    <3>2. p \o rest = Data(1, k) /\ rest \in Seq(Units)
      BY ONLY <1>c, <2>4, <3>1, Zenon
    <3>3. p \in Seq([data : Nat])
      BY ONLY <3>2, p \in Seq(Units), k \in Nat, HalvesAreData
    <3> QED
      BY <3>1, <3>3
  <2>6. TypeOK'
    <3>1. got' \in [Roles -> Seq([data : Nat])] /\ wire' \in [Roles -> Seq(Units)]
      BY <1>0, <1>c, <2>1, <2>2, <2>5 DEF Inv, TypeOK
    <3> QED
      BY <1>1, <2>1, <3>1 DEF Inv, TypeOK
  <2>7. phase["Listener"] = "negotiated" /\ phase["Dialer"] # "idle"
    BY <1>0, <1>3 DEF Inv, Order, Proposed, Decided
  <2>8. (Decided' <=> Decided) /\ (Proposed' <=> Proposed) /\ (Supported' <=> Supported)
        /\ Answer' = Answer
    BY <1>1, <2>1 DEF Decided, Proposed, Supported, Answer
  <2>9. Order' /\ Listening'
    BY <1>0, <1>1, <2>1, <2>7, <2>8 DEF Inv, Order, Listening
  <2>10. Dialing'
    <3>1. CASE r = "Dialer"
      BY <1>3, <2>1, <3>1 DEF Dialing
    <3>2. CASE r = "Listener"
      <4>1. wire'["Dialer"] = wire["Dialer"] /\ got'["Dialer"] = got["Dialer"]
        BY <1>0, <2>1, <3>2 DEF Inv, TypeOK
      <4>2. Answered' = Answered
        BY <1>1, <2>8 DEF Answered
      <4> QED
        BY <2>1, <4>1, <4>2 DEF Inv, Dialing
    <3> QED
      BY <1>0, <3>1, <3>2
  <2>11. Delivered'
    <3>1. /\ wire'[r] = rest /\ got'[r] = g \o data
          /\ wire'[Other(r)] = wire[Other(r)] /\ got'[Other(r)] = got[Other(r)]
      BY <1>0, <2>1, <2>2 DEF Inv, TypeOK, Other
    <3>2. CASE r = "Dialer"
      BY <1>1, <2>1, <2>3, <2>4, <3>1, <3>2 DEF Inv, Delivered, Served, Other
    <3>3. CASE r = "Listener"
      BY <1>1, <2>1, <2>3, <2>4, <3>1, <3>3 DEF Inv, Delivered, Served, Other
    <3> QED
      BY <1>0, <3>2, <3>3
  <2> QED
    BY <2>1, <2>6, <2>9, <2>10, <2>11 DEF Inv
<1>4. CASE phase[r] \in {"rejected", "error", "closed"}
  <2>1. /\ wire' = [wire EXCEPT ![r] = rest] /\ got' = got /\ end' = end /\ phase' = phase
    BY <1>4, <1>a, <1>b DEF StreamData
  <2>2. TypeOK'
    <3>1. wire' \in [Roles -> Seq(Units)]
      BY <1>0, <1>c, <2>1
    <3> QED
      BY <1>1, <2>1, <3>1 DEF Inv, TypeOK
  <2>3. /\ phase["Listener"] = "rejected" /\ phase["Dialer"] # "idle"
    BY <1>0, <1>4 DEF Inv, Order, Proposed, Decided
  <2>4. (Decided' <=> Decided) /\ (Proposed' <=> Proposed) /\ (Supported' <=> Supported)
        /\ Answer' = Answer
    BY <1>1, <2>1 DEF Decided, Proposed, Supported, Answer
  <2>5. Order' /\ Listening'
    BY <1>0, <1>1, <2>1, <2>3, <2>4 DEF Inv, Order, Listening
  <2>6. Delivered'
    BY <1>1, <2>1, <2>3 DEF Inv, Order, Delivered
  <2>7. Dialing'
    <3>1. CASE r = "Dialer"
      BY <1>4, <2>1, <3>1 DEF Dialing
    <3>2. CASE r = "Listener"
      <4>1. wire'["Dialer"] = wire["Dialer"]
        BY <1>0, <2>1, <3>2
      <4>2. Answered' = Answered
        BY <1>1, <2>4 DEF Answered
      <4> QED
        BY <2>1, <4>1, <4>2 DEF Inv, Dialing
    <3> QED
      BY <1>0, <3>1, <3>2
  <2> QED
    BY <2>1, <2>2, <2>5, <2>6, <2>7 DEF Inv
<1> QED
  BY <1>2, <1>3, <1>4 DEF StreamData

\* Every step of the two ends keeps the invariant.
LEMMA NextKeeps ==
    ASSUME Inv, [Next]_vars
    PROVE  Inv'
<1>1. CASE DialerStarts
  BY <1>1, DialerStartsKeeps
<1>2. CASE ListenerStarts
  BY <1>2, ListenerStartsKeeps
<1>3. ASSUME NEW r \in Roles, Receives(r)
      PROVE  Inv'
  <2>1. PICK n \in 1 .. MaxWire : StreamData(r, n)
    BY <1>3 DEF Receives
  <2>2. MaxWire \in Nat
    BY FrameLenAssumption, NegotiationAssumption DEF MaxWire
  <2>3. n \in Nat /\ n # 0
    BY <2>2
  <2> QED
    BY ONLY <2>1, <2>3, Inv, r \in Roles, StreamDataKeeps
<1>4. ASSUME NEW r \in Roles, StreamClosed(r)
      PROVE  Inv'
  BY <1>4, StreamClosedKeeps
<1>5. ASSUME NEW r \in Roles, SendData(r)
      PROVE  Inv'
  BY <1>5, SendDataKeeps
<1>6. CASE UNCHANGED vars
  BY <1>6, StutterKeeps
<1> QED
  BY <1>1, <1>2, <1>3, <1>4, <1>5, <1>6 DEF Next

-----------------------------------------------------------------------------
(* What NoByteLost says of an end.                                         *)

\* No unit of H is application data.
NoData(H) == \A i \in 1 .. Len(H) : "data" \notin DOMAIN H[i]

\* Of the k units that were sent, g has arrived and the others end U.
Whole(U, g, k) ==
    LET lines == Len(U) + Len(g) - k
    IN  /\ g \o SubSeq(U, lines + 1, Len(U)) = Data(1, k)
        /\ \A i \in 1 .. lines : "data" \notin DOMAIN U[i]

\* An encoded line is no data, nor are two.
LEMMA LinesAreNoData ==
    /\ NoData(<< >>)
    /\ \A x \in Lines : NoData(EncodeMessage(x))
    /\ \A x, y \in Lines : NoData(EncodeMessage(x) \o EncodeMessage(y))
<1>1. NoData(<< >>)
  BY DEF NoData
<1>2. ASSUME NEW x \in Lines PROVE NoData(EncodeMessage(x))
  <2>1. PICK E : E = EncodeMessage(x)
    OBVIOUS
  <2>2. Len(E) = FrameLen /\ \A i \in 1 .. FrameLen : E[i] = [line |-> x, part |-> i]
    BY <2>1, EncodedIs
  <2>3. ASSUME NEW i PROVE "data" \notin DOMAIN [line |-> x, part |-> i]
    OBVIOUS
  <2>4. \A i \in 1 .. Len(E) : "data" \notin DOMAIN E[i]
    BY <2>2, <2>3
  <2> QED
    BY <2>1, <2>4 DEF NoData
<1>3. ASSUME NEW x \in Lines, NEW y \in Lines
      PROVE  NoData(EncodeMessage(x) \o EncodeMessage(y))
  <2>1. PICK P \in Seq(Units) : P = EncodeMessage(x)
    BY EncodedIs
  <2>2. PICK Q \in Seq(Units) : Q = EncodeMessage(y)
    BY EncodedIs
  <2>3. NoData(P) /\ NoData(Q)
    BY <1>2, <2>1, <2>2
  <2>4. PICK C : C = P \o Q
    OBVIOUS
  <2>5. /\ Len(P) \in Nat /\ Len(Q) \in Nat /\ Len(C) = Len(P) + Len(Q)
        /\ \A i \in 1 .. Len(P) : C[i] = P[i]
        /\ \A i \in 1 .. Len(Q) : C[Len(P) + i] = Q[i]
    <3>1. /\ Len(P) \in Nat /\ Len(Q) \in Nat /\ Len(P \o Q) = Len(P) + Len(Q)
          /\ \A i \in 1 .. Len(P) : (P \o Q)[i] = P[i]
          /\ \A i \in 1 .. Len(Q) : (P \o Q)[Len(P) + i] = Q[i]
      BY ONLY P \in Seq(Units), Q \in Seq(Units), ConcatHalves
    <3> QED
      BY ONLY <2>4, <3>1, Zenon
  <2>6. ASSUME NEW i \in 1 .. Len(C) PROVE "data" \notin DOMAIN C[i]
    <3>1. CASE i <= Len(P)
      BY <2>3, <2>5, <3>1 DEF NoData
    <3>2. CASE ~(i <= Len(P))
      <4>1. PICK j \in 1 .. Len(Q) : i = Len(P) + j
        <5>1. i - Len(P) \in 1 .. Len(Q) /\ i = Len(P) + (i - Len(P))
          BY <2>5, <3>2
        <5> QED
          BY <5>1
      <4> QED
        BY <2>3, <2>5, <4>1 DEF NoData
    <3> QED
      BY <3>1, <3>2
  <2> QED
    BY <2>1, <2>2, <2>4, <2>6 DEF NoData
<1> QED
  BY <1>1, <1>2, <1>3

\* Nothing has arrived: the data is all behind the lines.
LEMMA WholeBehind ==
    \A H \in Seq(Units), k \in Nat : NoData(H) => Whole(H \o Data(1, k), << >>, k)
<1> SUFFICES ASSUME NEW H \in Seq(Units), NEW k \in Nat, NoData(H)
             PROVE  Whole(H \o Data(1, k), << >>, k)
  OBVIOUS
<1>1. PICK D \in Seq(Units) : D = Data(1, k) /\ Len(D) = k
  <2>1. 1 \in Nat /\ 1 <= k + 1
    OBVIOUS
  <2>2. Len(Data(1, k)) = k + 1 - 1
    BY ONLY <2>1, k \in Nat, DataIs
  <2> QED
    BY <2>2, DataUnits
<1>2. PICK U : U = H \o D
  OBVIOUS
<1>3. /\ U \in Seq(Units) /\ Len(H) \in Nat /\ Len(D) \in Nat /\ Len(U) = Len(H) + Len(D)
      /\ \A i \in 1 .. Len(H) : U[i] = H[i]
      /\ \A i \in 1 .. Len(D) : U[Len(H) + i] = D[i]
  <2>1. /\ H \o D \in Seq(Units) /\ Len(H) \in Nat /\ Len(D) \in Nat
        /\ Len(H \o D) = Len(H) + Len(D)
        /\ \A i \in 1 .. Len(H) : (H \o D)[i] = H[i]
        /\ \A i \in 1 .. Len(D) : (H \o D)[Len(H) + i] = D[i]
    BY ONLY H \in Seq(Units), D \in Seq(Units), ConcatHalves
  <2> QED
    BY ONLY <1>2, <2>1, Zenon
<1>4. PICK lines : lines = Len(U) + Len(<< >>) - k
  OBVIOUS
<1>5. lines = Len(H) /\ Len(D) = k
  BY <1>1, <1>3, <1>4
<1>6. PICK B : B = SubSeq(U, lines + 1, Len(U))
  OBVIOUS
<1>7. B = D
  <2>1. B \in Seq(Units) /\ Len(B) = Len(D) /\ \A i \in 1 .. Len(B) : B[i] = U[Len(H) + i]
    BY <1>3, <1>5, <1>6, SubSeqProperties
  <2>2. \A i \in 1 .. Len(B) : B[i] = D[i]
    BY <1>3, <2>1
  <2> QED
    BY <2>1, <2>2, SeqEqual
<1>8. << >> \o B = D
  BY <1>7, ConcatEmptySeq
<1>9. \A i \in 1 .. lines : "data" \notin DOMAIN U[i]
  BY <1>3, <1>5 DEF NoData
<1>10. Whole(U, << >>, k)
  BY <1>1, <1>4, <1>6, <1>8, <1>9 DEF Whole
<1> QED
  BY <1>1, <1>2, <1>10

\* Some has arrived, and nothing but data is on its way.
LEMMA WholeArriving ==
    \A g, w \in Seq(Units), k \in Nat : g \o w = Data(1, k) => Whole(w, g, k)
<1> SUFFICES ASSUME NEW g \in Seq(Units), NEW w \in Seq(Units), NEW k \in Nat, g \o w = Data(1, k)
             PROVE  Whole(w, g, k)
  OBVIOUS
<1>1. Len(Data(1, k)) = k
  <2>1. 1 \in Nat /\ 1 <= k + 1
    OBVIOUS
  <2>2. Len(Data(1, k)) = k + 1 - 1
    BY ONLY <2>1, k \in Nat, DataIs
  <2> QED
    BY <2>2
<1>2. Len(g) \in Nat /\ Len(w) \in Nat /\ Len(g \o w) = Len(g) + Len(w)
  BY ONLY g \in Seq(Units), w \in Seq(Units), ConcatHalves
<1>3. PICK lines : lines = Len(w) + Len(g) - k
  OBVIOUS
<1>4. lines = 0
  BY <1>1, <1>2, <1>3
<1>5. SubSeq(w, lines + 1, Len(w)) = w
  BY <1>4
<1>6. \A i \in 1 .. lines : "data" \notin DOMAIN w[i]
  BY <1>4
<1> QED
  BY <1>3, <1>5, <1>6 DEF Whole

\* What an end that negotiates has still to read is whole.
LEMMA WholeReading ==
    ASSUME NEW state, NEW x \in Lines, NEW k \in Nat,
           NEW A, A = EncodeMessage(x) \o Data(1, k) \/ (A = << >> /\ k = 0)
    PROVE  Whole(HeaderThen(state, A), << >>, k)
<1>0. /\ << >> \in Seq(Units) /\ Header \in Lines /\ Data(1, k) \in Seq(Units)
      /\ EncodeMessage(x) \in Seq(Units) /\ EncodeMessage(Header) \in Seq(Units)
  <2>1. << >> \in Seq(Units) /\ Header \in Lines
    BY DEF Lines
  <2>2. Data(1, k) \in Seq(Units)
    BY ONLY k \in Nat, DataUnits, Zenon
  <2> QED
    BY ONLY <2>1, <2>2, x \in Lines, EncodedIs
<1>1. PICK E \in Seq(Units) : E = EncodeMessage(x)
  BY <1>0
<1>2. PICK H \in Seq(Units) : H = EncodeMessage(Header)
  BY <1>0
<1>3. PICK D \in Seq(Units) : D = Data(1, k)
  BY <1>0
<1>a. H \o E \in Seq(Units) /\ NoData(E) /\ NoData(H) /\ NoData(H \o E) /\ NoData(<< >>)
  BY <1>0, <1>1, <1>2, LinesAreNoData, ConcatProperties
<1>4. ASSUME NEW G \in Seq(Units), NoData(G), HeaderThen(state, A) = G \o D
      PROVE  Whole(HeaderThen(state, A), << >>, k)
  <2>1. Whole(G \o Data(1, k), << >>, k)
    BY ONLY <1>4, G \in Seq(Units), k \in Nat, WholeBehind, Zenon
  <2> QED
    BY ONLY <1>3, <1>4, <2>1, Zenon
<1>5. CASE A = EncodeMessage(x) \o Data(1, k)
  <2>1. A = E \o D
    BY <1>1, <1>3, <1>5
  <2>2. CASE state = "WaitingForRemoteHeader"
    <3>1. HeaderThen(state, A) = H \o (E \o D)
      BY <1>2, <2>1, <2>2 DEF HeaderThen
    <3>2. H \o (E \o D) = (H \o E) \o D
      BY ONLY H \in Seq(Units), E \in Seq(Units), D \in Seq(Units), Regroup, Zenon
    <3>3. HeaderThen(state, A) = (H \o E) \o D
      BY ONLY <3>1, <3>2, Zenon
    <3> QED
      BY ONLY <1>4, <1>a, <3>3, Zenon
  <2>3. CASE state # "WaitingForRemoteHeader"
    <3>1. HeaderThen(state, A) = E \o D
      BY <2>1, <2>3 DEF HeaderThen
    <3> QED
      BY ONLY <1>4, <1>a, <3>1, E \in Seq(Units), Zenon
  <2> QED
    BY <2>2, <2>3
<1>6. CASE A = << >> /\ k = 0
  <2>1. D = << >>
    BY <1>3, <1>6, DataMore
  <2>2. CASE state = "WaitingForRemoteHeader"
    <3>1. HeaderThen(state, A) = H \o D
      BY <1>2, <1>6, <2>1, <2>2 DEF HeaderThen
    <3> QED
      BY ONLY <1>4, <1>a, <3>1, H \in Seq(Units), Zenon
  <2>3. CASE state # "WaitingForRemoteHeader"
    <3>1. HeaderThen(state, A) = << >> /\ << >> \o << >> = << >>
      BY <1>6, <2>3, ConcatEmptySeq DEF HeaderThen
    <3>2. HeaderThen(state, A) = << >> \o D
      BY ONLY <2>1, <3>1, Zenon
    <3> QED
      BY ONLY <1>0, <1>4, <1>a, <3>2, Zenon
  <2> QED
    BY <2>2, <2>3
<1> QED
  BY <1>5, <1>6

\* The invariant leaves no byte out.
LEMMA InvWhole ==
    ASSUME Inv
    PROVE  NoByteLost
<1>0. /\ Typed /\ "Dialer" \in Roles /\ "Listener" \in Roles
      /\ Other("Dialer") = "Listener" /\ Other("Listener") = "Dialer"
      /\ Roles = {"Dialer", "Listener"} /\ "Dialer" # "Listener"
  BY InvTyped DEF Roles, Other
<1>1. \A r \in Roles : end[r].recv_buf \in Seq(Units) /\ wire[r] \in Seq(Units) /\ sent[r] \in Nat
                      /\ got[r] \in Seq(Units)
  BY <1>0, DataUnits DEF Typed, Inv, TypeOK
<1>2. ASSUME NEW r \in Roles, phase[r] = "negotiated"
      PROVE  Whole(end[r].recv_buf \o wire[r], got[r], sent[Other(r)])
  <2>1. Served(end[r], got[r], wire[r], sent[Other(r)])
    BY <1>0, <1>2 DEF Inv, Delivered
  <2>2. PICK w \in Seq(Units) : w = wire[r]
    BY <1>1
  <2>3. PICK g \in Seq(Units) : g = got[r]
    BY <1>1
  <2>4. PICK k \in Nat : k = sent[Other(r)]
    BY <1>0, <1>1
  <2>5. g \o w = Data(1, k) /\ end[r].recv_buf = << >> /\ << >> \o w = w
    BY <2>1, <2>2, <2>3, <2>4, ConcatEmptySeq DEF Served
  <2>6. Whole(w, g, k)
    BY ONLY <2>5, w \in Seq(Units), g \in Seq(Units), k \in Nat, WholeArriving, Zenon
  <2> QED
    BY ONLY <2>2, <2>3, <2>4, <2>5, <2>6, Zenon
<1>3. ASSUME phase["Listener"] = "negotiating"
      PROVE  Whole(end["Listener"].recv_buf \o wire["Listener"], got["Listener"], sent["Dialer"])
  <2>1. phase["Dialer"] # "idle" /\ (~Proposed => sent["Dialer"] = 0)
    BY <1>3 DEF Inv, Order
  <2>2. /\ end["Listener"].recv_buf \o wire["Listener"] = HeaderThen(end["Listener"].state, Asked)
        /\ got["Listener"] = << >>
    BY <1>3, <2>1 DEF Inv, Listening
  <2>3. PICK k \in Nat : k = sent["Dialer"]
    BY <1>0, <1>1
  <2>4. PICK x \in Lines : x = end["Dialer"].desired_protocol
    BY <1>0 DEF Typed, Lines
  <2>5. PICK A : A = Asked
    OBVIOUS
  <2>6. A = EncodeMessage(x) \o Data(1, k) \/ (A = << >> /\ k = 0)
    BY <2>1, <2>3, <2>4, <2>5 DEF Asked
  <2>7. PICK state : state = end["Listener"].state
    OBVIOUS
  <2>8. Whole(HeaderThen(state, A), << >>, k)
    BY ONLY <2>6, x \in Lines, k \in Nat, WholeReading
  <2> QED
    BY ONLY <2>2, <2>3, <2>5, <2>7, <2>8, Zenon
<1>4. ASSUME phase["Dialer"] = "negotiating", phase["Listener"] # "rejected"
      PROVE  Whole(end["Dialer"].recv_buf \o wire["Dialer"], got["Dialer"], sent["Listener"])
  <2>1. got["Dialer"] = << >>
    BY <1>4 DEF Inv, Dialing
  <2>3. PICK k \in Nat : k = sent["Listener"]
    BY <1>0, <1>1
  <2>4. PICK x \in Lines : x = Answer
    BY <1>0 DEF Typed
  <2>5. PICK U \in Seq(Units) : U = end["Dialer"].recv_buf \o wire["Dialer"]
    BY <1>0, <1>1, ConcatProperties
  <2>6. ASSUME NEW state, NEW A, U = HeaderThen(state, A),
               A = EncodeMessage(x) \o Data(1, k) \/ (A = << >> /\ k = 0)
        PROVE  Whole(U, << >>, k)
    <3>1. Whole(HeaderThen(state, A), << >>, k)
      BY ONLY <2>6, x \in Lines, k \in Nat, WholeReading
    <3> QED
      BY ONLY <2>6, <3>1, Zenon
  <2>7. CASE phase["Listener"] = "idle"
    <3>1. k = 0 /\ U = << >>
      BY <1>0, <2>3, <2>5, <2>7, ConcatEmptySeq DEF Inv, Order
    <3>2. U = HeaderThen("Done", << >>)
      BY <3>1 DEF HeaderThen
    <3>3. Whole(U, << >>, k)
      BY <2>6, <3>1, <3>2
    <3> QED
      BY ONLY <2>1, <2>3, <2>5, <3>3, Zenon
  <2>8. CASE phase["Listener"] # "idle"
    <3>1. PICK state : state = end["Dialer"].state
      OBVIOUS
    <3>2. PICK A : A = Answered
      OBVIOUS
    <3>3. U \o << >> = HeaderThen(state, A) /\ U \o << >> = U
      BY <1>4, <2>5, <2>8, <3>1, <3>2, ConcatEmptySeq DEF Inv, Dialing
    <3>4. ~Decided => k = 0
      BY <2>3 DEF Inv, Order, Decided
    <3>5. A = EncodeMessage(x) \o Data(1, k) \/ (A = << >> /\ k = 0)
      BY <2>3, <2>4, <3>2, <3>4 DEF Answered
    <3>6. Whole(U, << >>, k)
      BY <2>6, <3>3, <3>5
    <3> QED
      BY ONLY <2>1, <2>3, <2>5, <3>6, Zenon
  <2> QED
    BY <2>7, <2>8
<1>5. ASSUME NEW r \in Roles, phase[r] \in {"negotiating", "negotiated"}, ~HasReset(Other(r))
      PROVE  Whole(end[r].recv_buf \o wire[r], got[r], sent[Other(r)])
  <2>1. CASE phase[r] = "negotiated"
    BY <1>2, <2>1
  <2>2. CASE phase[r] = "negotiating" /\ r = "Listener"
    BY <1>0, <1>3, <2>2
  <2>3. CASE phase[r] = "negotiating" /\ r = "Dialer"
    BY <1>0, <1>4, <1>5, <2>3 DEF HasReset
  <2> QED
    BY <1>0, <1>5, <2>1, <2>2, <2>3
<1> QED
  BY <1>5 DEF NoByteLost, Whole

-----------------------------------------------------------------------------
(* Theorems.                                                               *)

\* At every moment what an end has still to read, in its buffer and on the
\* wire, is exactly what the other end has said and it has not read: that is
\* what makes the properties below hold however the bytes are cut.
THEOREM NegotiationInvariant == Spec => []Inv
<1>1. Init => Inv
  BY InitInv
<1>2. Inv /\ [Next]_vars => Inv'
  BY NextKeeps
<1> QED
  BY <1>1, <1>2, PTL DEF Spec

\* The negotiators, the wires and the data keep their types.
THEOREM NegotiationTypes == Spec => []TypeOK
<1>1. Inv => TypeOK
  BY DEF Inv
<1> QED
  BY <1>1, NegotiationInvariant, PTL

\* The two ends agree: negotiated means supported, and the dialer only follows.
THEOREM EndsAgree == Spec => []Agreement
<1>1. Inv => Agreement
  BY DEF Inv, Order, Agreement, Roles
<1> QED
  BY <1>1, NegotiationInvariant, PTL

\* No end reports a protocol error.
THEOREM NoEndErrs == Spec => []NoProtocolError
<1>1. Inv => NoProtocolError
  BY DEF Inv, Order, NoProtocolError, Roles
<1> QED
  BY <1>1, NegotiationInvariant, PTL

\* What is pipelined behind the handshake reaches the protocol, in order, once
\* and complete.
THEOREM PipelinedDataArrives == Spec => []NoByteLost
<1>1. Inv => NoByteLost
  BY InvWhole
<1> QED
  BY <1>1, NegotiationInvariant, PTL
=============================================================================
