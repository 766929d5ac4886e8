----------------------------- MODULE HolePunch ------------------------------
(***************************************************************************)
(* examples/peer/src/relay.rs: the scripts run_dial and run_listen of two   *)
(* peers that meet through a relay, run DCUtR over the bridge, dial each    *)
(* other directly and ping, over the direct path or over the bridge.        *)
(*                                                                         *)
(* Every wait of a script is a run_until (or the punch loop): an event it   *)
(* does not wait for is lost.  The relay, the network and the swarms that   *)
(* turn them into events are external.  Time is counted in ticks; a script  *)
(* whose deadline has come acts before the next tick.                       *)
(*                                                                         *)
(* A definition marked "Slip" repeats the next unmarked one with a          *)
(* plausible mistake.                                                       *)
(***************************************************************************)
EXTENDS RelayFlows, DcutrFlows, FiniteSets

CONSTANTS
    ListenDeadline,     \* LISTEN_DEADLINE
    PunchWindow,        \* HOLEPUNCH_DEADLINE
    GraceWindow,        \* the listener's wait for a verified identity
    FallbackWindow,     \* the listener's wait for the relayed ping
    AttemptWindow,      \* RELAY_READY_ATTEMPT_DEADLINE
    AutonatWindow,      \* AUTONAT_CLIENT_DEADLINE
    RelayReadyAttempts, \* RELAY_READY_ATTEMPTS
    PayloadLen,         \* RELAY_PING_LEN, in units
    MayReach,           \* the peers whose direct dials may get through
    RelayMayClose,      \* whether the relay may drop the circuit
    Prompt              \* whether the bridge delivers within a tick

ASSUME HolePunchAssumption ==
    /\ {ListenDeadline, PunchWindow, GraceWindow, FallbackWindow} \subseteq Nat
    /\ {AttemptWindow, AutonatWindow} \subseteq Nat
    /\ {RelayReadyAttempts, PayloadLen} \subseteq Nat \ {0}
    /\ MayReach \subseteq {"Dialer", "Listener"}
    /\ RelayMayClose \in BOOLEAN /\ Prompt \in BOOLEAN

\* A peer offers addresses that parse; a message and the relayed ping behind it
\* fit in a buffer.
ASSUME PeersAssumption ==
    /\ Unparsable \cap {"Dialer", "Listener"} = {}
    /\ FrameLen + PayloadLen <= MaxSize

ASSUME AbsentAssumption ==
    /\ None \notin {"Accepted", "Refused", "Bridged", "Dialer", "Listener"}
    /\ \A addrs \in SUBSET {"Dialer", "Listener"} : None # addrs
    /\ None \notin {"ping-direct", "ping-via-relay", "relay-ping-echoed", "bridge-closed",
                    "refused", "no-hop", "deadline", "silence", "protocol", "not-connected"}
    /\ None \notin [kind : {"Outcome", "Request"}, value : {"Accepted", "Refused", "Bridged", "Dialer"}]
    /\ None \notin [kind : {"Outcome"}, value : SUBSET {"Dialer", "Listener"}]

VARIABLES
    now,      \* the clock
    script,   \* script[s]: where peer s is, and what it holds
    circuit,  \* what the relay has made of the circuit
    asked,    \* asked[x]: units of stream x the relay has not acted on
    wire,     \* wire[x]: units on their way from the relay on stream x
    late,     \* late[x]: wire[x] held something at the last tick
    announced,\* the listener's swarm has reported the STOP stream
    reach,    \* the peers whose direct dials get through
    conn,     \* conn[s]: the connection that s dials to the other
    current,  \* current[s]: the connection s has to the other, by its dialer
    pinging,  \* pinging[s]: the connection that carries the ping of s
    heard     \* the relayed ping has arrived at the listener's swarm

network == <<circuit, asked, wire, late, announced>>
direct == <<reach, conn, current, pinging>>
vars == <<now, script, circuit, asked, wire, late, announced, reach, conn, current, pinging, heard>>

Sides == {"Dialer", "Listener"}
Other(s) == IF s = "Dialer" THEN "Listener" ELSE "Dialer"

\* The dialer's HOP stream, the one on which the listener reserves, and the
\* listener's STOP stream.  The first and the last make the bridge.
Streams == {"Dialer", "Reserve", "Listener"}
HopStream(s) == IF s = "Dialer" THEN "Dialer" ELSE "Reserve"

Places == {"relay", "autonat", "ready", "reserve", "inbound", "hop", "stop", "dcutr",
           "punch", "grace", "connected", "ping", "echo", "fallback", "ended"}

Results == {None, "ping-direct", "ping-via-relay", "relay-ping-echoed", "bridge-closed",
            "refused", "no-hop", "deadline", "silence", "protocol", "not-connected"}

Fin == [fin |-> TRUE]
Payload == Data(1, PayloadLen)

\* earlier_deadline
EarlierDeadline(a, b) == IF a <= b THEN a ELSE b

\* Both scripts are started at time 0 and have dialed the relay.
NewScript(s) ==
    [at |-> "relay", until |-> EarlierDeadline(AttemptWindow, ListenDeadline), attempt |-> 1, flow |-> None,
     addrs |-> {s}, remote |-> None, result |-> None]

Init ==
    /\ now = 0
    /\ script = [s \in Sides |-> NewScript(s)]
    /\ circuit = "none"
    /\ asked = [x \in Streams |-> << >>]
    /\ wire = [x \in Streams |-> << >>]
    /\ late = [x \in Streams |-> FALSE]
    /\ announced = FALSE
    /\ reach \in SUBSET MayReach
    /\ conn = [s \in Sides |-> "none"]
    /\ current = [s \in Sides |-> None]
    /\ pinging = [s \in Sides |-> None]
    /\ heard = FALSE

At(s) == script[s].at
Alive(s) == At(s) # "ended"

-----------------------------------------------------------------------------
\* One step of a script: where it goes and what it writes to its stream.

Step(sc, units) == [script |-> sc, out |-> units]
Waits(sc, at, until) == [sc EXCEPT !.at = at, !.until = until]
Ends(sc, result) == [sc EXCEPT !.at = "ended", !.flow = None, !.result = result]
Behind(units, step) == [step EXCEPT !.out = units \o @]

\* dial_direct_candidates and the start of the window
Punches(sc, remote) == [Waits(sc, "punch", now + PunchWindow) EXCEPT !.remote = remote, !.flow = None]

\* run_dial, steps 3 and 4: the CONNECT reply, then SYNC and the dials.
DialerDcutr(sc, data) ==
    LET fed    == InitiatorData(sc.flow, data)
        polled == InitiatorPoll(fed.flow)
        sync   == InitiatorPoll(SendSync(polled.flow).flow)
    IN  CASE ~fed.ok -> Step(Ends(sc, "protocol"), << >>)
          [] fed.ok /\ polled.out = None -> Step([sc EXCEPT !.flow = polled.flow], << >>)
          [] fed.ok /\ polled.out # None -> Step(Punches(sc, polled.out.value), sync.out.value)

\* run_dial, step 2: the answer to HOP CONNECT.
DialerHop(sc, data) ==
    LET fed    == ConnectData(sc.flow, data)
        polled == ConnectPoll(fed.flow)
        rest   == ConnectPoll(polled.flow)
        first  == InitiatorPoll(NewInitiator(sc.addrs))
        next   == [sc EXCEPT !.at = "dcutr", !.flow = first.flow]
    IN  CASE ~fed.ok -> Step(Ends(sc, "protocol"), << >>)
          [] fed.ok /\ polled.out = None -> Step([sc EXCEPT !.flow = polled.flow], << >>)
          [] fed.ok /\ polled.out # None /\ polled.out.value = "Refused" ->
               Step(Ends(sc, "refused"), << >>)
          [] fed.ok /\ polled.out # None /\ polled.out.value = "Bridged" ->
               Behind(first.out.value, IF rest.out = None THEN Step(next, << >>)
                                       ELSE DialerDcutr(next, rest.out.value))

\* run_listen, step 2: the answer to HOP RESERVE.
ListenerReserve(sc, data) ==
    LET fed    == ReservationData(sc.flow, data)
        polled == ReservationPoll(fed.flow)
    IN  CASE ~fed.ok -> Step(Ends(sc, "protocol"), << >>)
          [] fed.ok /\ polled.out = None -> Step([sc EXCEPT !.flow = polled.flow], << >>)
          [] fed.ok /\ polled.out # None ->
               Step(IF polled.out.value = "Accepted"
                    THEN [Waits(sc, "inbound", ListenDeadline) EXCEPT !.flow = None]
                    ELSE Ends(sc, "refused"), << >>)

\* The addresses of the last ConnectReceived, or those kept so far.
Captured(events, kept) ==
    LET got == {i \in DOMAIN events : events[i].kind = "ConnectReceived"}
    IN  IF got = {} THEN kept ELSE events[CHOOSE i \in got : \A j \in got : j <= i].body

\* Slip: the addresses are those of the events of this call.
ListenerDcutrForgets(sc, data) ==
    LET fed    == ResponderData(sc.flow, data)
        remote == Captured(fed.flow.events, {})
        idle   == [fed.flow EXCEPT !.outbound = << >>, !.events = << >>]
    IN  CASE ~fed.ok -> Step(Ends(sc, "protocol"), << >>)
          [] fed.ok /\ idle.state = "Done" -> Step(Punches(sc, remote), fed.flow.outbound)
          [] fed.ok /\ idle.state # "Done" ->
               Step([sc EXCEPT !.flow = idle, !.remote = remote], fed.flow.outbound)

\* run_listen, step 5, with drain_dcutr_responder_outputs.
ListenerDcutr(sc, data) ==
    LET fed    == ResponderData(sc.flow, data)
        remote == Captured(fed.flow.events, sc.remote)
        idle   == [fed.flow EXCEPT !.outbound = << >>, !.events = << >>]
    IN  CASE ~fed.ok -> Step(Ends(sc, "protocol"), << >>)
          [] fed.ok /\ idle.state = "Done" ->
               Step(Punches(sc, IF remote = None THEN {} ELSE remote), fed.flow.outbound)
          [] fed.ok /\ idle.state # "Done" ->
               Step([sc EXCEPT !.flow = idle, !.remote = remote], fed.flow.outbound)

\* run_listen, step 4: STOP CONNECT is accepted at once.
ListenerStop(sc, data) ==
    LET fed    == StopData(sc.flow, data)
        polled == StopPoll(fed.flow)
        status == StopPoll(Accept(polled.flow).flow)
        rest   == StopPoll(status.flow)
        next   == [sc EXCEPT !.at = "dcutr", !.flow = NewResponder(sc.addrs)]
    IN  CASE ~fed.ok -> Step(Ends(sc, "protocol"), << >>)
          [] fed.ok /\ polled.out = None -> Step([sc EXCEPT !.flow = polled.flow], << >>)
          [] fed.ok /\ polled.out # None ->
               Behind(status.out.value, IF rest.out = None THEN Step(next, << >>)
                                        ELSE ListenerDcutr(next, rest.out.value))

\* Slip: anything on the bridge ends the punch.
OnBridgeDataClosed(s, sc, data) ==
    CASE sc.at = "hop" -> DialerHop(sc, data)
      [] sc.at = "stop" -> ListenerStop(sc, data)
      [] sc.at = "dcutr" -> IF s = "Dialer" THEN DialerDcutr(sc, data) ELSE ListenerDcutr(sc, data)
      [] sc.at = "echo" /\ data = Payload -> Step(Ends(sc, "ping-via-relay"), << >>)
      [] s = "Listener" /\ sc.at \in {"punch", "fallback"} -> Step(Ends(sc, "bridge-closed"), << >>)
      [] OTHER -> Step(sc, << >>)

\* The waits that no data ends: the event is discarded.
OnData(s, sc, data) ==
    CASE sc.at = "hop" -> DialerHop(sc, data)
      [] sc.at = "stop" -> ListenerStop(sc, data)
      [] sc.at = "dcutr" -> IF s = "Dialer" THEN DialerDcutr(sc, data) ELSE ListenerDcutr(sc, data)
      [] sc.at = "echo" /\ data = Payload -> Step(Ends(sc, "ping-via-relay"), << >>)
      [] sc.at = "fallback" -> Step(Ends(sc, "relay-ping-echoed"), data)
      [] OTHER -> Step(sc, << >>)

\* is_bridge_closed_event
OnBridgeClosed(s, sc) ==
    IF s = "Listener" /\ sc.at \in {"punch", "fallback"} THEN Ends(sc, "bridge-closed") ELSE sc

\* Slip: the wait for the bridge goes on when nothing has come.
OnTimeoutPatient(s, sc) ==
    CASE s = "Dialer" /\ sc.at = "punch" -> Step(Waits(sc, "echo", ListenDeadline), Payload)
      [] s = "Listener" /\ sc.at \in {"punch", "grace"} ->
           Step(Waits(sc, "fallback", now + FallbackWindow), << >>)
      [] sc.at = "fallback" -> Step(sc, << >>)
      [] OTHER -> Step(Ends(sc, "deadline"), << >>)

\* A wait that its deadline ends.
OnTimeout(s, sc) ==
    CASE s = "Dialer" /\ sc.at = "punch" -> Step(Waits(sc, "echo", ListenDeadline), Payload)
      [] s = "Listener" /\ sc.at \in {"punch", "grace"} ->
           Step(Waits(sc, "fallback", now + FallbackWindow), << >>)
      [] sc.at = "fallback" -> Step(Ends(sc, "silence"), << >>)
      [] OTHER -> Step(Ends(sc, "deadline"), << >>)

Bridged == circuit = "bridged"

\* What a peer writes goes to the relay, through it while there is a bridge,
\* and nowhere when the circuit is closed; SendFails has the error.
Writes(s, units, to) ==
    /\ wire' = IF Bridged THEN [to EXCEPT ![Other(s)] = @ \o units] ELSE to
    /\ asked' = IF Bridged \/ circuit = "closed" THEN asked
                ELSE [asked EXCEPT ![s] = @ \o units]

\* A script that starts to punch dials every address it was given.
Dials(s, sc) ==
    conn' = [conn EXCEPT ![s] =
               IF sc.at = "punch" /\ At(s) # "punch" /\ sc.remote # {} /\ s \in reach
               THEN "dialed" ELSE @]

-----------------------------------------------------------------------------
\* The next attempt: disconnected, dialed again, and the wait starts anew.  The
\* backoff in between (RELAY_READY_RETRY_BACKOFF) is shorter than a tick.
Retries(sc) ==
    [Waits(sc, "relay", EarlierDeadline(now + AttemptWindow, ListenDeadline))
       EXCEPT !.attempt = @ + 1]

\* Slip: the last attempt is not the last.
RelayAdvertisesOnceMore(s) ==
    /\ At(s) = "relay"
    /\ \E hop \in BOOLEAN :
         script' = [script EXCEPT ![s] =
           CASE hop -> Waits(@, "autonat", now + AutonatWindow)
             [] ~hop /\ @.attempt <= RelayReadyAttempts -> Retries(@)
             [] ~hop /\ @.attempt > RelayReadyAttempts -> Ends(@, "no-hop")]
    /\ UNCHANGED <<now, network, direct, heard>>

\* prepare_relay: Identify arrives and does, or does not yet, offer HOP.
RelayAdvertises(s) ==
    /\ At(s) = "relay"
    /\ \E hop \in BOOLEAN :
         script' = [script EXCEPT ![s] =
           CASE hop -> Waits(@, "autonat", now + AutonatWindow)
             [] ~hop /\ @.attempt < RelayReadyAttempts -> Retries(@)
             [] ~hop /\ @.attempt = RelayReadyAttempts -> Ends(@, "no-hop")]
    /\ UNCHANGED <<now, network, direct, heard>>

\* validate_candidates_with_autonat: those that were dialed back, or all of
\* them.  The exchange itself is in Flows; it may also fail (StreamFails) or
\* take too long (Timeout).
CandidatesValidated(s) ==
    /\ At(s) = "autonat"
    /\ \E dialable \in SUBSET script[s].addrs :
         script' = [script EXCEPT ![s] =
           [Waits(@, "ready", ListenDeadline) EXCEPT !.addrs = dialable]]
    /\ UNCHANGED <<now, network, direct, heard>>

\* wait_user_stream_ready on the HOP stream, then the request is flushed.
StreamReady(s) ==
    LET new    == IF s = "Dialer" THEN NewConnect("Listener") ELSE NewReservation
        polled == IF s = "Dialer" THEN ConnectPoll(new) ELSE ReservationPoll(new)
    IN  /\ At(s) = "ready"
        /\ script' = [script EXCEPT ![s] =
             [Waits(@, IF s = "Dialer" THEN "hop" ELSE "reserve", ListenDeadline)
                EXCEPT !.flow = polled.flow]]
        /\ asked' = [asked EXCEPT ![HopStream(s)] = @ \o polled.out.value]
        /\ UNCHANGED <<now, circuit, wire, late, announced, direct, heard>>

\* The AutoNAT service cannot be dialed or answers what the client refuses, or
\* a stream is refused or reset before it is ready.
StreamFails(s) ==
    /\ At(s) \in {"autonat", "ready"}
    /\ script' = [script EXCEPT ![s] = Ends(@, "refused")]
    /\ UNCHANGED <<now, network, direct, heard>>

\* UserStreamReady of the relay's STOP stream, which only wait_inbound_stream
\* waits for: while the answer to RESERVE is awaited it is discarded.
InboundStream ==
    /\ circuit = "offered" /\ ~announced
    /\ announced' = TRUE
    /\ script' = IF At("Listener") # "inbound" THEN script
                 ELSE [script EXCEPT !["Listener"] =
                         [Waits(@, "stop", ListenDeadline) EXCEPT !.flow = NewStop]]
    /\ UNCHANGED <<now, circuit, asked, wire, late, direct, heard>>

\* UserStreamData on the listener's HOP stream.
ReservationAnswered(n) ==
    LET data == SubSeq(wire["Reserve"], 1, n)
    IN  /\ n <= Len(wire["Reserve"])
        /\ script' = IF At("Listener") # "reserve" THEN script
                     ELSE [script EXCEPT !["Listener"] = ListenerReserve(@, data).script]
        /\ wire' = [wire EXCEPT !["Reserve"] = SubSeq(@, n + 1, Len(@))]
        /\ UNCHANGED <<now, circuit, asked, late, announced, direct, heard>>

\* UserStreamData on the bridge: the next n units arrive together, those of the
\* STOP stream behind its UserStreamReady.
BridgeData(s, n) ==
    LET data == SubSeq(wire[s], 1, n)
        step == OnData(s, script[s], data)
        rest == [wire EXCEPT ![s] = SubSeq(@, n + 1, Len(@))]
    IN  /\ n <= Len(wire[s])
        /\ \A i \in DOMAIN data : data[i] # Fin
        /\ s = "Listener" => announced
        /\ script' = [script EXCEPT ![s] = step.script]
        /\ Writes(s, step.out, rest)
        /\ Dials(s, step.script)
        /\ heard' = (heard \/ (s = "Listener" /\ \E i \in DOMAIN data : data[i] = Payload[1]))
        /\ UNCHANGED <<now, circuit, late, announced, reach, current, pinging>>

\* UserStreamRemoteWriteClosed or UserStreamClosed on the bridge.
BridgeClosed(s) ==
    /\ wire[s] # << >> /\ Head(wire[s]) = Fin
    /\ script' = [script EXCEPT ![s] = OnBridgeClosed(s, @)]
    /\ wire' = [wire EXCEPT ![s] = Tail(@)]
    /\ UNCHANGED <<now, circuit, asked, late, announced, direct, heard>>

Timeout(s) ==
    LET step == OnTimeout(s, script[s])
    IN  /\ At(s) \notin {"connected", "ended"}
        /\ now >= script[s].until
        /\ script' = [script EXCEPT ![s] = step.script]
        /\ Writes(s, step.out, wire)
        /\ UNCHANGED <<now, circuit, late, announced, direct, heard>>

\* send: the relay is gone, and with it the stream that the script has
\* something to write to.
SendFails(s) ==
    /\ Alive(s) /\ circuit = "closed"
    /\ \/ now >= script[s].until /\ OnTimeout(s, script[s]).out # << >>
       \/ \E n \in 1 .. Len(wire[s]) :
            /\ \A i \in 1 .. n : wire[s][i] # Fin
            /\ OnData(s, script[s], SubSeq(wire[s], 1, n)).out # << >>
    /\ script' = [script EXCEPT ![s] = Ends(@, "refused")]
    /\ UNCHANGED <<now, network, direct, heard>>

-----------------------------------------------------------------------------
\* The relay.

Request(x, kind) == asked[x] # << >> /\ FrontOf(asked[x]).kind = kind
Answered(x) == [asked EXCEPT ![x] = RestOf(@)]

\* It grants the reservation or refuses it.
RelayReserves ==
    /\ Request("Reserve", "RESERVE")
    /\ \E status \in {"Ok", "ReservationRefused"} :
         /\ wire' = [wire EXCEPT !["Reserve"] = @ \o EncodeFrame(Message("STATUS", status))]
         /\ circuit' = IF status = "Ok" THEN "reserved" ELSE circuit
    /\ asked' = Answered("Reserve")
    /\ UNCHANGED <<now, script, late, announced, direct, heard>>

\* It opens a STOP stream to a peer with a reservation.
RelayConnects ==
    /\ Request("Dialer", "CONNECT") /\ circuit \in {"none", "reserved"}
    /\ wire' = IF circuit = "reserved"
               THEN [wire EXCEPT !["Listener"] = @ \o EncodeFrame(Message("CONNECT", "Dialer"))]
               ELSE [wire EXCEPT !["Dialer"] = @ \o EncodeFrame(Message("STATUS", "NoReservation"))]
    /\ circuit' = IF circuit = "reserved" THEN "offered" ELSE circuit
    /\ asked' = Answered("Dialer")
    /\ UNCHANGED <<now, script, late, announced, direct, heard>>

\* It bridges: what follows on either stream is for the other peer.
RelayBridges ==
    /\ Request("Listener", "STATUS") /\ circuit = "offered"
    /\ circuit' = "bridged"
    /\ wire' = [wire EXCEPT !["Dialer"] = @ \o EncodeFrame(Message("STATUS", "Ok"))
                                            \o RestOf(asked["Listener"])]
    /\ asked' = [asked EXCEPT !["Dialer"] = << >>, !["Listener"] = << >>]
    /\ UNCHANGED <<now, script, late, announced, direct, heard>>

\* It drops the circuit, of its own accord or because a peer has gone.
RelayCloses ==
    /\ Bridged
    /\ RelayMayClose \/ \E s \in Sides : ~Alive(s)
    /\ circuit' = "closed"
    /\ wire' = [wire EXCEPT !["Dialer"] = @ \o <<Fin>>, !["Listener"] = @ \o <<Fin>>]
    /\ UNCHANGED <<now, script, asked, late, announced, direct, heard>>

-----------------------------------------------------------------------------
\* The direct path: conn[c] is the connection dialed by c.

\* The dialed peer has the source address among its inbound connections.
InitialArrives(c) ==
    /\ conn[c] = "dialed" /\ Alive(Other(c))
    /\ conn' = [conn EXCEPT ![c] = "seen"]
    /\ UNCHANGED <<now, script, network, reach, current, pinging, heard>>

\* ConnectionEstablished: the swarm closes the connection it had, and a ping
\* that had no stream yet moves to the new one.
Established(s, c, phase) ==
    LET old == current[s]
    IN  /\ Alive(s)
        /\ conn' = [x \in Sides |-> CASE x = c -> phase
                                      [] x = old /\ x # c -> "closed"
                                      [] OTHER -> conn[x]]
        /\ current' = [current EXCEPT ![s] = c]
        /\ \/ At(s) \in {"punch", "grace"} /\ UNCHANGED pinging
              /\ script' = [script EXCEPT ![s] = Waits(@, "connected", ListenDeadline)]
           \/ At(s) = "ping" /\ pinging' = [pinging EXCEPT ![s] = c] /\ UNCHANGED script
           \/ At(s) \notin {"punch", "grace"} /\ UNCHANGED <<script, pinging>>
        /\ UNCHANGED <<now, network, reach, heard>>

\* The dialing end completes the handshake first, the other end follows.
DialEstablished(c) == conn[c] = "seen" /\ Alive(Other(c)) /\ Established(c, c, "half")
AcceptEstablished(c) == conn[c] = "half" /\ Alive(c) /\ Established(Other(c), c, "both")

\* The other end hears that the connection was closed; the scripts ignore it.
ConnectionClosed(s) ==
    /\ current[s] # None /\ conn[current[s]] = "closed"
    /\ current' = [current EXCEPT ![s] = None]
    /\ UNCHANGED <<now, script, network, reach, conn, pinging, heard>>

\* ping_and_exit calls Swarm::ping, which knows the peer only as long as it has
\* a connection.
StartPing(s) ==
    /\ At(s) = "connected"
    /\ pinging' = [pinging EXCEPT ![s] = current[s]]
    /\ script' = [script EXCEPT ![s] = IF current[s] = None THEN Ends(@, "not-connected")
                                       ELSE [@ EXCEPT !.at = "ping"]]
    /\ UNCHANGED <<now, network, reach, conn, current, heard>>

\* any_source_matches: an inbound connection from an address of the dialer's.
AnySourceMatches ==
    /\ conn["Dialer"] \in {"seen", "half", "both"}
    /\ "Dialer" \in script["Listener"].remote

\* The punch loop's coarse sign, also if the connection came before SYNC.
InboundSeen ==
    /\ At("Listener") = "punch"
    /\ AnySourceMatches
    /\ script' = [script EXCEPT !["Listener"] = Waits(@, "grace", now + GraceWindow)]
    /\ UNCHANGED <<now, network, direct, heard>>

\* PingRttMeasured ends ping_and_exit, which half-closes the bridge.
PingRtt(s) ==
    /\ At(s) = "ping"
    /\ pinging[s] # None /\ conn[pinging[s]] = "both" /\ Alive(Other(s))
    /\ script' = [script EXCEPT ![s] = Ends(@, "ping-direct")]
    /\ Writes(s, <<Fin>>, wire)
    /\ UNCHANGED <<now, circuit, late, announced, direct, heard>>

-----------------------------------------------------------------------------
\* No deadline is overrun, and the bridge delivers in time if it is prompt.
Tick ==
    /\ \E s \in Sides : Alive(s)
    /\ \A s \in Sides : Alive(s) => now < script[s].until
    /\ Prompt => \A x \in Streams : ~late[x] \/ wire[x] = << >>
    /\ now' = now + 1
    /\ late' = [x \in Streams |-> wire[x] # << >>]
    /\ UNCHANGED <<script, circuit, asked, wire, announced, direct, heard>>

MaxWire == 4 * FrameLen + 2 * PayloadLen

Next ==
    \/ Tick \/ InboundStream \/ InboundSeen
    \/ RelayReserves \/ RelayConnects \/ RelayBridges \/ RelayCloses
    \/ \E n \in 1 .. MaxWire : ReservationAnswered(n)
    \/ \E s \in Sides :
         \/ RelayAdvertises(s) \/ CandidatesValidated(s) \/ StreamReady(s) \/ StreamFails(s)
         \/ SendFails(s)
         \/ \E n \in 1 .. MaxWire : BridgeData(s, n)
         \/ BridgeClosed(s) \/ Timeout(s)
         \/ InitialArrives(s) \/ DialEstablished(s) \/ AcceptEstablished(s)
         \/ ConnectionClosed(s) \/ StartPing(s) \/ PingRtt(s)

\* The clock goes on and a script that is due runs; nothing is assumed of the
\* relay or of the network.
Spec ==
    /\ Init /\ [][Next]_vars
    /\ WF_vars(Tick)
    /\ \A s \in Sides : WF_vars(Timeout(s)) /\ WF_vars(StartPing(s))

-----------------------------------------------------------------------------
(* Properties.                                                             *)

Result(s) == script[s].result

TypeOK ==
    /\ now \in Nat
    /\ \A s \in Sides :
         /\ At(s) \in Places /\ Result(s) \in Results
         /\ script[s].addrs \subseteq {s}
         /\ script[s].remote \in {None} \cup SUBSET {Other(s)}
         /\ script[s].attempt \in 1 .. RelayReadyAttempts
         /\ At(s) = "ended" <=> Result(s) # None
    /\ circuit \in {"none", "reserved", "offered", "bridged", "closed"}
    /\ conn \in [Sides -> {"none", "dialed", "seen", "half", "both", "closed"}]
    /\ current \in [Sides -> Sides \cup {None}]
    /\ pinging \in [Sides -> Sides \cup {None}]

\* DCUtR over the bridge: a peer that punches holds exactly the addresses the
\* other one validated, and the listener starts only when the dialer, which
\* starts first, knows its addresses too.
CandidatesExchanged ==
    /\ \A s \in Sides : At(s) \in {"punch", "grace"} => script[s].remote = script[Other(s)].addrs
    /\ At("Listener") \in {"punch", "grace"} => script["Dialer"].remote # None

\* Two peers of this code never refuse each other's frames, however late and
\* however joined they arrive, the relayed ping behind SYNC included.
NoProtocolError == \A s \in Sides : Result(s) # "protocol"

\* What a peer reports is true of the other: a relayed round trip was echoed,
\* and a listener that takes the closed bridge for the dialer's success is
\* wrong only if the relay, or the end of the dialer's process, closed it.
ResultsAgree ==
    /\ Result("Dialer") = "ping-via-relay" => Result("Listener") = "relay-ping-echoed"
    /\ Result("Listener") = "bridge-closed" =>
         Result("Dialer") = "ping-direct" \/ circuit = "closed"

\* Every wait is bounded: both scripts come to an end.
BothEnd == <>(\A s \in Sides : ~Alive(s))

\* relay_ping_fallback: a listener that reports no bridge activity was sent none.
PayloadIsEchoed == Result("Listener") = "silence" => ~heard
=============================================================================
