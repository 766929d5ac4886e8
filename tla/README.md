# minip2p in TLA+

A verification project for minip2p, a small libp2p stack in Rust whose protocol
logic is written Sans-I/O: state machines that take inputs and return actions and
events, driven by a thin layer that owns sockets and clocks. TLC model-checks the
modules on small instances; TLAPS proves the most important invariants for every
size.

    tlc -config MCSwarm.cfg MCSwarm        # a run
    tlapm SwarmProofs.tla                  # the proofs of a module

## The system

| Part | Keeps | Does | Talks to |
|---|---|---|---|
| `crates/swarm/src/core.rs` **SwarmCore** | maps between peers and connections, negotiators and owners of streams, pending opens and pings, readiness of peers, queues of actions and events | handles transport events, results of opens, ticks; `ping`, `open_user_stream`, `send`/`close`/`reset`, `disconnect` | calls ping and Identify, emits actions for the driver and events for the application |
| `crates/swarm/src/driver.rs` **Swarm** | the core, a transport, an event buffer | `poll`: feed a batch of transport events, tick, execute actions, hand out events | transport, application |
| `crates/ping` **PingProtocol** | per peer: outbound stream, inbound streams, request in flight, receive buffers | request, echo, timeout, stream limit, migration between peer ids | core |
| `crates/identify` **IdentifyProtocol** | per peer: stream answered on, streams read from | sends our message, reads the remote's | core |
| `crates/multistream-select` **MultistreamSelect** | role, state, receive buffer | negotiates a protocol for a stream | core |
| `crates/transport` **Transport** | (trait) | dial, streams, close; the order of its events | driver |
| `transports/quic` **QuicConnection, QuicTransport, DualQuicTransport** | stream states and send queues; connections, connection ids, peer index | the transport over quiche | driver |
| `crates/relay`, `crates/dcutr`, `crates/autonat` | one flow each | reservation, relayed connection, hole-punch coordination, reachability | the hole-punch peer |
| `examples/peer` | the flow of a listener or dialer | relay, DCUtR, direct dial, fallback | swarm |
| `crates/core`, `identity`, `tls`, `minip2p` | values | addresses, keys, certificates, re-exports | all |

What is hard here is not concurrency of threads (one thread polls) but order:
transport events, results of opens, ticks and application calls interleave freely;
a second connection to a peer replaces the first at any moment, with stream ids that
repeat; the driver executes actions later than the core decided them; a peer's
identity may arrive after its streams; packets cut and join messages anywhere;
requests time out while their answers arrive. `PROJECT.json` lists these hazards at
their lines, with the properties that watch them.

What makes each part correct: the core's tables agree with each other, with the
protocols' own state, with the transport and with what the application has been
told; no ping ends without a report, and every ping ends; a negotiation ends in agreement
and eats no byte; nothing of a closed connection is left behind; a transport's events
come in the order its trait promises; a relay, DCUtR or AutoNAT flow understands its
frames however they are cut and hands on what lies behind them; two hole-punching
peers end, and what each reports is true of the other.

## Modules

| Module | Models | Role |
|---|---|---|
| `PingProtocol` | `crates/ping/src/lib.rs` | handlers as operators on one peer's state |
| `Ping` | the same, driven by a host | state machine, properties, fairness |
| `IdentifyProtocol` | `crates/identify/src/lib.rs` | handlers as operators |
| `MultistreamSelect` | `crates/multistream-select/src/lib.rs` | negotiator as operators |
| `Negotiation` | two negotiators on a stream | state machine, properties, fairness |
| `SwarmCore` | `crates/swarm/src/core.rs` | every method as an operator on the record `k` |
| `Swarm` | core + driver + transport + application | state machine and properties |
| `TransportContract` | `crates/transport` | abstract specification: the order of calls and events |
| `QuicConnection` | `transports/quic/src/connection.rs` | every method as an operator on a connection |
| `Quic` | `transports/quic/src/lib.rs` | both transports, `poll`, network and host; refines `TransportContract` |
| `Frames` | framing and size limit of the three flow crates | operators |
| `RelayFlows`, `DcutrFlows`, `AutoNatFlows` | `crates/relay`, `crates/dcutr`, `crates/autonat` | the seven flows as operators |
| `Flows` | one flow, a host and an arbitrary remote | state machine, reference, properties |
| `HolePunch` | `run_dial`, `run_listen` of `examples/peer/src/relay.rs` | composition of the flows with a relay, a direct path and clocks |
| `PingProofs` | | theorems about `Ping` |
| `NegotiationProofs` | | theorems about `Negotiation` |
| `SwarmProofs`, `SwarmViewProofs` | | theorems about `Swarm`: its maps and streams, and what the application makes of its events |
| `QuicProofs` | | theorems about `QuicConnection`, `Quic` and its refinement of `TransportContract` |
| `FlowsProofs` | | theorems about `Flows` |
| `HolePunchProofs` | | theorems about `HolePunch` |
| `SequenceLemmas` | | sequences, induction over naturals |
| `MCPing`, `MCNegotiation`, `MCSwarm`, `MCQuic`, `MCFlows` | | sets of model values for the runs |

`SwarmCore` instantiates `PingProtocol` and `IdentifyProtocol` and calls their
operators where `core.rs` calls the protocols, and `HolePunch` extends `RelayFlows` and
`DcutrFlows` in the same way, so what is checked of a composition is about the same
definitions as what is checked and proved of its parts.

### State and actions

`Ping`: `peers`, `pending_events`, `pending_actions` are the fields of the struct;
`wire` records what the transport has reported of each stream. One action per
`PingInput` variant, `Tick`, `PollOutput`, and `Elapse` for the clock. `now_ms -
sent_at_ms` is kept as an age, which stops growing past the timeout.

`Swarm`: `core` is the struct SwarmCore (field by field; a map is a function into
values or `None`); `polling` says that `poll` is feeding its batch; `conns`,
`remote`, `streams` are the transport and the far ends; `app` is what the delivered
events say. One action per `TransportEvent` that the core reacts to, one per
application call, `Tick`, `DispatchAction` (each `SwarmAction`, executed or refused
by the transport, the answer to an open fed back at once, as in `dispatch_action`)
and `DeliverEvent`. A handler's step includes everything it calls: draining ping and
Identify, `try_emit_peer_ready`, the opens it queues. Once no action is queued,
`core.events` stands for the driver's `event_buffer`, and the application may call
before it has read it.

Left out of the core: `active_connections` (written, never read), local and remote
addresses (they only end up in messages), texts, and all but one user protocol.
How far a chunk of data takes a negotiation is an input of `SwarmCore`; that the
negotiator itself gets it right is the subject of `Negotiation`.

`Negotiation`: an encoded line is `FrameLen` units and the transport delivers any
prefix of what is on its way, so every cut and every join of lines and data happens.
Where `pipelining` holds the dialer is an implementation that sends header, proposal and
data without waiting, for which `take_remaining_buffer` exists. A reset may overtake
what was sent before it.

### The transport in `Swarm`

It is external, modelled from the comments and uses of `crates/transport`: Connected
once per connection; streams only on live connections, ids in order and repeated by
every connection; FIN and then StreamClosed at most once each; Closed last. `close()`
only asks: everything on its way still comes, for the superseded connection too. Any
operation may be refused. `AuthAtHandshake` tells a transport that knows the peer
when it reports Connected (QUIC) from one that learns it later
(`PeerIdentityVerified`, which the core supports).

### QUIC

A `QuicConnection` keeps the fields of the struct and, of quiche, what decides the
answers the code gets: `established`, `closed`, what `stream_recv` will return and what
becomes of `stream_send` per stream. Every method is an operator to `[conn, events,
ok]`; after an early `?` the state is that at the point of return, with the events
already pushed. In `Quic`, `transport[f]` is the `QuicTransport` of an address family
(connections, `cid_to_connection`, `peer_connections`, `pending_events`, the id
counter), and `poll` the call in progress: the datagrams, then the connections in any
order, then the removal of closed ones, for IPv4 and then IPv6. Its steps
are actions, so that any input may come between them, and the host calls only between
polls, since one thread does both. The actions `Recv...` are the kinds of datagram;
which bytes quiche takes (flow control), socket errors and certificates are choices.
`Handle` lets the host take one event after the other; `conn` and `stream` record what
it has been told, which is the refinement mapping into `TransportContract`.

What a certificate proves (`Certificates`, the verdict of `verify_libp2p_certificate`) is
fixed when a connection is made, in `cert`; `expected` keeps the peer that was dialed.
`Impostors` says whether a certificate may prove nobody, or another peer than the one
dialed. A refusal (`Refuses`) closes the connection and reports an `Error`; each flush
on the way may fail with `?`.

`TransportContract` states the trait's promises with no transport in it: an id before
any event, `Connected` once, no stream event before it or behind `Closed`, a stream
announced first, data before the FIN, `StreamClosed` once and last. A refused handshake is
no exception. The one thing the trait does not speak of is a `poll` that returns an error, with
which the code drops the events it had collected: `PollFails` lets the host see such an error,
and only then may connections have a gap, after which the order of their events is not known.
The refinement thus says that `Quic` breaks the order of no connection except behind an error
that the host got. The contract leaves open which connections the error concerns; in `Quic`
they are those with events in that `poll` and the one whose step failed it. `Excused` is how `Quic` names the connections that the host cannot
be told everything of: those with a gap and those refused. With impostors the refinement is
false, which `quic_refused` shows. The streams of one connection are read in a fixed order (the
code's is that of hash maps; the contract relates no two streams).

`ToldIsTrue` is about all certificates and faults: `Connected` is told only of a connection
whose certificate is valid and proves the peer that was dialed, also when a failed `poll`
has left the handshake half done, and unless events of it were lost, the host's open
streams have a state in the transport until `close()`, which closes them implicitly.

### Flows and hole punching

A flow is the record of its struct; `handle_input` is `...Data`, `...Decode` (on the
remote's FIN) and the host's calls (`Accept`, `Reject`, `SendSync`, `Respond`), and
`poll_output` is `...Poll`. A frame is `FrameLen` units. In `Flows` the remote sends
right or wrong frames (malformed bodies, no length, wrong types, unparsable addresses)
and data behind them, cut anywhere; `Meaning` and `Requests` are the reference, written
from the messages and not from the flow's state. The host gives up at the first error,
as `examples/peer` does; for an AutoNAT request it is `handle_autonat_request`, which
refuses a peer id other than that of the stream and probes each address.

In `HolePunch` a script is where it waits, until when, and the flow it holds. Each wait
is a `run_until` or the punch loop, and loses what it does not wait for. There are three
streams: the dialer's HOP stream, the one on which the listener reserves, and the STOP
stream that the relay opens to the listener; the first and the last become the bridge.
A STOP stream that is announced (`announced`) while the listener still waits for the
answer to its reservation is lost with the event, and `wait_inbound_stream` then waits
to the deadline; a relay that answers RESERVE before it opens the stream, on another
stream, does not exclude that order. The relay
(reserving, connecting, bridging, closing, half-closing), the network and the two
swarms are external: of a swarm the model keeps what the scripts see, in particular
that a newer connection closes the older one (`current`) and that a queued ping moves
to it, as `Swarm` and `QueuedPingIsRequeued` have it. The exchange with the AutoNAT
service yields any subset of the candidates, fails (`StreamFails`), or runs into its
deadline. What a script writes to a closed circuit goes nowhere, or its `send` fails and the
script with it (`SendFails`), according to whether the swarm knows yet. The backoff between two
attempts of `prepare_relay` (500 ms) is shorter than a tick and left out, and so is the
disconnect behind the last failed attempt, with which the script ends. Both scripts start together; a
script whose deadline has come runs before the next tick. `Prompt` tells a bridge that
delivers within a tick from one that delivers whenever it likes.

## Runs

Passing:

| Run | Question | Size |
|---|---|---|
| `ping` | does the protocol's view of its streams survive every order of events and migration; is any request dropped without a report; does each end | 2 peers, 2 streams, 2 payloads of 2 units, 352 thousand states |
| `negotiation` | agreement, nothing misread, nothing lost, it ends | dialers that wait and that pipeline, 2 protocols, all sets of supported ones, lines of 3 units, 2 units of data |
| `swarm` | under `poll`, which executes actions after a batch: are tables, protocols, transport and the application's view consistent when a connection is replaced; what becomes of a deferred ping | 1 peer, 2 connections, 1 stream each, 4 tokens, 3 queued outputs, 1.5 million states |
| `swarm_late` | late identity: does everything move from the placeholder; two streams on a connection | 1 connection, 2 streams, one input at a time, 373 thousand states |
| `quic` | with any certificates: is what the host was told true; is a FIN ever lost; do the indexes agree with the connections | 1 connection of either side, a stream of each side, 2 datagrams with stream input, 3 calls, 1 fault, 1.8 million states |
| `quic_contract` | with honest remotes, over two families: do the events keep the contract, are ids mapped right, what does an error of one family do to the other | 1 connection and 1 stream per family, 2 datagrams with stream input, 1 call, 1 fault, 4.1 million states |
| `flows` | are frames understood, requests written and the bridge's bytes kept, however they are cut and polled | each of 7 flows, frames of 3 units, a limit of 7, up to 5 units behind them |
| `holepunch` | do the two scripts end, understand each other, and report what is true | windows of 1 to 3 ticks, any delay, any subset of direct paths, a relay that may close, frames of 2 units, 1 million states |

Four runs end in a violation, each a disagreement between a document of the
repository and the code (`findings` in `PROJECT.json`):

* `synthetic_leaks`: "Synthetic PeerIds are only ever seen internally", but a stream
  that comes in on a connection superseded earlier in the same poll is announced
  under a synthetic id. QUIC's poll reports Connected from its packet loop and
  streams afterwards, so the order is one it produces.
* `quic_reset`: `Transport::reset_stream` promises that "Pending writes are dropped";
  the QUIC transport leaves them in the stream's queue, where a later drain offers them
  to a stream that is shut down.
* `quic_refused`: "No stream events may precede `Connected`", but `poll_streams` looks only
  at quiche's `is_established`, so a connection that was refused in the handshake, whose `Connected`
  is withheld, reports the streams that came with the last datagram of the handshake.
* `relay_ping`: the listener is documented to echo what it receives on the bridge after
  its hole-punch timeout. Both windows are equally long and the listener's starts later,
  so with a prompt bridge the dialer's payload falls into the listener's punch loop,
  which discards it, and both peers fail although the relay works.

Four more disagreements were met while modelling and are no runs: an error of the
flush in the middle of the handshake (`connection.rs:161`) leaves a connection that is
Connected inside the transport, whose certificate is never looked at and whose streams are
reported without `Connected` (`StreamsFollowConnected` finds it with `Impostors` FALSE and
`MaxFaults` 1); two connections to a peer in one poll make the core report that "the swarm driver violated the core/driver
contract" when the driver executes an open that the core itself has pruned
(`core.rs:514`); "Last connection wins" is true of `register_connection` and not of
`upgrade_connection_identity`; and a ping queued for a stream that cannot be opened
stays queued until a later stream sends it (`core.rs:568`).

These bound what the passing runs can claim. With late identities and two connections
the orphan breaks what relates the application to the core (`AppKnowsPeers`,
`AppKnowsStreams` and others), so `swarm_late` has one connection; that the maps agree
even then is proved. The placeholder of `synthetic_leaks` breaks none of the
properties of `swarm`. `ResultsAgree` says nothing of a listener that
reports an error, which `relay_ping` shows may happen to a dialer that did nothing
wrong, nor of a side that fails while the other succeeds; `BothEnd` says that the scripts end,
not that they succeed. `OneOutcome` states at least one outcome for every ping request. That
the listener's reset may overtake its "na" is part of `Negotiation` and not excluded.
Nobody is told of a stream that closes while it is negotiated (`core.rs:1059`), nor of a
stream that the remote has reset beyond an `Error` (`connection.rs:400`); no document
promises otherwise, and no property is about it.

### Bounds

Swarm: `MaxStreams` bounds the streams of all connections together, `MaxToken` the
opens of a behaviour, `MaxBatch` the outputs queued before the next input or call. Two
connections are the fewest that replace each other, and the code never relates three;
ids repeat between them. Two streams on one connection, of either role, are in `swarm_late`;
that the invariants of `swarm` hold for any number of streams is proved.
Where `PayloadLen` is 1 (the swarm runs) partial payloads are left to `ping`.

Ping: the age of a request has three classes, and payloads two (the right one and
another). Two streams are too few to exceed the limit of two inbound streams beside an
outbound one; that limit is proved for any number of streams instead
(`InboundWithinLimit` in `PingSafety`).

QUIC: `Impostors` is TRUE where the claim is about all certificates (`quic`,
`quic_refused`) and FALSE where it is about the contract. `MaxConns` is per family;
the code relates connections only through the indexes and the events lost together, which
`quic_contract` has; it has one stream per connection, as the contract relates no two
(any number is proved). `MaxInput` counts datagrams with
stream data, a FIN or a reset, `MaxCalls` the host's calls on streams, `MaxBytes` the
units of one queue (one byte and a FIN behind it is the case that matters), `MaxFaults`
the errors of sockets, `stream_send` and dials: one error, early return and recovery
from it. Connection ids are not reused.

Flows: frames of 3 units have a first, a middle and a last cut; `MaxSize` of 7 admits
two frames with a unit behind them, and `MaxData` of 5 exceeds it. HolePunch: frames of
2 units arrive whole or in part, which is all a decoder tells apart; a window
of n ticks ends before, with or after another one; `RelayReadyAttempts` is 2, so that
an attempt can fail and be repeated. The windows are the code's constants scaled to a
few ticks, the overall deadline longest and the fallback longer than punch and grace
together or equal to them; those before the circuit stands (relay, AutoNAT) are
shortened most, since they only shift the start of a script.

### Fairness

`Ping!FairSpec`: `Swarm::poll` feeds a Tick and drains every output each time it is
called, and must be called repeatedly; time passes. Nothing is assumed of the remote
or the transport. `Negotiation!Spec`: the transport delivers what was sent. That it
reports the remote's reset is not assumed. `Flows!Spec`: the stream delivers, the host
polls and at last decides. `HolePunch!Spec`: the clock goes on, and a script that is
due or has been told of a connection runs; of the relay and the network nothing is
assumed. `Swarm` and `Quic` state safety only: quiche's timers are never driven by the
code (it calls no `on_timeout`), so that a silent remote's connection is ever reported
Closed cannot be claimed.

Every property of a passing run has a mutant: a definition marked "Slip" that repeats
one of the model with a plausible mistake, under which TLC finds the property
violated.

## Proofs

TLAPS checks the following for every value of the constants that the named
assumptions allow, in eight modules. An invariant of `PROJECT.json` that a theorem
states is also checked by a run; the run tells what happens in a small instance, the
theorem that size does not matter.

### Ping

**PingSafety**: `Spec => []` of the type invariant, `InFlightHasStream`,
`StreamsAreOpen`, `BuffersAreKnown` and `InboundWithinLimit`, for all finite sets of
peers, any streams and payloads, any payload length above 0 and any timeout. The
inductive invariant `IInv` is the type invariant with `PeerOK` for each peer, which
relates a peer's state to its streams on the wire; the invariants are its parts, and
none of the first three is inductive alone (a closed stream must take its buffer, its
role and its request with it). Each handler has a lemma that it takes `PeerOK` to
`PeerOK` under the wire's change; ticks and migration have their own. **PingTypes** and
**PingBuffers** name two of the parts. **PingOneOutcome** proves the action property
`OneOutcome`: whenever a request ends, an outcome is queued, unless the host took its
stream or peer away. It goes handler by handler through what a step appends to
the events, from `IInv`.

### Negotiation

**NegotiationInvariant**, in `NegotiationProofs`, for all sets of protocols, any length
of a line above 0 and any amount of data. The properties say nothing of a handshake
under way, so the inductive invariant says what is still to be read: of the listener
(`Listening`), buffer and wire together are the dialer's header unless it has been read,
then its proposal if it has left, then the data behind it; of the dialer (`Dialing`) the
same with the listener's answer, but for an end `t` that the listener's reset has
overtaken; and once an end has negotiated (`Delivered`), what it has got and what is on
the wire are the data sent. `Order` relates the phases: the listener decides only after
the proposal has left, the dialer concludes only after the listener has decided.

The core of the proof is `receive`. `DecodeIs` shows that `decode_message` sees either
an incomplete line or the line itself in any cut of what an end has to read, so no round
of the loop misreads; `ReceiveKeeps` carries what every round keeps through all of them,
by `SetInduction`; `ListenerReceives` and `DialerReceives` are what a call comes to:
waiting for a line, or a verdict with exactly the data behind it left in the buffer, the
part that `take_remaining_buffer` hands over. **EndsAgree** (`Agreement`), **NoEndErrs**
(`NoProtocolError`), **PipelinedDataArrives** (`NoByteLost`) and **NegotiationTypes**
follow from the invariant.

### QUIC

The first part of `QuicProofs` is about one connection. `ConnOK` says how the queue of writes,
the flags and what quiche has sent and received of each stream agree: a FIN is the last
unit of a queue, no stream is forgotten with writes in its queue, and ids are those that
their side has handed out. Each operation is reduced to what it does to one stream
(`Drained`, `Requeued`, `ResetTo`, `ReadAll`) and then shown to keep `ConnOK`.

The next part relates what a connection tells to what the contract lets the host
hear. `Path(id, s, a, events, b)` says that the contract allows the events one after the
other and that they take stream `s` of connection `id` from phase `a` to phase `b`;
`Matches(b, c, s)` that having heard as much as `b` fits connection `c`. One lemma per
operation shows that its events lead from a phase that matches to one that matches
again, and that it pushes `Connected` only for a certificate that proves the peer (`Honest`).
`Tracks` splits such a path at what the host has been told and what is still on its way.
Of an excused connection it asks for no path, but for `Attested` like of all others: if
the host has been told `Connected`, or is going to be, the certificate proves the peer.

The last part is about both transports and `poll`. The inductive invariant `Inv` is the
type invariant, `TransportOK` for each family (indexes and `ConnOK` of each connection),
`PollOK` for the call in progress, and `Tracked`: for every connection and stream, what
the host was told, followed by the events that `poll` has collected or that calls have
queued, is tracked. It is the last part that makes the rest inductive across the steps of `poll`: an
event is legal not when it is made but when it is handed out, behind all those made before, and
`Connected` must stay true of the connection while it waits. From **QuicInvariant**, for
all certificates, follow **QuicTypes**, **QuicIndexes** (`IndexesAgree`), **QuicFin**
(`FinIsNotLost`) and **QuicToldIsTrue** (`ToldIsTrue`). The refinement
**QuicImplementsContract** assumes `~Impostors`: initial states map to initial states, and every
step is a step of `TransportContract` or leaves its variables alone (`Allowed`); a step that
fails a `poll` maps to `PollFails` with the connections whose events it drops, and to nothing
else that makes a gap. Without impostors no connection is ever refused, which is the only
place the assumption is used. Fairness is not part of either specification.

`SequenceLemmas` has what the proofs need of sequences: cuts and joins, `FlattenSeq` and
`SetToSeq`, by induction over naturals. The library's induction theorems take an operator, which the
installed provers cannot instantiate; `SetInduction` takes a set instead and is proved
from the well-foundedness of `<`.

### Swarm

`SwarmProofs`: **MapInvariant** proves `MapInv` inductive: the two maps have their
types, only live connections are mapped, `peer_to_conn` points at connections that
`conn_to_peer` maps back (`MapsAgree`), and, if the handshake authenticates, also the
other way round, with placeholders mapped to their own connection only (`Paired`).
The last two are needed for each other: superseding a connection keeps the maps in
agreement only if no third connection is mapped to the peer, and inventing a
placeholder is harmless only if it can be nobody else's. **MapsStayInAgreement** and
**LastConnectionWins** follow: `PeersKeepTheirConnection` in every mode, and
`NoOrphanedConnection` with handshake authentication (without it the orphan described
above is the counterexample). The lemmas come in layers: operators that leave the maps
alone, handlers that at most add a placeholder, the four that change them, and one lemma
per action.

**StreamInvariant**, in the same module, adds what the core keeps of streams. Its
`Sound(core, O, R, L)` compares the core with three sets of the transport: the streams
opened so far, those it still reports on, and the live connections.

* In every mode: the core has its type and its events name a peer or stream where they
  must; actions name streams of `O`; the three tables hold streams of `R` only and no
  stream twice (`Exclusive`); pending opens and mapped connections are in `L`.
* With handshake authentication also: `Owned` (what ping and Identify know is what
  `stream_owner` says of the peer's connection), `Bare` (nothing is kept of a peer
  without a connection) and `Single` (one outbound ping stream per connection, whether
  asked for, under negotiation or in use).

They need each other. `Single` survives `on_outbound_negotiated` only because the stream
leaves one table when it enters the other, and survives a new connection only because no
open or negotiation of it can exist yet, which is what `OpensIn` and `R` say. `Owned`
survives `supersede_connection` only because `Paired` gives the peer no third
connection, and `Bare` because `ForgetPeer` and the unmapping happen in one step.
Every operator of `SwarmCore` is first reduced to a relation between the core before and
after (`Outputs`, `Acts`, `Pinged`, `Identified`, `Unmapped`, `Forgotten`, `Join`),
`Sound` is shown to survive each relation, and there is one lemma per action. The
theorems: **SwarmTypes** and **StreamsHaveOneOwner** in every mode;
**ActionsNameTheirStreams**, **ProtocolsKnowTheirStreams**, **ClosedLeavesNothing**,
**PingStreamsAreOne** and the action property **QueuedPingsMove** with handshake
authentication. Without it, and with two connections to a peer, TLC refutes
`ActionsNameOpenedStreams`, `ProtocolStreamsAreOwned`, `NothingLeftBehind` and
`QueuedPingIsRequeued`: an orphaned connection leaves streams and protocol state that no
map leads to. For `OnePingStream` the question is open there; its proof uses `Paired`.

`SwarmViewProofs` is about what the delivered events have told the application.
`AppKnowsPeers`, `AppKnowsStreams` and `EventsInSession` speak of the moment when
everything is delivered or of the next event only, so the invariant says what the events
still waiting will do. `Story(v, es, w)`: hearing `es` one after the other, each within
the session of its peer, turns the view `v` into `w`. **ViewInvariant** proves
`Tuned(app, core)`: the core's queue is a story from the application's view to what the
core's own queries answer, together with what the core needs to go on telling it: a
mapped peer is announced and only a mapped peer is ready (`Announced`), and a user stream
is on a mapped connection (`HeldByPeer`). The last is what lets `ConnectionClosed` take
the application's streams of a peer away without a `UserStreamClosed` for each.
Every operator of `SwarmCore` either leaves the view alone (`Kept`) or changes it and
appends the events that tell the change, and stories compose at `Append` and `Tail`.
**PeersAreKnown**, **StreamsAreKnown** and **EventsStayInSession** follow, for any
number of connections that replace each other while events wait.

### Flows

`FlowsProofs`, for all peers, addresses, sets of unparsable ones, frame lengths, size
limits, amounts of data and cuts of the stream. The properties speak of what has been told
and written, never of a frame half read, so **FlowsInvariant** says for each of the seven
flows in which phases of its exchange it can be (`Unasked`, `Waiting`, `Answered` and
the like; the stop responder and the DCUtR flows have more), and for each phase what has
been told, written and decided, and that the flow's buffer followed by the wire is what
is left of the remote's stream.

The core is what a decode sees. `Sees` says that a buffer is a beginning of one frame and
what follows; `DecodeSees` that `decode` then either asks for more or returns this very
frame and leaves the units behind it, so no cut of a stream is taken for another frame;
`MessageTooLarge` is only possible where the stream itself is longer than the limit. For the two
flows that open a relayed connection, `Carries` says that `bridge_bytes`, buffer and wire
are the remote's data in order: before the outcome it is all behind frame units, at the
outcome the remainder of the buffer moves to `bridge_bytes`, and later data is appended
to what has not been polled. Each input of each flow has a lemma from phase to phase, and
`Arrives`, `Closes`, `Polls` and the decisions collect them for the actions. From the
invariant follow **FlowsTypes**, **MeaningIsTold** (`TellsTheMeaning`),
**RequestsAreWritten** (`WritesTheRequests`), **BridgeIsComplete**
(`BridgeKeepsEveryByte`) and **ErrorsAreExcused** (`FailsOnlyWhenWrong`).

### Hole punching

`HolePunchProofs`, for any frame length, payload, windows, number of attempts, whatever
the relay and the network do and whichever direct paths exist. The properties speak of
the scripts' places and results; none is inductive, because whether the next decode
fails, or which addresses it yields, depends on what is buffered and on its way, and that
on where the other script was when it wrote. **HolePunchInvariant** therefore proves
`Consistent` of both scripts, the circuit and the six queues (what the relay has not
acted on and what it has sent, on each stream). It has a part per exchange:

* `Reserving`, `Asking`, `Offering`: RESERVE, HOP CONNECT and STOP CONNECT, each with the
  one frame that can answer it and the states of the circuit in which it can be on its way;
* `Initiating`, `Responding`, `Following`: DCUtR. Of the dialer, either nothing of the
  listener's CONNECT is left, or exactly it, with the listener's addresses, and then the
  listener has the dialer's; of the listener before its reply, nothing or the dialer's CONNECT,
  and after it nothing, SYNC, or SYNC with the relayed ping, according to where the
  dialer is. A script that punches, or is past it, holds the other's addresses;
* `Meaning`: units of the relayed ping reach the dialer only from a listener that has echoed,
  and the end of the stream reaches the listener only behind a closed circuit or a
  dialer that has pinged directly; this is what the results report;
* `Typed`: types, and which places each script can be in.

`Awaits(wait, sc, w, x, gone)` is the idea they share: the flow of script `sc` is in the
phase of this wait, and its buffer followed by the wire `w` is `x`, followed by nothing
but the end of the stream, and by that only if the other end is `gone`. A case in which
the other end is gone stays true when more of it is lost, so the invariant need not say
when a script ended. The proof has three layers. Each decoder is shown to see, in any cut
of `x`, either too little or the very frame (`FrameComes` and one lemma per flow); each
change of a script, of a wire or of the circuit keeps `Consistent` (`HopData`,
`ReplyData`, `StopStreamData`, `DcutrData`, `RelayJoins`, `DialerPings`, ...); and one
lemma per action puts them together. From the invariant follow **HolePunchTypes**,
**AddressesAreTheOthers** (`CandidatesExchanged`), **FramesAreTaken** (`NoProtocolError`)
and **ReportsAreTrue** (`ResultsAgree`). The proof needs no fairness and nothing about
clocks: a deadline may end any wait at any time.

### Assumptions

Those named in the modules and evaluated by the runs: finite `Peers`, `Conns` and
`Streams`; `None` distinct from peers, connections, streams, payloads, protocols,
records of a ping, a connection or a stream (`NoneAssumption`, `AbsentAssumption`,
`QuicConnectionAssumption`), as an `Option` that is `None` is distinct from every
`Some`; placeholders distinct from peers; `PayloadLen` positive
(`PayloadLenAssumption`, `CorePayloadAssumption`); the flows' `None` distinct from peers,
statuses and decisions, and a peer of our own (`FlowsAbsentAssumption`,
`FlowsAssumption`); `HolePunch`'s `None` distinct from results, sides, sets of addresses
and what a flow returns (its own `AbsentAssumption`), the addresses that a peer of this
code offers parse, as it has parsed them itself, and a frame with the relayed ping behind
it fits in a message buffer (4096 bytes in the code, for a SYNC of a few bytes and a ping
of 32; `PeersAssumption`); attempts and payload at least 1 (`HolePunchAssumption`); `FrameLen`
positive, the header line,
"na" and the protocols distinct (`FrameLenAssumption`, `LinesAssumption`); families among the two that exist;
bounds in `Nat`.

### Only model-checked

* All liveness, and whatever needs `ENABLED`: `RequestsEnd`, `NegotiationEnds`, the ends of
  the flows and of hole punching. The prover does not do it here.
* Of `Swarm` with late identities: the application's view. `swarm_late` checks it for one
  connection; with two it is false, as said above.

## Not modelled

* Byte formats and cryptography (`identity`, `tls`, protobuf fields, `multiaddr`): their
  values are model values, and their verdicts (whom a certificate proves) and failures
  inputs.
* `crates/core/src/candidates.rs` and address classification: sequential functions of
  their argument, without state.
* Sockets and quiche are external; so are retransmission and idle timers.
* The loop of the AutoNAT service over its clients (one request is modelled, in `Flows`),
  the direct mode of `examples/peer`, and its set-up, printing and argument parsing. The
  facade and builder hold no state of their own.
* In the driver: two event queues (the model has one) and the stream id that
  `open_user_stream` captures.

## Plan

1. An abstract session specification (what the events of a peer promise) that `Swarm`
   implements; the AutoNAT service over a swarm with several peers.
