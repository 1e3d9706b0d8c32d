# A TLA+ model of Loggregator

Loggregator moves logs and metrics of Cloud Foundry from agents to consumers.
It prefers losing an envelope to slowing down whoever produced it, and it
promises to count what it loses. Most of its code is therefore about buffers
that never block, streams that come and go, and the goroutines around them;
that is what these modules model. Paths below are relative to the repository's
`src/` directory.

## The system

| Part | State it keeps | Operations | How it meets the others |
| --- | --- | --- | --- |
| Ingress servers (`router/internal/server/v1/ingestor_server.go`, `v2/ingress_server.go`) | none | `Pusher`, `Sender`, `BatchSender` | convert an envelope and `Set` it in both ingress buffers |
| Ingress buffers (`diodes/many_to_one*.go`, go-diodes `ManyToOne`, `Poller`) | ring, indices | `Set` by many handlers, `Next` by one reader | alert the dropped metric |
| MessageRouter, Repeater (`router/internal/sinks`, `v2/repeater.go`) | none | read the ingress buffer, publish | one goroutine each |
| v1 pub-sub (`v1/router.go`) | filters x shards -> buffers | `Register`, clean-up, `SendTo` | called by MessageRouter and the v1 handlers, RWMutex |
| v2 pub-sub (`v2/pubsub.go`, go-pubsub) | tree of paths x shards -> buffers | `Subscribe`, unsubscribe, `Publish` | called by Repeater and the v2 handlers, RWMutex |
| Subscription buffer (`diodes/one_to_one*.go`, go-diodes `OneToOne`, `Waiter`) | ring, indices, wake-up channel | `Set` by the publisher, `TryNext`/`Next` by the stream | alert the dropped metric |
| v1 and v2 egress servers (`v1/doppler_server.go`, `v2/egress_server.go`) | per stream: batch, error channel | `Subscribe`, `BatchSubscribe`, `BatchedReceiver` | read the buffer, send over gRPC |
| Connectors and pools (`rlp/internal/ingress`, `plumbing/grpc_connector.go`, `pool.go`) | clients, reference counts, consumers, connections | finder events, `Subscribe`, `consumeSubscription` | open a stream to every router for every consumer |
| RLP egress server (`rlp/internal/egress/server.go`) | number of streams; per stream: channel, batch | `Receiver`, `BatchedReceiver`; `RLP.Stop` | subscribe at the connector, send over gRPC |
| RLP gateway (`rlp-gateway`) | per request: timers, error channel | `GET /v2/read`; `Gateway.Stop` | asks UAA and CAPI, reads from the RLP, writes server-sent events |
| Traffic controller proxy (`trafficcontroller/internal/proxy`, `auth`) | number of streams; per request: slow-consumer timer, keep-alive | firehose and application streams over websockets | asks UAA and the cloud controller, reads from its connector |
| Metric emitter (`metricemitter`) | counters, gauges | `Increment`, `Set`, one pulse per metric | sends to the agent |
| Envelope averager (`plumbing/envelope_averager.go`) | one packed word | `Track`, sampler | no program constructs one |

What makes each part correct, and what is hard about it:

* **Buffers.** Order, no duplicates, an exact count of what was lost, no reader
  asleep while there is something to read. Hard: no locks; a writer may lap the
  reader between any two of its steps; writers race each other in `ManyToOne`.
* **Egress streams.** What leaves the buffer is sent, or its loss is due to a
  failed `Send`; a partial batch does not stay; the handler and its goroutines
  end and are unregistered. Hard: a handler that reports errors to itself,
  selects with several ready cases, cancellation at any point.
* **Pub-sub.** Every envelope reaches every subscriber that asked for it, one of
  each shard, and the same one on every router if routing is deterministic.
  Hard: long sequences of subscribing and leaving; selectors that overlap.
* **Connector.** One stream per consumer and router, none forgotten, reference
  counts that say when a connection may be closed. Hard: both `Subscribe` and
  the finder start goroutines; decisions are taken before a lock and used after.
* **RLP egress.** No more than the allowed streams, no leaked place, all buffered
  envelopes drained, and a shutdown that ends.
* **Gateway and proxy.** Nobody gets a stream that UAA and the cloud controller
  do not allow, whichever of their calls fails; the gateway's selectors select what
  the query asks for; a websocket's messages have no gaps; a stream ends with
  whatever should end it, and its goroutines end after it. Hard: a timer, a
  goroutine and a client in one select; `Stop` of a timer that may have fired; a
  goroutine that outlives its handler; a slow consumer that is also a gone one.
* **Metric emitter.** Every increment reaches the agent once, although sends fail
  after the delta was taken, and others increment meanwhile.

`PROJECT.json` lists all hazards with their lines and the properties that cover
them.

## Modules

| Module | Models | Granularity |
| --- | --- | --- |
| `LossyFifo` | what a subscription buffer promises: the abstract specification | |
| `OneToOneWaiter` | `OneToOne` in a `Waiter`, one writer and one reader | one action per atomic operation on ring or channel |
| `OneToOneWaiterProofs` | its theorems | |
| `ManyToOneDiode` | `ManyToOne` in a `Poller`, several writers | `Set`'s loop is `AddIndex`, `LoadSlot`, `CasSlot` |
| `ManyToOneDiodeProofs` | its theorems | |
| `EgressStreamV2` | one call of the v2 `BatchedReceiver`: publisher, reader goroutine, handler | one action per channel operation, select case or `Send` |
| `EgressStreamV1` | one call of v1 `Subscribe` or `BatchSubscribe` | same |
| `RouterV1` | the v1 pub-sub, and the MessageRouter that feeds it | one action per critical section |
| `PubSubV2`, `MCPubSubV2` | the v2 pub-sub at several routers, with all kinds of selectors; requests for model checking | one action per critical section: a selector is one |
| `EgressV1Proofs` | theorems about the router's v1 egress: `RouterV1` and `EgressStreamV1` | |
| `EgressV2Proofs` | theorems about its v2 egress: `PubSubV2` and `EgressStreamV2` | |
| `GRPCConnector`, `MCGRPCConnector` | connector with its pool, consumers, finder, one goroutine per consumer and client; finder events for model checking | one action per critical section or atomic operation |
| `GRPCConnectorProofs` | its theorems | |
| `RLPEgress` | the RLP's two handlers, their goroutines, admission, `RLP.Stop` | one action per atomic or channel operation |
| `RLPEgressProofs` | its theorems | |
| `MetricEmitter` | a counter and a gauge with their pulses | one action per atomic operation or `Send` |
| `DopplerProxy`, `MCDopplerProxy` | one request to the traffic controller: access control, handler, websocket, its three goroutines, metrics; requests for model checking | one action per channel operation, select case or write |
| `DopplerProxyProofs` | its theorems, and those of `MetricEmitter` | |
| `Gateway`, `MCGateway` | one request to the RLP gateway: access control, selectors, stream, its goroutine, `Stop`; requests for model checking | one action per call to UAA or CAPI, channel operation, select case or write |
| `GatewayProofs` | its theorems | |

`EgressStreamV1` and `EgressStreamV2` contain an instance of `LossyFifo` as their
buffer; `OneToOneWaiter` is shown (and proved) to implement it, so the streams
are checked against what the buffer really does and not against its ring.
`DopplerProxy` is composed with `MetricEmitter`, whose counter and gauge are the
proxy's own: the proxy is shown to use them as the emitter's specification allows,
so it inherits the emitter's theorems.

Data is abstracted to what the properties tell apart. An envelope is the number
of the `Set` that wrote it, a number of envelopes where order does not matter
(`RLPEgress`), or its routing attributes (`RouterV1`, `PubSubV2`). The v1 pub-sub
draws one of a shard's list at random, and the list without a shard is written to as a
whole, so in `RouterV1` these lists are sets; the order of the v2 pub-sub's lists
decides who is chosen, and they stay sequences. Names and IDs
in `PubSubV2` are their own hashes, that is, crc64 is taken to be injective. The names
of a selector there are a set: a path has the sum of their hashes, which does not depend
on their order, so two selectors that list the same names in different orders are one
path and one node, and for members of a shard that ask in different orders one
envelope means one invocation.
A query of the gateway is a set of sources, types and names. Tokens, and what UAA
and the cloud controller say of them, are constants; each of their answers may
also be an error. Time is left out: a batch interval may have lapsed, and a timer
may fire, whenever the code looks. Timers are those of Go 1.23 and later, which
`go.mod` requires: `Stop` and `Reset` discard a value that nobody received, so
`Stop` returns false only for a timer whose value was received, and the receive
that follows it in the code would wait for ever.

Definitions whose names end in `_Something` and whose comments begin with
"Mutant:" are not part of the specifications. Each is a plausible mistake in the
code; `PROJECT.json` says which property finds it.

## Runs

Every run is `tlc -config X.cfg M`.

| Run | Module, config | Shows |
| --- | --- | --- |
| one_to_one_waiter | `OneToOneWaiter` | exact drop counts, no lost wake-up, refinement of `LossyFifo` (order included), every `Set` settled |
| many_to_one_diode | `ManyToOneDiode` | accounting, order per writer, newer buckets protected after the first lap, no envelope lost without a trace but by a late `Set` of that lap |
| many_to_one_available | `ManyToOneDiode`, `ManyToOneAvailable.cfg` | **violated**: an envelope in the ring may never be read |
| egress_stream_v2 | `EgressStreamV2` | nothing lost or reordered behind the buffer, batches flushed, registration and reader goroutine end |
| egress_stream_v2_returns | `EgressStreamV2`, `EgressStreamV2Returns.cfg` | **violated**: two failed `Send`s block the handler for ever |
| egress_stream_v1 | `EgressStreamV1` | nothing lost behind the buffer; the handler returns, so its error report does not block it |
| grpc_connector | `MCGRPCConnector` | one stream per router, exact reference counts, no live consumer loses its slot, no router forgotten, streams come back, all connections closed in the end that were made in time |
| rlp_egress | `RLPEgress` | the counter is exact, the limit holds, accounting, drain, shutdown, no leaked goroutine |
| router_v1 | `RouterV1` | who gets an envelope; nothing of a stream that left stays in the maps |
| pubsub_v2 | `MCPubSubV2` | who is invoked and how often; nothing of a subscriber that left stays in the tree; deterministic routing agrees between routers |
| doppler_proxy | `MCDopplerProxy`, `DopplerProxy.cfg` | only the entitled get a stream, without gaps; it ends, its goroutines end, and the metrics catch up with it |
| gateway_read | `MCGateway`, `Gateway.cfg` | the stream is authorised, selects what was asked for, and ends with its goroutine |

The violated runs state what a comment or a test of the repository says; the
findings in `PROJECT.json` quote it and explain the behaviour TLC finds.

### Bounds

* `OneToOneWaiter`: a ring of 3 and 10 `Set`s, three laps, so a reader can be
  lapped, jump, meet a stale bucket and be lapped again.
* `ManyToOneDiode`: a ring of 2, two writers with 3 calls each. A collision of
  `CompareAndSwap`, a late writer of the previous lap, the first lap's
  wrap-around and laps after it all occur. `Modulus` stands for 2^64; it is
  larger than any index reached, so only the initial value and the subtraction
  wrap, as in any run of the program of realistic length (`WidthSuffices`, below).
* Egress streams: a buffer and a batch of 2 and 5 envelopes: drops, full and
  partial batches, a failed `Send` after each.
* `RouterV1`: three streams, one app, one shard ID and the empty ones, all
  filters: every way three streams can share or not share filter and shard.
* `PubSubV2`: two routers and two subscribers, each with up to three selectors
  that overlap, of every type, by none, one and two names, with or without a shard,
  or with one of two deterministic names. Two
  subscribers suffice for sharing, replacing and leaving a node in either order;
  the routers see them arrive in different orders.
* `GRPCConnector`: one router address with one connection (`PoolSize`; those of
  an address are independent), two consumers and one slot, with the static finder's
  two events. Goroutines of different addresses share only
  `c.mu`, under which each critical section concerns one client. With fewer slots
  than consumers the second `Subscribe` meets a full connector, a slot freed by a
  dead consumer, and the moment between.
* `RLPEgress`: two streams for one place, a buffer of 1, a batch of 2 and two
  envelopes each: a refused call, a full buffer with a drop, full and partial
  batches, and a drain with and without something to send. Streams share only the
  counter and the server's context.
* `DopplerProxy`: eight requests, each endpoint by clients that may and that may
  not have it, with the token in header or cookie, and one without access control;
  two messages, so that a message can follow one that was given up.
* `Gateway`: 45 requests, which are all sorts of access for one query and all
  combinations of types and names for an admin; three batches, so that a batch, a
  heartbeat and a second batch race the timers.

### Fairness

Weak fairness on what a goroutine does next: Go's scheduler runs every runnable
goroutine. Strong fairness on each case of a select of the v2 egress stream: a
select chooses among its ready cases at random, so one that is ready again and
again is taken; for the v1 stream only its flush on an empty buffer needs this.
Timers fire again and again, and an interval lapses. `RLPEgress` needs weak
fairness only, of each handler as a whole, of the goroutine that watches the
server's context, and of the consume goroutine's last two steps once its context
is done. `Send` returns: gRPC flow control makes it wait only for a client that
is connected and does not read (see below). In the connector a registered router
is not unreachable for ever (strong fairness of `SubscribeOk`), and a cancelled
context ends its streams. In the proxy, `WriteMessage` and the pings have deadlines, `recv` returns when its
context is done, and a select takes a case that stays ready; the agent does not
refuse metrics for ever (strong fairness of `SendCounter`). In the gateway a write
returns unless the client stalls, and each case of the select has strong fairness;
nothing makes its timers fire. Nobody is made to call `Set`, to subscribe, to
leave or to stop.

## Behaviours no run checks

Modelling showed more places where the code and what is written about it differ,
or that a reader should know of. They are described here and not stated as
properties.

* **The dropped count of the ingress buffer.** `diodes/many_to_one.go:12-13` says
  the alerter is called with "the number of byte slices that were dropped". A `Set` that loses a
  `CompareAndSwap`, or meets a newer bucket, takes a new index and leaves the old
  one unwritten; the reader counts that index as dropped when it is lapped, though
  no envelope was. `Accounting` of `ManyToOneDiode` therefore speaks of indices.
* **A router that is advertised again.** `rlp/internal/ingress/grpc_connector.go:220`:
  a goroutine reads that its client is to be disconnected, unlocks, and returns.
  If the finder advertises the address again in between, the client is known, so
  no new goroutine is started, and the consumer is left without a stream to a
  router that the connector keeps. Only a finder that can take an address back
  does this (the test at `plumbing/grpc_connector_test.go:203` uses one); the
  static finder of both programs does not, and `NoDopplerForgotten` is checked with that one.
  With such a finder there is a second behaviour, which the proof of `ClientsRegistered` led to:
  the finder withdraws an address before a goroutine of its client was counted, so the client
  is removed at once, and advertises the address again, which makes a new client; the goroutine
  of the old client then counts, sees that it is to leave, and its deferred function
  (`grpc_connector.go:203-207`) closes the address, and with it the new client's connections.
* **`RLP.Stop` has no timeout.** The comment at `rlp/app/rlp.go:137-139` speaks
  of one. `GracefulStop` waits for each handler, and a handler inside a `Send` to
  a client that is connected and does not read waits with it. `StopReturns` holds
  under the assumption that `Send` returns.
* **One of each shard, per path.** The comment at
  `router/internal/server/v2/pubsub.go:50-52` says that `Publish` gives an envelope
  to only one subscriber of a shard ID. go-pubsub chooses one of each shard at each
  node of the tree, so an envelope that matches several paths
  may reach several members, or one member twice. The test at `pubsub_test.go:471`
  expects this; `RoutedToSubscribers` states it.
* **Connections made too late.** A pool dials in the background. If an address is
  closed meanwhile, the RLP's pool stores the connection in a list that is no longer
  in its map (`rlp/internal/ingress/pool.go:122`), and the traffic controller's puts
  it back into its map (`plumbing/pool.go:73`); nobody closes it. The model marks it
  `"late"`, and `Drained` speaks of the others.
* **Writes without a deadline.** The gateway's stream timeout and an error of the RLP
  do not end a stream whose handler is in a write to a client that is connected and
  does not read (`rlp-gateway/internal/web/read.go:116`); `StreamEnds` excludes it.
  The proxy's close message has no deadline either
  (`trafficcontroller/internal/proxy/websocket_handler.go:44`), and the subscription
  is cancelled only after it; `StreamEnds` of `DopplerProxy` assumes that it returns.
* **Slow consumers that left.** The proxy's goroutine that offers a message to a
  handler that has returned waits for the slow-consumer timer, since the context does
  not end it (`websocket_server.go:77-82`), and counts a slow consumer although the
  client has gone.
* **Empty names in a query.** `json_error.go:13-14` says that `counter.name` and
  `gauge.name` are "invalid without value", and the tests from
  `selector_builder_test.go:121` on expect it of a key without any value. A parsed URL never has one:
  `counter.name=` gives one empty name, which selects all counters, and `gauge.name=`
  selects gauges whose name is empty. The model's names are not empty.
* **Repeated names of a gauge.** A selector that names a metric of a gauge twice has
  a path no envelope has, and selects nothing.
* **The metrics of ingress.** `dropped` counts the losses of both ingress buffers,
  `ingress` only what is put into the v1 buffer (`router/app/router.go:114-124`,
  `v2/ingress_server.go:62-63`), so they are not counts of the same envelopes.

## Proofs

TLAPS proves the following for all values of the constants that satisfy the
modules' `ASSUME`s: positive sizes, finitely many streams or consumers, requests made of
the given tokens, sources and names, hashes that do not collide, and a `Nil` that is
nothing else. Five theorems have a hypothesis of their own, named in their statement
(`WidthSuffices` or `NeverAdvertisedAgain`).

* `OneToOneWaiterProofs`: `IndInv` is inductive; from it follow `Accounting`,
  `NoLostWakeup` and the refinement `Spec => Fifo!Spec`, which the run checks too,
  and `TypeOK`, `Ordered` and `NewestKept`, which no run states. What the
  properties need beyond themselves is what the ring holds: a bucket in a slot is the newest one written to it (`SlotsHoldNewest`), so
  it is at most N behind the writer, and a slot is empty only if no unread index
  maps to it (`EmptyMeansRead`). From both, a reader that finds nothing, or a
  stale bucket, has read everything; this is `NoLostWakeup` at the step into the
  select. That two indices less than N apart never share a slot is a lemma about
  `%`.
* `ManyToOneDiodeProofs`: nothing like `SlotsHoldNewest` holds with several writers, as a
  late one may store an old bucket. `ReplacesOlderOnly` rests on `CasInv`: what a writer
  loaded still passes the collision test when it comes to the `CompareAndSwap`, and if the
  swap succeeds the slot holds just that.
  `Accounting` and `PerWriterOrder` follow from `OrderInv`. A reader that
  finds a bucket moves to the index after it, so it must be known that the index is one
  that was drawn (`DrawnInv`), or `readIndex` could overtake the writers and start again.
  A call may draw several indices, so index and call are tied together: whatever bucket of
  a writer is in the ring or was delivered, it has an earlier index and an earlier call than the
  ones the writer has in hand (`WriterInv`), and its order by index is its order by call
  (`CallInv`). Indices are delivered in increasing order (`ReaderInv`).
  `NoSilentLoss` says that an envelope whose `Set` has returned was passed by the reader, and so delivered or
  counted as dropped, or that its slot holds it or a later bucket, with which the reader will pass it. The history
  `stored` leaves out what a late `Set` of the first lap has replaced: there the collision test cannot fire
  (its subtraction wraps around), and such an envelope is counted only if a later bucket reaches the reader. Otherwise a slot
  is overwritten only with a later index, which is `CasInv` once more, and the reader empties a slot only
  when it passes what is in it, or finds it older than `readIndex`; then nothing unread has its index there.
  The three need `WidthSuffices`: the writers never draw the last index. At 2^64 it holds for any run
  of the program; an index drawn after a wrap would indeed be taken for an old one. In the run's
  bounds it holds as well, so the run is an instance of the theorem.
* `EgressV1Proofs`, the pub-sub: `IndexInv` is inductive. `NothingLeftBehind` says that the maps
  hold only what is registered. `RoutedToSubscribers` also needs the converse, that what is registered is in
  the maps, for which a clean-up must not take a list or map with it that another
  stream is in. A setter is in one list, since its request has one filter and one shard; so
  an envelope that is looked up under several filters writes to it once.
* `EgressV2Proofs`, the pub-sub: `TreeInv` is inductive. The trees hold only
  entries of selectors that are subscribed (`HeldInv`), and all of these (`EnteredInv`):
  without the latter `DeleteSubscription` might not find its entry and take another's.
  Lists stay sorted by deterministic name, and a number of lemmas say what a sorting permutation and `RemoveAt` do
  to a list. `SameSubscriberEverywhere` then follows because two sorted lists
  of the same entries with different names are equal (`SameOrder`): at the least
  index where they differed, each list's entry would come later in the other. That there is a least index
  is well-foundedness, the only induction in these proofs.
  `RoutedToSubscribers` is about paths. A selector that matches an envelope has a path among those
  the envelope visits, and one that does not match has none (`PathsMatch`): paths of equal type
  and source differ only in the hash of the names, of which the assumption says that it tells sets of
  names apart. Different selectors have different paths (`PathsDiffer`), so a
  node stands for one selector, and the one entry of a shard that `Publish` writes to at a
  node is the one that serves it. With `TreeInv`, which says which entries are at a node, this gives both who is invoked and
  how often (`PublishRoutes`). The invocations are a set of entries, at their places in the tree,
  so "once" is that two of them are equal, and nothing is counted. The sums that are hashes stay
  closed: of them only the assumption is used, that `hashNames` is injective and
  `hashEnvelope` a natural number.
* The egress streams, in the same two modules: `StreamInv` is inductive. `Conservation` needs that
  the reader goroutine of the v2 stream has nothing in hand when it takes the next envelope
  (`HandInv`); that a batch never outgrows its size needs that a full one is being sent
  (`BatchInv`). `ImplementsDiode` says that a stream uses its buffer as `LossyFifo`
  allows, so what the buffer promises (`QueueInv`) holds in the stream; with `Conservation` this
  gives `EndToEnd`, from `Set` to `Send`: order, no repetition, and every envelope up to the last one taken
  is passed to `Send`, on its way, or counted as dropped. Since `OneToOneWaiter`
  implements `LossyFifo`, this is about the ring too. `StopNeverBlocks`: the v2 handler stops
  its timer only while the timer's value was not received, or it would wait for it
  for ever (`TimerInv`). `ReportNeverBlocks`: the v1 handler reports an error only to a channel
  with room (`ErrorInv`), because its loop looks at the channel before it reads the next envelope;
  the v2 handler may block there, which the run `egress_stream_v2_returns` shows.
* `GRPCConnectorProofs`, for any finder: `OneStreamPerDoppler` needs that a goroutine past
  `tryAddDoppler` has its address in the consumer's map (`StreamInv`), so that the next one is turned away.
  `RefCountExact` needs that no goroutine is started twice (`SpawnInv`), since it would be
  counted once; counting needs finitely many consumers. From it follows `ClosedUnused`, which no run
  states: a client is removed, and its connections closed, only when nobody uses it.
  `LiveKeepsSlot` needs that the value a
  consumer is about to compare and swap was free when loaded, and that dead consumers stay dead
  (`CasInv`).
  `NoDopplerForgotten` has the hypothesis `NeverAdvertisedAgain`, and is false without it (above, "A router that is
  advertised again"). The static finder of both programs withdraws its addresses once and satisfies it, as
  TLC evaluates (`StaticFinderAssumption`). A goroutine may leave for two reasons: another
  one has the address, and then that one runs (`MapInv`); or its consumer is dead or
  its client to be disconnected, and this is still so after the unlock (`ExitInv`,
  `DeadInv`, `WithdrawnInv`). An address has one client at most (`CreatedInv`), so a
  goroutine of an old client does not stand in for that of a new one.
  `ConnectionsOwned`, for any finder, is the safety behind the run's `Drained`: what is open belongs to a
  registration, that to a client, and a client that is to be disconnected to a goroutine that will
  close it. It needs that the count of a marked client is not zero (`UsedInv`), since the code removes
  a client in the same critical section in which the count becomes, or is found to be, zero; and that
  no client is marked before it exists (`MarkInv`). `ClientsRegistered`, that each client has its registration in the pool,
  has the hypothesis `NeverAdvertisedAgain` as well.
* `RLPEgressProofs`: `IndInv` is inductive; from it follow `TypeOK`,
  `SubscriptionsExact`, `AdmittedBound`, `Conservation` and `DrainedOnReturn`.
  `AdmittedBound` is not inductive, because a handler is admitted a step after the
  counter was added to. The invariant bounds the larger set `Passing` of handlers
  whose `subCount` is within the limit, which grows only with the counter: when it
  does, the counter's value is the number of handlers, so there were fewer than
  `MaxStreams`. `StreamInv` relates a handler's position to its goroutine's and to
  the counts, for the drain.
* `DopplerProxyProofs`: the emitter's `EmitterInv` is inductive, and `CounterConservation`
  part of it. It needs that no delta is out of the counter between two pulses, or the next
  swap would lose it. The proxy implements `EmitterSpec` (each step of its own
  increments a counter, sets the gauge to a natural number or leaves both), for
  which it is needed that the number of streams is never negative (`CountInv`);
  `CounterConservation` of the proxy follows from the emitter's theorem. `OpenedOnlyIfAllowed`
  needs that a handler past `Authorize` has passed it (`AccessInv`); `WithoutGaps`,
  that what was written is all that was received, but for what the goroutine offers
  or the handler has in hand (`GapInv`).
* `GatewayProofs`: `StreamAuthorized` needs that every source already taken off
  `unchecked` was allowed (`AccessInv`), `SelectsAsAsked` that the selectors are those
  of the query (`SelectorInv`), and the lemma `BuildSelectorExact`: what
  `BuildSelector` returns selects an envelope just if the query asks for it.
  `NeverStuck`, which no run states, says that the handler stops the heartbeat timer only while its value
  was not received, and that the goroutine's error finds room in its channel; the run's liveness would
  fail without it.

Every invariant and every safety property of an action that a run checks is a theorem here. Checked by TLC only: all liveness,
which is beyond the prover (with it, that the v2 stream's handler returns and the gateway's and the proxy's
streams end). What the sums that stand for hashes are for every set of names would need induction over
sets; their properties are assumptions, which TLC evaluates for the run's names.

## Not modelled

* gRPC, TLS, HTTP, configuration and start-up, logging, the content of envelopes
  and the conversion between v1 and v2 (`convergeTags` included).
* `RLP.Stop` closes the connector's pool entries after it stopped the finder; the
  connector's model has the finder's last event but not these closes, which only
  matter to a process that is ending.
* The ingress servers and the Repeater: they keep no state, and call `Set` of the
  ingress buffers or `Publish`, which `ManyToOneDiode` and `PubSubV2` have as actions.
  The router's assembly is construction.
* The traffic controller's pool where it differs from the RLP's: see above.
* Collisions of the hashes in `PubSubV2`.
* `CAPIClient.AvailableSourceIDs`, which nothing in the gateway calls; CORS headers and
  the set-cookie endpoint; the access log.
* `Gauge.Increment` and `Decrement`, atomic additions behind the subscriptions gauges,
  and the one `Send` of `EmitEvent`.
* The envelope averager, which no program constructs; generated code, TLS, profiling
  and test servers.

## Plan

What is left, in this order:

1. The router as a pipeline: ingress servers, an abstract specification of the
   ingress buffer, MessageRouter and Repeater, with accounting of every envelope
   from `Recv` to the subscription buffers.
2. The traffic controller's pool in the connector's model.
