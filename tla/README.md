# TLA+ models of gqlxy-client

Models, model checks and machine-checked proofs of the GraphQL client in
`src/`: its WebSocket link, its HTTP link, its normalised cache, the client
on top of them, and the documents that the client transforms and prints. TLC checks
small instances; the theorems hold for every value of the constants and are checked
by TLAPS.

Line numbers below are those of `src/src/gqlxy/client/` unless another
directory is given; `PROJECT.json` has, under `map`, the lines of every
definition.

## 1. The system

```
 application threads                          the Asio thread (internal/asio_context.h)
 ------------------                           -----------------------------------------
 Client --- Execute ---> Link
   |  Read                |  HttpLink --co_spawn--> HttpStream: coroutines Send and Read
   |                      |  WsLink ---post-------> WsConnectionContext <--callbacks-- WsTransport
   v                      |  SplitLink (chooses one of two)                                |
 InMemoryCache <--Write (tap on the answers)-------------------------- on_next <-----------'
```

| component | state | operations | interacts with |
|---|---|---|---|
| `Client` (client.cpp) | options only; each call is an observable | Query, Mutation, Subscribe, Refetch; Execute picks the plan of a fetch policy | reads the cache at the call, writes it as answers pass (`tap`), subscribes to the link |
| `Observable`, `Subscription` (observable.h) | rpp disposable; the awaiter's value, exception and `resumed` | subscribe, Unsubscribe, co_await | resumes coroutines from link callbacks |
| `InMemoryCache` | `_entityStore`: documents' roots and entities, under one shared mutex | Read, Write, Evict, EvictEntity, Extract | called from application threads and from the Asio thread |
| `WsLink`, `WsConnectionContext` | connection state, `_subs`, `_transport`, `_everConnected`, `_attempt`, reconnect timer, `_stopping` | Subscribe, Unsubscribe, Stop; handlers for connected, message, disconnected, timer | posts itself to the Asio thread; owns one `WsTransport` at a time; calls the observers |
| `WsTransport`, `WsStream`, `WssStream` | write queue, `_writing`, `_readBuf`, `_disconnected`, the socket | Connect, Send, Close and the completion handlers | three callbacks to its owner |
| `HttpLink`, `HttpStream`, `HttpsStream` | a frame per exchange: parser, buffer, timer `done`, observer | Send (connect, write, wait, shut down), Read (header, body or events) | two coroutines of one strand that share the frame of Send |
| response.cpp | none; `payload` carries the incomplete event | ParseSseEvents, ParseJsonPayload | called by Read per chunk |
| AddTypename, Print (transforms/add_typename.cpp, print.cpp) | none | document to document, document to text | `Client::BuildRequest` transforms and prints; the text goes to the link and is the cache's key |
| SplitLink, url, ssl_context | none | pure functions | |
| samples/ | a GraphQL console and a short program | example applications | use the public interface only |

### What is hard

* **Handlers in an order nobody wrote a test for.** Every handler of a link runs on one
  Asio thread, but what it finds depends on those queued before it: a connection's
  death is reported by its write *and* its read, an expired timer's handler can no
  longer be cancelled, an Unsubscribe may come before the ack or between two
  connections.
* **Destruction.** `~WsLink` runs on a thread of the application or inside a callback
  of the link, at any point of connecting, reconnecting or dispatching.
* **Reconnecting.** Every subscription must survive it, be sent once per connection
  after the ack, and go to the server's knowledge when cancelled.
* **Failure at every suspension** of the HTTP coroutines, with a lost wake-up between
  them one line away, and a frame that must outlive its reader.
* **Chunks** that end anywhere in an event stream.
* **Aliasing in the cache**: one entity written through several queries, with
  arguments, aliases, fragments, partial selections and evictions.
* **The time between a call and its subscription**, and between overlapping calls.
* **A document as text**: the server executes, and the cache files under, what `Print`
  made of a transformed document with every clause optional.

The full list, each with the line where it bites and the properties that would
catch it, is `hazards` in `PROJECT.json`.

## 2. The modules

| module | models | composed with |
|---|---|---|
| `WsLinkContract` | abstract: what a link promises its subscribers | |
| `WsConnection` | WsLink and WsConnectionContext on the Asio thread's FIFO, with network, timer, server and application | implements `WsLinkContract` (`KeepsContract`); uses transports as `WsTransportContract` promises; its `SendsAreTimely` is what `WsTransport` assumes of its owner |
| `WsTransportContract` | abstract: what a transport promises | |
| `WsTransport` | one transport with its stream | implements the contract (`KeepsContract`) |
| `SseParser` | ParseSseEvents, a pure function of a token text | EXTENDS `RunningFolds`, loops as functions of how far they are |
| `HttpExchange` | Send and Read of one request | EXTENDS `SseParser` |
| `JsonValues` | JSON values as functions on paths, with `merge_patch` | |
| `InMemoryCache` | Write, Read, Evict, EvictEntity and the two recursions | EXTENDS `Documents`, `JsonValues`, `RunningFolds` |
| `CacheCoherence` | one cache fed with one server's answers, while the server's data change and the application evicts | EXTENDS `InMemoryCache` |
| `GraphQLServer` | reference: how a server answers a request from its graph | EXTENDS `InMemoryCache`; the instances take their answers from it |
| `Documents` | AddTypename and Print as functions on documents | |
| `GraphQLGrammar` | reference: a reader of GraphQL documents, token by token, for what a server and `ParseDocument` make of a text | EXTENDS `Documents`, `RunningFolds` |
| `RequestText` | any document an application can write and the request that `BuildRequest` makes of it; how a server collects the fields of an object is the reference | EXTENDS `Documents` |
| `RequestReading` | the request's text as its readers parse it | EXTENDS `RequestText` and `GraphQLGrammar` |
| `Client` | calls with every policy over a cache and a link | of the cache it keeps what `CacheCoherence!Coherent` shows: a hit reads the newest version written |
| `MC...` | instances for TLC | |
| `...Proofs` | theorems | EXTENDS the module they are about |

### WsConnection

`ready` is Asio's queue: a FIFO of handlers. Application threads (`Subscribe`,
`Unsubscribe`, `BeginStop`, `PostStop`, `Release`), the network (`Resolves`,
`Upgrades`, `Reads`, `Drops`, ...) and the timer (`TimerExpires`) only append to it. Each action of `AsioThread` takes the head and
does all that the handler does, including the callbacks that it makes into
observers and transports: `OnSubscribe` is `OnSubscribe` with `Connect`, `OnAck` with
`ReplaySubs`, `OnFailed` with `OnTransportDisconnected` and `ScheduleReconnect` or
`FailAll`, `RunStop` is `StopOnContext`. Where the application may destroy the link is a
constant (`DestroyedIn`): on a thread of its own, in `on_next`, or in a terminal
callback, where the code changes a container that it is iterating; that last is the
flag `dangling`, and nothing is claimed of what follows it.

A transport is represented by its connect and read chain, its socket, its `_disconnected` flag
and what it has sent. The chain has a stage of its own for the WebSocket upgrade, which no time limit
covers. What the server sends (`ServerSends`) is `held`, unread, until the transport's one pending read
completes with it (`Reads`). That may be after the connection broke or was closed, and
behind the handler of a failed write that has reported the loss: `OnRead` delivers to
whatever state the context is in by then (ws_transport.cpp:73). Closing the socket also aborts a
pending read, and then what was held is lost (`OperationAborts`). A subscription's id is the member of `Subs` itself, as ids are
fresh UUIDs. Payloads, and the back-off's durations, are left out; its counter
`attempt` is kept.

`LateTimer` says whether other handlers can be queued between a timer's expiry and
its handler. Asio allows that, and `ScheduleReconnect`'s handler then connects
whatever the state is by then; the properties that only hold without it are in the
runs with `LateTimer = FALSE`. Without it, the handler also runs only after each broken connection has
been read to its end (`Drained`): the delay is a second at least, and what is left to be read of
a broken connection is in the buffers of this machine. With `LateTimer` a message can be sent on a transport that
is not connected yet.

`WsLinkContract` is what subscribers see of a link, without connections, queues or retries:
a life cycle per subscriber, whether a server ever accepted the link, whether it is being
destroyed, and which subscriptions the server announced the end of (`lastWords`). An error is
allowed only while no server accepted the link (the code retries for ever after that, which is not what
the documentation says: see WsRetryBudget below), a completion only after the last word on
this subscription or when the link is closing. `WsConnection` implements it with the mapping
`phase <- observer`, `accepted <- everConnected`, `closing <- Stopping` and `lastWords` as the
`complete` and `error` messages that are held or queued.

### WsTransport

`phase` is the connect chain (resolving, connecting, securing for TLS, upgrading,
open); `read` and `write` are Beast operations that are pending or have ended and wait
for their handlers, so that `Close()` and other handlers come in between. `flight` is the
message whose buffer the outstanding write was given, `writeQueue` the queue it must
remain the front of. `wire`, `accepted`, `delivered` and `told` are the view the contract
speaks of; its lifetime (connecting, open, closed, lost) is `Status`, a function of `phase`, the
socket and `_disconnected`.

### HttpExchange and SseParser

An action is what one coroutine does between two suspensions; each asynchronous
operation succeeds or fails. `done` is the timer that Send waits on, with the
difference that matters: cancelling it before anybody waits wakes nobody. Send starts the reader
and comes to wait on `done` in one step, because the reader's first read has an empty buffer and Asio
never calls a handler within the function that starts its operation: no reader ends inside `subscribe()`
(http_stream_base.h:74).
`OnSseChunk` reads any number of tokens that have arrived, so each stream is cut in
every way. The parser is `ParseSseEvents` with `chunk_by_blank`, the last empty line and
the rest it hands back. Its three loops are recursive functions (`Running`), so that they can be
proved about. Tokens are an `event:` line's name (with and without the
optional space), a `data:` line, a newline and a carriage return; a JSON text is one
that parses or one that does not.

### InMemoryCache and CacheCoherence

`entities` and `roots` are the two kinds of keys of `_entityStore`. `NormalizeObject` and
`DenormalizeObject` are translated as they are, with `merge_patch`, composite keys,
arguments in store keys, type conditions and references. Each operation holds the mutex
throughout and is one step.

A JSON value is flat: the function from the paths in it (sequences of members and items) to
the node that is there. What nlohmann::json does to nested values, `merge_patch` included, can then
be said of paths and proved about. The code's two recursions are functions of how deep calls are
nested (`MaxCalls`), from the places in a value and the selection sets to what a call returns;
`inside` is what the calls below give, as in `Documents`. The code puts entities into the
store on its way; here a call returns them in that order (`stored`), and `Write` stores them all,
which is the same, as normalising never looks at the store.

`Answers` are what the server answers to each request for given values of its changing
`Facts`; `Covers`, on which facts an answer depends, is computed from them. `known` is what the last
response with each fact said. `GraphQLServer` resolves fields by their names, where the cache files
values by response keys: that is the reference.

### Client

A place in `Calls` holds one call: the plan `Execute` made (`just`, `concat`, `network` or
`link`), what it read from the cache *at the call*, and what it has shown. Observing it
is a later step. Answers are versions of one entity, 0 for a response without data; they
wait in the call's inbox and may arrive in another order than other calls' answers.
A root key has the query's text, as the application wrote it
or as transformed and printed: the requests have the second.

`awaiter` is the state of an awaiter (observable.h:51), with the list of what the coroutine got each time it
was resumed. `take(1)` lets one value pass (`TakesOne`): on_next stores it and resumes the coroutine, which
runs inside it (stage `resuming`) and may start other calls. Behind it comes `take(1)`'s
on_completed, or, if the coroutine lets an exception out of `h.resume()`, an on_error, which rpp makes of
what an on_next throws. A call that ends without a value ends the awaiter in the same two ways. Each
callback is an operator with the tests that it makes (`AwaiterNext`, `AwaiterError`, `AwaiterCompleted`), and
`AwaitResume` is what the resumed coroutine finds.

### Documents, GraphQLGrammar, RequestText and RequestReading

A document is a record of operations and fragments, a text a sequence of tokens; white space,
which is all that Print's layout adds, is left out. `TransformSelectionSet` adds `__typename`
where the set has a field and no plain `__typename`; the printing operators follow the
functions of print.cpp clause by clause. Fragments are in an unordered map, so `Print` gives
them in any order (`Orders`). The code recurses into selection sets; here each recursion is a
function for every depth (`TransformUpTo`, `PrintUpTo`), defined on the selection sets that are nested
no deeper (`SetsUpTo`) and given the one for the depth below as `inside`. `IsDocument` is what the
parser can return for a GraphQL document: operations of distinct names and of the three types, no
arguments or selections on `__typename`, no fragment called "on", and something in every inline
fragment. `RequestText` starts from sketches of documents and adds
selections anywhere in them; `BuildRequest` is the client's function of that name with the
default transform. `RequestReading` has the one property that needs `GraphQLGrammar`. That is a
reader with a state: what it has defined, the words before the next selection set, a frame for each
set that is open, the list in brackets that is open, and a mode that says what the next token is. It
shares nothing with `Print` but the constructors of `Documents`.

## 3. What is checked

Times are on two workers.

| run | properties | states, time | shows |
|---|---|---|---|
| ws_any_order | TransportMatchesState, NobodyStranded, NoLostSubscriber, NoZombieSubscription, StopSettlesAll, KeepsContract | 810 000, 115 s | whatever the order of handlers, timer and destruction, the state machine and `_subs` stay consistent, no subscriber is forgotten, and the link keeps its contract |
| ws_timely | SingleConnection, WireProtocol, AllSubscribed, NoOrphanOperation, EventsReachSubscribers, SendsAreTimely, StopClosesSockets | 504 000, 50 s | with timers handled in time: one connection, the protocol's order on it, no orphaned operation; events reach their observers until the connection reports its loss, and what a lost connection still hands over is not mistaken for a later one's |
| ws_liveness | EverySubscriptionRuns, CancelReachesServer, StopReturns | 66 000, 75 s | subscriptions come to run or end unless a server stays silent, cancellation reaches the server, `~WsLink` returns also while a server stays silent |
| transport | WriteOwnsBuffer, NothingSkipped, KeepsContract, MessagesSettle, CloseSettles | 1 130, 2 s | one write at a time from a stable buffer, nothing skipped, the contract is implemented; an accepted message is sent or the loss reported |
| http_exchange | FrameOutlivesReader, SenderWakes, ChunksDoNotMatter, EndIsGenuine, OneAnswer, ExchangeEnds, ObserverSettles | 9 402, 5 s | event streams cut in every way give the same events; who is completed was shown a whole reply, or there was none; one answer per query; no lost wake-up; both coroutines end and the observer is told |
| cache_coherence | RefsResolve, Coherent, NothingStale, RoundTrip | 12 674, 85 s | a hit is what the server would answer from the newest data seen |
| client_policies | PoliciesHonoured, NeverGoesBack, SerialCallsAgree, AwaitHasOneOutcome | 1 441 000, 120 s | the limits of the table of fetch policies, with overlapping calls and evictions (that CacheAndNetwork does fetch is ClientAwait's matter); a coroutine is resumed once |
| request_text | TextReadsBack, RequestAsksTheSame, TransformOnce, ObjectsIdentifiable | 47 950, 120 s | a text parses back into the transformed document, asks for what the application wrote and for the type of every object, and is not changed by another transform |

Four runs check what the documentation says and find it violated; `findings` in
`PROJECT.json` quotes the lines and tells the counterexamples.

| run | property | the counterexample |
|---|---|---|
| ws_late_timer | SingleConnection | a late timer handler opens a second connection |
| ws_stop_resolving | NothingOpensAfterStop | a connection is opened after `~WsLink` has returned |
| http_unsubscribe | UnsubscribeEndsStream | an unsubscribed event stream is read on |
| cache_evict_entity | EvictedMeansMiss | a query that refers to an evicted entity stays a hit |

Nine more configurations show lesser points, for whoever works on those lines; TLC
finds each one's only property violated.

| configuration, module | property | the counterexample |
|---|---|---|
| WsDestroyInCallback, MCWsConnection | NoDanglingIterator | the link is destroyed inside `on_completed` or `on_error`: `StopOnContext` clears `_subs` under the loop of `FailAll`, or before the `erase` of `CompleteSub` (ws_connection_context.cpp:162) |
| WsRetryBudget, MCWsConnection | RetriesAreBounded | docs/core/subscriptions.md:133 says that a disconnect reaches `on_error` and terminates the observable, :135 that this is so once "the retry budget is exhausted". There is no budget: after the first ack `OnTransportDisconnected` always reconnects (ws_connection_context.cpp:116), `_attempt` stops counting at 5 and only sets the delay, and no observer is ever failed again. `KeepsContract` states what the code does |
| ClientAwait, MCClient | CacheAndNetworkFetches | `co_await` takes one value (observable.h:66), so an awaited CacheAndNetwork call that hits never fetches; docs/caching/cache.md:32 promises the fetch |
| RequestConditional, MCRequestText | ObjectsIdentifiable | a `__typename` that the application put under `@include` counts as present (transforms/add_typename.cpp:26), and an object comes without its type; docs/api-reference.md:229 |
| HttpNoReply, MCHttpExchange | CompletionNeedsReply | the server closes the connection without a reply: end_of_stream is caught (http_stream_base.h:105) and the observer completes without a value; docs/core/subscriptions.md:133 has transport errors delivered through `on_error` |
| CacheAlias, MCCacheCoherence | Coherent | a scalar under an alias is stored under the alias (in_memory_cache.cpp:66) and misses the updates of the field; docs/caching/cache.md:7 |
| CacheMixedIdentity, MCCacheCoherence | RoundTrip | an object selected without its id is merged into the reference that another query left (in_memory_cache.cpp:92) and is not read back |
| CacheNull, MCCacheCoherence | RoundTrip | `merge_patch` takes a null for a deletion (in_memory_cache.cpp:92), so a field of a known entity that becomes null is missing from the next read; tests/unit/cache.tests.cpp:290 expects the null, of an empty cache |
| ClientEvict, MCClient | EvictedQueryMisses | the cache's keys hold the transformed and printed text (client.cpp:32), `Evict` builds its key from the text it is given; docs/caching/cache.md:80 evicts a query by its own text |

### The bounds, and why they are enough

* `Subs`: two subscriptions, interchangeable: one to be affected and another that keeps
  the link busy; loops over `_subs` treat each alone. `MaxConns` = 3 transports: a lost
  one, its successor, and one opened beside it. `MaxReady` = 3 bounds only what others
  post while the thread is busy; handlers may still post more. All races described
  above need at most three queued handlers. `MaxHeld` = 1 or 2 messages at a time that a server
  sent and nobody has read: with two, an event and an ack, or an event of a lost connection and one of its
  successor, are under way together.
* `MaxSends` = 4: one in flight, one queued, one after the queue was empty and one beyond;
  `MaxArrivals` = 3. TLS is on, which adds the `securing` stage to the same chain.
* Both request types over both kinds of stream. Seven event streams of up to about a dozen tokens: both line ends, complete and
  incomplete events, an unknown event, one without data, text after `complete`, invalid
  JSON, no text; framed and not. Four bodies for queries: empty, one unit, three, and not JSON.
* Two users who refer to each other and two products that share the first key field; five
  requests with arguments, lists, fragments with and without matching type, an alias of an
  object and a mutation; one changing field with two values, one eviction of an entity.
  `Sound` leaves out what `CacheAlias`, `CacheMixedIdentity` and `CacheNull` show on
  their own: aliased scalars, partial selections, nulls. `MaxCalls` = 10 calls and `MaxDepth` = 3
  are more than these documents need (a level of a list and one of an object or fragment for each
  nested set).
* Documents: five sketches (a spread, variables and arguments, two operations, a subscription, none) with one
  or two fragments, extended up to seven selections by fields, aliases, directives, inline
  fragments with and without a type, and plain or aliased `__typename`; two types of objects, so
  that a type condition holds for one and not for the other; directives' conditions hold
  or not. `MaxDepth` = 5 loses no document: with `MaxDepth` = 7 the states are the same. `Names` is the
set of all strings. `ConditionalTypename` is off but in RequestConditional, which is about that. Nesting
and neighbours interact only between one selection and the next.
* Two calls at a time, each place used again without limit, one document, versions up to 2,
  two events per subscription.

Deadlock checking is off in all runs: each system may come to rest (a link destroyed, an
exchange ended, the bound on versions reached).

### Fairness

* `io_context::run` goes on running handlers and coroutines: weak fairness of the Asio
  thread. The FIFO then makes each queued handler run.
* The resolver answers, one way or another (it is the system's; the code sets no limit on it).
  `Stream::Connect` then sets 30 s (`expires_after`, ws_stream_base.h:17), which cover TCP and, over
  TLS, its handshake: both end. A read completes when there is something to read, and an operation
  on a closed socket is aborted.
* `expires_never` precedes the WebSocket upgrade (ws_stream_base.h:46), and nothing bounds the
  wait for connection_ack either: no fairness is stated for the upgrade or for anything a server does. A
  silent server keeps the link Connecting for ever. `EverySubscriptionRuns` therefore has as its premise
  that none is silent for ever in one of these two waits (`[]<>~AwaitsServer(t)`: it answers, or the
  connection ends). `CancelReachesServer` and `StopReturns` do without. Armed timers expire. A
  destructor's thread goes on.
* HTTP: there is no time limit at all, so what waits for a reply has the premise that the
  server ends it in the end (`[]<>~AwaitsServer`); each other operation ends. The application
  is never assumed to do anything.

## 4. What is proved

TLAPS checks the proof modules; assumptions are only the `ASSUME`s of the
modules (bounds are naturals, flags are Booleans, `Subs` is finite and `NoId` not in it,
replies are records of their kinds, a client has at least one document; names in documents
include `__typename` and the absent one, and an application starts from documents; a request's
variables are names, key policies are sequences of names, and an answer is a JSON object without
a member `__ref`).

**WsConnectionProofs.** `IInv` is `TypeOK /\ TransportMatchesState`. `TransportMatchesState` is
needed for type correctness itself: `Send` on `transport = 0` would leave the domain of
`sent`. Lemmas about handlers' common parts (posting, sending, replaying) come first, then
one lemma per group of actions. From it: `TypeCorrect`, `TransportAlwaysMatchesState`,
`StoppedLinkStaysDown`. `SInv` adds `NobodyStranded`, `BackoffRestarts`, `NoLostSubscriber` and
two facts that make them inductive: a link with a bad URL stays inert (`BadUrlInert`,
otherwise its context could be Reconnecting without a timer), and a queued Unsubscribe
belongs to an observer that is done (`UnsubscribeMeansDone`, otherwise `OnUnsubscribe` could drop a
listener). `HandlerKeeps` states once what a handler must do to its own members so that the
queue argument goes through. From it: `NobodyIsStranded`, `NoSubscriberIsLost`,
`BackoffAlwaysRestarts`.

`Settled` says what `StopOnContext` has left behind, and `StopSettlesEverybody` follows with `SInv`.
For `NoSubscriptionIsZombie` the order in the queue matters: a queued Subscribe whose observer is
done must have its Unsubscribe *behind* it. `Followed` says so for each position of
the queue, `ZInv` joins it to the rest, and `RunsShifts` tells how positions move when a handler
is taken and others are appended.

`LinkKeepsContract` shows that every step of the link is one of `WsLinkContract` or a stutter.
It needs `SInv` for the observers that a handler ends, and of the queue only that taking a
message can drop a last word but never add one (`Used`), which is the part of the
argument about messages that outlive their connection. `NoErrorAfterAck` is then a fact
about the contract alone.

**WsConnectionProofs, with timers handled in time.** Under `~LateTimer`. `TInv` is what queue, chains and sockets say of each
other: each transport has one handler of its chain waiting at most (`OneEach`), an expired timer is the head
of the queue (`TimerFirst`); a waiting handler tells where its chain stands (`ChainsMatch`, `WritesMatch`), the
chain tells whether there is a socket (`SocketsMatch`); a transport that is not the current one
has reported its end and is closed (`FiredMatch`); and a timer runs only while Reconnecting
(`StateMatch`). The heart is `FiredMatch`: a connection's death is reported twice, by its
write and by its read, and the second report must not take down the successor. That
holds because the first report is made with the socket already closed and sets `_disconnected`,
and because no timer can open another connection beside the current one. A handler's effect on
the queue (`QStep`) and on the transports (`ChainStep`) are stated once and proved action by action.
A message can come behind its connection's loss, and what it may do then is `HInv`: messages are
read by a chain that reads (`HeldMatch`), which has ended when an expired timer is about to connect
(`TimerDrained`; a Subscribe on an Idle context need not wait for that); there is one ack per connection (`AcksOnce`), and as long as it is coming the client has said
connection_init only, so that no write of its own can have failed and reported the loss before it
(`AcksFirst`). An ack is therefore never that of a lost connection, while an event can be.
`OneConnection`, `LinkSendsInTime` and `StopLeavesNothingOpen` follow. With `LateTimer` the first is
false: see ws_late_timer.

Its second half, on top of `TInv` and `ZInv`, is about what goes over each connection. `PInv` says what each
connection has been sent and what the context knows of it. The Subscribe of a subscription is
queued once in its life, and whoever knows its id has seen it handled (`SubscribeOnce`,
`OnlyStarted`): this is why a `subscribe` that `OnSubscribe` sends is fresh on its connection, and
one that `ReplaySubs` sends is too, as an unacknowledged connection has subscribed nothing
(`Wired`). `EventsMatch` ties events under way to the context's state: on the current connection they come only
while Connected, since nothing is subscribed on it while Connecting; one on an older connection is for a
subscription that is gone, unless the context is still Reconnecting. What a
step does to a connection is one of four things (`Keeps`, `Forgets`, `Inits`, `Adds`) and what it
does to the context one of four others (`Stays`, `Starts`, `Acks`, `Loses`); the
invariant is shown to survive each of them once, and each action to be one of them.
`ServersSeeTheProtocol` and `EverythingIsSubscribed` are parts of it. `NothingIsOrphaned` needs in
addition that a subscription leaves `_subs` only with a `complete` or the connection, and
`EventsFindTheirSubscriber` follows with `NoZombieSubscription` and `NoLostSubscriber`. With `LateTimer` a
second connection beside the first one takes the premise away.

**WsTransportProofs.** `IInv` joins `TypeOK`, `WriteOwnsBuffer`, `NothingSkipped` and two facts that
the contract follows from, `OneMessageBuffered` (the read buffer holds nothing of the
message before) and `EndWillBeNoticed`, with `Lifecycle`: which
operations can be outstanding in which phase, and that `told` is 1 exactly after a
loss. `OneWriteInFlight`, `NoMessageSkipped` and `LossIsNoticed` follow, and
`TransportKeepsContract` shows each step to be one of the contract or a stutter, by the
refinement mapping `Status`.

**HttpExchangeProofs.** `IInv` is `TypeOK` with `Frame`, which ties where Send stands to where
Read stands and to the timer; `ReaderInsideFrame` and `NoLostWakeup` follow. `AnswerInv` adds what
a query's observer has seen at each place of the reader, for `QueryHasOneAnswer`.
`StreamInv` is about what has been read so far: while the reader listens, what it showed and the
rest that it keeps are what `ParseSseEvents` makes of all tokens up to here at once, and nothing
ended yet; at the end, `seen` is that or a part of it. That every further chunk keeps it so is
`PartsAreParsedAsTheWhole`, below. It is also why a stream's end is genuine: the parser says
`completed` of a rest and a chunk only if it says so of the whole text. `CutsDoNotMatter` and
`CompletionIsTheEnd` follow: with `StreamInv` (its `BodyIsOver`: a successful reply completes nobody before its
body is over), `ShownInv` says what somebody who was completed has been shown, the failure of an error status, the
answer to a query, or nothing where the server sent no reply (HttpNoReply). Reading a chunk is where the proof is; a body cut short (`OnTruncated`,
`OnReset`) leaves `ending` an error, and a query's body needs no parser.

**HttpExchangeProofs, the parser.** `PartsAreParsedAsTheWhole`: for any two texts, if the first does not complete the
stream, then parsing what it left with the second text behind it gives what parsing both at once
gives: the same further results, the same verdict, and a rest of which the same can be said again
(`GoesOn`). `\r`, runs of empty lines across a cut, and a last empty line that moves make this less
than obvious. `Parsed(text, rest)` is what the parser keeps between chunks: the rest begins behind an
empty line (`Closed`), has none of its own, and nothing before it was `complete`. There
the loop of `chunk_by_blank` is in the state that it starts from, but for the blocks it has
(`Behind`); so the blocks of the whole are those of the parts, one after the other, and `Complete` and
`Values` follow block by block. `QuietAfter` is the case that no empty line was added, `LoudAfter` the other.

**RunningFoldsProofs.** Induction without the library's induction theorems, whose operator parameters
no installed prover can instantiate. `LeastNatural` (a non-empty set of naturals has a least
element) follows from the well-foundedness of the naturals, which the library states about sets;
`UpTo` is induction for a set of naturals, and each induction over a text or its blocks is about the
set of the places where its fact holds. A recursive function is a CHOOSE, about which nothing is known
until some function satisfies its equation: `RoundsExist` and `RoundsType` say so of rounds that each
have a set of results of their own, `LoopExists` and `LoopType` of those with one set for all, which is
what the recursion of `Running` needs.

**DocumentsProofs.** Sequences one behind another (`On`, and `FlattenLoop` for the community modules'
`FlattenSeq`, a recursive function), what a selection of each kind is, and that the function of depths that gives
the selection sets satisfies its equation (`SetsLoop`): lemmas about documents that both of the next
two rest on.

**CacheCoherenceProofs.** `ReferencesResolve` and `CacheTypeOK`, for every server (whatever it
answers, consistent or not), every set of requests over documents nested to any depth, all key
policies, and any `MaxCalls`. Three parts. *JSON*: a value is JSON up to so many items of its root's array
(`IsJsonUpTo`); a part of it, a value with another member (`PutIs`, `PutJson`) and the `merge_patch` of two
objects (`MergeIs`) are JSON again, and what they refer to is what their parts refer to. For
`MergePatch` that is the least obvious part: a patch replaces whole values, so a path of the target may
only survive if everything above it does. *What a call returns*: `Partial`, `Full` and `Objects` are the
results whose references, those in the value and those in the entities taken out, lead to entities
that the same call took out. The root of a value is known as well, because a reference is made by
a call for an object and not by chance: a store key is `__ref` only if the response key is
(`FieldStoreKeyIs`), and no response has such a member. Each of `NormalizeField`, `NormalizeFragment`,
`NormalizeItem` and `TakeOut` stays in these sets; loops are followed with `LoopType` and `RoundsType`, the
recursion by induction on the depth of calls (`NormalizeWithinIs`). *The store*: `Stores(ids, to)` are the stores
that have these entities and refer to those only. Storing the entities one after the other, a reference
leads to one that is stored *later* for a while, so the induction keeps `to` fixed and lets
`ids` grow (`StoreAllIs`); after the last one they meet. `Inv` says of roots and entities that they
refer to `Known`, what is there or was evicted: an eviction moves an id from one to the other.

**RequestTextProofs.** About every document of any names, fragments and number of selections, nested up
to any `MaxDepth`. First what the recursive functions are (`SetsLoop`, `TransformLoop`, `AsksLoop`,
`CollectedLoop`, `ObjectsLoop`), then what one level of `Transform` does place by place (`TransformIs`),
then an induction over the depth for each theorem. The invariant of the specification is
`IsDocument(document)`, and for the operation's name `NamesItsFirst`.
`OneTransformIsEnough`: a transformed set lacks nothing (`TransformedIs`), so the second pass finds
nothing to add, inside as outside. `RequestsAskTheSame`: `TransformAsks` for a level, and the
distinct names of operations for `Executed`. `ObjectsSayTheirType`: `Calm` are the selection sets that
AddTypename leaves as they are, those of any depth. Where such a set has a field, it has a `__typename`
without a condition, and its inner sets and those of the fragments are `Calm` again (`CalmIs`). So
whatever route a field takes into an object's fields, through spreads and inline fragments with or
without conditions, a `__typename` of the same set takes it too (`LevelSaysItsType`). The hypothesis
`~ConditionalTypename` is needed: without it the statement is false, see RequestConditional.

`TextsReadBack` and `OneTextOneDocument` are about Print and the reader of `GraphQLGrammar`; the invariant
is `PrintsWhatIsSent`, that the request has the text of `Sent` for some order of its fragments. `Reads(text,
r, s)` says that a text takes the reader from one state to another; texts one behind another take it
from state to state (`ReadsOn`, `ReadsAll`), so each piece that Print writes needs a lemma of its own:
lists in brackets (`BracketsRead`), arguments, directives, the three kinds of selections, selection sets
(`SetIsRead`, and by induction on the depth `SetsAreRead`), definitions, documents (`DocumentRead`). Each
leaves the reader where the next piece needs it, with what was printed added; what makes that work is
that the reader knows from one token and its mode what the token is: a colon turns the name before it
into an alias, "on" after "..." is never a fragment's name, and a type condition or a default that is
absent is not printed. The hypotheses are those of `IsDocument` and `NamesAssumption`: names differ from
punctuators.

**ClientProofs.** Three invariants, each on top of the one before. `IInv` is `TypeOK` with
`Local`, what a call keeps to by itself. `LocalPlan`: which plan fits which request, and that of a query or
mutation no more is shown or under way than was served (plus one value from the cache under
`concat`). `LocalAwait`: until it is shown something an awaiter is as it was made, and whoever resumes it
leaves `resumed` set and the value or the exception in place, so that what take(1) and the source still have to
say changes nothing. `PoliciesKept` and `AwaitDecided` follow. `OInv` adds `Ordered`: values shown and answers under
way, in this order, are in the order of their versions, and nothing is newer than the
server, the cache included; without the answers under way `NeverGoesBack` would not be
inductive. `OrderKept` follows. `SInv` adds `Serial`, as long as calls never overlapped: one call is
busy at most, and what is on its way to a call that writes the cache is not older than what
was shown. `SerialClient` follows.

### Only model-checked

* Liveness: out of the prover's reach, with ENABLED.
* `Coherent`, `RoundTrip` and `NothingStale`: they compare what two recursions compute, for requests
  that may overlap in any way, and are false of some of them (CacheAlias, CacheMixedIdentity, CacheNull).
  A theorem needs as assumptions what makes requests sound together: no scalar under two keys,
  every object with its identity, no nulls.

Every safety property that the runs check of `WsConnection`, `WsTransport`, `HttpExchange`,
`Client` and `RequestText` is proved, and of `CacheCoherence` the one about the store itself.

The composition is one of contracts: `WsTransport` is shown to implement `WsTransportContract`,
`WsConnection` (without late timers) to keep `SendsAreTimely`, which is what `WsTransport` assumes of its owner. That
the transports inside `WsConnection` are those of the contract is a matter of reading the two.

## 5. What is not modelled

* JSON, UUIDs, URLs, headers, TLS configuration, `Print`'s white space and its escapes in strings:
  data without control. The GraphQL parser is a library; `GraphQLGrammar` is what the properties
  need of it. `SplitLink`: one conditional call.
* Nested values and types in documents: an argument's value, a variable's type and its default
  are one token each.
* The two programs under samples/: examples that call what is modelled.
* Concurrency inside the cache: it has one mutex, held by each operation throughout.
* `rpp`, Asio, Beast and the server are external: modelled by what the code relies on.
* Two clients on one cache, and two exchanges of one HttpLink: exchanges share no state.

### Read in the code, without a run

* `event: complete` with the space that the specification of event streams allows is not
  recognised (response.cpp:73 compares the untrimmed text), while `next` is trimmed. The
  parser's model has it.
* One event that is not JSON loses the good events of the same chunk, which were not
  emitted yet. `ChunksDoNotMatter` therefore says "a part of" after an error.
* Event-stream mode is chosen by the request's type; docs/transports/links.md:79 says it
  is chosen by the response's Content-Type.
* `Subscription` has no destructor, although docs/core/subscriptions.md:80 says that the
  subscription is cancelled when the object is deleted.
* An older answer that arrives later overwrites newer data in the cache; nothing promises
  otherwise, and `SerialCallsAgree` says when it cannot happen.

## 6. Plan

The order was: the WebSocket link, where most of the state and all the hard
interleavings are; its transport; the HTTP exchange; the cache; the client; documents and
their text; the contract of a link; proofs about the link's destruction, about zombies, and
under `LateTimer = FALSE`; the cache over paths and recursive functions, and its references. Left, in
this order:

1. What makes requests sound together, as an assumption on `Answers`, for `Coherent` as a theorem.
2. The transports of `WsConnection` as instances of `WsTransportContract`, in place of the
   summary that they are now.
3. One abstract link that `WsConnection`, `HttpExchange` and the link of `Client` share.
4. Several documents and entities in `Client`, with the cache's own store in place of what
   `CacheCoherence` shows of it.
5. Applications that subscribe from inside the callbacks of a link.

