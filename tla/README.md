# json_rpc_cpp in TLA+

json_rpc_cpp is a header-only C++ framework for JSON-RPC over TCP: a network
library in the style of muduo (`common/muduo.hpp`), a length-prefixed message
layer (`common/net.hpp`, `common/message.hpp`), and on top of it remote calls, a
registry of services and publish/subscribe topics, each with a client and a
server half. These modules model what its threads do to each other; TLC checks
them on small instances, and TLAPS proves their safety properties, and four
refinements, for instances of every size.
Paths below are relative to `src/source/`.

## 1. The system

### Threads

A server has a base loop, which accepts, and five worker loops; each connection
belongs to one worker loop, in which its messages and its close are handled one
after the other. Handlers of different loops run at once and meet in the tables
of the managers, which each guard with one mutex. A client object
(`TcpClient`) has one loop thread of its own; users call from any thread, and
the users' callbacks run in the loop thread and may call again.
`Connection::Send` from the connection's own loop writes at once; from any other
thread it queues a functor. So an answer can overtake notices queued before it, and
so can what a connection of the same loop sends. `Shutdown` and `Release` are always
queued. A `Connection` is held by whoever was given it, a topic's subscribers for
one, and may be used when it is closed and its loop gone.

### Components

| component | state | operations | what is hard | what makes it correct |
|---|---|---|---|---|
| EventLoop (`muduo.hpp:998-1150`) | queue of functors, eventfd, `_stop` | QueueInLoop, RunInLoop, Stop, Start | push and eventfd write are two steps; the queue is swapped out and run unlocked | every functor runs once, in order; no lost wakeup; Stop ends the loop |
| TimerWheel (`857-996`) | buckets, table of timers, tick | TimerAdd, TimerRefresh, TimerCancel, tick | stale tasks in buckets; callbacks that use the wheel | each timer runs at its deadline, once, unless cancelled |
| Buffer, LVProtocol, OnMessage (`muduo.hpp:116-295`, `net.hpp`) | bytes, two indices | Write, Read, decode | streams cut anywhere, compaction, growth, limit | messages whole, once, in order; refused only for cause |
| Connection (`1356-1672`) | status, events, output, timer, functors queued | Establish, Send, Shutdown, Release, EnableInactiveRelease, events | five ways to end, some queued; partial writes | closed once; output flushed; sends in order |
| Requestor, RpcCaller, RpcRouter (`client/`, `server/rpc_router.hpp`) | table of requests | Call (sync, async, callback), OnResponse, OnRpcRequest | answer before Send returns; three mutex regions; nested calls | own answer, at most once; answered unless cut |
| registry (`server/rpc_registry.hpp`) | two managers, two tables each | register, discover, close | regions interleave; notices queued, answers inline | nobody misses a host; closed connections are forgotten |
| Discoverer (`client/rpc_registry.hpp`) | lists of hosts per method | ServiceDiscover, online, offline | an answer is stored late by the caller's thread | the list follows the registry |
| RpcClient (`client/rpc_client.hpp`) | pool of clients by host | Call, NewClient, RemoveClient | check-then-act; clients end under a mutex | a pooled or used client is alive; calls return |
| topics (`server/rpc_topic.hpp`) | topics by name, members | Create, Remove, Subscribe, Cancel, Publish, close | manager's and topics' mutexes; publish while others join and leave | every subscriber gets the message, all in one order |
| TopicClient (`client/rpc_topic.hpp`) | callbacks by name | Create, Remove, Subscribe, Cancel, Publish, OnPublish | messages before Subscribe's answer | a subscribed client has a callback for what it is sent |
| TcpServer, Acceptor, LoopThread(Pool) (`1162-1264`, `1674-1864`), MuduoServer (`net.hpp`) | two tables of connections, workers and their loops | Start, NewConnection, RemoveConnection, Stop | queued functors against table updates; threads that start and end; Stop before Start, or twice | tables agree with connections; what the server queues is run before its loop ends; Stop lets Start return |
| RpcServer, ServiceManager (`server/`) | services by name | RegisterService, Start | announced before it is in the table | found by every call once registered |
| HTTP server (`2300-2962`) | context of a request | OnMessage, Route | requests in pieces, several at once; state left over | each request answered once, by its own headers |
| Socket, Any, UUID, JSON, logging | | | | not modelled, see 7 |

`PROJECT.json` lists every component with its status and every hazard with its
line and the properties that would notice it going wrong.

## 2. Modules

| module | models | against |
|---|---|---|
| `EventLoop` | the loop, queued functors, eventfd | `SerialExecutor` (abstract: a FIFO executor) |
| `RpcCall` | a call from RpcCaller through Requestor and the wire to RpcRouter and back; RpcServer's registration and start | `AtMostOnceCall` (abstract) |
| `Registry` | the registry's managers, notices and what each discoverer is sent | |
| `Discovery` | EXTENDS `Registry` by one client's Discoverer and callers | |
| `Topic` | the server's topics | |
| `PubSub` | EXTENDS `Topic` by one client's TopicManager and callers; the other clients stay requests of `Topic` | |
| `Connection` | one connection with its loop, users and peer | |
| `TimerWheel` | the wheel and callbacks that use it | `Deadlines` (abstract) |
| `Framing` | buffer, reading and decoding of one connection | |
| `Http` | EXTENDS `Framing` by the HTTP server's context and replies | |
| `TcpServer` | the server's threads and tables: workers, NewConnection, closes, Stop | |
| `ClientPool` | RpcClient's pool, client loop threads and their joins | |
| `EventLoopProofs`, `RpcCallProofs`, `TimerWheelProofs`, `TcpServerProofs`, `ClientPoolProofs` | theorems about the module each is named after | |
| `ConnectionProofs` | theorems about `Connection`, and about `Framing` and `Http`, what is read from one | |
| `RegistryProofs` | theorems about `Registry`, and about `Discovery` on top of them | |
| `PubSubProofs` | theorems about `Topic`, and about `PubSub` on top of them | |

`Discovery` and `PubSub` compose: they restrict nothing of the module they
extend, they take its steps and add what the client does with what it is sent.
`Http` shares the buffer, the stream and the reading with `Framing`; who decodes is
told by `role`. `MCDiscovery` and `MCPubSub` add symmetry of the callers, `MCDiscovery` also who shares the
client's worker loop; `MCHttp` gives the frames and the lines a peer may send. The other
modules run as they are, each with the configuration named after its run.

### How state and actions correspond to the code

An action is what happens between two points where another thread can
interfere: one mutex region, one send, one functor, one callback. What a
handler still has to do is kept in the record `at[c]` (or `conn`, `caller[u]`),
whose `step` names the place. So `Registry` has `AddProvider` and
`AppendMethod` (the method is appended after the manager's mutex is released),
and then one `OnlineNotify`, since notifying holds the mutex throughout.

- **EventLoop**: `signalled` is the eventfd's counter above zero; a functor is
  a model value, queued once. Other channels become ready at any time, and
  nothing is assumed to make them ready: the properties do not lean on the
  one-second tick that would also wake a loop.
- **RpcCall**: `wire` holds messages in each direction, `queued` the functors
  that send; a loop thread is named by its connection. `Deliver` fulfils
  promises or enters the callback; `RemoveRequest` comes after the callback.
  `Kinds` are the router's answers; one kind (OK with a null result, which
  CheckType lets an OBJECT or ARRAY service leave) is refused by the client's Check,
  and then the connection is shut down. The kernel accepts connections before
  `Start`, so requests may wait for it. `service` is how far RegisterService is:
  announced to a registry or not (`local`: it failed, or there is none), then
  `Insert`; `services` is whether the table has it. An ill-formed call is one with
  null parameters: Check refuses it, and it is routed without its identifier.
- **Registry**: a provider's host is its connection. `pending[d]` are notices
  queued in d's loop; `view[d]` counts what d has been sent. `Shared` says which
  connections share a worker loop: there notices are written at once, and two
  handlers never run at once.
- **Topic**: a Subscriber object is `<<connection, number>>`, so that a second
  Subscribe of the same connection is a second object, which the code does not
  store. Removing a topic with subscribers erases from the set that is being
  iterated: undefined behaviour, modelled as either outcome (`running` becomes
  FALSE, or all leave).
- **Discovery, PubSub**: `inbox` is what is on its way to the client's process. What a
  handler of the client's own worker loop sends goes there at once (`SentAtOnce`,
  `Written`), ahead of what is queued for the client. The client of `PubSub` uses all
  five operations, each thread one at a time; its requests are handled by the steps
  of `Topic` for its connection, and answered behind what they send to it.
- **Connection**: `conn` is the object, `conn.tasks` its functors in the loop;
  operators such as `Released(c)`, `ShutDown(c)`, `Sent(c, b)` return the
  object after a function of the code, because those call each other. A callback is
  called only when there are bytes (`Calling`), and only then can it reply. `Kinds` says
  which connections a run looks at: a server's with inactivity release (`timed`),
  a server's without, and a client's, which connects first.
- **TimerWheel**: a task is a number, its fields in `tasks`; a bucket is a
  sequence of tasks; `visit` is what the tick still has to handle.
- **Framing**: the buffer holds indices of the peer's stream, so that order and
  loss show; a frame in the stream is the place where it begins (`from`), its size,
  and what `LVProtocol::OnMessage` makes of it (`kind`): a message; one that
  UnSerialize or Check refuses; nothing, because its type does not exist; nothing,
  because its id is longer than the frame, and then only the three length fields are
  taken out and what follows is no longer decoded where it was written
  (`Adrift`). `role` is the side that reads. A client stops at a frame it does not
  accept. A server hands a refused message over without its identifier and goes on;
  without a message it hands over a null pointer, which `Dispatcher::OnMessage` uses:
  the thread is `crashed`. A client that is read from once more before its Shutdown has
  run decodes from the middle of a frame (`DispatchStray`): whatever may come of it
  may happen there.
- **Http**: the stream is made of parts, each a line or a body of the request whose
  number it carries; a line has a length and a kind (whether it parses, which header
  it is). `context` is HttpContext. One
  step parses one line or body; RecvHttpRequest's switch falls through its cases,
  which is `AfterLine`. ParseHttpHeader compares where it should assign
  (`pos==line.find(sep)`, `muduo.hpp:2617`), so that a field without a space after
  the colon is refused with 400: it is one of the lines that do not parse.
- **TcpServer**: a loop is its queue, the batch it runs, and whether its thread
  runs (`life`); loop 0 is the base loop. What a connection does in between is left
  to `Connection`; here it is established and, some time, released. `UseConnection` is
  a Send, Shutdown or Release by whatever thread holds the connection, at any time; it
  queues in the connection's loop, and where that has ended, the loop was a local of a
  function that has returned: the functor is lost or the process dies (`crashed`).
  `phase` is where
  the base thread is in Start, NewConnection and StopInLoop.
- **ClientPool**: joins are steps in which the thread is at "join"; the
  discovery client's thread holds both mutexes while it is at "join".

## 3. Runs

All runs leave deadlock checking off, as systems that stop, close or are asked
for nothing more are meant to; what must go on is a liveness property instead.

| run | module | question | distinct states |
|---|---|---|---|
| `MCEventLoop` | `EventLoop` | is a functor or a wakeup ever lost, is the loop a FIFO executor, do functors run and does Stop stop: two queueing threads, callbacks that queue, two Stops among four functors | 17 thousand |
| `MCRpcCall` | `RpcCall` | do answers reach their own callers, once; is every call answered, and "not found" only before the service is registered: a user thread and nested callbacks, two connections, one ill-formed call, registration before and after Start | 510 thousand |
| `MCRegistry` | `Registry` | do tables agree, are closed connections forgotten, is any host missed or kept: two providers, two methods, a discoverer on the loop of one of the providers | 300 thousand |
| `MCDiscovery` | `MCDiscovery` | is the client's list right, and each waiting caller's request somewhere: two providers, one of them in the client's worker loop, two callers | 800 thousand |
| `MCPubSub` | `MCPubSub` | mutual exclusion, delivery, order, cancelling at the server; is what is published shown to the user, is each waiting caller's request somewhere: two threads of one client that uses all operations, another client that does so, a publisher | 2.9 million |
| `MCConnection` | `Connection` | one close, flush, order; does a closing connection close: a timed server's and a client's | 1.2 million |
| `MCConnectionAssert` | `Connection` | the assertion at `muduo.hpp:1477` (violated, see 6) | |
| `MCTimerWheel` | `TimerWheel` | is each deadline kept to the tick | 720 thousand |
| `MCHttp` | `MCHttp` | messages whole, once, in order, refused only for cause, at server and client, with frames of every kind; HTTP requests answered once, in order, each by its own headers | 1.8 million |
| `MCHttpClose` | `MCHttp` | is a short connection closed (violated, see 6) | |
| `MCTcpServer` | `TcpServer` | do both tables agree with the connections, does Stop end everything, is what the server queues run: two workers, two connections that other threads use, two Stops | 230 thousand |
| `MCClientPool` | `ClientPool` | are pooled clients alive, do calls keep one that can answer, do they return | 180 thousand |

### Bounds

- `Tasks` (EventLoop): functors are used once each; four are more than enough for one to be in the queue, one swapped out and one running.
- `Calls`, `IllFormed` (RpcCall): three calls are a call, one from its callback and
  one of somebody else; one of them gets an answer the client does not accept.
- `MaxRegisters`, `MaxDiscovers` (Registry, Discovery): registrations and discover
  requests of each connection. Two let it repeat itself (register a method
  twice), which is where tables could disagree. In `MCDiscovery` a provider registers
  once and closes, but there are two of them, and two callers ask for the same list.
- `MaxRequests` (PubSub): requests per connection. Two let a subscriber leave, a
  publisher publish twice, and each of the client's two threads wait for an answer at
  the same time. A thread of the client starts a call only when its request is
  within the bound (`Begun`).
- `Shared`: in `MCRegistry` and `MCDiscovery` a provider is in the discoverer's worker
  loop, and what it sends overtakes what waits there. In `MCPubSub` only what a
  subscriber publishes itself does so, as each connection has a loop of its own: an order can only be
  broken by two publishers in different loops that are not the subscriber's. That
  nothing changes with shared loops is what the theorems say, for any `Shared`.
- `MaxTopics`: topic objects made; two let a name be removed and created again.
- `Timeout` (Connection): ticks until an inactive connection is released; with one
  tick the timer beats `Establish` (section 6).
- `MaxSends`, `MaxArrive`, `MaxCalls` (Connection): bytes sent by each thread,
  bytes unread, calls of Shutdown, Release and the like. Two bytes make a partial
  write, two calls a Shutdown behind a Release.
- `Capacity = 2`, `MaxDelay = 3`, `MaxTicks = 5`, `MaxTasks = 3` (TimerWheel):
  a delay longer than a round, two rounds, and a timer replaced once.
- `Field = 1`, frames of three, four and six bytes, `BufferSize = 4`, `Limit = 4`,
  `MaxMessages = 3` (Framing): a frame that fits, one that is beyond buffer and limit,
  so that both compaction and growth happen with half a frame inside, and three that
  are not accepted, one of them with bytes behind its fields.
- `MaxLine = 2`, lines of two and four bytes, `Body = 2`, `MaxParts = 5` (Http): a
  line that fits and one that does not, whole or in pieces; a request of five parts
  with two headers and a body, or two requests and the beginning of a third. The
  peer sends a part when the last one has arrived; where the stream is cut, and how
  much is read at once, is free.
- `MaxWorkers = 2`, `MaxConns = 2`, `MaxStops = 2` (TcpServer): no workers, one or two;
  one connection for each loop, or two in one; a second Stop behind the first. Of a
  connection one functor of other threads is queued at a time; it may be queued again
  as soon as it has run.
- `Hosts`, `Clients`, `MaxCalls` (ClientPool): two hosts, so that a client may be
  looked up under the wrong one; as many clients as calls, so that making one is
  never blocked by the bound.

### Fairness

- **EventLoop**: weak fairness of the loop's own steps and of the threads that
  are between push and eventfd write: the scheduler runs them. None on
  interrupted polls, other channels, or on queueing.
- **RpcCall, Registry, ClientPool**: weak fairness of every handler step: a
  thread that runs goes on. Nobody has to make a request, close or reset. In
  `RpcCall` the application has to start its server; it need not register a
  service, which may wait for the registry for ever. In `ClientPool`, where hosts may go offline
  for ever, strong fairness says that a mutex that is free again and again is
  given to its waiter in the end.
- **Discovery, PubSub, TimerWheel**: none. That a waiting caller is not forgotten is
  stated as safety there (`CallersServed`, `CallsInTransit`): its request is on
  its way, in its handler, or answered, and in exactly one of these places. Topic's
  `MutexInv` says that a sender holds a mutex only while it has somebody to send to.
- **Connection**: weak fairness of the loop (functors, events) and of the peer's
  reading, which `DrainEnds` assumes and states in its comment.
- **Framing, Http**: weak fairness of the loop's reading and decoding and of the
  arrival of bytes that were sent.
- **TcpServer**: weak fairness of the base thread's and the workers' steps, and of
  starting threads. A loop with work wakes: that is `EventLoop`'s `LoopServes`. Nobody
  has to connect, close or stop.

## 4. Properties and the bugs they notice

Each property is broken by at least one plausible bug of the code, written in the
module beside the definition it changes. The bugs and who notices them:

| bug | instead of | noticed by |
|---|---|---|
| `RoundOver_Early` (Stop ends a round before its last functor) | `RoundOver` | `IInv` |
| `Woken_Lost` (the eventfd write is forgotten) | `Woken` | `NoLostWakeup`, `LoopServes` |
| `Pushed_Front` (pushed at the front) | `Pushed` | `ImplementsExecutor` |
| `Entered_IfAnnounced` (a service the registry did not take is not entered) | `Entered` | `NotFoundForCause` |
| `Registered_Lost` (request not entered before Send) | `Registered` | `AnswersMatched`, `ShutdownForCause` |
| `Remaining_Leak` (request not removed) | `Remaining` | `RequestsExact` |
| `Recipient_Oldest` (the answer's identifier is not looked at) | `Recipient` | `ImplementsAtMostOnce` |
| `OnWire_Gated` (sent only when nothing else is on its way) | `OnWire` | `AnsweredOrCut` |
| `Appended_Lost` (a provider's methods not remembered) | `Appended` | `TablesInv` |
| `Entered_NotYet` (a discoverer is not entered for notices) | `Entered` | `ViewComplete`, `RegistrationReaches` |
| `Retracting_None` (no offline notice) | `Retracting` | `ViewBalanced` |
| `Noted_Clears` (an offline notice clears the whole list) | `Noted` | `NoHostOnlyIfGone` |
| `Stored_Merged` (the answer is added to the list, does not replace it) | `Stored` | `CacheExact` |
| `Answered_OnlyFound` (no answer when there is no host) | `Answered` | `CallersServed` |
| `Locked_Never` (sending without the topic's mutex) | `Locked` | `MutexInv`, `TopicOrderKept` |
| `Emptied_ByName` (the topic is looked up by name again) | `Emptied` | `PublishReachesSubscribers` |
| `Left_Fresh` (a new object is erased, not the stored one) | `Left` | `CancelLasts` |
| `Sending_Kept` (the mutex is not released after the last message) | `Sending` | `MutexInv` |
| `Added_Late` (callback not entered before the request) | `PubSub!Added` | `PublishShown` |
| `Response_OnlyOk` (failures not answered) | `Response` | `CallsInTransit` |
| `Released_Again` (no check of the status) | `Released` | `ClosedOnce` |
| `Wrote_Lingers` (written out, but a closing connection is not released) | `Wrote` | `DrainEnds` |
| `ShutDown_AtOnce` (output dropped) | `ShutDown` | `GracefulFlush` |
| `Rest_None` (a partial write taken for a whole one) | `Rest` | `SendsKeepOrder` |
| `Visited_Before` (off by one bucket) | `Visited` | `TaskInReach` |
| `Live_Unchecked` (cancelled and replaced tasks run) | `Live` | `KeepsDeadlines` |
| `Compacted_InPlace` (indices moved, bytes not) | `Compacted` | `GivenInOrder` |
| `Retrieved_Content` (the length field's size forgotten) | `Retrieved` | `GivenInOrder` |
| `TooLong_Capacity` (the buffer's size compared with the limit) | `TooLong` | `RefusedForCause` |
| `AfterFrame_Once` (one frame per read) | `AfterFrame` | `MessagesArrive` |
| `AfterLine_Break` (the switch does not fall through to the headers) | `AfterLine` | `RepliesExact` |
| `Reset_KeepsHeaders` (Reset leaves the headers) | `Reset` | `RepliesExact` |
| `Unlisted_AtOnce` (the worker erases the base loop's entry itself) | `Unlisted` | `TablesExact` |
| `AllReleased_Never` (Stop goes on before the connections are told) | `AllReleased` | `StopClean` |
| `Forgotten_Kept` (a joined thread stays in the pool) | `Forgotten` | `NothingLeft` |
| `LoopReady_NoWait` (a thread's loop is not waited for) | `LoopReady` | `StopReturns` |
| `Pooled_Weak` (the pool keeps weak references) | `Pooled` | `PoolInv`, `CallsReturn` |
| `Added_None` (a new client is not entered) | `ClientPool!Added` | `CallsServed` |

### What the code does not promise

Some properties name what they exempt, because the code really behaves so:

- `ViewBalanced` and `CacheExact` except a discover request that met the same
  provider's registration or close halfway (`overlapped`): the offline notice is
  sent before the provider leaves the table, so such a client may list a host
  that has gone, for good.
- `CacheExact` excepts too a list for which a message overtook a caller that had an
  answer still to store (`outrun`).
- `CancelLasts` is about a client's only subscription: a second one is not
  stored, so its cancel does nothing.
- `PublishShown` excepts a topic that two threads of
  one client subscribed and cancelled at once (`crossed`).
- `AnsweredOrCut`, `CallersServed`, `CallsInTransit` and `CallsReturn` except a lost
  connection: a waiting call is not told and waits for ever.
  `AnsweredOrCut` excepts too a callback that makes a synchronous call on its own
  connection, which blocks the thread that would read the answer (`Stuck`).
- A server's worker thread dies of a frame whose type does not exist or whose id is too
  long: `RefusedForCause` says that it dies of nothing else. A client is refused such a
  frame, and `GivenInOrder` leaves open what it hands over between that refusal and its
  Shutdown.
- `StopReturns` excepts a process that died because a thread used a connection whose
  loop had ended, and `NothingLeft` what such a use queued.
- `CallsServed` excepts asynchronous calls on a client that lost the race for the
  pool, or that an offline notice took out (`raced`, `dropped`): it ends with the
  call, and its answer is lost.
- `CallsReturn` excepts runs in which a callback made a call (`nested`): it may lock
  up with the discovery client's thread, which joins the callback's thread while it
  holds the mutex the callback waits for.

## 5. Proofs

Each proof module states an inductive invariant (`IInv`; `Balance` on top of it in
`RegistryProofs`; `ClientInv` for the clients of `Discovery` and `PubSub`;
`FramingInv` and `HttpInv`), proves that `Init` implies it and that every action keeps it,
one lemma per action, and derives the properties from it. All hold for any
values of the constants that satisfy the assumption of the component's module; those
assumptions say that bounds are natural numbers, that a thread or a null value
is none of the others, that a frame has its three length fields and a part of a
request at least one byte, and whose client it is: in `Discovery` a discoverer that is
no provider, since a DiscoverClient has a connection of its own (`client/rpc_client.hpp:14-46`),
in `PubSub` any connection. Which connections share a worker loop, and who owns
topics and publishes to them, is left open, for the client too. Before it was proved, each invariant was checked by TLC on the
instance of the component's run.

| module | from | theorems |
|---|---|---|
| `EventLoopProofs` | `LoopAssumption` | `WakeupNeverLost` (`NoLostWakeup`), `Refinement` (`ImplementsExecutor`) |
| `RpcCallProofs` | `CallAssumption` | `ResponsesFindTheirRequest` (`AnswersMatched`), `RequestsKeptExactly` (`RequestsExact`), `ShutdownsHaveCause` (`ShutdownForCause`), `RegisteredIsFound` (`NotFoundForCause`), `CallsAtMostOnce` (`ImplementsAtMostOnce`) |
| `RegistryProofs` | `RegistryAssumption`; its client's part `DiscoveryAssumption` too | `TablesAreExact` (`TablesInv`), `NoProviderMissed` (`ViewComplete`), `ViewStaysBalanced` (`ViewBalanced`), `ServerInContext`, `ServedOnce` (`CallersServed`), `DefaultOnlyIfGone` (`NoHostOnlyIfGone`), `CacheStaysExact` (`CacheExact`) |
| `PubSubProofs` | `TopicAssumption`; its client's part `PubSubAssumption` too | `TopicsAreLocked` (`MutexInv`), `PublishReaches` (`PublishReachesSubscribers`), `CancelsLast` (`CancelLasts`), `OrderIsKept` (`TopicOrderKept`), `ServerInContext`, `AnsweredOnce` (`CallsInTransit`), `SubscribedIsShown` (`PublishShown`) |
| `ConnectionProofs` | `ConnectionAssumption`; for what is read `FramingAssumption` and `HttpAssumption` | `EstablishedAndClosedOnce` (`ClosedOnce`), `WrittenBeforeClosed` (`GracefulFlush`), `OrderIsKept` (`SendsKeepOrder`), `MessagesHandedOver` (`GivenInOrder`), `RefusalsHaveCause` (`RefusedForCause`), `RequestsAnswered` (`RepliesExact`) |
| `TimerWheelProofs` | `WheelAssumption` | `NoTimerOutOfReach` (`TaskInReach`), `DeadlinesKept` (`KeepsDeadlines`) |
| `TcpServerProofs` | `ServerAssumption` | `TablesAgree` (`TablesExact`), `StopIsClean` (`StopClean`), `QueuedIsRun` (`NothingLeft`) |
| `ClientPoolProofs` | `PoolAssumption` | `PooledClientsLive` (`PoolInv`), `CallsKeepTheirClient` (`CallsServed`) |

What the invariants add, and why the properties need it:

- **EventLoop**: `NoLostWakeup` does not say who will still signal. `WorkAnnounced`
  does (if the queue is not empty, the eventfd is signalled, or a thread is
  between push and write, or the loop is still before its next swap), and
  `RoundInv` keeps the pieces of a round apart. The refinement takes the functors
  swapped out followed by those queued for the executor's queue; every step of the loop
  is a step of the executor or a stutter.
- **RpcCall**: every call has one place. Its request is with the thread that sends
  it, queued, on the wire or executed, and never two of these (`SendersOK`,
  `QueuesOK`), its response comes once (`AnswersOK`); `Recorded` ties the table, the server's execution
  and the outcome together, so that a response finds its entry even when it
  overtakes the caller's `Send`. `NotFoundForCause` and the refinement are about steps:
  each is proved from the invariant and one lemma per action.
- **Registry**: `TablesAgree` needs to know where each handler is, since
  `AppendMethod` runs after the unlock (`PlacesOK`, `ProvidersListed`). `ViewComplete`
  needs `Informed`: a discoverer in the table and a provider that has been notified
  of are matched by what was sent, what is queued, or the hosts already read for an
  answer; that an answer replaces what was sent before is why the third case is
  told apart. `ViewBalanced` compares numbers, so `Balance` counts while handlers are under
  way: what a discoverer was sent, what is queued for it and what a handler still
  owes it are no more than the registrations entered, or after a close than the
  notices still to come (`Balanced`). This needs the order of the queue (`InTurn`), that
  who has not asked was sent nothing (`Unasked`), and what an exempted pair would
  have met (`MeetNothing`).
- **Discovery**: its server takes `Registry`'s steps (`ServerInContext`), so `IInv` and
  `Balance` come for free. Each waiting caller's request is in one place (`OnePlace`, by
  counting); what a caller was told and no longer finds has closed (`ToldOK`). The
  cache is compared with what the server sent through a chain of lists (`Leads`): the
  cache, with an answer that a caller holds put in its place, becomes the server's view by
  applying the messages in the inbox one by one. A notice from the client's own worker
  loop goes into the inbox ahead of those that are queued, and the server's view counts
  it at that moment, so the chain holds for shared loops too. At rest the chain has one link, and
  `ViewBalanced` and `ViewComplete` say what it is.
- **Topic**: an object that has left the map never comes back (`Numbered`, `OneName`);
  who is owed a message is among those its sender has left (`PlacesOK`, `OwedOK`);
  what a subscriber was sent and what is queued for it are in the order in which
  sending began (`OrderedOK`). Mutual exclusion (`OneSender`) is what makes that order one.
- **PubSub**: steps of `PubSub` that the server takes part in are steps of `Topic`
  (`ServerInContext`), so that `IInv` comes for free. The client's own invariant
  says that each waiting caller is in exactly one place, and that each message promised
  to the client is owed, queued, in the inbox or shown. Its handlers are steps of the
  server like anybody's; what they and their neighbours write at once is the last
  message of `sent` (`Written`), and the answer follows it.
- **Connection**: the handlers are compositions of functions on the connection's
  fields, and so are the proofs: each function keeps `FieldsOK`, also between two of them,
  where `HandleRead` calls back, and the callback sends and shuts down. The order
  of bytes needs `Coming`: the sends still queued go on where the bytes taken over
  end, which is what partial writes (`WroteOrdered`), replies (`ReplyComing`), a
  queued send that runs (`TailComing`) and a new one (`QueuedComing`) keep.
- **Framing**: `GivenInOrder` does not say what is in the buffer's dead cells, nor why
  the bytes at its front are a length field. `Window` says that the readable cells
  are the last bytes read, one after the other, and is kept by each Buffer operation in
  a lemma of its own (`EnsuredIs`, `PushedIs`, `PoppedIs`, `DroppedIs`); `StreamOK`
  that frames lie one behind the other; and `GivenOK` that the byte after the last one
  taken out begins a frame (`PlacesInStream`) unless one with too long an id was met, so
  that `First` is that frame (`FirstIs`) and `Dispatch` takes out the whole of it
  (`FrameIs`).
- **Http**: `RepliesExact` compares the replies with what the stream asks for, and
  does not mention the context. `Reading(i)` does: the buffer is at the i-th part, none
  before it is refused, the context has of the i-th part's request just what the
  parts before it say (`ContextOf`), and the requests before were answered. `Refused(e)`
  takes its place once the e-th part was refused, and stays. `Waits`, for an idle
  loop, says that nothing more can be told from what was read; only with it does
  `RepliesExact` follow that no reply is late (`NothingDue`). `PartsOK` is the order of
  a request's parts; that more of them never change what a part that was read
  means is `PartsGrow`. Both invariants hold for all three roles together.
- **TimerWheel**: no task lies in two places (`OnePlace`), the task of a live timer is
  in a bucket that comes up no later than its deadline (`InReach`), and no deadline is
  further away than the timer's delay (`ExpireOK`), for delays of any number of rounds.
- **TcpServer**: what a loop has still to run is in the order that takes a connection
  from Establish to its erasure, and the functor that ends the loop comes after
  the Release of everything that lives in it (`InOrder`, `LoopsOK`); `PhaseOK` says
  how far Start, NewConnection and StopInLoop have got, `EndingOK` what is empty by then.
- **ClientPool**: a client that was made is on its way into the pool, in it, lost the
  race for it or was taken out (`EnteredInv`); the one that is being joined has no
  holder left (`OwnedInv`); and who made a synchronous call waits for it (`WaitInv`).

Only model-checked are the liveness properties (`LoopServes`, `AnsweredOrCut`,
`RegistrationReaches`, `DrainEnds`, `MessagesArrive`, `StopReturns`, `CallsReturn`),
because the prover has no rule for fairness and ENABLED here. Every safety property of
the passing runs is proved.

No module declares a RECURSIVE operator. Where a sum over what was sent would have been
one, the messages carry their place in the stream instead, and that these places are
right is part of `StreamOK`.

## 6. Findings

`muduo.hpp:1477`: `assert(_status == CONNECTING)` in `EstablishInLoop` does not
always hold. `NewConnection` queues `EnableInactiveRelease` and `Establish` as two
functors; with a short timeout the worker loop may run the first, see the timer
tick and release the connection before the second is queued. No build file sets
NDEBUG, so the assertion stops the server. `MCConnectionAssert` shows it in a few
steps.

`muduo.hpp:2885`: the HTTP server never closes a short connection. The comment at
`muduo.hpp:2408` calls a request without a Connection field, or with the value
close, a short connection, and the reply to it says `Connection: close`; but only a
refused request is followed by Shutdown. A client that waits for the end of the
stream waits until the connection's inactivity timer, if one was enabled.
`MCHttpClose` shows it with one request.

## 7. Not modelled, and the plan

Not modelled: sockets (their outcomes are choices), `Any`, UUIDs (taken to be
unique), JSON, logging, wording of messages, and the data of messages beyond what
is accepted; of the HTTP server its files, URLs, query parameters and regular
expressions, and a header that comes twice (the first one counts). Of length fields that lie, which nobody who uses
`Serialize` sends, only an id longer than its frame is modelled. A `total_len` of less
than the two other fields, a negative one, or a negative `id_len`, which the check
at `net.hpp:82` compares as unsigned, runs into an assertion or an exception of the
string that is made of it; any other that is too large behaves as a frame
beyond the limit whose bytes never all come. Parameters that are neither an
object nor null make jsoncpp's isMember throw in the worker: calls of that kind are
left out. So are RemoveService and TcpServer's TimerAdd, which nobody calls, and
the destruction of a server or client object while its threads run: the order in
which members are destroyed (a loop thread that still runs while a member it uses
is gone, a descriptor that both the TcpClient's Socket and its Connection hold) is
only listed under hazards.

The order in which the modules were and will be written:

1. *Core* (done): `EventLoop` with its proofs; calls (`RpcCall`); the registry and
   its client; topics and their client; connections, timers, framing, the pool.
2. *Server and HTTP* (done): `TcpServer` with its loop threads; `RpcServer`'s
   registration in `RpcCall`; `Http`; all of `Topic` and `PubSub` in one run.
3. *Proofs* (done): safety of calls, the registry's tables, topics and their client,
   connections, timers, the server's threads and the pool; the refinements of
   `SerialExecutor`, `AtMostOnceCall` and `Deadlines`, and `PubSub`'s of `Topic`.
4. *Proofs of the registry's numbers and of its client* (done): `ViewBalanced`, and
   `Discovery` on top of `Registry`.
5. *Proofs of what is read from a connection* (done): `GivenInOrder`,
   `RefusedForCause` and `RepliesExact`, for which a message in the stream was first
   given its place in it, and a part of a request its request.

6. *Shared loops and what cannot be decoded* (done): clients that share a worker loop
   with providers or publishers, or publish themselves, in `Discovery` and `PubSub` and
   their proofs; each way `LVProtocol::OnMessage` fails, in `Framing`; connections used
   by other threads, in `TcpServer`.

Two discovering clients at once are covered by the proofs, but in no run together
with a client's Discoverer. What is left is what these models leave out: above, and under hazards in
`PROJECT.json` those that no property covers.
