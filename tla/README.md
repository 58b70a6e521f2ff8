# PyQuant low-latency trading: a TLA+ model

The repository's program is a small electronic exchange and the client that
trades on it, in C++, under `src/QuantCpp/src/LowLatencyTrading` (abbreviated
`$L` below). Every stage is a thread that polls single-producer,
single-consumer queues; TCP carries orders, UDP multicast carries market data.
This directory holds TLA+ modules translated from that code, TLC configurations
that check them on small instances, and theorems that TLAPS proves for every
instance. `PROJECT.json` lists the runs, the lines each definition models, the
hazards and the findings.

## The system

    client process                          exchange process
    --------------                          ----------------
    strategy --requests--> OrderGateway --TCP--> OrderServer
        ^                      |                    | FIFOSequencer
        |<-----responses-------+                    v  (LFQueue)
        |                                      MatchingEngine
        |                                           | one MEOrderBook per ticker
        |                  responses (LFQueue) -----+----> OrderServer --TCP--> OrderGateway
        |                  market updates (LFQueue)-+
        |                                           v
        |                                   MarketDataPublisher --UDP incremental-->
        |                                           | (LFQueue)                    |
        |                                           v                              v
        +---- market updates <--- MarketDataConsumer <--UDP snapshot-- SnapshotSynthesizer

| component | state | operations | interacts with |
|---|---|---|---|
| `MemPool` ($L/common/mem_pool.hpp) | blocks with a free flag, next free index | allocate, deallocate | called by order book and synthesizer, one thread each |
| `LFQueue` ($L/common/lf_queue.hpp) | ring, write index, read index, element count (three atomics) | getNextWriteTo, updateWriteIndex, getNextToRead, updateReadIndex | every pair of threads |
| `MEOrderBook` ($L/exchange/matcher) | order and level pools, price index, two rings of levels, a ring of orders per level, client-order index | add, cancel | called by MatchingEngine; sends responses and market updates |
| `MatchingEngine` | the books, three queues, `run_` | processClientRequest, sendClientResponse, sendMarketUpdate, run | OrderServer, MarketDataPublisher |
| `FIFOSequencer` | pending requests with receive times | addClientRequest, sequenceAndPublish | called by OrderServer |
| `OrderServer`, `TCPServer` | sockets, the socket, next expected and next outgoing sequence number per client | poll, sendAndRecv, recvCallback, recvFinishedCallback | TCP, FIFOSequencer, response queue |
| `MarketDataPublisher` | next incremental sequence number | run | update queue, multicast, synthesizer's queue |
| `SnapshotSynthesizer` | a copy of every live order, last sequence number | addToSnapshot, publishSnapshot | synthesizer's queue, multicast |
| `MarketDataConsumer` | next expected number, recovery flag, two maps of queued messages | recvCallback, queueMessage, checkSnapshotSync | multicast, the strategy's queue |
| `OrderGateway` | two sequence numbers | run, recvCallback | strategy's queues, TCP |
| `OrderManager`, `RiskManager`, `PositionKeeper`, `FeatureEngine` | one order per ticker and side, position and P&L | newOrder, moveOrder, cancelOrder, onOrderUpdate, checkPreTradeRisk, addFill, updateBBO | the strategy thread |
| `Logger` | queue of log elements | pushValue, log, flushQueue | every thread, and a writer of its own |
| sockets, `thread_utils`, `time_utils`, `macros` | buffers | sendAndRecv, send, createAndStartThread, ASSERT | all of the above |

`trade_engine.cpp`, `market_maker.*`, `liquidity_taker.*`,
`$L/trading/strategy/market_order_book.cpp` and the two `main` files are empty.
The tree does not compile as it stands (for instance `cosnt` and the undeclared
`obj_block` in `MemPool::deallocate`); where a line cannot be compiled the model
follows the statements and ASSERTs around it, and the module says so.

### What is hard about it

- *Interleavings without locks.* Writer and reader of a queue touch the same
  slots; the publisher reads a slot once more after it has given it back
  (`market_data_publisher.cpp:60-64`).
- *No back-pressure.* `updateWriteIndex` does not look whether the ring is
  full, and the ASSERT of `updateReadIndex` cannot notice.
- *Intrusive rings.* The book's lists are doubly linked, circular and sorted,
  with raw pointers from two index maps into two pools; a mistake shows only
  many requests later.
- *Pools at their limit.* The pool ends the process in the call that hands out
  its last block, after the order that needed it has been accepted.
- *Loss and recovery.* Multicast loses and reorders; the consumer rebuilds the
  book from a snapshot and the increments that follow it. TCP sends may be cut
  short, and a session with a gap in its numbers is never repaired.
- *Threads started by reference and never joined*, and shutdown by a flag and a
  pause: a component is destroyed on the assumption that its thread has ended,
  and its logger on the assumption that nobody logs any more.

### What makes each component correct

- MemPool: never hands out a block in use; gives up only when it is full.
- LFQueue: whole messages, once, in order, and eventually.
- MEOrderBook: price-time priority; never crossed; maps, rings and pools agree;
  each client is told of every change of its orders, to the unit, and of nothing
  else; `add` returns; an id used twice harms only the order that had it.
- FIFOSequencer, OrderServer, OrderGateway: requests of a client reach the
  engine once, in its order, and in order of receive time between clients;
  responses likewise.
- Publisher and synthesizer: a published snapshot is the book as of the
  sequence number it names; the synthesizer's ASSERTs hold.
- MarketDataConsumer: what it forwards is the incremental stream with gaps
  bridged by snapshots; it leaves recovery.
- Logger: every line is written, as its format says, before the logger is gone.
- Construction and destruction: no thread uses what has been destroyed, and the
  destructors return.
- OrderManager and its managers: at most one live order per side, state follows
  the responses, no fill on its way can carry the position past its limit,
  profit adds up to what was paid and received.

## The modules

| module | what it is |
|---|---|
| `MemPool` | the pool: the scan for the next free block, both operations |
| `FIFOChannel` | what two threads count on from a queue |
| `LFQueue` | the ring, one step per access to an atomic, and two per slot assignment |
| `ContainerProofs` | the invariants of both, and that the ring is a queue, for every size |
| `RecursionProofs` | functions defined by recursion over a sequence, for the proofs about sums, filters and replays |
| `SortedRing` | the shape of the book's lists |
| `PriceTimeBook` | what an order book promises, without data structures |
| `ClientOutcomes`, `ClientExchange` | what the exchange promises one client: open orders and responses |
| `MEOrderBook` | the book, pointer by pointer, and the engine's dispatch |
| `MCMEOrderBook` | its instances for TLC |
| `MEOrderBookProofs` | the book's invariants and what it implements, for every instance |
| `OverrunQueue` | the queue as a sequence, overruns included, for the compositions |
| `MarketUpdates` | what the messages of the market data streams mean |
| `MarketDataPublisher`, `SnapshotSynthesizer` | the two threads behind the matching engine |
| `MarketDataFeed` | what clients count on from the exchange's market data |
| `ExchangeFeed` | `MEOrderBook`, publisher and synthesizer, composed |
| `ExchangeFeedProofs` | that nothing is lost between the three, and what they send clients, for every instance |
| `MarketDataConsumer` | the client's side of market data |
| `MarketDataRecovery`, `MCMarketDataRecovery` | `MarketDataFeed`, a lossy network and the consumer; instances |
| `MarketDataRecoveryProofs` | what a client is given until the first gap and after it, for every instance |
| `TCPStream` | what `TCPSocket::sendAndRecv` does to a stream |
| `OrderGateway`, `OrderServer` | the two ends of the order connection |
| `OrderSession`, `MCOrderSession` | gateways, connections, server and engine, composed; instances |
| `OrderSessionProofs` | order of requests and responses, for any gateways and clients |
| `OrderManager`, `PositionKeeper` | the strategy's orders with their risk check; position and profit |
| `Strategy`, `MCStrategy` | the two with the exchange and the queues between; instances |
| `StrategyProofs` | that the manager's orders agree with the exchange's and the position keeps its limit, for every instance |
| `LogFormat` | what `log()` pushes for a format and its arguments, and what a line should look like |
| `Logger` | the logger's queue, its writer thread, constructor and destructor |
| `Lifecycle`, `MCLifecycle` | threads, pauses and destructors of all components, with their loggers; instances |
| `LifecycleProofs` | that no thread is left dangling and every line logged is written, for any number of messages |

**MemPool.** A block is its index in `store_`; the objects are left out.
`Allocate` is `allocate()` with the scan at its end; the scan's loop is one
step since only one thread uses the pool. `status` is the ASSERT that ended the
process, if any.

**LFQueue.** The producer's calls are `BeginWrite` (getNextWriteTo and the
first half of the assignment), `FinishWrite`, `AdvanceWriteIndex`, `Publish`
(the count); the consumer's `GetNextToRead`, `Use`, `AdvanceReadIndex`,
`Release`, and for the publisher's second read `UseAgain`. Between the halves
of an assignment the slot is `Torn`. `MaxBacklog` stands for what the code does
not have, a check that the ring is full: it is the largest number of messages
waiting that the environment is assumed to allow.

**MEOrderBook.** An `MEOrder` is named by its market order id and an
`MEOrdersAtPrice` by its price; 0 is `nullptr`. `AddOrdersAtPrice`,
`RemoveOrdersAtPrice`, `AddOrder`, `RemoveOrder` assign the same pointers as
the functions they are named after; the walk for the insertion point is
replaced by the place it ends at (`Target`). A request is cut at the
iterations of `checkForMatch`'s loop (`Add`, then `Match` as often as it takes,
then `Rest`, `Done` or `RunOutOfSpace`), because each sends messages to other
threads; no other request is taken in between. `responses` and `updates` are
what the last step sent. The two index maps are not initialised by the
constructor; the book is larger than 2 GB, so that its memory comes fresh from
the system, and they are empty at the start for that reason only. Requests are NEW or CANCEL:
any other type ends the exchange, and only `OrderSession` knows where one can
come from (`EngineFails`). Two observations the model keeps as the code has them:
the resting order's owner is told of a fill under the market order id of the
*incoming* order (`me_order_book.cpp:303`), and TRADE carries the incoming
order's side. `Spec` has clients that do not use the id of an order that rests,
as `OrderManager` does not; `SpecReusing` has clients that do, which `add()`
lets pass.

**ClientExchange.** One client's view of the exchange: the orders it has open
and what the last step told it. `Client(c)` in `MEOrderBook` reads both off the
book, the request in hand and the responses, and the book is shown to implement
it for every client; `ClientOutcomes` holds what may become of the orders, and
`Strategy` is checked against the same operators. Market order ids, tickers and
other clients are left out.

**ExchangeFeed.** An engine step is a step of `MEOrderBook`, whose `updates` go
into the publisher's queue; the publisher's loop body is two steps (`Send` with
updateReadIndex, `Forward` with the second read of the slot); the synthesizer
applies an update or publishes (`AddToSnapshot`, `Stop`, `PublishSnapshot`).
When the clock calls for a snapshot is left open. `MaxOutgoing`
keeps one slot of the publisher's queue unused: with the ring filled to the brim
its second read can get a newer update. `MaxToSynthesizer` lets the synthesizer
fall behind by more than its queue holds, as it may while it publishes: newer
updates then take the place of older ones (`Overrun`), and its ASSERT on the
number ends the exchange before another snapshot goes out. The code has nothing
that keeps either bound.

**MarketDataRecovery.** `MarketDataFeed`, which `ExchangeFeed` implements, sends;
datagrams are lost (they stay in flight), reordered, and delivered again.
`Consumer!Handle` is one message of recvCallback's loop with all it calls. A
datagram of the incremental stream holds one message; a snapshot is cut into
datagrams where publishSnapshot calls sendAndRecv. `McastSocket::init` is a
stub that opens nothing; it, `join` and `leave` are taken to do what their
callers expect. `forwarded` keeps the number with each update, which the
strategy does not get. The updates fed in are `MarketUpdate`s, records of the
fields of `MEMarketUpdate`: what the stream says of the book is not assumed, so
that a snapshot is cut from whatever a stream of such records leads to.

**OrderSession.** A gateway is one `OrderGateway` object; a client that is
restarted, or runs twice, is a second gateway of the same client, and the first
may stop at any point. `Run` is an iteration of the gateway's loop. The
server's loop is cut at every socket (`Poll`, `ReadSocket`,
`SequenceAndPublish`, `SendResponses`); `visiting` is the place in it.

A stream is told in parts of messages (`TCPStream`): the parts of the
`seq_num_`, which comes first in the packed structures, those of the client id,
and the others. `send` takes as many as the kernel has room for, and the rest is
dropped, as the code drops it; before the handshake is over everything is
dropped. If what is dropped begins inside a message, the stream is torn: both
`recvCallback`s go on cutting records of the size of a message out of it, and a
record may then begin in one message and end in the next. Such a record is
treated as the code treats it. Its number and client id are looked at, and if
they are as expected it is taken for a message. A field whose bytes are of one message, in their place,
says what it says there; of any other the model allows the value that is
accepted and one that is not, for a client id any client's and one out of
range. The request or response it makes is `Spliced`. The engine ends the
process if the type of such a request is invalid (`EngineFails`) and otherwise
serves the client that it names. A client id out of range indexes past the
server's arrays, and so may a ticker or an order id of such a request past the
engine's; of the first the model has the record refused or the process
ended, of the second nothing: what memory that is not theirs holds, and what
comes of writing to it, is not modelled.

Receive times are always 0, since the stamp is asked for with one option and
looked for with another; the sort is taken to keep the order of up to 16 equal
elements (`StableUpTo`), which libstdc++ does and the standard does not promise,
and may leave more in any order (`reordered`).
`AcceptsLast` is an assumption the code does not meet, see the findings: the
run `session` takes poll() to accept when it is told of a connection, because
otherwise no session begins.

**Strategy.** One ticker, one thread. `MoveOrders`, `UpdateBBO` and
`HandleResponse` are the calls the empty trade engine would make, the last of
them addFill and then onOrderUpdate, as the parameters suggest. The array of
orders has the place for `Side::INVALID` which a rejected cancel's response
leads to. The exchange is `ClientOutcomes`, what `MEOrderBook` is
shown to do to one client's orders: accept, fill at the order's price or a
better one, against another client or against the client itself, cancel or
reject; fills may come at any time after acceptance. Requests and responses travel in order and
without loss: `session` says that of a connection on which no send falls short
and rounds that the sort leaves in order. `PositionKeeper` computes in integers, the code in doubles; that
nothing is lost in a division is the first part of `TotalPnl`. `TimeLogged` is the
second assumption the code does not meet: with the arguments the code passes,
`LogFormat` finds the line of `newOrder` fatal.

**Logger, LogFormat.** `Log` is the scan of `log()` and its recursion, over a
format told in characters, of which only `%` matters, and arguments told as
values; what it pushes ends in `Invalid` where the code calls FATAL. `Rendering`
says the same without a scan: pair up the `%` signs of every run of them. The
writer takes one element at a time (`WriteNext`), flushes when there is none and
looks at `running_` again. A line is pushed in one step, since the only other
thread at the queue is the writer, which takes its elements singly anyway.

**Lifecycle.** What a main() would do is a sequence of statements (`todo`),
composed of the constructors, `start()` and destructors of the components
(`NewMatchingEngine`, `StartMatchingEngine`, `DeleteMatchingEngine`, ...); a
statement is an action of the owner (`Create`, `AwaitThread`, `Stop`, `Pause`,
`AwaitQueue`, `ClearRunning`, `Join`, `Free`), the loops of the six `run()`s are
the threads (`Begin`, `LookAtRun`, `Idle`, `Serve`), and the writers those of
`Logger`. A message is counted and not told apart: a request goes from the
server to the engine, and from there responses to the server and updates to the
publisher and on to the synthesizer. The engine looks at `run_` before every
request; the others empty their queue first, `run_` or not. A sleep in a
destructor is the only thing that lets a thread end before what it uses is
destroyed; its length is told in turns a thread is sure to have had by then
(`PauseTurns`). The server takes 3 and the engine 2, a gateway 3; the publisher's
must do for the synthesizer too, 4 for the two updates of the run, and grows
with what is in the queues. With one turn less of any of
them `NothingDangles` is violated: seconds are plenty
for a thread with little to do, and no more than that. The order in which main()
destroys the components is external; `Exchange` and `Client` destroy who sends
before who receives. `start()` after `stop()` is not modelled, nor is it used anywhere.

## The runs

| run | question | instance |
|---|---|---|
| `mempool` | can the pool hand out a block in use, or give up with one free? | 6 blocks: the least in which the scan skips a run of used blocks, wraps, and stops in the middle |
| `lfqueue` | does the ring implement a FIFO channel, liveness included; is the publisher's second read safe? | 3 slots, at most 2 waiting: indices wrap several times |
| `book` | do maps, rings, levels and orders agree; is it a price-time priority book; does each client see the exchange it counts on? | 2 clients with 2 ids, 3 prices wrapping the price index, quantities 1 and 2, 4 orders: partial and complete fills, sweeps over two levels, ids reused |
| `book_small_pools` | is the book sound when ids are used again while their orders rest; does `add` return, with quantity 0 and pools that run out? | 2 ids, 4 orders, 3 levels, pools that hold 3 orders and 2 levels |
| `feed` | are stream and snapshots what `MarketDataFeed` says; does the synthesizer keep up and stop only for the reasons known, and in time? | 2 ids, 1 price, 3 market order ids of which the third does not fit the synthesizer; queues of 3, the synthesizer's overrun by one |
| `recovery` | is what the strategy is given the stream, with gaps at snapshots? | 3 updates, 2 snapshots, 1 duplicate, any loss and order |
| `recovery_completes` | when recovery is complete, are the snapshot's orders passed on, or at least is recovery over? **Neither** (findings) | 4 updates, 2 snapshots |
| `session` | are requests and responses in order, once and complete, and answered; what does a message cut short do? | 3 gateways of 2 clients, two of them at a time, 3 requests, messages of 3 parts, one stream torn, at most 2 pending and 1 left in order by the sort: spliced messages, client ids claimed and out of range, late handshakes, a client twice, a round that is reordered and one that overflows |
| `session_accept` | is a connection accepted? **No** (finding) | as `session`, the accept loop where the code has it |
| `strategy` | do manager, exchange and queues agree; does the position keep its limit; does profit add up; is nothing pending for ever? | 3 orders of 2 (3 are too many), position limit 2, two prices: partial fills, crossing cancels, a position that turns, a loss that is too large |
| `lifecycle` | does a thread outlive what it uses; is every line written; do the destructors return? | the exchange with one request of up to 2 updates, or a client with one request or datagram; the loggers of engine, synthesizer and gateway; at its destruction the book logs any format of up to 3 characters with up to 2 arguments |
| `strategy_log` | does the process survive its first order? **No** (finding) | as `strategy`, the log lines as the code has them |

Bounds: `MaxOrderId`, `MaxUpdates`, `MaxSnapshots`, `MaxDuplicates`,
`MaxRequests` and `MaxOrders` bound what the environment does, which the code
lets go on without end; `MaxBacklog`, `MaxOutgoing` and `MaxToSynthesizer` are
explained above, `PauseTurns` too; `MaxTorn` is how many streams may be torn and
`Launches` which gateways there may be together, both for the size of
the state space; `Size` 3 has a part for the number, one for the
client id and one for the rest, so that a message may be cut behind each.
`StableUpTo` and `ME_MAX_PENDING_REQUESTS` are 16 and 1024 in the code and 1 and
2 in the run, in the same order, so that rounds of each kind occur: one the sort
leaves alone, one it does not, and one that is too long; `Logged` chooses whose loggers are looked at:
one whose thread handles requests, one without a pause of its own, and one of the
client's. They leave room for every action and every branch of one, the
failures included. Deadlock checking is off where such a bound, or an ASSERT
that ends the process, stops the model.

### Findings

- `TCPServer::poll` accepts nobody. It notes the listener's event and
  `continue`s; the accepting loop is further down in the same loop body. It
  would be reached with the event of an accepted socket behind it in the batch,
  of which there is none (`session_accept`).
- The log lines of `newOrder` and `cancelOrder` have six places and five
  arguments: `Logger::log` calls FATAL, and the client ends with its first order
  sent (`strategy_log`).
- `checkSnapshotSync` gives the strategy none of the snapshot's orders, and
  leaves the consumer in recovery for good: one step does both
  (`recovery_completes`).

Observed, and not refuted by a run because nothing in the repository says
otherwise, or because it takes a bound the runs keep:

- `MemPool::allocate` ends the process in the call that hands out the last
  block: a pool of N serves N - 1.
- A queue that is overrun loses messages without a word; `updateReadIndex`'s
  ASSERT does not notice. With the ring full, the publisher's second read can
  hand the synthesizer the wrong update.
- A snapshot with a datagram missing in its middle is taken for complete.
- After a send that fell short between two messages, the receiver refuses every
  later one; the session is never repaired. A client that reconnects is refused
  too.
- After a send that fell short inside a message, the receiver cuts its records
  from the wrong place on. One that was cut behind its `seq_num_`, a request behind
  its client id too, is accepted with its end from the message that follows, and a later record may be
  accepted by chance: the engine is given a request, or the strategy a response,
  that nobody made. It may be for another client, whose id it then takes if
  no socket has it yet. `RequestsInOrder` and `ResponsesInOrder` confine it to
  the torn stream, to numbers that follow each other, and to the client's own
  socket.
- Nobody looks whether a client id, ticker or order id that came in is in range.
- `std::sort` with equal keys may exchange two requests of one client in a round
  of more than 16.
- `open_vwap_` is read before it is written, so that `total_pnl_`, and the
  check against the largest loss, are off by what the memory held (`TotalPnl`
  says by how much).
- The snapshot's period, `60 * NANOS_TO_SECS`, is 60000 seconds
  (`NANOS_TO_SECS` is 10^12), and one pool of the size of a book's serves the
  synthesizer for the orders of all tickers.
- `OrderGateway::start` says `run_ = start`, which names the member function and
  does not compile; it is taken to be meant as `true`.
- `stop()` may leave messages in the queues: the engine's requests are not
  handled once `run_` is clear, nor is an update that reaches the publisher after
  its last look.
- An order whose id is used again can no longer be cancelled, nor can the newer
  one once the older is gone (`SoundWithReuse` says that no more harm is done).
- A rejected cancel's response has `Side::INVALID`. It leads to an unused place
  of the order manager's array and does no harm.

### Fairness

`LFQueue`: weak fairness of the producer's steps within a publication and of
the consumer's polling loop: both are plain loops of a running thread
(`while (run_)`), and nothing obliges a producer to begin a publication.
`MEOrderBook`: weak fairness of `Proceed`, the engine's thread inside `add()`,
which has no blocking call; nothing obliges clients to send.

`ExchangeFeed`: weak fairness of the publisher's loop and of the synthesizer's
reading; none of snapshots, nor of the engine. `OrderSession`: weak fairness of
the server's loop, of the engine and of a gateway's sendAndRecv; none of
strategies sending nor of handshakes. `RequestsAnswered` excuses a server that
has ended, a client that belongs to another gateway, and a send that fell
short. `Strategy`: weak fairness of handling a response and of the exchange
taking a request; none of trades, moves or prices.
`MarketDataRecovery` has none: what may be lost need never arrive. `Lifecycle`:
weak fairness of main(), of every thread and of every logger's writer, all of
which the operating system schedules; none of requests or datagrams.

## The proofs

Every theorem is for all values of the constants that satisfy the named
assumptions of the modules (`MEOrderBookAssumption` and so on: types, and that
`Null`, `Torn` and `None` are none of the things they are told from), and what
is said below to be assumed beyond that.

*MemPool* (in `ContainerProofs`): `PoolTypeOK`, `NextIsFree`
(inductive with it) and `OutOfSpaceOnlyWhenFull`, for every size of the pool but
0, which the constructor's ASSERT excludes.

*LFQueue* (in `ContainerProofs`): `NoOverwriteAlways`, `SecondReadAlwaysTheSame` and `RingIsAQueue`,
assuming `HeldBack`: the backlog plus the slot read after release fits in the
ring. The invariant relates the distance between the indices, modulo the
capacity, to the element count and to where the two threads are in their calls;
two lemmas turn `%` into case distinctions first. `RingIsAQueue` is the safety
part of `ImplementsFIFOChannel`: `Publish` appends and `Use` takes the head, and
each of the other eight steps leaves the queue as it is, though some move an
index and some an offset into it. It needs `Written`, that the producer's
message stays in its slot until it counts.

*MEOrderBook*: six invariants - `TypeOK`, `IndicesExact`, `LevelsMatchOrders`,
`LevelsSorted`, `OrdersInTimeOrder`, `NotCrossed` - for every set of clients,
ids, prices and quantities, assuming `NoAliasing`: no two prices share a slot
of the price index (`priceToIndex` is `price % 256` and is not checked). None of
the six is inductive alone: removing an order is safe only if the level found
through the price index is the one whose ring it is in (`IndicesSound`,
`LevelsMatchOrders`), unlinking needs the ring (`OrdersInTimeOrder`), and
adding one needs that the incoming order crosses nothing, which
`checkForMatch` establishes only for the best level and `LevelsSorted` extends
to the others. `IInv` is `BookOK`, all of these but for ids, with `RequestOK`:
market order ids grow, and the request being matched has the newest and no entry
in the index. The argument is layered: a first part says what each list
operation does to a sorted ring (`RingGap`, that the walk finds its place, uses
that a set of naturals has a least member); four lemmas, one per branch of
`addOrder` and `removeOrder`, carry the properties across it; `NextIInv` has
one step per action. `BookOK` says nothing of ids that are in use twice, so it
is an invariant of `SpecReusing` too (`ReuseIsSound`); `NamesOK`, that every
live order is found by its id, is added for `Spec`.

`PriceTimePriority` and `PriceTimePriorityWithReuse` prove the refinement of
`PriceTimeBook`, step by step: the set of resting orders is read off the pool,
`addOrder` adds one to it, `removeOrder` takes one from it, and the order
`checkForMatch` takes, the first of the best level, is one that no other
precedes (`BestIsFirst`), which is `LevelsSorted` and `OrdersInTimeOrder`
together. `EachClientIsDealtWith` proves the refinement of `ClientExchange` for
every client: who owns the two orders of a trade, which may be one and the same,
decides which responses the client sees, and the outcomes are those of
`ClientOutcomes`, which `Strategy` takes from there. `PriceTimeBook` and
`ClientExchange` state no fairness, so this is all of the two properties.

*ExchangeFeed*: all its invariants, `TypeOKAlways`, `NothingLostOnTheWayAlways`
and `StopsOnlyOverrunOrOutOfIdsAlways`, and `ImplementsFeed`, the refinement of
`MarketDataFeed`, assuming the book's `NoAliasing` and `HeldBack`: the publisher
is never a whole queue behind the engine (one slot fewer, as it has given one
back before it reads it again). Of the synthesizer's queue nothing is assumed: the
model lets it be overrun, and what is proved covers that. None of the four is
inductive. `FInv` says that there is a history `T` of all updates sent, with the
orders `h` after each of them, such that every update fits the orders before it;
the book is what the history has at its end (`Shows`), the publisher's queue is
its part from `next_inc_seq_num_` on (`PublisherOK`), the synthesizer's the part
before that (`QueueOK`), and its copy is what the history has at
`last_inc_seq_num_` (`CopyOK`). After an overrun the number at the head of
the queue is too high, so nothing is applied any more, which is why no snapshot
goes out that has missed an update. `FInv` was checked with TLC on the run's
instance before it was proved. The book's side comes from `MEOrderBookProofs`: each
step of the engine sends at most a trade and one other message, which says what
has become of the one order it is about (`RemovalTold`, `ReductionTold`,
`AdditionTold`). For the refinement, replaying the stream from no orders
gives the history's tables (`ReplayedTable`), and a snapshot does not depend on
how many places the table has beyond the last order (`SameSnapshots`).

*MarketDataRecovery*: `ExactUntilTheFirstGapAlways`: what the strategy has been
given before the first gap is the incremental stream, for every set of updates
and any loss, reordering or duplication. It needs that a message keeps its number
from the publisher to the client's buffer (`NetworkOK`, `InboundOK`), that the
numbers are the places in the stream (`StreamOK`), and that no snapshot datagram
is received before recovery has begun (in `ForwardedOK`).
`TypeOKAlways` and `GapsEndAtASnapshotAlways` need a second invariant, `RInv`,
which holds in recovery too. A number is at one place at most: forwarded, in the
buffer, or in one datagram on its way, as long as none comes twice; so what
is queued in recovery is never what has been passed on, and the numbers passed on
grow. What the snapshots consist of is proved from `Replayed`, `InIdOrder` and
`Datagrams`: START can only be first in a datagram and END only last, and the END
that ends recovery carries the number of a snapshot that has been published,
whatever was lost of the rest. Nothing is assumed of the updates but that they
are updates.

*OrderSession*: `TypeOKAlways`, `RequestsInOrderAlways`,
`ResponsesInOrderAlways` and `SocketKnownAlways`, for any number of gateways and
clients, any sizes of message and fields, and whatever the sockets drop or cut
short; nothing is assumed of the load or of how often a stream is torn. None of
the four is inductive, and `IInv` (`InvAlways`) has these parts:

- `StreamsTyped`: what is in a stream are parts of messages sent through it,
  and while it is not torn they are whole messages one after the other,
  so that every record is `Intact`. That is what a spliced record is traced back
  to a torn stream by.
- `Owned`: every request from its record to the engine is of a client that has a
  socket, and has come through it (`Known`), and every response is to a client
  with a socket (`Answerable`); a client keeps its socket. A spliced request may
  claim a client id for the socket it came through; then its owner is that
  socket, and the two properties hold for it too.
- `OnlyOnce`, and `NoneMissing` in `Ordered`: among the requests the engine has
  taken, its queue and the pending ones, each number below
  `cid_next_exp_seq_num_` is there once. Both survive a sort that may leave a
  round in any order, which is where its being a bijection is used
  (`OnceSorted`, `CoveredSorted`). A round that overflows ends the exchange in the
  middle of `recvCallback`, with the number counted and the request gone: so
  none is missing only while the exchange runs.
- `Underway` in `Ordered`: if no round has been reordered, they are in the
  order of their numbers, from the next one the engine is to take on.
- `Numbering`: the responses that wait hold, for each client, the next ones after
  those that have been numbered; so the nth is sent as number n (`Numbered`).

The gateway's side needs less: it counts what it passes on, and a whole message
with the number it expects is the response of that number (`Received`).

*Strategy*: `OrdersAgreeAlways`, `PositionWithinLimitAlways` and
`TypeOKAlways`, for every set of prices and clips, any limit and however many
orders are sent. `OneOrder` tells what the requests on their way, the book and
the responses on their way can hold together of the manager's one order of a
side: it is asked for, or open, or answered, and what is left of it is its
quantity. The limit follows: the manager checks the position when nothing of the
side is outstanding, and `Sound` keeps position plus outstanding within it on
each side.

*Lifecycle*: `LifecycleTypes`, `NoThreadIsLeftDangling` and
`EveryLineIsWritten`, for any number of requests and of updates of one, and
whichever loggers are looked at. They assume `Deployed`: main() is `Exchange`
or `Client`; lines are told in characters and values of `Elements`, none of
which is the `Invalid` that FATAL is modelled by; and the pauses suffice.
`PausesSuffice` says what that takes: two turns for an engine or a consumer,
the messages there may be and two more for a server or a gateway, and all
updates there may be and two more for the publisher, whose pause is the
synthesizer's too. The run has exactly these numbers, and `NothingDangles`
fails there with one less of any. The code's seconds are enough as long as a
thread gets through what is in its queue meanwhile; no line of the code sees to
it.

`LifecycleInvariant` is in parts because no property here holds by itself. That
a destructor finds the thread ended follows from `TurnsCount`: during a pause,
the turns a thread has had and those it can still take are at most the pause's,
where `Counts` bounds what it can still be sent by the requests and updates not
yet made. That argument starts from zero turns at the pause's beginning, and
from the thread having been told to stop, which main()'s remaining statements
owe it: `Orderly` and `Prepared` say that of a list of statements (nothing is
started again once it is stopped, a thread is stopped before the pause for it,
...), `ExchangeIsOrderly` and `ClientIsOrderly` show it of the two programs
with any set of loggers, and `Owed` joins it to the threads' state. `Buried`
keeps what has been destroyed as it was, and `Waiting` is the statement main()
is at. The logger needs that nobody logs between the wait for the queue and the
join, which is the same fact about threads once more; `LogsKept` says that file
and queue together are the lines logged, so the empty queue and the ended
writer make it the file alone. `LogIsRight` is the scan of `log()` against
`Rendering`, for formats and arguments of any length: it holds for the rest of
the format from any character on, which is shown from the last one backwards.

*RecursionProofs* is what sums (`Total`), filters (`InSequence`), concatenation
(`FlattenSeq`), the scan of `log()`, replays and snapshots (`Replayed`,
`InIdOrder`, `SnapshotOf`) need: a function defined by recursion over a sequence
exists and is unique. It is shown from the least member of a set of naturals,
without an induction theorem, which the provers here cannot instantiate.

Only model-checked:

- everything that says *eventually*, that is the liveness part of
  `ImplementsFIFOChannel`, `AddReturns`, `SynthesizerCatchesUp`,
  `RequestsAnswered`, `PendingIsResolved` and `ShutdownCompletes`: temporal
  properties under fairness are out of the prover's reach;
- `TotalPnl`: the averages are exact for the prices of the run, which are
  multiples of a power of two; for all prices it is false in integers, and
  doubles are not modelled.

## Plan

Done: every module, every run, and the proofs above, which cover each safety
property of the runs but `TotalPnl`.

Left for whoever extends this: a price index with two live prices in one slot,
and a snapshot received in part, which are hazards no property covers yet (see
`PROJECT.json`); and the trade engine, when it is written.

## Not modelled

Clocks, sockets below the level of parts of messages, the sizes of socket buffers,
printing (`toString`'s FATAL check on the order of prices is `LevelsSorted`), features (one-line formulas), the client's own
order book, whose functions are declared and not defined, and the empty files.
Two prices that share a slot of the price index: the model tells a level by its
price, and is faithful only while the code's two ways to a level, by the index
and by the ring, lead to the same one.
The queues to and from the engine are taken not to fill up in `OrderSession`,
client order ids to stay below `ME_MAX_ORDER_IDS` (the book's `at()` would end
the exchange). A process that crashes is one that takes no more steps; nothing
is kept on disk. Prices and quantities are unbounded integers; that no quantity
falls below 0, where the code would wrap round, is part of what is checked.
