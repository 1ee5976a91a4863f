# A specification of devnet-explorer

devnet-explorer shows the prover jobs of a chain on a web page while they run.
Notifications from PostgreSQL are fanned out to browsers as server-sent events;
beside the stream there are statistics, a search, and a page for each
transaction. The modules here describe the behaviour of that program, TLC
checks them on small instances and TLAPS proves what matters most for every
value of the constants. Paths are relative to the repository's `src/`.

## 1. The system

### Components

| component | state it keeps | operations | must be true of it |
|---|---|---|---|
| event buffer `api/event_buffer.go` | ring `head`, index `headMap`, `headIndex` | `add`, `writeAllToCh` | ring and index agree; only the oldest transaction is lost; a job never goes back; the replay is complete and in order |
| broadcaster `api/broadcaster.go` | the member map and the ring under `clientsMu`; one bounded channel per member; `done` | `Run`, `broadcast`, `Subscribe`, unsubscribe, `Stop` | each wanted event is delivered, pending or skipped, once and in order; no send on a closed channel; slow clients delay and never block |
| HTTP handlers `api/api.go` | none; `stream` holds a subscription | `index`, `txPage`, `stats`, `table`, `stream` | each connection unsubscribes; all return at the end |
| server `api/server.go` | listener and open requests | `Run`, `Stop` (Shutdown) | requests are drained before the process ends |
| runner `app/runner.go`, `app/app.go` | one channel closed once; two goroutines per component | `Run` | the first return stops all; the process ends |
| signal handler `signalhandler/` | a channel of one place | `Run`, `Stop` | an interrupt is obeyed, none panics |
| statistics cache `store/cache/` | an `atomic.Value` with a map | `Run`, `refresh`, `CachedStats` | what is served comes from one refresh; it follows the database |
| aggregator `stats/aggregator.go` | `lastRan`; table `daily_stats` | `Run`, `Stop` | one row a day, over crashes and failures |
| store `store/pg/` | channel of 1000 events, connection pool, the tables | `Run`, `Stats`, `Search`, `TxInfo`, `LatestDailyStats`, `AggregateStats`, `Stop` | the answers agree with the tables and with each other |
| mock store `store/mock/` | queue of jobs under way, map of pages, all events, a channel | `Run`, `Search`, `TxInfo`, `Stop` | what is found or shown has a page that tells of it |
| page in the browser `api/templates/`, `api/assets/` | the rows shown, the query of the stream, the connection | insert, replace, search, visit, reconnect | it shows what the ring has; rows are neither doubled nor set back |

### How they interact

`main` calls `app.Run`, which builds the six components and hands them to the
runner in the order store, cache, aggregator, server, broadcaster, signal
handler. The runner starts two goroutines for each: one runs `Run` and, when it
returns, closes a channel all share; the other waits for that channel and calls
`Stop`. The process ends when all twelve have returned.

The store receives notifications and sends events into a channel of 1000. The
broadcaster takes them one by one, adds each to the ring and sends it to the
channel of every member whose filter accepts it, all under one mutex. A handler
per connection drains its channel into the response without the mutex. The
cache and the aggregator query the store at ticks of their own, and the other
handlers query it (or read the cache) for each request. The only things shared
between goroutines are the channels, what `clientsMu` protects, the
`atomic.Value` of the cache and the database.

### What is hard

* broadcasts, replays, and connections that come and go interleave at every
  send, with channels that fill up, a retry with a timeout and clients that do
  not read (`Broadcaster`);
* a ring and an index that must agree over eviction, updates and events out of
  order (`EventBuffer`);
* a refresh of several queries with days passing, rows added and failures
  between any two (`StatsCache`);
* crashes, restarts and a lost acknowledgement around a row that no key
  protects (`Aggregator`);
* start, failure, interrupt and stop of six components in any order
  (`Lifecycle`);
* pages made of several queries without a transaction, and one notion computed
  in four places (`TxInfo`, `Search`);
* rows in a browser that outlive connections, searches and the server, with a
  ring, a log and a map of pages that each tell of the same jobs (`Page`).

`PROJECT.json` lists every hazard at its line.

## 2. The modules

    Model ─ EventBuffer ─ Broadcaster        RecentTxs  (abstract; EventBuffer refines it)
      │       │     │       └ BroadcasterProofs (with EventBufferProofs)
      │       │     └ EventBufferProofs
      │       └ Page ─ (INSTANCE) MockStore
      │           └ PageProofs (with EventBufferProofs)
      └ Jobs ─ TxInfo ─ Search               StatsCache, Aggregator, Lifecycle

    Numbers ─ StatsCacheProofs (with StatsCache), AggregatorProofs (with Aggregator),
              SearchProofs (with Search), EventBufferProofs (with EventBuffer)
    LifecycleProofs (with Lifecycle)

**Model** has the five states and their order.

**RecentTxs** is what the buffer promises, with neither ring nor index: a
sequence of the last `Capacity` transactions in order of arrival, each with the
newest event that did not move it back. `Arrive(e)` is what the window does with
an event.

**EventBuffer** is `event_buffer.go` line by line: `AddNew`, `AddStale` and
`AddUpdate` are the three ways through `add`; `ReplaySlot(i)` is the slot the
loop of `writeAllToCh` visits at `i`, and `ReplayUpTo[i]` what it has sent then. A rendered row is abstracted to the event
it renders. `Contents` is the refinement mapping to `RecentTxs`
(`ImplementsRecentTxs`). Its properties are checked where the ring is in use, in
`Page`, whose `RingIsWindow` says of every step there that the window gets the
event at the head of the channel, or is lost with the server, or stays.

**Broadcaster** extends it. `mutex` is the holder of `clientsMu`. `broadcast`
is split where other goroutines can be seen: rendering, `Broadcast` (lock and
`add`), `Send` for each client in any order (a Go map has none), `RetrySend` or
`RetryTimeout` for each client that was blocked, `BroadcastDone` (unlock).
`Subscribe` is split into `Register`, `Prefill` for each slot and `Subscribed`.
A handler is in one of the places absent, subscribe, select, write, leave,
gone. The loop over `blocked` appends to what it ranges over; Go evaluates the
range expression once, so each client is retried once. A query of a search is
a set of transactions that match; the three fields compared are one. The
variables `log`, `start`, `replayed`, `got` and `dropped` only record history.

**StatsCache** has `refresh` with the two queries of `pg.Store.Stats` for each
range as steps (`CurrentStats`, `QueryRange`), and around them a clock, a
counter, the table of daily rows, the aggregator, which reads the counters and
inserts them in two steps (`ReadCounters`, `InsertCounters`, `taken` in between),
and a database that goes up and down. The four
counters are treated alike and are one. `Published` is the moment the map is
stored. A counter has `Modulus` values, and `Difference` is the subtraction of
two of them; `Growth` is the division of floating-point numbers that follows,
rounded down, with `NaN` and `Inf` for a base of zero. `fell` is history: the
counter has gone down at some time.

**Aggregator** has `Aggregator.Run` with `AggregateStats` in two steps and its
answer in a third. A crash may come at any step; the table is what survives.

**Lifecycle** has the whole application, each component reduced to what makes
its `Run` return, what its `Stop` does and what either waits for. `stopper` is
the goroutine that calls `Stop`. A handler asks the store and then writes the
answer or an error page, or is a stream that selects and writes event after
event; a write (`Writing`) returns when the client reads or is gone, and else
stays where it is, for no write has a deadline. The runtime sends a signal without waiting
(`Interrupt`): its effect depends on whether `Notify` has been called, whether
the channel is full and whether `Stop` has closed it.

**Jobs** has the tables about jobs, as the foreign keys let nodes fill them, and
what both readers of it need: which transactions belong to a job (`Related`)
and its state (`GetState`). `created` has the times of the transactions, which
may tie and need not follow the order in which rows are seen. Rows may be
deleted, and the rows that refer to them go with them (`DeleteTransaction`,
`DeleteProgram`); they may come back. **TxInfo** is `Store.TxInfo`, a step for
each query, with the page it makes; the history `lost` tells that something the
reader has read is gone, and a page of which something is gone is no longer
compared with. **Search** is `Store.Search`, one query, which changes nothing: an
operator that gives every answer the tables and the clauses of the query allow. A
NULL is a set without an element, and an order that SQL does not fix is any order.
It extends `TxInfo` to compare the two readers on the same tables.

**MockStore** is `store/mock/store.go`. One iteration of `Run` has three steps
that others can tell apart: `NextEvent` advances a job and writes its page,
`Record` appends the event to the list that is searched, `Send` puts it into the
channel. A hash has the time in it and is never drawn twice (`used`).

**Page** follows one browser: the rows of its table from top to bottom, the
query in the address of its stream, the connection and what is under way on it.
It extends the ring and has a store beside it, either the mock store or one that
notifies in any order, as the database may. `Broadcast` (the ring and the
subscription get an event) and `Stream` (a subscription with its replay) are one
step each: module `Broadcaster` has the locks and shows that nobody sees them
half done. `Home`, `Table` and `TxPage` are the handlers that render HTML, `Swap`
is what the SSE extension does with a message: insert a row at the top, or
replace the rows that listen to its name. `Break` and `Restart` lose what is
under way and, the latter, all the server knows; the rows stay. The history
`lost` collects the transactions whose last news this page cannot show, each
for a reason that `PageShowsRing` names; `connects` counts connections.

Operators whose comment begins with "Faulty variant" are not part of a
specification: each is what a plausible bug would make of the definition that
follows it. They document which slip each property would catch.

## 3. What TLC checks

Every configuration is small enough for minutes. Deadlock is checked in all of
them, and no configuration constrains the state space other than by the bounds
named in the modules.

| run | instance | what it shows |
|---|---|---|
| `replay_order` | ring of 3, 4 transactions, 3 states, every event at every time | **Violated**: in a full ring the oldest transaction is replayed last. |
| `delivery` | 2 connections, 3 events of 3 transactions, ring of 2, channel of 2 | `ExactlyOnce`, `DeliveredInOrder`, `NoSendAfterClose`, `ReplayNeverBlocks`, `JoinersKnowNoMore`. With a channel of 2 and 3 events a client that is not reading gets blocked, retried and skipped; the ring wraps before, during and after a replay, and a replay can fill the channel to its last place; two connections give every order of joining, leaving and sending. |
| `page` | 3 transactions, ring of 2, 4 events, 2 jobs at a time, queue of 1, limit 3, no slack, seconds of 3 instants, 2 breaks or restarts, either store | The ring in use: `MapMatchesRing`, `RingFillsInOrder`, `ReplayComplete`, `NeverRegresses`, `RingIsWindow`, with eviction, return of an evicted transaction, updates and stale events at each position of `headIndex`. The table: `PageShowsRing`, `OneRowPerConnection`, `RowLeadsToPage`, `RowsGoBackWithinSecond`. A third transaction leaves the ring while the page has its row; four events take a job to its end, or two jobs into each other; a table can be replayed twice, lose its connection after a search, and outlive the server; a second has a beginning within the run, so that a search can cut its time to it. |
| `liveness` | 2 connections, 2 events, channel of 1 | `BroadcastCompletes`, `HandlersLeave`, `RunStops`, with clients that may stop reading for ever; `HandlersStop` for a handler whose own client reads or breaks. |
| `stuck_client` | the same | **Violated**: a client that does not read keeps its handler. |
| `stats` | ranges of 1 and 2 days, 2 days, a counter of 0 to 2 and modulus 10 | `SameRefresh`, `RangesNest`, `LongerRangesTrue`, `EventuallyFresh`. Failures between any two queries; two refreshes can be told apart; a day may begin within a refresh; a row may be taken before and inserted after a query; the counter falls, rows of zero are a base, and a wrapped difference is larger than any true one. |
| `growth` | the same | **Violated**: growth that should be negative, or the row added after the counter was read, is out of all proportion. |
| `daily` | 9 instants, 3 days, 2 lost acknowledgements | `OnePerDay`, `RestartChangesNothing`, `CaughtUp`, with a crash at every step. A day has three instants, so that a tick and its commit may be on different days. |
| `life` | five components, 1 request, 2 notifications, queue of 1, 1 interrupt, failures | `DrainedBeforeExit`; `ReturnStopsAll`, whose premise is that every write to a client ends; `InterruptObeyed`, without a premise: an interrupt reaches every Stop. The request may be a stream or a query, read or not read what it is sent, and leave or stay. The aggregator is left out: it has the actions of the cache. |
| `life_graceful` | all six, 2 interrupts, no failures | **Violated**: an interrupt during the shutdown panics. |
| `jobs` | 1 run, 2 proofs, 3 verifications, 2 times, 2 deletions, limit 2 | `PageShowsTx`, `PagesNeverRegress` with rows added and deleted between any two queries; `SearchAgrees`, `RunFound` in every state of the tables, also those that a deletion leaves behind (a verification without the row of its proof). Three verifications are the first complete job, two proofs the first job where the two readers differ about a proof in the other way, two times give ties and every order; two deletions can take a row that was read and one that was added again. |
| `search_answer` | 1 run, 2 proofs, 1 verification | **Violated**: a search for the hash of a proof fails. |

The bounds are small because the code treats connections, slots, transactions
and ranges uniformly: nothing compares more than two of them at once. For the
properties that section 4 lists the proofs remove the bounds. The proofs and
verifications of `Jobs` are interchangeable, so the two runs of `Search` use that
symmetry; `MCBroadcaster` declares that transactions no search looks for are, for
`delivery`; the transactions and the places of the mock store's queue are, for
`page`; the configurations with liveness properties use none.

### Fairness

* `Broadcaster`: every goroutine that can go on does (weak fairness for each
  step of it), timers fire, and a mutex released again and again is not
  withheld from a waiter (strong fairness; `sync.Mutex` hands over to a waiter
  after a millisecond). `select` picks at random among ready cases, so a ready
  `done` is not passed over for ever (strong fairness). Of clients nothing is
  assumed, neither that they read nor that they leave; `HandlersStop` has the
  end of the writes to its own client as its premise, and `AllHandlersStop`,
  which has not, is what `stuck_client` refutes.
* `StatsCache`, `Aggregator`: tickers fire, and a query returns. Nothing is
  assumed about the database coming up or the process staying up: the
  properties have that as their premise.
* `Lifecycle`: weak fairness for what a goroutine does as soon as it can, strong
  fairness for a loop that keeps coming back to its `select` with `done`
  closed, a stream's among them. Of clients nothing is assumed: a write to one
  may never return, and a stream that is in such a write never sees `done`. That
  is why `ReturnStopsAll` has a premise and `InterruptObeyed` promises the call of
  every Stop and no more: `Shutdown` waits for the handlers without a deadline,
  and with a client that does not read the process does not end. `stuck_client`
  is the run that shows such a handler.

## 4. What is proved

Proofs are for every value of the constants that satisfies the named
assumptions (a ring with at least one slot, a queue with at least one place, a
search that returns at least one row, sentinels that are no data).

`EventBufferProofs`. The inductive invariant is

    BufferInv == BufferTypeOK /\ MapMatchesRing /\ RingFillsInOrder

No part is inductive by itself: `AddNew` deletes the entry of whatever is in the
slot at `headIndex`, so that the index stays right only because that slot's
transaction has its entry there (`MapMatchesRing`), and a slot in use is never
skipped only because the ring fills in order. `AddNewMatches`,
`AddUpdateMatches` and `AddNewFills` are the steps, `WrapOnce` is the one fact
about `%`. From the invariant follow `BufferTypeCorrect`,
`MapAlwaysMatchesRing`, `RingAlwaysFillsInOrder` and `JobsNeverRegress`.
`RingImplementsWindow` is the refinement of `RecentTxs`: `ContentsRead` says
which slot holds the i-th oldest transaction (`AtBijective`: each slot once),
`AddNewRemembers` maps an addition to `Remember` (in a full ring via `ShiftIn`,
the oldest goes), `AddUpdateAdvances` an update to `Advance`; a stale event is
a stutter (`AddArrives` is the three together). `ReplayAlwaysComplete` is by induction over the slots that
`writeAllToCh` visits: what was sent after `i` of them are the data of those in
use among them, and as many.

`BroadcasterProofs`. The inductive invariant is

    Inv == BufferInv /\ Typed /\ LockHeld /\ MembersKnown /\ RoomLeft

`LockHeld` says where the holder of the mutex is, and that nobody else is in a
place that needs it. `MembersKnown` says that the clients a broadcast has yet to
serve are members, and members have open channels: it needs `LockHeld`, since
only the mutex keeps unsubscribe out while a broadcast is under way. `RoomLeft`
bounds a channel by the slots its replay has visited: it needs `LockHeld` too,
because a broadcast in between would use that room. From `Inv` follow
`TypeCorrect`, `NeverSendsAfterClose` and `ReplayAlwaysHasRoom`, for any number
of connections, any ring size and any slack, zero included.

To `Inv` is then added

    DeliveryInv == InStoreOrder /\ HandlersKnown /\ VisitsOnce /\ AllServed

`AllServed` says of every connection what `Served` says of its sequences: it
was sent its replay, then some events in order; these, those that were skipped
and the one in flight for it are what it wants, and nothing is in two of them.
That one more event keeps the order is so because the event in flight is the
last one broadcast (`CurrentIsLast`), which needs the order of log, queue and
current event (`InStoreOrder`). That nothing is sent twice is so because the two
loops of a broadcast visit a client once between them (`VisitsOnce`, `SendLeaves`,
`RetryLeaves`), although the source appends to the slice it ranges over. A
handler that takes an event from its channel, or hands it to its client, changes
nothing of what was delivered (`ReceivedInPlace`, `WrittenInPlace`), and a
replay is alone with its channel (`HandlersKnown`, from `LockHeld`). The lemmas
from `FromAppend` to `ServedReplay` are about one connection's sequences and not
about the system. `AlwaysInOrder` and `AlwaysExactlyOnce` follow, the count in
the latter from the fact that a rising sequence has nothing twice
(`NothingTwice`). `JoinersNeverKnowMore` needs one invariant more, `RingKnown`:
whatever the ring holds was replayed to a connection, if the replay has visited
its slot, or was broadcast since the connection subscribed.

`StatsCacheProofs`. The inductive invariant is

    Inv == /\ TypeOK /\ RowsDated /\ TakenIsYoungest /\ LocalsFollow /\ PartialIsRecent
           /\ Comparable(partial) /\ (stats # NoStats => Comparable(stats))
           /\ ~fell => RowsGrow /\ PartialGrows /\ (stats # NoStats => MapGrows(stats))

`RangesNest` speaks of a map that is published, and what is published was made
range by range, so that the same must hold of the map under way
(`Comparable(partial)`). A further range is queried later, when its window has
moved: `PartialIsRecent` says by how little, and with the assumption that ranges
differ by at least `MaxLag` days the row of the shorter range is still in the
window of the longer one, which therefore has a row, and one at least as old
(`EntryOfRange`, `QueriedComparable`). That is the argument why the program,
whose ranges are 23 days and more apart, needs no transaction around its
queries. A row that is inserted late is of the day it was taken, and still younger than
every other (`TakenIsYoungest`).

`LongerRangesTrue` adds what happens to the numbers while no counter falls: rows,
ranges under way and the counter are ordered by time and by size at once
(`RowsGrow`, `PartialGrows`, `MapGrows`), so that the counter of a longer range is no
less than the row it is compared with: that row is no younger than the shorter
range's, which was in the table before the longer range's counter was read. For the shortest range nothing of the
kind is so, as `growth` shows. `DivisionOfMore` is the arithmetic of comparing
two percentages, with `Difference` as it is of unsigned integers.

`AggregatorProofs`. The inductive invariant is

    Inv == TypeOK /\ RowsArePast /\ LaterDaysAreDue /\ AttemptIsDue
                  /\ LatestKnown /\ AtMostOne

`AtMostOne` is the property for every day. A row is added for a day after
`lastRan` (`AttemptIsDue`), and such a day has no rows but those whose
acknowledgement was lost (`LaterDaysAreDue`); after a restart that is so because
`Latest`, the newest row, is read again, and rows do not come from the future
(`RowsArePast`).

`SearchProofs`. The inductive invariant is

    Inv == TablesOK /\ LocalsOK /\ ReaderKnows /\ PageKnown /\ NeverBehind

The queries of a page see the tables at different times. A step of the nodes
either adds rows and changes nothing about those that are there (`TablesGrow`),
or takes some away with all that refers to them (`TablesShrink`;
`NodesChangeTables` says that there is no third way). `ReaderKnows` says that
what an earlier query found is still true unless some of it is gone (`lost`), and
`JobKept` that the transactions of a job that are not deleted stay in that job,
whatever else goes; this is the argument for a page without a transaction.
`PageKnown` says that a page is a function of the transactions it shows.
`NeverBehind` compares the page that is shown with the one being read, and with
`StateGrows`, `DurationGrows` and `LogTells` (state, duration and log are
monotonic in the set of transactions; of their times nothing is needed but that
they do not change) gives `PagesNeverGoBack`. The duration comes of the query and
not of the moment at which the page is made, which matters as rows go between the
two. `SearchAlwaysAgrees` compares the SQL of a search with the Go of a page for
any number of proofs and verifications (`JobCounts`); `RunsAreFound` follows from
the hash being the key of its table.

`LifecycleProofs`. The inductive invariant is

    Inv == TypeOK /\ ServerDrained /\ DrainedBeforeExit

`ServerDrained` says that once Stop of the server has returned no request is
being handled: the listener is closed first, so that none can begin. The runner
ends the process only after every Stop has returned, which is what
`AlwaysDrainedBeforeExit` needs; that ListenAndServe returns earlier is no matter.

`PageProofs` begins with the ring: as the composition changes it only by `Add`, a
restart or not at all, its properties carry over (`RingAlwaysSound`,
`RingNeverRegresses`, `RingAlwaysWindow`), for either store, whatever comes in
whatever order. The inductive invariant for the page is

    PageTyped /\ CopiesTold /\ BeginsOnce /\ RowsCounted
      /\ Clocked /\ StatesGrow /\ Lined /\ Recorded /\ SearchShows /\ Shows

with `PageTyped == TypeOK /\ BufferInv /\ StoreTyped /\ TableTyped`. A row is a
copy of what an event said, and there are copies of it in the list that is
searched, in the channel to the broadcaster, in the hands of `Run`, in the ring,
on its way to the page and in the table. `CopiesTold` says of all of them
(`Copies`) that the page of their transaction tells it, if there is one, and that
its hash was drawn: a step of the store adds one copy after it has written the
page (`ToldStore`), any other step only moves copies (`CopiesKept`), a restart
leaves rows without a page, whose hashes are not drawn again. From it follows
`RowsAlwaysLeadToPage`. `BeginsOnce` says that of the events yet to be broadcast
(`Pending`) the one that begins a job comes before any other of the job, and that
the ring has nothing of a job before that. `RowsCounted` adds to the rows of a job
those under way and, while its beginning is yet to be broadcast, the one to come:
together they are no more than the connections. A connection is sent a row by
the replay only if the ring has the job, in which case `BeginsOnce` rules out that
its beginning follows as news, and the replay has a job once (`ReplayOnce`, from
`AtBijective` and `ReplayAlwaysComplete`). From it follows
`RowsAlwaysOnePerConnection`.

The other parts are about time. `Clocked`: the mock store stamps what is pending
in the order of its clock, and what was sent (the ring, the messages under way,
the rows of a page that searches for nothing) is earlier than what is pending.
`StatesGrow`: of two copies the later one has the later state, so that no event
of the mock store is stale to the ring (`NoneStale`). `Lined`: the rows of a job
are no later than its messages under way, these come in order and are no later
than the ring. The page of a search has another order, for its rows are found in
the list of the store, which is ahead of the channel: what is sent to it is later
than the `since` of its address, and a row is not, to the second, or was sent too
(`SecondOrder` is the arithmetic). A swap replaces a top row by the message about
its transaction and moves no other (`SwapTops`), and `RowsNeverGoBack` follows,
also for rows that stay over a restart.

`Shows` says what a page will show when all that is under way has come. For a
transaction of the ring that is not in `lost`, the last message about it is what
the ring has, or, if there is none, its top row is; and if it has no row then one
of the messages inserts it. A broadcast appends its event or notes that it is
lost (`ShowsNews`), a swap takes the first message (`ShowsSwap`), a connection is
sent the whole ring once (`ShowsStream`). On the page of a search "is" becomes
"is no earlier than". There an event may also be left out because it is not later
than `since`; then the table has it already: what the channel and the ring have
is recorded in the list before (`Recorded`), a search finds the newest of what
matches (`SearchFinds`), and what is pending and no later than the search is in
its row (`SearchShows`). `PageAlwaysShowsRing` is `Shows` with nothing under way.
It holds for both stores; that of the database has no search here, and its
stale events are in `lost`.

`Numbers` has what some of these share: least and greatest elements exist (from the
well-foundedness of `<`), integer division is monotonic, and induction and
recursion up to a number (`InductionTo`, `RecursionTo`), both stated with sets and
functions so that no theorem with an operator as its parameter is needed. What a
loop of the code computes is a recursive function (`ReplayUpTo`, `Search` of the
mock store) about which these two lemmas let one prove something for every length.

Checked by TLC alone: liveness, that is `BroadcastCompletes`, `HandlersLeave`,
`RunStops`, `HandlersStop`, `EventuallyFresh`, `CaughtUp`, `ReturnStopsAll` and
`InterruptObeyed`, since the prover has no rule for fairness that would reach
them, nor for ENABLED. Every other property of a run that passes is a theorem.

## 5. Where the code differs from what it says

Each is a run that is expected to be violated; `PROJECT.json` quotes the line of
the repository that says otherwise.

| run | code | |
|---|---|---|
| `replay_order` | `api/event_buffer.go:54` | a full ring is replayed starting with the second oldest transaction |
| `stuck_client` | `api/api.go:162` | a client that does not read prevents the end |
| `growth` | `store/pg/store.go:188` | negative growth wraps around to growth out of all proportion |
| `life_graceful` | `signalhandler/signal_handler.go:33` | an interrupt during the shutdown panics |
| `search_answer` | `store/pg/store.go:232` | a NULL tag fails a search by the hash of a proof |

Two of these properties say more than their counterexamples break, and the models
have other ways to violate them. The trace of `life_graceful` is the panic, and
nothing else. With one interrupt `GracefulShutdown` is violated too: the pool is
closed while accepted requests still query it (`store/pg/store.go:371`); a store
that waits for room in its channel, which nobody drains any more, returns an error
after a minute (`store/pg/store.go:131`). The trace of `search_answer` is the NULL
tag, and nothing else. `SearchAnswered` for the program's hash is violated by a job
with two proofs and no verification, which has a NULL state that fails the whole
search (`store/pg/store.go:220`). No run is about the order of an answer: the outer
SELECT has no ORDER BY, so that the newest rows are chosen but need not come
newest first (`store/pg/store.go:242`), and `since` is taken from the first of them
(`api/api.go:126`).

The finding of `growth` has two causes. The subtraction is of unsigned integers and
wraps when the counter is smaller than the row: because rows were deleted since, or
because the row is of a time after the counter was read, which the trace shows and
which only the shortest range with a row can meet (`LongerRangesTrue`).

Where Search and TxInfo differ, with no line of the repository that says which is
right: for the row of a proof, `store/pg/store.go:220` says Proving as long as its
job has one proof, also when that proof is verified and the page of the job says
Verifying or Complete; and with several proofs and no verification it says nothing,
where the page says Proving. `SearchAgrees` states exactly when the two agree, and
that the search is never ahead of the page.

Read in the code while modelling and not the subject of a run, since a unit
test of one function reaches them: the finalized state of a log entry is
assigned to a copy (`store/pg/store.go:457`), the branch for the entry of the
run is never taken (`store/pg/store.go:440`), and statistics requested before
the first refresh make the handler panic (`store/cache/stats_cache.go:72`).

What the passing properties had to except is worth reading as well.
`LongerRangesTrue` says nothing once a counter has fallen, nothing of a base of
zero but that it never looks like less (it gives NaN or Inf), and of the shortest
range with a row only that it shows no more than the longer ones when its
difference does not wrap.
`RunFound` is about runs that have their `workflow_step`: before it is inserted the
tag of a run is NULL, and the search for it fails.
`PageShowsTx` and `PagesNeverRegress` except what was deleted while it was read or
shown. `PageShowsRing`: a page misses the last news of a job when they came out of
order (the ring keeps the later state, connected pages the later message,
`api/broadcaster.go:104`), when its channel was full, when they were not the
first of a job it has no row of (`api/broadcaster.go:132`), or, on the page of a
search, when they were under way as the connection broke, since only a page
without a search is sent the ring again. The history `lost` collects these jobs:
the property shows that there is no other way to miss one, not that these are
harmless. `RowsGoBackWithinSecond`: the address of a search's stream has a time in
seconds, so that an event older than the row that was found may still replace it
(`api/api.go:149`). The mock store's map is read by handlers without the mutex
(`store/mock/store.go:88`): in the models each access is one step, and what the
runtime may make of the race, the end of the process, is `Restart`.

## 6. What is left out

* HTML, wording, assets, configuration and build: no property is about them.
* Percentages are floating-point numbers; `StatsCache` has them rounded down.
* Of a page: what the statistics and the page of a transaction look like, htmx
  itself (external; what its attributes ask for is in `Page`), and the time that
  a browser waits before it connects again. Of the mock store: the names it
  invents and its random statistics.
* The chain's nodes and the triggers of the database are not in the repository;
  they are external actions that may do whatever the tables allow: add rows in
  the order of the foreign keys, with any time, and delete rows with all that
  refers to them but not change the columns of a row. All runs of `Jobs` are of one
  program with one step.
* Delivery over the network: a write to a client ends, fails or does not end. What
  an instance cannot have is events that never end: that `Run` of the broadcaster
  is not starved by them is the fairness assumed of `select`.

## 7. Plan

Done, in this order: the event buffer and its abstraction, the broadcaster, the
proofs of both; then the statistics, the aggregator, the life of the process,
pages and search; then the mock store and the page in the browser, the numbers
of the statistics, and the proofs about statistics, daily rows, jobs and their
pages, the end of the process, delivery, the replay and the page in the browser;
then deletions and ties of times in the tables, the writes of the handlers, and
the ring within the composition.

Left: `Jobs` with several programs and workflow steps, for the program that
`TxInfo` and `Search` show.
