------------------------------ MODULE Lifecycle ------------------------------
(***************************************************************************)
(* app.Run: the runner starts the Run of every component in a goroutine,   *)
(* and beside it a goroutine that calls the component's Stop when the      *)
(* first Run returns.  This module has the whole application, each         *)
(* component reduced to what can make its Run return, what its Stop does   *)
(* and what either waits for; the other modules have the rest.             *)
(***************************************************************************)
EXTENDS Integers, Sequences, SequencesExt, FiniteSets

CONSTANTS
  Tickers,      \* the components that wait for a ticker or for done, both
                \* "cache" and "aggregator" in the program
  Clients,      \* the HTTP requests
  QueueSize,    \* capacity of the store's event channel (1000)
  MaxEvents,    \* bound: notifications from the database
  MaxSignals,   \* bound: interrupts
  Faults        \* whether database and network may fail by themselves

ASSUME LifecycleAssumption ==
  /\ Tickers \subseteq {"cache", "aggregator"}
  /\ QueueSize \in Nat /\ MaxEvents \in Nat /\ MaxSignals \in Nat
  /\ Faults \in BOOLEAN

Components == Tickers \cup {"store", "server", "broadcaster", "signals"}

\* The order in which app.Run lists the components.
Order == SelectSeq(<<"store", "cache", "aggregator", "server", "broadcaster", "signals">>,
                   LAMBDA c : c \in Components)

VARIABLES
  pc,         \* where each component's Run is
  failed,     \* some Run returned an error
  stopped,    \* the runner's channel is closed
  stopper,    \* where the goroutine that calls each component's Stop is
  dbOpen,     \* the connection pool is open
  queue,      \* how many events the store's channel holds
  emitted,    \* how many notifications there have been
  buffered,   \* how many signals signalsCh holds
  signals,    \* how many interrupts there have been
  handler,    \* where the handler of each request is
  exit,       \* how the process ended, or "up"
  ready       \* history: every component had started when the first returned

runnerVars == <<pc, failed, stopped, ready>>
eventVars  == <<queue, emitted>>
signalVars == <<buffered, signals>>
vars == <<runnerVars, stopper, dbOpen, eventVars, signalVars, handler, exit>>

Init ==
  /\ pc = [c \in Components |-> "start"]
  /\ failed = FALSE /\ stopped = FALSE /\ ready = FALSE
  /\ stopper = [c \in Components |-> "waiting"]
  /\ dbOpen = TRUE
  /\ queue = 0 /\ emitted = 0 /\ buffered = 0 /\ signals = 0
  /\ handler = [r \in Clients |-> "none"]
  /\ exit = "up"

------------------------------------------------------------------------------
(* Runner. *)

\* A component's Run goes from one place to another.
Goes(c, from, to) ==
  /\ pc[c] = from
  /\ pc' = [pc EXCEPT ![c] = to]
  /\ UNCHANGED <<failed, stopped, ready>>

\* A component's Run returns, and the deferred stop closes the channel.
Returns(c, from) ==
  /\ pc[c] = from
  /\ pc' = [pc EXCEPT ![c] = "returned"]
  /\ stopped' = TRUE
  /\ ready' = IF stopped THEN ready ELSE \A d \in Components : pc[d] # "start"
  /\ UNCHANGED failed

Fails(c, from) ==
  /\ pc[c] = from
  /\ pc' = [pc EXCEPT ![c] = "returned"]
  /\ stopped' = TRUE
  /\ ready' = IF stopped THEN ready ELSE \A d \in Components : pc[d] # "start"
  /\ failed' = TRUE

\* Faulty variant: components are stopped one after the other, as listed.
MayStopInOrder(c) ==
  /\ stopped
  /\ \A i, j \in DOMAIN Order :
       i < j /\ Order[j] = c => stopper[Order[i]] = "stopped"

MayStop(c) == stopped

\* The goroutine that stops c calls Stop.  That of the store cancels a context
\* and then closes the pool, that of the server is Shutdown; the others close
\* a channel and return.
CallStop(c) ==
  /\ stopper[c] = "waiting"
  /\ MayStop(c)
  /\ stopper' = [stopper EXCEPT ![c] = IF c \in {"store", "server"}
                                       THEN "stopping" ELSE "stopped"]
  /\ UNCHANGED <<runnerVars, dbOpen, eventVars, signalVars, handler, exit>>

CloseDB ==
  /\ stopper["store"] = "stopping"
  /\ stopper' = [stopper EXCEPT !["store"] = "stopped"]
  /\ dbOpen' = FALSE
  /\ UNCHANGED <<runnerVars, eventVars, signalVars, handler, exit>>

\* A handler is in a write to its client: an event of a stream, the answer of
\* the store, or the error page.  No write has a deadline.
Writing == {"event", "reply", "refusal"}

Active == {r \in Clients : handler[r] \in {"query", "stream"} \cup Writing}

\* Shutdown has closed the listener and waits for the handlers.
Drained ==
  /\ stopper["server"] = "stopping"
  /\ pc["server"] # "serve" /\ Active = {}
  /\ stopper' = [stopper EXCEPT !["server"] = "stopped"]
  /\ UNCHANGED <<runnerVars, dbOpen, eventVars, signalVars, handler, exit>>

\* Faulty variant: only the Run goroutines are waited for.
AllReturnedRuns == \A c \in Components : pc[c] = "returned"

\* eg.Wait: every Run and every Stop has returned.
AllReturned == \A c \in Components : pc[c] = "returned" /\ stopper[c] = "stopped"

\* main ends with 1 when Run returned an error.
Exit ==
  /\ AllReturned
  /\ exit' = IF failed THEN "error" ELSE "ok"
  /\ UNCHANGED <<runnerVars, stopper, dbOpen, eventVars, signalVars, handler>>

------------------------------------------------------------------------------
(* pg.Store.Run. *)

unchangedByRun == <<stopper, dbOpen, signalVars, handler, exit>>

OnlyRun == UNCHANGED <<eventVars, unchangedByRun>>

\* A query fails once the pool is closed, or for a reason of its own.
QueryFails == ~dbOpen \/ Faults

Listen        == Goes("store", "start", "listen") /\ dbOpen /\ OnlyRun
CannotListen  == Fails("store", "start") /\ QueryFails /\ OnlyRun

Notified ==
  /\ Goes("store", "listen", "send")
  /\ emitted < MaxEvents
  /\ emitted' = emitted + 1
  /\ UNCHANGED <<queue, unchangedByRun>>

\* The connection is lost, or the payload is not an event.
ListenFails == Fails("store", "listen") /\ Faults /\ OnlyRun

\* Faulty variant: one event too many is taken.
HasRoomForMore == queue <= QueueSize

HasRoom == queue < QueueSize

SendEvent ==
  /\ Goes("store", "send", "listen")
  /\ HasRoom
  /\ queue' = queue + 1
  /\ UNCHANGED <<emitted, unchangedByRun>>

\* The channel stayed full for a minute.
SendTimesOut == Fails("store", "send") /\ ~HasRoom /\ OnlyRun

Cancelled ==
  /\ Returns("store", "listen")
  /\ stopper["store"] # "waiting"
  /\ OnlyRun

------------------------------------------------------------------------------
(* Cache.Run and Aggregator.Run: a query at the start whose failure ends   *)
(* Run, then queries at every tick whose failure is logged.                *)

FirstQuery(c)      == Goes(c, "start", "select") /\ dbOpen /\ OnlyRun
FirstQueryFails(c) == Fails(c, "start") /\ QueryFails /\ OnlyRun
Work(c)            == Goes(c, "select", "work") /\ OnlyRun
WorkDone(c)        == Goes(c, "work", "select") /\ OnlyRun

SeesDone(c) ==
  /\ Returns(c, "select")
  /\ stopper[c] = "stopped"
  /\ OnlyRun

------------------------------------------------------------------------------
(* Server.Run; a Shutdown that comes first makes ListenAndServe return too. *)

Serve ==
  /\ Goes("server", "start", "serve")
  /\ stopper["server"] = "waiting"
  /\ OnlyRun

CannotServe == Fails("server", "start") /\ Faults /\ OnlyRun

ServerClosed ==
  /\ Returns("server", "start") \/ Returns("server", "serve")
  /\ stopper["server"] # "waiting"
  /\ OnlyRun

------------------------------------------------------------------------------
(* Broadcaster.Run. *)

Broadcast ==
  /\ Goes("broadcaster", "select", "broadcast")
  /\ queue > 0
  /\ queue' = queue - 1
  /\ UNCHANGED <<emitted, unchangedByRun>>

\* It ends however slow the clients are (see module Broadcaster).
BroadcastDone == Goes("broadcaster", "broadcast", "select") /\ OnlyRun

BroadcasterStarts == Goes("broadcaster", "start", "select") /\ OnlyRun

BroadcasterReturns ==
  /\ Returns("broadcaster", "select")
  /\ \/ stopper["broadcaster"] = "stopped"
     \/ pc["store"] = "returned" /\ queue = 0
  /\ OnlyRun

------------------------------------------------------------------------------
(* SignalHandler. *)

Notify     == Goes("signals", "start", "notify") /\ OnlyRun
AwaitSignal == Goes("signals", "notify", "receive") /\ OnlyRun

SignalReceived ==
  /\ Returns("signals", "receive")
  /\ buffered > 0 \/ stopper["signals"] = "stopped"
  /\ buffered' = IF buffered > 0 THEN buffered - 1 ELSE 0
  /\ UNCHANGED <<eventVars, stopper, dbOpen, signals, handler, exit>>

\* Faulty variant: an unbuffered channel takes a signal only when Run waits.
FullUnbuffered == buffered = 1 \/ pc["signals"] # "receive"

Full == buffered = 1

\* The runtime sends a signal without waiting.  Before signal.Notify it has
\* its default effect, and after Stop, which does not undo Notify, the send
\* is on a closed channel.
Interrupt ==
  /\ signals < MaxSignals
  /\ signals' = signals + 1
  /\ exit' = IF pc["signals"] = "start" THEN "killed"
             ELSE IF stopper["signals"] = "stopped" THEN "panic" ELSE exit
  /\ buffered' = IF exit' # "up" \/ Full THEN buffered ELSE buffered + 1
  /\ UNCHANGED <<runnerVars, stopper, dbOpen, eventVars, handler>>

------------------------------------------------------------------------------
(* HTTP handlers: one kind asks the store and writes what it gets, the other *)
(* is an event stream, which selects between its channel, its client and    *)
(* done and writes the events it receives.                                  *)

Becomes(r, from, to) ==
  /\ handler[r] = from
  /\ handler' = [handler EXCEPT ![r] = to]
  /\ UNCHANGED <<runnerVars, stopper, dbOpen, eventVars, signalVars, exit>>

Request(r) ==
  /\ pc["server"] = "serve" /\ stopper["server"] = "waiting"
  /\ Becomes(r, "none", "query") \/ Becomes(r, "none", "stream")

Answered(r)     == Becomes(r, "query", "reply") /\ dbOpen
Refused(r)      == Becomes(r, "query", "refusal") /\ QueryFails
ClientLeaves(r) == Becomes(r, "stream", "ended")
StreamEnds(r)   == Becomes(r, "stream", "ended") /\ stopper["broadcaster"] = "stopped"

\* An event reaches a stream's channel no sooner than it has left the queue.
WriteEvent(r) == Becomes(r, "stream", "event") /\ emitted > queue

\* The client reads, and the write returns; or its connection is gone, and the
\* write fails.  A client that stays and does not read leaves it where it is.
Written(r) == \/ Becomes(r, "event", "stream")
              \/ Becomes(r, "reply", "ended") \/ Becomes(r, "refusal", "ended")

WriteFails(r) == \E from \in Writing : Becomes(r, from, "ended")

------------------------------------------------------------------------------

Store == \/ Listen \/ CannotListen \/ Notified \/ ListenFails \/ SendEvent
         \/ SendTimesOut \/ Cancelled

Ticker(c) == FirstQuery(c) \/ FirstQueryFails(c) \/ Work(c) \/ WorkDone(c) \/ SeesDone(c)

Server == Serve \/ CannotServe \/ ServerClosed

Broadcaster == BroadcasterStarts \/ Broadcast \/ BroadcastDone \/ BroadcasterReturns

SignalHandler == Notify \/ AwaitSignal \/ SignalReceived

Runner == (\E c \in Components : CallStop(c)) \/ CloseDB \/ Drained \/ Exit

Handler(r) == \/ Request(r) \/ Answered(r) \/ Refused(r)
              \/ ClientLeaves(r) \/ StreamEnds(r)
              \/ WriteEvent(r) \/ Written(r) \/ WriteFails(r)

Step ==
  /\ exit = "up"
  /\ \/ Runner \/ Store \/ Server \/ Broadcaster \/ SignalHandler \/ Interrupt
     \/ \E c \in Tickers : Ticker(c)
     \/ \E r \in Clients : Handler(r)

Ended == exit # "up" /\ UNCHANGED vars

Next == Step \/ Ended

Spec == Init /\ [][Next]_vars

\* What a goroutine does as soon as it can.  None of these steps can be taken
\* for ever, so that fairness to all together is fairness to each.
Progress ==
  \/ Runner \/ Server \/ SignalHandler
  \/ Listen \/ CannotListen \/ SendEvent \/ SendTimesOut \/ Cancelled
  \/ BroadcasterStarts \/ BroadcastDone \/ BroadcasterReturns
  \/ \E c \in Tickers : FirstQuery(c) \/ FirstQueryFails(c)
  \/ \E r \in Clients : Answered(r) \/ Refused(r)

\* Every goroutine that can go on does.  A ticker may fire again and again, and
\* so may events arrive; a loop that keeps coming back to its select does not
\* pass over done for ever.  Nothing is assumed of clients: one may neither
\* read nor close its connection, and then the write to it never returns.
Fairness ==
  /\ WF_vars(exit = "up" /\ Progress)
  /\ \A c \in Tickers : /\ WF_vars(exit = "up" /\ WorkDone(c))
                         /\ SF_vars(exit = "up" /\ SeesDone(c))
  /\ \A r \in Clients : SF_vars(exit = "up" /\ StreamEnds(r))

FairSpec == Spec /\ Fairness

------------------------------------------------------------------------------

TypeOK ==
  /\ pc \in [Components -> {"start", "listen", "send", "select", "work", "serve",
                            "broadcast", "notify", "receive", "returned"}]
  /\ failed \in BOOLEAN /\ stopped \in BOOLEAN
  /\ dbOpen \in BOOLEAN /\ ready \in BOOLEAN
  /\ stopper \in [Components -> {"waiting", "stopping", "stopped"}]
  /\ queue \in 0 .. QueueSize /\ emitted \in 0 .. MaxEvents
  /\ buffered \in 0 .. 1 /\ signals \in 0 .. MaxSignals
  /\ handler \in [Clients -> {"none", "query", "stream", "ended"} \cup Writing]
  /\ exit \in {"up", "ok", "error", "killed", "panic"}

\* The process does not end under a handler: ListenAndServe returns as soon as
\* the listener is closed, and only the wait for Stop covers the requests.
DrainedBeforeExit == exit \in {"ok", "error"} => Active = {}

\* As soon as one Run returns, for whatever reason and however far the others
\* are, all are stopped and the process ends, open event streams or not, unless
\* a client leaves the handler in a write for ever: Shutdown has no deadline.
ReturnStopsAll ==
  (\A r \in Clients : []<>(handler[r] \notin Writing)) => (stopped ~> exit # "up")

\* An interrupt is never lost, wherever SignalHandler.Run is and whatever the
\* clients do: the process ends, or at least the Stop of every component has
\* been called.
InterruptObeyed ==
  signals > 0 ~> exit # "up" \/ \A c \in Components : stopper[c] # "waiting"

\* Where neither the database nor the network fails, an application that is up
\* shuts down gracefully: signals are not met with a panic, the process does not
\* end with an error, and every request that was accepted is answered.
GracefulShutdown ==
  /\ exit # "panic"
  /\ exit = "error" => ~ready
  /\ \A r \in Clients : handler[r] # "refusal"

==============================================================================
