----------------------------- MODULE Broadcaster -----------------------------
(***************************************************************************)
(* api/broadcaster.go and the SSE handler of api/api.go: one goroutine     *)
(* takes events from the store's channel and fans them out, one goroutine  *)
(* per connection drains a bounded channel into its HTTP response.  The    *)
(* mutex clientsMu protects the member map and the head buffer; the        *)
(* channels are drained without it, so every send of a broadcast, and      *)
(* every row of a replay, is a step of its own.                            *)
(*                                                                         *)
(* A subscription is named by the id Subscribe gives it, and its handler   *)
(* goroutine by the same id.  The variables log, start, replayed, got and  *)
(* dropped only record history: no guard reads them.                       *)
(***************************************************************************)
EXTENDS EventBuffer, FiniteSets, Functions

CONSTANTS
  MaxSubs,      \* bound: how many connections are ever served
  MaxEvents,    \* bound: how many events the store ever emits
  QueueSize,    \* capacity of the store's event channel (1000)
  Slack,        \* room a member's channel has beyond the buffer's size (5)
  Server,       \* the Run goroutine, as the holder of clientsMu
  Nobody,       \* clientsMu is free
  NoFilter,     \* the filter of a connection without a query
  Matches,      \* the sets of transactions that the texts searched for match
  Sinces        \* the times after which a search wants events

Subs == 0 .. MaxSubs - 1

ASSUME BroadcasterAssumption ==
  /\ MaxSubs \in Nat
  /\ MaxEvents \in Nat
  /\ QueueSize \in Nat \ {0}
  /\ Slack \in Nat
  /\ Matches \subseteq SUBSET TxIDs
  /\ Sinces \subseteq Nat
  /\ NoFilter \notin [match : Matches, since : Sinces]
  /\ Timestamps = 1 .. MaxEvents
  /\ Server # Nobody /\ {Server, Nobody} \cap Subs = {}

\* Faulty variant: the channel has room for the slack only.
ChanSizeShort == Slack

\* The capacity of a member's channel.
ChanSize == BufferSize + Slack

SearchFilters == [match : Matches, since : Sinces]

\* SearchFilter: ProverID, TxID and Tag are matched as one.
Accepts(f, e) ==
  \/ f = NoFilter
  \/ f # NoFilter /\ e.ts > f.since /\ e.txID \in f.match

VARIABLES
  events,       \* the store's channel
  emitted,      \* how many events the store has sent into it
  storeClosed,  \* the store has closed it
  done,         \* b.done is closed
  mutex,        \* the holder of clientsMu
  clients,      \* the keys of b.clients
  nextID,       \* b.nextID
  filter,       \* the filter of each subscription
  ch,           \* the buffered channel of each subscription
  closed,       \* the subscriptions whose channel is closed
  bpc,          \* where the Run goroutine is
  current,      \* the event it is broadcasting
  todo,         \* the clients the first loop of broadcast has yet to visit
  blocked,      \* the clients the second loop has yet to visit
  hpc,          \* where each handler is
  slot,         \* the slot writeAllToCh visits next, per handler
  writing,      \* the data a handler is writing to its response
  log,          \* history: the events broadcast so far
  start,        \* history: Len(log) when the subscription was made
  replayed,     \* history: what the replay sent
  got,          \* history: what reached the client
  dropped       \* history: what was skipped for the client after the retry

storeVars   == <<events, emitted, storeClosed>>
serverVars  == <<bpc, current, todo, blocked>>
handlerVars == <<hpc, slot, writing>>
memberVars  == <<clients, nextID, filter, closed>>
history     == <<start, replayed, got, dropped>>
vars == <<bufferVars, storeVars, done, mutex, memberVars, ch, serverVars,
          handlerVars, log, history>>

------------------------------------------------------------------------------

Init ==
  /\ NewEventBuffer
  /\ events = << >>
  /\ emitted = 0
  /\ storeClosed = FALSE
  /\ done = FALSE
  /\ mutex = Nobody
  /\ clients = {}
  /\ nextID = 0
  /\ filter = [s \in Subs |-> NoFilter]
  /\ ch = [s \in Subs |-> << >>]
  /\ closed = {}
  /\ bpc = "select"
  /\ current = NoData
  /\ todo = {}
  /\ blocked = << >>
  /\ hpc = [s \in Subs |-> "absent"]
  /\ slot = [s \in Subs |-> 0]
  /\ writing = [s \in Subs |-> NoData]
  /\ log = << >>
  /\ start = [s \in Subs |-> 0]
  /\ replayed = [s \in Subs |-> << >>]
  /\ got = [s \in Subs |-> << >>]
  /\ dropped = [s \in Subs |-> << >>]

------------------------------------------------------------------------------
(* The store, as far as the broadcaster sees it: it sends events into its  *)
(* channel in the order of their timestamps and closes it at the end.      *)

Emit ==
  /\ ~storeClosed
  /\ emitted < MaxEvents
  /\ Len(events) < QueueSize
  /\ \E t \in TxIDs, s \in States :
       events' = Append(events, [txID |-> t, state |-> s, ts |-> emitted + 1])
  /\ emitted' = emitted + 1
  /\ UNCHANGED <<bufferVars, storeClosed, done, mutex, memberVars, ch,
                 serverVars, handlerVars, log, history>>

CloseEvents ==
  /\ ~storeClosed
  /\ storeClosed' = TRUE
  /\ UNCHANGED <<bufferVars, events, emitted, done, mutex, memberVars, ch,
                 serverVars, handlerVars, log, history>>

Stop ==
  /\ ~done
  /\ done' = TRUE
  /\ UNCHANGED <<bufferVars, storeVars, mutex, memberVars, ch, serverVars,
                 handlerVars, log, history>>

------------------------------------------------------------------------------
(* Broadcaster.Run and broadcast. *)

\* Run, the receive case: an event is taken and rendered.
TakeEvent ==
  /\ bpc = "select"
  /\ events # << >>
  /\ current' = Head(events)
  /\ events' = Tail(events)
  /\ bpc' = "lock"
  /\ UNCHANGED <<bufferVars, emitted, storeClosed, done, mutex, memberVars, ch,
                 todo, blocked, handlerVars, log, history>>

\* broadcast returns before it locks when writeEvent fails.
RenderFails ==
  /\ bpc = "lock"
  /\ bpc' = "select"
  /\ current' = NoData
  /\ UNCHANGED <<bufferVars, storeVars, done, mutex, memberVars, ch, todo,
                 blocked, handlerVars, log, history>>

\* Run returns: the store closed its channel, or Stop closed done.
EventsClosed ==
  /\ bpc = "select"
  /\ events = << >>
  /\ storeClosed
  /\ bpc' = "stopped"
  /\ UNCHANGED <<bufferVars, storeVars, done, mutex, memberVars, ch, current,
                 todo, blocked, handlerVars, log, history>>

\* Faulty variant: Run does not look at b.done.
StopIgnored == FALSE

SeeStop ==
  /\ bpc = "select"
  /\ done
  /\ bpc' = "stopped"
  /\ UNCHANGED <<bufferVars, storeVars, done, mutex, memberVars, ch, current,
                 todo, blocked, handlerVars, log, history>>

\* broadcast takes the mutex, adds the event to the buffer and starts its
\* first loop over the clients whose filter accepts the event.
Broadcast ==
  /\ bpc = "lock"
  /\ mutex = Nobody
  /\ mutex' = Server
  /\ Add(current)
  /\ bpc' = "send"
  /\ todo' = {s \in clients : Accepts(filter[s], current)}
  /\ log' = Append(log, current)
  /\ UNCHANGED <<storeVars, done, memberVars, ch, current, blocked,
                 handlerVars, history>>

\* Faulty variant: a client whose channel is full is not tried again.
NotPostponed(s) == blocked

Postponed(s) == Append(blocked, s)

\* First loop, one client: a send that does not wait.  Go ranges over a map
\* in no particular order.
Send(s) ==
  /\ bpc = "send"
  /\ s \in todo
  /\ todo' = todo \ {s}
  /\ \/ /\ Len(ch[s]) < ChanSize
        /\ ch' = [ch EXCEPT ![s] = Append(@, current)]
        /\ UNCHANGED blocked
     \/ /\ Len(ch[s]) >= ChanSize
        /\ blocked' = Postponed(s)
        /\ UNCHANGED ch
  /\ UNCHANGED <<bufferVars, storeVars, done, mutex, memberVars, bpc, current,
                 handlerVars, log, history>>

\* Second loop, one client: a send that waits for room...
RetrySend ==
  /\ bpc = "send"
  /\ todo = {}
  /\ blocked # << >>
  /\ Len(ch[Head(blocked)]) < ChanSize
  /\ ch' = [ch EXCEPT ![Head(blocked)] = Append(@, current)]
  /\ blocked' = Tail(blocked)
  /\ UNCHANGED <<bufferVars, storeVars, done, mutex, memberVars, bpc, current,
                 todo, handlerVars, log, history>>

\* Faulty variant: the second loop waits without a timeout.
RetryForever == FALSE

\* ... until the retry timeout; then the event is skipped for that client.
\* When there is room and the timer has fired, select picks either case.
\* The client is appended to blocked once more, but a range expression is
\* evaluated once: the loop does not visit it again.
RetryTimeout ==
  /\ bpc = "send"
  /\ todo = {}
  /\ blocked # << >>
  /\ blocked' = Tail(blocked)
  /\ dropped' = [dropped EXCEPT ![Head(blocked)] = Append(@, current)]
  /\ UNCHANGED <<bufferVars, storeVars, done, mutex, memberVars, ch, bpc,
                 current, todo, handlerVars, log, start, replayed, got>>

\* The deferred Unlock.
BroadcastDone ==
  /\ bpc = "send"
  /\ todo = {}
  /\ blocked = << >>
  /\ bpc' = "select"
  /\ current' = NoData
  /\ mutex' = Nobody
  /\ UNCHANGED <<bufferVars, storeVars, done, memberVars, ch, todo, blocked,
                 handlerVars, log, history>>

------------------------------------------------------------------------------
(* API.stream, Subscribe and the function it returns. *)

\* Faulty variant: the mutex is released before the replay.
HeldByNobody(s) == Nobody

HeldBy(s) == s

\* Subscribe takes the mutex and registers the channel.  A connection without
\* a query gets every event and the replay of the buffer (prefill), a search
\* gets neither.
Register(s, f, prefill) ==
  /\ mutex = Nobody
  /\ s = nextID
  /\ mutex' = HeldBy(s)
  /\ nextID' = nextID + 1
  /\ clients' = clients \cup {s}
  /\ filter' = [filter EXCEPT ![s] = f]
  /\ hpc' = [hpc EXCEPT ![s] = "subscribe"]
  /\ slot' = [slot EXCEPT ![s] = IF prefill THEN 1 ELSE BufferSize + 1]
  /\ start' = [start EXCEPT ![s] = Len(log)]
  /\ UNCHANGED <<bufferVars, storeVars, done, closed, ch, serverVars, writing,
                 log, replayed, got, dropped>>

Subscribe(s) ==
  \/ Register(s, NoFilter, TRUE)
  \/ \E f \in SearchFilters : Register(s, f, FALSE)

\* Faulty variant: the loop ends one slot early.
LastSlotEarly == BufferSize - 1

\* The loop of writeAllToCh runs to len(b.head).
LastSlot == BufferSize

\* writeAllToCh, one slot: an empty slot is passed over, a row is sent into
\* the channel, waiting for room with the mutex held.
Prefill(s) ==
  /\ hpc[s] = "subscribe"
  /\ slot[s] <= LastSlot
  /\ slot' = [slot EXCEPT ![s] = @ + 1]
  /\ LET data == ReplaySlot(slot[s]).data IN
       \/ /\ data = NoData
          /\ UNCHANGED <<ch, replayed>>
       \/ /\ data # NoData
          /\ Len(ch[s]) < ChanSize
          /\ ch' = [ch EXCEPT ![s] = Append(@, data)]
          /\ replayed' = [replayed EXCEPT ![s] = Append(@, data)]
  /\ UNCHANGED <<bufferVars, storeVars, done, mutex, memberVars, serverVars,
                 hpc, writing, log, start, got, dropped>>

\* Subscribe returns and unlocks.
Subscribed(s) ==
  /\ hpc[s] = "subscribe"
  /\ slot[s] > LastSlot
  /\ hpc' = [hpc EXCEPT ![s] = "select"]
  /\ mutex' = Nobody
  /\ UNCHANGED <<bufferVars, storeVars, done, memberVars, ch, serverVars, slot,
                 writing, log, history>>

\* stream, the receive case.
Receive(s) ==
  /\ hpc[s] = "select"
  /\ ch[s] # << >>
  /\ writing' = [writing EXCEPT ![s] = Head(ch[s])]
  /\ ch' = [ch EXCEPT ![s] = Tail(@)]
  /\ hpc' = [hpc EXCEPT ![s] = "write"]
  /\ UNCHANGED <<bufferVars, storeVars, done, mutex, memberVars, serverVars,
                 slot, log, history>>

\* The response takes the data.  A client that does not read delays this step
\* for as long as it likes: the server sets no write deadline.
Written(s) ==
  /\ hpc[s] = "write"
  /\ got' = [got EXCEPT ![s] = Append(@, writing[s])]
  /\ writing' = [writing EXCEPT ![s] = NoData]
  /\ hpc' = [hpc EXCEPT ![s] = "select"]
  /\ UNCHANGED <<bufferVars, storeVars, done, mutex, memberVars, ch,
                 serverVars, slot, log, start, replayed, dropped>>

\* The connection is gone, and the data with it.
WriteFails(s) ==
  /\ hpc[s] = "write"
  /\ writing' = [writing EXCEPT ![s] = NoData]
  /\ hpc' = [hpc EXCEPT ![s] = "leave"]
  /\ UNCHANGED <<bufferVars, storeVars, done, mutex, memberVars, ch,
                 serverVars, slot, log, history>>

Leave(s) ==
  /\ hpc[s] = "select"
  /\ hpc' = [hpc EXCEPT ![s] = "leave"]
  /\ UNCHANGED <<bufferVars, storeVars, done, mutex, memberVars, ch,
                 serverVars, slot, writing, log, history>>

\* stream returns: the request context is done.
Disconnected(s) == Leave(s)

\* Faulty variant: stream does not look at b.done.
NeverStops(s) == FALSE

\* stream returns: the broadcaster was stopped.
HandlerStops(s) == done /\ Leave(s)

\* Faulty variant: the member stays in the map when its channel is closed.
MembersKept(s) == clients

MembersWithout(s) == clients \ {s}

\* The deferred unsubscribe.
Unsubscribe(s) ==
  /\ hpc[s] = "leave"
  /\ mutex = Nobody
  /\ clients' = MembersWithout(s)
  /\ closed' = closed \cup {s}
  /\ hpc' = [hpc EXCEPT ![s] = "gone"]
  /\ UNCHANGED <<bufferVars, storeVars, done, mutex, nextID, filter, ch,
                 serverVars, slot, writing, log, history>>

------------------------------------------------------------------------------

Store == Emit \/ CloseEvents

Run ==
  \/ TakeEvent \/ RenderFails \/ EventsClosed \/ SeeStop \/ Broadcast
  \/ (\E s \in Subs : Send(s))
  \/ RetrySend \/ RetryTimeout \/ BroadcastDone

Handler(s) ==
  \/ Subscribe(s) \/ Prefill(s) \/ Subscribed(s)
  \/ Receive(s) \/ Written(s) \/ WriteFails(s)
  \/ Disconnected(s) \/ HandlerStops(s) \/ Unsubscribe(s)

\* Everything has stopped.
Terminated ==
  /\ storeClosed /\ done /\ bpc = "stopped"
  /\ nextID = MaxSubs /\ \A s \in Subs : hpc[s] = "gone"
  /\ UNCHANGED vars

Next == Store \/ Stop \/ Run \/ (\E s \in Subs : Handler(s)) \/ Terminated

Spec == Init /\ [][Next]_vars

\* The scheduler runs every goroutine that can go on and fires every timer.
\* A mutex that is released again and again is not withheld from a waiter
\* (sync.Mutex has a starvation mode), and select picks at random among the
\* cases that are ready.  Nothing is assumed of the clients: neither that they
\* read (Written) nor that they disconnect.
Fairness ==
  /\ WF_vars(TakeEvent) /\ WF_vars(EventsClosed) /\ SF_vars(SeeStop)
  /\ SF_vars(Broadcast) /\ WF_vars(RetryTimeout) /\ WF_vars(BroadcastDone)
  /\ \A s \in Subs :
       /\ WF_vars(Send(s)) /\ WF_vars(Prefill(s)) /\ WF_vars(Subscribed(s))
       /\ WF_vars(Receive(s)) /\ SF_vars(HandlerStops(s))
       /\ SF_vars(Unsubscribe(s))

FairSpec == Spec /\ Fairness

------------------------------------------------------------------------------

TypeOK ==
  /\ BufferTypeOK
  /\ events \in Seq(Events)
  /\ emitted \in 0 .. MaxEvents
  /\ storeClosed \in BOOLEAN /\ done \in BOOLEAN
  /\ mutex \in Subs \cup {Server, Nobody}
  /\ clients \subseteq Subs /\ closed \subseteq Subs
  /\ nextID \in 0 .. MaxSubs
  /\ filter \in [Subs -> SearchFilters \cup {NoFilter}]
  /\ ch \in [Subs -> Seq(Events)]
  /\ bpc \in {"select", "lock", "send", "stopped"}
  /\ current \in Events \cup {NoData}
  /\ todo \subseteq Subs /\ blocked \in Seq(Subs)
  /\ hpc \in [Subs -> {"absent", "subscribe", "select", "write", "leave", "gone"}]
  /\ slot \in [Subs -> 0 .. BufferSize + 1]
  /\ writing \in [Subs -> Events \cup {NoData}]
  /\ log \in Seq(Events)
  /\ start \in [Subs -> Nat]
  /\ replayed \in [Subs -> Seq(Events)]
  /\ got \in [Subs -> Seq(Events)]
  /\ dropped \in [Subs -> Seq(Events)]

\* A broadcast sends only to channels that are open, and looks up only members
\* that exist: a send on a closed channel would panic, and one on the nil
\* channel of a missing member would wait for nothing.
NoSendAfterClose ==
  /\ todo \cup Range(blocked) \subseteq clients
  /\ clients \cap closed = {}

\* The replay of a new connection always finds room in the channel.  It runs
\* with the mutex held and with nobody receiving, so one send that had to wait
\* would stop every broadcast and every other connection for good.
ReplayNeverBlocks ==
  \A s \in Subs : hpc[s] = "subscribe" /\ slot[s] <= BufferSize =>
                    Len(ch[s]) < ChanSize

\* What client s has been sent and, unless it left, has got or will get.
Pending(s)   == IF writing[s] = NoData THEN << >> ELSE << writing[s] >>
Delivered(s) == got[s] \o Pending(s) \o ch[s]
Live(s)      == SubSeq(Delivered(s), Len(replayed[s]) + 1, Len(Delivered(s)))
InFlight(s)  == IF s \in todo \cup Range(blocked) THEN {current} ELSE {}
Attached     == {s \in clients : hpc[s] \in {"subscribe", "select", "write"}}

\* A client gets the replay of the buffer before anything else, and then the
\* events in the order of the store, however its channel fills up and empties.
DeliveredInOrder ==
  \A s \in Attached :
    /\ SubSeq(Delivered(s), 1, Len(replayed[s])) = replayed[s]
    /\ \A i, j \in DOMAIN Live(s) : i < j => Live(s)[i].ts < Live(s)[j].ts

\* Between subscribing and leaving, every event broadcast that the client's
\* filter accepts is either delivered, or still to be sent by the broadcast
\* under way, or was skipped after the retry: one of the three, and once.
ExactlyOnce ==
  \A s \in Attached :
    LET wanted == {e \in {log[i] : i \in start[s] + 1 .. Len(log)} : Accepts(filter[s], e)}
        live   == Range(Live(s))
        lost   == Range(dropped[s])
    IN  /\ live \cup lost \cup InFlight(s) = wanted
        /\ live \cap lost = {} /\ InFlight(s) \cap (live \cup lost) = {}
        /\ Len(Live(s)) + Len(dropped[s]) = Cardinality(live \cup lost)

\* A client that lost nothing is never behind one that joins now: what the
\* buffer would replay, it has been sent.
JoinersKnowNoMore ==
  mutex = Nobody =>
    \A s \in Attached : filter[s] = NoFilter /\ dropped[s] = << >> =>
                          Range(Replay) \subseteq Range(Delivered(s))

\* A client that stops reading delays a broadcast and never ends it: the mutex
\* is released again.
BroadcastCompletes == bpc \in {"lock", "send"} ~> bpc = "select"

\* A handler that wants to leave gets the mutex, and leaves.
HandlersLeave == \A s \in Subs : hpc[s] = "leave" ~> hpc[s] = "gone"

\* Once the broadcaster is told to stop, its Run returns, stuck clients or not.
RunStops == done ~> bpc = "stopped"

\* Once the broadcaster is told to stop, a handler returns, if its client reads
\* what it is sent or its connection breaks; what other clients do is no matter.
HandlersStop ==
  \A s \in Subs : []<>(hpc[s] # "write") =>
                    (done /\ hpc[s] # "absent" ~> hpc[s] = "gone")

\* Once the broadcaster is told to stop, every handler returns.
AllHandlersStop ==
  \A s \in Subs : done /\ hpc[s] # "absent" ~> hpc[s] = "gone"

==============================================================================
