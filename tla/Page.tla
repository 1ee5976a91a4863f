-------------------------------- MODULE Page --------------------------------
(***************************************************************************)
(* What a browser shows: the table of rows that api/templates renders and  *)
(* that htmx and its SSE extension then change with the events of the      *)
(* stream, composed with the ring (module EventBuffer) and with a store.   *)
(* The store is the mock store, or one whose notifications come in any     *)
(* order, as those of the database may.                                    *)
(*                                                                         *)
(* One browser is followed.  Module Broadcaster has the many, and the      *)
(* locks: it shows that a subscription gets the replay and then each       *)
(* wanted event in order, or not at all when its channel stays full, and   *)
(* that is what Subscribe and Broadcast say here in one step each.         *)
(***************************************************************************)
EXTENDS EventBuffer, SequencesExt, FiniteSetsExt, TLC

CONSTANTS
  Stores,       \* the stores to choose from, of {"mock", "pg"}
  Slots, QueueSize, MaxEvents, Limit,   \* see module MockStore
  Slack,        \* room a channel has beyond the buffer's size (5)
  PerSecond,    \* how many instants of the clock make a second
  MaxBreaks,    \* bound: how often a connection breaks or the server restarts
  EventTXRow,   \* the SSE event that inserts a row
  NoQuery       \* the query of a page that searches for nothing

VARIABLES
  store,        \* conf.MockStore
  eventQueue, eventMap, events, eventsCh, done, pc, made, clock, used,
  view,         \* what the browser shows: "table" or the page of a "tx"
  rows,         \* the rows of the table, from top to bottom
  query,        \* the query string of the table's sse-connect
  conn,         \* the EventSource: "none", "open" or "broken"
  ch,           \* the channel of its subscription, with all that is under way
  breaks,       \* connections broken and servers restarted so far
  connects,     \* history: how often this table was connected
  lost          \* history: the transactions with news that cannot be shown

Mock == INSTANCE MockStore

mockVars == <<eventQueue, eventMap, events, done, pc, made, clock, used>>
pageVars == <<view, rows, query, conn, ch, connects, lost>>
vars     == <<bufferVars, store, mockVars, eventsCh, pageVars, breaks>>

ASSUME PageAssumption ==
  /\ Stores \subseteq {"mock", "pg"} /\ PerSecond \in Nat \ {0}
  /\ Slack \in Nat /\ MaxBreaks \in Nat /\ MaxEvents \in Nat /\ Limit \in Nat \ {0}
  /\ Timestamps = 1 .. MaxEvents
  /\ {StateSubmitted, StateProving, StateVerifying, StateComplete} \subseteq States
  /\ EventTXRow \notin TxIDs
  /\ NoQuery \notin [match : SUBSET TxIDs, since : 0 .. MaxEvents]

Init ==
  /\ NewEventBuffer
  /\ store \in Stores
  /\ Mock!New
  /\ view = "table" /\ rows = << >> /\ query = NoQuery /\ conn = "none" /\ ch = << >>
  /\ breaks = 0 /\ connects = 0 /\ lost = {}

RowsOf(t) == {i \in DOMAIN rows : rows[i].id = t}
TopRow(t) == rows[Min(RowsOf(t))]

------------------------------------------------------------------------------
(* What the server sends. *)

\* Faulty variant: every event inserts a row.
EventNameRow(e) == EventTXRow

\* writeEvent: the event that begins a job inserts a row, any other is named
\* after the transaction whose row it replaces.
EventName(e) == IF e.state = StateSubmitted THEN EventTXRow ELSE e.txID

\* Row: what the event says, under the id of its transaction, which is also
\* the SSE event the row is replaced at and the page its links lead to.
Row(e) == [id |-> e.txID, swap |-> e.txID, link |-> e.txID, state |-> e.state, ts |-> e.ts]

WriteEvent(e) == [name |-> EventName(e), row |-> Row(e)]

\* Faulty variant: the ring keeps the name of the event.
RenamedNot(message) == message

\* add: what the ring keeps inserts a row, whatever its name was.
Renamed(message) == [message EXCEPT !.name = EventTXRow]

Prefilled == [i \in DOMAIN Replay |-> Renamed(WriteEvent(Replay[i]))]

\* Faulty variant: the stream of a search does not look at since.
WantedAnyTime(e) == query = NoQuery \/ e.txID \in query.match

Wanted(e) == query = NoQuery \/ (e.ts > query.since /\ e.txID \in query.match)

\* The message will find a row to replace, or is one.
Shown(message) ==
  \/ message.name = EventTXRow
  \/ RowsOf(message.name) # {}
  \/ \E i \in DOMAIN ch : ch[i].name = EventTXRow /\ ch[i].row.swap = message.name

News(e) ==
  LET message == WriteEvent(e)
      stale   == e.txID \in DOMAIN headMap /\ Stale(e)
      full    == Len(ch) >= BufferSize + Slack
  IN  IF conn = "open" /\ Wanted(e) /\ ~full
      THEN /\ ch' = Append(ch, message)
           /\ lost' = IF Shown(message) /\ ~stale THEN lost \ {e.txID}
                                                  ELSE lost \cup {e.txID}
      ELSE /\ UNCHANGED ch
           /\ lost' = IF Wanted(e) THEN lost \cup {e.txID} ELSE lost

\* broadcast: the ring and the subscription get the event.
Broadcast ==
  /\ eventsCh # << >>
  /\ eventsCh' = Tail(eventsCh)
  /\ Add(Head(eventsCh))
  /\ News(Head(eventsCh))
  /\ UNCHANGED <<store, mockVars, view, rows, query, conn, breaks, connects>>

------------------------------------------------------------------------------
(* The tables that the server renders. *)

\* Table: a row for each event found, and an EventSource with the query.
NewTable(found, q) ==
  /\ rows' = [i \in DOMAIN found |-> Row(found[i])] /\ query' = q
  /\ view' = "table"
  /\ conn' = "none" /\ ch' = << >>
  /\ connects' = 0 /\ lost' = {}
  /\ UNCHANGED <<bufferVars, store, mockVars, eventsCh, breaks>>

\* GET /, and a search for nothing.
\* It is also where the link on the page of a transaction leads back to.
Home == NewTable(<< >>, NoQuery)

\* A time in the format of RFC 3339, which has seconds.
Second(ts) == (ts \div PerSecond) * PerSecond

\* GET /api/v1/events with a text to search for.  (The answer of the database
\* is the subject of module Search.)
\* The input swaps the answer into the table, if there is one.
Table ==
  /\ store = "mock" /\ view = "table"
  /\ \E match \in SUBSET TxIDs \ {{}} :
       LET found == Mock!Search(match) IN
         NewTable(found, [match |-> match,
                          since |-> IF found = << >> THEN 0 ELSE Second(found[1].ts)])

\* GET /tx/{tx}, by a click: the page of the transaction takes the place of the
\* table, whose EventSource is closed; what is not found is not swapped in.
TxPage(i) ==
  /\ store = "mock" /\ i \in DOMAIN rows
  /\ Mock!HasTxInfo(rows[i].link)
  /\ view' = "tx" /\ rows' = << >> /\ query' = NoQuery
  /\ conn' = "none" /\ ch' = << >>
  /\ connects' = 0 /\ lost' = {}
  /\ UNCHANGED <<bufferVars, store, mockVars, eventsCh, breaks>>

------------------------------------------------------------------------------
(* The browser. *)

\* GET /api/v1/stream, for the first time or again: a page that searches for
\* nothing is sent the ring, a search nothing.
Stream ==
  /\ view = "table" /\ conn # "open"
  /\ conn' = "open"
  /\ connects' = connects + 1
  /\ ch' = IF query = NoQuery THEN Prefilled ELSE << >>
  /\ lost' = IF query = NoQuery THEN {} ELSE lost
  /\ UNCHANGED <<bufferVars, store, mockVars, eventsCh, view, rows, query, breaks>>

\* sse-swap: the table inserts the row at its beginning (afterbegin), a row
\* is replaced as a whole (outerHTML), and so is every row of its transaction.
Swap ==
  /\ ch # << >>
  /\ ch' = Tail(ch)
  /\ LET message == Head(ch) IN
       rows' = IF message.name = EventTXRow THEN << message.row >> \o rows
               ELSE [i \in DOMAIN rows |-> IF rows[i].swap = message.name
                                           THEN message.row ELSE rows[i]]
  /\ UNCHANGED <<bufferVars, store, mockVars, eventsCh, view, query, conn, breaks, connects,
                 lost>>

UnderWay == {ch[i].row.id : i \in DOMAIN ch}

\* The connection breaks, with what is under way; the rows stay.
Break ==
  /\ conn = "open" /\ breaks < MaxBreaks
  /\ conn' = "broken" /\ ch' = << >>
  /\ breaks' = breaks + 1
  /\ lost' = lost \cup UnderWay
  /\ UNCHANGED <<bufferVars, store, mockVars, eventsCh, view, rows, query, connects>>

------------------------------------------------------------------------------
(* The store and the life of the server. *)

StoreRuns ==
  /\ store = "mock"
  /\ Mock!Run \/ Mock!Stop
  /\ UNCHANGED <<bufferVars, store, pageVars, breaks>>

\* The database notifies.
Notified ==
  /\ store = "pg"
  /\ clock < MaxEvents /\ Len(eventsCh) < QueueSize
  /\ clock' = clock + 1
  /\ \E t \in TxIDs, s \in States :
       eventsCh' = Append(eventsCh, [txID |-> t, state |-> s, ts |-> clock'])
  /\ UNCHANGED <<bufferVars, store, eventQueue, eventMap, events, done, pc, made,
                 used, pageVars, breaks>>

\* The process ends at any moment and starts again: the ring, the channels and
\* all the mock store knows are gone, and the browser finds its connection
\* broken.  One reason is the map of the mock store's pages, which handlers
\* read while Run writes it: the runtime ends a process that it catches.
Restart ==
  /\ breaks < MaxBreaks
  /\ breaks' = breaks + 1
  /\ head' = [i \in Index |-> EmptySlot]
  /\ headMap' = [t \in {} |-> headMap[t]] /\ headIndex' = 0
  /\ Mock!Restart
  /\ conn' = IF conn = "open" THEN "broken" ELSE conn
  /\ ch' = << >> /\ lost' = lost \cup UnderWay
  /\ UNCHANGED <<store, view, rows, query, connects>>

------------------------------------------------------------------------------

Next ==
  \/ StoreRuns \/ Notified \/ Broadcast \/ Restart
  \/ Home \/ Table \/ (\E i \in DOMAIN rows : TxPage(i)) \/ Stream \/ Swap \/ Break

Spec == Init /\ [][Next]_vars

------------------------------------------------------------------------------

Rows    == {Row(e) : e \in Events}
Message == [name : TxIDs \cup {EventTXRow}, row : Rows]

TypeOK ==
  /\ BufferTypeOK
  /\ store \in Stores
  /\ events \in Seq(Events) /\ eventsCh \in Seq(Events) /\ pc \in {"next", "record", "send", "stopped"}
  /\ clock \in 0 .. MaxEvents /\ used \subseteq TxIDs
  /\ view \in {"table", "tx"} /\ rows \in Seq(Rows) /\ ch \in Seq(Message)
  /\ query # NoQuery => query.match \subseteq TxIDs /\ query.since \in 0 .. MaxEvents
  /\ conn \in {"none", "open", "broken"}
  /\ breaks \in 0 .. MaxBreaks /\ connects \in 0 .. MaxBreaks + 1
  /\ lost \subseteq TxIDs

\* A page that has been sent all there is shows every job of the ring as the
\* ring has it, after any number of broken connections and restarts, except for
\* jobs whose last news came out of order, found the channel full, was under way
\* when the connection of a search broke, or was not their first and found no
\* row.  A search has no replay: its rows may be ahead of the ring, and behind
\* it only by what was broadcast before it connected.
PageShowsRing ==
  conn = "open" /\ ch = << >> =>
    \A t \in DOMAIN headMap \ lost :
      LET kept == head[headMap[t].index].data IN
        /\ query = NoQuery => RowsOf(t) # {} /\ TopRow(t) = Row(kept)
        /\ query # NoQuery /\ RowsOf(t) # {} => TopRow(t).ts >= kept.ts

\* The ring, composed with the rest, implements the abstract window of recent
\* transactions: what it makes of the event that is taken is what that makes of
\* it.  A restart of the server empties it.
RingIsWindow ==
  Abstract!Init /\ [][ \/ eventsCh # << >> /\ Abstract!Arrive(Head(eventsCh))
                       \/ Restart ]_bufferVars

\* With events in order a row never goes back in time, over reconnections and
\* restarts too, except on the page of a search, within one second: an event
\* under way may be older than the rows that were found.
RowsGoBackWithinSecond ==
  [][\A t \in TxIDs :
       /\ store = "mock" /\ connects' > 0
       /\ RowsOf(t) # {} /\ TopRow(t)'.ts < TopRow(t).ts
       => query # NoQuery /\ Second(TopRow(t)'.ts) = Second(TopRow(t).ts)]_<<rows, connects>>

\* With events in order a job has at most one row for each time the page was
\* connected: what is replayed is not inserted again as live news.
OneRowPerConnection ==
  store = "mock" /\ query = NoQuery => \A t \in TxIDs : Cardinality(RowsOf(t)) <= connects

\* What a search may find has a page, and the page a row leads to tells of what
\* the row shows, until the server restarts.
RowLeadsToPage ==
  store = "mock" =>
    LET shown == ToSet(rows) \cup {Row(e) : e \in ToSet(events)} IN
      /\ \A e \in ToSet(events) : Mock!HasTxInfo(e.txID)
      /\ \A row \in shown : Mock!HasTxInfo(row.link) =>
           \E e \in ToSet(Mock!TxInfo(row.link).log) : row = Row(e)

Interchangeable == Permutations(TxIDs) \cup Permutations(Slots)

==============================================================================
