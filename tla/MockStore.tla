------------------------------ MODULE MockStore ------------------------------
(***************************************************************************)
(* store/mock/store.go: a store that invents its jobs.  Its Run goroutine  *)
(* advances one of a few jobs at a time, in three places that others can   *)
(* tell apart: the page of the job is written, the event is recorded for   *)
(* searches, the event is sent.  IDs of users and nodes and the random     *)
(* statistics are left out.                                                *)
(***************************************************************************)
EXTENDS Model, SequencesExt, FiniteSetsExt

CONSTANTS
  TxIDs,        \* the hashes that randomEvent may come up with
  EmptyTxID,    \* the TxID of a place of the queue that has no job yet
  Slots,        \* the places of eventQueue (Parallelism)
  QueueSize,    \* capacity of eventsCh (1000)
  MaxEvents,    \* bound: how many events are ever made
  Limit         \* how many events Search returns (50)

VARIABLES
  eventQueue,   \* the jobs under way, each as its last event
  eventMap,     \* the page of each transaction
  events,       \* s.events
  eventsCh,     \* the channel to the broadcaster
  done,         \* it is closed
  pc,           \* where Run is
  made,         \* the local e of Run
  clock,        \* time.Now(): how many events were ever made
  used          \* the hashes that were ever drawn

jobVars == <<eventQueue, eventMap, made, clock, used>>

NoJob == [txID |-> EmptyTxID, state |-> StateUnknown, ts |-> 0]

\* New: the memory of a process that starts.
New ==
  /\ eventQueue = [i \in Slots |-> NoJob] /\ eventMap = [t \in {} |-> NoJob]
  /\ events = << >> /\ eventsCh = << >> /\ done = FALSE
  /\ pc = "next" /\ made = NoJob
  /\ clock = 0 /\ used = {}

\* A process that starts anew.  Its hashes are new: a hash has the time in it.
Restart ==
  /\ eventQueue' = [i \in Slots |-> NoJob] /\ eventMap' = [t \in {} |-> NoJob]
  /\ events' = << >> /\ eventsCh' = << >> /\ done' = FALSE
  /\ pc' = "next" /\ made' = NoJob
  /\ UNCHANGED <<clock, used>>

------------------------------------------------------------------------------

\* The states a job may be in next.  A slot whose job is complete, or that has
\* none, gets a new job.
Successors(s) ==
  CASE s = StateSubmitted -> {StateProving}
    [] s = StateProving   -> {StateVerifying}
    [] s = StateVerifying -> {StateVerifying, StateComplete}
    [] OTHER              -> {StateSubmitted}

\* Faulty variant: a verification is not entered in the log.
LogOnce(e) == IF e.state = StateVerifying THEN << >> ELSE << e >>

Logged(e) == << e >>

\* The page of the job of e when e has happened: its state stays Proving until
\* the job is complete, its log has an entry for each event.
PageAfter(e) ==
  IF e.state = StateSubmitted
  THEN [state |-> StateProving, duration |-> 0, log |-> << e >>]
  ELSE LET old == eventMap[e.txID] IN
       [state    |-> IF e.state = StateComplete THEN StateComplete ELSE old.state,
        duration |-> IF e.state = StateComplete THEN e.ts - old.log[1].ts
                                                ELSE old.duration,
        log      |-> old.log \o Logged(e)]

\* nextEvent, for slot i.
NextEvent(i) ==
  /\ pc = "next" /\ clock < MaxEvents
  /\ \E s \in Successors(eventQueue[i].state) :
     \E t \in IF s = StateSubmitted THEN TxIDs \ used ELSE {eventQueue[i].txID} :
       LET e == [txID |-> t, state |-> s, ts |-> clock + 1] IN
         /\ eventQueue' = [eventQueue EXCEPT ![i] = e]
         /\ eventMap' = [u \in DOMAIN eventMap \cup {t} |->
                           IF u = t THEN PageAfter(e) ELSE eventMap[u]]
         /\ made' = e
  /\ clock' = clock + 1
  /\ used' = used \cup {made'.txID}
  /\ pc' = "record"
  /\ UNCHANGED <<events, eventsCh, done>>

\* Run, under eventsMu.
Record ==
  /\ pc = "record"
  /\ events' = Append(events, made)
  /\ pc' = "send"
  /\ UNCHANGED <<jobVars, eventsCh, done>>

Send ==
  /\ pc = "send"
  /\ Len(eventsCh) < QueueSize
  /\ eventsCh' = Append(eventsCh, made)
  /\ pc' = "next"
  /\ UNCHANGED <<jobVars, events, done>>

\* Run sees done and closes the channel; it looks nowhere else.
SeeDone ==
  /\ pc = "send" /\ done
  /\ pc' = "stopped"
  /\ UNCHANGED <<jobVars, events, eventsCh, done>>

Stop ==
  /\ ~done
  /\ done' = TRUE
  /\ UNCHANGED <<jobVars, events, eventsCh, pc>>

Run == (\E i \in Slots : NextEvent(i)) \/ Record \/ Send \/ SeeDone

------------------------------------------------------------------------------

\* Search, for a text that the transactions in match contain, goes from the
\* newest event to the oldest and ends when it has found enough.  A job has a
\* row for each of its events.
Search(match) ==
  LET found[i \in 0 .. Len(events)] ==
        IF i = 0 THEN << >>
        ELSE LET e == events[Len(events) - i + 1] IN
             IF e.txID \in match /\ Len(found[i - 1]) < Limit THEN Append(found[i - 1], e)
             ELSE found[i - 1]
  IN  found[Len(events)]

\* TxInfo; a transaction without a page is an error.
HasTxInfo(id) == id \in DOMAIN eventMap
TxInfo(id)    == eventMap[id]

==============================================================================
