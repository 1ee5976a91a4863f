-------------------------- MODULE LifecycleProofs --------------------------
(***************************************************************************)
(* Proofs about the end of the process, for any number of requests,        *)
(* events and signals, with and without failures.                          *)
(***************************************************************************)
EXTENDS Lifecycle, TLAPS

\* Once the Stop of the server has returned no request is being handled, and
\* the listener that would accept another is closed.
ServerDrained == stopper["server"] = "stopped" => Active = {}

Inv == TypeOK /\ ServerDrained /\ DrainedBeforeExit

\* Where a Run may be.
Places == {"start", "listen", "send", "select", "work", "serve", "broadcast", "notify", "receive",
           "returned"}

------------------------------------------------------------------------------

\* The invariant holds initially.
LEMMA InitEstablishesInv == Init => Inv
<1> SUFFICES ASSUME Init PROVE Inv OBVIOUS
<1>1. TypeOK
  <2>1. /\ queue \in 0 .. QueueSize /\ emitted \in 0 .. MaxEvents
        /\ buffered \in 0 .. 1 /\ signals \in 0 .. MaxSignals
    BY LifecycleAssumption DEF Init
  <2> QED BY <2>1 DEF Init, TypeOK
<1>2. "server" \in Components BY DEF Components
<1> QED BY <1>1, <1>2 DEF Init, Inv, ServerDrained, DrainedBeforeExit

\* A step of the runner.
LEMMA RunnerKeepsInv ==
  ASSUME Inv, exit = "up", Runner
  PROVE  Inv'
<1>1. TypeOK /\ ServerDrained /\ {"server", "store"} \subseteq Components
  BY DEF Inv, Components
<1> USE DEF runnerVars, eventVars, signalVars, Active
<1>2. CASE \E c \in Components : CallStop(c)
  <2>1. PICK c \in Components : CallStop(c) BY <1>2
  <2>2. TypeOK' BY <1>1, <2>1 DEF CallStop, TypeOK
  <2>3. ServerDrained' BY <1>1, <2>1 DEF CallStop, TypeOK, ServerDrained
  <2>4. exit' = "up" BY <2>1 DEF CallStop
  <2> QED BY <2>2, <2>3, <2>4 DEF Inv, DrainedBeforeExit
<1>3. CASE CloseDB
  <2>1. TypeOK' BY <1>1, <1>3 DEF CloseDB, TypeOK
  <2>2. ServerDrained' BY <1>1, <1>3 DEF CloseDB, TypeOK, ServerDrained
  <2>3. exit' = "up" BY <1>3 DEF CloseDB
  <2> QED BY <2>1, <2>2, <2>3 DEF Inv, DrainedBeforeExit
<1>4. CASE Drained
  <2>1. TypeOK' BY <1>1, <1>4 DEF Drained, TypeOK
  <2>2. ServerDrained' BY <1>4 DEF Drained, ServerDrained
  <2>3. exit' = "up" BY <1>4 DEF Drained
  <2> QED BY <2>1, <2>2, <2>3 DEF Inv, DrainedBeforeExit
<1>5. CASE Exit
  <2>1. TypeOK' BY <1>1, <1>5 DEF Exit, TypeOK
  <2>2. stopper["server"] = "stopped" BY <1>1, <1>5 DEF Exit, AllReturned
  <2>3. Active' = {} BY <1>1, <1>5, <2>2 DEF Exit, ServerDrained
  <2> QED BY <2>1, <2>3 DEF Inv, ServerDrained, DrainedBeforeExit
<1> QED BY <1>2, <1>3, <1>4, <1>5 DEF Runner

\* What moves the Run of a component keeps the types of the runner.
LEMMA RunMoves ==
  ASSUME TypeOK, NEW c \in Components, NEW from,
         NEW to \in Places,
         Goes(c, from, to) \/ Returns(c, from) \/ Fails(c, from)
  PROVE  /\ pc' \in [Components -> Places]
         /\ failed' \in BOOLEAN /\ stopped' \in BOOLEAN /\ ready' \in BOOLEAN
BY DEF TypeOK, Goes, Returns, Fails, Places

\* A step of a Run, which leaves the requests and the process alone.
LEMMA RunKeepsInv ==
  ASSUME Inv, exit = "up",
         \/ Store \/ Server \/ Broadcaster \/ SignalHandler
         \/ \E c \in Tickers : Ticker(c)
  PROVE  Inv'
<1>1. /\ TypeOK /\ Tickers \subseteq Components
      /\ {"store", "server", "broadcaster", "signals"} \subseteq Components
  BY DEF Inv, Components
<1> DEFINE Moved == /\ pc' \in [Components -> Places]
                    /\ failed' \in BOOLEAN /\ stopped' \in BOOLEAN /\ ready' \in BOOLEAN
           Queues == queue' \in 0 .. QueueSize /\ emitted' \in 0 .. MaxEvents
           Signals == buffered' \in 0 .. 1 /\ signals' = signals
<1> USE DEF OnlyRun, unchangedByRun, eventVars, signalVars, Places
<1>2. CASE Store
  <2>1. Moved
    BY <1>1, <1>2, RunMoves
       DEF Store, Listen, CannotListen, Notified, ListenFails, SendEvent, SendTimesOut, Cancelled
  <2>2. UNCHANGED unchangedByRun
    BY <1>2
       DEF Store, Listen, CannotListen, Notified, ListenFails, SendEvent, SendTimesOut, Cancelled
  <2>3. Queues
    BY <1>1, <1>2, LifecycleAssumption
       DEF TypeOK, Store, Listen, CannotListen, Notified, ListenFails, SendEvent, SendTimesOut,
           Cancelled, HasRoom
  <2> QED BY <1>1, <2>1, <2>2, <2>3 DEF Inv, TypeOK, ServerDrained, DrainedBeforeExit, Active
<1>3. CASE Server
  <2>1. Moved BY <1>1, <1>3, RunMoves DEF Server, Serve, CannotServe, ServerClosed
  <2>2. OnlyRun BY <1>3 DEF Server, Serve, CannotServe, ServerClosed
  <2> QED BY <1>1, <2>1, <2>2 DEF Inv, TypeOK, ServerDrained, DrainedBeforeExit, Active
<1>4. CASE Broadcaster
  <2>1. Moved
    BY <1>1, <1>4, RunMoves
       DEF Broadcaster, BroadcasterStarts, Broadcast, BroadcastDone, BroadcasterReturns
  <2>2. UNCHANGED unchangedByRun
    BY <1>4 DEF Broadcaster, BroadcasterStarts, Broadcast, BroadcastDone, BroadcasterReturns
  <2>3. Queues
    BY <1>1, <1>4, LifecycleAssumption
       DEF TypeOK, Broadcaster, BroadcasterStarts, Broadcast, BroadcastDone, BroadcasterReturns
  <2> QED BY <1>1, <2>1, <2>2, <2>3 DEF Inv, TypeOK, ServerDrained, DrainedBeforeExit, Active
<1>5. CASE SignalHandler
  <2>1. Moved
    BY <1>1, <1>5, RunMoves DEF SignalHandler, Notify, AwaitSignal, SignalReceived
  <2>2. UNCHANGED <<eventVars, stopper, dbOpen, handler, exit>>
    BY <1>5 DEF SignalHandler, Notify, AwaitSignal, SignalReceived
  <2>3. Signals BY <1>1, <1>5 DEF TypeOK, SignalHandler, Notify, AwaitSignal, SignalReceived
  <2> QED BY <1>1, <2>1, <2>2, <2>3 DEF Inv, TypeOK, ServerDrained, DrainedBeforeExit, Active
<1>6. CASE \E c \in Tickers : Ticker(c)
  <2>1. PICK c \in Tickers : Ticker(c) BY <1>6
  <2>2. Moved
    BY <1>1, <2>1, RunMoves DEF Ticker, FirstQuery, FirstQueryFails, Work, WorkDone, SeesDone
  <2>3. OnlyRun BY <2>1 DEF Ticker, FirstQuery, FirstQueryFails, Work, WorkDone, SeesDone
  <2> QED BY <1>1, <2>2, <2>3 DEF Inv, TypeOK, ServerDrained, DrainedBeforeExit, Active
<1> QED BY <1>2, <1>3, <1>4, <1>5, <1>6

\* An interrupt, and the requests.
LEMMA OutsideKeepsInv ==
  ASSUME Inv, exit = "up", Interrupt \/ \E r \in Clients : Handler(r)
  PROVE  Inv'
<1>1. TypeOK /\ ServerDrained /\ {"server", "signals"} \subseteq Components
  BY DEF Inv, Components
<1>2. CASE Interrupt
  <2>1. UNCHANGED <<runnerVars, stopper, dbOpen, eventVars, handler>> BY <1>2 DEF Interrupt
  <2>2. exit' \in {"up", "killed", "panic"} BY <1>2 DEF Interrupt
  <2>3. buffered' \in 0 .. 1 /\ signals' \in 0 .. MaxSignals
    BY <1>1, <1>2, LifecycleAssumption DEF Interrupt, TypeOK, Full
  <2> QED
    BY <1>1, <2>1, <2>2, <2>3
       DEF runnerVars, eventVars, Inv, TypeOK, ServerDrained, DrainedBeforeExit, Active
<1>3. CASE \E r \in Clients : Handler(r)
  <2>1. PICK r \in Clients : Handler(r) BY <1>3
  <2>2. /\ UNCHANGED <<runnerVars, stopper, dbOpen, eventVars, signalVars, exit>>
        /\ handler' \in [Clients -> {"none", "query", "stream", "ended"} \cup Writing]
        /\ stopper["server"] = "stopped" => Active' \subseteq Active
    BY <1>1, <2>1
       DEF Handler, Request, Answered, Refused, ClientLeaves, StreamEnds, WriteEvent, Written,
           WriteFails, Becomes, Writing, TypeOK, Active
  <2> QED
    BY <1>1, <2>2
       DEF runnerVars, eventVars, signalVars, Inv, TypeOK, ServerDrained, DrainedBeforeExit
<1> QED BY <1>2, <1>3

\* Every step keeps the invariant.
LEMMA NextKeepsInv == Inv /\ [Next]_vars => Inv'
<1> SUFFICES ASSUME Inv, [Next]_vars PROVE Inv' OBVIOUS
<1>1. CASE Step BY <1>1, RunnerKeepsInv, RunKeepsInv, OutsideKeepsInv DEF Step
<1>2. CASE UNCHANGED vars
  BY <1>2
     DEF vars, runnerVars, eventVars, signalVars, Inv, TypeOK, ServerDrained, DrainedBeforeExit,
         Active
<1> QED BY <1>1, <1>2 DEF Next, Ended

\* The invariant of what follows.
THEOREM Invariance == Spec => []Inv
BY InitEstablishesInv, NextKeepsInv, PTL DEF Spec

\* The components and the runner keep their types; no queue overflows.
THEOREM TypeCorrect == Spec => []TypeOK
<1>1. Inv => TypeOK BY DEF Inv
<1> QED BY <1>1, Invariance, PTL

\* The process does not end under a request, however it came to its end.
THEOREM AlwaysDrainedBeforeExit == Spec => []DrainedBeforeExit
<1>1. Inv => DrainedBeforeExit BY DEF Inv
<1> QED BY <1>1, Invariance, PTL

==============================================================================
