-------------------------- MODULE BroadcasterProofs --------------------------
(***************************************************************************)
(* Proofs about the broadcaster and its connections, for every number of   *)
(* connections, events and slots and whatever the clients read.  The first *)
(* half is about who may do what: the inductive invariant Inv says who     *)
(* holds clientsMu, where each handler stands with respect to the member   *)
(* map, and how far the channel of a new connection can have filled.  The  *)
(* second half is about what reaches the connections: DeliveryInv and      *)
(* RingKnown, which rest on Inv.                                           *)
(***************************************************************************)
EXTENDS Broadcaster, EventBufferProofs, FiniteSetTheorems

\* The types, and what the program counters add to them.
Typed ==
  /\ TypeOK
  /\ bpc \in {"lock", "send"} => current \in Events
  /\ \A s \in Subs : hpc[s] = "write" => writing[s] \in Events

\* clientsMu is held by the broadcast that sends, or by the connection that
\* subscribes.
LockHeld ==
  /\ mutex = Server <=> bpc = "send"
  /\ \A s \in Subs : mutex = s <=> hpc[s] = "subscribe"

\* The members are the connections between Subscribe and unsubscribe; their
\* channels are open, and only a broadcast that holds the mutex has some of
\* them left to visit.
MembersKnown ==
  /\ \A s \in Subs : /\ s \in clients <=> hpc[s] \in {"subscribe", "select", "write", "leave"}
                     /\ s \in closed <=> hpc[s] = "gone"
                     /\ s >= nextID => hpc[s] = "absent"
  /\ todo \subseteq clients
  /\ \A i \in DOMAIN blocked : blocked[i] \in clients
  /\ bpc # "send" => todo = {} /\ blocked = << >>

\* The channel of a connection that subscribes holds at most one row per slot
\* already visited.
RoomLeft ==
  \A s \in Subs :
    /\ hpc[s] = "absent" => ch[s] = << >>
    /\ hpc[s] = "subscribe" => slot[s] >= 1 /\ Len(ch[s]) < slot[s]

Inv == BufferInv /\ Typed /\ LockHeld /\ MembersKnown /\ RoomLeft

------------------------------------------------------------------------------
(* Initial states. *)

\* The invariant holds initially.
LEMMA InitImpliesInv == Init => Inv
<1> SUFFICES ASSUME Init PROVE Inv
  OBVIOUS
<1> USE BroadcasterAssumption DEF Init
<1>1. BufferInv BY InitInv
<1>2. Typed
  <2>1. BufferTypeOK BY <1>1 DEF BufferInv
  <2>2. << >> \in Seq(Events) /\ << >> \in Seq(Subs) OBVIOUS
  <2>3. 0 \in 0 .. MaxSubs /\ 0 \in 0 .. MaxEvents /\ 0 \in 0 .. BufferSize + 1
    BY BufferAssumption
  <2> HIDE BroadcasterAssumption
  <2>4. TypeOK BY <2>1, <2>2, <2>3 DEF TypeOK
  <2> QED BY <2>4 DEF Typed
<1>3. LockHeld BY DEF LockHeld
<1>4. MembersKnown BY DEF MembersKnown
<1>5. RoomLeft BY DEF RoomLeft
<1> QED BY <1>1, <1>2, <1>3, <1>4, <1>5 DEF Inv

------------------------------------------------------------------------------
(* The ring. *)

\* Only a broadcast touches the ring, by one call of add.
LEMMA RingStep ==
  ASSUME Inv, [Next]_vars
  PROVE  BufferInv'
<1>1. BufferInv BY DEF Inv
<1>2. CASE UNCHANGED bufferVars BY <1>1, <1>2, StutterInv
<1>3. CASE Broadcast
  <2>1. current \in Events /\ Add(current)
    BY <1>3 DEF Broadcast, Inv, Typed
  <2> QED BY <1>1, <2>1, AddInv
<1> QED
  BY <1>2, <1>3
  DEF Next, vars, Store, Emit, CloseEvents, Stop, Run, TakeEvent, RenderFails,
      EventsClosed, SeeStop, Send, RetrySend, RetryTimeout, BroadcastDone,
      Handler, Subscribe, Register, Prefill, Subscribed, Receive, Written,
      WriteFails, Disconnected, HandlerStops, Leave, Unsubscribe, Terminated

------------------------------------------------------------------------------
(* The types. *)

\* The store's part.
LEMMA StoreTyped ==
  ASSUME Inv, BufferTypeOK', Store \/ Stop
  PROVE  Typed'
<1>1. TypeOK /\ (bpc \in {"lock", "send"} => current \in Events)
      /\ (\A s \in Subs : hpc[s] = "write" => writing[s] \in Events)
  BY DEF Inv, Typed
<1>2. CASE Emit
  <2>1. events' \in Seq(Events) /\ emitted' \in 0 .. MaxEvents
    <3>1. PICK t \in TxIDs, st \in States :
            events' = Append(events, [txID |-> t, state |-> st, ts |-> emitted + 1])
      BY <1>2 DEF Emit
    <3>2. emitted \in 0 .. MaxEvents /\ emitted < MaxEvents /\ emitted' = emitted + 1
      BY <1>1, <1>2 DEF Emit, TypeOK
    <3>3. emitted + 1 \in Timestamps BY <3>2, BroadcasterAssumption
    <3>4. [txID |-> t, state |-> st, ts |-> emitted + 1] \in Events
      BY <3>3 DEF Events
    <3>5. events \in Seq(Events) BY <1>1 DEF TypeOK
    <3>6. events' \in Seq(Events) BY <3>1, <3>4, <3>5
    <3> QED BY <3>2, <3>6, BroadcasterAssumption
  <2> QED
    BY <1>1, <1>2, <2>1
    DEF Emit, Typed, TypeOK, memberVars, serverVars, handlerVars, history
<1>3. CASE CloseEvents
  BY <1>1, <1>3
  DEF CloseEvents, Typed, TypeOK, memberVars, serverVars, handlerVars, history
<1>4. CASE Stop
  BY <1>1, <1>4
  DEF Stop, Typed, TypeOK, storeVars, memberVars, serverVars, handlerVars, history
<1> QED BY <1>2, <1>3, <1>4 DEF Store

\* The broadcaster's part.
LEMMA RunTyped ==
  ASSUME Inv, BufferTypeOK', Run
  PROVE  Typed'
<1> USE DEF storeVars, memberVars, serverVars, handlerVars, history
<1>1. TypeOK /\ (bpc \in {"lock", "send"} => current \in Events)
      /\ (\A s \in Subs : hpc[s] = "write" => writing[s] \in Events)
  BY DEF Inv, Typed
<1>2. CASE TakeEvent
  <2>1. Head(events) \in Events /\ Tail(events) \in Seq(Events)
    BY <1>1, <1>2 DEF TakeEvent, TypeOK
  <2> QED BY <1>1, <1>2, <2>1 DEF TakeEvent, Typed, TypeOK
<1>3. CASE RenderFails
  BY <1>1, <1>3 DEF RenderFails, Typed, TypeOK
<1>4. CASE EventsClosed
  BY <1>1, <1>4 DEF EventsClosed, Typed, TypeOK
<1>5. CASE SeeStop
  BY <1>1, <1>5 DEF SeeStop, Typed, TypeOK
<1>6. CASE Broadcast
  <2>1. todo' \subseteq Subs /\ mutex' \in Subs \cup {Server, Nobody}
    BY <1>1, <1>6 DEF Broadcast, TypeOK
  <2>2. log' \in Seq(Events)
    BY <1>1, <1>6 DEF Broadcast, TypeOK
  <2> QED BY <1>1, <1>6, <2>1, <2>2 DEF Broadcast, Typed, TypeOK
<1>7. ASSUME NEW s \in Subs, Send(s) PROVE Typed'
  <2>1. current \in Events /\ blocked \in Seq(Subs) /\ ch \in [Subs -> Seq(Events)]
    BY <1>1, <1>7 DEF Send, TypeOK
  <2>2. ch' \in [Subs -> Seq(Events)]
    <3>1. Append(ch[s], current) \in Seq(Events) BY <2>1
    <3> QED BY <1>7, <2>1, <3>1 DEF Send
  <2>3. blocked' \in Seq(Subs)
    <3>1. Append(blocked, s) \in Seq(Subs) BY <2>1
    <3> QED BY <1>7, <2>1, <3>1 DEF Send, Postponed
  <2>4. todo' \subseteq Subs BY <1>1, <1>7 DEF Send, TypeOK
  <2> QED BY <1>1, <1>7, <2>2, <2>3, <2>4 DEF Send, Typed, TypeOK
<1>8. CASE RetrySend
  <2>1. current \in Events /\ blocked \in Seq(Subs) /\ ch \in [Subs -> Seq(Events)]
    BY <1>1, <1>8 DEF RetrySend, TypeOK
  <2>2. blocked' \in Seq(Subs) /\ Head(blocked) \in Subs
    BY <1>8, <2>1 DEF RetrySend
  <2>3. ch' \in [Subs -> Seq(Events)]
    <3>1. Append(ch[Head(blocked)], current) \in Seq(Events) BY <2>1, <2>2
    <3> QED BY <1>8, <2>1, <2>2, <3>1 DEF RetrySend
  <2> QED BY <1>1, <1>8, <2>2, <2>3 DEF RetrySend, Typed, TypeOK
<1>9. CASE RetryTimeout
  <2>1. /\ current \in Events /\ blocked \in Seq(Subs)
        /\ dropped \in [Subs -> Seq(Events)]
    BY <1>1, <1>9 DEF RetryTimeout, TypeOK
  <2>2. blocked' \in Seq(Subs) /\ Head(blocked) \in Subs
    BY <1>9, <2>1 DEF RetryTimeout
  <2>3. dropped' \in [Subs -> Seq(Events)]
    <3>1. Append(dropped[Head(blocked)], current) \in Seq(Events) BY <2>1, <2>2
    <3> QED BY <1>9, <2>1, <2>2, <3>1 DEF RetryTimeout
  <2> QED BY <1>1, <1>9, <2>2, <2>3 DEF RetryTimeout, Typed, TypeOK
<1>10. CASE BroadcastDone
  BY <1>1, <1>10 DEF BroadcastDone, Typed, TypeOK
<1> QED BY <1>2, <1>3, <1>4, <1>5, <1>6, <1>7, <1>8, <1>9, <1>10 DEF Run

\* The handlers' part.
LEMMA HandlerTyped ==
  ASSUME Inv, BufferTypeOK', NEW s \in Subs, Handler(s)
  PROVE  Typed'
<1> USE DEF storeVars, memberVars, serverVars, handlerVars, history
<1>1. TypeOK /\ (bpc \in {"lock", "send"} => current \in Events)
      /\ (\A r \in Subs : hpc[r] = "write" => writing[r] \in Events)
  BY DEF Inv, Typed
<1>2. CASE Subscribe(s)
  <2>1. PICK f \in SearchFilters \cup {NoFilter}, b \in BOOLEAN : Register(s, f, b)
    BY <1>2 DEF Subscribe
  <2>2. mutex' \in Subs \cup {Server, Nobody} /\ clients' \subseteq Subs
    BY <1>1, <2>1 DEF Register, HeldBy, TypeOK
  <2>3. nextID' \in 0 .. MaxSubs
    BY <1>1, <2>1, BroadcasterAssumption DEF Register, TypeOK, Subs
  <2>4. filter' \in [Subs -> SearchFilters \cup {NoFilter}]
    BY <1>1, <2>1 DEF Register, TypeOK
  <2>5. slot' \in [Subs -> 0 .. BufferSize + 1]
    BY <1>1, <2>1, BufferAssumption DEF Register, TypeOK
  <2>6. start' \in [Subs -> Nat]
    <3>1. Len(log) \in Nat BY <1>1 DEF TypeOK
    <3> QED BY <1>1, <2>1, <3>1 DEF Register, TypeOK
  <2> QED BY <1>1, <2>1, <2>2, <2>3, <2>4, <2>5, <2>6 DEF Register, Typed, TypeOK
<1>3. CASE Prefill(s)
  <2>1. /\ slot[s] \in 0 .. BufferSize /\ ch \in [Subs -> Seq(Events)]
        /\ replayed \in [Subs -> Seq(Events)]
    <3>1. slot[s] <= BufferSize BY <1>3 DEF Prefill, LastSlot
    <3>2. slot[s] \in 0 .. BufferSize + 1 BY <1>1 DEF TypeOK
    <3>3. slot[s] \in 0 .. BufferSize BY <3>1, <3>2, BufferAssumption
    <3> QED BY <1>1, <3>3 DEF TypeOK
  <2>2. ReplaySlot(slot[s]).data \in Events \cup {NoData}
    BY <1>1, <2>1, ReplaySlotType DEF TypeOK
  <2>3. ch' \in [Subs -> Seq(Events)] /\ replayed' \in [Subs -> Seq(Events)]
    <3> DEFINE d == ReplaySlot(slot[s]).data
    <3>1. CASE d = NoData
      BY <1>3, <2>1, <3>1 DEF Prefill
    <3>2. CASE d # NoData
      <4>1. Append(ch[s], d) \in Seq(Events) /\ Append(replayed[s], d) \in Seq(Events)
        BY <2>1, <2>2, <3>2
      <4>2. /\ ch' = [ch EXCEPT ![s] = Append(@, d)]
            /\ replayed' = [replayed EXCEPT ![s] = Append(@, d)]
        BY <1>3, <3>2 DEF Prefill
      <4> HIDE DEF d
      <4> QED BY <2>1, <4>1, <4>2
    <3> QED BY <3>1, <3>2
  <2>4. slot' \in [Subs -> 0 .. BufferSize + 1]
    <3>1. slot[s] + 1 \in 0 .. BufferSize + 1 BY <2>1, BufferAssumption
    <3> QED BY <1>1, <1>3, <3>1 DEF Prefill, TypeOK
  <2> QED BY <1>1, <1>3, <2>3, <2>4 DEF Prefill, Typed, TypeOK
<1>4. CASE Subscribed(s)
  BY <1>1, <1>4 DEF Subscribed, Typed, TypeOK
<1>5. CASE Receive(s)
  <2>1. Head(ch[s]) \in Events /\ Tail(ch[s]) \in Seq(Events)
    BY <1>1, <1>5 DEF Receive, TypeOK
  <2> QED BY <1>1, <1>5, <2>1 DEF Receive, Typed, TypeOK
<1>6. CASE Written(s)
  <2>1. Append(got[s], writing[s]) \in Seq(Events)
    BY <1>1, <1>6 DEF Written, TypeOK
  <2> QED BY <1>1, <1>6, <2>1 DEF Written, Typed, TypeOK
<1>7. CASE WriteFails(s)
  BY <1>1, <1>7 DEF WriteFails, Typed, TypeOK
<1>8. CASE Disconnected(s) \/ HandlerStops(s)
  BY <1>1, <1>8 DEF Disconnected, HandlerStops, Leave, Typed, TypeOK
<1>9. CASE Unsubscribe(s)
  BY <1>1, <1>9 DEF Unsubscribe, MembersWithout, Typed, TypeOK
<1> QED BY <1>2, <1>3, <1>4, <1>5, <1>6, <1>7, <1>8, <1>9 DEF Handler

------------------------------------------------------------------------------
(* The mutex. *)

\* The goroutine that sends or subscribes holds clientsMu, and nobody else.
LEMMA LockStep ==
  ASSUME Inv, [Next]_vars
  PROVE  LockHeld'
<1> USE DEF storeVars, memberVars, serverVars, handlerVars, history
<1>1. /\ mutex = Server <=> bpc = "send"
      /\ \A s \in Subs : mutex = s <=> hpc[s] = "subscribe"
      /\ hpc \in [Subs -> {"absent", "subscribe", "select", "write", "leave", "gone"}]
      /\ mutex \in Subs \cup {Server, Nobody}
  BY DEF Inv, LockHeld, Typed, TypeOK
<1>2. Server # Nobody /\ Server \notin Subs /\ Nobody \notin Subs
  BY BroadcasterAssumption
<1>3. CASE UNCHANGED <<mutex, bpc, hpc>>
  BY <1>1, <1>3 DEF LockHeld
<1>4. CASE TakeEvent \/ RenderFails \/ EventsClosed \/ SeeStop
  BY <1>1, <1>4 DEF TakeEvent, RenderFails, EventsClosed, SeeStop, LockHeld
<1>5. CASE Broadcast
  BY <1>1, <1>2, <1>5 DEF Broadcast, LockHeld
<1>6. CASE BroadcastDone
  BY <1>1, <1>2, <1>6 DEF BroadcastDone, LockHeld
<1>7. ASSUME NEW s \in Subs, Subscribe(s) PROVE LockHeld'
  BY <1>1, <1>2, <1>7 DEF Subscribe, Register, HeldBy, LockHeld
<1>8. ASSUME NEW s \in Subs, Subscribed(s) PROVE LockHeld'
  BY <1>1, <1>2, <1>8 DEF Subscribed, LockHeld
<1>9. ASSUME NEW s \in Subs,
             Receive(s) \/ Written(s) \/ WriteFails(s) \/ Leave(s) \/ Unsubscribe(s)
      PROVE  LockHeld'
  <2>1. hpc[s] # "subscribe" /\ hpc'[s] # "subscribe"
    BY <1>1, <1>9 DEF Receive, Written, WriteFails, Leave, Unsubscribe
  <2>2. \A r \in Subs \ {s} : hpc'[r] = hpc[r]
    BY <1>1, <1>9 DEF Receive, Written, WriteFails, Leave, Unsubscribe
  <2>3. UNCHANGED <<mutex, bpc>>
    BY <1>9 DEF Receive, Written, WriteFails, Leave, Unsubscribe
  <2> QED BY <1>1, <2>1, <2>2, <2>3 DEF LockHeld
<1> QED
  BY <1>3, <1>4, <1>5, <1>6, <1>7, <1>8, <1>9
  DEF Next, vars, Store, Emit, CloseEvents, Stop, Run, Send, RetrySend,
      RetryTimeout, Handler, Prefill, Disconnected, HandlerStops, Terminated

------------------------------------------------------------------------------
(* The member map. *)

\* A connection enters the map when it subscribes and leaves it when its
\* channel is closed, never under a broadcast.
LEMMA MembersStep ==
  ASSUME Inv, [Next]_vars
  PROVE  MembersKnown'
<1> USE DEF storeVars, memberVars, serverVars, handlerVars, history
<1> DEFINE Member == {"subscribe", "select", "write", "leave"}
<1>1. /\ \A s \in Subs : /\ s \in clients <=> hpc[s] \in Member
                         /\ s \in closed <=> hpc[s] = "gone"
                         /\ s >= nextID => hpc[s] = "absent"
      /\ todo \subseteq clients
      /\ \A i \in DOMAIN blocked : blocked[i] \in clients
      /\ bpc # "send" => todo = {} /\ blocked = << >>
  BY DEF Inv, MembersKnown
<1>2. /\ hpc \in [Subs -> {"absent", "subscribe", "select", "write", "leave", "gone"}]
      /\ clients \subseteq Subs /\ closed \subseteq Subs
      /\ blocked \in Seq(Subs) /\ nextID \in 0 .. MaxSubs
      /\ mutex = Server <=> bpc = "send"
  BY DEF Inv, Typed, TypeOK, LockHeld
<1>3. Server # Nobody /\ Server \notin Subs /\ Nobody \notin Subs /\ MaxSubs \in Nat
  BY BroadcasterAssumption
<1>4. CASE UNCHANGED <<clients, closed, hpc, nextID, todo, blocked, bpc>>
  BY <1>1, <1>4 DEF MembersKnown
<1>5. CASE TakeEvent \/ RenderFails \/ EventsClosed \/ SeeStop
  BY <1>1, <1>5 DEF TakeEvent, RenderFails, EventsClosed, SeeStop, MembersKnown
<1>6. CASE Broadcast
  BY <1>1, <1>6 DEF Broadcast, MembersKnown
<1>7. ASSUME NEW s \in Subs, Send(s) PROVE MembersKnown'
  <2>1. /\ todo' \subseteq clients /\ bpc' = "send"
        /\ UNCHANGED <<clients, closed, hpc, nextID>>
    BY <1>1, <1>7 DEF Send
  <2>2. blocked' = blocked \/ blocked' = Append(blocked, s)
    BY <1>7 DEF Send, Postponed
  <2>3. \A i \in DOMAIN blocked' : blocked'[i] \in clients
    <3>1. s \in clients BY <1>1, <1>7 DEF Send
    <3>2. CASE blocked' = Append(blocked, s)
      <4>1. /\ DOMAIN blocked' = 1 .. Len(blocked) + 1
            /\ \A i \in 1 .. Len(blocked) : blocked'[i] = blocked[i]
            /\ blocked'[Len(blocked) + 1] = s
        BY <1>2, <3>2
      <4>2. DOMAIN blocked = 1 .. Len(blocked) BY <1>2
      <4> QED BY <1>1, <1>2, <3>1, <4>1, <4>2
    <3> QED BY <1>1, <2>2, <3>2
  <2> QED BY <1>1, <2>1, <2>3 DEF MembersKnown
<1>8. CASE RetrySend \/ RetryTimeout
  <2>1. /\ blocked # << >> /\ blocked' = Tail(blocked) /\ bpc' = "send"
        /\ UNCHANGED <<clients, closed, hpc, nextID, todo>>
    BY <1>8 DEF RetrySend, RetryTimeout
  <2>2. \A i \in DOMAIN blocked' : i + 1 \in DOMAIN blocked /\ blocked'[i] = blocked[i + 1]
    BY <1>2, <2>1
  <2> QED BY <1>1, <2>1, <2>2 DEF MembersKnown
<1>9. CASE BroadcastDone
  BY <1>1, <1>9 DEF BroadcastDone, MembersKnown
<1>10. ASSUME NEW s \in Subs, Subscribe(s) PROVE MembersKnown'
  <2>1. /\ s = nextID /\ nextID' = nextID + 1
        /\ clients' = clients \cup {s} /\ hpc' = [hpc EXCEPT ![s] = "subscribe"]
        /\ UNCHANGED <<closed, todo, blocked, bpc>>
    BY <1>10 DEF Subscribe, Register
  <2>2. \A r \in Subs : r >= nextID' => hpc'[r] = "absent"
    BY <1>1, <1>2, <1>3, <2>1 DEF Subs
  <2>3. hpc[s] = "absent" BY <1>1, <1>2, <1>3, <2>1 DEF Subs
  <2>4. \A r \in Subs : /\ r \in clients' <=> hpc'[r] \in Member
                        /\ r \in closed' <=> hpc'[r] = "gone"
    BY <1>1, <1>2, <2>1, <2>3
  <2> QED BY <1>1, <2>1, <2>2, <2>4 DEF MembersKnown
<1>11. ASSUME NEW s \in Subs,
              Subscribed(s) \/ Receive(s) \/ Written(s) \/ WriteFails(s) \/ Leave(s)
       PROVE  MembersKnown'
  <2>1. /\ hpc[s] \in Member /\ hpc'[s] \in Member
        /\ \A r \in Subs \ {s} : hpc'[r] = hpc[r]
        /\ UNCHANGED <<clients, closed, nextID, todo, blocked, bpc>>
    BY <1>2, <1>11 DEF Subscribed, Receive, Written, WriteFails, Leave
  <2>2. \A r \in Subs : hpc[r] \in Member <=> hpc'[r] \in Member BY <2>1
  <2>3. \A r \in Subs : hpc[r] = "gone" <=> hpc'[r] = "gone" BY <2>1
  <2>4. \A r \in Subs : hpc[r] = "absent" <=> hpc'[r] = "absent" BY <2>1
  <2> QED BY <1>1, <2>1, <2>2, <2>3, <2>4 DEF MembersKnown
<1>12. ASSUME NEW s \in Subs, Unsubscribe(s) PROVE MembersKnown'
  <2>1. /\ mutex = Nobody /\ hpc[s] = "leave"
        /\ clients' = clients \ {s} /\ closed' = closed \cup {s}
        /\ hpc' = [hpc EXCEPT ![s] = "gone"]
        /\ UNCHANGED <<nextID, todo, blocked, bpc>>
    BY <1>12 DEF Unsubscribe, MembersWithout
  <2>2. todo = {} /\ blocked = << >> /\ bpc # "send" BY <1>1, <1>2, <1>3, <2>1
  <2>3. \A r \in Subs : /\ r \in clients' <=> hpc'[r] \in Member
                        /\ r \in closed' <=> hpc'[r] = "gone"
                        /\ r >= nextID => hpc'[r] = "absent"
    BY <1>1, <1>2, <2>1
  <2> QED BY <2>1, <2>2, <2>3 DEF MembersKnown
<1> QED
  BY <1>4, <1>5, <1>6, <1>7, <1>8, <1>9, <1>10, <1>11, <1>12
  DEF Next, vars, Store, Emit, CloseEvents, Stop, Run, Handler, Prefill,
      Disconnected, HandlerStops, Terminated

------------------------------------------------------------------------------
(* Room for the replay. *)

\* While a connection subscribes only its own replay sends to its channel, at
\* most one row per slot.
LEMMA RoomStep ==
  ASSUME Inv, [Next]_vars
  PROVE  RoomLeft'
<1> USE DEF storeVars, memberVars, serverVars, handlerVars, history
<1> DEFINE Room(s) == /\ hpc[s] = "absent" => ch[s] = << >>
                      /\ hpc[s] = "subscribe" => slot[s] >= 1 /\ Len(ch[s]) < slot[s]
<1>1. \A s \in Subs : Room(s) BY DEF Inv, RoomLeft
<1>2. /\ hpc \in [Subs -> {"absent", "subscribe", "select", "write", "leave", "gone"}]
      /\ ch \in [Subs -> Seq(Events)] /\ slot \in [Subs -> 0 .. BufferSize + 1]
      /\ BufferSize \in Nat \ {0}
  BY BufferAssumption DEF Inv, Typed, TypeOK
<1>3. /\ \A s \in Subs : s \in clients => hpc[s] # "absent"
      /\ todo \subseteq clients
      /\ blocked # << >> => Head(blocked) \in clients
      /\ bpc = "send" => \A s \in Subs : hpc[s] # "subscribe"
  <2>1. blocked # << >> => 1 \in DOMAIN blocked /\ Head(blocked) = blocked[1]
    BY DEF Inv, Typed, TypeOK
  <2>2. bpc = "send" => \A s \in Subs : hpc[s] # "subscribe"
    BY BroadcasterAssumption DEF Inv, LockHeld
  <2> QED BY <2>1, <2>2 DEF Inv, MembersKnown
<1>4. CASE UNCHANGED <<hpc, ch, slot>>
  BY <1>1, <1>4 DEF RoomLeft
<1>5. CASE (\E s \in Subs : Send(s)) \/ RetrySend
  <2>1. PICK s \in clients : \A r \in Subs \ {s} : ch'[r] = ch[r]
    BY <1>2, <1>3, <1>5 DEF Send, RetrySend
  <2>2. UNCHANGED <<hpc, slot>> /\ bpc = "send" BY <1>5 DEF Send, RetrySend
  <2> QED BY <1>1, <1>3, <2>1, <2>2 DEF RoomLeft
<1>6. ASSUME NEW s \in Subs, Subscribe(s) PROVE RoomLeft'
  <2>1. /\ hpc' = [hpc EXCEPT ![s] = "subscribe"]
        /\ \E b \in BOOLEAN : slot' = [slot EXCEPT ![s] = IF b THEN 1 ELSE BufferSize + 1]
        /\ ch' = ch
    BY <1>6 DEF Subscribe, Register
  <2>2. slot'[s] >= 1 /\ \A r \in Subs \ {s} : slot'[r] = slot[r]
    BY <1>2, <2>1
  <2>3. ch[s] = << >>
    <3>1. s >= nextID BY <1>6 DEF Subscribe, Register, Inv, Typed, TypeOK
    <3> QED BY <1>1, <3>1 DEF Inv, MembersKnown
  <2>4. Len(ch[s]) < slot'[s] BY <1>2, <2>1, <2>2, <2>3
  <2> QED BY <1>1, <1>2, <2>1, <2>2, <2>4 DEF RoomLeft
<1>7. ASSUME NEW s \in Subs, Prefill(s) PROVE RoomLeft'
  <2>1. hpc[s] = "subscribe" /\ slot' = [slot EXCEPT ![s] = @ + 1] /\ hpc' = hpc
    BY <1>7 DEF Prefill
  <2>2. \/ ch' = ch
        \/ \E d \in Events : ch' = [ch EXCEPT ![s] = Append(@, d)]
    <3>1. ReplaySlot(slot[s]).data \in Events \cup {NoData}
      BY <1>2, ReplaySlotType DEF Inv, Typed, TypeOK
    <3> QED BY <1>7, <3>1 DEF Prefill
  <2>3. Len(ch'[s]) <= Len(ch[s]) + 1 /\ Len(ch'[s]) \in Nat /\ Len(ch[s]) \in Nat
    BY <1>2, <2>2
  <2>4. \A r \in Subs \ {s} : ch'[r] = ch[r] /\ slot'[r] = slot[r]
    BY <1>2, <2>1, <2>2
  <2>5. slot'[s] = slot[s] + 1 /\ slot[s] \in Nat /\ Len(ch[s]) < slot[s] /\ slot[s] >= 1
    BY <1>1, <1>2, <2>1
  <2>6. slot'[s] >= 1 /\ Len(ch'[s]) < slot'[s] BY <2>3, <2>5
  <2> QED BY <1>1, <2>1, <2>4, <2>6 DEF RoomLeft
<1>8. ASSUME NEW s \in Subs,
             Subscribed(s) \/ Receive(s) \/ Written(s) \/ WriteFails(s)
               \/ Leave(s) \/ Unsubscribe(s)
      PROVE  RoomLeft'
  <2>1. /\ hpc'[s] \notin {"absent", "subscribe"}
        /\ \A r \in Subs \ {s} : hpc'[r] = hpc[r] /\ ch'[r] = ch[r] /\ slot'[r] = slot[r]
    BY <1>2, <1>8 DEF Subscribed, Receive, Written, WriteFails, Leave, Unsubscribe
  <2> QED BY <1>1, <2>1 DEF RoomLeft
<1> QED
  BY <1>4, <1>5, <1>6, <1>7, <1>8
  DEF Next, vars, Store, Emit, CloseEvents, Stop, Run, TakeEvent, RenderFails,
      EventsClosed, SeeStop, Broadcast, RetryTimeout, BroadcastDone, Handler,
      Disconnected, HandlerStops, Terminated

------------------------------------------------------------------------------
(* The theorems. *)

\* The inductive invariant holds: whoever sends or subscribes holds clientsMu,
\* the members are the connections that have subscribed and not left, and a
\* replay has filled at most one place per slot.
THEOREM Invariant == Spec => []Inv
<1>1. Inv /\ [Next]_vars => Inv'
  <2> SUFFICES ASSUME Inv, [Next]_vars PROVE Inv'
    OBVIOUS
  <2>1. BufferInv' BY RingStep
  <2>2. BufferTypeOK' BY <2>1 DEF BufferInv
  <2>3. Typed'
    <3>1. CASE UNCHANGED vars
      BY <2>2, <3>1
      DEF Inv, Typed, TypeOK, vars, storeVars, memberVars, serverVars,
          handlerVars, history
    <3>2. CASE Next
      BY <2>2, <3>1, <3>2, StoreTyped, RunTyped, HandlerTyped DEF Next, Terminated
    <3> QED BY <3>1, <3>2
  <2>4. LockHeld' BY LockStep
  <2>5. MembersKnown' BY MembersStep
  <2>6. RoomLeft' BY RoomStep
  <2> QED BY <2>1, <2>3, <2>4, <2>5, <2>6 DEF Inv
<1> QED BY InitImpliesInv, <1>1, PTL DEF Spec

\* The broadcaster, its channels and its connections keep their types.
THEOREM TypeCorrect == Spec => []TypeOK
<1>1. Inv => TypeOK BY DEF Inv, Typed
<1> QED BY Invariant, <1>1, PTL

\* broadcast never sends on a closed channel and never looks up a client that
\* has unsubscribed, although its loops and unsubscribe run in different
\* goroutines.
THEOREM NeverSendsAfterClose == Spec => []NoSendAfterClose
<1>1. Inv => NoSendAfterClose
  <2> SUFFICES ASSUME Inv PROVE NoSendAfterClose
    OBVIOUS
  <2>1. todo \cup Range(blocked) \subseteq clients
    BY DEF Inv, MembersKnown, Range
  <2>2. clients \subseteq Subs BY DEF Inv, Typed, TypeOK
  <2>3. clients \cap closed = {} BY <2>2 DEF Inv, MembersKnown
  <2> QED BY <2>1, <2>3 DEF NoSendAfterClose
<1> QED BY Invariant, <1>1, PTL

\* Subscribe, which replays the ring into a channel that nobody receives from
\* yet while it holds clientsMu, always finds room: it cannot stop the
\* broadcaster for good.
THEOREM ReplayAlwaysHasRoom == Spec => []ReplayNeverBlocks
<1>1. Inv => ReplayNeverBlocks
  <2> SUFFICES ASSUME Inv, NEW s \in Subs, hpc[s] = "subscribe", slot[s] <= BufferSize
               PROVE  Len(ch[s]) < ChanSize
    BY DEF ReplayNeverBlocks
  <2>1. Len(ch[s]) < slot[s] BY DEF Inv, RoomLeft
  <2>2. slot[s] \in Int /\ Len(ch[s]) \in Nat BY DEF Inv, Typed, TypeOK
  <2>3. BufferSize \in Nat /\ Slack \in Nat
    BY BufferAssumption, BroadcasterAssumption
  <2> QED BY <2>1, <2>2, <2>3 DEF ChanSize
<1> QED BY Invariant, <1>1, PTL

------------------------------------------------------------------------------
(* What reaches the connections. *)

\* The elements of a sequence from the k-th on, and that they are in the order
\* of the store.
From(q, k)   == {q[i] : i \in k .. Len(q)}
Rises(q, k)  == \A i, j \in k .. Len(q) : i < j => q[i].ts < q[j].ts

\* A connection that was sent d, of which r was the replay, that missed x and
\* is still to be sent fly, has been given what it wanted.
Served(d, r, x, fly, wanted) ==
  /\ Len(r) <= Len(d) /\ \A i \in 1 .. Len(r) : d[i] = r[i]
  /\ Rises(d, Len(r) + 1) /\ Rises(x, 1)
  /\ From(d, Len(r) + 1) \cup From(x, 1) \cup fly = wanted
  /\ From(d, Len(r) + 1) \cap From(x, 1) = {}
  /\ fly \cap (From(d, Len(r) + 1) \cup From(x, 1)) = {}

------------------------------------------------------------------------------
(* One connection. *)

\* One more element is one more element, and in order if it is the latest.
LEMMA FromAppend ==
  ASSUME NEW q \in Seq(Events), NEW c \in Events, NEW k \in 1 .. Len(q) + 1
  PROVE  /\ From(Append(q, c), k) = From(q, k) \cup {c}
         /\ Rises(q, k) /\ (\A e \in From(q, k) : e.ts < c.ts) => Rises(Append(q, c), k)
<1>1. /\ Len(Append(q, c)) = Len(q) + 1 /\ Len(q) \in Nat
      /\ \A i \in 1 .. Len(q) : Append(q, c)[i] = q[i]
      /\ Append(q, c)[Len(q) + 1] = c
  OBVIOUS
<1> DEFINE qc == Append(q, c)
<1> HIDE DEF qc
<1>2. \A i \in k .. Len(q) + 1 : i \in k .. Len(q) \/ i = Len(q) + 1 BY <1>1
<1>3. \A i \in k .. Len(q) : i \in 1 .. Len(q) /\ i \in k .. Len(q) + 1 BY <1>1
<1>4. Len(q) + 1 \in k .. Len(q) + 1 BY <1>1
<1>5. From(qc, k) = From(q, k) \cup {c}
  <2>1. From(qc, k) \subseteq From(q, k) \cup {c} BY <1>1, <1>2, <1>3 DEF From, qc
  <2>2. From(q, k) \cup {c} \subseteq From(qc, k) BY <1>1, <1>3, <1>4 DEF From, qc
  <2> QED BY <2>1, <2>2
<1>6. ASSUME Rises(q, k), \A e \in From(q, k) : e.ts < c.ts,
             NEW i \in k .. Len(qc), NEW j \in k .. Len(qc), i < j
      PROVE  qc[i].ts < qc[j].ts
  <2>1. i \in k .. Len(q) BY <1>1, <1>6 DEF qc
  <2>2. qc[i] = q[i] /\ q[i] \in From(q, k) BY <1>1, <1>3, <2>1 DEF qc, From
  <2>3. CASE j \in k .. Len(q) BY <1>1, <1>3, <1>6, <2>1, <2>2, <2>3 DEF qc, Rises
  <2>4. CASE j = Len(q) + 1 BY <1>1, <1>6, <2>2, <2>4 DEF qc
  <2> QED BY <1>1, <1>2, <2>3, <2>4 DEF qc
<1> QED BY <1>5, <1>6 DEF qc, Rises

\* An event is sent.
LEMMA ServedSend ==
  ASSUME NEW d \in Seq(Events), NEW r \in Seq(Events), NEW x \in Seq(Events),
         NEW c \in Events, NEW w, Served(d, r, x, {c}, w), \A e \in w \ {c} : e.ts < c.ts
  PROVE  Served(Append(d, c), r, x, {}, w)
<1>1. Len(d) \in Nat /\ Len(r) \in Nat /\ Len(r) <= Len(d) BY DEF Served
<1>2. Len(r) + 1 \in 1 .. Len(d) + 1 BY <1>1
<1>3. /\ From(d, Len(r) + 1) \subseteq w \ {c} /\ c \notin From(x, 1)
      /\ From(d, Len(r) + 1) \cup From(x, 1) \cup {c} = w
      /\ From(d, Len(r) + 1) \cap From(x, 1) = {}
  BY DEF Served
<1>4. /\ From(Append(d, c), Len(r) + 1) = From(d, Len(r) + 1) \cup {c}
      /\ Rises(Append(d, c), Len(r) + 1)
  BY <1>2, <1>3, FromAppend DEF Served
<1>5. /\ Len(r) <= Len(Append(d, c))
      /\ \A i \in 1 .. Len(r) : Append(d, c)[i] = r[i]
  <2>1. Len(Append(d, c)) = Len(d) + 1 /\ \A i \in 1 .. Len(d) : Append(d, c)[i] = d[i] OBVIOUS
  <2>2. \A i \in 1 .. Len(r) : i \in 1 .. Len(d) /\ d[i] = r[i] BY <1>1 DEF Served
  <2> QED BY <1>1, <2>1, <2>2
<1>6. Rises(x, 1) BY DEF Served
<1> DEFINE dc == Append(d, c)
           live == From(dc, Len(r) + 1)
           lost == From(x, 1)
<1>7. live \cup lost \cup {} = w /\ live \cap lost = {} BY <1>3, <1>4
<1> HIDE DEF dc
<1> QED BY <1>4, <1>5, <1>6, <1>7 DEF Served, dc

\* An event is skipped.
LEMMA ServedDrop ==
  ASSUME NEW d \in Seq(Events), NEW r \in Seq(Events), NEW x \in Seq(Events),
         NEW c \in Events, NEW w, Served(d, r, x, {c}, w), \A e \in w \ {c} : e.ts < c.ts
  PROVE  Served(d, r, Append(x, c), {}, w)
<1>1. 1 \in 1 .. Len(x) + 1 OBVIOUS
<1>2. /\ From(x, 1) \subseteq w \ {c} /\ c \notin From(d, Len(r) + 1)
      /\ From(d, Len(r) + 1) \cup From(x, 1) \cup {c} = w
      /\ From(d, Len(r) + 1) \cap From(x, 1) = {}
  BY DEF Served
<1>3. From(Append(x, c), 1) = From(x, 1) \cup {c} /\ Rises(Append(x, c), 1)
  BY <1>1, <1>2, FromAppend DEF Served
<1> QED BY <1>2, <1>3 DEF Served

\* A row is replayed before anything else was sent.
LEMMA ServedReplay ==
  ASSUME NEW r \in Seq(Events), NEW r2 \in Seq(Events), NEW x, NEW fly, NEW w,
         Served(r, r, x, fly, w)
  PROVE  Served(r2, r2, x, fly, w)
<1>1. \A q \in Seq(Events) : From(q, Len(q) + 1) = {} /\ Rises(q, Len(q) + 1)
  <2> TAKE q \in Seq(Events)
  <2>1. Len(q) + 1 .. Len(q) = {} OBVIOUS
  <2> QED BY <2>1 DEF From, Rises
<1> QED BY <1>1 DEF Served

------------------------------------------------------------------------------
(* The invariant. *)

\* What has been broadcast, what is about to be and what waits in the queue
\* are in the order in which the store sent them.
InStoreOrder ==
  /\ Rises(log, 1) /\ Rises(events, 1)
  /\ \A i \in 1 .. Len(events) : events[i].ts <= emitted
  /\ \A i \in 1 .. Len(log), j \in 1 .. Len(events) : log[i].ts < events[j].ts
  /\ \A i \in 1 .. Len(log) : log[i].ts <= emitted
  /\ bpc \in {"lock", "send"} =>
       current.ts <= emitted /\ \A j \in 1 .. Len(events) : current.ts < events[j].ts
  /\ bpc = "lock" => \A i \in 1 .. Len(log) : log[i].ts < current.ts
  /\ bpc = "send" => log # << >> /\ current = log[Len(log)]

\* What a handler holds at each place, and that only its own replay has used
\* its channel while it subscribes.
HandlersKnown ==
  \A s \in Subs :
    /\ hpc[s] # "write" => writing[s] = NoData
    /\ hpc[s] = "absent" => got[s] = << >> /\ replayed[s] = << >> /\ dropped[s] = << >>
    /\ hpc[s] = "subscribe" => got[s] = << >> /\ ch[s] = replayed[s]
    /\ start[s] <= Len(log)

\* A client waits for the event in one of the loops, and once.
VisitsOnce ==
  /\ \A i \in DOMAIN blocked : blocked[i] \notin todo
  /\ \A i, j \in DOMAIN blocked : blocked[i] = blocked[j] => i = j

\* The events broadcast since s subscribed that its filter accepts.
Wanted(s) == {e \in {log[i] : i \in start[s] + 1 .. Len(log)} : Accepts(filter[s], e)}

ServedNow(s) == Served(Delivered(s), replayed[s], dropped[s], InFlight(s), Wanted(s))

AllServed == \A s \in Attached : ServedNow(s)

DeliveryInv == InStoreOrder /\ HandlersKnown /\ VisitsOnce /\ AllServed

\* At first nothing is connected and nothing has been sent.
LEMMA InitImpliesDelivery == Init => DeliveryInv
<1> SUFFICES ASSUME Init PROVE DeliveryInv OBVIOUS
<1>1. /\ log = << >> /\ events = << >> /\ blocked = << >> /\ bpc = "select" /\ clients = {}
      /\ \A s \in Subs : /\ writing[s] = NoData /\ got[s] = << >> /\ replayed[s] = << >>
                         /\ dropped[s] = << >> /\ start[s] = 0 /\ hpc[s] = "absent"
  BY DEF Init
<1>2. InStoreOrder BY <1>1 DEF InStoreOrder, Rises
<1>3. HandlersKnown BY <1>1 DEF HandlersKnown
<1>4. VisitsOnce BY <1>1 DEF VisitsOnce
<1>5. AllServed BY <1>1 DEF AllServed, Attached
<1> QED BY <1>2, <1>3, <1>4, <1>5 DEF DeliveryInv

------------------------------------------------------------------------------
(* The store's order. *)

\* The queue, the event that is broadcast and the log pass events on in the
\* order in which the store emits them; a rendering that fails leaves one out.
LEMMA OrderStep ==
  ASSUME Inv, Inv', InStoreOrder, [Next]_vars
  PROVE  InStoreOrder'
<1> USE DEF storeVars, memberVars, serverVars, handlerVars, history
<1>1. /\ events \in Seq(Events) /\ log \in Seq(Events) /\ emitted \in Nat
      /\ bpc \in {"lock", "send"} => current \in Events
      /\ \A e \in Events : e.ts \in Nat
  <2>1. \A e \in Events : e.ts \in Nat BY BroadcasterAssumption DEF Events
  <2> QED BY <2>1 DEF Inv, Typed, TypeOK
<1>2. CASE UNCHANGED <<events, emitted, bpc, current, log>>
  BY <1>2 DEF InStoreOrder, Rises
<1>3. CASE Emit
  <2>1. PICK e \in Events : events' = Append(events, e) /\ e.ts = emitted + 1
    <3>1. PICK t \in TxIDs, st \in States :
            events' = Append(events, [txID |-> t, state |-> st, ts |-> emitted + 1])
      BY <1>3 DEF Emit
    <3>2. emitted + 1 \in Timestamps BY <1>1, <1>3, BroadcasterAssumption DEF Emit
    <3> QED BY <3>1, <3>2 DEF Events
  <2>2. emitted' = emitted + 1 /\ UNCHANGED <<bpc, current, log>> BY <1>3 DEF Emit
  <2>3. /\ Len(events') = Len(events) + 1 /\ Len(events) \in Nat /\ Len(log) \in Nat
        /\ \A i \in 1 .. Len(events) : events'[i] = events[i] /\ events[i].ts \in Nat
        /\ events'[Len(events) + 1] = e
        /\ \A i \in 1 .. Len(log) : log[i].ts \in Nat
    <3> HIDE BroadcasterAssumption
    <3> QED BY <1>1, <2>1
  <2>4. Rises(events', 1)
    <3>1. \A f \in From(events, 1) : f.ts < e.ts
      BY <1>1, <2>1, <2>3 DEF InStoreOrder, From
    <3>2. 1 \in 1 .. Len(events) + 1 /\ e \in Events
      BY <2>1, <2>3
    <3> QED BY <1>1, <2>1, <3>1, <3>2, FromAppend DEF InStoreOrder
  <2>5. \A i \in 1 .. Len(events') : i \in 1 .. Len(events) \/ i = Len(events) + 1 BY <2>3
  <2>6. \A i \in 1 .. Len(events') : events'[i].ts <= emitted'
    BY <1>1, <2>1, <2>2, <2>3, <2>5 DEF InStoreOrder
  <2>7. \A i \in 1 .. Len(log), j \in 1 .. Len(events') : log[i].ts < events'[j].ts
    BY <1>1, <2>1, <2>3, <2>5 DEF InStoreOrder
  <2>8. \A i \in 1 .. Len(log) : log[i].ts <= emitted' BY <1>1, <2>2, <2>3 DEF InStoreOrder
  <2>9. bpc \in {"lock", "send"} =>
          current.ts <= emitted' /\ \A j \in 1 .. Len(events') : current.ts < events'[j].ts
    BY <1>1, <2>1, <2>2, <2>3, <2>5 DEF InStoreOrder
  <2> QED BY <2>2, <2>4, <2>6, <2>7, <2>8, <2>9 DEF InStoreOrder
<1>4. CASE TakeEvent
  <2>1. /\ events # << >> /\ current' = Head(events) /\ events' = Tail(events)
        /\ bpc' = "lock" /\ UNCHANGED <<emitted, log>>
    BY <1>4 DEF TakeEvent
  <2>2. /\ Len(events') = Len(events) - 1 /\ Len(events) \in Nat \ {0}
        /\ \A i \in 1 .. Len(events') : events'[i] = events[i + 1]
        /\ current' = events[1]
    BY <1>1, <2>1
  <2>3. \A i \in 1 .. Len(events') : i + 1 \in 1 .. Len(events) /\ 1 < i + 1 BY <2>2
  <2>4. 1 \in 1 .. Len(events) BY <2>2
  <2>5. ASSUME NEW i \in 1 .. Len(events'), NEW j \in 1 .. Len(events'), i < j
        PROVE  events'[i].ts < events'[j].ts
    <3>1. i + 1 \in 1 .. Len(events) /\ j + 1 \in 1 .. Len(events) /\ i + 1 < j + 1
      BY <2>2, <2>5
    <3>2. events[i + 1].ts < events[j + 1].ts BY <3>1 DEF InStoreOrder, Rises
    <3> QED BY <2>2, <3>2
  <2> QED BY <2>1, <2>2, <2>3, <2>4, <2>5 DEF InStoreOrder, Rises
<1>5. CASE RenderFails \/ EventsClosed \/ SeeStop \/ BroadcastDone
  BY <1>5 DEF RenderFails, EventsClosed, SeeStop, BroadcastDone, InStoreOrder, Rises
<1>6. CASE Broadcast
  <2>1. /\ bpc = "lock" /\ bpc' = "send" /\ log' = Append(log, current)
        /\ UNCHANGED <<events, emitted, current>>
    BY <1>6 DEF Broadcast
  <2>2. current \in Events BY <1>1, <2>1
  <2>3. /\ Len(log') = Len(log) + 1 /\ Len(log) \in Nat
        /\ \A i \in 1 .. Len(log) : log'[i] = log[i]
        /\ log'[Len(log) + 1] = current /\ log' # << >>
    BY <1>1, <2>1, <2>2
  <2>4. \A i \in 1 .. Len(log') : i \in 1 .. Len(log) \/ i = Len(log) + 1 BY <2>3
  <2>5. Rises(log', 1)
    <3>1. \A e \in From(log, 1) : e.ts < current.ts BY <2>1 DEF InStoreOrder, From
    <3>2. 1 \in 1 .. Len(log) + 1 BY <2>3
    <3> QED BY <1>1, <2>1, <2>2, <3>1, <3>2, FromAppend DEF InStoreOrder
  <2>6. \A i \in 1 .. Len(log'), j \in 1 .. Len(events) : log'[i].ts < events[j].ts
    BY <2>1, <2>3, <2>4 DEF InStoreOrder
  <2>7. \A i \in 1 .. Len(log') : log'[i].ts <= emitted BY <2>1, <2>3, <2>4 DEF InStoreOrder
  <2> QED BY <2>1, <2>3, <2>5, <2>6, <2>7 DEF InStoreOrder, Rises
<1> QED
  BY <1>2, <1>3, <1>4, <1>5, <1>6
  DEF Next, vars, Store, CloseEvents, Stop, Run, Send, RetrySend, RetryTimeout,
      Handler, Subscribe, Register, Prefill, Subscribed, Receive, Written,
      WriteFails, Disconnected, HandlerStops, Leave, Unsubscribe, Terminated

------------------------------------------------------------------------------
(* The handlers and the loops. *)

\* Only a broadcast and the handler itself change what a handler holds, and no
\* broadcast is under way while it subscribes.
LEMMA HandlersStep ==
  ASSUME Inv, Inv', HandlersKnown, [Next]_vars
  PROVE  HandlersKnown'
<1> USE DEF storeVars, memberVars, serverVars, handlerVars, history
<1> DEFINE Known(s) ==
             /\ hpc[s] # "write" => writing[s] = NoData
             /\ hpc[s] = "absent" => got[s] = << >> /\ replayed[s] = << >> /\ dropped[s] = << >>
             /\ hpc[s] = "subscribe" => got[s] = << >> /\ ch[s] = replayed[s]
             /\ start[s] <= Len(log)
<1>1. /\ \A s \in Subs : Known(s)
      /\ \A s \in Subs : hpc[s] = "absent" => ch[s] = << >>
  BY DEF HandlersKnown, Inv, RoomLeft
<1>2. /\ hpc \in [Subs -> {"absent", "subscribe", "select", "write", "leave", "gone"}]
      /\ ch \in [Subs -> Seq(Events)] /\ got \in [Subs -> Seq(Events)]
      /\ replayed \in [Subs -> Seq(Events)] /\ dropped \in [Subs -> Seq(Events)]
      /\ writing \in [Subs -> Events \cup {NoData}] /\ log \in Seq(Events)
      /\ start \in [Subs -> Nat] /\ nextID \in 0 .. MaxSubs
  BY DEF Inv, Typed, TypeOK
<1>3. /\ \A s \in Subs : s \in clients => hpc[s] # "absent"
      /\ todo \subseteq clients
      /\ blocked # << >> => Head(blocked) \in clients /\ Head(blocked) \in Subs
      /\ bpc = "send" => \A s \in Subs : hpc[s] # "subscribe"
  <2>1. blocked # << >> => 1 \in DOMAIN blocked /\ Head(blocked) = blocked[1] /\ blocked[1] \in Subs
    BY DEF Inv, Typed, TypeOK
  <2>2. bpc = "send" => \A s \in Subs : hpc[s] # "subscribe"
    BY BroadcasterAssumption DEF Inv, LockHeld
  <2> QED BY <2>1, <2>2 DEF Inv, MembersKnown
<1>4. CASE UNCHANGED <<hpc, writing, got, replayed, dropped, ch, start, log>>
  BY <1>1, <1>4 DEF HandlersKnown
<1>5. CASE Broadcast
  <2>1. log' = Append(log, current) /\ current \in Events
    BY <1>5 DEF Broadcast, Inv, Typed
  <2>2. Len(log') = Len(log) + 1 /\ Len(log) \in Nat /\ \A s \in Subs : start[s] \in Nat
    BY <1>2, <2>1
  <2>3. UNCHANGED <<hpc, writing, got, replayed, dropped, ch, start>> BY <1>5 DEF Broadcast
  <2>4. \A s \in Subs : start[s] <= Len(log') BY <1>1, <2>2
  <2> QED BY <1>1, <2>3, <2>4 DEF HandlersKnown
<1>6. CASE (\E s \in Subs : Send(s)) \/ RetrySend
  <2>1. PICK s \in clients : \A r \in Subs \ {s} : ch'[r] = ch[r]
    BY <1>2, <1>3, <1>6 DEF Send, RetrySend
  <2>2. UNCHANGED <<hpc, writing, got, replayed, dropped, start, log>> /\ bpc = "send"
    BY <1>6 DEF Send, RetrySend
  <2> QED BY <1>1, <1>3, <2>1, <2>2 DEF HandlersKnown
<1>7. CASE RetryTimeout
  <2>1. PICK s \in clients : \A r \in Subs \ {s} : dropped'[r] = dropped[r]
    BY <1>2, <1>3, <1>7 DEF RetryTimeout
  <2>2. UNCHANGED <<hpc, writing, got, replayed, ch, start, log>>
    BY <1>7 DEF RetryTimeout
  <2> QED BY <1>1, <1>3, <2>1, <2>2 DEF HandlersKnown
<1>8. ASSUME NEW s \in Subs, Subscribe(s) PROVE HandlersKnown'
  <2>1. /\ s = nextID /\ hpc' = [hpc EXCEPT ![s] = "subscribe"]
        /\ start' = [start EXCEPT ![s] = Len(log)]
        /\ UNCHANGED <<writing, got, replayed, dropped, ch, log>>
    BY <1>8 DEF Subscribe, Register
  <2>2. hpc[s] = "absent" BY <1>2, <2>1 DEF Inv, MembersKnown
  <2>3. start'[s] = Len(log) /\ \A r \in Subs \ {s} : start'[r] = start[r] BY <1>2, <2>1
  <2>4. \A r \in Subs : start'[r] <= Len(log)
    <3>1. Len(log) \in Nat BY <1>2
    <3> QED BY <1>1, <2>3, <3>1
  <2> QED BY <1>1, <1>2, <2>1, <2>2, <2>4 DEF HandlersKnown
<1>9. ASSUME NEW s \in Subs, Prefill(s) PROVE HandlersKnown'
  <2>1. hpc[s] = "subscribe" /\ UNCHANGED <<hpc, writing, got, dropped, start, log>>
    BY <1>9 DEF Prefill
  <2>2. ch[s] = replayed[s] BY <1>1, <2>1
  <2> DEFINE d == ReplaySlot(slot[s]).data
  <2>3. \/ ch' = ch /\ replayed' = replayed
        \/ /\ ch' = [ch EXCEPT ![s] = Append(@, d)]
           /\ replayed' = [replayed EXCEPT ![s] = Append(@, d)]
    BY <1>9, Zenon DEF Prefill
  <2> HIDE DEF d
  <2>4. /\ ch'[s] = replayed'[s]
        /\ \A r \in Subs \ {s} : ch'[r] = ch[r] /\ replayed'[r] = replayed[r]
    <3>1. CASE ch' = ch /\ replayed' = replayed BY <2>2, <3>1
    <3>2. CASE /\ ch' = [ch EXCEPT ![s] = Append(@, d)]
               /\ replayed' = [replayed EXCEPT ![s] = Append(@, d)]
      <4>1. s \in DOMAIN ch /\ s \in DOMAIN replayed BY <1>2
      <4>2. ch'[s] = Append(ch[s], d) /\ replayed'[s] = Append(replayed[s], d)
        BY <3>2, <4>1, Zenon
      <4>3. \A r \in Subs \ {s} : ch'[r] = ch[r] /\ replayed'[r] = replayed[r]
        BY <1>2, <3>2
      <4> QED BY <2>2, <4>2, <4>3
    <3> QED BY <2>3, <3>1, <3>2
  <2> QED BY <1>1, <2>1, <2>4 DEF HandlersKnown
<1>10. ASSUME NEW s \in Subs,
              Subscribed(s) \/ Receive(s) \/ Written(s) \/ WriteFails(s)
                \/ Leave(s) \/ Unsubscribe(s)
       PROVE  HandlersKnown'
  <2>1. /\ hpc'[s] \notin {"absent", "subscribe"}
        /\ hpc'[s] # "write" => writing'[s] = NoData
    BY <1>1, <1>2, <1>10
    DEF Subscribed, Receive, Written, WriteFails, Leave, Unsubscribe
  <2>2. \A r \in Subs \ {s} : hpc'[r] = hpc[r] /\ ch'[r] = ch[r] /\ got'[r] = got[r]
                              /\ writing'[r] = writing[r]
    BY <1>2, <1>10 DEF Subscribed, Receive, Written, WriteFails, Leave, Unsubscribe
  <2>3. UNCHANGED <<replayed, dropped, start, log>>
    BY <1>10 DEF Subscribed, Receive, Written, WriteFails, Leave, Unsubscribe
  <2> QED BY <1>1, <2>1, <2>2, <2>3 DEF HandlersKnown
<1> QED
  BY <1>4, <1>5, <1>6, <1>7, <1>8, <1>9, <1>10
  DEF Next, vars, Store, Emit, CloseEvents, Stop, Run, TakeEvent, RenderFails,
      EventsClosed, SeeStop, BroadcastDone, Handler, Disconnected, HandlerStops, Terminated

\* The first loop visits each client once, and so does the second, although
\* the source appends to the slice that it ranges over.
LEMMA VisitsStep ==
  ASSUME Inv, VisitsOnce, [Next]_vars
  PROVE  VisitsOnce'
<1> USE DEF storeVars, memberVars, serverVars, handlerVars, history
<1>1. blocked \in Seq(Subs) /\ (bpc # "send" => todo = {} /\ blocked = << >>)
  BY DEF Inv, Typed, TypeOK, MembersKnown
<1>2. CASE UNCHANGED <<todo, blocked>> BY <1>2 DEF VisitsOnce
<1>3. CASE Broadcast BY <1>1, <1>3 DEF Broadcast, VisitsOnce
<1>4. ASSUME NEW s \in Subs, Send(s) PROVE VisitsOnce'
  <2>1. s \in todo /\ todo' = todo \ {s} BY <1>4 DEF Send
  <2>2. CASE blocked' = blocked BY <2>1, <2>2 DEF VisitsOnce
  <2>3. CASE blocked' = Append(blocked, s)
    <3>1. /\ DOMAIN blocked' = 1 .. Len(blocked) + 1 /\ DOMAIN blocked = 1 .. Len(blocked)
          /\ \A i \in 1 .. Len(blocked) : blocked'[i] = blocked[i]
          /\ blocked'[Len(blocked) + 1] = s /\ Len(blocked) \in Nat
      BY <1>1, <2>3
    <3>2. \A i \in DOMAIN blocked' : i \in DOMAIN blocked \/ i = Len(blocked) + 1 BY <3>1
    <3>3. \A i \in DOMAIN blocked : blocked[i] # s BY <2>1 DEF VisitsOnce
    <3>4. \A i \in DOMAIN blocked' : blocked'[i] \notin todo'
      BY <2>1, <3>1, <3>2 DEF VisitsOnce
    <3>5. \A i, j \in DOMAIN blocked' : blocked'[i] = blocked'[j] => i = j
      BY <3>1, <3>2, <3>3 DEF VisitsOnce
    <3> QED BY <3>4, <3>5 DEF VisitsOnce
  <2> QED BY <1>4, <2>2, <2>3 DEF Send, Postponed
<1>5. CASE RetrySend \/ RetryTimeout
  <2>1. blocked # << >> /\ blocked' = Tail(blocked) /\ UNCHANGED todo
    BY <1>5 DEF RetrySend, RetryTimeout
  <2>2. \A i \in DOMAIN blocked' :
          i \in Nat /\ i + 1 \in DOMAIN blocked /\ blocked'[i] = blocked[i + 1]
    BY <1>1, <2>1
  <2>3. \A i \in DOMAIN blocked' : blocked'[i] \notin todo' BY <2>1, <2>2 DEF VisitsOnce
  <2>4. ASSUME NEW i \in DOMAIN blocked', NEW j \in DOMAIN blocked', blocked'[i] = blocked'[j]
        PROVE  i = j
    <3>1. i + 1 = j + 1 BY <2>2, <2>4 DEF VisitsOnce
    <3> QED BY <2>2, <3>1
  <2> QED BY <2>3, <2>4 DEF VisitsOnce
<1> QED
  BY <1>2, <1>3, <1>4, <1>5
  DEF Next, vars, Store, Emit, CloseEvents, Stop, Run, TakeEvent, RenderFails,
      EventsClosed, SeeStop, BroadcastDone, Handler, Subscribe, Register, Prefill,
      Subscribed, Receive, Written, WriteFails, Disconnected, HandlerStops, Leave,
      Unsubscribe, Terminated

------------------------------------------------------------------------------
(* What was delivered. *)

\* What a send adds to the channel comes last.
LEMMA SentIsLast ==
  ASSUME NEW g \in Seq(Events), NEW p \in Seq(Events), NEW c \in Seq(Events), NEW e \in Events
  PROVE  g \o p \o Append(c, e) = Append(g \o p \o c, e)
<1>1. g \o p \in Seq(Events) /\ <<e>> \in Seq(Events) OBVIOUS
<1>2. (g \o p) \o c \in Seq(Events) BY <1>1, ConcatProperties
<1>3. Append(c, e) = c \o <<e>> BY AppendIsConcat
<1>4. Append(g \o p \o c, e) = ((g \o p) \o c) \o <<e>> BY <1>2, AppendIsConcat
<1>5. ((g \o p) \o c) \o <<e>> = (g \o p) \o (c \o <<e>>) BY <1>1, ConcatAssociative
<1> QED BY <1>3, <1>4, <1>5

\* What moves from the channel to the handler keeps its place.
LEMMA ReceivedInPlace ==
  ASSUME NEW g \in Seq(Events), NEW c \in Seq(Events), c # << >>
  PROVE  g \o << >> \o c = g \o <<Head(c)>> \o Tail(c)
<1>1. Head(c) \in Events /\ Tail(c) \in Seq(Events) OBVIOUS
<1>2. <<Head(c)>> \in Seq(Events) BY <1>1
<1>3. g \o << >> = g BY ConcatEmptySeq
<1>4. c = <<Head(c)>> \o Tail(c)
  <2>1. <<Head(c)>> \o Tail(c) \in Seq(Events) /\ Len(<<Head(c)>> \o Tail(c)) = 1 + Len(Tail(c))
        /\ \A i \in 1 .. 1 + Len(Tail(c)) :
             (<<Head(c)>> \o Tail(c))[i] = IF i <= 1 THEN Head(c) ELSE Tail(c)[i - 1]
    BY <1>1, <1>2, ConcatProperties
  <2>2. Len(c) = 1 + Len(Tail(c)) /\ Len(c) \in Nat \ {0} /\ c[1] = Head(c)
        /\ \A i \in 1 .. Len(Tail(c)) : Tail(c)[i] = c[i + 1]
    OBVIOUS
  <2> DEFINE h == Head(c)
             t == Tail(c)
             q == <<h>> \o t
  <2> HIDE DEF h, t, q
  <2>3. \A i \in 1 .. Len(c) : c[i] = q[i]
    <3> TAKE i \in 1 .. Len(c)
    <3>1. CASE i = 1 BY <2>1, <2>2, <3>1 DEF h, t, q
    <3>2. CASE i # 1
      <4>1. i - 1 \in 1 .. Len(t) /\ (i - 1) + 1 = i /\ i \in 1 .. 1 + Len(t) /\ ~(i <= 1)
        BY <2>2, <3>2 DEF t
      <4>2. q[i] = t[i - 1] BY <2>1, <4>1 DEF h, t, q
      <4>3. t[i - 1] = c[(i - 1) + 1] BY <2>2, <4>1 DEF t
      <4> QED BY <4>1, <4>2, <4>3
    <3> QED BY <3>1, <3>2
  <2>4. Len(c) = Len(q) /\ q \in Seq(Events) BY <2>1, <2>2 DEF h, t, q
  <2> QED BY <2>3, <2>4, SeqEqual DEF h, t, q
<1>5. (g \o <<Head(c)>>) \o Tail(c) = g \o (<<Head(c)>> \o Tail(c))
  BY <1>1, <1>2, ConcatAssociative
<1> QED BY <1>3, <1>4, <1>5

\* What moves from the handler to the client keeps its place.
LEMMA WrittenInPlace ==
  ASSUME NEW g \in Seq(Events), NEW c \in Seq(Events), NEW w \in Events
  PROVE  g \o <<w>> \o c = Append(g, w) \o << >> \o c
<1>1. Append(g, w) \in Seq(Events) OBVIOUS
<1>2. Append(g, w) \o << >> = Append(g, w) BY <1>1, ConcatEmptySeq
<1>3. Append(g, w) = g \o <<w>> BY AppendIsConcat
<1> QED BY <1>2, <1>3

------------------------------------------------------------------------------
(* The steps. *)

\* The clients that the broadcast under way has yet to serve.
Left == todo \cup Range(blocked)

\* A loop is done with the client it visits, or puts it off.
LEMMA SendLeaves ==
  ASSUME Inv, VisitsOnce, NEW s \in Subs, Send(s)
  PROVE  /\ s \in Left
         /\ \/ ch' = [ch EXCEPT ![s] = Append(@, current)] /\ Left' = Left \ {s}
            \/ ch' = ch /\ Left' = Left
<1>1. s \in todo /\ todo' = todo \ {s} /\ blocked \in Seq(Subs)
  BY DEF Send, Inv, Typed, TypeOK
<1>2. CASE ch' = [ch EXCEPT ![s] = Append(@, current)] /\ blocked' = blocked
  <2>1. s \notin Range(blocked) BY <1>1 DEF VisitsOnce, Range
  <2> QED BY <1>1, <1>2, <2>1 DEF Left
<1>3. CASE ch' = ch /\ blocked' = Append(blocked, s)
  <2>1. /\ DOMAIN blocked' = 1 .. Len(blocked) + 1 /\ DOMAIN blocked = 1 .. Len(blocked)
        /\ \A i \in 1 .. Len(blocked) : blocked'[i] = blocked[i]
        /\ blocked'[Len(blocked) + 1] = s /\ Len(blocked) \in Nat
    BY <1>1, <1>3
  <2>2. DOMAIN blocked' = DOMAIN blocked \cup {Len(blocked) + 1} BY <2>1
  <2>3. Range(blocked)' = Range(blocked) \cup {s} BY <2>1, <2>2 DEF Range
  <2> QED BY <1>1, <1>3, <2>3 DEF Left
<1> QED BY <1>1, <1>2, <1>3 DEF Send, Postponed, Left

\* The second loop is done with the client it visits, served or not.
LEMMA RetryLeaves ==
  ASSUME Inv, VisitsOnce, RetrySend \/ RetryTimeout
  PROVE  Head(blocked) \in Subs /\ Head(blocked) \in Left /\ Left' = Left \ {Head(blocked)}
<1>1. /\ blocked # << >> /\ blocked' = Tail(blocked) /\ blocked \in Seq(Subs)
      /\ todo' = todo /\ todo = {}
  BY DEF RetrySend, RetryTimeout, Inv, Typed, TypeOK
<1>2. /\ DOMAIN blocked = 1 .. Len(blocked) /\ Len(blocked) \in Nat \ {0}
      /\ DOMAIN blocked' = 1 .. Len(blocked) - 1
      /\ \A i \in 1 .. Len(blocked) - 1 : blocked'[i] = blocked[i + 1]
      /\ Head(blocked) = blocked[1] /\ Head(blocked) \in Subs
  BY <1>1
<1>3. 1 \in DOMAIN blocked BY <1>2
<1>4. Range(blocked)' \subseteq Range(blocked) \ {Head(blocked)}
  <2> SUFFICES ASSUME NEW i \in DOMAIN blocked'
               PROVE  blocked'[i] \in Range(blocked) /\ blocked'[i] # Head(blocked)
    BY DEF Range
  <2>1. i + 1 \in DOMAIN blocked /\ i + 1 # 1 /\ blocked'[i] = blocked[i + 1] BY <1>2
  <2>2. blocked[i + 1] # blocked[1] BY <1>3, <2>1 DEF VisitsOnce
  <2> QED BY <1>2, <2>1, <2>2 DEF Range
<1>5. Range(blocked) \ {Head(blocked)} \subseteq Range(blocked)'
  <2> SUFFICES ASSUME NEW i \in DOMAIN blocked, blocked[i] # Head(blocked)
               PROVE  blocked[i] \in Range(blocked)'
    BY DEF Range
  <2>1. i - 1 \in DOMAIN blocked' /\ (i - 1) + 1 = i BY <1>2
  <2>2. blocked'[i - 1] = blocked[i] BY <1>2, <2>1
  <2> QED BY <2>1, <2>2 DEF Range
<1>6. Head(blocked) \in Range(blocked) BY <1>2, <1>3 DEF Range
<1> QED BY <1>1, <1>2, <1>4, <1>5, <1>6 DEF Left

\* What is in flight is the last event broadcast, later than all others.
LEMMA CurrentIsLast ==
  ASSUME Inv, InStoreOrder, bpc = "send", NEW s \in Subs
  PROVE  current \in Events /\ \A e \in Wanted(s) \ {current} : e.ts < current.ts
<1>1. current \in Events /\ log \in Seq(Events) /\ start[s] \in Nat /\ Len(log) \in Nat
  BY DEF Inv, Typed, TypeOK
<1>2. current = log[Len(log)] /\ Rises(log, 1) BY DEF InStoreOrder
<1>3. ASSUME NEW e \in Wanted(s) \ {current} PROVE e.ts < current.ts
  <2>1. PICK i \in start[s] + 1 .. Len(log) : e = log[i] BY <1>3 DEF Wanted
  <2>2. i # Len(log) BY <1>2, <1>3, <2>1
  <2>3. i \in 1 .. Len(log) /\ Len(log) \in 1 .. Len(log) /\ i < Len(log) BY <1>1, <2>1, <2>2
  <2> QED BY <1>2, <2>1, <2>3 DEF Rises
<1> QED BY <1>1, <1>3

\* What was said of a connection that a step leaves alone is still said of it.
Unmoved(s) ==
  /\ s \in Attached
  /\ Delivered(s)' = Delivered(s) /\ replayed'[s] = replayed[s] /\ dropped'[s] = dropped[s]
  /\ InFlight(s)' = InFlight(s) /\ Wanted(s)' = Wanted(s)

\* ... and so it is still served.
LEMMA UnmovedServed ==
  ASSUME AllServed, NEW s \in Subs, Unmoved(s)
  PROVE  ServedNow(s)'
BY DEF AllServed, Unmoved, ServedNow

\* A step that is not of connection s and does not touch what it is sent.
LEMMA NotConcerned ==
  ASSUME NEW s \in Attached,
         /\ got'[s] = got[s] /\ writing'[s] = writing[s] /\ ch'[s] = ch[s]
         /\ replayed'[s] = replayed[s] /\ dropped'[s] = dropped[s]
         /\ start'[s] = start[s] /\ filter'[s] = filter[s] /\ log' = log,
         (s \in Left' <=> s \in Left) /\ (s \in Left => current' = current)
  PROVE  Unmoved(s)
<1>1. Delivered(s)' = Delivered(s) BY DEF Delivered, Pending
<1>2. InFlight(s)' = InFlight(s) BY DEF InFlight, Left
<1>3. Wanted(s)' = Wanted(s) BY DEF Wanted
<1> QED BY <1>1, <1>2, <1>3 DEF Unmoved

\* A broadcast starts: its event is wanted by those whose filter accepts it,
\* and in flight for them.
LEMMA BroadcastServed ==
  ASSUME Inv, InStoreOrder, HandlersKnown, AllServed, Broadcast, NEW s \in Attached
  PROVE  ServedNow(s)'
<1> USE DEF memberVars, handlerVars, history
<1>1. /\ bpc = "lock" /\ log' = Append(log, current) /\ current' = current
      /\ todo' = {r \in clients : Accepts(filter[r], current)} /\ blocked' = blocked
      /\ UNCHANGED <<filter, ch, writing, got, replayed, dropped, start>>
  BY DEF Broadcast
<1>2. /\ s \in clients /\ s \in Subs /\ log \in Seq(Events) /\ current \in Events
      /\ start[s] \in Nat /\ start[s] <= Len(log) /\ todo = {} /\ blocked = << >>
  BY <1>1 DEF Attached, Inv, Typed, TypeOK, HandlersKnown, MembersKnown
<1>3. Range(blocked) = {} BY <1>2 DEF Range
<1> DEFINE fly == IF Accepts(filter[s], current) THEN {current} ELSE {}
<1>4. InFlight(s) = {} /\ InFlight(s)' = fly BY <1>1, <1>2, <1>3 DEF InFlight, Accepts
<1>5. Delivered(s)' = Delivered(s) BY <1>1 DEF Delivered, Pending
<1>6. Wanted(s)' = Wanted(s) \cup fly
  <2>1. /\ Len(log') = Len(log) + 1 /\ Len(log) \in Nat
        /\ \A i \in 1 .. Len(log) : log'[i] = log[i]
        /\ log'[Len(log) + 1] = current
    BY <1>1, <1>2
  <2>2. start[s] + 1 .. Len(log') = (start[s] + 1 .. Len(log)) \cup {Len(log) + 1}
    BY <1>2, <2>1
  <2>3. start[s] + 1 .. Len(log) \subseteq 1 .. Len(log) BY <1>2, <2>1
  <2>4. {log'[i] : i \in start[s] + 1 .. Len(log')}
          = {log[i] : i \in start[s] + 1 .. Len(log)} \cup {current}
    BY <2>1, <2>2, <2>3
  <2> QED BY <1>1, <2>4 DEF Wanted, Accepts
<1>7. current \notin Wanted(s)
  <2>1. \A i \in 1 .. Len(log) : log[i].ts < current.ts BY <1>1 DEF InStoreOrder
  <2>2. ASSUME NEW i \in start[s] + 1 .. Len(log) PROVE log[i] # current
    <3>1. i \in 1 .. Len(log) BY <1>2, <2>2
    <3>2. current.ts \in Nat BY <1>2, BroadcasterAssumption DEF Events
    <3>3. log[i].ts < current.ts BY <2>1, <3>1
    <3> QED BY <3>2, <3>3
  <2> QED BY <2>2 DEF Wanted
<1>8. Served(Delivered(s), replayed[s], dropped[s], {}, Wanted(s))
  BY <1>4 DEF AllServed, ServedNow
<1>9. Served(Delivered(s), replayed[s], dropped[s], fly, Wanted(s) \cup fly)
  <2>1. fly \cap Wanted(s) = {} BY <1>7
  <2> HIDE DEF fly
  <2> QED BY <1>8, <2>1 DEF Served
<1> HIDE DEF fly
<1> QED BY <1>1, <1>4, <1>5, <1>6, <1>9 DEF ServedNow

\* The event is sent to a client, at once or after a wait.
LEMMA SendServed ==
  ASSUME Inv, InStoreOrder, AllServed, NEW h \in Attached, bpc = "send", h \in Left,
         ch' = [ch EXCEPT ![h] = Append(@, current)], Left' = Left \ {h},
         UNCHANGED <<current, filter, writing, got, replayed, dropped, start, log>>
  PROVE  \A s \in Attached : ServedNow(s)'
<1>1. /\ \A s \in Attached : s \in Subs
      /\ got \in [Subs -> Seq(Events)] /\ ch \in [Subs -> Seq(Events)]
      /\ replayed \in [Subs -> Seq(Events)] /\ dropped \in [Subs -> Seq(Events)]
      /\ writing \in [Subs -> Events \cup {NoData}]
  BY DEF Attached, Inv, Typed, TypeOK
<1>2. ASSUME NEW s \in Attached \ {h} PROVE ServedNow(s)'
  <2>1. ch'[s] = ch[s] BY <1>1, <1>2
  <2>2. Unmoved(s) BY <1>1, <1>2, <2>1, NotConcerned
  <2> QED BY <1>1, <2>2, UnmovedServed
<1>3. ServedNow(h)'
  <2>1. /\ h \in Subs /\ got[h] \in Seq(Events) /\ ch[h] \in Seq(Events)
        /\ replayed[h] \in Seq(Events) /\ dropped[h] \in Seq(Events)
    BY <1>1
  <2>2. Pending(h) \in Seq(Events) BY <1>1, <2>1 DEF Pending
  <2>3. got[h] \o Pending(h) \o ch[h] \in Seq(Events)
    <3>1. got[h] \o Pending(h) \in Seq(Events) BY <2>1, <2>2, ConcatProperties
    <3> QED BY <2>1, <3>1, ConcatProperties
  <2>4. current \in Events /\ \A e \in Wanted(h) \ {current} : e.ts < current.ts
    BY <2>1, CurrentIsLast
  <2>5. Delivered(h)' = Append(Delivered(h), current)
    <3>1. ch'[h] = Append(ch[h], current) BY <1>1, <2>1
    <3>2. Delivered(h)' = got[h] \o Pending(h) \o Append(ch[h], current)
      BY <3>1 DEF Delivered, Pending
    <3> DEFINE g == got[h]
               p == Pending(h)
               c == ch[h]
    <3>3. g \in Seq(Events) /\ p \in Seq(Events) /\ c \in Seq(Events) /\ current \in Events
      BY <2>1, <2>2, <2>4
    <3> HIDE DEF g, p, c
    <3>4. g \o p \o Append(c, current) = Append(g \o p \o c, current) BY <3>3, SentIsLast
    <3> QED BY <3>2, <3>4 DEF Delivered, g, p, c
  <2>6. InFlight(h) = {current} /\ InFlight(h)' = {} BY DEF InFlight, Left
  <2>7. Wanted(h)' = Wanted(h) BY DEF Wanted
  <2>8. Served(Delivered(h), replayed[h], dropped[h], {current}, Wanted(h))
    BY <2>6 DEF AllServed, ServedNow
  <2>9. Served(Append(Delivered(h), current), replayed[h], dropped[h], {}, Wanted(h))
    BY <2>1, <2>3, <2>4, <2>8, ServedSend DEF Delivered
  <2> QED BY <2>5, <2>6, <2>7, <2>9 DEF ServedNow
<1> QED BY <1>2, <1>3

\* The event is skipped for a client.
LEMMA TimeoutServed ==
  ASSUME Inv, InStoreOrder, AllServed, NEW h \in Attached, bpc = "send", h \in Left,
         dropped' = [dropped EXCEPT ![h] = Append(@, current)], Left' = Left \ {h},
         UNCHANGED <<current, filter, writing, got, ch, replayed, start, log>>
  PROVE  \A s \in Attached : ServedNow(s)'
<1>1. /\ \A s \in Attached : s \in Subs
      /\ got \in [Subs -> Seq(Events)] /\ ch \in [Subs -> Seq(Events)]
      /\ replayed \in [Subs -> Seq(Events)] /\ dropped \in [Subs -> Seq(Events)]
      /\ writing \in [Subs -> Events \cup {NoData}]
  BY DEF Attached, Inv, Typed, TypeOK
<1>2. ASSUME NEW s \in Attached \ {h} PROVE ServedNow(s)'
  <2>1. dropped'[s] = dropped[s] BY <1>1, <1>2
  <2>2. Unmoved(s) BY <1>1, <1>2, <2>1, NotConcerned
  <2> QED BY <1>1, <2>2, UnmovedServed
<1>3. ServedNow(h)'
  <2>1. /\ h \in Subs /\ got[h] \in Seq(Events) /\ ch[h] \in Seq(Events)
        /\ replayed[h] \in Seq(Events) /\ dropped[h] \in Seq(Events)
    BY <1>1
  <2>2. Pending(h) \in Seq(Events) BY <1>1, <2>1 DEF Pending
  <2>3. Delivered(h) \in Seq(Events)
    <3>1. got[h] \o Pending(h) \in Seq(Events) BY <2>1, <2>2, ConcatProperties
    <3> QED BY <2>1, <3>1, ConcatProperties DEF Delivered
  <2>4. current \in Events /\ \A e \in Wanted(h) \ {current} : e.ts < current.ts
    BY <2>1, CurrentIsLast
  <2>5. dropped'[h] = Append(dropped[h], current) /\ Delivered(h)' = Delivered(h)
    BY <1>1, <2>1 DEF Delivered, Pending
  <2>6. InFlight(h) = {current} /\ InFlight(h)' = {} BY DEF InFlight, Left
  <2>7. Wanted(h)' = Wanted(h) BY DEF Wanted
  <2>8. Served(Delivered(h), replayed[h], dropped[h], {current}, Wanted(h))
    BY <2>6 DEF AllServed, ServedNow
  <2>9. Served(Delivered(h), replayed[h], Append(dropped[h], current), {}, Wanted(h))
    BY <2>1, <2>3, <2>4, <2>8, ServedDrop
  <2> QED BY <2>5, <2>6, <2>7, <2>9 DEF ServedNow
<1> QED BY <1>2, <1>3

\* Subscribe registers a connection that has been sent nothing and wants
\* nothing yet, since no broadcast is under way.
LEMMA RegisterServed ==
  ASSUME Inv, HandlersKnown, AllServed, NEW s \in Subs, Subscribe(s),
         NEW r \in Subs, r \in Attached'
  PROVE  ServedNow(r)'
<1> USE DEF serverVars
<1>1. /\ mutex = Nobody /\ s = nextID /\ clients' = clients \cup {s}
      /\ hpc' = [hpc EXCEPT ![s] = "subscribe"]
      /\ start' = [start EXCEPT ![s] = Len(log)]
      /\ \E f \in SearchFilters \cup {NoFilter} : filter' = [filter EXCEPT ![s] = f]
      /\ UNCHANGED <<ch, current, todo, blocked, writing, log, replayed, got, dropped>>
  BY DEF Subscribe, Register
<1>2. /\ hpc \in [Subs -> {"absent", "subscribe", "select", "write", "leave", "gone"}]
      /\ start \in [Subs -> Nat] /\ filter \in [Subs -> SearchFilters \cup {NoFilter}]
      /\ log \in Seq(Events)
  BY DEF Inv, Typed, TypeOK
<1>3. todo = {} /\ Range(blocked) = {}
  <2>1. bpc # "send" BY <1>1, BroadcasterAssumption DEF Inv, LockHeld
  <2> QED BY <2>1 DEF Inv, MembersKnown, Range
<1>4. CASE r # s
  <2>1. start'[r] = start[r] /\ filter'[r] = filter[r] /\ hpc'[r] = hpc[r] BY <1>1, <1>2, <1>4
  <2>2. r \in Attached BY <1>1, <1>4, <2>1 DEF Attached
  <2>3. Unmoved(r) BY <1>1, <2>1, <2>2, NotConcerned DEF Left
  <2> QED BY <2>3, UnmovedServed
<1>5. CASE r = s
  <2>1. hpc[s] = "absent" BY <1>1, <1>2 DEF Inv, Typed, TypeOK, MembersKnown
  <2>2. /\ got[s] = << >> /\ writing[s] = NoData /\ ch[s] = << >>
        /\ replayed[s] = << >> /\ dropped[s] = << >>
    BY <2>1 DEF HandlersKnown, Inv, RoomLeft
  <2>3. Delivered(s)' = << >> /\ replayed'[s] = << >> /\ dropped'[s] = << >>
    BY <1>1, <2>2, ConcatEmptySeq DEF Delivered, Pending
  <2>4. InFlight(s)' = {} BY <1>1, <1>3 DEF InFlight, Range
  <2>5. Wanted(s)' = {}
    <3>1. start'[s] = Len(log) /\ Len(log) \in Nat BY <1>1, <1>2
    <3>2. start'[s] + 1 .. Len(log) = {} BY <3>1
    <3> QED BY <1>1, <3>2 DEF Wanted
  <2>6. Served(<< >>, << >>, << >>, {}, {}) BY DEF Served, From, Rises
  <2> QED BY <1>5, <2>3, <2>4, <2>5, <2>6 DEF ServedNow
<1> QED BY <1>4, <1>5

\* Subscribe replays a row.
LEMMA PrefillServed ==
  ASSUME Inv, Inv', HandlersKnown, HandlersKnown', AllServed, NEW s \in Subs, Prefill(s),
         NEW r \in Subs, r \in Attached'
  PROVE  ServedNow(r)'
<1> USE DEF serverVars, memberVars
<1>1. /\ hpc[s] = "subscribe" /\ hpc' = hpc
      /\ UNCHANGED <<clients, filter, current, todo, blocked, writing, log, start, got, dropped>>
  BY DEF Prefill
<1>2. /\ ch \in [Subs -> Seq(Events)] /\ replayed \in [Subs -> Seq(Events)]
      /\ replayed' \in [Subs -> Seq(Events)]
  BY DEF Inv, Typed, TypeOK
<1>3. r \in Attached BY <1>1 DEF Attached
<1>4. CASE r # s
  <2>1. ch'[r] = ch[r] /\ replayed'[r] = replayed[r] BY <1>2, <1>4 DEF Prefill
  <2>2. Unmoved(r) BY <1>1, <1>3, <2>1, NotConcerned DEF Left
  <2> QED BY <2>2, UnmovedServed
<1>5. CASE r = s
  <2>1. /\ got[s] = << >> /\ writing[s] = NoData /\ ch[s] = replayed[s]
        /\ ch'[s] = replayed'[s]
    BY <1>1 DEF HandlersKnown
  <2>2. replayed[s] \in Seq(Events) /\ replayed'[s] \in Seq(Events) BY <1>2
  <2>3. Delivered(s) = replayed[s]
    BY <2>1, <2>2, ConcatEmptySeq DEF Delivered, Pending
  <2>4. Delivered(s)' = replayed'[s]
    BY <1>1, <2>1, <2>2, ConcatEmptySeq DEF Delivered, Pending
  <2>5. InFlight(s)' = InFlight(s) /\ Wanted(s)' = Wanted(s) /\ dropped'[s] = dropped[s]
    BY <1>1 DEF InFlight, Wanted
  <2>6. Served(replayed[s], replayed[s], dropped[s], InFlight(s), Wanted(s))
    BY <1>3, <1>5, <2>3 DEF AllServed, ServedNow
  <2>7. Served(replayed'[s], replayed'[s], dropped[s], InFlight(s), Wanted(s))
    BY <2>2, <2>6, ServedReplay
  <2> QED BY <1>5, <2>4, <2>5, <2>7 DEF ServedNow
<1> QED BY <1>4, <1>5

\* A connection that goes on takes an event from its channel to its client; one
\* that ends is no longer promised anything.
LEMMA HandlerServed ==
  ASSUME Inv, HandlersKnown, AllServed, NEW s \in Subs,
         Subscribed(s) \/ Receive(s) \/ Written(s) \/ WriteFails(s) \/ Leave(s) \/ Unsubscribe(s),
         NEW r \in Subs, r \in Attached'
  PROVE  ServedNow(r)'
<1> USE DEF serverVars, memberVars, history
<1>1. /\ UNCHANGED <<filter, current, todo, blocked, log, start, replayed, dropped>>
      /\ clients' \subseteq clients
  BY DEF Subscribed, Receive, Written, WriteFails, Leave, Unsubscribe, MembersWithout
<1>2. /\ hpc \in [Subs -> {"absent", "subscribe", "select", "write", "leave", "gone"}]
      /\ got \in [Subs -> Seq(Events)] /\ ch \in [Subs -> Seq(Events)]
      /\ writing \in [Subs -> Events \cup {NoData}]
      /\ hpc[s] = "write" => writing[s] \in Events
  BY DEF Inv, Typed, TypeOK
<1>3. CASE r # s
  <2>1. got'[r] = got[r] /\ writing'[r] = writing[r] /\ ch'[r] = ch[r] /\ hpc'[r] = hpc[r]
    BY <1>2, <1>3 DEF Subscribed, Receive, Written, WriteFails, Leave, Unsubscribe
  <2>2. r \in Attached BY <1>1, <2>1 DEF Attached
  <2>3. Unmoved(r) BY <1>1, <2>1, <2>2, NotConcerned DEF Left
  <2> QED BY <2>3, UnmovedServed
<1>4. CASE r = s
  <2>1. hpc'[s] \in {"subscribe", "select", "write"} /\ s \in clients
    BY <1>1, <1>4 DEF Attached
  <2>2. s \in Attached /\ Delivered(s)' = Delivered(s)
    <3>1. CASE Subscribed(s)
      BY <2>1, <3>1 DEF Subscribed, Attached, Delivered, Pending
    <3>2. CASE Receive(s)
      <4>1. /\ hpc[s] = "select" /\ ch[s] # << >> /\ got' = got
            /\ writing' = [writing EXCEPT ![s] = Head(ch[s])]
            /\ ch' = [ch EXCEPT ![s] = Tail(@)]
        BY <3>2 DEF Receive
      <4>2. /\ writing'[s] = Head(ch[s]) /\ ch'[s] = Tail(ch[s]) /\ Head(ch[s]) \in Events
            /\ got[s] \in Seq(Events) /\ ch[s] \in Seq(Events)
        BY <1>2, <4>1
      <4>3. Pending(s) = << >> BY <4>1 DEF HandlersKnown, Pending
      <4>4. Pending(s)' = <<Head(ch[s])>>
        BY <4>2, NoDataAssumption DEF Pending
      <4>5. Delivered(s)' = got[s] \o <<Head(ch[s])>> \o Tail(ch[s])
        BY <4>1, <4>2, <4>4 DEF Delivered
      <4>6. Delivered(s) = got[s] \o << >> \o ch[s] BY <4>3 DEF Delivered
      <4> QED BY <2>1, <4>1, <4>2, <4>5, <4>6, ReceivedInPlace DEF Attached
    <3>3. CASE Written(s)
      <4>1. /\ hpc[s] = "write" /\ ch' = ch /\ writing[s] \in Events
            /\ writing' = [writing EXCEPT ![s] = NoData]
            /\ got' = [got EXCEPT ![s] = Append(@, writing[s])]
        BY <1>2, <3>3 DEF Written
      <4>2. /\ writing'[s] = NoData /\ got'[s] = Append(got[s], writing[s])
            /\ got[s] \in Seq(Events) /\ ch[s] \in Seq(Events)
        BY <1>2, <4>1
      <4>3. Pending(s) = <<writing[s]>>
        BY <4>1, NoDataAssumption DEF Pending
      <4>4. Pending(s)' = << >> BY <4>2 DEF Pending
      <4>5. Delivered(s)' = Append(got[s], writing[s]) \o << >> \o ch[s]
        BY <4>1, <4>2, <4>4 DEF Delivered
      <4>6. Delivered(s) = got[s] \o <<writing[s]>> \o ch[s] BY <4>3 DEF Delivered
      <4> QED BY <2>1, <4>1, <4>2, <4>5, <4>6, WrittenInPlace DEF Attached
    <3>4. ~WriteFails(s) /\ ~Leave(s) /\ ~Unsubscribe(s)
      BY <1>2, <2>1 DEF WriteFails, Leave, Unsubscribe
    <3> QED BY <3>1, <3>2, <3>3, <3>4
  <2>3. InFlight(s)' = InFlight(s) /\ Wanted(s)' = Wanted(s) BY <1>1 DEF InFlight, Wanted
  <2>4. Unmoved(s) BY <1>1, <2>2, <2>3 DEF Unmoved
  <2> QED BY <1>4, <2>4, UnmovedServed
<1> QED BY <1>3, <1>4

\* Every step of the system leaves every connection served.
LEMMA ServedStep ==
  ASSUME Inv, Inv', DeliveryInv, HandlersKnown', [Next]_vars
  PROVE  AllServed'
<1> USE DEF storeVars, memberVars, serverVars, handlerVars, history
<1>1. InStoreOrder /\ HandlersKnown /\ VisitsOnce /\ AllServed BY DEF DeliveryInv
<1>2. SUFFICES ASSUME NEW r \in Subs, r \in Attached' PROVE ServedNow(r)'
  <2>1. Attached' \subseteq Subs BY DEF Attached, Inv, Typed, TypeOK
  <2> QED BY <1>2, <2>1 DEF AllServed
<1>3. bpc # "send" => Left = {} BY DEF Left, Range, Inv, MembersKnown
<1>5. CASE UNCHANGED <<clients, hpc, got, writing, ch, replayed, dropped, start, filter, log,
                       todo, blocked, current>>
  BY <1>1, <1>2, <1>5, NotConcerned, UnmovedServed DEF Attached, Left
<1>6. CASE TakeEvent \/ RenderFails \/ BroadcastDone
  <2>1. /\ UNCHANGED <<clients, hpc, got, writing, ch, replayed, dropped, start, filter, log,
                       todo, blocked>>
        /\ Left = {}
    <3>1. todo = {} /\ blocked = << >>
      BY <1>6 DEF TakeEvent, RenderFails, BroadcastDone, Inv, MembersKnown
    <3>2. Left = {} BY <3>1 DEF Left, Range
    <3> QED BY <1>6, <3>2 DEF TakeEvent, RenderFails, BroadcastDone
  <2>2. Left' = Left /\ r \in Attached BY <1>2, <2>1 DEF Left, Attached
  <2> QED BY <1>1, <2>1, <2>2, NotConcerned, UnmovedServed
<1>7. CASE Broadcast
  <2>1. r \in Attached BY <1>2, <1>7 DEF Broadcast, Attached
  <2> QED BY <1>1, <1>7, <2>1, BroadcastServed
<1>8. ASSUME NEW h \in Subs, Send(h) PROVE ServedNow(r)'
  <2>1. /\ UNCHANGED <<clients, hpc, current, filter, writing, got, replayed, dropped, start, log>>
        /\ bpc = "send"
    BY <1>8 DEF Send
  <2>2. r \in Attached BY <1>2, <2>1 DEF Attached
  <2>3. CASE ch' = ch /\ Left' = Left
    BY <1>1, <2>1, <2>2, <2>3, NotConcerned, UnmovedServed
  <2>4. CASE h \in Attached /\ ch' = [ch EXCEPT ![h] = Append(@, current)] /\ Left' = Left \ {h}
    BY <1>1, <1>8, <2>1, <2>2, <2>4, SendLeaves, SendServed
  <2>5. CASE h \notin Attached /\ ch' = [ch EXCEPT ![h] = Append(@, current)] /\ Left' = Left \ {h}
    <3>1. r # h /\ ch'[r] = ch[r] BY <2>2, <2>5 DEF Inv, Typed, TypeOK
    <3> QED BY <1>1, <2>1, <2>2, <2>5, <3>1, NotConcerned, UnmovedServed
  <2> QED BY <1>1, <1>8, <2>3, <2>4, <2>5, SendLeaves
<1>9. CASE RetrySend
  <2> DEFINE h == Head(blocked)
  <2>1. /\ UNCHANGED <<clients, hpc, current, filter, writing, got, replayed, dropped, start, log>>
        /\ bpc = "send" /\ ch' = [ch EXCEPT ![h] = Append(@, current)]
    BY <1>9 DEF RetrySend
  <2>2. r \in Attached BY <1>2, <2>1 DEF Attached
  <2>3. h \in Subs /\ h \in Left /\ Left' = Left \ {h} BY <1>1, <1>9, RetryLeaves
  <2> HIDE DEF h
  <2>4. CASE h \in Attached BY <1>1, <2>1, <2>2, <2>3, <2>4, SendServed
  <2>5. CASE h \notin Attached
    <3>1. r # h /\ ch'[r] = ch[r] BY <2>1, <2>2, <2>5 DEF Inv, Typed, TypeOK
    <3> QED BY <1>1, <2>1, <2>2, <2>3, <3>1, NotConcerned, UnmovedServed
  <2> QED BY <2>4, <2>5
<1>10. CASE RetryTimeout
  <2> DEFINE h == Head(blocked)
  <2>1. /\ UNCHANGED <<clients, hpc, current, filter, writing, got, ch, replayed, start, log>>
        /\ bpc = "send" /\ dropped' = [dropped EXCEPT ![h] = Append(@, current)]
    BY <1>10 DEF RetryTimeout
  <2>2. r \in Attached BY <1>2, <2>1 DEF Attached
  <2>3. h \in Subs /\ h \in Left /\ Left' = Left \ {h} BY <1>1, <1>10, RetryLeaves
  <2> HIDE DEF h
  <2>4. CASE h \in Attached BY <1>1, <2>1, <2>2, <2>3, <2>4, TimeoutServed
  <2>5. CASE h \notin Attached
    <3>1. r # h /\ dropped'[r] = dropped[r] BY <2>1, <2>2, <2>5 DEF Inv, Typed, TypeOK
    <3> QED BY <1>1, <2>1, <2>2, <2>3, <3>1, NotConcerned, UnmovedServed
  <2> QED BY <2>4, <2>5
<1>11. ASSUME NEW s \in Subs, Handler(s) PROVE ServedNow(r)'
  <2>1. CASE Subscribe(s) BY <1>1, <1>2, <2>1, RegisterServed
  <2>2. CASE Prefill(s) BY <1>1, <1>2, <2>2, PrefillServed
  <2>3. CASE \/ Subscribed(s) \/ Receive(s) \/ Written(s) \/ WriteFails(s)
             \/ Leave(s) \/ Unsubscribe(s)
    BY <1>1, <1>2, <2>3, HandlerServed
  <2> QED BY <1>11, <2>1, <2>2, <2>3 DEF Handler, Disconnected, HandlerStops
<1> QED
  BY <1>5, <1>6, <1>7, <1>8, <1>9, <1>10, <1>11
  DEF Next, vars, Store, Emit, CloseEvents, Stop, Run, EventsClosed, SeeStop, Terminated

------------------------------------------------------------------------------
(* The ring and those who are connected. *)

\* What was broadcast since connection s subscribed.
Logged(s) == {log[i] : i \in start[s] + 1 .. Len(log)}

\* Connection s, which searches for nothing, knows the ring: what is in it was
\* replayed, if its slot was visited, or was broadcast since.
RingKnownTo(s) ==
  filter[s] = NoFilter =>
    /\ hpc[s] = "subscribe" =>
         \A k \in 1 .. slot[s] - 1 :
           ReplaySlot(k).data # NoData => ReplaySlot(k).data \in Range(replayed[s])
    /\ hpc[s] \in {"select", "write"} =>
         \A j \in Index :
           head[j].data # NoData => head[j].data \in Range(replayed[s]) \cup Logged(s)

RingKnown == \A s \in Subs : RingKnownTo(s)

\* A step that leaves the ring, the log and what is known of connection s alone.
LEMMA RingUntouched ==
  ASSUME RingKnown, NEW s \in Subs,
         /\ UNCHANGED <<head, headIndex, log>>
         /\ filter'[s] = filter[s] /\ hpc'[s] = hpc[s] /\ slot'[s] = slot[s]
         /\ replayed'[s] = replayed[s] /\ start'[s] = start[s]
  PROVE  RingKnownTo(s)'
<1>1. RingKnownTo(s) BY DEF RingKnown
<1>2. Logged(s)' = Logged(s) BY DEF Logged
<1>3. \A k : ReplaySlot(k)' = ReplaySlot(k) BY DEF ReplaySlot
<1> QED BY <1>1, <1>2, <1>3 DEF RingKnownTo, Index, Range

\* What add puts into the ring is what is logged.
LEMMA RingBroadcast ==
  ASSUME Inv, HandlersKnown, RingKnown, Broadcast, NEW s \in Subs
  PROVE  RingKnownTo(s)'
<1> USE DEF memberVars, handlerVars, history
<1>1. /\ mutex = Nobody /\ Add(current) /\ log' = Append(log, current)
      /\ UNCHANGED <<filter, hpc, slot, replayed, start>>
  BY DEF Broadcast
<1>2. /\ log \in Seq(Events) /\ current \in Events /\ start[s] \in Nat /\ start[s] <= Len(log)
      /\ head \in [Index -> Slot] /\ headIndex \in Index /\ headMap \in [DOMAIN headMap -> Header]
  BY DEF Broadcast, Inv, Typed, TypeOK, HandlersKnown, BufferInv, BufferTypeOK
<1>3. hpc[s] # "subscribe" BY <1>1, BroadcasterAssumption DEF Inv, LockHeld
<1>4. Logged(s)' = Logged(s) \cup {current}
  <2>1. /\ Len(log') = Len(log) + 1 /\ Len(log) \in Nat
        /\ \A i \in 1 .. Len(log) : log'[i] = log[i]
        /\ log'[Len(log) + 1] = current
    BY <1>1, <1>2
  <2>2. start[s] + 1 .. Len(log') = (start[s] + 1 .. Len(log)) \cup {Len(log) + 1}
    BY <1>2, <2>1
  <2>3. start[s] + 1 .. Len(log) \subseteq 1 .. Len(log) BY <1>2, <2>1
  <2> QED BY <1>1, <2>1, <2>2, <2>3 DEF Logged
<1>5. \A j \in Index : head'[j] = head[j] \/ head'[j] = SlotOf(current)
  BY <1>1, <1>2 DEF Add, AddNew, AddStale, AddUpdate, bufferVars
<1>6. \A j \in Index : head'[j].data = head[j].data \/ head'[j].data = current
  BY <1>5 DEF SlotOf
<1>7. RingKnownTo(s) BY DEF RingKnown
<1> QED BY <1>1, <1>3, <1>4, <1>6, <1>7 DEF RingKnownTo, Index, Range

\* Subscribe starts with no slot visited, or as a search, and visits a slot.
LEMMA RingVisited ==
  ASSUME Inv, RingKnown, NEW s \in Subs, Subscribe(s) \/ Prefill(s), NEW r \in Subs
  PROVE  RingKnownTo(r)'
<1> USE DEF serverVars, memberVars
<1>1. /\ filter \in [Subs -> SearchFilters \cup {NoFilter}]
      /\ slot \in [Subs -> 0 .. BufferSize + 1]
      /\ hpc \in [Subs -> {"absent", "subscribe", "select", "write", "leave", "gone"}]
      /\ start \in [Subs -> Nat] /\ replayed \in [Subs -> Seq(Events)]
      /\ BufferTypeOK /\ BufferSize \in Nat \ {0}
  BY BufferAssumption DEF Inv, Typed, TypeOK
<1>2. CASE Subscribe(s)
  <2>1. PICK f \in SearchFilters \cup {NoFilter} :
          /\ hpc' = [hpc EXCEPT ![s] = "subscribe"] /\ filter' = [filter EXCEPT ![s] = f]
          /\ \/ slot' = [slot EXCEPT ![s] = 1]
             \/ f \in SearchFilters /\ slot' = [slot EXCEPT ![s] = BufferSize + 1]
          /\ start' = [start EXCEPT ![s] = Len(log)]
          /\ UNCHANGED <<head, headIndex, log, replayed>>
    BY <1>2 DEF Subscribe, Register, bufferVars
  <2>2. CASE r # s
    <3>1. filter'[r] = filter[r] /\ hpc'[r] = hpc[r] /\ slot'[r] = slot[r] /\ start'[r] = start[r]
      BY <1>1, <2>1, <2>2
    <3> QED BY <2>1, <3>1, RingUntouched
  <2>3. CASE r = s
    <3>1. hpc'[s] = "subscribe" /\ filter'[s] = f BY <1>1, <2>1
    <3>2. f = NoFilter => slot'[s] = 1
      BY <1>1, <2>1, BroadcasterAssumption DEF SearchFilters
    <3>3. \A k \in 1 .. 1 - 1 : FALSE OBVIOUS
    <3> QED BY <2>3, <3>1, <3>2, <3>3 DEF RingKnownTo
  <2> QED BY <2>2, <2>3
<1>3. CASE Prefill(s)
  <2> DEFINE d == ReplaySlot(slot[s]).data
  <2>1. /\ hpc[s] = "subscribe" /\ slot' = [slot EXCEPT ![s] = @ + 1]
        /\ UNCHANGED <<head, headIndex, log, filter, hpc, start>>
        /\ \/ d = NoData /\ replayed' = replayed
           \/ replayed' = [replayed EXCEPT ![s] = Append(@, d)]
    BY <1>3, Zenon DEF Prefill, bufferVars
  <2>2. CASE r # s
    <3>1. slot'[r] = slot[r] /\ replayed'[r] = replayed[r] BY <1>1, <2>1, <2>2
    <3> QED BY <2>1, <3>1, RingUntouched
  <2>3. CASE r = s
    <3>1. slot'[s] = slot[s] + 1 /\ slot[s] \in Nat BY <1>1, <2>1
    <3>2. Range(replayed[s]) \subseteq Range(replayed'[s])
          /\ (d # NoData => d \in Range(replayed'[s]))
      <4> HIDE DEF d
      <4>1. CASE replayed' = replayed /\ d = NoData BY <4>1
      <4>2. CASE replayed' = [replayed EXCEPT ![s] = Append(@, d)]
        <5>1. replayed'[s] = Append(replayed[s], d) /\ replayed[s] \in Seq(Events)
          BY <1>1, <4>2
        <5>2. /\ DOMAIN replayed[s] = 1 .. Len(replayed[s]) /\ Len(replayed[s]) \in Nat
              /\ DOMAIN replayed'[s] = 1 .. Len(replayed[s]) + 1
              /\ \A i \in 1 .. Len(replayed[s]) : replayed'[s][i] = replayed[s][i]
              /\ replayed'[s][Len(replayed[s]) + 1] = d
          BY <5>1
        <5>3. Len(replayed[s]) + 1 \in DOMAIN replayed'[s]
              /\ DOMAIN replayed[s] \subseteq DOMAIN replayed'[s]
          BY <5>2
        <5> QED BY <5>2, <5>3 DEF Range
      <4> QED BY <2>1, <4>1, <4>2
    <3>3. \A k : ReplaySlot(k)' = ReplaySlot(k) BY <2>1 DEF ReplaySlot
    <3>4. ASSUME NEW k \in 1 .. slot'[s] - 1, filter[s] = NoFilter,
                 ReplaySlot(k).data # NoData
          PROVE  ReplaySlot(k).data \in Range(replayed'[s])
      <4>1. CASE k = slot[s] BY <3>2, <3>4, <4>1
      <4>2. CASE k # slot[s]
        <5>1. k \in 1 .. slot[s] - 1 BY <3>1, <4>2
        <5>2. ReplaySlot(k).data \in Range(replayed[s])
          BY <2>1, <3>4, <5>1 DEF RingKnown, RingKnownTo
        <5> QED BY <3>2, <5>2
      <4> QED BY <4>1, <4>2
    <3>5. hpc'[s] = "subscribe" /\ filter'[s] = filter[s] BY <2>1
    <3> HIDE DEF d
    <3> QED BY <2>3, <3>3, <3>4, <3>5 DEF RingKnownTo
  <2> QED BY <2>2, <2>3
<1> QED BY <1>2, <1>3

\* When Subscribe returns, every slot was visited.
LEMMA RingAllVisited ==
  ASSUME Inv, RingKnown, NEW s \in Subs, Subscribed(s)
  PROVE  RingKnownTo(s)'
<1>1. /\ hpc[s] = "subscribe" /\ slot[s] > BufferSize
      /\ UNCHANGED <<head, headIndex, log, filter, start, replayed>>
  BY DEF Subscribed, LastSlot, bufferVars, memberVars, history
<1>2. /\ slot[s] \in 0 .. BufferSize + 1 /\ BufferSize \in Nat \ {0} /\ headIndex \in Index
      /\ hpc'[s] = "select"
  BY BufferAssumption DEF Subscribed, Inv, Typed, TypeOK, BufferTypeOK
<1>3. slot[s] - 1 = BufferSize BY <1>1, <1>2
<1>4. ASSUME NEW j \in Index, filter[s] = NoFilter, head[j].data # NoData
      PROVE  head[j].data \in Range(replayed[s])
  <2>1. PICK k \in 1 .. BufferSize : ReplaySlot(k) = head[j]
    BY <1>2, SlotsVisited DEF ReplaySlot
  <2> QED BY <1>1, <1>3, <1>4, <2>1 DEF RingKnown, RingKnownTo
<1> QED BY <1>1, <1>2, <1>4 DEF RingKnownTo, Index, Range

\* Every step keeps the ring known to those who are connected.
LEMMA RingKnownStep ==
  ASSUME Inv, HandlersKnown, RingKnown, [Next]_vars
  PROVE  RingKnown'
<1> USE DEF memberVars, serverVars, handlerVars, history, bufferVars
<1>1. SUFFICES ASSUME NEW r \in Subs PROVE RingKnownTo(r)'
  BY DEF RingKnown
<1>2. CASE UNCHANGED <<head, headIndex, log, filter, hpc, slot, replayed, start>>
  BY <1>2, RingUntouched
<1>3. CASE Broadcast BY <1>3, RingBroadcast
<1>4. ASSUME NEW s \in Subs, Subscribe(s) \/ Prefill(s) PROVE RingKnownTo(r)'
  BY <1>4, RingVisited
<1>5. hpc \in [Subs -> {"absent", "subscribe", "select", "write", "leave", "gone"}]
  BY DEF Inv, Typed, TypeOK
<1>6. ASSUME NEW s \in Subs, Subscribed(s) PROVE RingKnownTo(r)'
  <2>1. CASE r = s BY <1>6, <2>1, RingAllVisited
  <2>2. CASE r # s
    <3>1. hpc'[r] = hpc[r] /\ UNCHANGED <<head, headIndex, log, filter, slot, replayed, start>>
      BY <1>5, <1>6, <2>2 DEF Subscribed
    <3> QED BY <3>1, RingUntouched
  <2> QED BY <2>1, <2>2
<1>7. ASSUME NEW s \in Subs,
             \/ Receive(s) \/ Written(s) \/ WriteFails(s) \/ Leave(s) \/ Unsubscribe(s)
      PROVE  RingKnownTo(r)'
  <2>1. UNCHANGED <<head, headIndex, log, filter, slot, replayed, start>>
    BY <1>7 DEF Receive, Written, WriteFails, Leave, Unsubscribe
  <2>2. CASE hpc'[r] = hpc[r] BY <2>1, <2>2, RingUntouched
  <2>3. CASE hpc'[r] \in {"leave", "gone"} BY <2>3 DEF RingKnownTo
  <2>4. CASE hpc'[r] \in {"select", "write"} /\ hpc[r] \in {"select", "write"}
    <3>1. Logged(r)' = Logged(r) BY <2>1 DEF Logged
    <3>2. RingKnownTo(r) BY DEF RingKnown
    <3> QED BY <2>1, <2>4, <3>1, <3>2 DEF RingKnownTo, Index, Range
  <2>5. \/ hpc'[r] = hpc[r] \/ hpc'[r] \in {"leave", "gone"}
        \/ hpc'[r] \in {"select", "write"} /\ hpc[r] \in {"select", "write"}
    BY <1>5, <1>7 DEF Receive, Written, WriteFails, Leave, Unsubscribe
  <2> QED BY <2>2, <2>3, <2>4, <2>5
<1> QED
  BY <1>2, <1>3, <1>4, <1>6, <1>7
  DEF Next, vars, Store, Emit, CloseEvents, Stop, Run, TakeEvent, RenderFails, EventsClosed,
      SeeStop, Send, RetrySend, RetryTimeout, BroadcastDone, Handler, Disconnected,
      HandlerStops, Terminated

------------------------------------------------------------------------------
(* The theorems. *)

\* What a connection has been sent, was skipped for it and is in flight for it
\* is what it wants, whatever the handlers and the broadcast do to its channel.
THEOREM DeliveryInvariant == Spec => []DeliveryInv
<1>1. Inv /\ Inv' /\ DeliveryInv /\ [Next]_vars => DeliveryInv'
  <2> SUFFICES ASSUME Inv, Inv', DeliveryInv, [Next]_vars PROVE DeliveryInv'
    OBVIOUS
  <2>1. InStoreOrder' BY OrderStep DEF DeliveryInv
  <2>2. HandlersKnown' BY HandlersStep DEF DeliveryInv
  <2>3. VisitsOnce' BY VisitsStep DEF DeliveryInv
  <2>4. AllServed' BY <2>2, ServedStep
  <2> QED BY <2>1, <2>2, <2>3, <2>4 DEF DeliveryInv
<1> QED BY InitImpliesDelivery, Invariant, <1>1, PTL DEF Spec

\* What follows the replay, as the properties say it.
LEMMA LiveFollowsReplay ==
  ASSUME NEW d \in Seq(Events), NEW n \in 0 .. Len(d)
  PROVE  LET live == SubSeq(d, n + 1, Len(d)) IN
           /\ live \in Seq(Events)
           /\ Rises(d, n + 1) => Rises(live, 1)
           /\ From(live, 1) = From(d, n + 1)
<1> DEFINE live == SubSeq(d, n + 1, Len(d))
<1>1. Len(d) \in Nat /\ n \in Nat /\ n <= Len(d) OBVIOUS
<1>2. \A i \in n + 1 .. Len(d) : d[i] \in Events BY <1>1
<1>3. /\ live \in Seq(Events)
      /\ Len(live) = IF n + 1 <= Len(d) THEN Len(d) - (n + 1) + 1 ELSE 0
      /\ \A i \in 1 .. Len(d) - (n + 1) + 1 : live[i] = d[(n + 1) + i - 1]
  BY <1>1, <1>2, SubSeqProperties
<1> HIDE DEF live
<1>4. Len(live) = Len(d) - n BY <1>1, <1>3
<1>5. \A i \in 1 .. Len(live) : n + i \in n + 1 .. Len(d) /\ live[i] = d[n + i]
  <2> TAKE i \in 1 .. Len(live)
  <2>1. n + i \in n + 1 .. Len(d) BY <1>1, <1>4
  <2>2. i \in 1 .. Len(d) - (n + 1) + 1 /\ (n + 1) + i - 1 = n + i BY <1>1, <1>4
  <2> QED BY <1>3, <2>1, <2>2
<1>6. \A j \in n + 1 .. Len(d) : j - n \in 1 .. Len(live) /\ n + (j - n) = j BY <1>1, <1>4
<1>7. From(live, 1) = From(d, n + 1)
  <2>1. From(live, 1) \subseteq From(d, n + 1) BY <1>5 DEF From
  <2>2. \A j \in n + 1 .. Len(d) : d[j] = live[j - n] BY <1>5, <1>6
  <2>3. From(d, n + 1) \subseteq From(live, 1) BY <1>6, <2>2 DEF From
  <2> QED BY <2>1, <2>3
<1>8. ASSUME Rises(d, n + 1), NEW i \in 1 .. Len(live), NEW j \in 1 .. Len(live), i < j
      PROVE  live[i].ts < live[j].ts
  <2>1. n + i < n + j BY <1>1, <1>8
  <2>2. d[n + i].ts < d[n + j].ts BY <1>5, <1>8, <2>1 DEF Rises
  <2> QED BY <1>5, <2>2
<1> QED BY <1>3, <1>7, <1>8 DEF live, Rises

\* In a sequence that is in the order of the store nothing comes twice.
LEMMA NothingTwice ==
  ASSUME NEW q \in Seq(Events), Rises(q, 1)
  PROVE  IsFiniteSet(From(q, 1)) /\ Cardinality(From(q, 1)) = Len(q)
<1>1. /\ Len(q) \in Nat /\ q \in [1 .. Len(q) -> Events]
      /\ \A e \in Events : e.ts \in Nat
  <2>1. \A e \in Events : e.ts \in Nat BY BufferAssumption DEF Events
  <2> QED BY <2>1, LenProperties
<1>2. q \in Surjection(1 .. Len(q), From(q, 1)) BY <1>1 DEF Surjection, From
<1>3. q \in Injection(1 .. Len(q), From(q, 1))
  <2>1. q \in [1 .. Len(q) -> From(q, 1)] BY <1>1 DEF From
  <2>2. ASSUME NEW i \in 1 .. Len(q), NEW j \in 1 .. Len(q), q[i] = q[j] PROVE i = j
    <3>1. q[i].ts \in Nat /\ q[j].ts \in Nat BY <1>1
    <3>2. ~(i < j) BY <2>2, <3>1 DEF Rises
    <3>3. ~(j < i) BY <2>2, <3>1 DEF Rises
    <3> QED BY <1>1, <3>2, <3>3
  <2> QED BY <2>1, <2>2 DEF Injection, IsInjective
<1>4. IsFiniteSet(1 .. Len(q)) /\ Cardinality(1 .. Len(q)) = Len(q)
  <2>1. /\ IsFiniteSet(1 .. Len(q))
        /\ Cardinality(1 .. Len(q)) = IF 1 > Len(q) THEN 0 ELSE Len(q) - 1 + 1
    BY <1>1, FS_Interval
  <2>2. (IF 1 > Len(q) THEN 0 ELSE Len(q) - 1 + 1) = Len(q) BY <1>1
  <2> QED BY <2>1, <2>2
<1> QED BY <1>2, <1>3, <1>4, FS_Surjection

\* The parts of AllServed, for one connection, as the properties say them.
LEMMA AttachedServed ==
  ASSUME Inv, AllServed, NEW s \in Attached
  PROVE  /\ Delivered(s) \in Seq(Events)
         /\ replayed[s] \in Seq(Events) /\ dropped[s] \in Seq(Events)
         /\ Len(replayed[s]) \in 0 .. Len(Delivered(s))
         /\ Live(s) \in Seq(Events) /\ Rises(Live(s), 1) /\ Rises(dropped[s], 1)
         /\ Range(Live(s)) = From(Delivered(s), Len(replayed[s]) + 1)
         /\ Range(Live(s)) = From(Live(s), 1) /\ Range(dropped[s]) = From(dropped[s], 1)
<1>1. /\ got[s] \in Seq(Events) /\ ch[s] \in Seq(Events)
      /\ replayed[s] \in Seq(Events) /\ dropped[s] \in Seq(Events)
      /\ writing[s] \in Events \cup {NoData}
  BY DEF Attached, Inv, Typed, TypeOK
<1>2. Delivered(s) \in Seq(Events)
  <2>1. Pending(s) \in Seq(Events) BY <1>1 DEF Pending
  <2>2. got[s] \o Pending(s) \in Seq(Events) BY <1>1, <2>1, ConcatProperties
  <2> QED BY <1>1, <2>2, ConcatProperties DEF Delivered
<1>3. /\ Len(replayed[s]) <= Len(Delivered(s))
      /\ Rises(Delivered(s), Len(replayed[s]) + 1) /\ Rises(dropped[s], 1)
  BY DEF AllServed, ServedNow, Served
<1>4. Len(replayed[s]) \in 0 .. Len(Delivered(s)) BY <1>1, <1>2, <1>3
<1>5. /\ Live(s) \in Seq(Events) /\ Rises(Live(s), 1)
      /\ From(Live(s), 1) = From(Delivered(s), Len(replayed[s]) + 1)
  BY <1>2, <1>3, <1>4, LiveFollowsReplay DEF Live
<1>6. \A q \in Seq(Events) : Range(q) = From(q, 1) BY DEF Range, From
<1> QED BY <1>1, <1>2, <1>3, <1>4, <1>5, <1>6

\* A client gets the replay first and then the events in the order of the
\* store, whichever of them had to wait for room in its channel.
THEOREM AlwaysInOrder == Spec => []DeliveredInOrder
<1>1. Inv /\ DeliveryInv => DeliveredInOrder
  <2> SUFFICES ASSUME Inv, AllServed, NEW s \in Attached
               PROVE  /\ SubSeq(Delivered(s), 1, Len(replayed[s])) = replayed[s]
                      /\ \A i, j \in DOMAIN Live(s) : i < j => Live(s)[i].ts < Live(s)[j].ts
    BY DEF DeliveryInv, DeliveredInOrder
  <2> DEFINE d == Delivered(s)
             r == replayed[s]
             front == SubSeq(d, 1, Len(r))
  <2>1. d \in Seq(Events) /\ r \in Seq(Events) /\ Len(r) \in 0 .. Len(d)
    BY AttachedServed
  <2>2. \A i \in 1 .. Len(r) : d[i] = r[i] BY DEF AllServed, ServedNow, Served
  <2> HIDE DEF d, r
  <2>3. Len(r) \in Nat /\ \A i \in 1 .. Len(r) : d[i] \in Events BY <2>1, <2>2
  <2>4. /\ front \in Seq(Events)
        /\ Len(front) = IF 1 <= Len(r) THEN Len(r) - 1 + 1 ELSE 0
        /\ \A i \in 1 .. Len(r) - 1 + 1 : front[i] = d[1 + i - 1]
    BY <2>3, SubSeqProperties
  <2> HIDE DEF front
  <2>5. Len(front) = Len(r) BY <2>3, <2>4
  <2>6. \A i \in 1 .. Len(front) : front[i] = r[i]
    <3> TAKE i \in 1 .. Len(front)
    <3>1. i \in 1 .. Len(r) /\ i \in 1 .. Len(r) - 1 + 1 /\ 1 + i - 1 = i BY <2>3, <2>5
    <3> QED BY <2>2, <2>4, <3>1
  <2>7. front = r BY <2>1, <2>4, <2>5, <2>6, SeqEqual
  <2>8. \A i, j \in DOMAIN Live(s) : i < j => Live(s)[i].ts < Live(s)[j].ts
    <3>1. Live(s) \in Seq(Events) /\ Rises(Live(s), 1) BY AttachedServed
    <3> DEFINE live == Live(s)
    <3> HIDE DEF live
    <3>2. DOMAIN live = 1 .. Len(live) BY <3>1 DEF live
    <3> QED BY <3>1, <3>2 DEF live, Rises
  <2> QED BY <2>7, <2>8 DEF d, r, front
<1> QED BY Invariant, DeliveryInvariant, <1>1, PTL

\* Of every event broadcast while a client is connected, and that its filter
\* accepts, one of three things is so, and once: it was delivered, it is still
\* to be sent, or it was skipped after the retry.
THEOREM AlwaysExactlyOnce == Spec => []ExactlyOnce
<1>1. Inv /\ DeliveryInv => ExactlyOnce
  <2> SUFFICES ASSUME Inv, AllServed, NEW s \in Attached
               PROVE  LET live == Range(Live(s))
                          lost == Range(dropped[s])
                      IN  /\ live \cup lost \cup InFlight(s) = Wanted(s)
                          /\ live \cap lost = {} /\ InFlight(s) \cap (live \cup lost) = {}
                          /\ Len(Live(s)) + Len(dropped[s]) = Cardinality(live \cup lost)
    BY DEF DeliveryInv, ExactlyOnce, Wanted
  <2> DEFINE live == Range(Live(s))
             lost == Range(dropped[s])
  <2>1. /\ Live(s) \in Seq(Events) /\ dropped[s] \in Seq(Events)
        /\ Rises(Live(s), 1) /\ Rises(dropped[s], 1)
        /\ live = From(Live(s), 1) /\ lost = From(dropped[s], 1)
        /\ live = From(Delivered(s), Len(replayed[s]) + 1)
    BY AttachedServed
  <2>2. /\ live \cup lost \cup InFlight(s) = Wanted(s)
        /\ live \cap lost = {} /\ InFlight(s) \cap (live \cup lost) = {}
    BY <2>1 DEF AllServed, ServedNow, Served
  <2>3. /\ IsFiniteSet(live) /\ Cardinality(live) = Len(Live(s))
        /\ IsFiniteSet(lost) /\ Cardinality(lost) = Len(dropped[s])
    BY <2>1, NothingTwice
  <2> HIDE DEF live, lost
  <2>4. Cardinality(live \cup lost) = Cardinality(live) + Cardinality(lost) - 0
    <3>1. Cardinality(live \cap lost) = 0 BY <2>2, FS_EmptySet
    <3>2. Cardinality(live \cup lost)
            = Cardinality(live) + Cardinality(lost) - Cardinality(live \cap lost)
      BY <2>3, FS_Union
    <3> QED BY <3>1, <3>2
  <2>5. Len(Live(s)) \in Nat /\ Len(dropped[s]) \in Nat BY <2>1
  <2>6. Len(Live(s)) + Len(dropped[s]) = Cardinality(live \cup lost) BY <2>3, <2>4, <2>5
  <2> QED BY <2>2, <2>6 DEF live, lost
<1> QED BY Invariant, DeliveryInvariant, <1>1, PTL

\* A client that searches for nothing and was skipped for nothing is not behind
\* one that joins now: the replay, an event that entered the ring while it was
\* being replayed or after, and the channel that may overflow between them leave
\* no gap.
THEOREM JoinersNeverKnowMore == Spec => []JoinersKnowNoMore
<1>1. Init => RingKnown
  BY DEF Init, RingKnown, RingKnownTo
<1>2. Inv /\ DeliveryInv /\ RingKnown /\ [Next]_vars => RingKnown'
  BY RingKnownStep DEF DeliveryInv
<1>3. Inv /\ DeliveryInv /\ RingKnown => JoinersKnowNoMore
  <2> SUFFICES ASSUME Inv, DeliveryInv, RingKnown, mutex = Nobody, NEW s \in Attached,
                      filter[s] = NoFilter, dropped[s] = << >>
               PROVE  Range(Replay) \subseteq Range(Delivered(s))
    BY DEF JoinersKnowNoMore
  <2>1. AllServed /\ s \in Subs
    BY DEF DeliveryInv, Attached, Inv, Typed, TypeOK
  <2>2. InFlight(s) = {} /\ hpc[s] \in {"select", "write"}
    <3>1. bpc # "send" /\ hpc[s] # "subscribe"
      BY <2>1, BroadcasterAssumption DEF Inv, LockHeld
    <3>2. todo = {} /\ Range(blocked) = {} BY <3>1 DEF Inv, MembersKnown, Range
    <3> QED BY <3>1, <3>2 DEF InFlight, Attached
  <2>3. /\ Delivered(s) \in Seq(Events) /\ replayed[s] \in Seq(Events)
        /\ Len(replayed[s]) \in 0 .. Len(Delivered(s))
    BY <2>1, AttachedServed
  <2>4. Served(Delivered(s), replayed[s], << >>, {}, Wanted(s))
    BY <2>1, <2>2 DEF AllServed, ServedNow
  <2>5. Wanted(s) = Logged(s) BY DEF Wanted, Logged, Accepts
  <2> DEFINE d == Delivered(s)
             r == replayed[s]
  <2> HIDE DEF d, r
  <2>6. Range(r) \cup Logged(s) \subseteq Range(d)
    <3>1. /\ Len(r) \in Nat /\ Len(d) \in Nat /\ Len(r) <= Len(d)
          /\ DOMAIN r = 1 .. Len(r) /\ DOMAIN d = 1 .. Len(d)
      BY <2>3 DEF d, r
    <3>2. \A i \in 1 .. Len(r) : d[i] = r[i] /\ i \in 1 .. Len(d)
      BY <2>4, <3>1 DEF Served, d, r
    <3>3. From(<< >>, 1) = {} BY DEF From
    <3>4. Logged(s) = From(d, Len(r) + 1) BY <2>4, <2>5, <3>3 DEF Served, d, r
    <3>5. Len(r) + 1 .. Len(d) \subseteq 1 .. Len(d) BY <3>1
    <3> QED BY <3>1, <3>2, <3>4, <3>5 DEF Range, From
  <2>7. \A j \in Index : head[j].data # NoData => head[j].data \in Range(r) \cup Logged(s)
    BY <2>1, <2>2 DEF RingKnown, RingKnownTo, r
  <2>8. Range(Replay) = {head[j].data : j \in Index} \ {NoData}
    BY ReplayHolds DEF Inv, Typed, TypeOK, Range
  <2> QED BY <2>6, <2>7, <2>8 DEF d
<1> QED BY Invariant, DeliveryInvariant, <1>1, <1>2, <1>3, PTL DEF Spec

==============================================================================
