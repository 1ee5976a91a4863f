----------------------------- MODULE PageProofs -----------------------------
(***************************************************************************)
(* Proofs about the page of module Page, for every number of transactions, *)
(* events, slots of the ring, places of the queue and broken connections:  *)
(* the types, what the page of a transaction tells (CopiesTold), that a    *)
(* job is announced once (BeginsOnce) and so has a row for each connection *)
(* at most (RowsCounted), that the rows, what is under way, the ring and   *)
(* what is yet to be sent are in the order of the clock (Clocked,          *)
(* StatesGrow, Lined), and that the table shows the ring, or will when all *)
(* that is under way has come (Recorded, SearchShows, Shows).              *)
(***************************************************************************)
EXTENDS Page, EventBufferProofs, FiniteSetTheorems

------------------------------------------------------------------------------
(* What a search finds. *)

Increasing(s) == \A i, j \in DOMAIN s : i < j => s[i].ts < s[j].ts

\* The parts of an event.
LEMMA EventParts ==
  \A e \in Events : /\ e.txID \in TxIDs /\ e.ts \in 1 .. MaxEvents /\ e.ts \in Nat
                    /\ e.state \in States /\ e.state \in Int
<1>1. States \subseteq Int BY BufferAssumption DEF State, StateUnknown, StateComplete
<1>2. Timestamps = 1 .. MaxEvents /\ MaxEvents \in Nat BY PageAssumption
<1> SUFFICES ASSUME NEW e \in Events
             PROVE  /\ e.txID \in TxIDs /\ e.ts \in 1 .. MaxEvents /\ e.ts \in Nat
                    /\ e.state \in States /\ e.state \in Int
  OBVIOUS
<1>3. e.txID \in TxIDs /\ e.state \in States /\ e.ts \in Timestamps BY DEF Events
<1>4. e.ts \in 1 .. MaxEvents BY <1>2, <1>3
<1>5. e.ts \in Nat
  <2> HIDE DEF Events
  <2> QED BY <1>2, <1>4
<1>6. e.state \in Int BY <1>1, <1>3
<1> QED BY <1>3, <1>4, <1>5, <1>6

\* One more event is looked at.
More(match, s, e) == IF e.txID \in match /\ Len(s) < Limit THEN Append(s, e) ELSE s

\* What the search has found when it has looked at the last i events.
Looked(match) == CHOOSE f : f = [i \in 0 .. Len(events) |->
                                  IF i = 0 THEN << >>
                                  ELSE More(match, f[i - 1], events[Len(events) - i + 1])]

\* The recursion of the search has a solution, and Looked is one.
LEMMA SearchUnfolds ==
  ASSUME events \in Seq(Events), NEW match
  PROVE  /\ Mock!Search(match) = Looked(match)[Len(events)]
         /\ Looked(match)[0] = << >>
         /\ \A i \in 1 .. Len(events) :
              /\ Looked(match)[i - 1] \in Seq(Events)
              /\ Looked(match)[i] \in Seq(Events)
              /\ Looked(match)[i]
                   = More(match, Looked(match)[i - 1], events[Len(events) - i + 1])
<1> DEFINE n == Len(events)
           Visit(f) == [i \in 0 .. n |-> IF i = 0 THEN << >>
                                         ELSE More(match, f[i - 1], events[n - i + 1])]
           step == [i \in 1 .. n |-> [s \in Seq(Events) |-> More(match, s, events[n - i + 1])]]
<1>1. n \in Nat OBVIOUS
<1>2. Mock!Search(match) = Looked(match)[n] BY DEF Mock!Search, Looked, More
<1>3. \A i \in 1 .. n : events[n - i + 1] \in Events
  <2>1. \A i \in 1 .. n : n - i + 1 \in 1 .. Len(events) OBVIOUS
  <2> QED BY <2>1
<1>4. \A i \in 1 .. n : \A s \in Seq(Events) :
        step[i][s] = More(match, s, events[n - i + 1]) /\ step[i][s] \in Seq(Events)
  <2>1. \A e \in Events : \A s \in Seq(Events) : More(match, s, e) \in Seq(Events)
    BY DEF More
  <2> QED BY <1>3, <2>1
<1>5. PICK f \in [0 .. n -> Seq(Events)] :
        f[0] = << >> /\ \A i \in 1 .. n : f[i] = step[i][f[i - 1]]
  <2> DEFINE S == Seq(Events)
             a == << >>
  <2>1. n \in Nat /\ a \in S /\ IsStep(step, n, S) BY <1>4 DEF IsStep
  <2> HIDE DEF step, S, a, n
  <2>2. PICK f : Recurs(f, a, step, n, S) BY <2>1, RecursionTo
  <2> QED BY <2>2 DEF Recurs, S, a
<1> HIDE DEF n
<1>6. f = Visit(f)
  <2>1. ASSUME NEW i \in 1 .. n PROVE f[i] = More(match, f[i - 1], events[n - i + 1])
    <3>1. f[i - 1] \in Seq(Events) BY <1>1
    <3> QED BY <1>4, <1>5, <3>1
  <2>2. \A i \in 0 .. n : i = 0 \/ i \in 1 .. n BY <1>1
  <2>3. \A i \in 0 .. n : f[i] = IF i = 0 THEN << >> ELSE More(match, f[i - 1], events[n - i + 1])
    BY <1>1, <1>5, <2>1, <2>2
  <2> QED BY <2>3
<1> DEFINE u == Looked(match)
<1>7. u = CHOOSE g : g = Visit(g) BY DEF Looked, n
<1> HIDE DEF Visit, u
<1>8. u = Visit(u) BY <1>6, <1>7
<1>9. u[0] = << >> BY <1>1, <1>8 DEF Visit
<1>10. \A i \in 1 .. n : u[i] = More(match, u[i - 1], events[n - i + 1])
  <2>1. \A i \in 0 .. n : u[i] = IF i = 0 THEN << >> ELSE More(match, u[i - 1], events[n - i + 1])
    BY <1>8, Zenon DEF Visit
  <2>2. \A i \in 1 .. n : i \in 0 .. n /\ i # 0 BY <1>1
  <2> QED BY <2>1, <2>2
<1> DEFINE D == {i \in 0 .. n : u[i] \in Seq(Events)}
<1>11. 0 \in D
  <2>1. u[0] \in Seq(Events) BY <1>9
  <2> QED BY <1>1, <2>1
<1>12. ASSUME NEW i \in 0 .. n - 1, i \in D PROVE i + 1 \in D
  <2>1. i + 1 \in 1 .. n /\ (i + 1) - 1 = i /\ i + 1 \in 0 .. n BY <1>1
  <2>2. u[i] \in Seq(Events) BY <1>12
  <2>3. u[i + 1] = More(match, u[i], events[n - (i + 1) + 1]) BY <1>10, <2>1
  <2>4. u[i + 1] \in Seq(Events) BY <1>3, <2>1, <2>2, <2>3 DEF More
  <2> QED BY <2>1, <2>4
<1>13. \A i \in 0 .. n : i \in D
  <2>1. \A i \in 0 .. n - 1 : i \in D => i + 1 \in D BY <1>12
  <2> HIDE DEF D
  <2> QED BY <1>1, <1>11, <2>1, InductionTo
<1>14. \A i \in 1 .. n : i - 1 \in 0 .. n /\ i \in 0 .. n BY <1>1
<1>15. \A i \in 1 .. n : u[i - 1] \in Seq(Events) /\ u[i] \in Seq(Events) BY <1>13, <1>14
<1> QED BY <1>2, <1>9, <1>10, <1>15 DEF n, u

\* What is found are events of the store that match.
LEMMA SearchMember ==
  ASSUME events \in Seq(Events), NEW match
  PROVE  LET found == Mock!Search(match) IN
           /\ found \in Seq(Events)
           /\ \A k \in DOMAIN found : found[k].txID \in match /\ found[k] \in ToSet(events)
<1> DEFINE n == Len(events)
           u == Looked(match)
           Matches(s) == s \in Seq(Events) /\ \A k \in DOMAIN s : /\ s[k].txID \in match
                                                                 /\ s[k] \in ToSet(events)
           D == {i \in 0 .. n : Matches(u[i])}
<1>1. n \in Nat OBVIOUS
<1>2. \A i \in 1 .. n : events[n - i + 1] \in ToSet(events) /\ events[n - i + 1] \in Events
  <2>1. \A i \in 1 .. n : n - i + 1 \in DOMAIN events OBVIOUS
  <2> QED BY <2>1 DEF ToSet
<1>3. 0 \in D
  <2>1. u[0] = << >> BY SearchUnfolds
  <2>2. Matches(<< >>) OBVIOUS
  <2> HIDE DEF Matches, u, n
  <2> QED BY <1>1, <2>1, <2>2
<1>4. ASSUME NEW i \in 0 .. n - 1, i \in D PROVE i + 1 \in D
  <2> DEFINE s == u[i]
             e == events[n - i]
  <2>1. i + 1 \in 1 .. n /\ i + 1 \in 0 .. n /\ (i + 1) - 1 = i /\ n - (i + 1) + 1 = n - i
    BY <1>1
  <2>2. u[i + 1] = More(match, s, e) BY <2>1, SearchUnfolds
  <2>3. Matches(s) BY <1>4
  <2>4. e \in ToSet(events) /\ e \in Events BY <1>2, <2>1
  <2> HIDE DEF u, s, e, n
  <2>5. e.txID \in match => Matches(Append(s, e))
    <3>1. s \in Seq(Events) /\ DOMAIN s = 1 .. Len(s) /\ Len(s) \in Nat BY <2>3
    <3>2. /\ Append(s, e) \in Seq(Events) /\ DOMAIN Append(s, e) = (1 .. Len(s)) \cup {Len(s) + 1}
          /\ Append(s, e)[Len(s) + 1] = e /\ \A k \in 1 .. Len(s) : Append(s, e)[k] = s[k]
      BY <2>4, <3>1
    <3> QED BY <2>3, <2>4, <3>1, <3>2
  <2> HIDE DEF Matches
  <2>6. Matches(u[i + 1]) BY <2>2, <2>3, <2>5 DEF More
  <2> QED BY <2>1, <2>6
<1>5. \A i \in 0 .. n : i \in D
  <2>1. \A i \in 0 .. n - 1 : i \in D => i + 1 \in D BY <1>4
  <2> HIDE DEF D
  <2> QED BY <1>1, <1>3, <2>1, InductionTo
<1>6. n \in 0 .. n BY <1>1
<1>7. Matches(u[n])
  <2> HIDE DEF Matches, u, n
  <2> QED BY <1>5, <1>6
<1>8. u[n] = Mock!Search(match) BY SearchUnfolds
<1> HIDE DEF u, n
<1> QED BY <1>7, <1>8

\* What is found are events that match, the newest first; what matches and is
\* not found is older than all of it.
LEMMA SearchFinds ==
  ASSUME events \in Seq(Events), NEW match, Increasing(events)
  PROVE  LET found == Mock!Search(match) IN
           /\ found \in Seq(Events)
           /\ \A k \in DOMAIN found : found[k].txID \in match /\ found[k] \in ToSet(events)
           /\ \A k, l \in DOMAIN found : k < l => found[l].ts < found[k].ts
           /\ \A e \in ToSet(events) : e.txID \in match =>
                \/ \E k \in DOMAIN found : found[k] = e
                \/ \A k \in DOMAIN found : e.ts < found[k].ts
<1> DEFINE n == Len(events)
           u == Looked(match)
           \* The position of an event among those looked at.
           InTime(s, i) ==
             /\ s \in Seq(Events)
             /\ \A k \in DOMAIN s : /\ s[k].txID \in match
                                    /\ \E j \in n - i + 1 .. n : s[k] = events[j]
             /\ \A k, l \in DOMAIN s : k < l => s[l].ts < s[k].ts
             /\ \A j \in n - i + 1 .. n : events[j].txID \in match =>
                  \/ \E k \in DOMAIN s : s[k] = events[j]
                  \/ Len(s) >= Limit /\ \A k \in DOMAIN s : events[j].ts < s[k].ts
           D == {i \in 0 .. n : InTime(u[i], i)}
<1>1. n \in Nat /\ \A j \in 1 .. n : events[j] \in Events /\ events[j].ts \in Nat
  BY EventParts
<1>2. \A i, j \in 1 .. n : i < j => events[i].ts < events[j].ts BY DEF Increasing
<1>3. 0 \in D
  <2>1. u[0] = << >> BY SearchUnfolds
  <2>2. InTime(<< >>, 0) BY <1>1
  <2> HIDE DEF InTime, u, n
  <2> QED BY <1>1, <2>1, <2>2
<1>4. ASSUME NEW i \in 0 .. n - 1, i \in D PROVE i + 1 \in D
  <2> DEFINE s == u[i]
             r == u[i + 1]
             m == n - i
             e == events[m]
  <2>1. /\ i + 1 \in 1 .. n /\ i + 1 \in 0 .. n /\ (i + 1) - 1 = i /\ n - (i + 1) + 1 = m
        /\ m \in 1 .. n
    BY <1>1
  <2>2. r = More(match, s, e) BY <2>1, SearchUnfolds
  <2>3. InTime(s, i) BY <1>4
  <2> HIDE DEF u, D, n
  <2>4. /\ s \in Seq(Events) /\ e \in Events /\ e.ts \in Nat
        /\ \A k \in DOMAIN s : s[k].ts \in Nat
    BY <1>1, <2>1, <2>3, EventParts DEF e, s
  <2>5. \A k \in DOMAIN s : e.ts < s[k].ts
    <3> SUFFICES ASSUME NEW k \in DOMAIN s PROVE e.ts < s[k].ts
      OBVIOUS
    <3>1. PICK j \in n - i + 1 .. n : s[k] = events[j] BY <2>3
    <3>2. j \in 1 .. n /\ m < j BY <1>1, <2>1
    <3> QED BY <1>2, <2>1, <3>1, <3>2
  <2>6. n - (i + 1) + 1 .. n = (n - i + 1 .. n) \cup {m} BY <1>1, <2>1
  <2> HIDE DEF s, r, e
  <2>7. CASE r = s /\ ~(e.txID \in match /\ Len(s) < Limit)
    <3>1. e.txID \in match => Len(r) >= Limit /\ \A k \in DOMAIN r : e.ts < r[k].ts
      BY <2>4, <2>5, <2>7, PageAssumption
    <3>2. InTime(r, i + 1) BY <2>3, <2>6, <2>7, <3>1 DEF e
    <3> QED BY <2>1, <3>2 DEF D, r
  <2>8. CASE r = Append(s, e) /\ e.txID \in match /\ Len(s) < Limit
    <3>1. /\ r \in Seq(Events) /\ Len(r) = Len(s) + 1 /\ DOMAIN r = 1 .. Len(s) + 1
          /\ r[Len(s) + 1] = e /\ \A k \in 1 .. Len(s) : r[k] = s[k]
          /\ Len(s) \in Nat /\ DOMAIN s = 1 .. Len(s)
      BY <2>4, <2>8
    <3>2. \A k \in DOMAIN r : /\ r[k].txID \in match
                              /\ \E j \in n - (i + 1) + 1 .. n : r[k] = events[j]
      <4>1. \A k \in 1 .. Len(s) : /\ r[k].txID \in match
                                   /\ \E j \in n - i + 1 .. n : r[k] = events[j]
        BY <2>3, <3>1
      <4>2. /\ r[Len(s) + 1].txID \in match
            /\ \E j \in n - (i + 1) + 1 .. n : r[Len(s) + 1] = events[j]
        BY <2>6, <2>8, <3>1 DEF e
      <4> QED BY <2>6, <3>1, <4>1, <4>2
    <3>3. \A k, l \in DOMAIN r : k < l => r[l].ts < r[k].ts
      BY <2>3, <2>5, <3>1
    <3>4. ASSUME NEW j \in n - (i + 1) + 1 .. n, events[j].txID \in match
          PROVE  \E k \in DOMAIN r : r[k] = events[j]
      <4>1. CASE j = m BY <3>1, <4>1 DEF e
      <4>2. CASE j # m
        <5>1. j \in n - i + 1 .. n BY <2>6, <4>2
        <5>2. ~(Len(s) >= Limit) BY <2>8, <3>1, PageAssumption
        <5>3. PICK k \in DOMAIN s : s[k] = events[j] BY <2>3, <3>4, <5>1, <5>2
        <5> QED BY <3>1, <5>3
      <4> QED BY <4>1, <4>2
    <3>5. InTime(r, i + 1) BY <3>1, <3>2, <3>3, <3>4
    <3> QED BY <2>1, <3>5 DEF D, r
  <2> QED BY <2>2, <2>7, <2>8 DEF More
<1>5. \A i \in 0 .. n : i \in D
  <2>1. \A i \in 0 .. n - 1 : i \in D => i + 1 \in D BY <1>4
  <2> HIDE DEF D
  <2> QED BY <1>1, <1>3, <2>1, InductionTo
<1>6. InTime(u[n], n) /\ u[n] = Mock!Search(match)
  <2>1. n \in 0 .. n BY <1>1
  <2>2. InTime(u[n], n)
    <3> HIDE DEF InTime, u, n
    <3> QED BY <1>5, <2>1
  <2> QED BY <2>2, SearchUnfolds
<1>7. n - n + 1 .. n = 1 .. n /\ ToSet(events) = {events[j] : j \in 1 .. n}
  BY <1>1 DEF ToSet
<1> DEFINE found == Mock!Search(match)
<1> HIDE DEF u, n, D
<1>8. InTime(found, n) BY <1>6
<1> HIDE DEF found
<1>9. \A k \in DOMAIN found : found[k].txID \in match /\ found[k] \in ToSet(events)
  <2>1. \A k \in DOMAIN found : found[k].txID \in match /\ \E j \in 1 .. n : found[k] = events[j]
    BY <1>7, <1>8
  <2> QED BY <1>7, <2>1
<1>10. \A e \in ToSet(events) : e.txID \in match =>
         (\E k \in DOMAIN found : found[k] = e) \/ (\A k \in DOMAIN found : e.ts < found[k].ts)
  <2>1. \A j \in 1 .. n : events[j].txID \in match =>
          \/ \E k \in DOMAIN found : found[k] = events[j]
          \/ \A k \in DOMAIN found : events[j].ts < found[k].ts
    BY <1>7, <1>8
  <2> HIDE DEF InTime
  <2> QED BY <1>7, <2>1
<1> QED BY <1>8, <1>9, <1>10 DEF found

------------------------------------------------------------------------------
(* The types. *)

\* Run of the mock store has an event in hand.
InHand == pc \in {"record", "send"}

\* The types of what TypeOK leaves out, and what the jobs of the mock store
\* have to do with their pages.
StoreTyped ==
  /\ eventQueue \in [Slots -> Events \cup {Mock!NoJob}]
  /\ InHand => made \in Events
  /\ DOMAIN eventMap \subseteq used
  /\ \A t \in DOMAIN eventMap : eventMap[t].log \in Seq(Events)
  /\ \A i \in Slots : eventQueue[i] \in Events => eventQueue[i].txID \in DOMAIN eventMap
  /\ InHand => made.txID \in DOMAIN eventMap
  /\ store = "pg" => pc = "next"

Queries == [match : SUBSET TxIDs, since : 0 .. MaxEvents]

\* What is under way to the table, and how often it can have been connected.
TableTyped ==
  /\ query \in Queries \cup {NoQuery}
  /\ store = "pg" => query = NoQuery
  /\ \A i \in DOMAIN ch : ch[i].name \in {EventTXRow, ch[i].row.id}
  /\ conn # "open" => ch = << >>
  /\ connects <= (IF conn = "open" THEN breaks + 1 ELSE breaks)
  /\ conn = "open" => connects > 0

PageTyped == TypeOK /\ BufferInv /\ StoreTyped /\ TableTyped

\* The types of rows and messages.
LEMMA RowTyped ==
  \A e \in Events : /\ Row(e) \in Rows /\ WriteEvent(e) \in Message
                    /\ Renamed(WriteEvent(e)) \in Message
                    /\ WriteEvent(e).row = Row(e) /\ Renamed(WriteEvent(e)).row = Row(e)
                    /\ Renamed(WriteEvent(e)).name = EventTXRow
                    /\ WriteEvent(e).name \in {EventTXRow, e.txID}
                    /\ Row(e).id = e.txID
<1> SUFFICES ASSUME NEW e \in Events
             PROVE  /\ Row(e) \in Rows /\ WriteEvent(e) \in Message
                    /\ Renamed(WriteEvent(e)) \in Message
                    /\ WriteEvent(e).row = Row(e) /\ Renamed(WriteEvent(e)).row = Row(e)
                    /\ Renamed(WriteEvent(e)).name = EventTXRow
                    /\ WriteEvent(e).name \in {EventTXRow, e.txID}
                    /\ Row(e).id = e.txID
  OBVIOUS
<1>1. Row(e) \in Rows /\ Row(e).id = e.txID BY DEF Rows, Row
<1>2. EventName(e) \in TxIDs \cup {EventTXRow} /\ EventName(e) \in {EventTXRow, e.txID}
  BY EventParts DEF EventName
<1> QED BY <1>1, <1>2 DEF WriteEvent, Renamed, Message

\* The first page has the types.
LEMMA TypedInit == Init => PageTyped
<1> SUFFICES ASSUME Init PROVE PageTyped
  OBVIOUS
<1> USE DEF Init, Mock!New
<1>1. BufferInv BY InitInv
<1>2. TypeOK
  <2>1. BufferTypeOK BY <1>1 DEF BufferInv
  <2>2. MaxBreaks \in Nat /\ MaxEvents \in Nat BY PageAssumption
  <2> QED BY <2>1, <2>2 DEF TypeOK
<1>3. StoreTyped
  <2>1. Mock!NoJob \notin Events BY EventParts, BufferAssumption DEF Mock!NoJob
  <2> QED BY <2>1 DEF StoreTyped, InHand
<1>4. TableTyped BY DEF TableTyped
<1> QED BY <1>1, <1>2, <1>3, <1>4 DEF PageTyped

\* What nextEvent does for slot i, in terms of the event it makes.
NextEventMade(i) ==
  /\ pc = "next" /\ clock < MaxEvents
  /\ made' \in Events /\ made'.ts = clock + 1
  /\ eventQueue' = [eventQueue EXCEPT ![i] = made']
  /\ DOMAIN eventMap' = DOMAIN eventMap \cup {made'.txID}
  /\ \A t \in DOMAIN eventMap \ {made'.txID} : eventMap'[t] = eventMap[t]
  /\ made'.state = StateSubmitted => /\ made'.txID \notin used
                                    /\ eventMap'[made'.txID].log = << made' >>
  /\ made'.state # StateSubmitted =>
       /\ eventQueue[i] \in Events /\ eventQueue[i].state <= made'.state
       /\ made'.txID = eventQueue[i].txID /\ made'.txID \in DOMAIN eventMap
       /\ eventMap'[made'.txID].log = Append(eventMap[made'.txID].log, made')
  /\ clock' = clock + 1 /\ used' = used \cup {made'.txID} /\ pc' = "record"
  /\ UNCHANGED <<events, eventsCh, done>>

\* A job begins with a hash of its own, and goes through its states in order.
LEMMA NextEventMakes ==
  ASSUME TypeOK, StoreTyped, NEW i \in Slots, Mock!NextEvent(i)
  PROVE  NextEventMade(i)
<1> DEFINE old == eventQueue[i]
<1>1. PICK s \in Mock!Successors(old.state) :
        \E t \in IF s = StateSubmitted THEN TxIDs \ used ELSE {old.txID} :
          /\ made' = [txID |-> t, state |-> s, ts |-> clock + 1]
          /\ eventQueue' = [eventQueue EXCEPT ![i] = made']
          /\ eventMap' = [u \in DOMAIN eventMap \cup {t} |->
                            IF u = t THEN Mock!PageAfter(made') ELSE eventMap[u]]
  BY DEF Mock!NextEvent, StateSubmitted, Mock!StateSubmitted
<1>2. PICK t \in IF s = StateSubmitted THEN TxIDs \ used ELSE {old.txID} :
        /\ made' = [txID |-> t, state |-> s, ts |-> clock + 1]
        /\ eventQueue' = [eventQueue EXCEPT ![i] = made']
        /\ eventMap' = [u \in DOMAIN eventMap \cup {t} |->
                          IF u = t THEN Mock!PageAfter(made') ELSE eventMap[u]]
  BY <1>1
<1>3. /\ pc = "next" /\ clock < MaxEvents /\ clock' = clock + 1 /\ pc' = "record"
      /\ used' = used \cup {made'.txID} /\ UNCHANGED <<events, eventsCh, done>>
      /\ clock \in Nat /\ MaxEvents \in Nat
  BY PageAssumption DEF Mock!NextEvent, TypeOK
<1>4. old \in Events \cup {Mock!NoJob} BY DEF StoreTyped
<1>5. s # StateSubmitted => old \in Events /\ old.state <= s
  BY <1>4 DEF Mock!NoJob, Mock!StateUnknown, Mock!Successors, Mock!StateSubmitted,
     Mock!StateProving, Mock!StateVerifying, Mock!StateComplete, StateSubmitted
<1>6. t \in TxIDs /\ s \in States
  <2>1. s = StateSubmitted => t \in TxIDs BY <1>2
  <2>2. s # StateSubmitted => t = old.txID BY <1>2
  <2>3. t \in TxIDs BY <1>5, <2>1, <2>2, EventParts
  <2>4. s \in {StateSubmitted, StateProving, StateVerifying, StateComplete}
    BY <1>1 DEF Mock!Successors, Mock!StateSubmitted, Mock!StateProving, Mock!StateVerifying,
       Mock!StateComplete, StateSubmitted, StateProving, StateVerifying, StateComplete
  <2>5. s \in States BY <2>4, PageAssumption
  <2> QED BY <2>3, <2>5
<1>7. made' \in Events
  <2>1. clock + 1 \in Timestamps BY <1>3, PageAssumption
  <2> QED BY <1>2, <1>6, <2>1 DEF Events
<1>8. s # StateSubmitted => t \in DOMAIN eventMap /\ t = old.txID
  BY <1>2, <1>5 DEF StoreTyped
<1>9. eventMap'[t] = Mock!PageAfter(made') BY <1>2
<1>10. s = StateSubmitted => t \notin used /\ eventMap'[t].log = << made' >>
  BY <1>2, <1>9 DEF Mock!PageAfter, Mock!StateSubmitted, StateSubmitted
<1>11. ASSUME s # StateSubmitted PROVE eventMap'[t].log = Append(eventMap[t].log, made')
  <2>1. eventMap'[t].log = eventMap[t].log \o << made' >>
    BY <1>2, <1>9, <1>11 DEF Mock!PageAfter, Mock!Logged, Mock!StateSubmitted, StateSubmitted
  <2>2. eventMap[t].log \in Seq(Events) BY <1>8, <1>11 DEF StoreTyped
  <2> QED BY <1>7, <2>1, <2>2
<1>12. made'.txID = t /\ made'.state = s /\ made'.ts = clock + 1 BY <1>2
<1>13. /\ DOMAIN eventMap' = DOMAIN eventMap \cup {t}
       /\ \A u \in DOMAIN eventMap \ {t} : eventMap'[u] = eventMap[u]
  BY <1>2
<1> QED BY <1>2, <1>3, <1>5, <1>7, <1>8, <1>10, <1>11, <1>12, <1>13 DEF NextEventMade

\* A step of the mock store keeps them.
LEMMA TypedStore ==
  ASSUME PageTyped, StoreRuns
  PROVE  PageTyped'
<1> USE DEF mockVars, pageVars, Mock!jobVars
<1>1. /\ UNCHANGED <<bufferVars, store, view, rows, query, conn, ch, connects, lost, breaks>>
      /\ store = "mock"
  BY DEF StoreRuns
<1>2. BufferInv' BY <1>1, StutterInv DEF PageTyped
<1>3. TableTyped' BY <1>1 DEF PageTyped, TableTyped, Queries
<1>4. TypeOK' /\ StoreTyped'
  <2>1. /\ events \in Seq(Events) /\ eventsCh \in Seq(Events)
        /\ pc \in {"next", "record", "send", "stopped"}
        /\ clock \in 0 .. MaxEvents /\ used \subseteq TxIDs
    BY DEF PageTyped, TypeOK
  <2>2. StoreTyped BY DEF PageTyped
  <2>3. SUFFICES /\ events' \in Seq(Events) /\ eventsCh' \in Seq(Events)
                 /\ pc' \in {"next", "record", "send", "stopped"}
                 /\ clock' \in 0 .. MaxEvents /\ used' \subseteq TxIDs
                 /\ StoreTyped'
    BY <1>1, <1>2 DEF PageTyped, TypeOK, BufferInv, Rows, Message
  <2>4. ASSUME NEW i \in Slots, Mock!NextEvent(i)
        PROVE  /\ events' \in Seq(Events) /\ eventsCh' \in Seq(Events)
               /\ pc' \in {"next", "record", "send", "stopped"}
               /\ clock' \in 0 .. MaxEvents /\ used' \subseteq TxIDs
               /\ StoreTyped'
    <3>1. NextEventMade(i) BY <2>4, NextEventMakes DEF PageTyped
    <3>2. eventQueue' \in [Slots -> Events \cup {Mock!NoJob}]
      BY <2>2, <3>1 DEF NextEventMade, StoreTyped
    <3>3. \A t \in DOMAIN eventMap' : eventMap'[t].log \in Seq(Events)
      <4>1. \A t \in DOMAIN eventMap : eventMap[t].log \in Seq(Events) BY <2>2 DEF StoreTyped
      <4>2. << made' >> \in Seq(Events) BY <3>1 DEF NextEventMade
      <4>3. CASE made'.state = StateSubmitted BY <3>1, <4>1, <4>2, <4>3 DEF NextEventMade
      <4>4. CASE made'.state # StateSubmitted
        <5>1. /\ eventMap'[made'.txID].log = Append(eventMap[made'.txID].log, made')
              /\ eventMap[made'.txID].log \in Seq(Events) /\ made' \in Events
          BY <3>1, <4>1, <4>4 DEF NextEventMade
        <5>2. eventMap'[made'.txID].log \in Seq(Events) BY <5>1
        <5> QED BY <3>1, <4>1, <5>2 DEF NextEventMade
      <4> QED BY <4>3, <4>4
    <3>4. \A j \in Slots : eventQueue'[j] \in Events => eventQueue'[j].txID \in DOMAIN eventMap'
      BY <2>2, <3>1 DEF NextEventMade, StoreTyped
    <3>5. StoreTyped' BY <1>1, <2>2, <3>1, <3>2, <3>3, <3>4 DEF NextEventMade, StoreTyped, InHand
    <3> QED BY <2>1, <3>1, <3>5, PageAssumption DEF NextEventMade, Events
  <2>5. CASE Mock!Record
    BY <1>1, <2>1, <2>2, <2>5 DEF Mock!Record, StoreTyped, InHand
  <2>6. CASE Mock!Send
    BY <1>1, <2>1, <2>2, <2>6 DEF Mock!Send, StoreTyped, InHand
  <2>7. CASE Mock!SeeDone
    BY <1>1, <2>1, <2>2, <2>7 DEF Mock!SeeDone, StoreTyped, InHand
  <2>8. CASE Mock!Stop
    BY <1>1, <2>1, <2>2, <2>8 DEF Mock!Stop, StoreTyped, InHand
  <2> QED BY <2>4, <2>5, <2>6, <2>7, <2>8 DEF StoreRuns, Mock!Run
<1> QED BY <1>2, <1>3, <1>4 DEF PageTyped

\* The rows of the messages under way.
LEMMA MessagesTyped ==
  ASSUME ch \in Seq(Message)
  PROVE  \A i \in DOMAIN ch : ch[i] \in Message /\ ch[i].row \in Rows
<1>1. \A message \in Message : message.row \in Rows BY DEF Message
<1>2. \A i \in DOMAIN ch : ch[i] \in Message OBVIOUS
<1> QED BY <1>1, <1>2

\* What is replayed are messages that insert the rows of the ring.
LEMMA PrefilledTyped ==
  ASSUME BufferTypeOK
  PROVE  /\ Prefilled \in Seq(Message) /\ DOMAIN Prefilled = DOMAIN Replay
         /\ \A i \in DOMAIN Replay : /\ Replay[i] \in Events
                                     /\ Prefilled[i].name = EventTXRow
                                     /\ Prefilled[i].row = Row(Replay[i])
<1>1. Replay \in Seq(Events) BY ReplayHolds
<1>2. DOMAIN Replay = 1 .. Len(Replay) /\ Len(Replay) \in Nat
      /\ \A i \in DOMAIN Replay : Replay[i] \in Events
  BY <1>1
<1>3. Prefilled = [i \in 1 .. Len(Replay) |-> Renamed(WriteEvent(Replay[i]))]
  BY <1>2 DEF Prefilled
<1>4. \A i \in 1 .. Len(Replay) : Prefilled[i] \in Message BY <1>2, <1>3, RowTyped
<1> HIDE DEF Prefilled
<1>5. Prefilled \in Seq(Message) BY <1>2, <1>3, <1>4
<1> QED BY <1>2, <1>3, <1>5, RowTyped

\* A time to the second is no later.
LEMMA SecondTyped ==
  \A ts \in Nat : Second(ts) \in 0 .. ts
<1> SUFFICES ASSUME NEW ts \in Nat PROVE Second(ts) \in 0 .. ts
  OBVIOUS
<1> DEFINE q == ts \div PerSecond
<1>1. PerSecond \in Nat \ {0} BY PageAssumption
<1>2. q \in Nat /\ PerSecond * q <= ts BY <1>1, DivisionBounds
<1> HIDE DEF q
<1>3. q * PerSecond \in 0 .. ts BY <1>1, <1>2
<1> QED BY <1>3 DEF Second, q

\* A table of events has the types.
LEMMA TypedTable ==
  ASSUME PageTyped, NEW found \in Seq(Events), NEW q \in Queries \cup {NoQuery},
         NewTable(found, q), store = "pg" => q = NoQuery
  PROVE  PageTyped'
<1>1. /\ UNCHANGED <<bufferVars, store, mockVars, eventsCh, breaks>>
      /\ rows' = [i \in DOMAIN found |-> Row(found[i])] /\ query' = q /\ view' = "table"
      /\ conn' = "none" /\ ch' = << >> /\ connects' = 0 /\ lost' = {}
  BY DEF NewTable
<1>2. BufferInv' BY <1>1, StutterInv DEF PageTyped
<1>3. StoreTyped' BY <1>1 DEF PageTyped, StoreTyped, InHand, mockVars
<1>4. breaks \in 0 .. MaxBreaks /\ MaxBreaks \in Nat /\ MaxEvents \in Nat
  BY PageAssumption DEF PageTyped, TypeOK
<1>5. TableTyped' BY <1>1, <1>4 DEF TableTyped, Queries
<1>6. rows' \in Seq(Rows)
  <2>1. /\ DOMAIN found = 1 .. Len(found) /\ Len(found) \in Nat
        /\ \A i \in DOMAIN found : found[i] \in Events
    OBVIOUS
  <2>2. \A i \in DOMAIN found : Row(found[i]) \in Rows BY <2>1, RowTyped
  <2> QED BY <1>1, <2>1, <2>2
<1>7. TypeOK'
  BY <1>1, <1>2, <1>4, <1>6 DEF PageTyped, TypeOK, BufferInv, mockVars, Queries, Rows, Message
<1> QED BY <1>2, <1>3, <1>5, <1>7 DEF PageTyped

\* The first row that a search finds says what the query of its table is.
LEMMA TypedSearch ==
  ASSUME PageTyped, NEW match \in SUBSET TxIDs
  PROVE  /\ Mock!Search(match) \in Seq(Events)
         /\ [match |-> match, since |-> IF Mock!Search(match) = << >> THEN 0
                                       ELSE Second(Mock!Search(match)[1].ts)] \in Queries
<1> DEFINE found == Mock!Search(match)
<1>1. found \in Seq(Events)
  <2>1. events \in Seq(Events) BY DEF PageTyped, TypeOK
  <2>2. Len(events) = 0 \/ Len(events) \in 1 .. Len(events) BY <2>1
  <2>3. CASE Len(events) = 0
    <3>1. found = << >> BY <2>1, <2>3, SearchUnfolds
    <3> QED BY <3>1
  <2>4. CASE Len(events) \in 1 .. Len(events) BY <2>1, <2>4, SearchUnfolds
  <2> QED BY <2>2, <2>3, <2>4
<1> HIDE DEF found
<1>2. MaxEvents \in Nat BY PageAssumption
<1>3. found # << >> => Second(found[1].ts) \in 0 .. MaxEvents
  <2> SUFFICES ASSUME found # << >> PROVE Second(found[1].ts) \in 0 .. MaxEvents
    OBVIOUS
  <2>1. found[1] \in Events BY <1>1
  <2>2. found[1].ts \in Nat /\ found[1].ts <= MaxEvents BY <1>2, <2>1, EventParts
  <2>3. Second(found[1].ts) \in 0 .. found[1].ts BY <2>2, SecondTyped
  <2> QED BY <1>2, <2>2, <2>3
<1>4. (IF found = << >> THEN 0 ELSE Second(found[1].ts)) \in 0 .. MaxEvents BY <1>2, <1>3
<1> QED BY <1>1, <1>4 DEF found, Queries

\* A broadcast keeps them.
LEMMA TypedBroadcast ==
  ASSUME PageTyped, Broadcast
  PROVE  PageTyped'
<1> DEFINE e == Head(eventsCh)
<1>1. /\ eventsCh # << >> /\ eventsCh' = Tail(eventsCh) /\ Add(e) /\ News(e)
      /\ UNCHANGED <<store, mockVars, view, rows, query, conn, breaks, connects>>
  BY DEF Broadcast
<1>2. eventsCh \in Seq(Events) /\ ch \in Seq(Message) /\ lost \subseteq TxIDs
  BY DEF PageTyped, TypeOK
<1>3. e \in Events /\ eventsCh' \in Seq(Events) BY <1>1, <1>2
<1> HIDE DEF e
<1>4. BufferInv' BY <1>1, <1>3, AddInv DEF PageTyped
<1>5. StoreTyped' BY <1>1 DEF PageTyped, StoreTyped, InHand, mockVars
<1>6. /\ ch' = ch \/ (conn = "open" /\ ch' = Append(ch, WriteEvent(e)))
      /\ lost' \subseteq lost \cup {e.txID}
  <2>1. CASE conn = "open" /\ Wanted(e) /\ ~(Len(ch) >= BufferSize + Slack)
    <3>1. /\ ch' = Append(ch, WriteEvent(e))
          /\ lost' = lost \ {e.txID} \/ lost' = lost \cup {e.txID}
      BY <1>1, <2>1 DEF News
    <3> QED BY <2>1, <3>1
  <2>2. CASE ~(conn = "open" /\ Wanted(e) /\ ~(Len(ch) >= BufferSize + Slack))
    <3>1. ch' = ch /\ (lost' = lost \/ lost' = lost \cup {e.txID})
      BY <1>1, <2>2 DEF News
    <3>2. lost' \subseteq lost \cup {e.txID} BY <3>1
    <3> QED BY <3>1, <3>2
  <2> QED BY <2>1, <2>2
<1>7. WriteEvent(e) \in Message /\ WriteEvent(e).name \in {EventTXRow, WriteEvent(e).row.id}
  BY <1>3, RowTyped
<1>8. ch' \in Seq(Message) BY <1>2, <1>6, <1>7
<1>9. TypeOK'
  <2>1. lost' \subseteq TxIDs BY <1>2, <1>3, <1>6, EventParts
  <2> QED BY <1>1, <1>3, <1>4, <1>8, <2>1 DEF PageTyped, TypeOK, BufferInv, mockVars, Rows, Message
<1>10. TableTyped'
  <2>1. \A i \in DOMAIN ch : ch[i].name \in {EventTXRow, ch[i].row.id}
    BY DEF PageTyped, TableTyped
  <2>2. \A i \in DOMAIN ch' : ch'[i].name \in {EventTXRow, ch'[i].row.id}
    <3>1. CASE ch' = ch BY <2>1, <3>1
    <3>2. CASE ch' = Append(ch, WriteEvent(e))
      <4>1. DOMAIN ch' = DOMAIN ch \cup {Len(ch) + 1} /\ ch'[Len(ch) + 1] = WriteEvent(e)
            /\ \A i \in DOMAIN ch : ch'[i] = ch[i]
        BY <1>2, <1>7, <3>2
      <4> QED BY <1>7, <2>1, <4>1
    <3> QED BY <1>6, <3>1, <3>2
  <2> QED BY <1>1, <1>6, <2>2 DEF PageTyped, TableTyped, Queries
<1> QED BY <1>4, <1>5, <1>9, <1>10 DEF PageTyped

\* What the browser does with its connection keeps them.
LEMMA TypedBrowser ==
  ASSUME PageTyped, Stream \/ Swap \/ Break
  PROVE  PageTyped'
<1>1. UNCHANGED <<bufferVars, store, mockVars, eventsCh, view, query>>
  BY DEF Stream, Swap, Break
<1>2. BufferInv' BY <1>1, StutterInv DEF PageTyped
<1>3. StoreTyped' BY <1>1 DEF PageTyped, StoreTyped, InHand, mockVars
<1>4. /\ ch \in Seq(Message) /\ rows \in Seq(Rows) /\ lost \subseteq TxIDs
      /\ breaks \in 0 .. MaxBreaks /\ connects \in 0 .. MaxBreaks + 1
      /\ conn \in {"none", "open", "broken"} /\ MaxBreaks \in Nat
  BY PageAssumption DEF PageTyped, TypeOK
<1>5. TableTyped BY DEF PageTyped
<1>6. SUFFICES /\ ch' \in Seq(Message) /\ rows' \in Seq(Rows) /\ lost' \subseteq TxIDs
               /\ breaks' \in 0 .. MaxBreaks /\ connects' \in 0 .. MaxBreaks + 1
               /\ conn' \in {"none", "open", "broken"}
               /\ \A i \in DOMAIN ch' : ch'[i].name \in {EventTXRow, ch'[i].row.id}
               /\ conn' # "open" => ch' = << >>
               /\ connects' <= (IF conn' = "open" THEN breaks' + 1 ELSE breaks')
               /\ conn' = "open" => connects' > 0
  <2>1. TypeOK' BY <1>1, <1>2, <1>6 DEF PageTyped, TypeOK, BufferInv, mockVars, Rows, Message
  <2>2. TableTyped' BY <1>1, <1>5, <1>6 DEF TableTyped, Queries
  <2> QED BY <1>2, <1>3, <2>1, <2>2 DEF PageTyped
<1>7. CASE Stream
  <2>1. BufferTypeOK BY DEF PageTyped, TypeOK
  <2>2. /\ Prefilled \in Seq(Message)
        /\ \A i \in DOMAIN Prefilled : Prefilled[i].name = EventTXRow
    BY <2>1, PrefilledTyped
  <2>3. /\ conn # "open" /\ conn' = "open" /\ connects' = connects + 1
        /\ ch' = Prefilled \/ ch' = << >>
        /\ lost' \subseteq lost /\ UNCHANGED <<rows, breaks>>
    BY <1>7 DEF Stream
  <2>4. ch' \in Seq(Message) /\ \A i \in DOMAIN ch' : ch'[i].name = EventTXRow
    <3>1. CASE ch' = Prefilled BY <2>2, <3>1
    <3>2. CASE ch' = << >> BY <3>2
    <3> QED BY <2>3, <3>1, <3>2
  <2>5. connects' <= breaks' + 1 /\ connects' > 0 /\ connects' \in 0 .. MaxBreaks + 1
    BY <1>4, <1>5, <2>3 DEF TableTyped
  <2> QED BY <1>4, <2>3, <2>4, <2>5
<1>8. CASE Swap
  <2> DEFINE message == Head(ch)
  <2>1. ch # << >> /\ ch' = Tail(ch) /\ UNCHANGED <<conn, breaks, connects, lost>>
    BY <1>8 DEF Swap
  <2>2. /\ ch' \in Seq(Message) /\ message \in Message
        /\ \A i \in DOMAIN ch' : i + 1 \in DOMAIN ch /\ ch'[i] = ch[i + 1]
    BY <1>4, <2>1
  <2>3. rows' = << message.row >> \o rows
        \/ rows' = [i \in DOMAIN rows |-> IF rows[i].swap = message.name
                                          THEN message.row ELSE rows[i]]
    BY <1>8 DEF Swap
  <2>4. message.row \in Rows BY <2>2 DEF Message
  <2> HIDE DEF message
  <2>5. rows' \in Seq(Rows)
    <3>1. rows \in Seq(Rows) /\ << message.row >> \in Seq(Rows) BY <1>4, <2>4
    <3>2. << message.row >> \o rows \in Seq(Rows) BY <3>1
    <3>3. [i \in DOMAIN rows |-> IF rows[i].swap = message.name THEN message.row ELSE rows[i]]
            \in Seq(Rows)
      BY <2>4, <3>1
    <3> QED BY <2>3, <3>2, <3>3
  <2>6. \A i \in DOMAIN ch' : ch'[i].name \in {EventTXRow, ch'[i].row.id}
    BY <1>5, <2>2 DEF TableTyped
  <2> QED BY <1>4, <1>5, <2>1, <2>2, <2>5, <2>6 DEF TableTyped
<1>9. CASE Break
  <2>1. UnderWay \subseteq TxIDs
    <3>1. \A i \in DOMAIN ch : ch[i].row \in Rows BY MessagesTyped DEF PageTyped, TypeOK
    <3>2. \A r \in Rows : r.id \in TxIDs BY RowTyped, EventParts DEF Rows
    <3> QED BY <3>1, <3>2 DEF UnderWay
  <2> QED BY <1>4, <1>5, <1>9, <2>1 DEF Break, TableTyped
<1> QED BY <1>7, <1>8, <1>9

\* A notification keeps them.
LEMMA TypedNotified ==
  ASSUME PageTyped, Notified
  PROVE  PageTyped'
<1>1. /\ store = "pg" /\ clock < MaxEvents /\ clock' = clock + 1
      /\ UNCHANGED <<bufferVars, store, eventQueue, eventMap, events, done, pc, made,
                      used, pageVars, breaks>>
  BY DEF Notified
<1>2. BufferInv' BY <1>1, StutterInv DEF PageTyped
<1>3. StoreTyped' BY <1>1 DEF PageTyped, StoreTyped, InHand
<1>4. TableTyped' BY <1>1 DEF PageTyped, TableTyped, Queries, pageVars
<1>5. clock' \in 0 .. MaxEvents /\ clock' \in Timestamps
  BY <1>1, PageAssumption DEF PageTyped, TypeOK
<1>6. eventsCh' \in Seq(Events)
  <2>1. PICK t \in TxIDs, s \in States :
          eventsCh' = Append(eventsCh, [txID |-> t, state |-> s, ts |-> clock'])
    BY DEF Notified
  <2>2. [txID |-> t, state |-> s, ts |-> clock'] \in Events BY <1>5 DEF Events
  <2> QED BY <2>1, <2>2 DEF PageTyped, TypeOK
<1>7. TypeOK'
  BY <1>1, <1>2, <1>5, <1>6 DEF PageTyped, TypeOK, BufferInv, pageVars, Rows, Message
<1> QED BY <1>2, <1>3, <1>4, <1>7 DEF PageTyped

\* The ring of a process that starts anew is well formed.
RingRenewed == NewEventBuffer => BufferInv

\* It is, by the lemma about the first ring, whatever the variables are.
LEMMA RingRenews == RingRenewed
BY InitInv DEF RingRenewed

\* A restart keeps them.
LEMMA TypedRestart ==
  ASSUME PageTyped, Restart, RingRenewed'
  PROVE  PageTyped'
<1>1. /\ breaks < MaxBreaks /\ breaks' = breaks + 1
      /\ conn' = IF conn = "open" THEN "broken" ELSE conn
      /\ ch' = << >> /\ lost' = lost \cup UnderWay
      /\ UNCHANGED <<store, view, rows, query, connects>>
  BY DEF Restart
<1>2. BufferInv'
  <2>1. NewEventBuffer' BY DEF Restart, NewEventBuffer
  <2> QED BY <2>1 DEF RingRenewed
<1>3. /\ eventQueue' = [i \in Slots |-> Mock!NoJob] /\ DOMAIN eventMap' = {}
      /\ events' = << >> /\ eventsCh' = << >> /\ pc' = "next"
      /\ UNCHANGED <<clock, used>>
  BY DEF Restart, Mock!Restart
<1>4. StoreTyped'
  <2>1. Mock!NoJob \notin Events BY EventParts, BufferAssumption DEF Mock!NoJob
  <2> QED BY <1>1, <1>3, <2>1 DEF StoreTyped, InHand
<1>5. TableTyped' BY <1>1 DEF PageTyped, TypeOK, TableTyped, Queries
<1>6. TypeOK'
  <2>1. UnderWay \subseteq TxIDs
    <3>1. \A i \in DOMAIN ch : ch[i].row \in Rows BY MessagesTyped DEF PageTyped, TypeOK
    <3>2. \A r \in Rows : r.id \in TxIDs BY RowTyped, EventParts DEF Rows
    <3> QED BY <3>1, <3>2 DEF UnderWay
  <2>2. MaxBreaks \in Nat /\ breaks' \in 0 .. MaxBreaks /\ lost' \subseteq TxIDs
    BY <1>1, <2>1, PageAssumption DEF PageTyped, TypeOK
  <2>3. /\ events' \in Seq(Events) /\ eventsCh' \in Seq(Events) /\ ch' \in Seq(Message)
        /\ pc' \in {"next", "record", "send", "stopped"}
        /\ conn' \in {"none", "open", "broken"}
    BY <1>1, <1>3 DEF PageTyped, TypeOK
  <2> QED BY <1>1, <1>2, <1>3, <2>2, <2>3 DEF PageTyped, TypeOK, BufferInv, Rows, Message
<1> QED BY <1>2, <1>4, <1>5, <1>6 DEF PageTyped

\* The page of a transaction keeps them: it has no table.
LEMMA TypedTxPage ==
  ASSUME PageTyped, NEW i \in DOMAIN rows, TxPage(i)
  PROVE  PageTyped'
<1>1. /\ UNCHANGED <<bufferVars, store, mockVars, eventsCh, breaks>>
      /\ rows' = << >> /\ query' = NoQuery /\ view' = "tx"
      /\ conn' = "none" /\ ch' = << >> /\ connects' = 0 /\ lost' = {}
  BY DEF TxPage
<1>2. BufferInv' BY <1>1, StutterInv DEF PageTyped
<1>3. StoreTyped' BY <1>1 DEF PageTyped, StoreTyped, InHand, mockVars
<1>4. breaks \in 0 .. MaxBreaks /\ MaxBreaks \in Nat
  BY PageAssumption DEF PageTyped, TypeOK
<1>5. TableTyped' BY <1>1, <1>4 DEF TableTyped, Queries
<1>6. rows' \in Seq(Rows) BY <1>1
<1>7. TypeOK'
  BY <1>1, <1>2, <1>4, <1>6 DEF PageTyped, TypeOK, BufferInv, mockVars, Rows, Message
<1> QED BY <1>2, <1>3, <1>5, <1>7 DEF PageTyped

\* What does not change stays of its type.
LEMMA TypedStutter == PageTyped /\ UNCHANGED vars => PageTyped'
<1> SUFFICES ASSUME PageTyped, UNCHANGED vars PROVE PageTyped'
  OBVIOUS
<1> USE DEF vars, mockVars, pageVars
<1>1. BufferInv' BY StutterInv DEF PageTyped
<1>2. StoreTyped' BY DEF PageTyped, StoreTyped, InHand
<1>3. TableTyped' BY DEF PageTyped, TableTyped, Queries
<1>4. TypeOK' BY <1>1 DEF PageTyped, TypeOK, BufferInv, Rows, Message
<1> QED BY <1>1, <1>2, <1>3, <1>4 DEF PageTyped

\* So does what any step changes.
LEMMA TypedStep == PageTyped /\ RingRenewed' /\ [Next]_vars => PageTyped'
<1> SUFFICES ASSUME PageTyped, RingRenewed', [Next]_vars PROVE PageTyped'
  OBVIOUS
<1>1. CASE StoreRuns BY <1>1, TypedStore
<1>2. CASE Notified BY <1>2, TypedNotified
<1>3. CASE Broadcast BY <1>3, TypedBroadcast
<1>4. CASE Restart BY <1>4, TypedRestart
<1>5. CASE Home
  <2>1. << >> \in Seq(Events) OBVIOUS
  <2> QED BY <1>5, <2>1, TypedTable DEF Home
<1>6. CASE Table
  <2>1. store = "mock" BY <1>6 DEF Table
  <2>2. PICK match \in SUBSET TxIDs :
          NewTable(Mock!Search(match),
                   [match |-> match, since |-> IF Mock!Search(match) = << >> THEN 0
                                               ELSE Second(Mock!Search(match)[1].ts)])
    BY <1>6 DEF Table
  <2> QED BY <2>1, <2>2, TypedSearch, TypedTable
<1>7. ASSUME NEW i \in DOMAIN rows, TxPage(i) PROVE PageTyped' BY <1>7, TypedTxPage
<1>8. CASE Stream \/ Swap \/ Break BY <1>8, TypedBrowser
<1>9. CASE UNCHANGED vars BY <1>9, TypedStutter
<1> QED BY <1>1, <1>2, <1>3, <1>4, <1>5, <1>6, <1>7, <1>8, <1>9 DEF Next

\* The types always hold.
LEMMA AlwaysTyped == Spec => []PageTyped
BY TypedInit, TypedStep, RingRenews, PTL DEF Spec

\* The page, the ring and the store keep their types.
THEOREM PageTypeCorrect == Spec => []TypeOK
<1>1. PageTyped => TypeOK BY DEF PageTyped
<1> QED BY AlwaysTyped, <1>1, PTL

------------------------------------------------------------------------------
(* The ring, composed with a store, a browser and restarts. *)

\* Whatever the browser and the store do, and after any restart, the index of
\* the ring matches it, it has no holes and its replay is complete.
THEOREM RingAlwaysSound == Spec => []MapMatchesRing /\ []RingFillsInOrder /\ []ReplayComplete
<1>1. PageTyped => MapMatchesRing /\ RingFillsInOrder /\ ReplayComplete
  BY RingReplayed DEF PageTyped, BufferInv
<1> QED BY AlwaysTyped, <1>1, PTL

\* The ring changes when an event is taken and when the server restarts.
LEMMA RingChanges ==
  ASSUME PageTyped, [Next]_vars, ~UNCHANGED bufferVars
  PROVE  \/ Restart
         \/ eventsCh # << >> /\ Head(eventsCh) \in Events /\ Add(Head(eventsCh))
<1>1. Broadcast \/ Restart
  BY DEF Next, vars, StoreRuns, Notified, Home, Table, NewTable, TxPage, Stream, Swap, Break
<1>2. CASE Broadcast
  <2>1. eventsCh \in Seq(Events) BY DEF PageTyped, TypeOK
  <2> QED BY <1>2, <2>1 DEF Broadcast
<1> QED BY <1>1, <1>2

\* No job of the ring ever moves backwards.
THEOREM RingNeverRegresses == Spec => NeverRegresses
<1> DEFINE A == \A t \in DOMAIN headMap \cap DOMAIN headMap' :
                 headMap[t].state <= headMap'[t].state
<1>1. PageTyped /\ [Next]_vars => [A]_bufferVars
  <2> SUFFICES ASSUME PageTyped, [Next]_vars, ~UNCHANGED bufferVars PROVE A
    OBVIOUS
  <2>1. CASE Restart
    <3>1. DOMAIN headMap' = {} BY <2>1 DEF Restart
    <3> QED BY <3>1
  <2>2. CASE eventsCh # << >> /\ Head(eventsCh) \in Events /\ Add(Head(eventsCh))
    BY <2>2, AddNeverRegresses DEF PageTyped, TypeOK
  <2> QED BY <2>1, <2>2, RingChanges
<1> QED BY AlwaysTyped, <1>1, PTL DEF Spec, NeverRegresses

\* The ring implements the window of recent transactions within the whole, and
\* nothing but a restart empties it.
THEOREM RingAlwaysWindow == Spec => RingIsWindow
<1> DEFINE A == \/ eventsCh # << >> /\ Abstract!Arrive(Head(eventsCh))
                \/ Restart
<1>1. Init => Abstract!Init BY RingStartsEmpty DEF Init
<1>2. PageTyped /\ PageTyped' /\ [Next]_vars => [A]_bufferVars
  <2> SUFFICES ASSUME PageTyped, PageTyped', [Next]_vars, ~UNCHANGED bufferVars PROVE A
    OBVIOUS
  <2>1. ASSUME eventsCh # << >>, Head(eventsCh) \in Events, Add(Head(eventsCh)) PROVE A
    BY <2>1, AddArrives DEF PageTyped
  <2> QED BY <2>1, RingChanges
<1> QED BY AlwaysTyped, <1>1, <1>2, PTL DEF Spec, RingIsWindow

------------------------------------------------------------------------------
(* What is said of the jobs, and where. *)

\* What is yet to be broadcast, in its order.
Pending == eventsCh \o (IF InHand THEN << made >> ELSE << >>)

\* The transactions of the ring as the ring has them.
RingEvents == {head[i].data : i \in Index} \ {NoData}

\* The events that the store and the server have.
Heard == ToSet(events) \cup ToSet(Pending) \cup RingEvents

\* The rows of the table and those under way to it.
TableRows == ToSet(rows) \cup {ch[i].row : i \in DOMAIN ch}

\* What all of them say.
Copies == TableRows \cup {Row(e) : e \in Heard}

\* The elements of a sequence that grows at its end.
LEMMA AppendElements ==
  ASSUME NEW S, NEW s \in Seq(S), NEW x \in S
  PROVE  ToSet(Append(s, x)) = ToSet(s) \cup {x}
<1> DEFINE r == Append(s, x)
<1>1. DOMAIN s = 1 .. Len(s) /\ Len(s) \in Nat /\ \A i \in 1 .. Len(s) : s[i] \in S OBVIOUS
<1>2. /\ DOMAIN r = (1 .. Len(s)) \cup {Len(s) + 1} /\ r[Len(s) + 1] = x
      /\ \A i \in 1 .. Len(s) : r[i] = s[i]
  BY <1>1
<1> HIDE DEF r
<1>3. ToSet(r) = ToSet(s) \cup {x} BY <1>1, <1>2 DEF ToSet
<1> QED BY <1>3 DEF r

\* The elements of a sequence that grows at its beginning.
LEMMA PrependElements ==
  ASSUME NEW S, NEW s \in Seq(S), NEW x \in S
  PROVE  /\ DOMAIN (<< x >> \o s) = 1 .. Len(s) + 1 /\ (<< x >> \o s)[1] = x
         /\ \A i \in DOMAIN s : i + 1 \in DOMAIN (<< x >> \o s) /\ (<< x >> \o s)[i + 1] = s[i]
         /\ \A i \in DOMAIN (<< x >> \o s) \ {1} :
              i - 1 \in DOMAIN s /\ (<< x >> \o s)[i] = s[i - 1]
<1> DEFINE r == << x >> \o s
<1>1. DOMAIN s = 1 .. Len(s) /\ Len(s) \in Nat /\ \A i \in 1 .. Len(s) : s[i] \in S OBVIOUS
<1>2. /\ DOMAIN r = 1 .. Len(s) + 1 /\ r[1] = x
      /\ \A i \in 2 .. Len(s) + 1 : r[i] = s[i - 1]
  BY <1>1
<1> HIDE DEF r
<1>3. \A i \in DOMAIN s : i + 1 \in 2 .. Len(s) + 1 /\ i + 1 \in DOMAIN r /\ i + 1 - 1 = i
  BY <1>1, <1>2
<1>4. \A i \in DOMAIN s : i + 1 \in DOMAIN r /\ r[i + 1] = s[i] BY <1>2, <1>3
<1>5. \A i \in DOMAIN r \ {1} : i \in 2 .. Len(s) + 1 /\ i - 1 \in DOMAIN s BY <1>1, <1>2
<1> QED BY <1>2, <1>4, <1>5 DEF r

\* The first element of a sequence.
LEMMA FirstOf ==
  ASSUME NEW S, NEW s \in Seq(S), s # << >>
  PROVE  /\ Head(s) \in S /\ Head(s) = s[1] /\ 1 \in DOMAIN s /\ Len(s) \in Nat \ {0}
         /\ Head(s) \in ToSet(s) /\ ToSet(Tail(s)) \subseteq ToSet(s)
<1>1. Head(s) = s[1] /\ 1 \in DOMAIN s /\ s[1] \in S /\ Len(s) \in Nat \ {0} OBVIOUS
<1>2. \A i \in DOMAIN Tail(s) : i + 1 \in DOMAIN s /\ Tail(s)[i] = s[i + 1] OBVIOUS
<1> QED BY <1>1, <1>2 DEF ToSet

\* The first of a sequence stays the first when the sequence grows at its end.
LEMMA AppendTail ==
  ASSUME NEW S, NEW s \in Seq(S), s # << >>, NEW x \in S
  PROVE  /\ Head(Append(s, x)) = Head(s) /\ Append(s, x) # << >>
         /\ Tail(Append(s, x)) = Append(Tail(s), x)
<1> DEFINE n == Len(s)
           t == Tail(s)
           r == Append(s, x)
           p == Tail(r)
           q == Append(t, x)
<1>1. n \in Nat \ {0} /\ t \in Seq(S) /\ Len(t) = n - 1 /\ \A i \in 1 .. n - 1 : t[i] = s[i + 1]
  OBVIOUS
<1>2. /\ r \in Seq(S) /\ Len(r) = n + 1 /\ r[n + 1] = x /\ \A i \in 1 .. n : r[i] = s[i]
      /\ Head(r) = Head(s) /\ r # << >>
  <2>1. r \in Seq(S) /\ Len(r) = n + 1 /\ r[n + 1] = x OBVIOUS
  <2>2. \A i \in 1 .. n : r[i] = s[i] OBVIOUS
  <2>3. r # << >> /\ Head(r) = r[1] /\ Head(s) = s[1] /\ 1 \in 1 .. n BY <1>1, <2>1
  <2> QED BY <2>1, <2>2, <2>3
<1>3. q \in Seq(S) /\ Len(q) = n /\ q[n] = x /\ \A i \in 1 .. n - 1 : q[i] = t[i]
  <2> HIDE DEF t
  <2> QED BY <1>1
<1>4. p \in Seq(S) /\ Len(p) = n /\ \A i \in 1 .. n : p[i] = r[i + 1]
  <2> HIDE DEF r
  <2> QED BY <1>1, <1>2
<1> HIDE DEF n, t, r, p, q
<1>5. \A i \in 1 .. n : p[i] = q[i]
  <2> SUFFICES ASSUME NEW i \in 1 .. n PROVE p[i] = q[i]
    OBVIOUS
  <2>1. CASE i = n BY <1>1, <1>2, <1>3, <1>4, <2>1
  <2>2. CASE i \in 1 .. n - 1 BY <1>1, <1>2, <1>3, <1>4, <2>2
  <2> QED BY <1>1, <2>1, <2>2
<1>6. p = q BY <1>3, <1>4, <1>5, SeqEqual
<1> QED BY <1>2, <1>6 DEF r, p, q, t

\* The types of what is said.
LEMMA HeardTyped ==
  ASSUME PageTyped
  PROVE  /\ Pending \in Seq(Events) /\ RingEvents \subseteq Events
         /\ Heard \subseteq Events /\ TableRows \subseteq Rows /\ Copies \subseteq Rows
<1>1. eventsCh \in Seq(Events) /\ (InHand => made \in Events)
  BY DEF PageTyped, TypeOK, StoreTyped
<1>2. Pending \in Seq(Events)
  <2>1. CASE InHand
    <3>1. Pending = eventsCh \o << made >> /\ << made >> \in Seq(Events)
      BY <1>1, <2>1 DEF Pending
    <3> QED BY <1>1, <3>1
  <2>2. CASE ~InHand
    <3>1. Pending = eventsCh BY <1>1, <2>2 DEF Pending
    <3> QED BY <1>1, <3>1
  <2> QED BY <2>1, <2>2
<1>3. RingEvents \subseteq Events
  <2>1. \A i \in Index : head[i] \in Slot BY DEF PageTyped, TypeOK, BufferTypeOK
  <2> QED BY <2>1 DEF RingEvents, Slot, EmptySlot
<1>4. Heard \subseteq Events
  <2>1. events \in Seq(Events) BY DEF PageTyped, TypeOK
  <2>2. ToSet(events) \subseteq Events /\ ToSet(Pending) \subseteq Events
    BY <1>2, <2>1 DEF ToSet
  <2> QED BY <1>3, <2>2 DEF Heard
<1>5. TableRows \subseteq Rows
  <2>1. rows \in Seq(Rows) /\ ch \in Seq(Message) BY DEF PageTyped, TypeOK
  <2>2. ToSet(rows) \subseteq Rows BY <2>1 DEF ToSet
  <2> QED BY <2>1, <2>2, MessagesTyped DEF TableRows
<1> QED BY <1>2, <1>3, <1>4, <1>5, RowTyped DEF Copies

\* What is pending when the mock store makes a step: nextEvent adds an event,
\* the end of Run drops one.
LEMMA PendingStore ==
  ASSUME PageTyped
  PROVE  /\ \A i \in Slots : Mock!NextEvent(i) => Pending' = Append(Pending, made')
         /\ Mock!Record \/ Mock!Send \/ Mock!Stop => Pending' = Pending
         /\ Mock!SeeDone => Pending = Append(Pending', made) /\ Pending' = eventsCh
<1>1. eventsCh \in Seq(Events) /\ (InHand => made \in Events)
  BY DEF PageTyped, TypeOK, StoreTyped
<1>2. ~InHand => Pending = eventsCh BY <1>1 DEF Pending
<1>3. InHand => Pending = Append(eventsCh, made) BY <1>1 DEF Pending
<1>4. ASSUME NEW i \in Slots, Mock!NextEvent(i) PROVE Pending' = Append(Pending, made')
  <2>1. NextEventMade(i) BY <1>4, NextEventMakes DEF PageTyped
  <2>2. ~InHand /\ InHand' /\ eventsCh' = eventsCh /\ made' \in Events
    BY <2>1 DEF NextEventMade, InHand
  <2>3. Pending' = eventsCh \o << made' >> BY <2>2 DEF Pending
  <2> QED BY <1>1, <1>2, <2>2, <2>3
<1>5. ASSUME Mock!Record PROVE Pending' = Pending
  <2>1. InHand /\ InHand' /\ eventsCh' = eventsCh /\ made' = made
    BY <1>5 DEF Mock!Record, InHand, Mock!jobVars
  <2> QED BY <2>1 DEF Pending
<1>6. ASSUME Mock!Send PROVE Pending' = Pending
  <2>1. InHand /\ ~InHand' /\ eventsCh' = Append(eventsCh, made)
    BY <1>6 DEF Mock!Send, InHand, Mock!jobVars
  <2>2. Pending' = eventsCh' BY <1>1, <2>1 DEF Pending
  <2> QED BY <1>3, <2>1, <2>2
<1>7. ASSUME Mock!Stop PROVE Pending' = Pending
  BY <1>7 DEF Mock!Stop, InHand, Mock!jobVars, Pending
<1>8. ASSUME Mock!SeeDone PROVE Pending = Append(Pending', made) /\ Pending' = eventsCh
  <2>1. InHand /\ ~InHand' /\ eventsCh' = eventsCh BY <1>8 DEF Mock!SeeDone, InHand
  <2>2. Pending' = eventsCh BY <1>1, <2>1 DEF Pending
  <2> QED BY <1>3, <2>1, <2>2
<1> QED BY <1>4, <1>5, <1>6, <1>7, <1>8

\* add puts no event in the ring but the one it is called with.
LEMMA RingAdds ==
  ASSUME BufferTypeOK, NEW e \in Events, Add(e)
  PROVE  RingEvents' \subseteq RingEvents \cup {e}
<1>1. head' = head \/ \E k \in Index : head' = [head EXCEPT ![k] = SlotOf(e)]
  <2>1. headIndex \in Index /\ (e.txID \in DOMAIN headMap => headMap[e.txID].index \in Index)
    BY DEF BufferTypeOK, Header
  <2>2. CASE AddNew(e) BY <2>1, <2>2 DEF AddNew
  <2>3. CASE AddStale(e) BY <2>3 DEF AddStale, bufferVars
  <2>4. CASE AddUpdate(e) BY <2>1, <2>4 DEF AddUpdate
  <2> QED BY <2>2, <2>3, <2>4 DEF Add
<1>2. \A i \in Index : head'[i].data \in {head[i].data, e}
  <2>1. CASE head' = head BY <2>1
  <2>2. ASSUME NEW k \in Index, head' = [head EXCEPT ![k] = SlotOf(e)],
               NEW i \in Index
        PROVE  head'[i].data \in {head[i].data, e}
    BY <2>2 DEF BufferTypeOK, SlotOf
  <2> QED BY <1>1, <2>1, <2>2
<1> QED BY <1>2 DEF RingEvents, Index

\* A broadcast takes the first of what is pending.
LEMMA PendingBroadcast ==
  ASSUME PageTyped, Broadcast
  PROVE  /\ Pending # << >> /\ Head(eventsCh) = Head(Pending) /\ Pending' = Tail(Pending)
         /\ Head(Pending) \in Events /\ Head(Pending) \in ToSet(Pending)
<1>1. /\ eventsCh \in Seq(Events) /\ (InHand => made \in Events) /\ Pending \in Seq(Events)
      /\ eventsCh # << >> /\ eventsCh' = Tail(eventsCh)
      /\ InHand' = InHand /\ made' = made
  BY HeardTyped DEF PageTyped, TypeOK, StoreTyped, Broadcast, InHand, mockVars
<1>2. /\ eventsCh' \in Seq(Events) /\ Len(eventsCh) \in Nat \ {0}
      /\ Len(eventsCh') = Len(eventsCh) - 1 /\ Head(eventsCh) = eventsCh[1]
      /\ \A i \in 1 .. Len(eventsCh) - 1 : eventsCh'[i] = eventsCh[i + 1]
  BY <1>1
<1>3. Pending # << >> /\ Head(eventsCh) = Head(Pending) /\ Pending' = Tail(Pending)
  <2>1. CASE InHand
    <3>1. Pending = Append(eventsCh, made) /\ Pending' = Append(eventsCh', made)
      BY <1>1, <1>2, <2>1 DEF Pending
    <3> QED BY <1>1, <2>1, <3>1, AppendTail
  <2>2. CASE ~InHand
    <3>1. Pending = eventsCh /\ Pending' = eventsCh' BY <1>1, <1>2, <2>2 DEF Pending
    <3> QED BY <1>1, <3>1
  <2> QED BY <2>1, <2>2
<1> QED BY <1>1, <1>3, FirstOf

\* The mock store makes one event known at a time.
LEMMA HeardStore ==
  ASSUME PageTyped, StoreRuns
  PROVE  /\ UNCHANGED TableRows
         /\ \/ \E i \in Slots : NextEventMade(i) /\ Heard' = Heard \cup {made'}
            \/ /\ UNCHANGED <<eventMap, used>> /\ ~ (\E i \in Slots : Mock!NextEvent(i))
               /\ Heard' \subseteq Heard
<1>1. /\ UNCHANGED <<bufferVars, rows, ch>>
      /\ eventsCh \in Seq(Events) /\ events \in Seq(Events)
      /\ InHand => made \in Events
      /\ Pending \in Seq(Events)
  BY HeardTyped DEF StoreRuns, pageVars, PageTyped, TypeOK, StoreTyped
<1>2. UNCHANGED <<TableRows, RingEvents>> BY <1>1 DEF TableRows, RingEvents, bufferVars
<1>3. ASSUME NEW i \in Slots, Mock!NextEvent(i)
      PROVE  NextEventMade(i) /\ Heard' = Heard \cup {made'}
  <2>1. NextEventMade(i) /\ Pending' = Append(Pending, made')
    BY <1>3, NextEventMakes, PendingStore DEF PageTyped
  <2>2. made' \in Events /\ events' = events BY <2>1 DEF NextEventMade
  <2>3. ToSet(Pending') = ToSet(Pending) \cup {made'} BY <1>1, <2>1, <2>2, AppendElements
  <2> QED BY <1>2, <2>1, <2>2, <2>3 DEF Heard
<1>4. ASSUME Mock!Record PROVE UNCHANGED <<eventMap, used>> /\ Heard' = Heard
  <2>1. /\ InHand /\ events' = Append(events, made) /\ Pending' = Pending
        /\ UNCHANGED <<eventMap, used>>
    BY <1>4, PendingStore DEF Mock!Record, InHand, Mock!jobVars
  <2>2. ToSet(events') = ToSet(events) \cup {made} BY <1>1, <2>1, AppendElements
  <2>3. made \in ToSet(Pending)
    <3>1. Pending = Append(eventsCh, made) /\ made \in Events BY <1>1, <2>1 DEF Pending
    <3>2. ToSet(Append(eventsCh, made)) = ToSet(eventsCh) \cup {made} BY <1>1, <3>1, AppendElements
    <3> QED BY <3>1, <3>2
  <2> QED BY <1>2, <2>1, <2>2, <2>3 DEF Heard
<1>5. ASSUME Mock!Send \/ Mock!Stop PROVE UNCHANGED <<eventMap, used>> /\ Heard' = Heard
  <2>1. Pending' = Pending /\ UNCHANGED <<eventMap, used, events>>
    BY <1>5, PendingStore DEF Mock!Send, Mock!Stop, Mock!jobVars
  <2> QED BY <1>2, <2>1 DEF Heard
<1>6. ASSUME Mock!SeeDone PROVE UNCHANGED <<eventMap, used>> /\ Heard' \subseteq Heard
  <2>1. /\ Pending = Append(Pending', made) /\ Pending' = eventsCh /\ InHand
        /\ UNCHANGED <<eventMap, used, events>>
    BY <1>6, PendingStore DEF Mock!SeeDone, Mock!jobVars, InHand
  <2>2. ToSet(Append(eventsCh, made)) = ToSet(eventsCh) \cup {made} BY <1>1, <2>1, AppendElements
  <2> QED BY <1>2, <2>1, <2>2 DEF Heard
<1>7. \/ \E i \in Slots : Mock!NextEvent(i)
      \/ Mock!Record \/ Mock!Send \/ Mock!Stop \/ Mock!SeeDone
  BY DEF StoreRuns, Mock!Run
<1> QED BY <1>2, <1>3, <1>4, <1>5, <1>6, <1>7

\* News shows the event, or nothing new.
LEMMA NewsRows ==
  ASSUME ch \in Seq(Message), NEW e \in Events, News(e), rows' = rows
  PROVE  TableRows' \subseteq TableRows \cup {Row(e)}
<1>1. CASE ch' = ch BY <1>1 DEF TableRows
<1>2. CASE ch' = Append(ch, WriteEvent(e))
  <2>1. WriteEvent(e).row = Row(e) BY RowTyped
  <2>2. \A i \in DOMAIN ch' : ch'[i] = WriteEvent(e) \/ (i \in DOMAIN ch /\ ch'[i] = ch[i])
    BY <1>2
  <2> QED BY <2>1, <2>2 DEF TableRows
<1> QED BY <1>1, <1>2 DEF News

\* A swap moves a row from those under way to the table.
LEMMA SwapRows ==
  ASSUME ch \in Seq(Message), rows \in Seq(Rows), Swap
  PROVE  TableRows' \subseteq TableRows
<1> DEFINE message == Head(ch)
<1>1. ch # << >> /\ ch' = Tail(ch) BY DEF Swap
<1>2. /\ 1 \in DOMAIN ch /\ message = ch[1] /\ message.row \in Rows
      /\ \A i \in DOMAIN ch' : i + 1 \in DOMAIN ch /\ ch'[i] = ch[i + 1]
  BY <1>1, MessagesTyped
<1>3. rows' = << message.row >> \o rows
      \/ rows' = [i \in DOMAIN rows |-> IF rows[i].swap = message.name
                                        THEN message.row ELSE rows[i]]
  BY DEF Swap
<1> HIDE DEF message
<1>4. ToSet(rows') \subseteq ToSet(rows) \cup {message.row}
  <2>1. CASE rows' = << message.row >> \o rows
    <3>1. \A i \in DOMAIN rows' :
            rows'[i] = message.row \/ \E j \in DOMAIN rows : rows'[i] = rows[j]
      BY <1>2, <2>1, PrependElements
    <3> QED BY <3>1 DEF ToSet
  <2>2. CASE rows' = [i \in DOMAIN rows |-> IF rows[i].swap = message.name
                                           THEN message.row ELSE rows[i]]
    BY <2>2 DEF ToSet
  <2> QED BY <1>3, <2>1, <2>2
<1> QED BY <1>2, <1>4 DEF TableRows

\* The table shows nothing that was not said, and a step that is not one of
\* the mock store says nothing new.
LEMMA CopiesKept ==
  ASSUME PageTyped,
         Broadcast \/ Restart \/ Home \/ Table \/ (\E i \in DOMAIN rows : TxPage(i))
           \/ Stream \/ Swap \/ Break \/ UNCHANGED vars
  PROVE  Heard' \subseteq Heard /\ Copies' \subseteq Copies
<1>1. /\ eventsCh \in Seq(Events) /\ events \in Seq(Events) /\ Pending \in Seq(Events)
      /\ ch \in Seq(Message) /\ rows \in Seq(Rows) /\ BufferTypeOK
      /\ InHand => made \in Events
  BY HeardTyped DEF PageTyped, TypeOK, StoreTyped
<1>2. ASSUME Heard' \subseteq Heard,
             \A row \in TableRows' : row \in Copies
      PROVE  Heard' \subseteq Heard /\ Copies' \subseteq Copies
  BY <1>2 DEF Copies
<1>3. CASE Broadcast
  <2> DEFINE e == Head(eventsCh)
  <2>1. /\ Add(e) /\ UNCHANGED <<mockVars, rows>> /\ News(e)
    BY <1>3 DEF Broadcast
  <2>2. e \in Events /\ e \in ToSet(Pending) /\ Pending # << >> /\ Pending' = Tail(Pending)
    BY <1>3, PendingBroadcast
  <2> HIDE DEF e
  <2>3. e \in Heard /\ Heard' \subseteq Heard
    <3>1. ToSet(Pending') \subseteq ToSet(Pending) BY <1>1, <2>2, FirstOf
    <3>2. RingEvents' \subseteq RingEvents \cup {e} BY <1>1, <2>1, <2>2, RingAdds
    <3> QED BY <2>1, <2>2, <3>1, <3>2 DEF Heard, mockVars
  <2>4. TableRows' \subseteq TableRows \cup {Row(e)}
    BY <1>1, <2>1, <2>2, NewsRows
  <2> QED BY <1>2, <2>3, <2>4 DEF Copies
<1>4. CASE Restart
  <2>1. /\ events' = << >> /\ eventsCh' = << >> /\ pc' = "next"
        /\ head' = [i \in Index |-> EmptySlot] /\ rows' = rows /\ ch' = << >>
    BY <1>4 DEF Restart, Mock!Restart
  <2>2. Heard' = {}
    <3>1. Pending' = << >> BY <2>1 DEF Pending, InHand
    <3>2. RingEvents' = {} BY <2>1 DEF RingEvents, EmptySlot, Index
    <3> QED BY <2>1, <3>1, <3>2 DEF Heard, ToSet
  <2>3. TableRows' \subseteq TableRows BY <2>1 DEF TableRows
  <2> QED BY <1>2, <2>2, <2>3 DEF Copies
<1>5. ASSUME UNCHANGED <<bufferVars, mockVars, eventsCh>> PROVE Heard' = Heard
  BY <1>5 DEF Heard, RingEvents, Pending, InHand, mockVars, bufferVars
<1>6. ASSUME NEW found \in Seq(Events), NEW q, NewTable(found, q),
             \A k \in DOMAIN found : found[k] \in Heard
      PROVE  Heard' \subseteq Heard /\ Copies' \subseteq Copies
  <2>1. /\ UNCHANGED <<bufferVars, mockVars, eventsCh>> /\ ch' = << >>
        /\ rows' = [i \in DOMAIN found |-> Row(found[i])]
    BY <1>6 DEF NewTable
  <2>2. \A row \in TableRows' : \E k \in DOMAIN found : row = Row(found[k])
    BY <2>1 DEF TableRows, ToSet
  <2> QED BY <1>2, <1>5, <1>6, <2>1, <2>2 DEF Copies
<1>7. CASE Home
  <2>1. << >> \in Seq(Events) OBVIOUS
  <2>2. NewTable(<< >>, NoQuery) /\ DOMAIN << >> = {} BY <1>7 DEF Home
  <2> QED BY <1>6, <2>1, <2>2
<1>8. CASE Table
  <2>1. PICK match \in SUBSET TxIDs :
          \E q : NewTable(Mock!Search(match), q)
    BY <1>8 DEF Table
  <2>2. \A k \in DOMAIN Mock!Search(match) : Mock!Search(match)[k] \in Heard
    BY <1>1, SearchMember DEF Heard
  <2>3. Mock!Search(match) \in Seq(Events) BY TypedSearch
  <2> QED BY <1>6, <2>1, <2>2, <2>3
<1>9. ASSUME NEW i \in DOMAIN rows, TxPage(i)
      PROVE  Heard' \subseteq Heard /\ Copies' \subseteq Copies
  <2>1. UNCHANGED <<bufferVars, mockVars, eventsCh>> /\ rows' = << >> /\ ch' = << >>
    BY <1>9 DEF TxPage
  <2>2. TableRows' = {} BY <2>1 DEF TableRows, ToSet
  <2> QED BY <1>2, <1>5, <2>1, <2>2
<1>10. CASE Stream
  <2>1. UNCHANGED <<bufferVars, mockVars, eventsCh, rows>> /\ (ch' = Prefilled \/ ch' = << >>)
    BY <1>10 DEF Stream
  <2>2. \A i \in DOMAIN Prefilled : \E d \in RingEvents : Prefilled[i].row = Row(d)
    BY <1>1, PrefilledTyped, ReplayHolds DEF RingEvents
  <2>3. \A row \in TableRows' : row \in TableRows \/ \E d \in RingEvents : row = Row(d)
    BY <2>1, <2>2 DEF TableRows
  <2> QED BY <1>2, <1>5, <2>1, <2>3 DEF Copies, Heard
<1>11. CASE Swap
  <2>1. UNCHANGED <<bufferVars, mockVars, eventsCh>> BY <1>11 DEF Swap
  <2>2. TableRows' \subseteq TableRows BY <1>1, <1>11, SwapRows
  <2> QED BY <1>2, <1>5, <2>1, <2>2 DEF Copies
<1>12. CASE Break
  <2>1. UNCHANGED <<bufferVars, mockVars, eventsCh, rows>> /\ ch' = << >>
    BY <1>12 DEF Break
  <2>2. TableRows' \subseteq TableRows BY <2>1 DEF TableRows
  <2> QED BY <1>2, <1>5, <2>1, <2>2 DEF Copies
<1>13. CASE UNCHANGED vars
  <2>1. UNCHANGED <<bufferVars, mockVars, eventsCh, rows, ch>> BY <1>13 DEF vars, pageVars
  <2>2. TableRows' = TableRows BY <2>1 DEF TableRows
  <2> QED BY <1>2, <1>5, <2>1, <2>2 DEF Copies
<1> QED BY <1>3, <1>4, <1>7, <1>8, <1>9, <1>10, <1>11, <1>12, <1>13

------------------------------------------------------------------------------
(* The rows and the pages they lead to. *)

\* What is shown of a job whose page is there is in the log of its page.
Told(row) ==
  /\ row.id \in used
  /\ row.id \in DOMAIN eventMap => \E e \in ToSet(eventMap[row.id].log) : row = Row(e)

CopiesTold ==
  store = "mock" =>
    /\ \A row \in Copies : Told(row)
    /\ \A e \in ToSet(events) : e.txID \in DOMAIN eventMap

\* Nothing is known at first.
LEMMA ToldInit == Init => CopiesTold
<1> SUFFICES ASSUME Init PROVE CopiesTold
  OBVIOUS
<1>1. /\ events = << >> /\ eventsCh = << >> /\ pc = "next" /\ rows = << >> /\ ch = << >>
      /\ head = [i \in Index |-> EmptySlot]
  BY DEF Init, Mock!New, NewEventBuffer
<1>2. RingEvents = {} BY <1>1 DEF RingEvents, EmptySlot
<1>3. Heard = {} BY <1>1, <1>2 DEF Heard, Pending, InHand, ToSet
<1>4. Copies = {} BY <1>1, <1>3 DEF Copies, TableRows, ToSet
<1> QED BY <1>1, <1>4 DEF CopiesTold, ToSet

\* A job that goes on is told by its page before anybody hears of it.
LEMMA ToldStore ==
  ASSUME PageTyped, CopiesTold, StoreRuns
  PROVE  CopiesTold'
<1>1. /\ store = "mock" /\ events \in Seq(Events) /\ StoreTyped
      /\ Copies \subseteq Rows /\ (InHand => made \in Events)
  BY HeardTyped DEF StoreRuns, PageTyped, TypeOK, StoreTyped
<1>2. ASSUME NEW i \in Slots, NextEventMade(i), Heard' = Heard \cup {made'},
             UNCHANGED TableRows
      PROVE  CopiesTold'
  <2> DEFINE t == made'.txID
  <2>1. /\ made' \in Events /\ DOMAIN eventMap' = DOMAIN eventMap \cup {t}
        /\ \A u \in DOMAIN eventMap \ {t} : eventMap'[u] = eventMap[u]
        /\ used' = used \cup {t} /\ events' = events
    BY <1>2 DEF NextEventMade
  <2>2. \A row \in Copies' : row \in Copies \/ row = Row(made') BY <1>2 DEF Copies
  <2>3. /\ made' \in ToSet(eventMap'[t].log)
        /\ made'.state # StateSubmitted =>
             t \in DOMAIN eventMap /\ ToSet(eventMap[t].log) \subseteq ToSet(eventMap'[t].log)
    <3>1. CASE made'.state = StateSubmitted
      <4>1. eventMap'[t].log = << made' >> BY <1>2, <3>1 DEF NextEventMade
      <4> QED BY <3>1, <4>1 DEF ToSet
    <3>2. CASE made'.state # StateSubmitted
      <4>1. /\ t \in DOMAIN eventMap /\ eventMap[t].log \in Seq(Events)
            /\ eventMap'[t].log = Append(eventMap[t].log, made')
        BY <1>1, <1>2, <3>2 DEF NextEventMade, StoreTyped
      <4>2. ToSet(Append(eventMap[t].log, made')) = ToSet(eventMap[t].log) \cup {made'}
        BY <2>1, <4>1, AppendElements
      <4> QED BY <4>1, <4>2
    <3> QED BY <3>1, <3>2
  <2>4. made'.state = StateSubmitted => t \notin used BY <1>2 DEF NextEventMade
  <2>5. Row(made').id = t BY <2>1, RowTyped
  <2> HIDE DEF t
  <2>6. ASSUME NEW row \in Copies, Told(row) PROVE Told(row)'
    <3>1. CASE row.id = t
      <4>1. made'.state # StateSubmitted BY <2>4, <2>6, <3>1 DEF Told
      <4> QED BY <2>1, <2>3, <2>6, <3>1, <4>1 DEF Told
    <3>2. CASE row.id # t BY <2>1, <2>6, <3>2 DEF Told
    <3> QED BY <3>1, <3>2
  <2>7. ASSUME NEW row, row = Row(made') PROVE Told(row)' BY <2>1, <2>3, <2>5, <2>7 DEF Told
  <2> QED BY <1>1, <2>1, <2>2, <2>6, <2>7 DEF CopiesTold
<1>3. ASSUME UNCHANGED <<eventMap, used, TableRows>>, Heard' \subseteq Heard,
             ~ \E i \in Slots : Mock!NextEvent(i)
      PROVE  CopiesTold'
  <2>1. Copies' \subseteq Copies BY <1>3 DEF Copies
  <2>2. events' = events \/ (InHand /\ events' = Append(events, made))
    BY <1>3 DEF StoreRuns, Mock!Run, Mock!Record, Mock!Send, Mock!SeeDone, Mock!Stop, InHand
  <2>3. \A e \in ToSet(events') : e \in ToSet(events) \/ (InHand /\ e = made)
    <3>1. CASE events' = events BY <3>1
    <3>2. CASE InHand /\ events' = Append(events, made)
      <4>1. ToSet(Append(events, made)) = ToSet(events) \cup {made} BY <1>1, <3>2, AppendElements
      <4> QED BY <3>2, <4>1
    <3> QED BY <2>2, <3>1, <3>2
  <2>4. InHand => made.txID \in DOMAIN eventMap BY <1>1 DEF StoreTyped
  <2> QED BY <1>1, <1>3, <2>1, <2>3, <2>4 DEF CopiesTold, Told
<1> QED BY <1>2, <1>3, HeardStore

\* No step shows what the page of a job does not tell.
LEMMA ToldStep == PageTyped /\ CopiesTold /\ [Next]_vars => CopiesTold'
<1> SUFFICES ASSUME PageTyped, CopiesTold, [Next]_vars PROVE CopiesTold'
  OBVIOUS
<1>1. CASE StoreRuns BY <1>1, ToldStore
<1>2. CASE Notified BY <1>2 DEF Notified, CopiesTold
<1>3. CASE Restart
  <2>1. Copies' \subseteq Copies BY <1>3, CopiesKept
  <2>2. /\ UNCHANGED <<store, used>> /\ DOMAIN eventMap' = {} /\ events' = << >>
    BY <1>3 DEF Restart, Mock!Restart
  <2> QED BY <2>1, <2>2 DEF CopiesTold, Told, ToSet
<1>4. CASE Broadcast \/ Home \/ Table \/ (\E i \in DOMAIN rows : TxPage(i))
             \/ Stream \/ Swap \/ Break \/ UNCHANGED vars
  <2>1. Copies' \subseteq Copies BY <1>4, CopiesKept
  <2>2. UNCHANGED <<store, used, eventMap, events>>
    BY <1>4 DEF Broadcast, Home, Table, NewTable, TxPage, Stream, Swap, Break, vars, mockVars
  <2> QED BY <2>1, <2>2 DEF CopiesTold, Told
<1> QED BY <1>1, <1>2, <1>3, <1>4 DEF Next

\* What a search may find has a page, and the page a row leads to tells of what
\* the row shows, until the server restarts.
THEOREM RowsAlwaysLeadToPage == Spec => []RowLeadsToPage
<1>1. PageTyped /\ CopiesTold => RowLeadsToPage
  <2> SUFFICES ASSUME PageTyped, CopiesTold, store = "mock" PROVE RowLeadsToPage
    BY DEF RowLeadsToPage
  <2>1. ToSet(rows) \cup {Row(e) : e \in ToSet(events)} \subseteq Copies
    BY DEF Copies, TableRows, Heard
  <2>2. \A row \in Copies : row.link = row.id
    <3>1. \A e \in Events : Row(e).link = Row(e).id BY DEF Row
    <3> QED BY <3>1, HeardTyped DEF Rows
  <2> QED BY <2>1, <2>2 DEF RowLeadsToPage, CopiesTold, Told, Mock!HasTxInfo, Mock!TxInfo
<1> QED BY AlwaysTyped, ToldInit, ToldStep, <1>1, PTL DEF Spec

------------------------------------------------------------------------------
(* The rows of a job. *)

\* The replay has each transaction of the ring once, as the ring has it.
LEMMA ReplayOnce ==
  ASSUME BufferInv
  PROVE  /\ \A i, j \in DOMAIN Replay : Replay[i].txID = Replay[j].txID => i = j
         /\ \A i \in DOMAIN Replay : /\ Replay[i].txID \in DOMAIN headMap
                                     /\ Replay[i] = head[headMap[Replay[i].txID].index].data
         /\ \A t \in DOMAIN headMap : \E i \in DOMAIN Replay : Replay[i].txID = t
<1> DEFINE n == Count
           T == DOMAIN headMap
           f == [i \in 1 .. n |-> Replay[i].txID]
           g == [p \in 1 .. n |-> head[At(p)].txID]
<1>1. /\ n \in Nat
      /\ \A p \in 1 .. n : At(p) \in Index /\ Used(At(p))
      /\ \A p, q \in 1 .. n : At(p) = At(q) => p = q
      /\ \A i \in Index : Used(i) => \E p \in 1 .. n : At(p) = i
  BY AtBijective, BufferAssumption
<1>2. /\ \A t \in T : /\ head[headMap[t].index].txID = t
                      /\ head[headMap[t].index].data.txID = t
      /\ \A i \in Index : Used(i) => head[i].txID \in T /\ headMap[head[i].txID].index = i
      /\ \A t \in T : headMap[t].index \in Index /\ t \in TxIDs
      /\ BufferTypeOK
  BY DEF BufferInv, MapMatchesRing, BufferTypeOK, Header
<1>3. \A j \in Index : head[j].data # NoData <=> Used(j)
  BY <1>2, UsedSlot, NoDataAssumption
<1>4. \A t \in T : Used(headMap[t].index) BY <1>2, UsedSlot
<1>5. /\ Replay \in Seq(Events) /\ DOMAIN Replay = 1 .. n
      /\ {Replay[i] : i \in DOMAIN Replay} = {head[j].data : j \in Index} \ {NoData}
  <2>1. Replay \in Seq(Events) /\ Len(Replay) = n BY <1>2, ReplayHolds, ReplayLength
  <2>2. DOMAIN Replay = 1 .. n BY <2>1
  <2>3. {Replay[i] : i \in DOMAIN Replay} = {head[j].data : j \in Index} \ {NoData}
    <3> HIDE DEF n, T, f, g
    <3> QED BY <1>2, ReplayHolds
  <2> HIDE DEF n
  <2> QED BY <2>1, <2>2, <2>3, Zenon
<1>6. ASSUME NEW i \in 1 .. n
      PROVE  Replay[i].txID \in T /\ Replay[i] = head[headMap[Replay[i].txID].index].data
  <2>1. PICK j \in Index : Replay[i] = head[j].data /\ Used(j) BY <1>3, <1>5
  <2>2. head[j].txID \in T /\ headMap[head[j].txID].index = j BY <1>2, <2>1
  <2>3. head[j].data.txID = head[j].txID BY <1>2, <2>2
  <2> QED BY <2>1, <2>2, <2>3
<1>7. ASSUME NEW t \in T PROVE \E i \in 1 .. n : Replay[i].txID = t
  <2>1. headMap[t].index \in Index /\ head[headMap[t].index].data # NoData BY <1>2, <1>3, <1>4
  <2>2. PICK i \in DOMAIN Replay : Replay[i] = head[headMap[t].index].data BY <1>5, <2>1
  <2> QED BY <1>2, <1>5, <2>2
<1> HIDE DEF n, T
<1>8. f \in Surjection(1 .. n, T) BY <1>6, <1>7 DEF Surjection
<1>9. g \in Surjection(1 .. n, T)
  <2>1. \A p \in 1 .. n : head[At(p)].txID \in T BY <1>1, <1>2
  <2>2. \A t \in T : \E p \in 1 .. n : head[At(p)].txID = t
    <3> SUFFICES ASSUME NEW t \in T PROVE \E p \in 1 .. n : head[At(p)].txID = t
      OBVIOUS
    <3>1. PICK p \in 1 .. n : At(p) = headMap[t].index BY <1>1, <1>2, <1>4
    <3> QED BY <1>2, <3>1
  <2> QED BY <2>1, <2>2 DEF Surjection
<1>10. g \in Injection(1 .. n, T)
  <2>1. ASSUME NEW p \in 1 .. n, NEW q \in 1 .. n, head[At(p)].txID = head[At(q)].txID
        PROVE  p = q
    <3>1. At(p) = At(q) BY <1>1, <1>2, <2>1
    <3> QED BY <1>1, <3>1
  <2> QED BY <1>9, <2>1 DEF Injection, IsInjective, Surjection
<1>11. IsFiniteSet(1 .. n) BY <1>1, FS_Interval
<1> HIDE DEF f, g
<1>12. Cardinality(T) = Cardinality(1 .. n) BY <1>9, <1>10, <1>11, FS_Surjection
<1>13. f \in Injection(1 .. n, T) BY <1>8, <1>11, <1>12, FS_Surjection
<1>14. \A i, j \in 1 .. n : Replay[i].txID = Replay[j].txID => i = j
  BY <1>13 DEF Injection, IsInjective, f
<1> QED BY <1>5, <1>6, <1>7, <1>14 DEF T

\* The event that begins the job of t is yet to be broadcast.
Announced(t) ==
  \E i \in DOMAIN Pending : Pending[i].txID = t /\ Pending[i].state = StateSubmitted

\* It comes before any other event of its job, which the ring has not seen.
BeginsOnce ==
  store = "mock" =>
    /\ \A i, j \in DOMAIN Pending :
         i < j /\ Pending[j].state = StateSubmitted => Pending[i].txID # Pending[j].txID
    /\ \A t \in DOMAIN headMap : ~Announced(t)

\* add enters no transaction but that of the event it is called with.
LEMMA AddEnters ==
  ASSUME NEW e \in Events, Add(e)
  PROVE  DOMAIN headMap' \subseteq DOMAIN headMap \cup {e.txID}
<1>1. CASE AddNew(e) BY <1>1 DEF AddNew
<1>2. CASE AddStale(e) BY <1>2 DEF AddStale, bufferVars
<1>3. CASE AddUpdate(e) BY <1>3 DEF AddUpdate
<1> QED BY <1>1, <1>2, <1>3 DEF Add

\* The store is chosen once.
LEMMA StoreFixed == [Next]_vars => store' = store
BY DEF Next, StoreRuns, Notified, Broadcast, Restart, Home, Table, NewTable, TxPage, Stream,
       Swap, Break, vars

\* How what is pending changes, and the ring with it.
LEMMA PendingStep ==
  ASSUME PageTyped, store = "mock", [Next]_vars
  PROVE  \/ UNCHANGED <<Pending, bufferVars>>
         \/ /\ UNCHANGED bufferVars
            /\ StoreRuns
            /\ \/ \E i \in Slots : NextEventMade(i) /\ Pending' = Append(Pending, made')
               \/ Pending = Append(Pending', made) /\ Pending' = eventsCh /\ InHand
         \/ Broadcast
         \/ Restart /\ Pending' = << >> /\ DOMAIN headMap' = {}
<1>1. CASE StoreRuns
  <2>1. ASSUME NEW i \in Slots, Mock!NextEvent(i)
        PROVE  NextEventMade(i) /\ Pending' = Append(Pending, made')
    BY <2>1, NextEventMakes, PendingStore DEF PageTyped
  <2>2. Mock!SeeDone => InHand BY DEF Mock!SeeDone, InHand
  <2>3. (\E i \in Slots : Mock!NextEvent(i)) \/ Mock!Record \/ Mock!Send \/ Mock!SeeDone
          \/ Mock!Stop
    BY <1>1 DEF StoreRuns, Mock!Run
  <2>4. UNCHANGED bufferVars BY <1>1 DEF StoreRuns
  <2> QED BY <1>1, <2>1, <2>2, <2>3, <2>4, PendingStore
<1>2. CASE Notified BY <1>2 DEF Notified
<1>3. CASE Restart
  <2>1. eventsCh' = << >> /\ pc' = "next" /\ DOMAIN headMap' = {}
    BY <1>3 DEF Restart, Mock!Restart
  <2> QED BY <1>3, <2>1 DEF Pending, InHand
<1>4. CASE Home \/ Table \/ (\E i \in DOMAIN rows : TxPage(i)) \/ Stream \/ Swap \/ Break
             \/ UNCHANGED vars
  <2>1. UNCHANGED <<bufferVars, mockVars, eventsCh>>
    BY <1>4 DEF Home, Table, NewTable, TxPage, Stream, Swap, Break, vars
  <2> QED BY <2>1 DEF mockVars, Pending, InHand
<1> QED BY <1>1, <1>2, <1>3, <1>4 DEF Next

\* The hash of a job that begins is that of no event or row there is.
LEMMA NewHash ==
  ASSUME PageTyped, CopiesTold, store = "mock", NEW t, t \notin used
  PROVE  /\ \A e \in Heard : e.txID # t
         /\ \A row \in TableRows : row.id # t
         /\ t \notin DOMAIN headMap
<1>1. \A row \in Copies : row.id \in used BY DEF CopiesTold, Told
<1>2. \A e \in Heard : e.txID \in used
  <2>1. \A e \in Heard : Row(e) \in Copies /\ Row(e).id = e.txID BY HeardTyped, RowTyped DEF Copies
  <2> QED BY <1>1, <2>1
<1>3. ASSUME t \in DOMAIN headMap PROVE FALSE
  <2> DEFINE d == head[headMap[t].index].data
  <2>1. headMap[t].index \in Index /\ head[headMap[t].index].txID = t /\ d.txID = t /\ t \in TxIDs
    BY <1>3 DEF PageTyped, BufferInv, BufferTypeOK, MapMatchesRing, Header
  <2>2. d # NoData
    <3>1. Used(headMap[t].index) BY <2>1, UsedSlot DEF PageTyped, BufferInv
    <3> QED BY <2>1, <3>1, UsedSlot, NoDataAssumption DEF PageTyped, BufferInv
  <2>3. d \in Heard BY <2>1, <2>2 DEF RingEvents, Heard
  <2> QED BY <1>2, <2>1, <2>3
<1> QED BY <1>1, <1>2, <1>3 DEF Copies

\* Nothing is announced at first.
LEMMA BeginsInit == Init => BeginsOnce
<1> SUFFICES ASSUME Init PROVE BeginsOnce
  OBVIOUS
<1>1. eventsCh = << >> /\ pc = "next" /\ DOMAIN headMap = {}
  BY DEF Init, Mock!New, NewEventBuffer
<1>2. Pending = << >> BY <1>1 DEF Pending, InHand
<1> QED BY <1>1, <1>2 DEF BeginsOnce

\* nextEvent begins a job once.
LEMMA BeginsMade ==
  ASSUME PageTyped, CopiesTold, BeginsOnce, store = "mock", UNCHANGED bufferVars,
         NEW i \in Slots, NextEventMade(i), Pending' = Append(Pending, made')
  PROVE  BeginsOnce'
<1> DEFINE n == Len(Pending)
<1>1. Pending \in Seq(Events) /\ made' \in Events BY HeardTyped DEF NextEventMade
<1>2. /\ n \in Nat /\ DOMAIN Pending = 1 .. n /\ DOMAIN Pending' = 1 .. n + 1
      /\ Pending'[n + 1] = made' /\ \A j \in 1 .. n : Pending'[j] = Pending[j]
  BY <1>1
<1>3. made'.state = StateSubmitted =>
        /\ \A j \in 1 .. n : Pending[j].txID # made'.txID
        /\ made'.txID \notin DOMAIN headMap
  <2> SUFFICES ASSUME made'.state = StateSubmitted
               PROVE  /\ \A j \in 1 .. n : Pending[j].txID # made'.txID
                      /\ made'.txID \notin DOMAIN headMap
    OBVIOUS
  <2>1. made'.txID \notin used BY DEF NextEventMade
  <2>2. \A j \in 1 .. n : Pending[j] \in Heard BY <1>2 DEF Heard, ToSet
  <2> QED BY <2>1, <2>2, NewHash
<1>4. /\ \A k, j \in DOMAIN Pending :
           k < j /\ Pending[j].state = StateSubmitted => Pending[k].txID # Pending[j].txID
      /\ \A t \in DOMAIN headMap : ~Announced(t)
  BY DEF BeginsOnce
<1> HIDE DEF n
<1>5. \A k, j \in DOMAIN Pending' :
        k < j /\ Pending'[j].state = StateSubmitted => Pending'[k].txID # Pending'[j].txID
  <2> SUFFICES ASSUME NEW k \in DOMAIN Pending', NEW j \in DOMAIN Pending',
                      k < j, Pending'[j].state = StateSubmitted
               PROVE  Pending'[k].txID # Pending'[j].txID
    OBVIOUS
  <2>1. k \in 1 .. n BY <1>2
  <2>2. CASE j = n + 1 BY <1>2, <1>3, <2>1, <2>2
  <2>3. CASE j \in 1 .. n BY <1>2, <1>4, <2>1, <2>3
  <2> QED BY <1>2, <2>2, <2>3
<1>6. \A t \in DOMAIN headMap : ~Announced(t)'
  BY <1>2, <1>3, <1>4 DEF Announced
<1> QED BY <1>5, <1>6 DEF BeginsOnce, bufferVars

\* A broadcast announces it, and nothing announces it again.
LEMMA BeginsBroadcast ==
  ASSUME PageTyped, BeginsOnce, Broadcast, store = "mock"
  PROVE  /\ BeginsOnce'
         /\ \A t : Announced(t)' => Announced(t) /\ t # Head(eventsCh).txID
<1> DEFINE n == Len(Pending)
           e == Head(eventsCh)
<1>1. /\ Pending \in Seq(Events) /\ Pending # << >> /\ e = Head(Pending) /\ Pending' = Tail(Pending)
      /\ e \in Events
  BY HeardTyped, PendingBroadcast
<1>2. /\ n \in Nat /\ DOMAIN Pending = 1 .. n /\ 1 \in DOMAIN Pending
      /\ DOMAIN Pending' = 1 .. n - 1 /\ e = Pending[1]
      /\ \A j \in 1 .. n - 1 : j + 1 \in DOMAIN Pending /\ Pending'[j] = Pending[j + 1]
  BY <1>1
<1>3. /\ \A k, j \in DOMAIN Pending :
           k < j /\ Pending[j].state = StateSubmitted => Pending[k].txID # Pending[j].txID
      /\ \A t \in DOMAIN headMap : ~Announced(t)
  BY DEF BeginsOnce
<1>4. DOMAIN headMap' \subseteq DOMAIN headMap \cup {e.txID}
  BY <1>1, AddEnters DEF Broadcast
<1> HIDE DEF n, e
<1>5. \A k, j \in DOMAIN Pending' :
        k < j /\ Pending'[j].state = StateSubmitted => Pending'[k].txID # Pending'[j].txID
  BY <1>2, <1>3
<1>6. \A t : Announced(t)' => Announced(t) /\ t # e.txID
  <2> SUFFICES ASSUME NEW t, NEW j \in 1 .. n - 1, Pending'[j].txID = t,
                      Pending'[j].state = StateSubmitted
               PROVE  Announced(t) /\ t # e.txID
    BY <1>2 DEF Announced
  <2> QED BY <1>2, <1>3 DEF Announced
<1>7. \A t \in DOMAIN headMap' : ~Announced(t)' BY <1>3, <1>4, <1>6
<1> QED BY <1>5, <1>6, <1>7 DEF BeginsOnce, e

\* Run does not send the last event when the store stops.
LEMMA PendingDropped ==
  ASSUME PageTyped, InHand, Pending = Append(Pending', made), Pending' = eventsCh
  PROVE  /\ \A j \in DOMAIN Pending' : j \in DOMAIN Pending /\ Pending'[j] = Pending[j]
         /\ \A t : Announced(t)' => Announced(t)
<1>1. eventsCh \in Seq(Events) /\ made \in Events BY DEF PageTyped, TypeOK, StoreTyped
<1>2. \A j \in DOMAIN eventsCh : j \in DOMAIN Pending /\ Pending[j] = eventsCh[j] BY <1>1
<1> QED BY <1>2 DEF Announced

\* No step announces a job twice, or one that the ring has.
LEMMA BeginsStep == PageTyped /\ CopiesTold /\ BeginsOnce /\ [Next]_vars => BeginsOnce'
<1> SUFFICES ASSUME PageTyped, CopiesTold, BeginsOnce, [Next]_vars, store' = "mock"
             PROVE  BeginsOnce'
  BY DEF BeginsOnce
<1>1. store = "mock" BY StoreFixed
<1>2. CASE Broadcast BY <1>1, <1>2, BeginsBroadcast
<1>3. CASE Restart /\ DOMAIN headMap' = {} /\ Pending' = << >> BY <1>3 DEF BeginsOnce
<1>4. CASE UNCHANGED <<Pending, bufferVars>>
  BY <1>1, <1>4 DEF BeginsOnce, bufferVars, Announced
<1>5. CASE UNCHANGED bufferVars /\ Pending = Append(Pending', made) /\ Pending' = eventsCh /\ InHand
  <2>1. /\ \A j \in DOMAIN Pending' : j \in DOMAIN Pending /\ Pending'[j] = Pending[j]
        /\ \A t : Announced(t)' => Announced(t)
    BY <1>5, PendingDropped
  <2>2. headMap' = headMap BY <1>5 DEF bufferVars
  <2> QED BY <1>1, <2>1, <2>2 DEF BeginsOnce
<1>6. ASSUME NEW i \in Slots, NextEventMade(i), Pending' = Append(Pending, made'),
             UNCHANGED bufferVars
      PROVE  BeginsOnce'
  BY <1>1, <1>6, BeginsMade
<1> QED BY <1>1, <1>2, <1>3, <1>4, <1>5, <1>6, PendingStep

\* The messages under way that insert a row of t.
Inserts(t) == {i \in DOMAIN ch : ch[i].name = EventTXRow /\ ch[i].row.id = t}

\* A row of t that the open connection has yet to be sent.
ToCome(t) == IF conn = "open" /\ Announced(t) THEN 1 ELSE 0

\* The rows of t that there are, that are under way and that will be.
RowsCounted ==
  store = "mock" /\ query = NoQuery =>
    \A t \in TxIDs : Cardinality(RowsOf(t)) + Cardinality(Inserts(t)) + ToCome(t) <= connects

\* Positions that move by one are as many.
LEMMA Shifted ==
  ASSUME NEW S \in SUBSET Nat, NEW T, IsFiniteSet(S), T = {i + 1 : i \in S}
  PROVE  IsFiniteSet(T) /\ Cardinality(T) = Cardinality(S)
<1> DEFINE f == [i \in S |-> i + 1]
<1>1. f \in Bijection(S, T) BY DEF Bijection, Injection, IsInjective, Surjection
<1>2. ExistsBijection(S, T) BY <1>1 DEF ExistsBijection
<1> QED BY <1>2, FS_Bijection

\* The positions of a sequence are finite.
LEMMA PositionsFinite ==
  ASSUME NEW S, NEW s \in Seq(S), NEW T \in SUBSET DOMAIN s
  PROVE  IsFiniteSet(T) /\ Cardinality(T) \in Nat /\ T \in SUBSET Nat
<1>1. DOMAIN s = 1 .. Len(s) /\ Len(s) \in Nat OBVIOUS
<1>2. IsFiniteSet(1 .. Len(s)) BY <1>1, FS_Interval
<1>3. IsFiniteSet(T) BY <1>1, <1>2, FS_Subset
<1> QED BY <1>1, <1>3, FS_CardinalityType

\* One element more, and at most one element.
LEMMA OneMore ==
  ASSUME NEW S, NEW x, IsFiniteSet(S), NEW T, S \subseteq T, T \subseteq S \cup {x}
  PROVE  /\ IsFiniteSet(T) /\ Cardinality(T) \in Nat /\ Cardinality(S) \in Nat
         /\ Cardinality(T) <= Cardinality(S) + 1
         /\ x \notin T => Cardinality(T) = Cardinality(S)
         /\ x \in T /\ x \notin S => Cardinality(T) = Cardinality(S) + 1
<1>1. /\ IsFiniteSet(S \cup {x})
      /\ Cardinality(S \cup {x}) = IF x \in S THEN Cardinality(S) ELSE Cardinality(S) + 1
  BY FS_AddElement
<1>2. T = S \/ T = S \cup {x} OBVIOUS
<1>3. Cardinality(S) \in Nat BY FS_CardinalityType
<1>4. CASE T = S BY <1>3, <1>4
<1>5. CASE T = S \cup {x} /\ T # S
  <2>1. x \in T /\ x \notin S BY <1>5
  <2> QED BY <1>1, <1>3, <1>5, <2>1
<1> QED BY <1>2, <1>4, <1>5

\* What there is to count.
LEMMA CountTyped ==
  ASSUME PageTyped
  PROVE  /\ connects \in Nat /\ ch \in Seq(Message) /\ rows \in Seq(Rows)
         /\ \A t : /\ IsFiniteSet(RowsOf(t)) /\ Cardinality(RowsOf(t)) \in Nat
                   /\ RowsOf(t) \in SUBSET Nat /\ RowsOf(t) \subseteq DOMAIN rows
                   /\ IsFiniteSet(Inserts(t)) /\ Cardinality(Inserts(t)) \in Nat
                   /\ Inserts(t) \in SUBSET Nat /\ Inserts(t) \subseteq DOMAIN ch
                   /\ ToCome(t) \in 0 .. 1
<1>1. /\ connects \in Nat /\ ch \in Seq(Message) /\ rows \in Seq(Rows)
  BY PageAssumption DEF PageTyped, TypeOK
<1>2. \A t : RowsOf(t) \subseteq DOMAIN rows /\ Inserts(t) \subseteq DOMAIN ch
  BY DEF RowsOf, Inserts
<1>3. ASSUME NEW t
      PROVE  /\ IsFiniteSet(RowsOf(t)) /\ Cardinality(RowsOf(t)) \in Nat
             /\ RowsOf(t) \in SUBSET Nat /\ RowsOf(t) \subseteq DOMAIN rows
             /\ IsFiniteSet(Inserts(t)) /\ Cardinality(Inserts(t)) \in Nat
             /\ Inserts(t) \in SUBSET Nat /\ Inserts(t) \subseteq DOMAIN ch
             /\ ToCome(t) \in 0 .. 1
  <2>1. RowsOf(t) \in SUBSET DOMAIN rows /\ Inserts(t) \in SUBSET DOMAIN ch BY <1>2
  <2>2. IsFiniteSet(RowsOf(t)) /\ Cardinality(RowsOf(t)) \in Nat /\ RowsOf(t) \in SUBSET Nat
    BY <1>1, <2>1, PositionsFinite
  <2>3. IsFiniteSet(Inserts(t)) /\ Cardinality(Inserts(t)) \in Nat /\ Inserts(t) \in SUBSET Nat
    BY <1>1, <2>1, PositionsFinite
  <2> QED BY <1>2, <2>2, <2>3 DEF ToCome
<1> QED BY <1>1, <1>3

\* A swap moves a message from those under way to the table.
LEMMA SwapCounts ==
  ASSUME PageTyped, Swap, NEW t
  PROVE  Cardinality(RowsOf(t)') + Cardinality(Inserts(t)')
           = Cardinality(RowsOf(t)) + Cardinality(Inserts(t))
<1> DEFINE message == Head(ch)
<1>1. /\ ch \in Seq(Message) /\ rows \in Seq(Rows) /\ ch # << >> /\ ch' = Tail(ch)
      /\ UNCHANGED <<bufferVars, store, mockVars, eventsCh, view, query, conn, breaks, connects,
                     lost>>
  BY DEF PageTyped, TypeOK, Swap
<1>2. /\ 1 \in DOMAIN ch /\ message = ch[1] /\ message \in Message /\ message.row \in Rows
      /\ \A i \in DOMAIN ch' : i + 1 \in DOMAIN ch /\ ch'[i] = ch[i + 1]
      /\ \A i \in DOMAIN ch \ {1} : i - 1 \in DOMAIN ch' /\ ch[i] = ch'[i - 1]
  BY <1>1, MessagesTyped
<1>3. /\ IsFiniteSet(RowsOf(t)) /\ RowsOf(t) \in SUBSET Nat
      /\ IsFiniteSet(Inserts(t)) /\ Inserts(t) \in SUBSET Nat
      /\ Cardinality(RowsOf(t)) \in Nat /\ Cardinality(Inserts(t)) \in Nat
  BY CountTyped
<1> DEFINE S == Inserts(t)'
           R == RowsOf(t)'
<1>4. S \in SUBSET Nat /\ IsFiniteSet(S) /\ Cardinality(S) \in Nat
  <2>1. ch' \in Seq(Message) /\ S \in SUBSET DOMAIN ch' BY <1>1 DEF Inserts
  <2> QED BY <2>1, PositionsFinite
<1>5. Inserts(t) \ {1} = {i + 1 : i \in S}
  <2>1. ASSUME NEW i \in S PROVE i + 1 \in Inserts(t) \ {1}
    <3>1. i \in DOMAIN ch' /\ ch'[i].name = EventTXRow /\ ch'[i].row.id = t
      BY <1>1, <2>1 DEF Inserts
    <3>2. ch' \in Seq(Message) BY <1>1
    <3>3. i \in Nat \ {0} BY <3>1, <3>2
    <3>4. i + 1 \in DOMAIN ch /\ ch[i + 1] = ch'[i] BY <1>2, <3>1
    <3>5. i + 1 \in Inserts(t) BY <3>1, <3>4 DEF Inserts
    <3> QED BY <3>3, <3>5
  <2>2. \A i \in Inserts(t) \ {1} : i - 1 \in S /\ i = (i - 1) + 1
    BY <1>2, <1>3 DEF Inserts
  <2> HIDE DEF S
  <2> QED BY <2>1, <2>2
<1>6. Cardinality(S) = IF 1 \in Inserts(t) THEN Cardinality(Inserts(t)) - 1
                                          ELSE Cardinality(Inserts(t))
  <2>1. Cardinality(Inserts(t) \ {1}) = Cardinality(S) BY <1>4, <1>5, Shifted
  <2>2. Cardinality(Inserts(t) \ {1}) = IF 1 \in Inserts(t) THEN Cardinality(Inserts(t)) - 1
                                                           ELSE Cardinality(Inserts(t))
    BY <1>3, FS_RemoveElement
  <2> QED BY <2>1, <2>2
<1>7. 1 \in Inserts(t) <=> message.name = EventTXRow /\ message.row.id = t
  BY <1>2 DEF Inserts
<1> HIDE DEF message, S
<1>8. CASE message.name = EventTXRow
  <2>1. rows' = << message.row >> \o rows BY <1>8 DEF Swap, message
  <2>2. /\ 1 \in DOMAIN rows' /\ rows'[1] = message.row
        /\ \A i \in DOMAIN rows : i + 1 \in DOMAIN rows' /\ rows'[i + 1] = rows[i]
        /\ \A i \in DOMAIN rows' \ {1} : i - 1 \in DOMAIN rows /\ rows'[i] = rows[i - 1]
        /\ \A i \in DOMAIN rows : i \in Nat \ {0}
        /\ \A i \in DOMAIN rows' : i \in Nat \ {0}
    BY <1>1, <1>2, <2>1, PrependElements
  <2>3. R \ {1} = {i + 1 : i \in RowsOf(t)}
    <3>1. \A i \in RowsOf(t) : i + 1 \in R \ {1} BY <2>2 DEF RowsOf
    <3>2. \A i \in R \ {1} : i - 1 \in RowsOf(t) /\ i = (i - 1) + 1
      BY <2>2 DEF RowsOf
    <3> HIDE DEF R
    <3> QED BY <3>1, <3>2
  <2>4. 1 \in R <=> message.row.id = t BY <2>2 DEF RowsOf
  <2> HIDE DEF R
  <2>5. IsFiniteSet(R \ {1}) /\ Cardinality(R \ {1}) = Cardinality(RowsOf(t))
    BY <1>3, <2>3, Shifted
  <2>6. R \ {1} \subseteq R /\ R \subseteq (R \ {1}) \cup {1} OBVIOUS
  <2>7. Cardinality(R) = IF 1 \in R THEN Cardinality(RowsOf(t)) + 1 ELSE Cardinality(RowsOf(t))
    BY <2>5, <2>6, OneMore
  <2> QED BY <1>3, <1>6, <1>7, <1>8, <2>4, <2>7 DEF R, S
<1>9. CASE message.name # EventTXRow
  <2>1. rows' = [i \in DOMAIN rows |-> IF rows[i].swap = message.name THEN message.row ELSE rows[i]]
    BY <1>9 DEF Swap, message
  <2>2. message.name = message.row.id
    BY <1>2, <1>9 DEF PageTyped, TableTyped, message
  <2>3. \A r \in Rows : r.swap = r.id BY DEF Rows, Row
  <2>4. \A i \in DOMAIN rows : rows'[i].id = rows[i].id BY <1>1, <2>1, <2>2, <2>3
  <2>5. R = RowsOf(t) BY <2>1, <2>4 DEF RowsOf
  <2> QED BY <1>6, <1>7, <1>9, <2>5 DEF R, S
<1> QED BY <1>8, <1>9

\* RowsCounted, of one transaction.
Counted(t) == Cardinality(RowsOf(t)) + Cardinality(Inserts(t)) + ToCome(t) <= connects

\* A step that adds no row of t, to the table or on its way.
LEMMA CountKept ==
  ASSUME PageTyped, NEW t, Counted(t), connects' = connects,
         RowsOf(t)' \subseteq RowsOf(t), Inserts(t)' \subseteq Inserts(t),
         ToCome(t)' = 1 => ToCome(t) = 1
  PROVE  Counted(t)'
<1> DEFINE R == RowsOf(t)'
           S == Inserts(t)'
<1>1. /\ connects \in Nat /\ IsFiniteSet(RowsOf(t)) /\ Cardinality(RowsOf(t)) \in Nat
      /\ IsFiniteSet(Inserts(t)) /\ Cardinality(Inserts(t)) \in Nat /\ ToCome(t) \in 0 .. 1
  BY CountTyped
<1>2. R \subseteq RowsOf(t) /\ S \subseteq Inserts(t) OBVIOUS
<1>3. ToCome(t)' \in 0 .. 1 BY DEF ToCome
<1> HIDE DEF R, S
<1>4. /\ Cardinality(R) \in Nat /\ Cardinality(R) <= Cardinality(RowsOf(t))
      /\ Cardinality(S) \in Nat /\ Cardinality(S) <= Cardinality(Inserts(t))
  BY <1>1, <1>2, FS_Subset, FS_CardinalityType
<1>5. ToCome(t)' <= ToCome(t) BY <1>1, <1>3
<1>6. Cardinality(R) + Cardinality(S) + ToCome(t)' <= connects
  BY <1>1, <1>3, <1>4, <1>5 DEF Counted
<1> QED BY <1>6 DEF Counted, R, S

\* A job that is announced has no row, and the page was connected to be sent it.
LEMMA CountMade ==
  ASSUME PageTyped, CopiesTold, store = "mock", NEW t, t \notin used,
         UNCHANGED <<rows, ch, conn, connects>>
  PROVE  Counted(t)'
<1>1. \A row \in TableRows : row.id # t BY NewHash
<1>2. RowsOf(t)' = {} /\ Inserts(t)' = {}
  BY <1>1 DEF RowsOf, Inserts, TableRows, ToSet
<1>3. connects \in Nat /\ (conn = "open" => connects > 0)
  BY CountTyped DEF PageTyped, TableTyped
<1>4. ToCome(t)' \in 0 .. 1 /\ (conn # "open" => ToCome(t)' = 0) BY DEF ToCome
<1>5. Cardinality(RowsOf(t)') = 0 /\ Cardinality(Inserts(t)') = 0 BY <1>2, FS_EmptySet
<1>6. CASE conn = "open"
  <2>1. connects > 0 BY <1>3, <1>6
  <2> QED BY <1>3, <1>4, <1>5, <2>1 DEF Counted
<1>7. CASE conn # "open"
  <2>1. ToCome(t)' = 0 BY <1>4, <1>7
  <2> QED BY <1>3, <1>5, <2>1 DEF Counted
<1> QED BY <1>6, <1>7

\* The event that begins a job is announced until it is sent.
LEMMA CountBroadcast ==
  ASSUME PageTyped, BeginsOnce, store = "mock", Broadcast, NEW t \in TxIDs, Counted(t)
  PROVE  Counted(t)'
<1> DEFINE e == Head(eventsCh)
           x == Len(ch) + 1
<1>1. /\ UNCHANGED <<rows, conn, connects>> /\ News(e) BY DEF Broadcast
<1>2. \A u : Announced(u)' => Announced(u) /\ u # e.txID BY BeginsBroadcast
<1>3. RowsOf(t)' = RowsOf(t) BY <1>1 DEF RowsOf
<1>4. e \in Events /\ Pending \in Seq(Events) /\ Pending # << >> /\ e = Head(Pending)
  BY HeardTyped, PendingBroadcast
<1>5. Pending[1] = e /\ 1 \in DOMAIN Pending BY <1>4, FirstOf
<1> HIDE DEF e
<1>6. CASE ch' = ch
  <2>1. Inserts(t)' = Inserts(t) BY <1>6 DEF Inserts
  <2> QED BY <1>1, <1>2, <1>3, <2>1, CountKept DEF ToCome
<1>7. CASE conn = "open" /\ ch' = Append(ch, WriteEvent(e))
  <2>1. ch \in Seq(Message) BY CountTyped
  <2>2. WriteEvent(e).name = EventName(e) /\ WriteEvent(e).row.id = e.txID
    BY DEF WriteEvent, Row
  <2>3. /\ DOMAIN ch' = DOMAIN ch \cup {x} /\ x \notin DOMAIN ch /\ ch'[x] = WriteEvent(e)
        /\ \A i \in DOMAIN ch : ch'[i] = ch[i]
    BY <1>7, <2>1
  <2> HIDE DEF x
  <2>4. Inserts(t) \subseteq Inserts(t)' /\ Inserts(t)' \subseteq Inserts(t) \cup {x}
    BY <2>3 DEF Inserts
  <2>5. CASE x \notin Inserts(t)'
    <3>1. Inserts(t)' = Inserts(t) BY <2>4, <2>5, <2>3 DEF Inserts
    <3> QED BY <1>1, <1>2, <1>3, <3>1, CountKept DEF ToCome
  <2>6. CASE x \in Inserts(t)'
    <3>1. EventName(e) = EventTXRow /\ e.txID = t BY <2>2, <2>3, <2>6 DEF Inserts
    <3>2. e.state = StateSubmitted BY <1>4, <3>1, PageAssumption DEF EventName, Events
    <3>3. Announced(t) BY <1>5, <3>1, <3>2 DEF Announced
    <3>4. ~Announced(t)' BY <1>2, <3>1
    <3>5. ToCome(t) = 1 /\ ToCome(t)' = 0 BY <1>7, <3>3, <3>4 DEF ToCome
    <3>6. /\ connects \in Nat /\ Cardinality(RowsOf(t)) \in Nat
          /\ IsFiniteSet(Inserts(t)) /\ Cardinality(Inserts(t)) \in Nat
      BY CountTyped
    <3>7. /\ Cardinality(Inserts(t)') \in Nat
          /\ Cardinality(Inserts(t)') <= Cardinality(Inserts(t)) + 1
      BY <2>4, <3>6, OneMore
    <3>8. Cardinality(RowsOf(t)') = Cardinality(RowsOf(t)) BY <1>3
    <3> QED BY <1>1, <3>5, <3>6, <3>7, <3>8 DEF Counted
  <2> QED BY <2>5, <2>6
<1>8. ch' = ch \/ (conn = "open" /\ ch' = Append(ch, WriteEvent(e))) BY <1>1 DEF News
<1> QED BY <1>6, <1>7, <1>8

\* A page that connects is sent one row of a job in the ring, and no other of
\* it will be sent as new.
LEMMA CountStream ==
  ASSUME PageTyped, BeginsOnce, store = "mock", query = NoQuery, Stream,
         NEW t \in TxIDs, Counted(t)
  PROVE  Counted(t)'
<1> DEFINE S == Inserts(t)'
<1>1. /\ connects' = connects + 1 /\ ch' = Prefilled /\ conn # "open"
      /\ UNCHANGED <<bufferVars, mockVars, eventsCh, rows>>
  BY DEF Stream
<1>2. /\ connects \in Nat /\ Cardinality(RowsOf(t)) \in Nat /\ Cardinality(Inserts(t)) \in Nat
      /\ ToCome(t) \in 0 .. 1
  BY CountTyped
<1>3. RowsOf(t)' = RowsOf(t) /\ (Announced(t)' <=> Announced(t))
  BY <1>1 DEF RowsOf, Announced, Pending, InHand, mockVars
<1>4. BufferInv /\ BufferTypeOK BY DEF PageTyped, TypeOK
<1>5. /\ DOMAIN Prefilled = DOMAIN Replay
      /\ \A i \in DOMAIN Replay : Prefilled[i].row.id = Replay[i].txID
  BY DEF Prefilled, Renamed, WriteEvent, Row
<1>6. \A i \in S : i \in DOMAIN Replay /\ Replay[i].txID = t BY <1>1, <1>5 DEF Inserts
<1>7. \A i, j \in S : i = j BY <1>4, <1>6, ReplayOnce
<1>8. S # {} => ~Announced(t) BY <1>4, <1>6, ReplayOnce DEF BeginsOnce
<1> HIDE DEF S
<1>9. S = {} \/ \E i : S = {i} BY <1>7
<1>10. Cardinality(S) \in 0 .. 1 /\ (S = {} => Cardinality(S) = 0)
  <2>1. CASE S = {} BY <2>1, FS_EmptySet
  <2>2. ASSUME NEW i, S = {i} PROVE Cardinality(S) \in 0 .. 1 /\ S # {}
    <3>1. Cardinality(S) = 1 BY <2>2, FS_Singleton
    <3> QED BY <2>2, <3>1
  <2> QED BY <1>9, <2>1, <2>2
<1>11. ToCome(t)' \in 0 .. 1 /\ (S # {} => ToCome(t)' = 0) BY <1>3, <1>8 DEF ToCome
<1>12. Cardinality(S) + ToCome(t)' <= 1 BY <1>10, <1>11
<1>13. Cardinality(RowsOf(t)) <= connects BY <1>2 DEF Counted
<1>14. Cardinality(RowsOf(t)') + Cardinality(S) + ToCome(t)' <= connects'
  BY <1>1, <1>2, <1>3, <1>10, <1>11, <1>12, <1>13
<1> QED BY <1>14 DEF Counted, S

\* A page that is left or that was never connected has no rows.
LEMMA CountEmpty ==
  ASSUME NEW t, rows' = << >>, ch' = << >>, conn' # "open", connects' = 0
  PROVE  Counted(t)'
<1>1. RowsOf(t)' = {} /\ Inserts(t)' = {} /\ ToCome(t)' = 0 BY DEF RowsOf, Inserts, ToCome
<1>2. Cardinality(RowsOf(t)') = 0 /\ Cardinality(Inserts(t)') = 0 BY <1>1, FS_EmptySet
<1> QED BY <1>1, <1>2 DEF Counted

\* Nothing is shown at first.
LEMMA CountInit == Init => RowsCounted
<1> SUFFICES ASSUME Init, NEW t PROVE Counted(t)
  BY DEF RowsCounted, Counted
<1>1. rows = << >> /\ ch = << >> /\ conn # "open" /\ connects = 0 BY DEF Init
<1>2. RowsOf(t) = {} /\ Inserts(t) = {} /\ ToCome(t) = 0 BY <1>1 DEF RowsOf, Inserts, ToCome
<1>3. Cardinality(RowsOf(t)) = 0 /\ Cardinality(Inserts(t)) = 0 BY <1>2, FS_EmptySet
<1> QED BY <1>1, <1>2, <1>3 DEF Counted

\* No step adds a row of a job that no connection accounts for.
LEMMA CountStep ==
  PageTyped /\ CopiesTold /\ BeginsOnce /\ RowsCounted /\ [Next]_vars => RowsCounted'
<1> SUFFICES ASSUME PageTyped, CopiesTold, BeginsOnce, RowsCounted, [Next]_vars,
                    store' = "mock", query' = NoQuery, NEW t \in TxIDs
             PROVE  Counted(t)'
  BY DEF RowsCounted, Counted
<1>1. store = "mock" BY StoreFixed
<1>2. query = NoQuery => Counted(t) BY <1>1 DEF RowsCounted, Counted
<1>3. CASE StoreRuns
  <2>1. UNCHANGED <<rows, ch, conn, connects, query>> BY <1>3 DEF StoreRuns, pageVars
  <2>2. RowsOf(t)' = RowsOf(t) /\ Inserts(t)' = Inserts(t) BY <2>1 DEF RowsOf, Inserts
  <2>3. CASE Announced(t)' => Announced(t)
    <3>1. ToCome(t)' = 1 => ToCome(t) = 1 BY <2>1, <2>3 DEF ToCome
    <3> QED BY <1>2, <2>1, <2>2, <3>1, CountKept
  <2>4. CASE Announced(t)' /\ ~Announced(t)
    <3>1. ASSUME NEW i \in Slots, NextEventMade(i), Pending' = Append(Pending, made')
          PROVE  Counted(t)'
      <4>1. Pending \in Seq(Events) BY HeardTyped
      <4>2. \A j \in DOMAIN Pending' :
              Pending'[j] = made' \/ (j \in DOMAIN Pending /\ Pending'[j] = Pending[j])
        BY <3>1, <4>1
      <4>3. made'.txID = t /\ made'.state = StateSubmitted BY <2>4, <4>2 DEF Announced
      <4>4. t \notin used BY <3>1, <4>3 DEF NextEventMade
      <4> QED BY <1>1, <2>1, <4>4, CountMade
    <3>2. ASSUME Pending = Append(Pending', made), Pending' = eventsCh, InHand
          PROVE  FALSE
      BY <2>4, <3>2, PendingDropped
    <3>3. ~UNCHANGED Pending BY <2>4 DEF Announced
    <3>4. ~Broadcast /\ ~(Restart /\ Pending' = << >>)
      <4>1. ~(Pending' = << >>) BY <2>4 DEF Announced
      <4>2. ~Broadcast
        <5>1. ASSUME Broadcast PROVE FALSE
          <6>1. \A u : Announced(u)' => Announced(u) BY <1>1, <5>1, BeginsBroadcast
          <6> QED BY <2>4, <6>1
        <5> QED BY <5>1
      <4> QED BY <4>1, <4>2
    <3> QED BY <1>1, <3>1, <3>2, <3>3, <3>4, PendingStep
  <2> QED BY <2>3, <2>4
<1>4. CASE Notified BY <1>1, <1>4 DEF Notified
<1>5. CASE Broadcast
  <2>1. query' = query BY <1>5 DEF Broadcast
  <2> QED BY <1>1, <1>2, <1>5, <2>1, CountBroadcast
<1>6. CASE Restart \/ Break
  <2>1. /\ UNCHANGED <<rows, query, connects>> /\ ch' = << >> /\ conn' # "open"
    BY <1>6 DEF Restart, Break
  <2>2. RowsOf(t)' = RowsOf(t) /\ Inserts(t)' = {} /\ ToCome(t)' = 0
    BY <2>1 DEF RowsOf, Inserts, ToCome
  <2> QED BY <1>2, <2>1, <2>2, CountKept
<1>7. CASE Home
  <2>1. rows' = << >> /\ ch' = << >> /\ conn' # "open" /\ connects' = 0
    BY <1>7 DEF Home, NewTable
  <2> QED BY <2>1, CountEmpty
<1>8. CASE Table
  <2>1. PICK match \in SUBSET TxIDs :
          NewTable(Mock!Search(match),
                   [match |-> match,
                    since |-> IF Mock!Search(match) = << >> THEN 0
                              ELSE Second(Mock!Search(match)[1].ts)])
    BY <1>8 DEF Table
  <2>2. query' \in Queries BY <2>1, TypedSearch DEF NewTable
  <2> QED BY <2>2, PageAssumption DEF Queries
<1>9. ASSUME NEW i \in DOMAIN rows, TxPage(i) PROVE Counted(t)'
  <2>1. rows' = << >> /\ ch' = << >> /\ conn' # "open" /\ connects' = 0
    BY <1>9 DEF TxPage
  <2> QED BY <2>1, CountEmpty
<1>10. CASE Stream
  <2>1. query' = query BY <1>10 DEF Stream
  <2> QED BY <1>1, <1>2, <1>10, <2>1, CountStream
<1>11. CASE Swap
  <2>1. UNCHANGED <<bufferVars, mockVars, eventsCh, query, conn, connects>> BY <1>11 DEF Swap
  <2>2. ToCome(t)' = ToCome(t)
    BY <2>1 DEF ToCome, Announced, Pending, InHand, mockVars
  <2>3. Cardinality(RowsOf(t)') + Cardinality(Inserts(t)')
          = Cardinality(RowsOf(t)) + Cardinality(Inserts(t))
    BY <1>11, SwapCounts
  <2> QED BY <1>2, <2>1, <2>2, <2>3 DEF Counted
<1>12. CASE UNCHANGED vars
  <2>1. UNCHANGED <<mockVars, eventsCh, rows, ch, query, conn, connects>>
    BY <1>12 DEF vars, pageVars
  <2>2. RowsOf(t)' = RowsOf(t) /\ Inserts(t)' = Inserts(t) BY <2>1 DEF RowsOf, Inserts
  <2>3. ToCome(t)' = ToCome(t)
    BY <2>1 DEF ToCome, Announced, Pending, InHand, mockVars
  <2> QED BY <1>2, <2>1, <2>2, <2>3, CountKept
<1> QED BY <1>3, <1>4, <1>5, <1>6, <1>7, <1>8, <1>9, <1>10, <1>11, <1>12 DEF Next

\* With events in order a job has at most one row for each time the page was
\* connected: what is replayed is not inserted again as live news.
THEOREM RowsAlwaysOnePerConnection == Spec => []OneRowPerConnection
<1>1. PageTyped /\ RowsCounted => OneRowPerConnection
  <2> SUFFICES ASSUME PageTyped, RowsCounted, store = "mock", query = NoQuery,
                      NEW t \in TxIDs
               PROVE  Cardinality(RowsOf(t)) <= connects
    BY DEF OneRowPerConnection
  <2>1. Counted(t) BY DEF RowsCounted, Counted
  <2>2. /\ connects \in Nat /\ Cardinality(RowsOf(t)) \in Nat /\ Cardinality(Inserts(t)) \in Nat
        /\ ToCome(t) \in 0 .. 1
    BY CountTyped
  <2> QED BY <2>1, <2>2 DEF Counted
<1> QED BY AlwaysTyped, ToldInit, ToldStep, BeginsInit, BeginsStep, CountInit, CountStep, <1>1,
           PTL DEF Spec

------------------------------------------------------------------------------
(* The rows and the time. *)

\* What was broadcast and is in the ring, on its way or, on a page that searches
\* for nothing, in the table.
Sent ==
  {Row(d) : d \in RingEvents} \cup {ch[i].row : i \in DOMAIN ch}
    \cup (IF query = NoQuery THEN ToSet(rows) ELSE {})

\* The events of the mock store are recorded, sent and broadcast in the order
\* of the clock.
Clocked ==
  store = "mock" =>
    /\ Increasing(Pending) /\ Increasing(events)
    /\ pc = "record" => \A e \in ToSet(events) : e.ts < made.ts
    /\ \A row \in Copies : row.ts <= clock
    /\ \A e \in ToSet(Pending) : \A row \in Sent : row.ts < e.ts

\* The parts of a row.
LEMMA RowParts ==
  \A row \in Rows : /\ row.id \in TxIDs /\ row.swap = row.id /\ row.link = row.id
                    /\ row.ts \in Nat /\ row.state \in Int
<1> SUFFICES ASSUME NEW e \in Events
             PROVE  LET row == Row(e) IN
                      /\ row.id \in TxIDs /\ row.swap = row.id /\ row.link = row.id
                      /\ row.ts \in Nat /\ row.state \in Int
  BY DEF Rows
<1>1. /\ Row(e).id = e.txID /\ Row(e).swap = e.txID /\ Row(e).link = e.txID
      /\ Row(e).ts = e.ts /\ Row(e).state = e.state
  BY DEF Row
<1>2. e.txID \in TxIDs /\ e.ts \in Nat /\ e.state \in Int BY EventParts
<1> QED BY <1>1, <1>2

\* What was broadcast is among the copies.
LEMMA SentCopies == Sent \subseteq Copies
BY DEF Sent, Copies, TableRows, Heard

\* Nothing is sent but by a broadcast.
LEMMA SentKept ==
  ASSUME PageTyped,
         StoreRuns \/ Restart \/ Home \/ Table \/ (\E i \in DOMAIN rows : TxPage(i))
           \/ Stream \/ Swap \/ Break \/ UNCHANGED vars
  PROVE  Sent' \subseteq Sent
<1> DEFINE OnWay == {ch[i].row : i \in DOMAIN ch}
<1>1. ch \in Seq(Message) /\ rows \in Seq(Rows) /\ BufferTypeOK BY DEF PageTyped, TypeOK
<1>2. CASE StoreRuns \/ UNCHANGED vars
  <2>1. UNCHANGED <<head, ch, rows, query>>
    BY <1>2 DEF StoreRuns, pageVars, bufferVars, vars
  <2> QED BY <2>1 DEF Sent, RingEvents
<1>3. CASE Restart \/ Break
  <2>1. /\ UNCHANGED <<rows, query>> /\ ch' = << >>
        /\ head' = head \/ head' = [i \in Index |-> EmptySlot]
    BY <1>3 DEF Restart, Break, bufferVars
  <2>2. RingEvents' \subseteq RingEvents
    <3>1. CASE head' = head BY <3>1 DEF RingEvents
    <3>2. CASE head' = [i \in Index |-> EmptySlot]
      <4>1. \A i \in Index : head'[i].data = NoData BY <3>2 DEF EmptySlot
      <4>2. RingEvents' = {} BY <4>1 DEF RingEvents, Index
      <4> QED BY <4>2
    <3> QED BY <2>1, <3>1, <3>2
  <2> QED BY <2>1, <2>2 DEF Sent
<1>4. CASE Home \/ Table \/ (\E i \in DOMAIN rows : TxPage(i))
  <2>1. head' = head /\ ch' = << >>
    BY <1>4 DEF Home, Table, TxPage, NewTable, bufferVars
  <2>2. rows' = << >> \/ query' # NoQuery
    <3>1. CASE Table
      <4>1. PICK match \in SUBSET TxIDs :
              NewTable(Mock!Search(match),
                       [match |-> match,
                        since |-> IF Mock!Search(match) = << >> THEN 0
                                  ELSE Second(Mock!Search(match)[1].ts)])
        BY <3>1 DEF Table
      <4>2. query' \in Queries BY <4>1, TypedSearch DEF NewTable
      <4> QED BY <4>2, PageAssumption DEF Queries
    <3>2. CASE Home BY <3>2 DEF Home, NewTable
    <3>3. CASE \E i \in DOMAIN rows : TxPage(i) BY <3>3 DEF TxPage
    <3> QED BY <1>4, <3>1, <3>2, <3>3
  <2>3. RingEvents' = RingEvents BY <2>1 DEF RingEvents
  <2> QED BY <2>1, <2>2, <2>3 DEF Sent, ToSet
<1>5. CASE Stream
  <2>1. UNCHANGED <<head, rows, query>> /\ (ch' = Prefilled \/ ch' = << >>)
    BY <1>5 DEF Stream, bufferVars
  <2>2. \A i \in DOMAIN Prefilled : \E d \in RingEvents : Prefilled[i].row = Row(d)
    BY <1>1, PrefilledTyped, ReplayHolds DEF RingEvents
  <2>3. RingEvents' = RingEvents BY <2>1 DEF RingEvents
  <2>4. \A i \in DOMAIN ch' : \E d \in RingEvents : ch'[i].row = Row(d)
    BY <2>1, <2>2
  <2> QED BY <2>1, <2>3, <2>4 DEF Sent
<1>6. CASE Swap
  <2>1. UNCHANGED <<head, query>> /\ ch # << >> /\ ch' = Tail(ch)
    BY <1>6 DEF Swap, bufferVars
  <2>2. \A i \in DOMAIN ch' : i + 1 \in DOMAIN ch /\ ch'[i] = ch[i + 1] BY <1>1, <2>1
  <2>3. TableRows' \subseteq TableRows BY <1>1, <1>6, SwapRows
  <2>4. RingEvents' = RingEvents BY <2>1 DEF RingEvents
  <2> QED BY <2>1, <2>2, <2>3, <2>4 DEF Sent, TableRows
<1> QED BY <1>2, <1>3, <1>4, <1>5, <1>6

\* A broadcast sends its event.
LEMMA SentBroadcast ==
  ASSUME PageTyped, Broadcast
  PROVE  Sent' \subseteq Sent \cup {Row(Head(eventsCh))}
<1> DEFINE e == Head(eventsCh)
<1>1. ch \in Seq(Message) /\ BufferTypeOK BY DEF PageTyped, TypeOK
<1>2. e \in Events BY PendingBroadcast
<1>3. Add(e) /\ News(e) /\ UNCHANGED <<rows, query>> BY DEF Broadcast
<1> HIDE DEF e
<1>4. RingEvents' \subseteq RingEvents \cup {e} BY <1>1, <1>2, <1>3, RingAdds
<1>5. \A i \in DOMAIN ch' : ch'[i].row = Row(e) \/ (i \in DOMAIN ch /\ ch'[i] = ch[i])
  <2>1. CASE ch' = ch BY <2>1
  <2>2. CASE ch' = Append(ch, WriteEvent(e))
    <3>1. WriteEvent(e).row = Row(e) BY <1>2, RowTyped
    <3>2. \A i \in DOMAIN ch' : ch'[i] = WriteEvent(e) \/ (i \in DOMAIN ch /\ ch'[i] = ch[i])
      BY <1>1, <2>2
    <3> QED BY <3>1, <3>2
  <2> QED BY <1>3, <2>1, <2>2 DEF News
<1> QED BY <1>3, <1>4, <1>5 DEF Sent, e

\* A sequence of events that grows with a later one is still in order.
LEMMA IncreasingAppend ==
  ASSUME NEW s \in Seq(Events), Increasing(s), NEW e \in Events,
         \A d \in ToSet(s) : d.ts < e.ts
  PROVE  Increasing(Append(s, e))
<1> DEFINE r == Append(s, e)
           n == Len(s)
<1>1. /\ n \in Nat /\ DOMAIN s = 1 .. n /\ DOMAIN r = 1 .. n + 1 /\ r[n + 1] = e
      /\ \A i \in 1 .. n : r[i] = s[i]
  OBVIOUS
<1>2. \A i \in 1 .. n : s[i].ts < e.ts BY <1>1 DEF ToSet
<1> HIDE DEF r, n
<1>3. ASSUME NEW i \in DOMAIN r, NEW j \in DOMAIN r, i < j PROVE r[i].ts < r[j].ts
  <2>1. i \in 1 .. n BY <1>1, <1>3
  <2>2. CASE j = n + 1 BY <1>1, <1>2, <2>1, <2>2
  <2>3. CASE j \in 1 .. n BY <1>1, <1>3, <2>1, <2>3 DEF Increasing
  <2> QED BY <1>1, <2>2, <2>3
<1> QED BY <1>3 DEF Increasing, r

\* What is left of a sequence of events in order is in order and later.
LEMMA IncreasingTail ==
  ASSUME NEW s \in Seq(Events), Increasing(s), s # << >>
  PROVE  Increasing(Tail(s)) /\ \A e \in ToSet(Tail(s)) : Head(s).ts < e.ts
<1> DEFINE t == Tail(s)
           n == Len(s)
<1>1. /\ n \in Nat \ {0} /\ DOMAIN s = 1 .. n /\ DOMAIN t = 1 .. n - 1 /\ Head(s) = s[1]
      /\ \A i \in 1 .. n - 1 : t[i] = s[i + 1]
  OBVIOUS
<1> HIDE DEF t, n
<1>2. ASSUME NEW i \in DOMAIN t, NEW j \in DOMAIN t, i < j PROVE t[i].ts < t[j].ts
  <2>1. i + 1 \in DOMAIN s /\ j + 1 \in DOMAIN s /\ i + 1 < j + 1 BY <1>1, <1>2
  <2>2. t[i] = s[i + 1] /\ t[j] = s[j + 1] BY <1>1
  <2> QED BY <2>1, <2>2 DEF Increasing
<1>3. \A i \in DOMAIN t : s[1].ts < t[i].ts BY <1>1 DEF Increasing
<1> QED BY <1>1, <1>2, <1>3 DEF Increasing, ToSet, t

\* The mock store has said nothing at first.
LEMMA ClockedInit == Init => Clocked
<1> SUFFICES ASSUME Init PROVE Clocked
  OBVIOUS
<1>1. /\ events = << >> /\ eventsCh = << >> /\ pc = "next" /\ rows = << >> /\ ch = << >>
      /\ head = [i \in Index |-> EmptySlot]
  BY DEF Init, Mock!New, NewEventBuffer
<1>2. RingEvents = {} /\ Pending = << >> BY <1>1 DEF RingEvents, EmptySlot, Pending, InHand
<1>3. Copies = {} BY <1>1, <1>2 DEF Copies, TableRows, ToSet, Heard
<1> QED BY <1>1, <1>2, <1>3 DEF Clocked, Increasing, ToSet

\* The time of what the mock store makes next is later than any there is.
LEMMA ClockedMade ==
  ASSUME PageTyped, Clocked, store = "mock", StoreRuns,
         NEW i \in Slots, NextEventMade(i), Pending' = Append(Pending, made'),
         Heard' = Heard \cup {made'}, UNCHANGED TableRows
  PROVE  Clocked'
<1> DEFINE m == made'
<1>1. /\ Increasing(Pending) /\ Increasing(events)
      /\ \A row \in Copies : row.ts <= clock
      /\ \A e \in ToSet(Pending) : \A row \in Sent : row.ts < e.ts
  BY DEF Clocked
<1>2. /\ m \in Events /\ m.ts = clock + 1 /\ clock' = clock + 1 /\ pc' = "record"
      /\ events' = events
      /\ clock \in Nat
  BY PageAssumption DEF NextEventMade, PageTyped, TypeOK
<1>3. /\ Pending \in Seq(Events) /\ Heard \subseteq Events /\ Copies \subseteq Rows
  BY HeardTyped
<1>4. /\ \A row \in Copies : row.ts \in Nat /\ row.ts < m.ts
  BY <1>1, <1>2, <1>3, RowParts
<1>5. \A e \in Heard : e.ts < m.ts
  <2>1. \A e \in Heard : Row(e) \in Copies /\ Row(e).ts = e.ts BY DEF Copies, Row
  <2> QED BY <1>4, <2>1
<1>6. ToSet(Pending) \subseteq Heard /\ ToSet(events) \subseteq Heard BY DEF Heard
<1>7. Increasing(Pending') BY <1>1, <1>2, <1>3, <1>5, <1>6, IncreasingAppend
<1>8. ToSet(Pending') = ToSet(Pending) \cup {m} BY <1>2, <1>3, AppendElements
<1>9. Sent' \subseteq Sent BY SentKept
<1>10. Copies' \subseteq Copies \cup {Row(m)} BY DEF Copies
<1>11. Row(m).ts = m.ts BY DEF Row
<1> HIDE DEF m
<1>12. \A row \in Copies' : row.ts <= clock'
  <2> SUFFICES ASSUME NEW row \in Copies' PROVE row.ts <= clock'
    OBVIOUS
  <2>1. CASE row \in Copies BY <1>2, <1>4, <2>1
  <2>2. CASE row = Row(m) BY <1>2, <1>11, <2>2
  <2> QED BY <1>10, <2>1, <2>2
<1>13. \A e \in ToSet(Pending') : \A row \in Sent' : row.ts < e.ts
  BY <1>1, <1>4, <1>8, <1>9, SentCopies
<1>14. \A e \in ToSet(events') : e.ts < m.ts BY <1>2, <1>5, <1>6
<1> QED BY <1>1, <1>2, <1>7, <1>12, <1>13, <1>14 DEF Clocked, m

\* A store that is chosen keeps its clock but for nextEvent.
LEMMA ClockedStep == PageTyped /\ CopiesTold /\ Clocked /\ [Next]_vars => Clocked'
<1> SUFFICES ASSUME PageTyped, Clocked, [Next]_vars, store' = "mock" PROVE Clocked'
  BY DEF Clocked
<1>1. store = "mock" BY StoreFixed
<1>2. /\ Increasing(Pending) /\ Increasing(events)
      /\ pc = "record" => \A e \in ToSet(events) : e.ts < made.ts
      /\ \A row \in Copies : row.ts <= clock
      /\ \A e \in ToSet(Pending) : \A row \in Sent : row.ts < e.ts
  BY <1>1 DEF Clocked
<1>3. /\ Pending \in Seq(Events) /\ events \in Seq(Events) /\ eventsCh \in Seq(Events)
      /\ InHand => made \in Events
  BY HeardTyped DEF PageTyped, TypeOK, StoreTyped
<1>4. CASE StoreRuns
  <2>1. UNCHANGED TableRows /\ Sent' \subseteq Sent BY <1>4, HeardStore, SentKept
  <2>2. ASSUME NEW i \in Slots, Mock!NextEvent(i) PROVE Clocked'
    <3>1. NextEventMade(i) /\ Pending' = Append(Pending, made')
      BY <2>2, NextEventMakes, PendingStore DEF PageTyped
    <3>2. Heard' = Heard \cup {made'}
      <4>1. made' \in Events /\ events' = events BY <3>1 DEF NextEventMade
      <4>2. ToSet(Pending') = ToSet(Pending) \cup {made'} BY <1>3, <3>1, <4>1, AppendElements
      <4>3. RingEvents' = RingEvents BY <1>4 DEF StoreRuns, bufferVars, RingEvents
      <4> QED BY <4>1, <4>2, <4>3 DEF Heard
    <3> QED BY <1>1, <1>4, <2>1, <3>1, <3>2, ClockedMade
  <2>3. ASSUME ~ \E i \in Slots : Mock!NextEvent(i) PROVE Clocked'
    <3>1. Heard' \subseteq Heard
      <4>1. ASSUME NEW i \in Slots, NextEventMade(i) PROVE Heard' \subseteq Heard
        <5>1. pc' = "record" /\ pc = "next" BY <4>1 DEF NextEventMade
        <5>2. Mock!Record \/ Mock!Send \/ Mock!SeeDone \/ Mock!Stop
          BY <1>4, <2>3 DEF StoreRuns, Mock!Run
        <5> QED BY <5>1, <5>2 DEF Mock!Record, Mock!Send, Mock!SeeDone, Mock!Stop
      <4> QED BY <1>4, <4>1, HeardStore
    <3>2. Copies' \subseteq Copies BY <2>1, <3>1 DEF Copies
    <3>3. \/ Mock!Record
          \/ (Mock!Send \/ Mock!Stop) /\ Pending' = Pending
          \/ Mock!SeeDone /\ Pending = Append(Pending', made) /\ Pending' = eventsCh /\ InHand
      BY <1>4, <2>3, PendingStore DEF StoreRuns, Mock!Run, Mock!SeeDone, InHand
    <3>4. CASE Mock!Record
      <4>1. /\ pc = "record" /\ pc' = "send" /\ events' = Append(events, made) /\ clock' = clock
            /\ InHand
        BY <3>4 DEF Mock!Record, Mock!jobVars, InHand
      <4>2. Pending' = Pending BY <3>4, PendingStore
      <4>3. Increasing(events') BY <1>2, <1>3, <4>1, IncreasingAppend
      <4> QED BY <1>2, <2>1, <3>2, <4>1, <4>2, <4>3 DEF Clocked
    <3>5. CASE (Mock!Send \/ Mock!Stop) /\ Pending' = Pending
      <4>1. UNCHANGED <<events, clock, made>> /\ (pc' = "record" => pc = "record")
        BY <3>5 DEF Mock!Send, Mock!Stop, Mock!jobVars
      <4> QED BY <1>2, <2>1, <3>2, <3>5, <4>1 DEF Clocked
    <3>6. CASE Mock!SeeDone /\ Pending = Append(Pending', made) /\ Pending' = eventsCh /\ InHand
      <4>1. UNCHANGED <<events, clock>> /\ pc' = "stopped"
        BY <3>6 DEF Mock!SeeDone, Mock!jobVars
      <4>2. \A j \in DOMAIN Pending' : j \in DOMAIN Pending /\ Pending'[j] = Pending[j]
        BY <3>6, PendingDropped
      <4>3. Increasing(Pending') BY <1>2, <4>2 DEF Increasing
      <4>4. ToSet(Pending') \subseteq ToSet(Pending) BY <4>2 DEF ToSet
      <4> QED BY <1>2, <2>1, <3>2, <4>1, <4>3, <4>4 DEF Clocked
    <3> QED BY <3>3, <3>4, <3>5, <3>6
  <2> QED BY <2>2, <2>3
<1>5. CASE Notified BY <1>1, <1>5 DEF Notified
<1>6. CASE Broadcast
  <2>1. /\ Pending # << >> /\ Head(eventsCh) = Head(Pending) /\ Pending' = Tail(Pending)
        /\ Head(Pending) \in Events
    BY <1>6, PendingBroadcast
  <2>2. UNCHANGED mockVars BY <1>6 DEF Broadcast
  <2>3. /\ Increasing(Pending')
        /\ \A e \in ToSet(Pending') : Head(Pending).ts < e.ts
    BY <1>2, <1>3, <2>1, IncreasingTail
  <2>4. Sent' \subseteq Sent \cup {Row(Head(Pending))} BY <1>6, <2>1, SentBroadcast
  <2>5. ToSet(Pending') \subseteq ToSet(Pending) BY <1>3, <2>1, FirstOf
  <2>6. Copies' \subseteq Copies BY <1>6, CopiesKept
  <2>7. Row(Head(Pending)).ts = Head(Pending).ts BY DEF Row
  <2>8. \A e \in ToSet(Pending') : \A row \in Sent' : row.ts < e.ts
    BY <1>2, <2>3, <2>4, <2>5, <2>7
  <2> QED BY <1>2, <2>2, <2>3, <2>6, <2>8 DEF Clocked, mockVars
<1>7. CASE Restart
  <2>1. /\ events' = << >> /\ eventsCh' = << >> /\ pc' = "next" /\ clock' = clock
    BY <1>7 DEF Restart, Mock!Restart
  <2>2. Pending' = << >> BY <2>1 DEF Pending, InHand
  <2>3. Copies' \subseteq Copies BY <1>7, CopiesKept
  <2> QED BY <1>2, <2>1, <2>2, <2>3 DEF Clocked, Increasing, ToSet
<1>8. CASE Home \/ Table \/ (\E i \in DOMAIN rows : TxPage(i)) \/ Stream \/ Swap \/ Break
             \/ UNCHANGED vars
  <2>1. UNCHANGED <<mockVars, eventsCh>>
    BY <1>8 DEF Home, Table, NewTable, TxPage, Stream, Swap, Break, vars
  <2>2. Pending' = Pending BY <2>1 DEF mockVars, Pending, InHand
  <2>3. Copies' \subseteq Copies BY <1>8, CopiesKept
  <2>4. Sent' \subseteq Sent BY <1>8, SentKept
  <2> QED BY <1>2, <2>1, <2>2, <2>3, <2>4 DEF Clocked, mockVars
<1> QED BY <1>4, <1>5, <1>6, <1>7, <1>8 DEF Next

------------------------------------------------------------------------------

\* A job is in one place of the queue of the mock store.
OneSlotEach ==
  \A i, j \in Slots :
    /\ eventQueue[i] \in Events /\ eventQueue[j] \in Events
    /\ eventQueue[i].txID = eventQueue[j].txID
    => i = j

\* A job goes through its states in the order of the clock, and its place in
\* the queue has the last.
StatesGrow ==
  store = "mock" =>
    /\ OneSlotEach
    /\ \A r, s \in Copies : r.id = s.id /\ r.ts <= s.ts => r.state <= s.state
    /\ \A i \in Slots : eventQueue[i] \in Events =>
         \A r \in Copies : r.id = eventQueue[i].txID => r.state <= eventQueue[i].state

\* There is no job at first.
LEMMA GrowInit == Init => StatesGrow
<1> SUFFICES ASSUME Init PROVE StatesGrow
  OBVIOUS
<1>1. /\ events = << >> /\ eventsCh = << >> /\ pc = "next" /\ rows = << >> /\ ch = << >>
      /\ head = [i \in Index |-> EmptySlot]
      /\ eventQueue = [i \in Slots |-> Mock!NoJob]
  BY DEF Init, Mock!New, NewEventBuffer
<1>2. RingEvents = {} /\ Pending = << >> BY <1>1 DEF RingEvents, EmptySlot, Pending, InHand
<1>3. Copies = {} BY <1>1, <1>2 DEF Copies, TableRows, ToSet, Heard
<1>4. Mock!NoJob \notin Events BY EventParts, BufferAssumption DEF Mock!NoJob
<1> QED BY <1>1, <1>3, <1>4 DEF StatesGrow, OneSlotEach

\* nextEvent moves a job on.
LEMMA GrowMade ==
  ASSUME PageTyped, CopiesTold, Clocked, StatesGrow, store = "mock",
         NEW i \in Slots, NextEventMade(i), Copies' = Copies \cup {Row(made')}
  PROVE  StatesGrow'
<1> DEFINE m == made'
<1>1. /\ m \in Events /\ m.ts = clock + 1 /\ eventQueue' = [eventQueue EXCEPT ![i] = m]
      /\ clock \in Nat
      /\ m.state = StateSubmitted => m.txID \notin used
      /\ m.state # StateSubmitted =>
           /\ eventQueue[i] \in Events /\ eventQueue[i].state <= m.state
           /\ m.txID = eventQueue[i].txID
  BY PageAssumption DEF NextEventMade, PageTyped, TypeOK
<1>2. eventQueue'[i] = m /\ \A j \in Slots \ {i} : eventQueue'[j] = eventQueue[j]
  BY <1>1 DEF PageTyped, StoreTyped
<1>3. Row(m).id = m.txID /\ Row(m).ts = m.ts /\ Row(m).state = m.state BY DEF Row
<1>4. \A r \in Copies : /\ r.ts <= clock /\ r.ts \in Nat /\ r.state \in Int
                        /\ r.id \in used
  BY HeardTyped, RowParts DEF Clocked, CopiesTold, Told
<1>5. m.state \in Int /\ \A j \in Slots : eventQueue[j] \in Events => eventQueue[j].state \in Int
  BY <1>1, EventParts
<1>6. \A j \in Slots : eventQueue[j] \in Events => eventQueue[j].txID \in used
  BY DEF PageTyped, StoreTyped
<1> HIDE DEF m
<1>7. ASSUME NEW j \in Slots \ {i}, eventQueue[j] \in Events PROVE eventQueue[j].txID # m.txID
  <2>1. CASE m.state = StateSubmitted BY <1>1, <1>6, <1>7, <2>1
  <2>2. CASE m.state # StateSubmitted
    <3>1. eventQueue[i].txID # eventQueue[j].txID BY <1>1, <1>7, <2>2 DEF StatesGrow, OneSlotEach
    <3> QED BY <1>1, <2>2, <3>1
  <2> QED BY <2>1, <2>2
<1>8. ASSUME NEW r \in Copies, r.id = m.txID PROVE r.state <= m.state
  <2>1. m.state # StateSubmitted BY <1>1, <1>4, <1>8
  <2>2. r.state <= eventQueue[i].state BY <1>1, <1>8, <2>1 DEF StatesGrow
  <2> QED BY <1>1, <1>4, <1>5, <2>1, <2>2
<1>9. OneSlotEach'
  <2>1. OneSlotEach BY DEF StatesGrow
  <2> QED BY <1>1, <1>2, <1>7, <2>1 DEF OneSlotEach
<1>10. \A r, s \in Copies' : r.id = s.id /\ r.ts <= s.ts => r.state <= s.state
  <2> SUFFICES ASSUME NEW r \in Copies', NEW s \in Copies', r.id = s.id, r.ts <= s.ts
               PROVE  r.state <= s.state
    OBVIOUS
  <2>1. Copies' = Copies \cup {Row(m)} BY DEF m
  <2>2. CASE r \in Copies /\ s \in Copies BY <2>2 DEF StatesGrow
  <2>3. CASE r = Row(m) /\ s \in Copies BY <1>1, <1>3, <1>4, <2>3
  <2>4. CASE r \in Copies /\ s = Row(m) BY <1>3, <1>8, <2>4
  <2>5. CASE r = Row(m) /\ s = Row(m) BY <1>3, <1>5, <2>5
  <2> QED BY <2>1, <2>2, <2>3, <2>4, <2>5
<1>11. ASSUME NEW j \in Slots, eventQueue'[j] \in Events, NEW r \in Copies',
              r.id = eventQueue'[j].txID
       PROVE  r.state <= eventQueue'[j].state
  <2>1. Copies' = Copies \cup {Row(m)} BY DEF m
  <2>2. CASE j = i
    <3>1. CASE r \in Copies BY <1>2, <1>8, <1>11, <2>2, <3>1
    <3>2. CASE r = Row(m) BY <1>2, <1>3, <1>5, <2>2, <3>2
    <3> QED BY <2>1, <3>1, <3>2
  <2>3. CASE j # i
    <3>1. eventQueue'[j] = eventQueue[j] BY <1>2, <2>3
    <3>2. r # Row(m) BY <1>3, <1>7, <1>11, <2>3, <3>1
    <3>3. r \in Copies BY <2>1, <3>2
    <3> QED BY <1>11, <3>1, <3>3 DEF StatesGrow
  <2> QED BY <2>2, <2>3
<1> QED BY <1>9, <1>10, <1>11 DEF StatesGrow

\* No step but nextEvent says anything new of a job.
LEMMA GrowStep ==
  PageTyped /\ CopiesTold /\ Clocked /\ StatesGrow /\ [Next]_vars => StatesGrow'
<1> SUFFICES ASSUME PageTyped, CopiesTold, Clocked, StatesGrow, [Next]_vars, store' = "mock"
             PROVE  StatesGrow'
  BY DEF StatesGrow
<1>1. store = "mock" BY StoreFixed
<1>2. ASSUME Copies' \subseteq Copies, UNCHANGED eventQueue PROVE StatesGrow'
  BY <1>1, <1>2 DEF StatesGrow, OneSlotEach
<1>3. CASE StoreRuns
  <2>1. UNCHANGED TableRows BY <1>3, HeardStore
  <2>2. ASSUME NEW i \in Slots, NextEventMade(i), Heard' = Heard \cup {made'} PROVE StatesGrow'
    <3>1. Copies' = Copies \cup {Row(made')} BY <2>1, <2>2 DEF Copies
    <3> QED BY <1>1, <2>2, <3>1, GrowMade
  <2>3. ASSUME ~ \E i \in Slots : Mock!NextEvent(i), Heard' \subseteq Heard PROVE StatesGrow'
    <3>1. UNCHANGED eventQueue
      BY <1>3, <2>3 DEF StoreRuns, Mock!Run, Mock!Record, Mock!Send, Mock!SeeDone, Mock!Stop,
         Mock!jobVars
    <3>2. Copies' \subseteq Copies BY <2>1, <2>3 DEF Copies
    <3> QED BY <1>2, <3>1, <3>2
  <2> QED BY <1>3, <2>2, <2>3, HeardStore
<1>4. CASE Notified BY <1>1, <1>4 DEF Notified
<1>5. CASE Restart
  <2>1. eventQueue' = [i \in Slots |-> Mock!NoJob] BY <1>5 DEF Restart, Mock!Restart
  <2>2. Mock!NoJob \notin Events BY EventParts, BufferAssumption DEF Mock!NoJob
  <2>3. Copies' \subseteq Copies BY <1>5, CopiesKept
  <2>4. \A i \in Slots : eventQueue'[i] \notin Events BY <2>1, <2>2
  <2> QED BY <1>1, <2>3, <2>4 DEF StatesGrow, OneSlotEach
<1>6. CASE Broadcast \/ Home \/ Table \/ (\E i \in DOMAIN rows : TxPage(i)) \/ Stream \/ Swap
             \/ Break \/ UNCHANGED vars
  <2>1. UNCHANGED mockVars
    BY <1>6 DEF Broadcast, Home, Table, NewTable, TxPage, Stream, Swap, Break, vars
  <2>2. Copies' \subseteq Copies BY <1>6, CopiesKept
  <2> QED BY <1>2, <2>1, <2>2 DEF mockVars
<1> QED BY <1>3, <1>4, <1>5, <1>6 DEF Next

\* An earlier row of the job.
NotLater(r, s) == r.id = s.id => r.ts <= s.ts

\* On a page that searches for nothing the rows of the table are no later than
\* those on their way, and these no later than the ring.
LinedAll ==
  /\ \A i, j \in DOMAIN ch : i < j => NotLater(ch[i].row, ch[j].row)
  /\ \A row \in ToSet(rows) : \A j \in DOMAIN ch : NotLater(row, ch[j].row)
  /\ \A row \in TableRows : \A d \in RingEvents : NotLater(row, Row(d))

\* On the page of a search what is on its way is later than the search, and the
\* rows are not, to the second, or were on their way too.
LinedSearch ==
  /\ Second(query.since) = query.since
  /\ \A i, j \in DOMAIN ch : i < j => ch[i].row.ts < ch[j].row.ts
  /\ \A j \in DOMAIN ch : query.since < ch[j].row.ts
  /\ \A row \in ToSet(rows) :
       \/ Second(row.ts) <= query.since
       \/ /\ \A j \in DOMAIN ch : row.ts < ch[j].row.ts
          /\ \A e \in ToSet(Pending) : row.ts < e.ts

Lined == store = "mock" => IF query = NoQuery THEN LinedAll ELSE LinedSearch

\* A second has a beginning, which is not later, and comes before the next.
LEMMA SecondOrder ==
  ASSUME NEW a \in Nat, NEW b \in Nat
  PROVE  /\ Second(a) \in Nat /\ Second(Second(a)) = Second(a)
         /\ a <= b => Second(a) <= Second(b)
<1> DEFINE p == a \div PerSecond
           q == b \div PerSecond
           r == (p * PerSecond) \div PerSecond
<1>1. PerSecond \in Nat \ {0} BY PageAssumption
<1>2. p \in Nat /\ q \in Nat BY <1>1, DivisionBounds
<1>3. r = p
  <2> HIDE DEF p
  <2>1. p * PerSecond \in Int BY <1>1, <1>2
  <2>2. /\ r \in Int /\ PerSecond * r <= p * PerSecond
        /\ p * PerSecond < PerSecond * r + PerSecond
    BY <1>1, <2>1, DivisionBounds
  <2> HIDE DEF r
  <2>3. PerSecond * r <= PerSecond * p /\ PerSecond * p < PerSecond * (r + 1)
    BY <1>1, <1>2, <2>2
  <2>4. r <= p /\ p < r + 1 BY <1>1, <1>2, <2>2, <2>3
  <2> QED BY <1>2, <2>2, <2>4
<1>4. a <= b => p <= q BY <1>1, DivisionMonotonic
<1> HIDE DEF p, q
<1>5. p * PerSecond \in Nat BY <1>1, <1>2
<1>6. a <= b => p * PerSecond <= q * PerSecond BY <1>1, <1>2, <1>4
<1> QED BY <1>3, <1>5, <1>6 DEF Second, p, q

\* The ring has one event of a transaction, in the state that the map has.
LEMMA RingOne ==
  ASSUME BufferInv
  PROVE  /\ \A c, d \in RingEvents : c.txID = d.txID => c = d
         /\ \A t \in DOMAIN headMap :
              LET kept == head[headMap[t].index].data IN
                kept \in RingEvents /\ kept.txID = t /\ kept.state = headMap[t].state
<1>1. BufferTypeOK /\ MapMatchesRing BY DEF BufferInv
<1>2. ASSUME NEW i \in Index, head[i].data # NoData
      PROVE  head[i].data.txID \in DOMAIN headMap /\ headMap[head[i].data.txID].index = i
  <2>1. Used(i) BY <1>1, <1>2, UsedSlot
  <2>2. head[i].txID \in DOMAIN headMap /\ headMap[head[i].txID].index = i
    BY <1>1, <2>1 DEF MapMatchesRing
  <2>3. head[i].data.txID = head[i].txID BY <1>1, <2>2 DEF MapMatchesRing
  <2> QED BY <2>2, <2>3
<1>3. ASSUME NEW c \in RingEvents, NEW d \in RingEvents, c.txID = d.txID PROVE c = d
  <2>1. PICK i \in Index : c = head[i].data /\ c # NoData BY DEF RingEvents
  <2>2. PICK j \in Index : d = head[j].data /\ d # NoData BY DEF RingEvents
  <2>3. i = j BY <1>2, <1>3, <2>1, <2>2
  <2> QED BY <2>1, <2>2, <2>3
<1>4. ASSUME NEW t \in DOMAIN headMap
      PROVE  LET kept == head[headMap[t].index].data IN
               kept \in RingEvents /\ kept.txID = t /\ kept.state = headMap[t].state
  <2> DEFINE i == headMap[t].index
  <2>1. i \in Index /\ t \in TxIDs BY <1>1 DEF BufferTypeOK, Header
  <2>2. head[i].txID = t /\ head[i].data.txID = t /\ head[i].data.state = headMap[t].state
    BY <1>1 DEF MapMatchesRing
  <2>3. head[i].data # NoData
    <3>1. Used(i) BY <1>1, <2>1, <2>2, UsedSlot
    <3> QED BY <1>1, <2>1, <3>1, UsedSlot, NoDataAssumption
  <2> QED BY <2>1, <2>2, <2>3 DEF RingEvents
<1> QED BY <1>3, <1>4

\* After add the ring has nothing of the transaction but the event, if the
\* event is not stale.
LEMMA RingNewest ==
  ASSUME BufferInv, NEW e \in Events, Add(e), ~(e.txID \in DOMAIN headMap /\ Stale(e))
  PROVE  \A d \in RingEvents' : d.txID = e.txID => d = e
<1>1. BufferTypeOK /\ MapMatchesRing BY DEF BufferInv
<1>2. PICK k \in Index : /\ head' = [head EXCEPT ![k] = SlotOf(e)]
                         /\ e.txID \in DOMAIN headMap => headMap[e.txID].index = k
  <2>1. CASE AddNew(e)
    <3>1. headIndex \in Index BY <1>1 DEF BufferTypeOK
    <3> QED BY <2>1, <3>1 DEF AddNew
  <2>2. CASE AddUpdate(e)
    <3>1. headMap[e.txID].index \in Index BY <1>1, <2>2 DEF BufferTypeOK, Header, AddUpdate
    <3> QED BY <2>2, <3>1 DEF AddUpdate
  <2> QED BY <2>1, <2>2 DEF Add, AddStale
<1>3. /\ head'[k].data = e
      /\ \A j \in Index \ {k} : head'[j] = head[j]
  BY <1>1, <1>2 DEF BufferTypeOK, SlotOf
<1>4. ASSUME NEW j \in Index \ {k}, head[j].data # NoData PROVE head[j].data.txID # e.txID
  <2>1. Used(j) BY <1>1, <1>4, UsedSlot
  <2>2. head[j].txID \in DOMAIN headMap /\ headMap[head[j].txID].index = j
    BY <1>1, <2>1 DEF MapMatchesRing
  <2>3. head[j].data.txID = head[j].txID BY <1>1, <2>2 DEF MapMatchesRing
  <2> QED BY <1>2, <2>2, <2>3
<1>5. \A d \in RingEvents' : \E j \in Index : d = head'[j].data /\ d # NoData
  BY DEF RingEvents, Index
<1> QED BY <1>3, <1>4, <1>5

\* With events in order none is stale.
LEMMA NoneStale ==
  ASSUME PageTyped, Clocked, StatesGrow, store = "mock", Broadcast
  PROVE  LET e == Head(eventsCh) IN ~(e.txID \in DOMAIN headMap /\ Stale(e))
<1> DEFINE e == Head(eventsCh)
           kept == head[headMap[e.txID].index].data
<1>1. e \in Events /\ e \in ToSet(Pending) BY PendingBroadcast
<1> SUFFICES ASSUME e.txID \in DOMAIN headMap PROVE ~Stale(e)
  OBVIOUS
<1>2. kept \in RingEvents /\ kept.txID = e.txID /\ kept.state = headMap[e.txID].state
  BY RingOne DEF PageTyped
<1>3. kept \in Events BY <1>2, HeardTyped
<1> HIDE DEF e, kept
<1>4. Row(kept) \in Sent /\ Row(kept) \in Copies /\ Row(e) \in Copies
  BY <1>1, <1>2 DEF Sent, Copies, Heard
<1>5. /\ Row(kept).id = kept.txID /\ Row(kept).ts = kept.ts /\ Row(kept).state = kept.state
      /\ Row(e).id = e.txID /\ Row(e).ts = e.ts /\ Row(e).state = e.state
  BY DEF Row
<1>6. kept.ts < e.ts BY <1>1, <1>4, <1>5 DEF Clocked
<1>7. kept.ts \in Nat /\ e.ts \in Nat /\ kept.state \in Int /\ e.state \in Int
  BY <1>1, <1>3, EventParts
<1>8. kept.ts <= e.ts BY <1>6, <1>7
<1>9. kept.state <= e.state BY <1>2, <1>4, <1>5, <1>8 DEF StatesGrow
<1>10. ~(e.state < headMap[e.txID].state) BY <1>2, <1>7, <1>9
<1> QED BY <1>10 DEF Stale, e

\* Nothing is lined up at first.
LEMMA LinedInit == Init => Lined
<1> SUFFICES ASSUME Init PROVE Lined
  OBVIOUS
<1>1. /\ rows = << >> /\ ch = << >> /\ query = NoQuery
  BY DEF Init
<1>2. TableRows = {} BY <1>1 DEF TableRows, ToSet
<1> QED BY <1>1, <1>2 DEF Lined, LinedAll, ToSet

\* What a broadcast sends is later than all that it joins.
LEMMA LinedBroadcast ==
  ASSUME PageTyped, Clocked, StatesGrow, Lined, store = "mock", Broadcast
  PROVE  Lined'
<1> DEFINE e == Head(eventsCh)
           n == Len(ch)
<1>1. /\ Add(e) /\ News(e) /\ UNCHANGED <<rows, query, store>> BY DEF Broadcast
<1>2. /\ e \in Events /\ e \in ToSet(Pending) /\ Pending \in Seq(Events) /\ Pending # << >>
      /\ Pending' = Tail(Pending)
  BY HeardTyped, PendingBroadcast
<1>3. ~(e.txID \in DOMAIN headMap /\ Stale(e)) BY NoneStale
<1>4. /\ ch \in Seq(Message) /\ BufferTypeOK /\ BufferInv /\ TableRows \subseteq Rows
  BY HeardTyped DEF PageTyped, TypeOK
<1> HIDE DEF e
<1>5. Row(e).ts = e.ts /\ Row(e).id = e.txID /\ e.ts \in Nat BY <1>2, EventParts DEF Row
<1>6. \A row \in Sent : row.ts < e.ts BY <1>2 DEF Clocked
<1>7. \A i \in DOMAIN ch : ch[i].row \in Sent /\ ch[i].row.ts < e.ts BY <1>6 DEF Sent
<1>8. \A i \in DOMAIN ch : ch[i].row.ts \in Nat BY <1>4, MessagesTyped, RowParts
<1>9. ch' = ch \/ (Wanted(e) /\ ch' = Append(ch, WriteEvent(e))) BY <1>1 DEF News
<1>10. /\ n \in Nat /\ DOMAIN ch = 1 .. n
       /\ \/ ch' = ch
          \/ /\ Wanted(e) /\ DOMAIN ch' = 1 .. n + 1 /\ ch'[n + 1].row = Row(e)
             /\ \A i \in 1 .. n : ch'[i] = ch[i]
  <2>1. CASE ch' = ch BY <1>4, <2>1
  <2>2. CASE Wanted(e) /\ ch' = Append(ch, WriteEvent(e))
    <3>1. WriteEvent(e).row = Row(e) BY <1>2, RowTyped
    <3>2. /\ n \in Nat /\ DOMAIN ch = 1 .. n /\ DOMAIN ch' = 1 .. n + 1
          /\ ch'[n + 1] = WriteEvent(e) /\ \A i \in 1 .. n : ch'[i] = ch[i]
      BY <1>4, <2>2
    <3> QED BY <2>2, <3>1, <3>2
  <2> QED BY <1>9, <2>1, <2>2
<1> HIDE DEF n
<1>11. \A i \in DOMAIN ch' : \/ i \in DOMAIN ch /\ ch'[i] = ch[i]
                             \/ ch' # ch /\ Wanted(e) /\ i = n + 1 /\ ch'[i].row = Row(e)
  BY <1>10
<1>12. CASE query = NoQuery
  <2>1. LinedAll BY <1>12 DEF Lined
  <2>2. \A row \in TableRows : row.ts < e.ts
    BY <1>6, <1>12 DEF Sent, TableRows
  <2>3. \A row \in TableRows : row.ts \in Nat BY <1>4, RowParts
  <2>4. \A row \in TableRows : NotLater(row, Row(e)) BY <1>5, <2>2, <2>3 DEF NotLater
  <2>5. ASSUME NEW i \in DOMAIN ch', NEW j \in DOMAIN ch', i < j
        PROVE  NotLater(ch'[i].row, ch'[j].row)
    <3>1. i \in DOMAIN ch /\ ch'[i] = ch[i] /\ ch[i].row \in TableRows
      BY <1>10, <2>5 DEF TableRows
    <3>2. CASE j \in DOMAIN ch /\ ch'[j] = ch[j] BY <2>1, <2>5, <3>1, <3>2 DEF LinedAll
    <3>3. CASE ch'[j].row = Row(e) BY <2>4, <3>1, <3>3
    <3> QED BY <1>11, <3>2, <3>3
  <2>6. ASSUME NEW row \in ToSet(rows), NEW j \in DOMAIN ch' PROVE NotLater(row, ch'[j].row)
    <3>1. row \in TableRows BY DEF TableRows
    <3>2. CASE j \in DOMAIN ch /\ ch'[j] = ch[j] BY <2>1, <3>2 DEF LinedAll
    <3>3. CASE ch'[j].row = Row(e) BY <2>4, <3>1, <3>3
    <3> QED BY <1>11, <3>2, <3>3
  <2>7. \A row \in TableRows' : row \in TableRows \/ row = Row(e)
    BY <1>1, <1>11 DEF TableRows
  <2>8. ASSUME NEW row \in TableRows', NEW d \in RingEvents' PROVE NotLater(row, Row(d))
    <3>1. d \in RingEvents \/ d = e BY <1>1, <1>2, <1>4, RingAdds
    <3>2. CASE d = e BY <1>5, <2>4, <2>7, <3>2 DEF NotLater
    <3>3. CASE d # e
      <4>1. d \in RingEvents /\ d.txID # e.txID
        BY <1>1, <1>2, <1>3, <1>4, <3>1, <3>3, RingNewest
      <4>2. Row(d).id # Row(e).id BY <4>1 DEF Row
      <4>3. CASE row = Row(e) BY <4>2, <4>3 DEF NotLater
      <4>4. CASE row \in TableRows BY <2>1, <4>1, <4>4 DEF LinedAll
      <4> QED BY <2>7, <4>3, <4>4
    <3> QED BY <3>2, <3>3
  <2> QED BY <1>1, <1>12, <2>5, <2>6, <2>8 DEF Lined, LinedAll
<1>13. CASE query # NoQuery
  <2>1. LinedSearch BY <1>13 DEF Lined
  <2>2. ASSUME NEW i \in DOMAIN ch', NEW j \in DOMAIN ch', i < j
        PROVE  ch'[i].row.ts < ch'[j].row.ts
    <3>1. i \in DOMAIN ch /\ ch'[i] = ch[i] BY <1>10, <2>2
    <3>2. CASE j \in DOMAIN ch /\ ch'[j] = ch[j] BY <2>1, <2>2, <3>1, <3>2 DEF LinedSearch
    <3>3. CASE ch'[j].row = Row(e) BY <1>5, <1>7, <3>1, <3>3
    <3> QED BY <1>11, <3>2, <3>3
  <2>3. ch' # ch => query.since < e.ts BY <1>10, <1>13 DEF Wanted
  <2>4. \A j \in DOMAIN ch' : query.since < ch'[j].row.ts
    BY <1>5, <1>11, <2>1, <2>3 DEF LinedSearch
  <2>5. ToSet(Pending') \subseteq ToSet(Pending) BY <1>2, FirstOf
  <2>6. ASSUME NEW row \in ToSet(rows), ~(Second(row.ts) <= query.since)
        PROVE  /\ \A j \in DOMAIN ch' : row.ts < ch'[j].row.ts
               /\ \A d \in ToSet(Pending') : row.ts < d.ts
    <3>1. /\ \A j \in DOMAIN ch : row.ts < ch[j].row.ts
          /\ \A d \in ToSet(Pending) : row.ts < d.ts
      BY <2>1, <2>6 DEF LinedSearch
    <3> QED BY <1>2, <1>5, <1>11, <2>5, <3>1
  <2> QED BY <1>1, <1>13, <2>1, <2>2, <2>4, <2>6 DEF Lined, LinedSearch
<1> QED BY <1>12, <1>13

\* A connection is sent the ring, which the rows are no later than.
LEMMA LinedStream ==
  ASSUME PageTyped, Lined, store = "mock", Stream
  PROVE  Lined'
<1>1. /\ UNCHANGED <<bufferVars, mockVars, eventsCh, rows, query, store>>
      /\ ch' = IF query = NoQuery THEN Prefilled ELSE << >>
  BY DEF Stream
<1>2. BufferTypeOK /\ BufferInv BY DEF PageTyped, TypeOK
<1>3. RingEvents' = RingEvents /\ Pending' = Pending
  BY <1>1 DEF RingEvents, Pending, InHand, mockVars, bufferVars
<1>4. CASE query = NoQuery
  <2>1. LinedAll /\ ch' = Prefilled BY <1>1, <1>4 DEF Lined
  <2>2. \A i \in DOMAIN Prefilled : /\ i \in DOMAIN Replay /\ Replay[i] \in RingEvents
                                    /\ Prefilled[i].row = Row(Replay[i])
    BY <1>2, PrefilledTyped, ReplayHolds DEF RingEvents
  <2>3. \A e : Row(e).id = e.txID BY DEF Row
  <2>4. \A i, j \in DOMAIN Prefilled : Prefilled[i].row.id = Prefilled[j].row.id => i = j
    BY <1>2, <2>2, <2>3, ReplayOnce
  <2>5. \A i \in DOMAIN Prefilled : i \in Nat
    <3>1. Prefilled \in Seq(Message) BY <1>2, PrefilledTyped
    <3> QED BY <3>1
  <2>6. \A i, j \in DOMAIN ch' : i < j => NotLater(ch'[i].row, ch'[j].row)
    BY <2>1, <2>4, <2>5 DEF NotLater
  <2>7. \A row \in ToSet(rows) : \A j \in DOMAIN ch' : NotLater(row, ch'[j].row)
    BY <2>1, <2>2 DEF LinedAll, TableRows
  <2>8. \A c, d \in RingEvents : NotLater(Row(c), Row(d))
    <3>1. \A d \in RingEvents : d.ts \in Nat BY HeardTyped, EventParts
    <3>2. \A c, d \in RingEvents : c.txID = d.txID => c = d BY <1>2, RingOne
    <3>3. \A e : Row(e).ts = e.ts BY DEF Row
    <3> QED BY <2>3, <3>1, <3>2, <3>3 DEF NotLater
  <2>9. \A row \in TableRows' : row \in TableRows \/ \E d \in RingEvents : row = Row(d)
    BY <1>1, <2>1, <2>2 DEF TableRows
  <2>10. \A row \in TableRows' : \A d \in RingEvents' : NotLater(row, Row(d))
    BY <1>3, <2>1, <2>8, <2>9 DEF LinedAll
  <2> QED BY <1>1, <1>4, <2>6, <2>7, <2>10 DEF Lined, LinedAll
<1>5. CASE query # NoQuery
  <2>1. LinedSearch /\ ch' = << >> BY <1>1, <1>5 DEF Lined
  <2> QED BY <1>1, <1>3, <1>5, <2>1 DEF Lined, LinedSearch
<1> QED BY <1>4, <1>5

\* The first message joins the rows.
LEMMA LinedSwap ==
  ASSUME PageTyped, Clocked, Lined, store = "mock", Swap
  PROVE  Lined'
<1> DEFINE m == ch[1].row
<1>1. /\ UNCHANGED <<bufferVars, mockVars, eventsCh, query, store>> /\ ch # << >> /\ ch' = Tail(ch)
  BY DEF Swap
<1>2. ch \in Seq(Message) /\ rows \in Seq(Rows) BY DEF PageTyped, TypeOK
<1>3. /\ 1 \in DOMAIN ch /\ Head(ch) = ch[1]
      /\ \A i \in DOMAIN ch' : /\ i + 1 \in DOMAIN ch /\ ch'[i] = ch[i + 1] /\ 1 < i + 1
                               /\ i \in Nat
  BY <1>1, <1>2
<1>4. RingEvents' = RingEvents /\ Pending' = Pending
  BY <1>1 DEF RingEvents, Pending, InHand, mockVars, bufferVars
<1>5. \A row \in ToSet(rows') : row \in ToSet(rows) \/ row = m
  <2>1. \/ rows' = << m >> \o rows
        \/ rows' = [i \in DOMAIN rows |-> IF rows[i].swap = ch[1].name THEN m ELSE rows[i]]
    BY <1>3 DEF Swap
  <2>2. CASE rows' = << m >> \o rows
    <3>1. m \in Rows BY <1>2, <1>3, MessagesTyped
    <3>2. \A i \in DOMAIN rows' : rows'[i] = m \/ \E j \in DOMAIN rows : rows'[i] = rows[j]
      <4> HIDE DEF m
      <4> QED BY <1>2, <2>2, <3>1, PrependElements
    <3> QED BY <3>2 DEF ToSet
  <2>3. CASE rows' = [i \in DOMAIN rows |-> IF rows[i].swap = ch[1].name THEN m ELSE rows[i]]
    BY <2>3 DEF ToSet
  <2> QED BY <2>1, <2>2, <2>3
<1>6. \A i, j \in DOMAIN ch' : i < j => i + 1 < j + 1 BY <1>3
<1>7. CASE query = NoQuery
  <2>1. LinedAll BY <1>7 DEF Lined
  <2>2. \A i, j \in DOMAIN ch' : i < j => NotLater(ch'[i].row, ch'[j].row)
    BY <1>3, <1>6, <2>1 DEF LinedAll
  <2>3. \A row \in ToSet(rows') : \A j \in DOMAIN ch' : NotLater(row, ch'[j].row)
    BY <1>3, <1>5, <2>1 DEF LinedAll
  <2>4. TableRows' \subseteq TableRows BY <1>2, SwapRows
  <2> QED BY <1>1, <1>4, <1>7, <2>1, <2>2, <2>3, <2>4 DEF Lined, LinedAll
<1>8. CASE query # NoQuery
  <2>1. LinedSearch BY <1>8 DEF Lined
  <2>2. \A i, j \in DOMAIN ch' : i < j => ch'[i].row.ts < ch'[j].row.ts
    BY <1>3, <1>6, <2>1 DEF LinedSearch
  <2>3. \A j \in DOMAIN ch' : query.since < ch'[j].row.ts BY <1>3, <2>1 DEF LinedSearch
  <2>4. \A j \in DOMAIN ch' : m.ts < ch'[j].row.ts BY <1>3, <2>1 DEF LinedSearch
  <2>5. \A e \in ToSet(Pending) : m.ts < e.ts
    <3>1. m \in Sent BY <1>3 DEF Sent
    <3> QED BY <3>1 DEF Clocked
  <2>6. \A row \in ToSet(rows') :
          \/ Second(row.ts) <= query.since
          \/ /\ \A j \in DOMAIN ch' : row.ts < ch'[j].row.ts
             /\ \A e \in ToSet(Pending) : row.ts < e.ts
    <3> HIDE DEF m
    <3> QED BY <1>3, <1>5, <2>1, <2>4, <2>5 DEF LinedSearch
  <2> QED BY <1>1, <1>4, <1>8, <2>1, <2>2, <2>3, <2>6 DEF Lined, LinedSearch
<1> QED BY <1>7, <1>8

\* A table is as old as the newest event found.
LEMMA LinedTable ==
  ASSUME PageTyped, Clocked, store = "mock", Table
  PROVE  Lined'
<1>1. PICK match \in SUBSET TxIDs :
        NewTable(Mock!Search(match),
                 [match |-> match, since |-> IF Mock!Search(match) = << >> THEN 0
                                             ELSE Second(Mock!Search(match)[1].ts)])
  BY DEF Table
<1> DEFINE found == Mock!Search(match)
           since == IF found = << >> THEN 0 ELSE Second(found[1].ts)
<1>2. events \in Seq(Events) /\ Increasing(events) BY DEF PageTyped, TypeOK, Clocked
<1>3. found \in Seq(Events) /\ \A k, l \in DOMAIN found : k < l => found[l].ts < found[k].ts
  BY <1>2, SearchFinds
<1>4. query' \in Queries /\ query' # NoQuery /\ query'.since = since
  <2>1. query' \in Queries BY <1>1, TypedSearch DEF NewTable
  <2>2. query'.since = since BY <1>1 DEF NewTable
  <2> QED BY <2>1, <2>2, PageAssumption DEF Queries
<1>5. ch' = << >> /\ store' = store /\ rows' = [i \in DOMAIN found |-> Row(found[i])]
  BY <1>1 DEF NewTable
<1> HIDE DEF found
<1>6. \A k \in DOMAIN found : found[k].ts \in Nat /\ k \in Nat \ {0} /\ 1 \in DOMAIN found
  <2>1. \A k \in DOMAIN found : found[k] \in Events /\ k \in Nat \ {0} /\ 1 \in DOMAIN found
    BY <1>3
  <2> QED BY <2>1, EventParts
<1>7. \A k \in DOMAIN found : found[k].ts <= found[1].ts
  <2> SUFFICES ASSUME NEW k \in DOMAIN found PROVE found[k].ts <= found[1].ts
    OBVIOUS
  <2>1. CASE k = 1 BY <1>6, <2>1
  <2>2. CASE k # 1
    <3>1. 1 < k BY <1>6, <2>2
    <3> QED BY <1>3, <1>6, <3>1
  <2> QED BY <2>1, <2>2
<1>8. Second(since) = since
  <2>1. CASE found = << >>
    <3>1. since = 0 BY <2>1
    <3>2. Second(0) \in 0 .. 0 BY SecondTyped
    <3> QED BY <3>1, <3>2
  <2>2. CASE found # << >>
    <3>1. 1 \in DOMAIN found BY <1>3, <2>2
    <3> QED BY <1>6, <2>2, <3>1, SecondOrder
  <2> QED BY <2>1, <2>2
<1>9. \A row \in ToSet(rows') : Second(row.ts) <= since
  <2> SUFFICES ASSUME NEW k \in DOMAIN found PROVE Second(Row(found[k]).ts) <= since
    BY <1>5 DEF ToSet
  <2>1. Row(found[k]).ts = found[k].ts BY DEF Row
  <2>2. found # << >> BY <1>3
  <2>3. Second(found[k].ts) <= Second(found[1].ts) BY <1>6, <1>7, SecondOrder
  <2> QED BY <2>1, <2>2, <2>3
<1> HIDE DEF since
<1> QED BY <1>4, <1>5, <1>8, <1>9 DEF Lined, LinedSearch

\* The order of the rows is kept.
LEMMA LinedStep ==
  PageTyped /\ CopiesTold /\ Clocked /\ StatesGrow /\ Lined /\ [Next]_vars => Lined'
<1> SUFFICES ASSUME PageTyped, CopiesTold, Clocked, StatesGrow, Lined, [Next]_vars, store' = "mock"
             PROVE  Lined'
  BY DEF Lined
<1>1. store = "mock" BY StoreFixed
<1>2. CASE StoreRuns
  <2>1. UNCHANGED <<head, rows, ch, query>>
    BY <1>2 DEF StoreRuns, pageVars, bufferVars
  <2>2. UNCHANGED <<TableRows, RingEvents>> BY <2>1 DEF TableRows, RingEvents
  <2>3. query = NoQuery => LinedAll' BY <1>1, <2>1, <2>2 DEF Lined, LinedAll
  <2>4. ASSUME query # NoQuery PROVE LinedSearch'
    <3>1. LinedSearch BY <1>1, <2>4 DEF Lined
    <3>2. \A e \in ToSet(Pending') : e \in ToSet(Pending) \/ \A row \in TableRows : row.ts < e.ts
      <4>1. ASSUME NEW i \in Slots, Mock!NextEvent(i), NEW e \in ToSet(Pending'),
                   e \notin ToSet(Pending)
            PROVE  \A row \in TableRows : row.ts < e.ts
        <5>1. NextEventMade(i) /\ Pending' = Append(Pending, made')
          BY <4>1, NextEventMakes, PendingStore DEF PageTyped
        <5>2. made' \in Events /\ made'.ts = clock + 1 /\ clock \in Nat
          BY <5>1, PageAssumption DEF NextEventMade, PageTyped, TypeOK
        <5>3. e = made'
          <6>1. Pending \in Seq(Events) BY HeardTyped
          <6>2. ToSet(Pending') = ToSet(Pending) \cup {made'} BY <5>1, <5>2, <6>1, AppendElements
          <6> QED BY <4>1, <6>2
        <5>4. \A row \in TableRows : row.ts <= clock /\ row.ts \in Nat
          BY <1>1, HeardTyped, RowParts DEF Clocked, Copies
        <5> QED BY <5>2, <5>3, <5>4
      <4>2. ASSUME Mock!Record \/ Mock!Send \/ Mock!Stop PROVE Pending' = Pending
        BY <4>2, PendingStore
      <4>3. ASSUME Mock!SeeDone PROVE ToSet(Pending') \subseteq ToSet(Pending)
        <5>1. Pending = Append(Pending', made) /\ Pending' = eventsCh /\ InHand
          BY <4>3, PendingStore DEF Mock!SeeDone, InHand
        <5>2. \A j \in DOMAIN Pending' : j \in DOMAIN Pending /\ Pending'[j] = Pending[j]
          BY <5>1, PendingDropped
        <5> QED BY <5>2 DEF ToSet
      <4> QED BY <1>2, <4>1, <4>2, <4>3 DEF StoreRuns, Mock!Run
    <3>3. ToSet(rows) \subseteq TableRows BY DEF TableRows
    <3> QED BY <2>1, <3>1, <3>2, <3>3 DEF LinedSearch
  <2> QED BY <2>1, <2>3, <2>4 DEF Lined
<1>3. CASE Notified BY <1>1, <1>3 DEF Notified
<1>4. CASE Broadcast BY <1>1, <1>4, LinedBroadcast
<1>5. CASE Restart \/ Break
  <2>1. /\ UNCHANGED <<rows, query>> /\ ch' = << >>
        /\ head' = head \/ head' = [i \in Index |-> EmptySlot]
    BY <1>5 DEF Restart, Break, bufferVars
  <2>2. RingEvents' \subseteq RingEvents
    <3>1. CASE head' = head BY <3>1 DEF RingEvents
    <3>2. CASE head' = [i \in Index |-> EmptySlot]
      <4>1. \A i \in Index : head'[i].data = NoData BY <3>2 DEF EmptySlot
      <4>2. RingEvents' = {} BY <4>1 DEF RingEvents, Index
      <4> QED BY <4>2
    <3> QED BY <2>1, <3>1, <3>2
  <2>3. ToSet(Pending') \subseteq ToSet(Pending)
    <3>1. Heard' \subseteq Heard BY <1>5, CopiesKept
    <3>2. CASE Restart
      <4>1. eventsCh' = << >> /\ pc' = "next" BY <3>2 DEF Restart, Mock!Restart
      <4>2. Pending' = << >> BY <4>1 DEF Pending, InHand
      <4> QED BY <4>2 DEF ToSet
    <3>3. CASE Break BY <3>3 DEF Break, mockVars, Pending, InHand
    <3> QED BY <1>5, <3>2, <3>3
  <2>4. TableRows' \subseteq TableRows BY <2>1 DEF TableRows
  <2> QED BY <1>1, <2>1, <2>2, <2>3, <2>4 DEF Lined, LinedAll, LinedSearch
<1>6. CASE Home \/ (\E i \in DOMAIN rows : TxPage(i))
  <2>1. rows' = << >> /\ ch' = << >> /\ query' = NoQuery
    BY <1>6 DEF Home, NewTable, TxPage
  <2>2. TableRows' = {} BY <2>1 DEF TableRows, ToSet
  <2> QED BY <2>1, <2>2 DEF Lined, LinedAll, ToSet
<1>7. CASE Table BY <1>1, <1>7, LinedTable
<1>8. CASE Stream BY <1>1, <1>8, LinedStream
<1>9. CASE Swap BY <1>1, <1>9, LinedSwap
<1>10. CASE UNCHANGED vars
  <2>1. UNCHANGED <<head, mockVars, eventsCh, rows, ch, query, store>>
    BY <1>10 DEF vars, pageVars, bufferVars
  <2> QED BY <2>1 DEF Lined, LinedAll, LinedSearch, TableRows, RingEvents, Pending, InHand, mockVars
<1> QED BY <1>2, <1>3, <1>4, <1>5, <1>6, <1>7, <1>8, <1>9, <1>10 DEF Next

\* The top row of a transaction is the first of its rows.
LEMMA TopRowFirst ==
  ASSUME PageTyped, NEW t, RowsOf(t) # {}
  PROVE  /\ Min(RowsOf(t)) \in RowsOf(t) /\ \A i \in RowsOf(t) : Min(RowsOf(t)) <= i
         /\ TopRow(t) \in ToSet(rows) /\ TopRow(t) \in Rows /\ TopRow(t).id = t
<1>1. rows \in Seq(Rows) /\ RowsOf(t) \in SUBSET Nat BY CountTyped DEF PageTyped, TypeOK
<1>2. Min(RowsOf(t)) \in RowsOf(t) /\ \A i \in RowsOf(t) : Min(RowsOf(t)) <= i
  BY <1>1, MinIsLeast
<1>3. Min(RowsOf(t)) \in DOMAIN rows /\ rows[Min(RowsOf(t))].id = t BY <1>2 DEF RowsOf
<1> QED BY <1>1, <1>2, <1>3 DEF TopRow, ToSet

\* A swap changes the top row of no transaction but its own, which it replaces.
LEMMA SwapTops ==
  ASSUME PageTyped, Swap, NEW t, RowsOf(t) # {}
  PROVE  /\ RowsOf(t)' # {}
         /\ TopRow(t)' = IF Head(ch).row.id = t THEN Head(ch).row ELSE TopRow(t)
<1> DEFINE m == Head(ch)
           k == Min(RowsOf(t))
           R == RowsOf(t)'
<1>1. ch \in Seq(Message) /\ rows \in Seq(Rows) /\ ch # << >> BY DEF PageTyped, TypeOK, Swap
<1>2. m = ch[1] /\ 1 \in DOMAIN ch /\ m.row \in Rows /\ m.name \in {EventTXRow, m.row.id}
  BY <1>1, FirstOf, MessagesTyped DEF PageTyped, TableTyped
<1>3. k \in RowsOf(t) /\ (\A i \in RowsOf(t) : k <= i) /\ TopRow(t) = rows[k]
  BY TopRowFirst DEF TopRow
<1>4. \/ rows' = << m.row >> \o rows /\ m.name = EventTXRow
      \/ /\ rows' = [i \in DOMAIN rows |-> IF rows[i].swap = m.name THEN m.row ELSE rows[i]]
         /\ m.name # EventTXRow
  BY DEF Swap
<1>5. \A i \in DOMAIN rows : rows[i] \in Rows /\ rows[i].swap = rows[i].id /\ i \in Nat \ {0}
  <2>1. \A i \in DOMAIN rows : rows[i] \in Rows /\ i \in Nat \ {0} BY <1>1
  <2> QED BY <2>1, RowParts
<1>6. TopRow(t)' = rows'[Min(R)] BY DEF TopRow
<1> HIDE DEF m, k
<1>7. CASE rows' = << m.row >> \o rows /\ m.name = EventTXRow
  <2>1. /\ 1 \in DOMAIN rows' /\ rows'[1] = m.row
        /\ \A i \in DOMAIN rows : i + 1 \in DOMAIN rows' /\ rows'[i + 1] = rows[i]
        /\ \A i \in DOMAIN rows' \ {1} : i - 1 \in DOMAIN rows /\ rows'[i] = rows[i - 1]
    BY <1>1, <1>2, <1>7, PrependElements
  <2>2. \A i \in DOMAIN rows' : i \in Nat \ {0}
    <3>1. << m.row >> \o rows \in Seq(Rows) BY <1>1, <1>2
    <3> QED BY <1>7, <3>1
  <2>3. R \in SUBSET Nat /\ k + 1 \in R
    <3>1. k \in DOMAIN rows /\ rows[k].id = t BY <1>3 DEF RowsOf
    <3> QED BY <2>1, <2>2, <3>1 DEF RowsOf
  <2>4. CASE m.row.id = t
    <3>1. 1 \in R /\ \A i \in R : 1 <= i BY <2>1, <2>2, <2>4 DEF RowsOf
    <3>2. Min(R) = 1
      <4>1. Min(R) \in R /\ \A i \in R : Min(R) <= i
        <5> HIDE DEF R
        <5> QED BY <2>3, MinIsLeast
      <4> HIDE DEF R
      <4>2. Min(R) \in Nat /\ Min(R) <= 1 /\ 1 <= Min(R) BY <2>3, <3>1, <4>1
      <4> QED BY <4>2
    <3> QED BY <1>6, <2>1, <2>4, <3>1, <3>2 DEF m
  <2>5. CASE m.row.id # t
    <3>1. \A i \in R : i # 1 /\ i - 1 \in RowsOf(t) BY <2>1, <2>5 DEF RowsOf
    <3>2. \A i \in R : k + 1 <= i
      <4>1. k \in Nat BY <1>3, <1>5 DEF RowsOf
      <4> HIDE DEF R
      <4>2. \A i \in R : i \in Nat /\ k <= i - 1 BY <1>3, <2>3, <3>1
      <4> QED BY <4>1, <4>2
    <3>3. Min(R) = k + 1
      <4>1. Min(R) \in R /\ \A i \in R : Min(R) <= i
        <5> HIDE DEF R
        <5> QED BY <2>3, MinIsLeast
      <4> HIDE DEF R
      <4>2. Min(R) \in Nat /\ k + 1 \in Nat BY <2>3, <4>1
      <4> QED BY <2>3, <3>2, <4>1, <4>2
    <3>4. rows'[k + 1] = rows[k] BY <1>3, <2>1 DEF RowsOf
    <3> QED BY <1>3, <1>6, <2>3, <2>5, <3>3, <3>4 DEF m
  <2> QED BY <2>4, <2>5
<1>8. CASE /\ rows' = [i \in DOMAIN rows |-> IF rows[i].swap = m.name THEN m.row ELSE rows[i]]
           /\ m.name # EventTXRow
  <2>1. m.name = m.row.id BY <1>2, <1>8
  <2>2. /\ DOMAIN rows' = DOMAIN rows
        /\ \A i \in DOMAIN rows : rows'[i] = IF rows[i].id = m.row.id THEN m.row ELSE rows[i]
    BY <1>5, <1>8, <2>1
  <2>3. R = RowsOf(t) BY <2>2 DEF RowsOf
  <2>4. k \in DOMAIN rows /\ rows[k].id = t BY <1>3 DEF RowsOf
  <2>5. Min(R) = k BY <2>3 DEF k
  <2> QED BY <1>3, <1>6, <2>2, <2>3, <2>4, <2>5 DEF m
<1> QED BY <1>4, <1>7, <1>8

\* A row goes back within a second only.
LEMMA SwapWithinSecond ==
  ASSUME PageTyped, Lined, store = "mock", Swap, NEW t, RowsOf(t) # {},
         TopRow(t)'.ts < TopRow(t).ts
  PROVE  query # NoQuery /\ Second(TopRow(t)'.ts) = Second(TopRow(t).ts)
<1> DEFINE old == TopRow(t)
           new == TopRow(t)'
<1>1. old \in ToSet(rows) /\ old \in Rows /\ old.id = t BY TopRowFirst
<1>2. new = IF Head(ch).row.id = t THEN Head(ch).row ELSE old BY SwapTops
<1>3. /\ ch \in Seq(Message) /\ ch # << >> BY DEF PageTyped, TypeOK, Swap
<1>4. Head(ch) = ch[1] /\ 1 \in DOMAIN ch BY <1>3, FirstOf
<1>5. ch[1].row \in Rows BY <1>3, <1>4, MessagesTyped
<1>6. old.ts \in Nat /\ ch[1].row.ts \in Nat BY <1>1, <1>5, RowParts
<1>7. new.ts < old.ts OBVIOUS
<1> HIDE DEF old, new
<1>8. new = ch[1].row /\ ch[1].row.id = t BY <1>2, <1>4, <1>6, <1>7
<1>9. ASSUME query = NoQuery PROVE FALSE
  <2>1. NotLater(old, new) BY <1>1, <1>4, <1>8, <1>9 DEF Lined, LinedAll
  <2>2. old.ts <= new.ts BY <1>1, <1>8, <2>1 DEF NotLater
  <2> QED BY <1>6, <1>7, <1>8, <2>2
<1>10. LinedSearch BY <1>9 DEF Lined
<1>11. query.since \in Nat /\ Second(query.since) = query.since /\ query.since < new.ts
  <2>1. query.since \in 0 .. MaxEvents BY <1>9 DEF PageTyped, TypeOK
  <2>2. MaxEvents \in Nat BY PageAssumption
  <2> QED BY <1>4, <1>8, <1>10, <2>1, <2>2 DEF LinedSearch
<1>12. Second(old.ts) <= query.since
  <2>1. ~(old.ts < new.ts) BY <1>6, <1>7, <1>8
  <2> QED BY <1>1, <1>4, <1>8, <1>10, <2>1 DEF LinedSearch
<1>13. /\ query.since <= Second(new.ts) /\ Second(new.ts) <= Second(old.ts)
       /\ Second(new.ts) \in Nat /\ Second(old.ts) \in Nat
  <2>1. query.since <= new.ts /\ new.ts <= old.ts /\ new.ts \in Nat
    BY <1>6, <1>7, <1>8, <1>11
  <2> QED BY <1>6, <1>11, <2>1, SecondOrder
<1>14. Second(new.ts) = Second(old.ts) BY <1>11, <1>12, <1>13
<1> QED BY <1>9, <1>14 DEF old, new

\* With events in order a row never goes back in time, over reconnections and
\* restarts too, except on the page of a search, within one second: an event
\* under way may be older than the rows that were found.
THEOREM RowsNeverGoBack == Spec => RowsGoBackWithinSecond
<1> DEFINE Step == \A t \in TxIDs :
                     /\ store = "mock" /\ connects' > 0
                     /\ RowsOf(t) # {} /\ TopRow(t)'.ts < TopRow(t).ts
                     => query # NoQuery /\ Second(TopRow(t)'.ts) = Second(TopRow(t).ts)
<1>1. PageTyped /\ Lined /\ [Next]_vars => [Step]_<<rows, connects>>
  <2> SUFFICES ASSUME PageTyped, Lined, [Next]_vars, UNCHANGED <<rows, connects>> => FALSE,
                      NEW t \in TxIDs, store = "mock", connects' > 0,
                      RowsOf(t) # {}, TopRow(t)'.ts < TopRow(t).ts
               PROVE  query # NoQuery /\ Second(TopRow(t)'.ts) = Second(TopRow(t).ts)
    OBVIOUS
  <2>1. TopRow(t).ts \in Nat BY TopRowFirst, RowParts
  <2>2. ASSUME rows' = rows PROVE FALSE
    <3>1. TopRow(t)' = TopRow(t) BY <2>2 DEF TopRow, RowsOf
    <3> QED BY <2>1, <3>1
  <2>3. ~Home /\ ~Table /\ ~(\E i \in DOMAIN rows : TxPage(i))
    <3>1. ~(connects' = 0) OBVIOUS
    <3> QED BY <3>1 DEF Home, Table, NewTable, TxPage
  <2>4. StoreRuns \/ Notified \/ Broadcast \/ Restart \/ Stream \/ Break \/ UNCHANGED vars
          => rows' = rows
    BY DEF StoreRuns, Notified, Broadcast, Restart, Stream, Break, vars, pageVars
  <2>5. Swap BY <2>2, <2>3, <2>4 DEF Next
  <2> QED BY <2>5, SwapWithinSecond
<1> QED BY AlwaysTyped, ToldInit, ToldStep, ClockedInit, ClockedStep, GrowInit, GrowStep,
           LinedInit, LinedStep, <1>1, PTL DEF Spec, RowsGoBackWithinSecond

------------------------------------------------------------------------------
(* The table and the ring. *)

\* What is on its way or in the ring can be searched for.
Recorded ==
  store = "mock" =>
    /\ ToSet(eventsCh) \subseteq ToSet(events)
    /\ pc = "send" => made \in ToSet(events)
    /\ RingEvents \subseteq ToSet(events)

\* Nothing is recorded at first, nor in the ring.
LEMMA RecordedInit == Init => Recorded
<1> SUFFICES ASSUME Init PROVE Recorded
  OBVIOUS
<1>1. eventsCh = << >> /\ pc = "next" /\ head = [i \in Index |-> EmptySlot]
  BY DEF Init, Mock!New, NewEventBuffer
<1>2. RingEvents = {} BY <1>1 DEF RingEvents, EmptySlot
<1> QED BY <1>1, <1>2 DEF Recorded, ToSet

\* An event is recorded before it is sent.
LEMMA RecordedStore ==
  ASSUME PageTyped, Recorded, store = "mock", StoreRuns
  PROVE  Recorded'
<1>1. /\ ToSet(eventsCh) \subseteq ToSet(events) /\ RingEvents \subseteq ToSet(events)
      /\ pc = "send" => made \in ToSet(events)
  BY DEF Recorded
<1>2. events \in Seq(Events) /\ eventsCh \in Seq(Events) /\ (InHand => made \in Events)
  BY DEF PageTyped, TypeOK, StoreTyped
<1>3. RingEvents' = RingEvents BY DEF StoreRuns, bufferVars, RingEvents
<1>4. ASSUME NEW i \in Slots, Mock!NextEvent(i) PROVE Recorded'
  <2>1. NextEventMade(i) BY <1>4, NextEventMakes DEF PageTyped
  <2>2. pc' = "record" /\ events' = events /\ eventsCh' = eventsCh BY <2>1 DEF NextEventMade
  <2> QED BY <1>1, <1>3, <2>2 DEF Recorded
<1>5. CASE Mock!Record
  <2>1. /\ pc = "record" /\ made' = made /\ eventsCh' = eventsCh
        /\ events' = Append(events, made)
    BY <1>5 DEF Mock!Record, Mock!jobVars
  <2>2. made \in Events BY <1>2, <2>1 DEF InHand
  <2>3. ToSet(events') = ToSet(events) \cup {made} BY <1>2, <2>1, <2>2, AppendElements
  <2> QED BY <1>1, <1>3, <2>1, <2>3 DEF Recorded
<1>6. CASE Mock!Send
  <2>1. /\ pc = "send" /\ pc' = "next" /\ events' = events
        /\ eventsCh' = Append(eventsCh, made)
    BY <1>6 DEF Mock!Send
  <2>2. made \in Events BY <1>2, <2>1 DEF InHand
  <2>3. ToSet(eventsCh') = ToSet(eventsCh) \cup {made} BY <1>2, <2>1, <2>2, AppendElements
  <2> QED BY <1>1, <1>3, <2>1, <2>3 DEF Recorded
<1>7. CASE Mock!SeeDone \/ Mock!Stop
  <2>1. UNCHANGED <<events, eventsCh, made>> /\ (pc' = "send" => pc = "send")
    BY <1>7 DEF Mock!SeeDone, Mock!Stop, Mock!jobVars
  <2> QED BY <1>1, <1>3, <2>1 DEF Recorded
<1> QED BY <1>4, <1>5, <1>6, <1>7 DEF StoreRuns, Mock!Run

\* The ring has events that were sent.
LEMMA RecordedStep == PageTyped /\ Recorded /\ [Next]_vars => Recorded'
<1> SUFFICES ASSUME PageTyped, Recorded, [Next]_vars, store' = "mock" PROVE Recorded'
  BY DEF Recorded
<1>1. store = "mock" BY StoreFixed
<1>2. /\ ToSet(eventsCh) \subseteq ToSet(events) /\ RingEvents \subseteq ToSet(events)
      /\ pc = "send" => made \in ToSet(events)
  BY <1>1 DEF Recorded
<1>3. CASE StoreRuns BY <1>1, <1>3, RecordedStore
<1>4. CASE Notified BY <1>1, <1>4 DEF Notified
<1>5. CASE Broadcast
  <2> DEFINE e == Head(eventsCh)
  <2>1. eventsCh # << >> /\ eventsCh' = Tail(eventsCh) /\ Add(e) /\ UNCHANGED mockVars
    BY <1>5 DEF Broadcast
  <2>2. eventsCh \in Seq(Events) /\ BufferTypeOK BY DEF PageTyped, TypeOK
  <2>3. /\ e \in Events /\ e \in ToSet(eventsCh)
        /\ ToSet(Tail(eventsCh)) \subseteq ToSet(eventsCh)
    BY <2>1, <2>2, FirstOf
  <2>4. RingEvents' \subseteq RingEvents \cup {e} BY <2>1, <2>2, <2>3, RingAdds
  <2> QED BY <1>2, <2>1, <2>3, <2>4 DEF Recorded, mockVars
<1>6. CASE Restart
  <2>1. eventsCh' = << >> /\ pc' = "next" /\ head' = [i \in Index |-> EmptySlot]
    BY <1>6 DEF Restart, Mock!Restart
  <2>2. \A i \in Index : head'[i].data = NoData BY <2>1 DEF EmptySlot
  <2>3. RingEvents' = {} BY <2>2 DEF RingEvents, Index
  <2> QED BY <2>1, <2>3 DEF Recorded, ToSet
<1>7. CASE Home \/ Table \/ (\E i \in DOMAIN rows : TxPage(i)) \/ Stream \/ Swap \/ Break
             \/ UNCHANGED vars
  <2>1. UNCHANGED <<head, mockVars, eventsCh>>
    BY <1>7 DEF Home, Table, NewTable, TxPage, Stream, Swap, Break, vars, bufferVars
  <2>2. RingEvents' = RingEvents BY <2>1 DEF RingEvents
  <2> QED BY <1>2, <2>1, <2>2 DEF Recorded, mockVars
<1> QED BY <1>3, <1>4, <1>5, <1>6, <1>7 DEF Next

------------------------------------------------------------------------------

\* The page of a search has rows of what matches, and what is yet to be
\* broadcast and no later than the search is in its row.
SearchShows ==
  query # NoQuery =>
    /\ query.since <= clock
    /\ \A row \in TableRows : row.id \in query.match
    /\ \A e \in ToSet(Pending) :
         e.ts <= query.since /\ RowsOf(e.txID) # {} => TopRow(e.txID).ts >= e.ts

\* A swap inserts a first row of a transaction, or makes none.
LEMMA SwapInserts ==
  ASSUME PageTyped, Swap, NEW t, RowsOf(t) = {}
  PROVE  /\ RowsOf(t)' # {} <=> Head(ch).name = EventTXRow /\ Head(ch).row.id = t
         /\ RowsOf(t)' # {} => TopRow(t)' = Head(ch).row
<1> DEFINE m == Head(ch)
           R == RowsOf(t)'
<1>1. ch \in Seq(Message) /\ rows \in Seq(Rows) /\ ch # << >> BY DEF PageTyped, TypeOK, Swap
<1>2. m = ch[1] /\ 1 \in DOMAIN ch /\ m.row \in Rows /\ m.name \in {EventTXRow, m.row.id}
  BY <1>1, FirstOf, MessagesTyped DEF PageTyped, TableTyped
<1>3. \/ rows' = << m.row >> \o rows /\ m.name = EventTXRow
      \/ /\ rows' = [i \in DOMAIN rows |-> IF rows[i].swap = m.name THEN m.row ELSE rows[i]]
         /\ m.name # EventTXRow
  BY DEF Swap
<1>4. \A i \in DOMAIN rows : rows[i] \in Rows /\ rows[i].swap = rows[i].id /\ rows[i].id # t
  <2>1. \A i \in DOMAIN rows : rows[i] \in Rows BY <1>1
  <2>2. \A i \in DOMAIN rows : rows[i].id # t BY DEF RowsOf
  <2> QED BY <2>1, <2>2, RowParts
<1>5. TopRow(t)' = rows'[Min(R)] BY DEF TopRow
<1> HIDE DEF m
<1>6. CASE rows' = << m.row >> \o rows /\ m.name = EventTXRow
  <2>1. /\ 1 \in DOMAIN rows' /\ rows'[1] = m.row
        /\ \A i \in DOMAIN rows' \ {1} : i - 1 \in DOMAIN rows /\ rows'[i] = rows[i - 1]
    BY <1>1, <1>2, <1>6, PrependElements
  <2>2. R = IF m.row.id = t THEN {1} ELSE {} BY <1>4, <2>1 DEF RowsOf
  <2> HIDE DEF R
  <2>3. ASSUME m.row.id = t PROVE R # {} /\ rows'[Min(R)] = m.row
    <3>1. R = {1} /\ R \in SUBSET Nat BY <2>2, <2>3
    <3>2. Min(R) \in R BY <3>1, MinIsLeast
    <3> QED BY <2>1, <3>1, <3>2
  <2> QED BY <1>5, <1>6, <2>2, <2>3 DEF m, R
<1>7. CASE /\ rows' = [i \in DOMAIN rows |-> IF rows[i].swap = m.name THEN m.row ELSE rows[i]]
           /\ m.name # EventTXRow
  <2>1. m.name = m.row.id BY <1>2, <1>7
  <2>2. \A i \in DOMAIN rows' : rows'[i].id # t
    <3>1. DOMAIN rows' = DOMAIN rows BY <1>7
    <3>2. \A i \in DOMAIN rows : rows'[i] = IF rows[i].id = m.row.id THEN m.row ELSE rows[i]
      BY <1>4, <1>7, <2>1
    <3> QED BY <1>4, <3>1, <3>2
  <2>3. R = {} BY <2>2 DEF RowsOf
  <2> QED BY <1>7, <2>3 DEF m
<1> QED BY <1>3, <1>6, <1>7

\* The rows of what is found are no earlier than what can be searched for.
LEMMA TableTops ==
  ASSUME PageTyped, Clocked, store = "mock", NEW match \in SUBSET TxIDs, NEW q,
         NewTable(Mock!Search(match), q), NEW e \in ToSet(events), RowsOf(e.txID)' # {}
  PROVE  TopRow(e.txID)'.ts >= e.ts
<1> DEFINE found == Mock!Search(match)
           R == RowsOf(e.txID)'
           k == Min(R)
<1>1. events \in Seq(Events) /\ Increasing(events) BY DEF PageTyped, TypeOK, Clocked
<1>2. /\ found \in Seq(Events)
      /\ \A j \in DOMAIN found : found[j].txID \in match
      /\ \A j, l \in DOMAIN found : j < l => found[l].ts < found[j].ts
      /\ e.txID \in match =>
           \/ \E j \in DOMAIN found : found[j] = e
           \/ \A j \in DOMAIN found : e.ts < found[j].ts
  BY <1>1, SearchFinds
<1>3. rows' = [i \in DOMAIN found |-> Row(found[i])] BY DEF NewTable
<1>4. \A j \in DOMAIN found : Row(found[j]).id = found[j].txID /\ Row(found[j]).ts = found[j].ts
  BY DEF Row
<1>5. TopRow(e.txID)' = rows'[k] BY DEF TopRow
<1>6. \A j : j \in R <=> j \in DOMAIN found /\ found[j].txID = e.txID
  BY <1>3, <1>4 DEF RowsOf
<1>7. R # {} OBVIOUS
<1>8. e \in Events BY <1>1 DEF ToSet
<1> HIDE DEF found, R
<1>9. R \in SUBSET Nat BY <1>2, <1>6
<1>10. k \in R /\ \A j \in R : k <= j BY <1>7, <1>9, MinIsLeast
<1> HIDE DEF k
<1>11. k \in DOMAIN found /\ found[k].txID = e.txID /\ found[k] \in Events
  BY <1>2, <1>6, <1>10
<1>12. found[k].ts \in Nat /\ e.ts \in Nat BY <1>8, <1>11, EventParts
<1>13. rows'[k].ts = found[k].ts BY <1>3, <1>4, <1>11
<1>14. e.ts <= found[k].ts
  <2>1. CASE \E j \in DOMAIN found : found[j] = e
    <3>1. PICK j \in DOMAIN found : found[j] = e BY <2>1
    <3>2. j \in R /\ j \in Nat /\ k \in Nat BY <1>6, <1>9, <1>10, <3>1
    <3>3. k = j \/ k < j BY <1>10, <3>2
    <3>4. CASE k = j BY <1>12, <3>1, <3>4
    <3>5. CASE k < j
      <4>1. found[j].ts < found[k].ts BY <1>2, <1>11, <3>5
      <4> QED BY <1>12, <3>1, <4>1
    <3> QED BY <3>3, <3>4, <3>5
  <2>2. CASE \A j \in DOMAIN found : e.ts < found[j].ts BY <1>11, <1>12, <2>2
  <2> QED BY <1>2, <1>11, <2>1, <2>2
<1>15. TopRow(e.txID)'.ts = found[k].ts BY <1>5, <1>13
<1> QED BY <1>12, <1>14, <1>15

\* A search finds what is recorded; what is not is later than all that is.
LEMMA SearchTable ==
  ASSUME PageTyped, Clocked, Recorded, Table
  PROVE  SearchShows'
<1>1. PICK match \in SUBSET TxIDs :
        NewTable(Mock!Search(match),
                 [match |-> match,
                  since |-> IF Mock!Search(match) = << >> THEN 0
                            ELSE Second(Mock!Search(match)[1].ts)])
  BY DEF Table
<1> DEFINE found == Mock!Search(match)
           since == IF found = << >> THEN 0 ELSE Second(found[1].ts)
<1>2. /\ store = "mock" /\ query'.match = match /\ query'.since = since /\ ch' = << >>
      /\ UNCHANGED <<mockVars, eventsCh>>
      /\ rows' = [i \in DOMAIN found |-> Row(found[i])]
  BY <1>1 DEF Table, NewTable
<1>3. Pending' = Pending /\ clock' = clock BY <1>2 DEF Pending, InHand, mockVars
<1>4. events \in Seq(Events) /\ clock \in Nat
  BY PageAssumption DEF PageTyped, TypeOK
<1>5. /\ found \in Seq(Events)
      /\ \A j \in DOMAIN found : found[j].txID \in match /\ found[j] \in ToSet(events)
  BY <1>4, SearchMember
<1>6. \A e \in ToSet(events) : e.ts <= clock /\ e.ts \in Nat
  <2>1. \A e \in ToSet(events) : Row(e) \in Copies /\ Row(e).ts = e.ts
    BY DEF Copies, Heard, Row
  <2>2. \A e \in ToSet(events) : e \in Events BY <1>4 DEF ToSet
  <2> QED BY <1>2, <2>1, <2>2, EventParts DEF Clocked
<1> HIDE DEF found
<1>7. found # << >> => found[1] \in ToSet(events) /\ since <= found[1].ts /\ since \in Nat
  <2> SUFFICES ASSUME found # << >>
               PROVE  found[1] \in ToSet(events) /\ since <= found[1].ts /\ since \in Nat
    OBVIOUS
  <2>1. 1 \in DOMAIN found BY <1>5
  <2>2. found[1] \in ToSet(events) /\ found[1].ts \in Nat BY <1>5, <1>6, <2>1
  <2> QED BY <2>2, SecondTyped
<1>8. since <= clock
  <2>1. CASE found = << >> BY <1>4, <2>1
  <2>2. CASE found # << >>
    <3> HIDE DEF since
    <3> QED BY <1>4, <1>6, <1>7, <2>2
  <2> QED BY <2>1, <2>2
<1>9. \A row \in TableRows' : row.id \in match
  <2>1. \A i \in DOMAIN found : Row(found[i]).id \in match BY <1>5 DEF Row
  <2> QED BY <1>2, <2>1 DEF TableRows, ToSet
<1>10. ASSUME NEW e \in ToSet(Pending), e.ts <= since, RowsOf(e.txID)' # {}
       PROVE  TopRow(e.txID)'.ts >= e.ts
  <2>1. CASE e \in ToSet(events) BY <1>1, <1>2, <1>10, <2>1, TableTops
  <2>2. CASE e \notin ToSet(events)
    <3>1. e = made /\ pc = "record"
      <4>1. PICK j \in DOMAIN Pending : e = Pending[j] BY DEF ToSet
      <4>2. eventsCh \in Seq(Events) BY DEF PageTyped, TypeOK
      <4>3. e \in ToSet(eventsCh) \/ (InHand /\ e = made)
        <5>1. CASE InHand
          <6>1. made \in Events BY <5>1 DEF PageTyped, StoreTyped
          <6>2. Pending = Append(eventsCh, made) BY <4>2, <5>1, <6>1 DEF Pending
          <6>3. ToSet(Pending) = ToSet(eventsCh) \cup {made} BY <4>2, <6>1, <6>2, AppendElements
          <6> QED BY <5>1, <6>3
        <5>2. CASE ~InHand
          <6>1. Pending = eventsCh BY <4>2, <5>2 DEF Pending
          <6> QED BY <6>1
        <5> QED BY <5>1, <5>2
      <4> QED BY <1>2, <2>2, <4>3 DEF Recorded, InHand
    <3>2. found # << >>
      <4>1. RowsOf(e.txID)' # {} BY <1>10
      <4> QED BY <1>2, <4>1 DEF RowsOf
    <3>3. found[1].ts < e.ts BY <1>2, <1>7, <3>1, <3>2 DEF Clocked
    <3>4. e.ts \in Nat
      <4>1. made \in Events BY <3>1 DEF PageTyped, StoreTyped, InHand
      <4> QED BY <3>1, <4>1, EventParts
    <3> HIDE DEF since
    <3>5. found[1].ts \in Nat /\ since \in Nat /\ since <= found[1].ts
      BY <1>6, <1>7, <3>2
    <3> QED BY <1>10, <3>3, <3>4, <3>5
  <2> QED BY <2>1, <2>2
<1> HIDE DEF since
<1> QED BY <1>2, <1>3, <1>8, <1>9, <1>10 DEF SearchShows

\* A page that searches is one of the mock store.
LEMMA SearchMock == PageTyped /\ query # NoQuery => store = "mock" /\ query \in Queries
<1> SUFFICES ASSUME PageTyped, query # NoQuery PROVE store = "mock" /\ query \in Queries
  OBVIOUS
<1>1. store \in {"mock", "pg"} BY PageAssumption DEF PageTyped, TypeOK
<1>2. query \in Queries /\ store # "pg" BY DEF PageTyped, TableTyped
<1> QED BY <1>1, <1>2

\* Nothing is searched for at first.
LEMMA SearchShowsInit == Init => SearchShows
BY DEF Init, SearchShows

\* What the store makes is later than the search.
LEMMA SearchStore ==
  ASSUME PageTyped, SearchShows, query # NoQuery, StoreRuns
  PROVE  SearchShows'
<1>1. UNCHANGED <<rows, query, ch, TableRows>>
  BY HeardStore DEF StoreRuns, pageVars
<1>2. /\ query.since <= clock
      /\ \A row \in TableRows : row.id \in query.match
      /\ \A e \in ToSet(Pending) :
           e.ts <= query.since /\ RowsOf(e.txID) # {} => TopRow(e.txID).ts >= e.ts
  BY DEF SearchShows
<1>3. \A t : RowsOf(t)' = RowsOf(t) /\ TopRow(t)' = TopRow(t) BY <1>1 DEF RowsOf, TopRow
<1>4. clock \in Nat /\ query.since \in Nat
  BY SearchMock, PageAssumption DEF PageTyped, TypeOK, Queries
<1>5. ASSUME NEW i \in Slots, Mock!NextEvent(i) PROVE SearchShows'
  <2>1. NextEventMade(i) /\ Pending' = Append(Pending, made')
    BY <1>5, NextEventMakes, PendingStore DEF PageTyped
  <2>2. /\ made' \in Events /\ made'.ts = clock + 1 /\ clock' = clock + 1
    BY <2>1 DEF NextEventMade
  <2>3. ToSet(Pending') = ToSet(Pending) \cup {made'}
    BY <2>1, <2>2, HeardTyped, AppendElements
  <2>4. ~(made'.ts <= query'.since) BY <1>1, <1>2, <1>4, <2>2
  <2>5. query'.since <= clock' BY <1>1, <1>2, <1>4, <2>2
  <2> QED BY <1>1, <1>2, <1>3, <2>3, <2>4, <2>5 DEF SearchShows
<1>6. CASE Mock!Record \/ Mock!Send \/ Mock!SeeDone \/ Mock!Stop
  <2>1. clock' = clock
    BY <1>6 DEF Mock!Record, Mock!Send, Mock!SeeDone, Mock!Stop, Mock!jobVars
  <2>2. ToSet(Pending') \subseteq ToSet(Pending)
    <3>1. CASE Mock!SeeDone
      <4>1. Pending = Append(Pending', made) /\ Pending' = eventsCh /\ InHand
        BY <3>1, PendingStore DEF Mock!SeeDone, InHand
      <4>2. \A j \in DOMAIN Pending' : j \in DOMAIN Pending /\ Pending'[j] = Pending[j]
        BY <4>1, PendingDropped
      <4> QED BY <4>2 DEF ToSet
    <3>2. CASE Mock!Record \/ Mock!Send \/ Mock!Stop
      <4>1. Pending' = Pending BY <3>2, PendingStore
      <4> QED BY <4>1
    <3> QED BY <1>6, <3>1, <3>2
  <2> QED BY <1>1, <1>2, <1>3, <2>1, <2>2 DEF SearchShows
<1> QED BY <1>5, <1>6 DEF StoreRuns, Mock!Run

\* A search is sent what matches, and its rows stay as they are.
LEMMA SearchBroadcast ==
  ASSUME PageTyped, SearchShows, query # NoQuery, Broadcast
  PROVE  SearchShows'
<1> DEFINE e == Head(eventsCh)
<1>1. News(e) /\ UNCHANGED <<rows, query, mockVars>> BY DEF Broadcast
<1>2. /\ query.since <= clock
      /\ \A row \in TableRows : row.id \in query.match
      /\ \A d \in ToSet(Pending) :
           d.ts <= query.since /\ RowsOf(d.txID) # {} => TopRow(d.txID).ts >= d.ts
  BY DEF SearchShows
<1>3. \A t : RowsOf(t)' = RowsOf(t) /\ TopRow(t)' = TopRow(t) BY <1>1 DEF RowsOf, TopRow
<1>4. e \in Events /\ Pending \in Seq(Events) /\ Pending # << >> /\ Pending' = Tail(Pending)
  BY PendingBroadcast, HeardTyped
<1>5. ToSet(Pending') \subseteq ToSet(Pending) BY <1>4, FirstOf
<1>6. ch \in Seq(Message) BY DEF PageTyped, TypeOK
<1> HIDE DEF e
<1>7. \A row \in TableRows' : row.id \in query.match
  <2>1. CASE ch' = ch
    <3>1. TableRows' = TableRows BY <1>1, <2>1 DEF TableRows
    <3> QED BY <1>2, <3>1
  <2>2. CASE Wanted(e)
    <3>1. TableRows' \subseteq TableRows \cup {Row(e)} BY <1>1, <1>4, <1>6, NewsRows
    <3>2. Row(e).id \in query.match BY <2>2 DEF Wanted, Row
    <3> QED BY <1>2, <3>1, <3>2
  <2> QED BY <1>1, <2>1, <2>2 DEF News
<1> QED BY <1>1, <1>2, <1>3, <1>5, <1>7 DEF SearchShows, mockVars

\* A swap shows something later than the search.
LEMMA SearchSwap ==
  ASSUME PageTyped, Lined, SearchShows, query # NoQuery, Swap
  PROVE  SearchShows'
<1>1. UNCHANGED <<query, mockVars, eventsCh>> BY DEF Swap
<1>2. /\ query.since <= clock
      /\ \A row \in TableRows : row.id \in query.match
      /\ \A d \in ToSet(Pending) :
           d.ts <= query.since /\ RowsOf(d.txID) # {} => TopRow(d.txID).ts >= d.ts
  BY DEF SearchShows
<1>3. ch \in Seq(Message) /\ rows \in Seq(Rows) /\ ch # << >> BY DEF PageTyped, TypeOK, Swap
<1>4. TableRows' \subseteq TableRows BY <1>3, SwapRows
<1>5. Pending' = Pending BY <1>1 DEF Pending, InHand, mockVars
<1>6. Head(ch) = ch[1] /\ 1 \in DOMAIN ch BY <1>3, FirstOf
<1>7. query.since < Head(ch).row.ts BY <1>6, SearchMock DEF Lined, LinedSearch
<1>8. query.since \in Nat /\ Head(ch).row.ts \in Nat
  BY <1>3, <1>6, SearchMock, MessagesTyped, RowParts, PageAssumption DEF Queries
<1>9. ASSUME NEW d \in ToSet(Pending), d.ts <= query.since, RowsOf(d.txID)' # {}
      PROVE  TopRow(d.txID)'.ts >= d.ts
  <2>1. d.ts \in Nat
    <3>1. d \in Events BY HeardTyped DEF ToSet
    <3> QED BY <3>1, EventParts
  <2>2. CASE TopRow(d.txID)' = Head(ch).row BY <1>7, <1>8, <1>9, <2>1, <2>2
  <2>3. CASE RowsOf(d.txID) # {} /\ TopRow(d.txID)' = TopRow(d.txID) BY <1>2, <1>9, <2>3
  <2>4. CASE RowsOf(d.txID) = {} BY <1>9, <2>2, <2>4, SwapInserts
  <2> QED BY <2>2, <2>3, <2>4, SwapTops
<1> QED BY <1>1, <1>2, <1>4, <1>5, <1>9 DEF SearchShows, mockVars

\* The page of a search keeps what it was rendered with.
LEMMA SearchShowsStep ==
  PageTyped /\ Clocked /\ Lined /\ Recorded /\ SearchShows /\ [Next]_vars => SearchShows'
<1> SUFFICES ASSUME PageTyped, Clocked, Lined, Recorded, SearchShows, [Next]_vars,
                    query' # NoQuery
             PROVE  SearchShows'
  BY DEF SearchShows
<1>1. CASE Table BY <1>1, SearchTable
<1>2. CASE Home \/ (\E i \in DOMAIN rows : TxPage(i)) BY <1>2 DEF Home, NewTable, TxPage
<1>3. CASE StoreRuns
  <2>1. query' = query BY <1>3 DEF StoreRuns, pageVars
  <2> QED BY <1>3, <2>1, SearchStore
<1>4. CASE Broadcast
  <2>1. query' = query BY <1>4 DEF Broadcast
  <2> QED BY <1>4, <2>1, SearchBroadcast
<1>5. CASE Swap
  <2>1. query' = query BY <1>5 DEF Swap
  <2> QED BY <1>5, <2>1, SearchSwap
<1>6. CASE Notified
  <2>1. query' = query /\ store = "pg" BY <1>6 DEF Notified, pageVars
  <2> QED BY <2>1, SearchMock
<1>7. CASE Restart \/ Break \/ Stream \/ UNCHANGED vars
  <2>1. /\ UNCHANGED <<query, rows, clock>> /\ query # NoQuery
        /\ ch' = << >> \/ ch' = ch
    BY <1>7 DEF Restart, Break, Stream, vars, mockVars, pageVars, Mock!Restart
  <2>2. TableRows' \subseteq TableRows
    <3>1. CASE ch' = ch BY <2>1, <3>1 DEF TableRows
    <3>2. CASE ch' = << >> BY <2>1, <3>2 DEF TableRows
    <3> QED BY <2>1, <3>1, <3>2
  <2>3. ToSet(Pending') \subseteq ToSet(Pending)
    <3>1. CASE Restart
      <4>1. eventsCh' = << >> /\ pc' = "next" BY <3>1 DEF Restart, Mock!Restart
      <4>2. Pending' = << >> BY <4>1 DEF Pending, InHand
      <4> QED BY <4>2 DEF ToSet
    <3>2. CASE Break \/ Stream \/ UNCHANGED vars
      <4>1. UNCHANGED <<mockVars, eventsCh>> BY <3>2 DEF Break, Stream, vars
      <4>2. Pending' = Pending BY <4>1 DEF Pending, InHand, mockVars
      <4> QED BY <4>2
    <3> QED BY <1>7, <3>1, <3>2
  <2>4. \A t : RowsOf(t)' = RowsOf(t) /\ TopRow(t)' = TopRow(t) BY <2>1 DEF RowsOf, TopRow
  <2> QED BY <2>1, <2>2, <2>3, <2>4 DEF SearchShows
<1> QED BY <1>1, <1>2, <1>3, <1>4, <1>5, <1>6, <1>7 DEF Next

\* The messages on their way that are about t, and the last of them.
ComingOf(t)  == {j \in DOMAIN ch : ch[j].row.id = t}
LastOf(t, j) == j \in ComingOf(t) /\ \A i \in ComingOf(t) : i <= j

\* What the ring has of t.
KeptOf(t) == head[headMap[t].index].data

\* When all that is on its way has come, the top row of t shows what the ring
\* has; on the page of a search it shows that or something later, if there is one.
ShowsKept(t) ==
  /\ ComingOf(t) = {} => TopRow(t) = Row(KeptOf(t))
  /\ \A j \in ComingOf(t) : LastOf(t, j) => ch[j].row = Row(KeptOf(t))
  /\ RowsOf(t) = {} => \E i \in ComingOf(t) : ch[i].name = EventTXRow

ShowsNoEarlier(t) ==
  /\ ComingOf(t) = {} /\ RowsOf(t) # {} => TopRow(t).ts >= KeptOf(t).ts
  /\ \A j \in ComingOf(t) : LastOf(t, j) => ch[j].row.ts >= KeptOf(t).ts

Shows ==
  /\ query = NoQuery /\ conn = "open" => \A t \in DOMAIN headMap \ lost : ShowsKept(t)
  /\ query # NoQuery => \A t \in DOMAIN headMap \ lost : ShowsNoEarlier(t)

\* add changes what the ring has of no other transaction, or evicts it.
LEMMA RingOther ==
  ASSUME BufferInv, NEW e \in Events, Add(e), NEW u \in DOMAIN headMap', u # e.txID
  PROVE  u \in DOMAIN headMap /\ KeptOf(u)' = KeptOf(u)
<1>1. BufferTypeOK /\ MapMatchesRing BY DEF BufferInv
<1>2. ASSUME NEW k \in Index, head' = [head EXCEPT ![k] = SlotOf(e)], u \in DOMAIN headMap,
             headMap'[u] = headMap[u], head[k].txID # u
      PROVE  KeptOf(u)' = KeptOf(u)
  <2>1. headMap[u].index \in Index BY <1>1, <1>2 DEF BufferTypeOK, Header
  <2>2. headMap[u].index # k BY <1>1, <1>2 DEF MapMatchesRing
  <2>3. head'[headMap[u].index] = head[headMap[u].index]
    BY <1>1, <1>2, <2>1, <2>2 DEF BufferTypeOK
  <2> QED BY <1>2, <2>3 DEF KeptOf
<1>3. CASE AddNew(e)
  <2>1. u \in DOMAIN headMap /\ Kept(u) /\ headMap'[u] = headMap[u] BY <1>3 DEF AddNew
  <2>2. headIndex \in Index /\ head[headIndex].txID # u
    BY <1>1, <2>1 DEF BufferTypeOK, Kept
  <2> QED BY <1>2, <1>3, <2>1, <2>2 DEF AddNew
<1>4. CASE AddUpdate(e)
  <2>1. u \in DOMAIN headMap /\ headMap'[u] = headMap[u] /\ e.txID \in DOMAIN headMap
    BY <1>4 DEF AddUpdate
  <2>2. headMap[e.txID].index \in Index /\ head[headMap[e.txID].index].txID # u
    BY <1>1, <2>1 DEF BufferTypeOK, Header, MapMatchesRing
  <2> QED BY <1>2, <1>4, <2>1, <2>2 DEF AddUpdate
<1>5. CASE AddStale(e) BY <1>5 DEF AddStale, bufferVars, KeptOf
<1> QED BY <1>3, <1>4, <1>5 DEF Add

\* The ring has the event that add was called with, if it is not stale.
LEMMA RingTakes ==
  ASSUME BufferInv, NEW e \in Events, Add(e), ~(e.txID \in DOMAIN headMap /\ Stale(e))
  PROVE  KeptOf(e.txID)' = e
<1>1. BufferTypeOK BY DEF BufferInv
<1>2. CASE AddNew(e)
  <2>1. headIndex \in Index BY <1>1 DEF BufferTypeOK
  <2>2. headMap'[e.txID].index = headIndex BY <1>2 DEF AddNew, HeaderOf
  <2>3. head'[headIndex].data = e BY <1>1, <1>2, <2>1 DEF AddNew, BufferTypeOK, SlotOf
  <2> QED BY <2>2, <2>3 DEF KeptOf
<1>3. CASE AddUpdate(e)
  <2>1. headMap[e.txID].index \in Index BY <1>1, <1>3 DEF BufferTypeOK, Header, AddUpdate
  <2>2. headMap'[e.txID].index = headMap[e.txID].index
    BY <1>1, <1>3 DEF AddUpdate, UpdatedHeader, HeaderOf, BufferTypeOK
  <2>3. head'[headMap[e.txID].index].data = e
    BY <1>1, <1>3, <2>1 DEF AddUpdate, BufferTypeOK, SlotOf
  <2> QED BY <2>2, <2>3 DEF KeptOf
<1> QED BY <1>2, <1>3 DEF Add, AddStale

\* A transaction about which nothing changes is shown as it was.
LEMMA ShowsSame ==
  ASSUME NEW t, rows' = rows, ComingOf(t)' = ComingOf(t),
         \A j \in ComingOf(t) : ch'[j] = ch[j], KeptOf(t)' = KeptOf(t)
  PROVE  /\ ShowsKept(t) => ShowsKept(t)'
         /\ ShowsNoEarlier(t) => ShowsNoEarlier(t)'
<1>1. RowsOf(t)' = RowsOf(t) /\ TopRow(t)' = TopRow(t) BY DEF RowsOf, TopRow
<1>2. \A j : LastOf(t, j)' <=> LastOf(t, j) BY DEF LastOf
<1>3. Row(KeptOf(t))' = Row(KeptOf(t)) BY DEF Row
<1> QED BY <1>1, <1>2, <1>3 DEF ShowsKept, ShowsNoEarlier

\* A broadcast shows its event last, on its way or in its row already, or notes
\* that it is lost.
LEMMA ShowsNews ==
  ASSUME PageTyped, Clocked, StatesGrow, Lined, SearchShows, Shows, Broadcast,
         NEW t, t = Head(eventsCh).txID, t \notin lost'
  PROVE  /\ query = NoQuery /\ conn = "open" => ShowsKept(t)'
         /\ query # NoQuery => ShowsNoEarlier(t)'
<1> DEFINE e == Head(eventsCh)
           m == WriteEvent(e)
           n == Len(ch)
           stale == e.txID \in DOMAIN headMap /\ Stale(e)
<1>1. News(e) /\ Add(e) /\ UNCHANGED <<rows, query, conn>> BY DEF Broadcast
<1>2. /\ e \in Events /\ e \in ToSet(Pending) BY PendingBroadcast
<1>3. ch \in Seq(Message) /\ BufferInv BY DEF PageTyped, TypeOK
<1>4. m.row = Row(e) /\ Row(e).id = t /\ Row(e).ts = e.ts /\ e.ts \in Nat
      /\ m.name \in {EventTXRow, t}
  BY <1>2, RowTyped, EventParts DEF Row
<1>5. RowsOf(t)' = RowsOf(t) /\ TopRow(t)' = TopRow(t) BY <1>1 DEF RowsOf, TopRow
<1>6. ~stale => KeptOf(t)' = e BY <1>1, <1>2, <1>3, RingTakes
<1> HIDE DEF e, m
<1>7. \/ ch' = Append(ch, m) /\ Shown(m) /\ ~stale
      \/ ch' = ch /\ ~Wanted(e)
  BY <1>1 DEF News, e, m
<1>8. CASE ch' = Append(ch, m) /\ Shown(m) /\ ~stale
  <2>1. /\ n \in Nat /\ DOMAIN ch = 1 .. n /\ DOMAIN ch' = 1 .. n + 1
        /\ ch'[n + 1] = m /\ \A i \in 1 .. n : ch'[i] = ch[i]
    BY <1>3, <1>8
  <2> HIDE DEF n
  <2>2. ComingOf(t)' = ComingOf(t) \cup {n + 1} BY <1>4, <2>1 DEF ComingOf
  <2>3. \A j \in ComingOf(t)' : LastOf(t, j)' => j = n + 1
    <3> SUFFICES ASSUME NEW j \in ComingOf(t)', LastOf(t, j)' PROVE j = n + 1
      OBVIOUS
    <3>1. n + 1 <= j BY <2>2 DEF LastOf
    <3>2. j \in 1 .. n + 1 BY <2>1 DEF ComingOf
    <3> QED BY <2>1, <3>1, <3>2
  <2>4. KeptOf(t)' = e BY <1>6, <1>8
  <2>5. Row(KeptOf(t))' = Row(e) BY <2>4 DEF Row
  <2>6. ASSUME RowsOf(t) = {} PROVE \E i \in ComingOf(t)' : ch'[i].name = EventTXRow
    <3>1. CASE m.name = EventTXRow BY <2>1, <2>2, <3>1
    <3>2. CASE \E i \in DOMAIN ch : ch[i].name = EventTXRow /\ ch[i].row.swap = m.name
      <4>1. PICK i \in DOMAIN ch : ch[i].name = EventTXRow /\ ch[i].row.swap = m.name BY <3>2
      <4>2. ch[i].row.swap = ch[i].row.id BY <1>3, MessagesTyped, RowParts
      <4>3. m.name = EventTXRow \/ (i \in ComingOf(t) /\ ch'[i] = ch[i])
        BY <1>4, <2>1, <4>1, <4>2 DEF ComingOf
      <4> QED BY <2>2, <3>1, <4>1, <4>3
    <3>3. CASE RowsOf(m.name) # {} BY <1>4, <2>6, <3>1, <3>3
    <3> QED BY <1>8, <3>1, <3>2, <3>3 DEF Shown
  <2>7. ComingOf(t)' # {} /\ ch'[n + 1].row = Row(e) BY <1>4, <2>1, <2>2
  <2>8. ShowsKept(t)' BY <1>5, <2>3, <2>5, <2>6, <2>7 DEF ShowsKept
  <2>9. ShowsNoEarlier(t)' BY <1>4, <2>3, <2>4, <2>7 DEF ShowsNoEarlier
  <2> QED BY <2>8, <2>9
<1>9. CASE ch' = ch /\ ~Wanted(e)
  <2>1. query # NoQuery /\ (e.ts <= query.since \/ t \notin query.match)
    <3>1. query # NoQuery /\ ~(e.ts > query.since /\ e.txID \in query.match)
      BY <1>9 DEF Wanted
    <3>2. query.since \in Nat
      BY <3>1, SearchMock, PageAssumption DEF Queries
    <3>3. ~(e.ts > query.since) => e.ts <= query.since BY <1>4, <3>2
    <3>4. t = e.txID BY DEF e
    <3> QED BY <3>1, <3>3, <3>4
  <2>2. store = "mock" BY <2>1, SearchMock
  <2>3. ~stale BY <2>2, NoneStale DEF e
  <2>4. KeptOf(t)' = e BY <1>6, <2>3
  <2>5. ComingOf(t)' = ComingOf(t) /\ \A j \in ComingOf(t) : j \in DOMAIN ch /\ ch'[j] = ch[j]
    BY <1>9 DEF ComingOf
  <2>6. CASE t \notin query.match
    <3>1. \A row \in TableRows : row.id # t BY <2>1, <2>6 DEF SearchShows
    <3>2. RowsOf(t) = {} /\ ComingOf(t) = {}
      BY <3>1 DEF TableRows, ToSet, RowsOf, ComingOf
    <3> QED BY <1>5, <2>1, <2>5, <3>2 DEF ShowsNoEarlier
  <2>7. CASE e.ts <= query.since
    <3>1. RowsOf(t) # {} => TopRow(t).ts >= e.ts
      <4>1. t = e.txID BY DEF e
      <4> QED BY <1>2, <2>1, <2>7, <4>1 DEF SearchShows
    <3>2. \A j \in ComingOf(t) : ch[j].row.ts >= e.ts
      <4> SUFFICES ASSUME NEW j \in ComingOf(t) PROVE ch[j].row.ts >= e.ts
        OBVIOUS
      <4>1. query.since < ch[j].row.ts BY <2>1, <2>2, <2>5 DEF Lined, LinedSearch
      <4>2. ch[j].row \in Rows BY <1>3, <2>5, MessagesTyped
      <4>3. ch[j].row.ts \in Nat /\ query.since \in Nat
        BY <2>1, <4>2, RowParts, SearchMock, PageAssumption DEF Queries
      <4> QED BY <1>4, <2>7, <4>1, <4>3
    <3> QED BY <1>5, <2>1, <2>4, <2>5, <3>1, <3>2 DEF ShowsNoEarlier
  <2> QED BY <2>1, <2>6, <2>7
<1> QED BY <1>7, <1>8, <1>9

\* The other transactions are shown as they were.
LEMMA ShowsBroadcast ==
  ASSUME PageTyped, Clocked, StatesGrow, Lined, SearchShows, Shows, Broadcast
  PROVE  Shows'
<1> DEFINE e == Head(eventsCh)
<1>1. News(e) /\ Add(e) /\ UNCHANGED <<rows, query, conn>> BY DEF Broadcast
<1>2. /\ e \in Events /\ e \in ToSet(Pending) BY PendingBroadcast
<1>3. ch \in Seq(Message) /\ BufferInv BY DEF PageTyped, TypeOK
<1>4. ASSUME NEW t \in DOMAIN headMap' \ lost', t # e.txID
      PROVE  /\ t \in DOMAIN headMap \ lost
             /\ ShowsKept(t) => ShowsKept(t)'
             /\ ShowsNoEarlier(t) => ShowsNoEarlier(t)'
  <2>1. t \in DOMAIN headMap /\ KeptOf(t)' = KeptOf(t) BY <1>1, <1>2, <1>3, <1>4, RingOther
  <2>2. t \notin lost BY <1>1, <1>4 DEF News
  <2>3. WriteEvent(e).row.id # t BY <1>2, <1>4, RowTyped
  <2> HIDE DEF e
  <2>4. ComingOf(t)' = ComingOf(t) /\ \A j \in ComingOf(t) : ch'[j] = ch[j]
    <3>1. CASE ch' = ch BY <3>1 DEF ComingOf
    <3>2. CASE ch' = Append(ch, WriteEvent(e))
      <4>1. /\ DOMAIN ch = 1 .. Len(ch) /\ DOMAIN ch' = 1 .. Len(ch) + 1 /\ Len(ch) \in Nat
            /\ ch'[Len(ch) + 1] = WriteEvent(e) /\ \A j \in DOMAIN ch : ch'[j] = ch[j]
        BY <1>3, <3>2
      <4>2. DOMAIN ch' = DOMAIN ch \cup {Len(ch) + 1} BY <4>1
      <4> QED BY <2>3, <4>1, <4>2 DEF ComingOf
    <3> QED BY <1>1, <3>1, <3>2 DEF News
  <2> QED BY <1>1, <2>1, <2>2, <2>4, ShowsSame
<1>5. ASSUME NEW t \in DOMAIN headMap' \ lost', t = e.txID
      PROVE  /\ query = NoQuery /\ conn = "open" => ShowsKept(t)'
             /\ query # NoQuery => ShowsNoEarlier(t)'
  BY <1>5, ShowsNews
<1> QED BY <1>1, <1>4, <1>5 DEF Shows

\* A swap shows the next of the messages on their way.
LEMMA ShowsSwap ==
  ASSUME PageTyped, Shows, Swap
  PROVE  Shows'
<1> DEFINE m == Head(ch)
<1>1. UNCHANGED <<bufferVars, query, conn, lost>> /\ ch # << >> /\ ch' = Tail(ch) BY DEF Swap
<1>2. ch \in Seq(Message) BY DEF PageTyped, TypeOK
<1>3. /\ m = ch[1] /\ 1 \in DOMAIN ch
      /\ \A j \in DOMAIN ch' : j + 1 \in DOMAIN ch /\ ch'[j] = ch[j + 1] /\ j \in Nat \ {0}
      /\ \A j \in DOMAIN ch \ {1} : j - 1 \in DOMAIN ch' /\ ch'[j - 1] = ch[j]
      /\ \A j \in DOMAIN ch : j \in Nat \ {0}
  BY <1>1, <1>2
<1> SUFFICES ASSUME NEW t \in DOMAIN headMap \ lost
             PROVE  /\ ShowsKept(t) => ShowsKept(t)'
                    /\ ShowsNoEarlier(t) => ShowsNoEarlier(t)'
  BY <1>1 DEF Shows, bufferVars
<1>4. KeptOf(t)' = KeptOf(t) BY <1>1 DEF KeptOf, bufferVars
<1>5. Row(KeptOf(t))' = Row(KeptOf(t)) BY <1>4 DEF Row
<1> HIDE DEF m
<1>6. \A j : j \in ComingOf(t)' <=> j \in Nat \ {0} /\ j + 1 \in ComingOf(t)
  <2>1. ASSUME NEW j \in ComingOf(t)' PROVE j \in Nat \ {0} /\ j + 1 \in ComingOf(t)
    BY <1>3 DEF ComingOf
  <2>2. ASSUME NEW j \in Nat \ {0}, j + 1 \in ComingOf(t) PROVE j \in ComingOf(t)'
    <3>1. j + 1 \in DOMAIN ch \ {1} /\ (j + 1) - 1 = j BY <2>2 DEF ComingOf
    <3>2. j \in DOMAIN ch' /\ ch'[j] = ch[j + 1] BY <1>3, <3>1
    <3> QED BY <2>2, <3>2 DEF ComingOf
  <2> QED BY <2>1, <2>2
<1>7. \A j \in ComingOf(t)' : ch'[j] = ch[j + 1] BY <1>3 DEF ComingOf
<1>8. \A j \in ComingOf(t)' : LastOf(t, j)' => LastOf(t, j + 1)
  <2> SUFFICES ASSUME NEW j \in ComingOf(t)', LastOf(t, j)', NEW i \in ComingOf(t)
               PROVE  i <= j + 1
    BY <1>6 DEF LastOf
  <2>1. i \in Nat \ {0} /\ j \in Nat \ {0} BY <1>3, <1>6 DEF ComingOf
  <2>2. CASE i = 1 BY <2>1, <2>2
  <2>3. CASE i # 1
    <3>1. i - 1 \in Nat \ {0} /\ (i - 1) + 1 = i BY <2>1, <2>3
    <3>2. i - 1 \in ComingOf(t)' BY <1>6, <3>1
    <3>3. i - 1 <= j BY <3>2 DEF LastOf
    <3> QED BY <2>1, <3>3
  <2> QED BY <2>2, <2>3
<1>9. 1 \in ComingOf(t) <=> m.row.id = t BY <1>3 DEF ComingOf
<1>10. ASSUME ComingOf(t)' = {}
       PROVE  ComingOf(t) = IF m.row.id = t THEN {1} ELSE {}
  <2>1. \A i \in ComingOf(t) : i = 1
    <3> SUFFICES ASSUME NEW i \in ComingOf(t), i # 1 PROVE FALSE
      OBVIOUS
    <3>1. i \in Nat \ {0} BY <1>3 DEF ComingOf
    <3>2. i - 1 \in Nat \ {0} /\ (i - 1) + 1 = i BY <3>1
    <3> QED BY <1>6, <1>10, <3>2
  <2> QED BY <1>9, <2>1
<1>11. ComingOf(t)' = {} /\ m.row.id = t => LastOf(t, 1) BY <1>10 DEF LastOf
<1>12. RowsOf(t) # {} => /\ RowsOf(t)' # {}
                         /\ TopRow(t)' = IF m.row.id = t THEN m.row ELSE TopRow(t)
  BY SwapTops DEF m
<1>13. RowsOf(t) = {} => /\ RowsOf(t)' # {} <=> m.name = EventTXRow /\ m.row.id = t
                         /\ RowsOf(t)' # {} => TopRow(t)' = m.row
  BY SwapInserts DEF m
<1>14. ASSUME ShowsKept(t) PROVE ShowsKept(t)'
  <2>1. /\ ComingOf(t) = {} => TopRow(t) = Row(KeptOf(t))
        /\ \A j \in ComingOf(t) : LastOf(t, j) => ch[j].row = Row(KeptOf(t))
        /\ RowsOf(t) = {} => \E i \in ComingOf(t) : ch[i].name = EventTXRow
    BY <1>14 DEF ShowsKept
  <2>2. ASSUME RowsOf(t)' = {} PROVE \E i \in ComingOf(t)' : ch'[i].name = EventTXRow
    <3>1. PICK i \in ComingOf(t) : ch[i].name = EventTXRow BY <1>12, <2>1, <2>2
    <3>2. i # 1 BY <1>3, <1>9, <1>12, <1>13, <2>2, <3>1
    <3>3. i \in Nat \ {0} BY <1>3 DEF ComingOf
    <3>4. i - 1 \in Nat \ {0} /\ (i - 1) + 1 = i BY <3>2, <3>3
    <3>5. i - 1 \in ComingOf(t)' BY <1>6, <3>4
    <3> QED BY <1>7, <3>1, <3>4, <3>5
  <2>3. ASSUME ComingOf(t)' = {} PROVE TopRow(t)' = Row(KeptOf(t))
    <3>1. RowsOf(t)' # {} BY <2>2, <2>3
    <3>2. CASE m.row.id = t
      <4>1. TopRow(t)' = m.row BY <1>12, <1>13, <3>1, <3>2
      <4>2. m.row = Row(KeptOf(t)) BY <1>3, <1>9, <1>11, <2>1, <2>3, <3>2
      <4> QED BY <4>1, <4>2
    <3>3. CASE m.row.id # t
      <4>1. ComingOf(t) = {} BY <1>10, <2>3, <3>3
      <4>2. RowsOf(t) # {} BY <2>1, <4>1
      <4> QED BY <1>12, <2>1, <3>3, <4>1, <4>2
    <3> QED BY <3>2, <3>3
  <2>4. \A j \in ComingOf(t)' : LastOf(t, j)' => ch'[j].row = Row(KeptOf(t))
    BY <1>6, <1>7, <1>8, <2>1
  <2> QED BY <1>5, <2>2, <2>3, <2>4 DEF ShowsKept
<1>15. ASSUME ShowsNoEarlier(t) PROVE ShowsNoEarlier(t)'
  <2>1. /\ ComingOf(t) = {} /\ RowsOf(t) # {} => TopRow(t).ts >= KeptOf(t).ts
        /\ \A j \in ComingOf(t) : LastOf(t, j) => ch[j].row.ts >= KeptOf(t).ts
    BY <1>15 DEF ShowsNoEarlier
  <2>2. ASSUME ComingOf(t)' = {}, RowsOf(t)' # {} PROVE TopRow(t)'.ts >= KeptOf(t).ts
    <3>1. CASE m.row.id = t
      <4>1. TopRow(t)' = m.row BY <1>12, <1>13, <2>2, <3>1
      <4>2. m.row.ts >= KeptOf(t).ts BY <1>3, <1>9, <1>11, <2>1, <2>2, <3>1
      <4> QED BY <4>1, <4>2
    <3>2. CASE m.row.id # t
      <4>1. ComingOf(t) = {} BY <1>10, <2>2, <3>2
      <4>2. RowsOf(t) # {} BY <1>13, <2>2, <3>2
      <4>3. TopRow(t)' = TopRow(t) BY <1>12, <3>2, <4>2
      <4> QED BY <2>1, <4>1, <4>2, <4>3
    <3> QED BY <3>1, <3>2
  <2>3. \A j \in ComingOf(t)' : LastOf(t, j)' => ch'[j].row.ts >= KeptOf(t).ts
    BY <1>6, <1>7, <1>8, <2>1
  <2> QED BY <1>4, <2>2, <2>3 DEF ShowsNoEarlier
<1> QED BY <1>14, <1>15

\* A page that connects is sent all that the ring has, once.
LEMMA ShowsStream ==
  ASSUME PageTyped, Shows, Stream
  PROVE  Shows'
<1>1. /\ UNCHANGED <<bufferVars, rows, query>> /\ conn # "open"
      /\ ch' = IF query = NoQuery THEN Prefilled ELSE << >>
      /\ lost' = IF query = NoQuery THEN {} ELSE lost
  BY DEF Stream
<1>2. BufferInv /\ BufferTypeOK BY DEF PageTyped, TypeOK
<1>3. \A t : KeptOf(t)' = KeptOf(t) /\ Row(KeptOf(t))' = Row(KeptOf(t))
  BY <1>1 DEF KeptOf, Row, bufferVars
<1>4. CASE query = NoQuery
  <2> SUFFICES ASSUME NEW t \in DOMAIN headMap PROVE ShowsKept(t)'
    BY <1>1, <1>4 DEF Shows, bufferVars
  <2>1. /\ ch' = Prefilled /\ DOMAIN ch' = DOMAIN Replay
        /\ \A i \in DOMAIN Replay : /\ ch'[i].name = EventTXRow /\ ch'[i].row = Row(Replay[i])
                                    /\ ch'[i].row.id = Replay[i].txID
    BY <1>1, <1>2, <1>4, PrefilledTyped, RowTyped
  <2>2. PICK k \in DOMAIN Replay : Replay[k].txID = t BY <1>2, ReplayOnce
  <2>3. k \in ComingOf(t)' /\ ch'[k].name = EventTXRow BY <2>1, <2>2 DEF ComingOf
  <2>4. \A j \in ComingOf(t)' : ch'[j].row = Row(KeptOf(t))
    <3> SUFFICES ASSUME NEW j \in ComingOf(t)' PROVE ch'[j].row = Row(KeptOf(t))
      OBVIOUS
    <3>1. j \in DOMAIN Replay /\ Replay[j].txID = t BY <2>1 DEF ComingOf
    <3>2. Replay[j] = KeptOf(t) BY <1>2, <3>1, ReplayOnce DEF KeptOf
    <3> QED BY <2>1, <3>1, <3>2
  <2> QED BY <1>3, <2>3, <2>4 DEF ShowsKept
<1>5. CASE query # NoQuery
  <2>1. ch = << >> /\ ch' = << >> /\ lost' = lost
    BY <1>1, <1>5 DEF PageTyped, TableTyped
  <2>2. \A t : ComingOf(t)' = {} /\ ComingOf(t) = {} BY <2>1 DEF ComingOf
  <2>3. \A t : ShowsNoEarlier(t) => ShowsNoEarlier(t)' BY <1>1, <1>3, <2>2, ShowsSame
  <2> QED BY <1>1, <1>5, <2>1, <2>3 DEF Shows, bufferVars
<1> QED BY <1>4, <1>5

\* A search finds the last of what the ring has.
LEMMA ShowsTable ==
  ASSUME PageTyped, Clocked, Recorded, Table
  PROVE  Shows'
<1>1. PICK match \in SUBSET TxIDs :
        NewTable(Mock!Search(match),
                 [match |-> match,
                  since |-> IF Mock!Search(match) = << >> THEN 0
                            ELSE Second(Mock!Search(match)[1].ts)])
  BY DEF Table
<1>2. store = "mock" /\ ch' = << >> /\ UNCHANGED bufferVars BY <1>1 DEF Table, NewTable
<1>3. query' \in Queries BY <1>1, TypedSearch DEF NewTable
<1>4. query' # NoQuery BY <1>3, PageAssumption DEF Queries
<1> SUFFICES ASSUME NEW t \in DOMAIN headMap PROVE ShowsNoEarlier(t)'
  BY <1>2, <1>4 DEF Shows, bufferVars
<1>5. KeptOf(t) \in RingEvents /\ KeptOf(t).txID = t BY RingOne DEF PageTyped, KeptOf
<1>6. KeptOf(t) \in ToSet(events) BY <1>2, <1>5 DEF Recorded
<1>7. KeptOf(t)' = KeptOf(t) BY <1>2 DEF KeptOf, bufferVars
<1>8. ComingOf(t)' = {} BY <1>2 DEF ComingOf
<1>9. RowsOf(t)' # {} => TopRow(t)'.ts >= KeptOf(t).ts
  BY <1>1, <1>2, <1>5, <1>6, TableTops
<1> QED BY <1>7, <1>8, <1>9 DEF ShowsNoEarlier

\* The page shows the ring, or will when all has come.
LEMMA ShowsStep ==
  /\ PageTyped /\ Clocked /\ StatesGrow /\ Lined /\ Recorded /\ SearchShows /\ Shows
  /\ [Next]_vars
  => Shows'
<1> SUFFICES ASSUME PageTyped, Clocked, StatesGrow, Lined, Recorded, SearchShows, Shows,
                    [Next]_vars
             PROVE  Shows'
  OBVIOUS
<1>1. CASE Broadcast BY <1>1, ShowsBroadcast
<1>2. CASE Swap BY <1>2, ShowsSwap
<1>3. CASE Stream BY <1>3, ShowsStream
<1>4. CASE Table BY <1>4, ShowsTable
<1>5. CASE Home \/ (\E i \in DOMAIN rows : TxPage(i))
  <2>1. query' = NoQuery /\ conn' = "none" BY <1>5 DEF Home, NewTable, TxPage
  <2> QED BY <2>1 DEF Shows
<1>6. CASE Restart
  <2>1. DOMAIN headMap' = {} BY <1>6 DEF Restart
  <2> QED BY <2>1 DEF Shows
<1>7. CASE Break
  <2>1. /\ UNCHANGED <<bufferVars, rows, query>> /\ conn' # "open" /\ ch' = << >>
        /\ lost' = lost \cup UnderWay
    BY <1>7 DEF Break
  <2>2. ASSUME NEW t \in DOMAIN headMap' \ lost'
        PROVE  t \in DOMAIN headMap \ lost /\ (ShowsNoEarlier(t) => ShowsNoEarlier(t)')
    <3>1. KeptOf(t)' = KeptOf(t) BY <2>1 DEF KeptOf, bufferVars
    <3>2. ComingOf(t) = {} BY <2>1, <2>2 DEF ComingOf, UnderWay
    <3>3. ComingOf(t)' = {} BY <2>1 DEF ComingOf
    <3> QED BY <2>1, <2>2, <3>1, <3>2, <3>3, ShowsSame DEF bufferVars
  <2> QED BY <2>1, <2>2 DEF Shows
<1>8. CASE StoreRuns \/ Notified \/ UNCHANGED vars
  <2>1. UNCHANGED <<bufferVars, pageVars>> BY <1>8 DEF StoreRuns, Notified, vars
  <2>2. \A t : /\ KeptOf(t)' = KeptOf(t) /\ ComingOf(t)' = ComingOf(t)
               /\ \A j \in ComingOf(t) : ch'[j] = ch[j]
    BY <2>1 DEF KeptOf, ComingOf, bufferVars, pageVars
  <2>3. rows' = rows BY <2>1 DEF pageVars
  <2>4. \A t : /\ ShowsKept(t) => ShowsKept(t)'
               /\ ShowsNoEarlier(t) => ShowsNoEarlier(t)'
    BY <2>2, <2>3, ShowsSame
  <2> QED BY <2>1, <2>4 DEF Shows, bufferVars, pageVars
<1> QED BY <1>1, <1>2, <1>3, <1>4, <1>5, <1>6, <1>7, <1>8 DEF Next

\* There is nothing to show at first.
LEMMA ShowsInit == Init => Shows
BY DEF Init, NewEventBuffer, Shows

\* A page that has been sent all there is shows every job of the ring as the
\* ring has it, after any number of broken connections and restarts, except for
\* the jobs in lost; the page of a search shows that or something later.
THEOREM PageAlwaysShowsRing == Spec => []PageShowsRing
<1>1. PageTyped /\ Shows => PageShowsRing
  <2> SUFFICES ASSUME Shows, conn = "open", ch = << >>, NEW t \in DOMAIN headMap \ lost
               PROVE  /\ query = NoQuery => RowsOf(t) # {} /\ TopRow(t) = Row(KeptOf(t))
                      /\ query # NoQuery /\ RowsOf(t) # {} => TopRow(t).ts >= KeptOf(t).ts
    BY DEF PageShowsRing, KeptOf
  <2>1. ComingOf(t) = {} BY DEF ComingOf
  <2> QED BY <2>1 DEF Shows, ShowsKept, ShowsNoEarlier
<1> QED BY AlwaysTyped, ToldInit, ToldStep, ClockedInit, ClockedStep, GrowInit, GrowStep,
           LinedInit, LinedStep, RecordedInit, RecordedStep, SearchShowsInit,
           SearchShowsStep, ShowsInit, ShowsStep, <1>1, PTL DEF Spec

=============================================================================
