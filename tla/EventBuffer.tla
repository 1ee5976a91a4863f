----------------------------- MODULE EventBuffer -----------------------------
(***************************************************************************)
(* api/event_buffer.go: the ring of the most recent transactions that the  *)
(* broadcaster replays to a new client.  head is the ring, headIndex the   *)
(* slot the next new transaction takes, headMap the index from TxID to     *)
(* slot.  The rendered row (data) is abstracted to the event it renders;   *)
(* add renames the SSE event of whatever it stores to "tx-row", so the     *)
(* stored data never needs a name of its own.                              *)
(***************************************************************************)
EXTENDS Model, Sequences

CONSTANTS
  TxIDs,        \* transaction hashes
  EmptyTxID,    \* the zero value of a TxID, which an unused slot carries
  NoData,       \* the nil data of an unused slot
  States,       \* the states that events carry in this instance
  Timestamps,   \* the timestamps that events carry in this instance
  BufferSize    \* number of slots (100 in the program)

ASSUME BufferAssumption ==
  /\ BufferSize \in Nat \ {0}
  /\ EmptyTxID \notin TxIDs
  /\ States \subseteq State
  /\ Timestamps \subseteq Nat

Events == [txID : TxIDs, state : States, ts : Timestamps]

ASSUME NoDataAssumption == NoData \notin Events

VARIABLES head, headMap, headIndex

bufferVars == <<head, headMap, headIndex>>

Index     == 0 .. BufferSize - 1
EmptySlot == [txID |-> EmptyTxID, data |-> NoData]
Header    == [state : States, index : Index]
Slot      == [txID : TxIDs, data : Events] \cup {EmptySlot}

BufferTypeOK ==
  /\ head \in [Index -> Slot]
  /\ DOMAIN headMap \subseteq TxIDs
  /\ headMap \in [DOMAIN headMap -> Header]
  /\ headIndex \in Index

------------------------------------------------------------------------------

NewEventBuffer ==
  /\ head = [i \in Index |-> EmptySlot]
  /\ headMap = [t \in {} |-> [state |-> StateUnknown, index |-> 0]]
  /\ headIndex = 0

\* Faulty variants of the definition that follows: the index runs off the
\* ring; the index skips a slot.
NextIndexNoWrap == headIndex + 1
NextIndexSkips  == (headIndex + 2) % BufferSize

NextIndex == (headIndex + 1) % BufferSize

\* Faulty variant: the evicted transaction keeps its map entry.
EvictForgotten(t) == t \in DOMAIN headMap

\* The transactions that keep their entry when headIndex is reused
\* (delete(b.headMap, b.head[b.headIndex].txID)).
Kept(t) == t \in DOMAIN headMap \ {head[headIndex].txID}

SlotOf(e)       == [txID |-> e.txID, data |-> e]
HeaderOf(e, i)  == [state |-> e.state, index |-> i]

\* add, first branch: a transaction that is not in the ring takes the slot at
\* headIndex and evicts what was there.
AddNew(e) ==
  /\ e.txID \notin DOMAIN headMap
  /\ head' = [head EXCEPT ![headIndex] = SlotOf(e)]
  /\ headMap' = [t \in {u \in DOMAIN headMap : Kept(u)} \cup {e.txID} |->
                   IF t = e.txID THEN HeaderOf(e, headIndex) ELSE headMap[t]]
  /\ headIndex' = NextIndex

\* Faulty variant: the comparison is dropped.
StaleNever(e) == FALSE

\* add, the early return: the event would move the job backwards.
Stale(e) == e.state < headMap[e.txID].state

AddStale(e) ==
  /\ e.txID \in DOMAIN headMap
  /\ Stale(e)
  /\ UNCHANGED bufferVars

\* Faulty variant: the map keeps the state of the first event.
UpdatedHeaderOld(e) == headMap[e.txID]

UpdatedHeader(e) == HeaderOf(e, headMap[e.txID].index)

\* add, last branch: the event replaces the older one in the slot it has.
AddUpdate(e) ==
  /\ e.txID \in DOMAIN headMap
  /\ ~Stale(e)
  /\ head' = [head EXCEPT ![headMap[e.txID].index] = SlotOf(e)]
  /\ headMap' = [headMap EXCEPT ![e.txID] = UpdatedHeader(e)]
  /\ UNCHANGED headIndex

Add(e) == AddNew(e) \/ AddStale(e) \/ AddUpdate(e)

\* Faulty variant: the replay starts one slot late and repeats the last one.
ReplaySlotShort(i) ==
  head[IF i = BufferSize THEN headIndex ELSE (headIndex + i + 1) % BufferSize]

\* writeAllToCh visits the slots headIndex+1, headIndex+2, ..., headIndex (as
\* i runs from 1 to len(b.head)) and sends the data of those in use.
ReplaySlot(i) == head[(headIndex + i) % BufferSize]

\* What has been sent when i slots are visited.
ReplayUpTo[i \in 0 .. BufferSize] ==
  IF i = 0 THEN << >>
  ELSE IF ReplaySlot(i).data = NoData THEN ReplayUpTo[i - 1]
  ELSE Append(ReplayUpTo[i - 1], ReplaySlot(i).data)

Replay == ReplayUpTo[BufferSize]

------------------------------------------------------------------------------

BufferNext == \E e \in Events : Add(e)

BufferSpec == NewEventBuffer /\ [][BufferNext]_bufferVars

------------------------------------------------------------------------------

Used(i) == head[i] # EmptySlot

\* The map and the ring name each other: an entry of the map leads to the slot
\* that holds that transaction in that state, and every slot in use is reached
\* by the entry of its transaction.  So the map never holds an evicted
\* transaction and never grows past the ring.
MapMatchesRing ==
  /\ \A t \in DOMAIN headMap :
       /\ head[headMap[t].index].txID = t
       /\ head[headMap[t].index].data.txID = t
       /\ head[headMap[t].index].data.state = headMap[t].state
  /\ \A i \in Index :
       Used(i) => /\ head[i].txID \in DOMAIN headMap
                  /\ headMap[head[i].txID].index = i

\* The ring fills from slot 0 and never has a hole behind headIndex: either all
\* slots are in use, or exactly those before headIndex.
RingFillsInOrder ==
  \/ \A i \in Index : Used(i)
  \/ \A i \in Index : Used(i) <=> i < headIndex

\* The contents of the ring, oldest transaction first.
Count    == IF Used(headIndex) THEN BufferSize ELSE headIndex
Contents == [i \in 1 .. Count |->
               head[IF Used(headIndex) THEN (headIndex + i - 1) % BufferSize
                                       ELSE i - 1].data]

\* A client that joins is sent every transaction of the ring, each once.
ReplayComplete ==
  /\ Len(Replay) = Count
  /\ {Replay[i] : i \in DOMAIN Replay} = {Contents[i] : i \in DOMAIN Contents}

\* As long as a transaction stays in the ring its job never moves backwards,
\* whatever order the events arrive in.
NeverRegresses ==
  [][\A t \in DOMAIN headMap \cap DOMAIN headMap' :
       headMap[t].state <= headMap'[t].state]_bufferVars

\* A client that joins is sent the transactions in order of arrival, which is
\* how the rows must be inserted for the newest to be on top.
ReplayInOrder == Replay = Contents

\* The ring implements the abstract window of recent transactions.
Abstract == INSTANCE RecentTxs WITH Capacity <- BufferSize, recent <- Contents

ImplementsRecentTxs == Abstract!Spec

==============================================================================
