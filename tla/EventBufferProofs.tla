-------------------------- MODULE EventBufferProofs --------------------------
(***************************************************************************)
(* Proofs about the ring of EventBuffer, for every number of slots and     *)
(* every set of transactions.  The inductive invariant is BufferInv: the   *)
(* types, the agreement of map and ring, and the order in which the ring   *)
(* fills.                                                                  *)
(***************************************************************************)
EXTENDS EventBuffer, SequenceTheorems, Numbers

BufferInv == BufferTypeOK /\ MapMatchesRing /\ RingFillsInOrder

------------------------------------------------------------------------------
(* Arithmetic of the ring, and its slots. *)

\* Below the size of the ring a position is its own slot, and for one more
\* round the size is subtracted once.
LEMMA WrapOnce ==
  ASSUME NEW n \in Nat \ {0}, NEW x \in 0 .. 2 * n - 1
  PROVE  x % n = (IF x < n THEN x ELSE x - n)
<1>1. CASE x < n BY <1>1, SMT
<1>2. CASE x >= n BY <1>2, SMT
<1> QED BY <1>1, <1>2

\* headIndex moves on by one and starts over after the last slot.
LEMMA NextIndexWraps ==
  ASSUME headIndex \in Index
  PROVE  /\ NextIndex \in Index
         /\ NextIndex = IF headIndex = BufferSize - 1 THEN 0 ELSE headIndex + 1
<1> DEFINE x == headIndex + 1
<1>1. BufferSize \in Nat \ {0} BY BufferAssumption
<1>2. x \in 0 .. 2 * BufferSize - 1 BY <1>1 DEF Index
<1> HIDE DEF x
<1>3. x % BufferSize = IF x < BufferSize THEN x ELSE x - BufferSize
  BY <1>1, <1>2, WrapOnce
<1> QED BY <1>1, <1>3 DEF Index, NextIndex, x

\* A slot is in use exactly when it names a transaction.
LEMMA UsedSlot ==
  ASSUME BufferTypeOK, NEW i \in Index
  PROVE  /\ Used(i) <=> head[i].txID \in TxIDs
         /\ Used(i) => head[i] \in [txID : TxIDs, data : Events]
         /\ ~Used(i) => head[i].txID = EmptyTxID /\ head[i].data = NoData
<1>1. head[i] \in Slot BY DEF BufferTypeOK
<1>2. EmptyTxID \notin TxIDs BY BufferAssumption
<1> QED BY <1>1, <1>2 DEF Used, Slot, EmptySlot

\* What an event contributes has the right type.
LEMMA EventTypes ==
  ASSUME NEW e \in Events, NEW i \in Index
  PROVE  /\ SlotOf(e) \in Slot
         /\ SlotOf(e) # EmptySlot
         /\ HeaderOf(e, i) \in Header
<1>1. EmptyTxID \notin TxIDs BY BufferAssumption
<1> QED BY <1>1 DEF SlotOf, HeaderOf, Slot, Header, EmptySlot, Events

------------------------------------------------------------------------------
(* The steps of add, one lemma per branch. *)

\* A new transaction keeps the types and the agreement of map and ring.
LEMMA AddNewMatches ==
  ASSUME BufferTypeOK, MapMatchesRing, NEW e \in Events, AddNew(e)
  PROVE  BufferTypeOK' /\ MapMatchesRing'
<1> DEFINE D == {u \in DOMAIN headMap : Kept(u)}
<1>1. /\ headIndex \in Index /\ head \in [Index -> Slot]
      /\ DOMAIN headMap \subseteq TxIDs /\ headMap \in [DOMAIN headMap -> Header]
  BY DEF BufferTypeOK
<1>2. e.txID \in TxIDs /\ e.txID \notin DOMAIN headMap BY DEF Events, AddNew
<1>3. /\ head' = [head EXCEPT ![headIndex] = SlotOf(e)]
      /\ DOMAIN headMap' = D \cup {e.txID}
      /\ headMap'[e.txID] = HeaderOf(e, headIndex)
      /\ \A t \in D : headMap'[t] = headMap[t]
  BY <1>2 DEF AddNew
<1>4. BufferTypeOK'
  <2>1. head' \in [Index -> Slot] BY <1>1, <1>3, EventTypes
  <2>2. DOMAIN headMap' \subseteq TxIDs BY <1>1, <1>2, <1>3
  <2>3. \A t \in DOMAIN headMap' : headMap'[t] \in Header
    BY <1>1, <1>3, EventTypes
  <2>4. headMap' \in [DOMAIN headMap' -> Header]
    BY <2>3 DEF AddNew
  <2>5. headIndex' \in Index BY <1>1, NextIndexWraps DEF AddNew
  <2> QED BY <2>1, <2>2, <2>4, <2>5 DEF BufferTypeOK, Index, Slot, Header, EmptySlot
<1>5. \A t \in DOMAIN headMap' :
        /\ head'[headMap'[t].index].txID = t
        /\ head'[headMap'[t].index].data.txID = t
        /\ head'[headMap'[t].index].data.state = headMap'[t].state
  <2> SUFFICES ASSUME NEW t \in DOMAIN headMap'
               PROVE  /\ head'[headMap'[t].index].txID = t
                      /\ head'[headMap'[t].index].data.txID = t
                      /\ head'[headMap'[t].index].data.state = headMap'[t].state
    OBVIOUS
  <2>1. CASE t = e.txID
    <3>1. head'[headIndex] = SlotOf(e) BY <1>1, <1>3
    <3> QED BY <1>3, <2>1, <3>1 DEF SlotOf, HeaderOf
  <2>2. CASE t # e.txID
    <3>1. t \in DOMAIN headMap /\ t # head[headIndex].txID
      BY <1>3, <2>2 DEF Kept
    <3>2. headMap[t].index \in Index BY <1>1, <3>1 DEF Header
    <3>3. /\ head[headMap[t].index].txID = t
          /\ head[headMap[t].index].data.txID = t
          /\ head[headMap[t].index].data.state = headMap[t].state
      BY <3>1 DEF MapMatchesRing
    <3>4. headMap[t].index # headIndex BY <3>1, <3>3
    <3>5. head'[headMap[t].index] = head[headMap[t].index]
      BY <1>1, <1>3, <3>2, <3>4
    <3> QED BY <1>3, <2>2, <3>3, <3>5
  <2> QED BY <2>1, <2>2
<1>6. \A i \in Index : head'[i] # EmptySlot =>
        head'[i].txID \in DOMAIN headMap' /\ headMap'[head'[i].txID].index = i
  <2> SUFFICES ASSUME NEW i \in Index, head'[i] # EmptySlot
               PROVE  head'[i].txID \in DOMAIN headMap' /\ headMap'[head'[i].txID].index = i
    OBVIOUS
  <2>1. CASE i = headIndex
    BY <1>1, <1>3, <2>1 DEF SlotOf, HeaderOf
  <2>2. CASE i # headIndex
    <3>1. head'[i] = head[i] BY <1>1, <1>3, <2>2
    <3>2. Used(i) BY <3>1 DEF Used
    <3>3. head[i].txID \in DOMAIN headMap /\ headMap[head[i].txID].index = i
      BY <3>2 DEF MapMatchesRing
    <3>4. head[i].txID # head[headIndex].txID
      <4>1. CASE Used(headIndex)
        BY <1>1, <2>2, <3>3, <4>1 DEF MapMatchesRing
      <4>2. CASE ~Used(headIndex)
        BY <1>1, <3>3, <4>2, UsedSlot
      <4> QED BY <4>1, <4>2
    <3>5. head[i].txID \in D BY <3>3, <3>4 DEF Kept
    <3> QED BY <1>3, <3>1, <3>3, <3>5
  <2> QED BY <2>1, <2>2
<1> QED BY <1>4, <1>5, <1>6 DEF MapMatchesRing, Used, Index, EmptySlot

\* So does an event that updates a transaction, and it leaves unused slots
\* unused and headIndex where it is.
LEMMA AddUpdateMatches ==
  ASSUME BufferTypeOK, MapMatchesRing, NEW e \in Events, AddUpdate(e)
  PROVE  /\ BufferTypeOK' /\ MapMatchesRing'
         /\ headIndex' = headIndex
         /\ \A i \in Index : Used(i)' <=> Used(i)
<1> DEFINE k == headMap[e.txID].index
<1>1. /\ headIndex \in Index /\ head \in [Index -> Slot]
      /\ DOMAIN headMap \subseteq TxIDs /\ headMap \in [DOMAIN headMap -> Header]
  BY DEF BufferTypeOK
<1>2. /\ e.txID \in DOMAIN headMap
      /\ head' = [head EXCEPT ![k] = SlotOf(e)]
      /\ headMap' = [headMap EXCEPT ![e.txID] = HeaderOf(e, k)]
      /\ headIndex' = headIndex
  BY DEF AddUpdate, UpdatedHeader
<1>3. k \in Index BY <1>1, <1>2 DEF Header
<1>4. head[k].txID = e.txID BY <1>2 DEF MapMatchesRing
<1>5. BufferTypeOK'
  <2>1. head' \in [Index -> Slot] BY <1>1, <1>2, EventTypes
  <2>2. headMap' \in [DOMAIN headMap -> Header] /\ DOMAIN headMap' = DOMAIN headMap
    BY <1>1, <1>2, <1>3, EventTypes
  <2> QED BY <1>1, <1>2, <2>1, <2>2 DEF BufferTypeOK, Index, Slot, Header, EmptySlot
<1>6. \A t \in DOMAIN headMap \ {e.txID} : headMap[t].index \in Index \ {k}
  <2> SUFFICES ASSUME NEW t \in DOMAIN headMap \ {e.txID}
               PROVE  headMap[t].index \in Index \ {k}
    OBVIOUS
  <2>1. headMap[t].index \in Index BY <1>1 DEF Header
  <2>2. head[headMap[t].index].txID = t BY DEF MapMatchesRing
  <2> QED BY <1>4, <2>1, <2>2
<1>7. \A t \in DOMAIN headMap' :
        /\ head'[headMap'[t].index].txID = t
        /\ head'[headMap'[t].index].data.txID = t
        /\ head'[headMap'[t].index].data.state = headMap'[t].state
  <2> SUFFICES ASSUME NEW t \in DOMAIN headMap
               PROVE  /\ head'[headMap'[t].index].txID = t
                      /\ head'[headMap'[t].index].data.txID = t
                      /\ head'[headMap'[t].index].data.state = headMap'[t].state
    BY <1>2
  <2>1. CASE t = e.txID
    <3>1. headMap'[t] = HeaderOf(e, k) BY <1>2, <2>1
    <3>2. head'[k] = SlotOf(e) BY <1>1, <1>2, <1>3
    <3> QED BY <2>1, <3>1, <3>2 DEF SlotOf, HeaderOf
  <2>2. CASE t # e.txID
    <3>1. headMap'[t] = headMap[t] BY <1>2, <2>2
    <3>2. head'[headMap[t].index] = head[headMap[t].index]
      BY <1>1, <1>2, <1>6, <2>2
    <3> QED BY <3>1, <3>2 DEF MapMatchesRing
  <2> QED BY <2>1, <2>2
<1>8. \A i \in Index : Used(i)' <=> Used(i)
  <2> SUFFICES ASSUME NEW i \in Index PROVE head'[i] # EmptySlot <=> Used(i)
    BY DEF Used, EmptySlot
  <2>1. CASE i = k
    <3>1. Used(k) BY <1>1, <1>2, <1>3, <1>4, UsedSlot
    <3>2. head'[k] = SlotOf(e) BY <1>1, <1>2, <1>3
    <3> QED BY <1>3, <2>1, <3>1, <3>2, EventTypes
  <2>2. CASE i # k
    BY <1>1, <1>2, <2>2 DEF Used
  <2> QED BY <2>1, <2>2
<1>9. \A i \in Index : Used(i) =>
        head'[i].txID \in DOMAIN headMap' /\ headMap'[head'[i].txID].index = i
  <2> SUFFICES ASSUME NEW i \in Index, Used(i)
               PROVE  head'[i].txID \in DOMAIN headMap' /\ headMap'[head'[i].txID].index = i
    OBVIOUS
  <2>1. head[i].txID \in DOMAIN headMap /\ headMap[head[i].txID].index = i
    BY DEF MapMatchesRing
  <2>2. CASE i = k
    <3>1. head'[i].txID = e.txID BY <1>1, <1>2, <1>3, <2>2 DEF SlotOf
    <3> QED BY <1>2, <2>2, <3>1 DEF HeaderOf
  <2>3. CASE i # k
    <3>1. head'[i] = head[i] BY <1>1, <1>2, <2>3
    <3>2. head[i].txID # e.txID BY <2>1, <2>3
    <3> QED BY <1>2, <2>1, <3>1, <3>2
  <2> QED BY <2>2, <2>3
<1> QED BY <1>2, <1>5, <1>7, <1>8, <1>9 DEF MapMatchesRing, Used, Index, EmptySlot

------------------------------------------------------------------------------
(* The inductive invariant. *)

\* A new transaction takes the first unused slot, or the oldest one.
LEMMA AddNewFills ==
  ASSUME BufferInv, NEW e \in Events, AddNew(e)
  PROVE  RingFillsInOrder'
<1>1. headIndex \in Index /\ head \in [Index -> Slot] BY DEF BufferInv, BufferTypeOK
<1>2. \A i \in Index : Used(i)' <=> (i = headIndex \/ Used(i))
  BY <1>1, EventTypes DEF AddNew, Used, EmptySlot
<1>3. headIndex' = IF headIndex = BufferSize - 1 THEN 0 ELSE headIndex + 1
  BY <1>1, NextIndexWraps DEF AddNew
<1>4. CASE \A i \in Index : Used(i)
  BY <1>2, <1>4 DEF RingFillsInOrder, Index
<1>5. CASE \A i \in Index : Used(i) <=> i < headIndex
  <2>1. \A i \in Index : Used(i)' <=> i < headIndex + 1
    BY <1>1, <1>2, <1>5 DEF Index
  <2>2. CASE headIndex = BufferSize - 1
    <3>1. \A i \in Index : Used(i)' BY <2>1, <2>2, BufferAssumption DEF Index
    <3> QED BY <3>1 DEF RingFillsInOrder, Index
  <2>3. CASE headIndex # BufferSize - 1
    <3>1. \A i \in Index : Used(i)' <=> i < headIndex' BY <1>3, <2>1, <2>3
    <3> QED BY <3>1 DEF RingFillsInOrder, Index
  <2> QED BY <2>2, <2>3
<1> QED BY <1>4, <1>5 DEF BufferInv, RingFillsInOrder

\* The empty ring satisfies the invariant.
LEMMA InitInv == NewEventBuffer => BufferInv
<1> SUFFICES ASSUME NewEventBuffer PROVE BufferInv
  OBVIOUS
<1>1. 0 \in Index /\ \A i \in Index : i >= 0 /\ ~(i < 0)
  BY BufferAssumption DEF Index
<1>2. DOMAIN headMap = {} BY DEF NewEventBuffer
<1>3. BufferTypeOK
  <2>1. head \in [Index -> Slot] BY DEF NewEventBuffer, Slot
  <2>2. headMap \in [DOMAIN headMap -> Header] BY <1>2 DEF NewEventBuffer
  <2> QED BY <1>1, <1>2, <2>1, <2>2 DEF NewEventBuffer, BufferTypeOK
<1>4. \A i \in Index : ~Used(i) BY DEF NewEventBuffer, Used
<1>5. MapMatchesRing BY <1>2, <1>4 DEF MapMatchesRing
<1>6. RingFillsInOrder BY <1>1, <1>4 DEF RingFillsInOrder, NewEventBuffer
<1> QED BY <1>3, <1>5, <1>6 DEF BufferInv

\* Every call of add preserves it.  Stated of Add, so that the broadcaster,
\* which calls add as one part of a step, can use it.
LEMMA AddInv ==
  ASSUME BufferInv, NEW e \in Events, Add(e)
  PROVE  BufferInv'
<1>1. CASE AddNew(e)
  BY <1>1, AddNewMatches, AddNewFills DEF BufferInv
<1>2. CASE AddStale(e)
  BY <1>2 DEF AddStale, bufferVars, BufferInv, BufferTypeOK, MapMatchesRing,
              RingFillsInOrder, Used, Index, Slot, Header, EmptySlot
<1>3. CASE AddUpdate(e)
  <2>1. /\ BufferTypeOK' /\ MapMatchesRing' /\ headIndex' = headIndex
        /\ \A i \in Index : Used(i)' <=> Used(i)
    BY <1>3, AddUpdateMatches DEF BufferInv
  <2>2. RingFillsInOrder'
    BY <2>1 DEF BufferInv, RingFillsInOrder, Index
  <2> QED BY <2>1, <2>2 DEF BufferInv
<1> QED BY <1>1, <1>2, <1>3 DEF Add

\* Steps that leave the ring alone preserve it too.
LEMMA StutterInv == BufferInv /\ UNCHANGED bufferVars => BufferInv'
BY DEF bufferVars, BufferInv, BufferTypeOK, MapMatchesRing,
       RingFillsInOrder, Used, Index, Slot, Header, EmptySlot

\* The ring is always well formed: its types, the agreement of headMap with
\* head, and the order in which it fills.
THEOREM BufferInvariant == BufferSpec => []BufferInv
<1>1. BufferInv /\ [BufferNext]_bufferVars => BufferInv'
  BY AddInv, StutterInv DEF BufferNext
<1> QED BY InitInv, <1>1, PTL DEF BufferSpec

\* The ring keeps its types.
THEOREM BufferTypeCorrect == BufferSpec => []BufferTypeOK
<1>1. BufferInv => BufferTypeOK BY DEF BufferInv
<1> QED BY BufferInvariant, <1>1, PTL

\* add keeps headMap and head in agreement: no entry survives the eviction of
\* its transaction, and no slot is reached by two entries.
THEOREM MapAlwaysMatchesRing == BufferSpec => []MapMatchesRing
<1>1. BufferInv => MapMatchesRing BY DEF BufferInv
<1> QED BY BufferInvariant, <1>1, PTL

\* The ring fills from its first slot and has no hole.
THEOREM RingAlwaysFillsInOrder == BufferSpec => []RingFillsInOrder
<1>1. BufferInv => RingFillsInOrder BY DEF BufferInv
<1> QED BY BufferInvariant, <1>1, PTL

------------------------------------------------------------------------------

\* An event that add stores is of no earlier state than the one that was kept.
LEMMA AddNeverRegresses ==
  ASSUME BufferTypeOK, NEW e \in Events, Add(e),
         NEW t \in DOMAIN headMap \cap DOMAIN headMap'
  PROVE  headMap[t].state <= headMap'[t].state
<1>1. headMap[t].state \in Int /\ e.state \in Int
  <2>1. headMap[t] \in Header BY DEF BufferTypeOK
  <2>2. States \subseteq Int
    BY BufferAssumption DEF State, StateUnknown, StateComplete
  <2> QED BY <2>1, <2>2 DEF Header, Events
<1>2. CASE AddNew(e)
  <2>1. t # e.txID BY <1>2 DEF AddNew
  <2>2. headMap'[t] = headMap[t] BY <1>2, <2>1 DEF AddNew
  <2> QED BY <1>1, <2>2
<1>3. CASE AddStale(e)
  <2>1. headMap'[t] = headMap[t] BY <1>3 DEF AddStale, bufferVars
  <2> QED BY <1>1, <2>1
<1>4. CASE AddUpdate(e)
  <2>1. headMap' = [headMap EXCEPT ![e.txID] = UpdatedHeader(e)]
    BY <1>4 DEF AddUpdate
  <2>2. CASE t = e.txID
    <3>1. headMap'[t].state = e.state
      BY <2>1, <2>2 DEF UpdatedHeader, HeaderOf
    <3> QED BY <1>1, <1>4, <2>2, <3>1 DEF AddUpdate, Stale
  <2>3. CASE t # e.txID
    <3>1. headMap'[t] = headMap[t] BY <2>1, <2>3
    <3> QED BY <1>1, <3>1
  <2> QED BY <2>2, <2>3
<1> QED BY <1>2, <1>3, <1>4 DEF Add

\* However late and out of order the events of a job arrive, add never moves
\* the state kept for its transaction backwards.
THEOREM JobsNeverRegress == BufferSpec => NeverRegresses
<1> DEFINE A == \A t \in DOMAIN headMap \cap DOMAIN headMap' :
                 headMap[t].state <= headMap'[t].state
<1>1. BufferTypeOK /\ [BufferNext]_bufferVars => [A]_bufferVars
  BY AddNeverRegresses DEF BufferNext
<1> QED BY BufferTypeCorrect, <1>1, PTL DEF BufferSpec, NeverRegresses

------------------------------------------------------------------------------
(* The ring implements the abstract window.  At(p) is the slot that holds  *)
(* the p-th oldest transaction.                                            *)

At(p) == IF ~Used(headIndex) THEN p - 1
         ELSE IF headIndex + p - 1 < BufferSize THEN headIndex + p - 1
         ELSE headIndex + p - 1 - BufferSize

\* Contents is the ring read through At, and every transaction it names is in
\* the map.
ContentsRead ==
  /\ Contents \in Seq(Events)
  /\ Len(Contents) = Count
  /\ \A p \in 1 .. Count :
       /\ At(p) \in Index
       /\ Contents[p] = head[At(p)].data
       /\ Contents[p].txID = head[At(p)].txID
       /\ Contents[p].txID \in DOMAIN headMap

\* The slots visited from headIndex on, without the remainder.
LEMMA AtWraps ==
  ASSUME headIndex \in Index, Used(headIndex), NEW p \in 1 .. BufferSize
  PROVE  (headIndex + p - 1) % BufferSize = At(p)
<1> DEFINE x == headIndex + p - 1
<1>1. BufferSize \in Nat \ {0} BY BufferAssumption
<1>2. x \in 0 .. 2 * BufferSize - 1 BY <1>1 DEF Index
<1>3. At(p) = (IF x < BufferSize THEN x ELSE x - BufferSize)
  BY <1>1 DEF At, x, Used, Index
<1> HIDE DEF x
<1>4. x % BufferSize = IF x < BufferSize THEN x ELSE x - BufferSize
  BY <1>1, <1>2, WrapOnce
<1>5. x % BufferSize = At(p) BY <1>3, <1>4
<1> QED BY <1>5 DEF x

\* The positions 1 .. Count name the slots in use, each once.
LEMMA AtBijective ==
  ASSUME BufferInv
  PROVE  /\ Count \in 0 .. BufferSize
         /\ \A p \in 1 .. Count : At(p) \in Index /\ Used(At(p))
         /\ \A p, q \in 1 .. Count : At(p) = At(q) => p = q
         /\ \A i \in Index : Used(i) => \E p \in 1 .. Count : At(p) = i
<1>1. BufferSize \in Nat \ {0} /\ headIndex \in Index
  BY BufferAssumption DEF BufferInv, BufferTypeOK
<1>2. CASE Used(headIndex)
  <2>1. \A i \in Index : Used(i)
    BY <1>1, <1>2 DEF BufferInv, RingFillsInOrder, Index
  <2>2. Count = BufferSize BY <1>2 DEF Count
  <2>3. \A p \in 1 .. BufferSize : At(p) \in Index
    BY <1>1, <1>2 DEF At, Index
  <2>4. \A p, q \in 1 .. BufferSize : At(p) = At(q) => p = q
    BY <1>1, <1>2 DEF At, Index
  <2>5. ASSUME NEW i \in Index PROVE \E p \in 1 .. BufferSize : At(p) = i
    <3> DEFINE p == IF i >= headIndex THEN i - headIndex + 1
                                      ELSE i - headIndex + 1 + BufferSize
    <3>1. p \in 1 .. BufferSize BY <1>1 DEF Index
    <3>2. At(p) = i BY <1>1, <1>2, <3>1 DEF At, Index
    <3> QED BY <3>1, <3>2
  <2> QED BY <1>1, <2>1, <2>2, <2>3, <2>4, <2>5
<1>3. CASE ~Used(headIndex)
  <2>1. \A i \in Index : Used(i) <=> i < headIndex
    BY <1>1, <1>3 DEF BufferInv, RingFillsInOrder
  <2>2. Count = headIndex /\ \A p : At(p) = p - 1 BY <1>3 DEF Count, At
  <2>3. ASSUME NEW i \in Index, Used(i) PROVE \E p \in 1 .. Count : At(p) = i
    <3>1. i + 1 \in 1 .. Count /\ At(i + 1) = i
      BY <1>1, <2>1, <2>2, <2>3 DEF Index
    <3> QED BY <3>1
  <2> QED BY <1>1, <2>1, <2>2, <2>3 DEF Index
<1> QED BY <1>2, <1>3

\* The ring can be read through At.
LEMMA ContentsReadHolds == BufferInv => ContentsRead
<1> SUFFICES ASSUME BufferInv PROVE ContentsRead
  OBVIOUS
<1>1. Count \in Nat /\ Count <= BufferSize /\ headIndex \in Index
  BY AtBijective, BufferAssumption DEF BufferInv, BufferTypeOK
<1>2. \A p \in 1 .. Count : head[At(p)] \in [txID : TxIDs, data : Events]
  BY AtBijective, UsedSlot DEF BufferInv
<1>3. Contents = [p \in 1 .. Count |-> head[At(p)].data]
  <2>1. CASE Used(headIndex)
    <3>1. Count = BufferSize BY <2>1 DEF Count
    <3>2. \A p \in 1 .. Count : (headIndex + p - 1) % BufferSize = At(p)
      BY <1>1, <2>1, <3>1, AtWraps
    <3>3. Contents = [p \in 1 .. Count |-> head[(headIndex + p - 1) % BufferSize].data]
      BY <2>1 DEF Contents
    <3> HIDE DEF Contents
    <3> QED BY <3>2, <3>3, Zenon
  <2>2. CASE ~Used(headIndex)
    BY <2>2 DEF Contents, At
  <2> QED BY <2>1, <2>2
<1>4. Contents \in Seq(Events) /\ Len(Contents) = Count
  BY <1>1, <1>2, <1>3
<1>5. ASSUME NEW p \in 1 .. Count
      PROVE  /\ At(p) \in Index
             /\ Contents[p] = head[At(p)].data
             /\ Contents[p].txID = head[At(p)].txID
             /\ Contents[p].txID \in DOMAIN headMap
  <2>1. At(p) \in Index /\ Used(At(p)) BY AtBijective
  <2>2. /\ head[At(p)].txID \in DOMAIN headMap
        /\ headMap[head[At(p)].txID].index = At(p)
    BY <2>1 DEF BufferInv, MapMatchesRing
  <2>3. head[At(p)].data.txID = head[At(p)].txID
    BY <2>2 DEF BufferInv, MapMatchesRing
  <2> QED BY <1>3, <2>1, <2>2, <2>3
<1> QED BY <1>4, <1>5 DEF ContentsRead

\* Dropping the first element of a sequence and adding one at its end.
LEMMA ShiftIn ==
  ASSUME NEW S, NEW s \in Seq(S), NEW e \in S, NEW r \in Seq(S),
         Len(s) > 0, Len(r) = Len(s),
         \A i \in 1 .. Len(s) - 1 : r[i] = s[i + 1],
         r[Len(s)] = e
  PROVE  r = Append(Tail(s), e)
<1>1. /\ Tail(s) \in Seq(S) /\ Len(Tail(s)) = Len(s) - 1
      /\ \A i \in 1 .. Len(s) - 1 : Tail(s)[i] = s[i + 1]
  BY HeadTailProperties
<1>2. /\ Append(Tail(s), e) \in Seq(S)
      /\ Len(Append(Tail(s), e)) = Len(s)
      /\ \A i \in 1 .. Len(s) - 1 : Append(Tail(s), e)[i] = Tail(s)[i]
      /\ Append(Tail(s), e)[Len(s)] = e
  BY <1>1, AppendProperties
<1>3. \A i \in 1 .. Len(r) : r[i] = Append(Tail(s), e)[i]
  BY <1>1, <1>2
<1> QED BY <1>2, <1>3, SeqEqual

\* Adding one element at the end of a sequence.
LEMMA AddLast ==
  ASSUME NEW S, NEW s \in Seq(S), NEW e \in S, NEW r \in Seq(S),
         Len(r) = Len(s) + 1,
         \A i \in 1 .. Len(s) : r[i] = s[i],
         r[Len(s) + 1] = e
  PROVE  r = Append(s, e)
<1>1. /\ Append(s, e) \in Seq(S)
      /\ Len(Append(s, e)) = Len(s) + 1
      /\ \A i \in 1 .. Len(s) : Append(s, e)[i] = s[i]
      /\ Append(s, e)[Len(s) + 1] = e
  BY AppendProperties
<1>2. \A i \in 1 .. Len(r) : r[i] = Append(s, e)[i]
  BY <1>1
<1> QED BY <1>1, <1>2, SeqEqual

\* A new transaction is a Remember step of the window.
LEMMA AddNewRemembers ==
  ASSUME BufferInv, BufferInv', NEW e \in Events, AddNew(e)
  PROVE  Abstract!Remember(e)
<1>1. /\ BufferSize \in Nat \ {0} /\ headIndex \in Index
      /\ head \in [Index -> Slot]
  BY BufferAssumption DEF BufferInv, BufferTypeOK
<1>2. e.txID \notin DOMAIN headMap BY DEF AddNew
<1>3. ContentsRead BY ContentsReadHolds
<1>4. ContentsRead' BY ContentsReadHolds, PTL
<1>5. /\ head'[headIndex].data = e
      /\ \A i \in Index \ {headIndex} : head'[i] = head[i]
      /\ \A i \in Index : Used(i)' <=> (i = headIndex \/ Used(i))
  BY <1>1, EventTypes DEF AddNew, SlotOf, Used, EmptySlot
<1>6. /\ headIndex' \in Index
      /\ headIndex' = IF headIndex = BufferSize - 1 THEN 0 ELSE headIndex + 1
  BY <1>1, NextIndexWraps DEF AddNew
<1>7. \A i \in DOMAIN Contents : Contents[i].txID # e.txID
  BY <1>2, <1>3 DEF ContentsRead
<1>8. CASE Used(headIndex)
  <2>1. \A i \in Index : Used(i)
    BY <1>1, <1>8 DEF BufferInv, RingFillsInOrder, Index
  <2>2. Count = BufferSize BY <1>8 DEF Count
  <2>3. Used(headIndex)' BY <1>5, <1>6, <2>1 DEF Used, EmptySlot
  <2>4. Count' = BufferSize BY <2>3 DEF Count
  <2>5. \A p \in 1 .. BufferSize - 1 :
          At(p)' = At(p + 1) /\ At(p + 1) \in Index \ {headIndex}
    BY <1>1, <1>6, <1>8, <2>3 DEF At, Index
  <2>6. At(BufferSize)' = headIndex
    BY <1>1, <1>6, <1>8, <2>3 DEF At, Index
  <2>7. /\ Len(Contents) = BufferSize /\ Len(Contents') = BufferSize
        /\ Contents \in Seq(Events) /\ Contents' \in Seq(Events)
    BY <1>3, <1>4, <2>2, <2>4 DEF ContentsRead
  <2>8. \A p \in 1 .. BufferSize - 1 : Contents'[p] = Contents[p + 1]
    <3> SUFFICES ASSUME NEW p \in 1 .. BufferSize - 1
                 PROVE  Contents'[p] = Contents[p + 1]
      OBVIOUS
    <3>1. Contents'[p] = head'[At(p)'].data
      BY <1>1, <1>4, <2>4 DEF ContentsRead
    <3>2. Contents[p + 1] = head[At(p + 1)].data
      BY <1>1, <1>3, <2>2 DEF ContentsRead
    <3> QED BY <1>5, <2>5, <3>1, <3>2
  <2>9. Contents'[BufferSize] = e
    BY <1>1, <1>4, <1>5, <2>4, <2>6 DEF ContentsRead
  <2>10. Contents' = Append(Tail(Contents), e)
    BY <1>1, <2>7, <2>8, <2>9, ShiftIn
  <2> QED BY <1>1, <1>7, <2>7, <2>10 DEF Abstract!Remember
<1>9. CASE ~Used(headIndex)
  <2>1. \A i \in Index : Used(i) <=> i < headIndex
    BY <1>1, <1>9 DEF BufferInv, RingFillsInOrder
  <2>2. Count = headIndex BY <1>9 DEF Count
  <2>3. Used(headIndex)' <=> headIndex = BufferSize - 1
    BY <1>1, <1>5, <1>6, <2>1 DEF Used, EmptySlot, Index
  <2>4. Count' = headIndex + 1
    BY <1>1, <1>6, <2>3 DEF Count, Index
  <2>5. \A p \in 1 .. headIndex + 1 : At(p)' = p - 1
    BY <1>1, <1>6, <2>3 DEF At, Index
  <2>6. /\ Len(Contents) = headIndex /\ Len(Contents') = headIndex + 1
        /\ Contents \in Seq(Events) /\ Contents' \in Seq(Events)
    BY <1>3, <1>4, <2>2, <2>4 DEF ContentsRead
  <2>7. \A p \in 1 .. headIndex : Contents'[p] = Contents[p]
    <3> SUFFICES ASSUME NEW p \in 1 .. headIndex
                 PROVE  Contents'[p] = Contents[p]
      OBVIOUS
    <3>1. Contents'[p] = head'[p - 1].data
      BY <1>1, <1>4, <2>4, <2>5 DEF ContentsRead, Index
    <3>2. Contents[p] = head[p - 1].data
      BY <1>1, <1>3, <1>9, <2>2 DEF ContentsRead, Index, At
    <3> QED BY <1>1, <1>5, <3>1, <3>2 DEF Index
  <2>8. Contents'[headIndex + 1] = e
    <3> SUFFICES ASSUME NEW p \in 1 .. headIndex + 1, p = headIndex + 1
                 PROVE  Contents'[p] = e
      BY <1>1 DEF Index
    <3>1. Contents'[p] = head'[At(p)'].data
      BY <1>1, <1>4, <2>4 DEF ContentsRead
    <3>2. At(p)' = headIndex BY <1>1, <2>5 DEF Index
    <3> QED BY <1>5, <3>1, <3>2
  <2>9. Contents' = Append(Contents, e)
    BY <1>1, <2>6, <2>7, <2>8, AddLast
  <2>10. Len(Contents) < BufferSize BY <1>1, <2>6 DEF Index
  <2> QED BY <1>7, <2>9, <2>10 DEF Abstract!Remember
<1> QED BY <1>8, <1>9

\* An update of a transaction in the ring is an Advance step of the window.
LEMMA AddUpdateAdvances ==
  ASSUME BufferInv, BufferInv', NEW e \in Events, AddUpdate(e)
  PROVE  Abstract!Advance(e)
<1> DEFINE k == headMap[e.txID].index
<1>1. /\ BufferSize \in Nat \ {0} /\ headIndex \in Index
      /\ head \in [Index -> Slot]
      /\ DOMAIN headMap \subseteq TxIDs
      /\ headMap \in [DOMAIN headMap -> Header]
  BY BufferAssumption DEF BufferInv, BufferTypeOK
<1>2. ContentsRead BY ContentsReadHolds
<1>3. ContentsRead' BY ContentsReadHolds, PTL
<1>4. /\ headIndex' = headIndex /\ \A i \in Index : Used(i)' <=> Used(i)
  BY AddUpdateMatches DEF BufferInv
<1>5. /\ e.txID \in DOMAIN headMap
      /\ k \in Index /\ head[k].txID = e.txID
      /\ head[k].data.state = headMap[e.txID].state
  BY <1>1 DEF AddUpdate, Header, BufferInv, MapMatchesRing
<1>6. /\ head'[k].data = e
      /\ \A i \in Index \ {k} : head'[i] = head[i]
  BY <1>1, <1>5 DEF AddUpdate, SlotOf
<1>7. Used(k) BY <1>1, <1>5, UsedSlot DEF BufferInv
<1>8. PICK j \in 1 .. Count : At(j) = k BY <1>5, <1>7, AtBijective
<1>9. Count' = Count BY <1>1, <1>4 DEF Count
<1>10. \A p \in 1 .. Count : At(p)' = At(p) BY <1>1, <1>4 DEF At
<1>11. \A p \in 1 .. Count : p # j => At(p) # k BY <1>8, AtBijective
<1>12. /\ Contents \in Seq(Events) /\ Contents' \in Seq(Events)
       /\ Len(Contents) = Count /\ Len(Contents') = Count
  BY <1>2, <1>3, <1>9 DEF ContentsRead
<1>13. ASSUME NEW p \in 1 .. Count
       PROVE  Contents'[p] = IF p = j THEN e ELSE Contents[p]
  <2>1. Contents'[p] = head'[At(p)].data
    BY <1>3, <1>9, <1>10 DEF ContentsRead
  <2>2. Contents[p] = head[At(p)].data /\ At(p) \in Index
    BY <1>2 DEF ContentsRead
  <2> QED BY <1>6, <1>8, <1>11, <2>1, <2>2
<1>14. Contents' = [Contents EXCEPT ![j] = e]
  BY <1>12, <1>13
<1>15. Contents[j].txID = e.txID /\ Contents[j].state = headMap[e.txID].state
  BY <1>2, <1>5, <1>8 DEF ContentsRead
<1>16. headMap[e.txID].state <= e.state
  <2>1. headMap[e.txID].state \in Int /\ e.state \in Int
    BY <1>1, <1>5, BufferAssumption
    DEF Header, Events, State, StateUnknown, StateComplete
  <2> QED BY <2>1 DEF AddUpdate, Stale
<1>17. j \in DOMAIN Contents BY <1>12
<1> QED BY <1>14, <1>15, <1>16, <1>17 DEF Abstract!Advance

\* A new ring is an empty window.
LEMMA RingStartsEmpty == NewEventBuffer => Abstract!Init
<1> SUFFICES ASSUME NewEventBuffer PROVE Contents = << >>
  BY DEF Abstract!Init
<1>1. BufferInv BY InitInv
<1>2. 0 \in Index BY BufferAssumption DEF Index
<1>3. Count = 0 BY <1>2 DEF NewEventBuffer, Count, Used
<1>4. Contents \in Seq(Events) /\ Len(Contents) = 0
  BY <1>1, <1>3, ContentsReadHolds DEF ContentsRead
<1> QED BY <1>4

\* What add makes of an event is what the window makes of it, or nothing.
LEMMA AddArrives ==
  ASSUME BufferInv, BufferInv', NEW e \in Events, Add(e)
  PROVE  Abstract!Arrive(e) \/ UNCHANGED bufferVars
<1>1. CASE AddNew(e) BY <1>1, AddNewRemembers DEF Abstract!Arrive
<1>2. CASE AddStale(e) BY <1>2 DEF AddStale
<1>3. CASE AddUpdate(e) BY <1>3, AddUpdateAdvances DEF Abstract!Arrive
<1> QED BY <1>1, <1>2, <1>3 DEF Add

\* The ring, with its map and its reuse of slots, implements the window of the
\* most recent transactions: what it holds is always the last BufferSize
\* transactions in order of first arrival, each with the newest event that did
\* not move its job backwards.
THEOREM RingImplementsWindow == BufferSpec => ImplementsRecentTxs
<1>1. BufferInv /\ BufferInv' /\ [BufferNext]_bufferVars => [Abstract!Next]_Contents
  <2> SUFFICES ASSUME BufferInv, BufferInv', [BufferNext]_bufferVars
               PROVE  [Abstract!Next]_Contents
    OBVIOUS
  <2>1. CASE UNCHANGED bufferVars
    BY <2>1 DEF bufferVars, Contents, Count, Used
  <2>2. CASE BufferNext BY <2>1, <2>2, AddArrives DEF BufferNext, Abstract!Next
  <2> QED BY <2>1, <2>2
<1> QED BY BufferInvariant, RingStartsEmpty, <1>1, PTL
        DEF BufferSpec, ImplementsRecentTxs, Abstract!Spec

------------------------------------------------------------------------------
(* The replay.  It is defined by recursion over the slots visited; what it  *)
(* holds is found by induction over them.                                   *)

\* The slots that writeAllToCh visits exist, and hold an event or nothing.
LEMMA ReplaySlotType ==
  ASSUME BufferTypeOK, NEW i \in Nat
  PROVE  ReplaySlot(i).data \in Events \cup {NoData}
<1>1. (headIndex + i) % BufferSize \in Index
  BY BufferAssumption DEF BufferTypeOK, Index
<1>2. ReplaySlot(i) \in Slot BY <1>1 DEF ReplaySlot, BufferTypeOK
<1> QED BY <1>2 DEF Slot, EmptySlot

\* The slot visited i-th, without the remainder.
Visited(i) == IF headIndex + i < BufferSize THEN headIndex + i ELSE headIndex + i - BufferSize

\* It is that slot, and every slot is visited.
LEMMA SlotsVisited ==
  ASSUME headIndex \in Index
  PROVE  /\ \A i \in 1 .. BufferSize : (headIndex + i) % BufferSize = Visited(i)
         /\ \A j \in Index : \E i \in 1 .. BufferSize : (headIndex + i) % BufferSize = j
<1>1. BufferSize \in Nat \ {0} BY BufferAssumption
<1>2. ASSUME NEW i \in 1 .. BufferSize
      PROVE  (headIndex + i) % BufferSize = Visited(i)
  <2> DEFINE x == headIndex + i
  <2>1. x \in 0 .. 2 * BufferSize - 1 BY <1>1 DEF Index
  <2>2. Visited(i) = (IF x < BufferSize THEN x ELSE x - BufferSize)
    BY <1>1 DEF Visited, Index
  <2> HIDE DEF x
  <2>3. x % BufferSize = IF x < BufferSize THEN x ELSE x - BufferSize BY <1>1, <2>1, WrapOnce
  <2>4. x % BufferSize = Visited(i) BY <2>2, <2>3
  <2> QED BY <2>4 DEF x
<1>3. ASSUME NEW j \in Index
      PROVE  \E i \in 1 .. BufferSize : (headIndex + i) % BufferSize = j
  <2>1. CASE j > headIndex
    <3>1. j - headIndex \in 1 .. BufferSize /\ headIndex + (j - headIndex) = j
      BY <1>1, <2>1 DEF Index
    <3>2. j < BufferSize BY <1>1 DEF Index
    <3> QED BY <1>2, <3>1, <3>2 DEF Visited
  <2>2. CASE j <= headIndex
    <3> DEFINE i == j - headIndex + BufferSize
    <3>1. i \in 1 .. BufferSize BY <1>1, <2>2 DEF Index
    <3>2. ~(headIndex + i < BufferSize) /\ headIndex + i - BufferSize = j
      BY <1>1 DEF Index
    <3> HIDE DEF i
    <3>3. (headIndex + i) % BufferSize = j BY <1>2, <3>1, <3>2 DEF Visited
    <3> QED BY <3>1, <3>3
  <2> QED BY <1>1, <2>1, <2>2 DEF Index
<1> QED BY <1>2, <1>3

\* The recursion of the replay has a solution, and ReplayUpTo is one.
LEMMA ReplayUnfolds ==
  ASSUME BufferTypeOK
  PROVE  /\ ReplayUpTo[0] = << >>
         /\ \A i \in 0 .. BufferSize : ReplayUpTo[i] \in Seq(Events)
         /\ \A i \in 1 .. BufferSize :
              ReplayUpTo[i] = IF ReplaySlot(i).data = NoData THEN ReplayUpTo[i - 1]
                              ELSE Append(ReplayUpTo[i - 1], ReplaySlot(i).data)
<1> DEFINE Visit(f) == [i \in 0 .. BufferSize |->
                          IF i = 0 THEN << >>
                          ELSE IF ReplaySlot(i).data = NoData THEN f[i - 1]
                          ELSE Append(f[i - 1], ReplaySlot(i).data)]
           step == [i \in 1 .. BufferSize |-> [s \in Seq(Events) |->
                      IF ReplaySlot(i).data = NoData THEN s ELSE Append(s, ReplaySlot(i).data)]]
<1>1. BufferSize \in Nat \ {0} BY BufferAssumption
<1>2. << >> \in Seq(Events) OBVIOUS
<1>3. \A i \in 1 .. BufferSize : \A s \in Seq(Events) : step[i][s] \in Seq(Events)
  <2>1. \A i \in 1 .. BufferSize : ReplaySlot(i).data \in Events \cup {NoData}
    BY <1>1, ReplaySlotType
  <2>2. ASSUME NEW i \in 1 .. BufferSize, NEW s \in Seq(Events)
        PROVE  (IF ReplaySlot(i).data = NoData THEN s ELSE Append(s, ReplaySlot(i).data))
                 \in Seq(Events)
    BY <2>1
  <2> QED BY <2>2
<1>4. PICK f \in [0 .. BufferSize -> Seq(Events)] :
        f[0] = << >> /\ \A i \in 1 .. BufferSize : f[i] = step[i][f[i - 1]]
  <2> DEFINE S == Seq(Events)
             a == << >>
  <2>1. BufferSize \in Nat /\ a \in S /\ IsStep(step, BufferSize, S)
    BY <1>1, <1>2, <1>3 DEF IsStep
  <2> HIDE DEF step, S, a
  <2>2. PICK f : Recurs(f, a, step, BufferSize, S) BY <2>1, RecursionTo
  <2> QED BY <2>2 DEF Recurs, S, a
<1>5. f = Visit(f)
  <2>1. ASSUME NEW i \in 1 .. BufferSize
        PROVE  f[i] = IF ReplaySlot(i).data = NoData THEN f[i - 1]
                      ELSE Append(f[i - 1], ReplaySlot(i).data)
    <3>1. f[i - 1] \in Seq(Events) BY <1>1
    <3> QED BY <1>4, <3>1
  <2>2. \A i \in 0 .. BufferSize : i = 0 \/ i \in 1 .. BufferSize BY <1>1
  <2>3. \A i \in 0 .. BufferSize :
          f[i] = IF i = 0 THEN << >>
                 ELSE IF ReplaySlot(i).data = NoData THEN f[i - 1]
                 ELSE Append(f[i - 1], ReplaySlot(i).data)
    BY <1>1, <1>4, <2>1, <2>2
  <2> QED BY <2>3
<1>6. ReplayUpTo = CHOOSE g : g = Visit(g) BY DEF ReplayUpTo
<1> HIDE DEF Visit
<1>7. ReplayUpTo = Visit(ReplayUpTo) BY <1>5, <1>6
<1>8. /\ ReplayUpTo[0] = << >>
      /\ \A i \in 1 .. BufferSize :
           ReplayUpTo[i] = IF ReplaySlot(i).data = NoData THEN ReplayUpTo[i - 1]
                           ELSE Append(ReplayUpTo[i - 1], ReplaySlot(i).data)
  <2> DEFINE u == ReplayUpTo
  <2>1. u = Visit(u) BY <1>7
  <2> HIDE DEF u
  <2>2. u[0] = << >> BY <1>1, <2>1 DEF Visit
  <2>3. \A i \in 0 .. BufferSize :
          u[i] = IF i = 0 THEN << >>
                 ELSE IF ReplaySlot(i).data = NoData THEN u[i - 1]
                 ELSE Append(u[i - 1], ReplaySlot(i).data)
    BY <2>1, Zenon DEF Visit
  <2>4. \A i \in 1 .. BufferSize : i \in 0 .. BufferSize /\ i # 0 BY <1>1
  <2>5. \A i \in 1 .. BufferSize :
          u[i] = IF ReplaySlot(i).data = NoData THEN u[i - 1]
                 ELSE Append(u[i - 1], ReplaySlot(i).data)
    BY <2>3, <2>4
  <2> QED BY <2>2, <2>5 DEF u
<1> DEFINE D == {i \in 0 .. BufferSize : ReplayUpTo[i] \in Seq(Events)}
<1>9. 0 \in D
  <2>1. 0 \in 0 .. BufferSize BY <1>1
  <2> QED BY <1>2, <1>8, <2>1
<1>10. ASSUME NEW i \in 0 .. BufferSize - 1, i \in D PROVE i + 1 \in D
  <2>1. /\ i + 1 \in 1 .. BufferSize /\ (i + 1) - 1 = i
        /\ ReplaySlot(i + 1).data \in Events \cup {NoData}
    BY <1>1, ReplaySlotType
  <2>2. ReplayUpTo[i] \in Seq(Events) BY <1>10
  <2>3. ReplayUpTo[i + 1] = IF ReplaySlot(i + 1).data = NoData THEN ReplayUpTo[i]
                            ELSE Append(ReplayUpTo[i], ReplaySlot(i + 1).data)
    BY <1>8, <2>1
  <2>4. ReplayUpTo[i + 1] \in Seq(Events)
    <3> DEFINE u == ReplayUpTo
               d == ReplaySlot(i + 1).data
    <3>1. /\ u[i] \in Seq(Events) /\ d \in Events \cup {NoData}
          /\ u[i + 1] = IF d = NoData THEN u[i] ELSE Append(u[i], d)
      BY <2>1, <2>2, <2>3
    <3> HIDE DEF u, d
    <3>2. u[i + 1] \in Seq(Events) BY <3>1
    <3> QED BY <3>2 DEF u
  <2> QED BY <1>1, <2>1, <2>4
<1>11. \A i \in 0 .. BufferSize : i \in D
  <2>1. \A i \in 0 .. BufferSize - 1 : i \in D => i + 1 \in D BY <1>10
  <2> HIDE DEF D
  <2> QED BY <1>1, <1>9, <2>1, InductionTo
<1> QED BY <1>8, <1>11

\* The replay holds what is in the slots, and nothing else.
LEMMA ReplayHolds ==
  ASSUME BufferTypeOK
  PROVE  /\ Replay \in Seq(Events)
         /\ {Replay[i] : i \in DOMAIN Replay} = {head[j].data : j \in Index} \ {NoData}
<1> DEFINE Sent(i) == {ReplayUpTo[i][k] : k \in DOMAIN ReplayUpTo[i]}
           Seen(i) == {ReplaySlot(k).data : k \in 1 .. i} \ {NoData}
           D == {i \in 0 .. BufferSize : Sent(i) = Seen(i)}
<1>1. BufferSize \in Nat \ {0} /\ headIndex \in Index BY BufferAssumption DEF BufferTypeOK
<1>2. 0 \in D BY <1>1, ReplayUnfolds
<1>3. ASSUME NEW i \in 0 .. BufferSize - 1, i \in D PROVE i + 1 \in D
  <2> DEFINE d == ReplaySlot(i + 1).data
             s == ReplayUpTo[i]
             r == ReplayUpTo[i + 1]
  <2>1. /\ i \in 0 .. BufferSize /\ i + 1 \in 1 .. BufferSize /\ (i + 1) - 1 = i
        /\ i + 1 \in 0 .. BufferSize
    BY <1>1
  <2>2. s \in Seq(Events) /\ r = IF d = NoData THEN s ELSE Append(s, d)
    BY <2>1, ReplayUnfolds
  <2>3. Seen(i + 1) = (Seen(i) \cup {d}) \ {NoData}
    <3>1. 1 .. i + 1 = (1 .. i) \cup {i + 1} BY <2>1
    <3> QED BY <3>1
  <2>4. Sent(i + 1) = IF d = NoData THEN Sent(i) ELSE Sent(i) \cup {d}
    <3> HIDE DEF d, s, r
    <3>1. {r[k] : k \in DOMAIN r}
            = IF d = NoData THEN {s[k] : k \in DOMAIN s} ELSE {s[k] : k \in DOMAIN s} \cup {d}
      <4>1. CASE d = NoData BY <2>2, <4>1
      <4>2. CASE d # NoData
        <5>1. /\ DOMAIN r = (1 .. Len(s)) \cup {Len(s) + 1} /\ DOMAIN s = 1 .. Len(s)
              /\ \A k \in 1 .. Len(s) : r[k] = s[k]
              /\ r[Len(s) + 1] = d
          BY <2>2, <4>2
        <5> QED BY <4>2, <5>1
      <4> QED BY <4>1, <4>2
    <3> QED BY <3>1 DEF r, s
  <2>5. Sent(i) = Seen(i) BY <1>3
  <2> HIDE DEF Sent, Seen, d
  <2>6. NoData \notin Seen(i) BY DEF Seen
  <2>7. Sent(i + 1) = Seen(i + 1) BY <2>3, <2>4, <2>5, <2>6
  <2> QED BY <2>1, <2>7
<1>4. \A i \in 0 .. BufferSize : i \in D
  <2>1. \A i \in 0 .. BufferSize - 1 : i \in D => i + 1 \in D BY <1>3
  <2> HIDE DEF D
  <2> QED BY <1>1, <1>2, <2>1, InductionTo
<1>5. {Replay[i] : i \in DOMAIN Replay} = Seen(BufferSize)
  <2>1. BufferSize \in D BY <1>1, <1>4
  <2> QED BY <2>1 DEF Replay
<1>6. Seen(BufferSize) = {head[j].data : j \in Index} \ {NoData}
  <2>1. \A i \in 1 .. BufferSize : (headIndex + i) % BufferSize \in Index
    BY <1>1 DEF Index
  <2>2. \A j \in Index : \E i \in 1 .. BufferSize : (headIndex + i) % BufferSize = j
    BY <1>1, SlotsVisited
  <2> QED BY <2>1, <2>2 DEF ReplaySlot
<1>7. Replay \in Seq(Events) BY <1>1, ReplayUnfolds DEF Replay
<1> QED BY <1>5, <1>6, <1>7

\* It is as long as the ring has transactions: a full ring adds one at each
\* slot visited, and the others none before the first slot and at the last.
LEMMA ReplayLength ==
  ASSUME BufferInv
  PROVE  Len(Replay) = Count
<1>1. /\ BufferSize \in Nat \ {0} /\ headIndex \in Index /\ headIndex \in 0 .. BufferSize - 1
      /\ BufferTypeOK
  BY BufferAssumption DEF BufferInv, BufferTypeOK, Index
<1> DEFINE Sent(i) == Len(ReplayUpTo[i])
<1>2. /\ Sent(0) = 0
      /\ \A i \in 1 .. BufferSize : /\ Sent(i - 1) \in Nat
                                    /\ Sent(i) = IF ReplaySlot(i).data = NoData THEN Sent(i - 1)
                                                 ELSE Sent(i - 1) + 1
  <2>1. Sent(0) = 0 BY <1>1, ReplayUnfolds
  <2>2. ASSUME NEW i \in 1 .. BufferSize
        PROVE  /\ Sent(i - 1) \in Nat
               /\ Sent(i) = IF ReplaySlot(i).data = NoData THEN Sent(i - 1) ELSE Sent(i - 1) + 1
    <3>1. i - 1 \in 0 .. BufferSize BY <1>1
    <3>2. ReplayUpTo[i - 1] \in Seq(Events) BY <1>1, <3>1, ReplayUnfolds
    <3>3. ReplaySlot(i).data # NoData => ReplaySlot(i).data \in Events
      BY <1>1, ReplaySlotType
    <3>4. ReplayUpTo[i] = IF ReplaySlot(i).data = NoData THEN ReplayUpTo[i - 1]
                          ELSE Append(ReplayUpTo[i - 1], ReplaySlot(i).data)
      BY <1>1, ReplayUnfolds
    <3> QED BY <3>2, <3>3, <3>4
  <2> QED BY <2>1, <2>2
<1>3. \A j \in Index : head[j].data = NoData <=> ~Used(j)
  BY <1>1, UsedSlot, NoDataAssumption
<1> HIDE DEF Sent
<1>4. CASE Used(headIndex)
  <2>1. \A i \in 1 .. BufferSize : ReplaySlot(i).data # NoData
    <3>1. \A j \in Index : Used(j) BY <1>1, <1>4 DEF BufferInv, RingFillsInOrder, Index
    <3>2. \A i \in 1 .. BufferSize : (headIndex + i) % BufferSize \in Index
      BY <1>1 DEF Index
    <3> QED BY <1>3, <3>1, <3>2 DEF ReplaySlot
  <2> DEFINE D == {i \in 0 .. BufferSize : Sent(i) = i}
  <2>2. 0 \in D BY <1>1, <1>2
  <2>3. ASSUME NEW i \in 0 .. BufferSize - 1, i \in D PROVE i + 1 \in D
    <3>1. i + 1 \in 1 .. BufferSize /\ (i + 1) - 1 = i BY <1>1
    <3>2. Sent(i + 1) = Sent(i) + 1 BY <1>2, <2>1, <3>1
    <3> QED BY <1>1, <2>3, <3>2
  <2>4. \A i \in 0 .. BufferSize : i \in D
    <3>1. \A i \in 0 .. BufferSize - 1 : i \in D => i + 1 \in D BY <2>3
    <3> HIDE DEF D
    <3> QED BY <1>1, <2>2, <3>1, InductionTo
  <2>5. Sent(BufferSize) = BufferSize BY <1>1, <2>4
  <2> QED BY <1>4, <2>5 DEF Sent, Replay, Count
<1>5. CASE ~Used(headIndex)
  <2>1. \A j \in Index : Used(j) <=> j < headIndex
    BY <1>1, <1>5 DEF BufferInv, RingFillsInOrder, Index
  <2>2. \A i \in 1 .. BufferSize :
          ReplaySlot(i).data = NoData <=> headIndex + i < BufferSize \/ i = BufferSize
    <3> SUFFICES ASSUME NEW i \in 1 .. BufferSize
                 PROVE  ReplaySlot(i).data = NoData
                          <=> headIndex + i < BufferSize \/ i = BufferSize
      OBVIOUS
    <3> DEFINE j == (headIndex + i) % BufferSize
    <3>1. j = IF headIndex + i < BufferSize THEN headIndex + i ELSE headIndex + i - BufferSize
      BY <1>1, SlotsVisited DEF Visited
    <3> HIDE DEF j
    <3>2. j \in Index BY <1>1, <3>1 DEF Index
    <3>3. ReplaySlot(i).data = NoData <=> ~(j < headIndex)
      BY <1>3, <2>1, <3>2 DEF ReplaySlot, j
    <3>4. ~(j < headIndex) <=> headIndex + i < BufferSize \/ i = BufferSize BY <1>1, <3>1
    <3> QED BY <3>3, <3>4
  <2> DEFINE Length(i) == IF i = BufferSize THEN headIndex
                          ELSE IF headIndex + i < BufferSize THEN 0
                          ELSE headIndex + i - BufferSize + 1
             D == {i \in 0 .. BufferSize : Sent(i) = Length(i)}
  <2>3. 0 \in D BY <1>1, <1>2
  <2>4. ASSUME NEW i \in 0 .. BufferSize - 1, i \in D PROVE i + 1 \in D
    <3>1. i + 1 \in 1 .. BufferSize /\ (i + 1) - 1 = i BY <1>1
    <3>2. Sent(i + 1) = IF headIndex + (i + 1) < BufferSize \/ i + 1 = BufferSize
                        THEN Sent(i) ELSE Sent(i) + 1
      BY <1>2, <2>2, <3>1
    <3>3. Sent(i) = Length(i) BY <2>4
    <3>4. Sent(i + 1) = Length(i + 1) BY <1>1, <3>1, <3>2, <3>3
    <3> QED BY <1>1, <3>4
  <2>5. \A i \in 0 .. BufferSize : i \in D
    <3>1. \A i \in 0 .. BufferSize - 1 : i \in D => i + 1 \in D BY <2>4
    <3> HIDE DEF D
    <3> QED BY <1>1, <2>3, <3>1, InductionTo
  <2>6. Sent(BufferSize) = headIndex BY <1>1, <2>5
  <2> QED BY <1>5, <2>6 DEF Sent, Replay, Count
<1> QED BY <1>4, <1>5

\* The replay of a well-formed ring is complete.
LEMMA RingReplayed == BufferInv => ReplayComplete
<1> SUFFICES ASSUME BufferInv PROVE ReplayComplete
  OBVIOUS
<1>1. /\ Len(Replay) = Count
      /\ {Replay[i] : i \in DOMAIN Replay} = {head[j].data : j \in Index} \ {NoData}
  BY ReplayLength, ReplayHolds DEF BufferInv
<1>2. ContentsRead BY ContentsReadHolds
<1>3. \A j \in Index : head[j].data # NoData <=> Used(j)
  BY UsedSlot, NoDataAssumption DEF BufferInv
<1>4. {Contents[p] : p \in 1 .. Count} = {head[j].data : j \in {k \in Index : Used(k)}}
  BY <1>2, AtBijective DEF ContentsRead
<1>5. DOMAIN Contents = 1 .. Count BY <1>2 DEF ContentsRead
<1>6. {head[j].data : j \in Index} \ {NoData} = {head[j].data : j \in {k \in Index : Used(k)}}
  BY <1>3
<1> QED BY <1>1, <1>4, <1>5, <1>6 DEF ReplayComplete

\* A client that joins is sent every transaction of the ring, each once.
THEOREM ReplayAlwaysComplete == BufferSpec => []ReplayComplete
BY BufferInvariant, RingReplayed, PTL

==============================================================================
