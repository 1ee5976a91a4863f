------------------------------ MODULE RecentTxs ------------------------------
(***************************************************************************)
(* What the head buffer of the broadcaster promises, with no ring and no   *)
(* index: the last Capacity transactions in order of first arrival, each   *)
(* with the newest event that did not move its job backwards.              *)
(***************************************************************************)
EXTENDS Integers, Sequences

CONSTANTS Capacity,   \* how many transactions are remembered
          Events      \* the events that may arrive, with fields txID and state

VARIABLE recent       \* the remembered events, oldest transaction first

Init == recent = << >>

\* A transaction not remembered is added; when there is no room the oldest goes.
Remember(e) ==
  /\ \A i \in DOMAIN recent : recent[i].txID # e.txID
  /\ recent' = Append(IF Len(recent) < Capacity THEN recent ELSE Tail(recent), e)

\* An event that does not move its job backwards takes its transaction's place.
Advance(e) ==
  \E i \in DOMAIN recent :
    /\ recent[i].txID = e.txID
    /\ recent[i].state <= e.state
    /\ recent' = [recent EXCEPT ![i] = e]

Arrive(e) == Remember(e) \/ Advance(e)

Next == \E e \in Events : Arrive(e)

Spec == Init /\ [][Next]_recent

==============================================================================
