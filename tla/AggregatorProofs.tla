-------------------------- MODULE AggregatorProofs --------------------------
(***************************************************************************)
(* Proofs about the daily rows of module Aggregator, for days of every     *)
(* length, any number of crashes and any number of lost acknowledgements.  *)
(***************************************************************************)
EXTENDS Aggregator, FiniteSetTheorems, SequenceTheorems, Numbers

Working == pc \in {"current", "insert", "inserted"}

\* Every row is of the past, and no younger than the attempt under way.
RowsArePast ==
  /\ \A i \in DOMAIN rows : rows[i] <= now
  /\ Working => \A i \in DOMAIN rows : rows[i] <= at

RowsOf(d) == Cardinality(OfDay(Days, d))
LostOf(d) == Cardinality(OfDay(lost, d))

\* A day after the last that Run knows of has no rows but those that were not
\* acknowledged; the row just committed is one more.
LaterDaysAreDue ==
  pc \notin {"down", "latest"} =>
    \A d \in Nat : d > MonotonicDay(lastRan) =>
      RowsOf(d) <= LostOf(d) + (IF pc = "inserted" /\ d = MonotonicDay(at) THEN 1 ELSE 0)

\* The attempt under way is for a day after the last that Run knows of.
AttemptIsDue == Working => MonotonicDay(at) > MonotonicDay(lastRan)

\* What Run does not know was not acknowledged.
LatestKnown ==
  /\ pc \in {"select", "current", "insert"} /\ lastRan # Latest =>
       OfDay(lost, MonotonicDay(Latest)) # {}
  /\ pc = "inserted" => Latest = at

AtMostOne == \A d \in Nat : RowsOf(d) <= 1 + LostOf(d)

Inv ==
  /\ TypeOK
  /\ RowsArePast /\ LaterDaysAreDue /\ AttemptIsDue /\ LatestKnown /\ AtMostOne

------------------------------------------------------------------------------
(* Sequences of days, and the latest row. *)

\* The places of a day are counted by a natural number.
LEMMA PlacesCounted ==
  ASSUME NEW S, NEW s \in Seq(S), NEW d
  PROVE  IsFiniteSet(OfDay(s, d)) /\ Cardinality(OfDay(s, d)) \in Nat
<1>1. OfDay(s, d) \in SUBSET (1 .. Len(s)) BY DEF OfDay
<1>2. IsFiniteSet(1 .. Len(s)) BY FS_Interval
<1> QED BY <1>1, <1>2, FS_Subset, FS_CardinalityType

\* A sequence that grows by x has one more place of day x.
LEMMA PlaceAdded ==
  ASSUME NEW S, NEW s \in Seq(S), NEW t, NEW x, NEW d,
         DOMAIN t = 1 .. Len(s) + 1, \A i \in 1 .. Len(s) : t[i] = s[i], t[Len(s) + 1] = x
  PROVE  Cardinality(OfDay(t, d)) = Cardinality(OfDay(s, d)) + (IF x = d THEN 1 ELSE 0)
<1>1. IsFiniteSet(OfDay(s, d)) /\ Cardinality(OfDay(s, d)) \in Nat BY PlacesCounted
<1>2. DOMAIN s = 1 .. Len(s) /\ Len(s) \in Nat OBVIOUS
<1>3. CASE x = d
  <2>1. OfDay(t, d) = OfDay(s, d) \cup {Len(s) + 1} BY <1>2, <1>3 DEF OfDay
  <2>2. Len(s) + 1 \notin OfDay(s, d) BY <1>2 DEF OfDay
  <2> QED BY <1>1, <1>3, <2>1, <2>2, FS_AddElement
<1>4. CASE x # d
  <2>1. OfDay(t, d) = OfDay(s, d) BY <1>2, <1>4 DEF OfDay
  <2> QED BY <1>1, <1>4, <2>1
<1> QED BY <1>3, <1>4

\* Every row has a day, and rows and lost acknowledgements are counted.
LEMMA DaysTyped ==
  ASSUME TypeOK
  PROVE  /\ Days \in Seq(Int) /\ Len(Days) = Len(rows) /\ DOMAIN rows = 1 .. Len(rows)
         /\ \A i \in DOMAIN rows : rows[i] \in Nat /\ Days[i] = MonotonicDay(rows[i])
         /\ \A d : RowsOf(d) \in Nat /\ LostOf(d) \in Nat
<1>1. rows \in Seq(Time) /\ lost \in Seq(Nat) BY DEF TypeOK
<1>2. \A i \in DOMAIN rows : rows[i] \in Nat BY <1>1, AggregatorAssumption DEF Time
<1>3. \A i \in DOMAIN rows : MonotonicDay(rows[i]) \in Int
  BY <1>2, AggregatorAssumption, DivisionBounds DEF MonotonicDay
<1>4. Len(rows) \in Nat /\ DOMAIN rows = 1 .. Len(rows) BY <1>1
<1>5. Days \in Seq(Int) /\ Len(Days) = Len(rows) BY <1>3, <1>4 DEF Days
<1>6. \A d : RowsOf(d) \in Nat /\ LostOf(d) \in Nat
  BY <1>1, <1>5, PlacesCounted DEF RowsOf, LostOf
<1> QED BY <1>2, <1>4, <1>5, <1>6 DEF Days

\* Latest is the newest row, or the zero time when there is none.
Newest ==
  /\ Latest \in ToSet(rows) \cup {ZeroTime}
  /\ Latest \in Int
  /\ \A i \in DOMAIN rows : rows[i] <= Latest
  /\ ZeroTime <= Latest

\* What a restart reads is the newest row.
LEMMA LatestIsNewest == TypeOK /\ RowsArePast => Newest
<1> SUFFICES ASSUME TypeOK, RowsArePast PROVE Newest OBVIOUS
<1> DEFINE S == ToSet(rows) \cup {ZeroTime}
<1>1. ToSet(rows) = {rows[i] : i \in DOMAIN rows} BY DEF ToSet
<1>2. \A i \in DOMAIN rows : rows[i] \in Nat BY DaysTyped
<1>3. now \in Nat BY AggregatorAssumption DEF TypeOK, Time
<1>4. S \in SUBSET Int /\ S # {} BY <1>1, <1>2 DEF ZeroTime
<1>5. now \in Int /\ \A x \in S : x <= now BY <1>1, <1>3 DEF RowsArePast, ZeroTime
<1>6. ZeroTime \in S /\ \A i \in DOMAIN rows : rows[i] \in S BY <1>1
<1>7. Latest = Max(S) BY DEF Latest
<1> HIDE DEF S
<1>8. Max(S) \in S /\ \A y \in S : y <= Max(S) BY <1>4, <1>5, MaxIsGreatest
<1> QED BY <1>4, <1>6, <1>7, <1>8 DEF Newest, S

\* Days do not go back.
LEMMA DaysMonotonic ==
  ASSUME NEW t \in Int, NEW u \in Int, t <= u
  PROVE  /\ MonotonicDay(t) \in Int /\ MonotonicDay(u) \in Int
         /\ MonotonicDay(t) <= MonotonicDay(u)
         /\ t \in Nat => MonotonicDay(t) \in Nat
BY AggregatorAssumption, DivisionBounds, DivisionMonotonic DEF MonotonicDay

------------------------------------------------------------------------------

\* The invariant holds initially.
LEMMA InitEstablishesInv == Init => Inv
<1> SUFFICES ASSUME Init PROVE Inv OBVIOUS
<1>1. MaxTime \in Nat BY AggregatorAssumption
<1>2. rows = << >> /\ lost = << >> /\ pc = "down" BY DEF Init
<1>3. TypeOK
  <2>1. now = 0 /\ at = 0 /\ lastRan = ZeroTime /\ dbUp = TRUE /\ ticked = FALSE BY DEF Init
  <2>2. now \in Time /\ at \in 0 .. now BY <1>1, <2>1 DEF Time
  <2>3. rows \in Seq(Time) /\ lost \in Seq(Nat) BY <1>2
  <2> QED BY <1>2, <2>1, <2>2, <2>3 DEF TypeOK
<1>4. DOMAIN rows = {} /\ DOMAIN lost = {} BY <1>2
<1>5. \A d : OfDay(Days, d) = {} /\ OfDay(lost, d) = {} BY <1>4 DEF OfDay, Days
<1>6. AtMostOne BY <1>5, FS_EmptySet DEF AtMostOne, RowsOf, LostOf
<1> QED BY <1>2, <1>3, <1>4, <1>6
     DEF Inv, RowsArePast, LaterDaysAreDue, AttemptIsDue, LatestKnown, Working

\* The numbers behind the invariant.
LEMMA TypedNumbers ==
  ASSUME TypeOK
  PROVE  /\ now \in Nat /\ at \in Nat /\ at <= now /\ lastRan \in Int
         /\ MonotonicDay(at) \in Nat /\ MonotonicDay(lastRan) \in Int
<1>1. now \in Nat /\ at \in 0 .. now BY AggregatorAssumption DEF TypeOK, Time
<1>2. \A i \in DOMAIN rows : rows[i] \in Nat BY DaysTyped
<1>3. lastRan \in Int BY <1>2 DEF TypeOK, ToSet, ZeroTime
<1> QED BY <1>1, <1>3, DaysMonotonic

\* Steps that touch neither the table nor what was lost keep the counts.
LEMMA CountsKept ==
  ASSUME UNCHANGED <<rows, lost>>
  PROVE  /\ Latest' = Latest
         /\ \A d : RowsOf(d)' = RowsOf(d) /\ LostOf(d)' = LostOf(d)
         /\ \A d : OfDay(lost, d)' = OfDay(lost, d)
         /\ AtMostOne => AtMostOne'
BY DEF Latest, RowsOf, LostOf, OfDay, Days, MonotonicDay, AtMostOne

\* The clock, the database, the ticker, and the end and start of the process.
LEMMA OutsideKeepsInv ==
  ASSUME Inv, Pass \/ Database \/ Start \/ Crash \/ Tick \/ LatestFails
  PROVE  Inv'
<1>1. TypeOK /\ now \in Nat /\ at \in Nat BY TypedNumbers DEF Inv
<1>2. UNCHANGED <<rows, lost>> BY DEF Pass, Database, Start, Crash, Tick, LatestFails
<1>3. \A i \in DOMAIN rows : rows[i] \in Nat BY <1>1, DaysTyped
<1>4. CASE Pass
  <2>1. now' = now + 1 /\ now' \in Time
    BY <1>1, <1>4, AggregatorAssumption DEF Pass, Time
  <2>2. TypeOK' BY <1>1, <1>4, <2>1 DEF Pass, TypeOK
  <2>3. RowsArePast' BY <1>1, <1>2, <1>3, <1>4, <2>1 DEF Inv, Pass, RowsArePast, Working
  <2> QED BY <1>2, <1>4, <2>2, <2>3, CountsKept
       DEF Inv, Pass, LaterDaysAreDue, AttemptIsDue, LatestKnown, Working, MonotonicDay
<1>5. CASE Database \/ Tick
  <2>1. UNCHANGED <<now, pc, lastRan, at>> BY <1>5 DEF Database, Tick
  <2>2. TypeOK' BY <1>1, <1>2, <1>5, <2>1 DEF Database, Tick, TypeOK
  <2> QED BY <1>2, <2>1, <2>2, CountsKept
       DEF Inv, RowsArePast, LaterDaysAreDue, AttemptIsDue, LatestKnown, Working, MonotonicDay
<1>6. CASE Start \/ Crash \/ LatestFails
  <2>1. /\ pc' \in {"down", "latest"} /\ now' = now /\ at' \in 0 .. now
        /\ lastRan' \in {lastRan, ZeroTime}
    BY <1>1, <1>6 DEF Start, Crash, LatestFails, TypeOK
  <2>2. TypeOK' BY <1>1, <1>2, <1>6, <2>1 DEF Start, Crash, LatestFails, TypeOK
  <2> QED BY <1>2, <2>1, <2>2, CountsKept
       DEF Inv, RowsArePast, LaterDaysAreDue, AttemptIsDue, LatestKnown, Working
<1> QED BY <1>4, <1>5, <1>6

\* What Run does before it adds a row, and when it failed to.
LEMMA AttemptsKeepInv ==
  ASSUME Inv, LatestDailyStats \/ Wake \/ CurrentStats \/ Failed
  PROVE  Inv'
<1>1. TypeOK /\ RowsArePast BY DEF Inv
<1>2. UNCHANGED <<now, rows, lost>> BY DEF LatestDailyStats, Wake, CurrentStats, Failed
<1>3. CASE LatestDailyStats
  <2>1. pc' = "select" /\ lastRan' = Latest /\ at' = at /\ ticked' = ticked /\ dbUp' = dbUp
    BY <1>3 DEF LatestDailyStats
  <2>2. /\ Latest \in ToSet(rows) \cup {ZeroTime} /\ Latest \in Int
        /\ \A i \in DOMAIN rows : rows[i] <= Latest
    BY <1>1, LatestIsNewest DEF Newest
  <2>3. TypeOK' BY <1>1, <1>2, <2>1, <2>2 DEF TypeOK
  <2>4. LaterDaysAreDue'
    <3>1. ASSUME NEW d \in Nat, d > MonotonicDay(Latest) PROVE RowsOf(d) <= LostOf(d)
      <4>1. ASSUME NEW i \in OfDay(Days, d) PROVE FALSE
        <5>1. i \in DOMAIN rows /\ Days[i] = d BY <4>1 DEF OfDay, Days
        <5>2. Days[i] = MonotonicDay(rows[i]) /\ rows[i] \in Int BY <1>1, <5>1, DaysTyped
        <5>3. MonotonicDay(rows[i]) <= MonotonicDay(Latest) /\ MonotonicDay(rows[i]) \in Int
              /\ MonotonicDay(Latest) \in Int
          BY <2>2, <5>1, <5>2, DaysMonotonic
        <5> QED BY <3>1, <5>1, <5>2, <5>3
      <4>2. RowsOf(d) = 0
        <5>1. OfDay(Days, d) = {} BY <4>1
        <5> QED BY <5>1, FS_EmptySet DEF RowsOf
      <4> QED BY <1>1, <4>2, DaysTyped
    <3>2. \A d \in Nat : d > MonotonicDay(Latest) => RowsOf(d)' <= LostOf(d)'
      BY <1>2, <3>1, CountsKept
    <3>3. \A d \in Nat : LostOf(d) \in Nat BY <1>1, DaysTyped
    <3>4. \A d \in Nat : LostOf(d)' + 0 = LostOf(d)' BY <1>2, <3>3, CountsKept
    <3> QED BY <2>1, <3>2, <3>4 DEF LaterDaysAreDue, MonotonicDay
  <2> QED BY <1>2, <2>1, <2>3, <2>4, CountsKept
       DEF Inv, RowsArePast, AttemptIsDue, LatestKnown, Working
<1>4. CASE Wake
  <2>1. /\ pc = "select" /\ at' = now /\ lastRan' = lastRan /\ ticked' = FALSE /\ dbUp' = dbUp
        /\ pc' \in {"select", "current"}
        /\ pc' = "current" => MonotonicDay(now) > MonotonicDay(lastRan)
    BY <1>4 DEF Wake, Due
  <2>2. at' \in 0 .. now'
    <3>1. now \in Nat BY <1>1, TypedNumbers
    <3> QED BY <1>2, <2>1, <3>1
  <2>3. TypeOK' BY <1>1, <1>2, <2>1, <2>2 DEF TypeOK
  <2>4. RowsArePast' BY <1>1, <1>2, <2>1 DEF RowsArePast
  <2>5. LaterDaysAreDue' BY <1>2, <2>1, CountsKept DEF Inv, LaterDaysAreDue, MonotonicDay
  <2>6. AttemptIsDue' BY <2>1 DEF AttemptIsDue, Working, MonotonicDay
  <2>7. LatestKnown' BY <1>2, <2>1, CountsKept DEF Inv, LatestKnown, MonotonicDay
  <2> QED BY <1>2, <2>3, <2>4, <2>5, <2>6, <2>7, CountsKept DEF Inv
<1>5. CASE CurrentStats \/ Failed
  <2>1. /\ pc \in {"current", "insert"} /\ pc' \in {"insert", "select"}
        /\ UNCHANGED <<at, lastRan, ticked, dbUp>>
    BY <1>5 DEF CurrentStats, Failed, AfterFailure
  <2>2. TypeOK' BY <1>1, <1>2, <2>1 DEF TypeOK
  <2> QED BY <1>2, <2>1, <2>2, CountsKept
       DEF Inv, RowsArePast, LaterDaysAreDue, AttemptIsDue, LatestKnown, Working, MonotonicDay
<1> QED BY <1>3, <1>4, <1>5

\* The row: the day of the attempt had none that was acknowledged.
LEMMA InsertKeepsInv ==
  ASSUME Inv, Insert
  PROVE  Inv'
<1>1. TypeOK /\ RowsArePast /\ LaterDaysAreDue /\ AttemptIsDue BY DEF Inv
<1>2. /\ pc = "insert" /\ pc' = "inserted" /\ rows' = Append(rows, at)
      /\ UNCHANGED <<now, dbUp, ticked, lastRan, at, lost>>
  BY DEF Insert
<1>3. /\ now \in Nat /\ at \in Nat /\ at <= now /\ lastRan \in Int /\ MonotonicDay(at) \in Nat
      /\ MonotonicDay(lastRan) \in Int
  BY <1>1, TypedNumbers
<1>4. /\ DOMAIN rows = 1 .. Len(rows) /\ Len(rows) \in Nat /\ rows \in Seq(Time)
      /\ \A i \in DOMAIN rows : rows[i] \in Nat
  BY <1>1, DaysTyped DEF TypeOK
<1>5. /\ DOMAIN rows' = 1 .. Len(rows) + 1
      /\ \A i \in 1 .. Len(rows) : rows'[i] = rows[i]
      /\ rows'[Len(rows) + 1] = at
  BY <1>2, <1>4
<1>6. ToSet(rows)' = ToSet(rows) \cup {at}
  BY <1>4, <1>5 DEF ToSet
<1>7. TypeOK'
  <2>1. at \in Time
    <3>1. now <= MaxTime /\ MaxTime \in Nat BY <1>1, AggregatorAssumption DEF TypeOK, Time
    <3> QED BY <1>3, <3>1 DEF Time
  <2>2. rows' \in Seq(Time) BY <1>2, <1>4, <2>1
  <2> QED BY <1>1, <1>2, <1>6, <2>2 DEF TypeOK
<1>8. RowsArePast'
  <2>1. \A i \in DOMAIN rows : rows[i] <= at BY <1>1, <1>2 DEF RowsArePast, Working
  <2> QED BY <1>2, <1>3, <1>4, <1>5, <2>1 DEF RowsArePast
<1>9. \A d : RowsOf(d)' = RowsOf(d) + (IF d = MonotonicDay(at) THEN 1 ELSE 0)
  <2>1. Days \in Seq(Int) /\ Len(Days) = Len(rows) BY <1>1, DaysTyped
  <2>2. DOMAIN Days' = 1 .. Len(Days) + 1 BY <1>5, <2>1 DEF Days
  <2>3. \A i \in 1 .. Len(Days) : Days'[i] = Days[i]
    BY <1>4, <1>5, <2>1 DEF Days, MonotonicDay
  <2>4. Days'[Len(Days) + 1] = MonotonicDay(at)
    BY <1>2, <1>4, <1>5, <2>1 DEF Days, MonotonicDay
  <2> HIDE DEF Days
  <2>5. ASSUME NEW d
        PROVE  Cardinality(OfDay(Days', d)) =
                 Cardinality(OfDay(Days, d)) + (IF MonotonicDay(at) = d THEN 1 ELSE 0)
    BY <2>1, <2>2, <2>3, <2>4, PlaceAdded
  <2> QED BY <2>5 DEF RowsOf, OfDay
<1>10. \A d : LostOf(d)' = LostOf(d) BY <1>2 DEF LostOf, OfDay
<1>11. \A d : RowsOf(d) \in Nat /\ LostOf(d) \in Nat BY <1>1, DaysTyped
<1>12. MonotonicDay(at) > MonotonicDay(lastRan) BY <1>1, <1>2 DEF AttemptIsDue, Working
<1>13. \A d \in Nat : d > MonotonicDay(lastRan) => RowsOf(d) <= LostOf(d)
  BY <1>1, <1>2, <1>11 DEF LaterDaysAreDue
<1>14. LaterDaysAreDue'
  <2>1. MonotonicDay(lastRan)' = MonotonicDay(lastRan) /\ MonotonicDay(at)' = MonotonicDay(at)
    BY <1>2 DEF MonotonicDay
  <2>2. ASSUME NEW d \in Nat, d > MonotonicDay(lastRan)
        PROVE  RowsOf(d)' <= LostOf(d)' + (IF d = MonotonicDay(at) THEN 1 ELSE 0)
    BY <1>9, <1>10, <1>11, <1>13, <2>2
  <2> QED BY <1>2, <2>1, <2>2 DEF LaterDaysAreDue
<1>15. AtMostOne'
  <2>1. ASSUME NEW d \in Nat PROVE RowsOf(d)' <= 1 + LostOf(d)'
    <3>1. RowsOf(d) <= 1 + LostOf(d) BY DEF Inv, AtMostOne
    <3>2. CASE d = MonotonicDay(at) BY <1>9, <1>10, <1>11, <1>12, <1>13, <3>2
    <3>3. CASE d # MonotonicDay(at) BY <1>9, <1>10, <1>11, <3>1, <3>3
    <3> QED BY <3>2, <3>3
  <2> QED BY <2>1 DEF AtMostOne
<1>16. AttemptIsDue' BY <1>1, <1>2 DEF AttemptIsDue, Working, MonotonicDay
<1>17. LatestKnown'
  <2>1. Newest'
    <3>1. TypeOK' /\ RowsArePast' BY <1>7, <1>8
    <3> QED BY <3>1, LatestIsNewest, PTL
  <2>2. Latest' \in Int /\ at <= Latest'
    <3>1. Len(rows) + 1 \in DOMAIN rows' BY <1>4, <1>5
    <3> QED BY <1>5, <2>1, <3>1 DEF Newest
  <2>3. Latest' <= at
    <3>1. \A x \in ToSet(rows)' \cup {ZeroTime} : x <= at
      BY <1>1, <1>2, <1>3, <1>4, <1>6 DEF ToSet, RowsArePast, Working, ZeroTime
    <3>2. Latest' \in ToSet(rows)' \cup {ZeroTime} BY <2>1 DEF Newest, ZeroTime
    <3> QED BY <3>1, <3>2
  <2>4. Latest' = at BY <1>3, <2>2, <2>3
  <2> QED BY <1>2, <2>4 DEF LatestKnown
<1> QED BY <1>7, <1>8, <1>14, <1>15, <1>16, <1>17 DEF Inv

\* The answer, and the answer that is lost.
LEMMA AnswersKeepInv ==
  ASSUME Inv, Acknowledged \/ AcknowledgementLost
  PROVE  Inv'
<1>1. TypeOK /\ RowsArePast /\ LaterDaysAreDue /\ AttemptIsDue BY DEF Inv
<1>2. /\ pc = "inserted" /\ pc' = "select" /\ UNCHANGED <<now, dbUp, rows, ticked, at>>
  BY DEF Acknowledged, AcknowledgementLost
<1>3. Latest = at /\ Latest' = Latest BY <1>2 DEF Inv, LatestKnown, Latest
<1>4. /\ now \in Nat /\ at \in Nat /\ lastRan \in Int /\ MonotonicDay(at) \in Nat
      /\ MonotonicDay(lastRan) \in Int
  BY <1>1, TypedNumbers
<1>5. at \in ToSet(rows) BY <1>1, <1>3, <1>4, LatestIsNewest DEF Newest, ZeroTime
<1>6. RowsArePast' BY <1>1, <1>2 DEF RowsArePast, Working
<1>7. AttemptIsDue' BY <1>2 DEF AttemptIsDue, Working
<1>8. MonotonicDay(at) > MonotonicDay(lastRan) BY <1>1, <1>2 DEF AttemptIsDue, Working
<1>9. \A d : RowsOf(d) \in Nat /\ LostOf(d) \in Nat BY <1>1, DaysTyped
<1>10. \A d : RowsOf(d)' = RowsOf(d) BY <1>2 DEF RowsOf, OfDay, Days, MonotonicDay
<1>11. \A d \in Nat : d > MonotonicDay(lastRan) =>
         RowsOf(d) <= LostOf(d) + (IF d = MonotonicDay(at) THEN 1 ELSE 0)
  BY <1>1, <1>2 DEF LaterDaysAreDue
<1>12. CASE Acknowledged
  <2>1. lastRan' = at /\ lost' = lost BY <1>12 DEF Acknowledged, RanAt
  <2>2. TypeOK' BY <1>1, <1>2, <1>5, <2>1 DEF TypeOK
  <2>3. \A d : LostOf(d)' = LostOf(d) BY <2>1 DEF LostOf, OfDay
  <2>4. MonotonicDay(lastRan)' = MonotonicDay(at) BY <2>1 DEF MonotonicDay
  <2>5. ASSUME NEW d \in Nat, d > MonotonicDay(at) PROVE RowsOf(d)' <= LostOf(d)' + 0
    BY <1>4, <1>8, <1>9, <1>10, <1>11, <2>3, <2>5
  <2>6. LaterDaysAreDue' BY <1>2, <2>4, <2>5 DEF LaterDaysAreDue
  <2>7. LatestKnown' BY <1>2, <1>3, <2>1 DEF LatestKnown
  <2>8. AtMostOne' BY <1>2, <2>1, CountsKept DEF Inv
  <2> QED BY <1>6, <1>7, <2>2, <2>6, <2>7, <2>8 DEF Inv
<1>13. CASE AcknowledgementLost
  <2>1. lastRan' = lastRan /\ lost' = Append(lost, MonotonicDay(at))
    BY <1>13 DEF AcknowledgementLost, AfterFailure
  <2>2. lost \in Seq(Nat) /\ Len(lost) \in Nat BY <1>1 DEF TypeOK
  <2>3. lost' \in Seq(Nat) BY <1>4, <2>1, <2>2
  <2>4. TypeOK' BY <1>1, <1>2, <2>1, <2>3 DEF TypeOK
  <2>5. \A d : LostOf(d)' = LostOf(d) + (IF MonotonicDay(at) = d THEN 1 ELSE 0)
    <3>1. /\ DOMAIN lost' = 1 .. Len(lost) + 1
          /\ \A i \in 1 .. Len(lost) : lost'[i] = lost[i]
          /\ lost'[Len(lost) + 1] = MonotonicDay(at)
      BY <2>1, <2>2
    <3>2. ASSUME NEW d
          PROVE  Cardinality(OfDay(lost', d)) =
                   Cardinality(OfDay(lost, d)) + (IF MonotonicDay(at) = d THEN 1 ELSE 0)
      BY <2>2, <3>1, PlaceAdded
    <3> QED BY <3>2 DEF LostOf, OfDay
  <2>6. LaterDaysAreDue'
    <3>1. MonotonicDay(lastRan)' = MonotonicDay(lastRan) BY <2>1 DEF MonotonicDay
    <3>2. ASSUME NEW d \in Nat, d > MonotonicDay(lastRan) PROVE RowsOf(d)' <= LostOf(d)' + 0
      BY <1>9, <1>10, <1>11, <2>5, <3>2
    <3> QED BY <1>2, <3>1, <3>2 DEF LaterDaysAreDue
  <2>7. LatestKnown'
    <3>1. Len(lost) + 1 \in OfDay(lost', MonotonicDay(at)) BY <2>1, <2>2 DEF OfDay
    <3>2. MonotonicDay(Latest)' = MonotonicDay(at) BY <1>3 DEF MonotonicDay
    <3> QED BY <1>2, <3>1, <3>2 DEF LatestKnown, OfDay
  <2>8. AtMostOne'
    <3>1. ASSUME NEW d \in Nat PROVE RowsOf(d)' <= 1 + LostOf(d)'
      <4>1. RowsOf(d) <= 1 + LostOf(d) BY DEF Inv, AtMostOne
      <4> QED BY <1>9, <1>10, <2>5, <4>1
    <3> QED BY <3>1 DEF AtMostOne
  <2> QED BY <1>6, <1>7, <2>4, <2>6, <2>7, <2>8 DEF Inv
<1> QED BY <1>12, <1>13

\* Every step keeps the invariant.
LEMMA NextKeepsInv == Inv /\ [Next]_vars => Inv'
<1> SUFFICES ASSUME Inv, [Next]_vars PROVE Inv' OBVIOUS
<1>1. CASE Next
  BY <1>1, OutsideKeepsInv, AttemptsKeepInv, InsertKeepsInv, AnswersKeepInv DEF Next, Run
<1>2. CASE UNCHANGED vars
  <2>1. UNCHANGED <<rows, lost>> BY <1>2 DEF vars
  <2> QED BY <1>2, <2>1, CountsKept
       DEF vars, Inv, TypeOK, RowsArePast, LaterDaysAreDue, AttemptIsDue, LatestKnown, Working,
           MonotonicDay
<1> QED BY <1>1, <1>2

\* The invariant of all that follows.
THEOREM Invariance == Spec => []Inv
BY InitEstablishesInv, NextKeepsInv, PTL DEF Spec

\* The types are kept; Run never believes in a row that is not in the table.
THEOREM TypeCorrect == Spec => []TypeOK
<1>1. Inv => TypeOK BY DEF Inv
<1> QED BY <1>1, Invariance, PTL

\* A day has one row and one more for each acknowledgement that was lost.
THEOREM OneRowPerDay == Spec => []OnePerDay
<1>1. Inv => OnePerDay
  <2>1. MonotonicDay(MaxTime) \in Int BY AggregatorAssumption, DaysMonotonic
  <2>2. 0 .. MonotonicDay(MaxTime) \subseteq Nat BY <2>1
  <2> QED BY <2>2 DEF Inv, AtMostOne, RowsOf, LostOf, OnePerDay
<1> QED BY <1>1, Invariance, PTL

\* A restart between two ticks changes nothing.
THEOREM RestartNeverChanges == Spec => []RestartChangesNothing
<1>1. Inv => RestartChangesNothing BY DEF Inv, LatestKnown, RestartChangesNothing
<1> QED BY <1>1, Invariance, PTL

==============================================================================
