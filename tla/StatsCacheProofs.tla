-------------------------- MODULE StatsCacheProofs --------------------------
(***************************************************************************)
(* Proofs about the statistics that module StatsCache serves, for every    *)
(* set of ranges, however many days pass and rows are added within a       *)
(* refresh that its assumption allows.                                     *)
(***************************************************************************)
EXTENDS StatsCache, Numbers

Refreshing == pc \in {"current", "old"}

\* A day has one row, and none is of a day to come.
RowsDated ==
  /\ \A row \in rows : row.at <= now
  /\ \A row, other \in rows : row.at = other.at => row = other

\* While refresh runs its map has the ranges before the one it is at.
LocalsFollow ==
  /\ Refreshing  => DOMAIN partial = {r \in Ranges : r < range}
  /\ ~Refreshing => DOMAIN partial = {} /\ range = Min(Ranges)

\* What the map has of a range was in its window when it was queried, at most
\* lag days ago.
PartialIsRecent ==
  \A r \in DOMAIN partial :
    /\ partial[r].round = round
    /\ partial[r].base # NoRow => partial[r].base \in rows /\ partial[r].base.at > now - lag - r

\* Within a map the percentages are those of the counts and the rows, and a
\* longer range has a row at least as old.
Comparable(m) ==
  /\ \A r \in DOMAIN m : m[r].growth = Growth(m[r].count, m[r].base)
  /\ \A r, q \in DOMAIN m :
       /\ m[r].round = m[q].round
       /\ r < q /\ m[r].base # NoRow => m[q].base # NoRow /\ m[q].base.at <= m[r].base.at

\* The row about to be inserted is younger than every other.
TakenIsYoungest ==
  taken # NoRow => taken.at <= now /\ \A row \in rows : row.at < taken.at

\* As long as no counter fell, later rows have more, the counter has most.
RowsGrow ==
  /\ \A row \in rows : row.count <= count
  /\ taken # NoRow => taken.count <= count /\ \A row \in rows : row.count <= taken.count
  /\ \A row, other \in rows : row.at <= other.at => row.count <= other.count

\* Within a map a longer range was queried later, its row is older, and the
\* row of the shorter one was there when its counter was read.
MapGrows(m) ==
  \A r, q \in DOMAIN m : r < q /\ m[r].base # NoRow =>
    /\ m[r].count <= m[q].count
    /\ m[q].base.count <= m[r].base.count /\ m[r].base.count <= m[q].count

PartialGrows ==
  /\ fetched <= count
  /\ \A r \in DOMAIN partial :
       /\ partial[r].count <= count /\ (pc = "old" => partial[r].count <= fetched)
       /\ partial[r].base # NoRow =>
            partial[r].base.count <= count /\ (pc = "old" => partial[r].base.count <= fetched)
  /\ MapGrows(partial)

Inv ==
  /\ TypeOK
  /\ RowsDated /\ TakenIsYoungest /\ LocalsFollow /\ PartialIsRecent /\ Comparable(partial)
  /\ stats # NoStats => Comparable(stats)
  /\ ~fell => RowsGrow /\ PartialGrows /\ (stats # NoStats => MapGrows(stats))

------------------------------------------------------------------------------

\* The ranges are there and have a shortest one; so have those that are left.
LEMMA ShortestRange ==
  /\ Ranges \subseteq Nat \ {0}
  /\ Min(Ranges) \in Ranges /\ \A r \in Ranges : Min(Ranges) <= r
  /\ Later # {} => Min(Later) \in Later /\ \A r \in Later : Min(Later) <= r
<1>1. Ranges \in SUBSET Nat /\ Ranges # {} /\ Ranges \subseteq Nat \ {0}
  BY StatsCacheAssumption
<1>2. Later \in SUBSET Nat BY <1>1 DEF Later
<1> QED BY <1>1, <1>2, MinIsLeast

\* The query for the oldest row returns the oldest row.
LEMMA OldestIsOldest ==
  ASSUME NEW R \in SUBSET Row, R # {}
  PROVE  Oldest(R) \in R /\ \A row \in R : Oldest(R).at <= row.at
<1> DEFINE T == {row.at : row \in R}
<1>1. \A row \in R : row.at \in Nat BY StatsCacheAssumption DEF Row, Days
<1>2. T \in SUBSET Nat /\ T # {} BY <1>1
<1>3. PICK t \in T : \A u \in T : t <= u BY <1>2, LeastExists
<1>4. PICK row \in R : t = row.at BY <1>3
<1>5. \A other \in R : row.at <= other.at BY <1>3, <1>4
<1> QED BY <1>5 DEF Oldest

\* What is computed for a range has the type of what is served.
LEMMA GrowthTypes ==
  ASSUME NEW new \in Counts, NEW row \in Row \cup {NoRow}
  PROVE  Growth(new, row) \in Nat \cup {NaN, Inf}
<1>1. CASE row = NoRow BY <1>1 DEF Growth
<1>2. CASE row # NoRow /\ row.count # 0
  <2> DEFINE d == Difference(new, row.count)
  <2>1. row.count \in Nat \ {0} /\ new \in Nat
    BY <1>2, StatsCacheAssumption DEF Row, Counts
  <2>2. Modulus \in Nat \ {0} BY StatsCacheAssumption
  <2>3. d \in Nat BY <2>1, <2>2 DEF Difference
  <2> HIDE DEF d
  <2>4. (100 * d) \div row.count \in Nat BY <2>1, <2>3, DivisionBounds
  <2> QED BY <1>2, <2>4 DEF Growth, d
<1>3. CASE row # NoRow /\ row.count = 0 BY <1>3 DEF Growth
<1> QED BY <1>1, <1>2, <1>3

\* The two queries for a range: the entry of its map, and the row it is
\* compared with, which no other row of the window is older than.
LEMMA EntryOfRange ==
  ASSUME TypeOK
  PROVE  LET entry == CombinedStats(range) IN
         /\ entry \in Combined
         /\ entry.count = fetched /\ entry.round = round
         /\ entry.growth = Growth(entry.count, entry.base)
         /\ entry.base # NoRow => entry.base \in rows /\ entry.base.at > now - range
         /\ \A row \in rows : row.at > now - range =>
              entry.base # NoRow /\ entry.base.at <= row.at
<1> DEFINE within == {row \in rows : row.at > now - range}
<1>1. within \in SUBSET Row BY DEF TypeOK
<1>2. within # {} => Oldest(within) \in within /\ \A row \in within : Oldest(within).at <= row.at
  BY <1>1, OldestIsOldest
<1>3. within # {} => Oldest(within) # NoRow BY <1>1, <1>2, SentinelAssumption
<1> DEFINE base == OldStats(range)
<1>4. base = IF within = {} THEN NoRow ELSE Oldest(within) BY DEF OldStats
<1> HIDE DEF within, base
<1>5. base \in Row \cup {NoRow} BY <1>1, <1>2, <1>4
<1>6. Growth(fetched, base) \in Nat \cup {NaN, Inf} BY <1>5, GrowthTypes DEF TypeOK
<1>7. CombinedStats(range) = [count |-> fetched, growth |-> Growth(fetched, base),
                              base |-> base, round |-> round]
  BY DEF CombinedStats, base
<1>8. CombinedStats(range) \in Combined BY <1>5, <1>6, <1>7 DEF Combined, TypeOK
<1>9. base # NoRow => base \in rows /\ base.at > now - range BY <1>2, <1>4 DEF within
<1>10. \A row \in rows : row.at > now - range => base # NoRow /\ base.at <= row.at
  BY <1>2, <1>3, <1>4 DEF within
<1> QED BY <1>7, <1>8, <1>9, <1>10

\* The map with the entry of the range that was queried.
LEMMA QueriedFollows ==
  ASSUME Inv, pc = "old"
  PROVE  /\ DOMAIN Queried = {r \in Ranges : r <= range}
         /\ Queried \in [DOMAIN Queried -> Combined]
         /\ \A r \in DOMAIN Queried :
              /\ Queried[r].round = round
              /\ Queried[r].base # NoRow =>
                   Queried[r].base \in rows /\ Queried[r].base.at > now - lag - r
<1>1. TypeOK /\ range \in Ranges BY DEF Inv, TypeOK
<1>2. DOMAIN partial = {r \in Ranges : r < range} BY DEF Inv, LocalsFollow, Refreshing
<1>3. Ranges \subseteq Nat BY ShortestRange
<1>4. DOMAIN Queried = {r \in Ranges : r <= range}
  <2>1. DOMAIN Queried = DOMAIN partial \cup {range} BY DEF Queried
  <2>2. \A r \in Ranges : r <= range <=> r < range \/ r = range BY <1>1, <1>3
  <2> QED BY <1>1, <1>2, <2>1, <2>2
<1>5. \A r \in DOMAIN Queried :
        Queried[r] = IF r = range THEN CombinedStats(range) ELSE partial[r]
  BY DEF Queried
<1>6. \A r \in DOMAIN Queried : r # range => r \in DOMAIN partial BY DEF Queried
<1>7. lag \in Nat /\ now \in Nat BY <1>1, StatsCacheAssumption DEF TypeOK, Days
<1> DEFINE entry == CombinedStats(range)
<1>8. /\ entry \in Combined /\ entry.round = round
      /\ entry.base # NoRow => entry.base \in rows /\ entry.base.at > now - range
  BY <1>1, EntryOfRange
<1> HIDE DEF entry
<1>9. \A row \in rows : row.at \in Nat BY <1>1, StatsCacheAssumption DEF TypeOK, Row, Days
<1>10. entry.base # NoRow => entry.base.at > now - lag - range
  <2>1. entry.base # NoRow => entry.base.at \in Nat BY <1>8, <1>9
  <2>2. range \in Nat BY <1>1, <1>3
  <2> QED BY <1>7, <1>8, <2>1, <2>2
<1>11. Queried \in [DOMAIN Queried -> Combined]
  BY <1>1, <1>5, <1>6, <1>8 DEF Queried, TypeOK, entry
<1> QED BY <1>4, <1>5, <1>6, <1>8, <1>10, <1>11 DEF Inv, PartialIsRecent, entry

\* A longer range finds the row of each shorter one in its window, because no
\* more days begin within a refresh than lie between the two.
LEMMA QueriedComparable ==
  ASSUME Inv, pc = "old"
  PROVE  Comparable(Queried)
<1>1. TypeOK /\ range \in Ranges BY DEF Inv, TypeOK
<1>2. DOMAIN partial = {r \in Ranges : r < range} BY DEF Inv, LocalsFollow, Refreshing
<1>3. Ranges \subseteq Nat BY ShortestRange
<1>4. /\ DOMAIN Queried = {r \in Ranges : r <= range}
      /\ \A r \in DOMAIN Queried : Queried[r].round = round
  BY QueriedFollows
<1>5. \A r \in DOMAIN Queried :
        /\ Queried[r] = IF r = range THEN CombinedStats(range) ELSE partial[r]
        /\ r # range => r \in DOMAIN partial
  BY DEF Queried
<1> DEFINE entry == CombinedStats(range)
<1>6. /\ entry.growth = Growth(entry.count, entry.base)
      /\ \A row \in rows : row.at > now - range =>
           entry.base # NoRow /\ entry.base.at <= row.at
  BY <1>1, EntryOfRange
<1> HIDE DEF entry
<1>7. ASSUME NEW r \in DOMAIN partial, partial[r].base # NoRow
      PROVE  entry.base # NoRow /\ entry.base.at <= partial[r].base.at
  <2>1. partial[r].base \in rows /\ partial[r].base.at > now - lag - r
    BY <1>7 DEF Inv, PartialIsRecent
  <2>2. r \in Ranges /\ r < range BY <1>2
  <2>3. range - r >= MaxLag /\ MaxLag \in Nat BY <1>1, <2>2, StatsCacheAssumption
  <2>4. lag \in 0 .. MaxLag /\ now \in Nat /\ partial[r].base.at \in Nat
    BY <1>1, <2>1, StatsCacheAssumption DEF TypeOK, Row, Days
  <2>5. r \in Nat /\ range \in Nat BY <1>1, <1>3, <2>2
  <2>6. partial[r].base.at > now - range BY <2>1, <2>3, <2>4, <2>5
  <2> QED BY <1>6, <2>1, <2>6
<1>8. ASSUME NEW r \in DOMAIN Queried
      PROVE  Queried[r].growth = Growth(Queried[r].count, Queried[r].base)
  BY <1>5, <1>6 DEF Inv, Comparable, entry
<1>9. ASSUME NEW r \in DOMAIN Queried, NEW q \in DOMAIN Queried,
             r < q, Queried[r].base # NoRow
      PROVE  Queried[q].base # NoRow /\ Queried[q].base.at <= Queried[r].base.at
  <2>1. r # range
    <3>1. q \in Nat /\ range \in Nat /\ q <= range BY <1>1, <1>3, <1>4
    <3> QED BY <1>9, <3>1
  <2>2. CASE q = range BY <1>5, <1>7, <1>9, <2>1, <2>2 DEF entry
  <2>3. CASE q # range BY <1>5, <1>9, <2>1, <2>3 DEF Inv, Comparable
  <2> QED BY <2>2, <2>3
<1> QED BY <1>4, <1>8, <1>9 DEF Comparable

\* The entry of a range has the counter as it is now, and an older row.
LEMMA QueriedGrows ==
  ASSUME Inv, pc = "old", ~fell
  PROVE  /\ MapGrows(Queried)
         /\ \A r \in DOMAIN Queried :
              /\ Queried[r].count <= count
              /\ Queried[r].base # NoRow => Queried[r].base.count <= count
<1>1. TypeOK /\ RowsGrow /\ PartialGrows BY DEF Inv
<1> DEFINE entry == CombinedStats(range)
<1>2. \A r \in DOMAIN Queried :
        /\ Queried[r] = IF r = range THEN entry ELSE partial[r]
        /\ r # range => r \in DOMAIN partial
  BY DEF Queried
<1>3. entry.count = fetched BY <1>1, EntryOfRange
<1>4. Comparable(Queried) BY QueriedComparable
<1>5. /\ DOMAIN Queried = {r \in Ranges : r <= range}
      /\ \A r \in DOMAIN Queried : Queried[r].base # NoRow => Queried[r].base \in rows
  BY QueriedFollows
<1> HIDE DEF entry
<1>6. ASSUME NEW r \in DOMAIN Queried, NEW q \in DOMAIN Queried,
             r < q, Queried[r].base # NoRow
      PROVE  /\ Queried[r].count <= Queried[q].count
             /\ Queried[q].base.count <= Queried[r].base.count
             /\ Queried[r].base.count <= Queried[q].count
  <2>1. Queried[q].base # NoRow /\ Queried[q].base.at <= Queried[r].base.at
    BY <1>4, <1>6 DEF Comparable
  <2>2. Queried[q].base.count <= Queried[r].base.count BY <1>1, <1>5, <1>6, <2>1 DEF RowsGrow
  <2>3. r # range BY <1>1, <1>5, <1>6, ShortestRange DEF TypeOK
  <2>4. CASE q = range BY <1>1, <1>2, <1>3, <1>6, <2>2, <2>3, <2>4 DEF PartialGrows
  <2>5. CASE q # range BY <1>1, <1>2, <1>6, <2>3, <2>5, <2>2 DEF PartialGrows, MapGrows
  <2> QED BY <2>4, <2>5
<1>7. \A r \in DOMAIN Queried : Queried[r].count <= count
  BY <1>1, <1>2, <1>3 DEF PartialGrows
<1>8. \A r \in DOMAIN Queried : Queried[r].base # NoRow => Queried[r].base.count <= count
  BY <1>1, <1>5 DEF RowsGrow
<1> QED BY <1>6, <1>7, <1>8 DEF MapGrows

------------------------------------------------------------------------------

\* The invariant holds initially.
LEMMA InitEstablishesInv == Init => Inv
<1> SUFFICES ASSUME Init PROVE Inv OBVIOUS
<1>1. Min(Ranges) \in Ranges /\ \A r \in Ranges : Min(Ranges) <= r /\ r \in Nat
  BY ShortestRange
<1>2. DOMAIN partial = {} /\ partial \in [DOMAIN partial -> Combined] BY DEF Init
<1>3. TypeOK
  <2>1. now \in Days /\ count \in Counts /\ fetched \in Counts /\ lag \in 0 .. MaxLag
        /\ round \in 0 .. Rounds - 1
    BY StatsCacheAssumption DEF Init, Days, Counts
  <2>2. rows \subseteq Row /\ taken = NoRow /\ dbUp \in BOOLEAN /\ fell \in BOOLEAN /\ range \in Ranges
        /\ pc = "current" /\ stats = NoStats
    BY <1>1 DEF Init
  <2> QED BY <1>2, <2>1, <2>2 DEF TypeOK
<1>4. LocalsFollow BY <1>1, <1>2 DEF Init, LocalsFollow, Refreshing
<1> QED BY <1>2, <1>3, <1>4
     DEF Init, Inv, RowsDated, TakenIsYoungest, PartialIsRecent, Comparable, RowsGrow, PartialGrows, MapGrows

\* What the world does: count, rows and time.
LEMMA WorldKeepsInv ==
  ASSUME Inv, Count \/ NewDay \/ ReadCounters \/ InsertCounters \/ Database
  PROVE  Inv'
<1>1. TypeOK /\ RowsDated /\ TakenIsYoungest /\ PartialIsRecent BY DEF Inv
<1>2. UNCHANGED <<cache, round>> BY DEF Count, NewDay, ReadCounters, InsertCounters, Database
<1>3. LocalsFollow' BY <1>2 DEF Inv, LocalsFollow, Refreshing, cache
<1>4. Comparable(partial)' /\ (stats # NoStats => Comparable(stats))'
  BY <1>2 DEF Inv, Comparable, Growth, Difference, cache
<1>5. MaxDays \in Nat /\ MaxCount \in Nat /\ MaxLag \in Nat BY StatsCacheAssumption
<1>6. /\ now \in Nat /\ lag \in Nat /\ count \in Nat
      /\ \A row \in rows \cup {taken} : row # NoRow => row.at \in Nat /\ row.count \in Nat
      /\ \A row \in rows : row # NoRow /\ row.at \in Nat /\ row.count \in Nat
  BY <1>1, <1>5, SentinelAssumption DEF TypeOK, Days, Counts, Row
<1>7. Ranges \subseteq Nat BY ShortestRange
<1>8. CASE Count
  <2>1. TypeOK' BY <1>1, <1>8, <1>2 DEF Count, TypeOK, cache
  <2>2. RowsDated' /\ TakenIsYoungest' /\ PartialIsRecent'
    BY <1>1, <1>8, <1>2 DEF Count, RowsDated, TakenIsYoungest, PartialIsRecent, cache
  <2>4. count' \in Nat BY <1>5, <1>8 DEF Count, Counts
  <2>3. ~fell' => ~fell /\ count <= count'
    <3>1. ~fell' => ~fell /\ ~(count' < count) BY <1>8, Zenon DEF Count
    <3> QED BY <1>6, <2>4, <3>1
  <2>5. ASSUME ~fell' PROVE RowsGrow' /\ PartialGrows' /\ (stats # NoStats => MapGrows(stats))'
    <3>1. RowsGrow /\ PartialGrows /\ (stats # NoStats => MapGrows(stats)) BY <2>3, <2>5 DEF Inv
    <3>2. RowsGrow' BY <1>6, <1>8, <2>3, <2>4, <2>5, <3>1 DEF RowsGrow, Count
    <3>3. fetched \in Nat /\ \A r \in DOMAIN partial : partial[r].count \in Nat
                            /\ (partial[r].base # NoRow => partial[r].base.count \in Nat)
      BY <1>1, <1>5 DEF TypeOK, Counts, Combined, Row
    <3> QED BY <1>2, <1>6, <2>3, <2>4, <2>5, <3>1, <3>2, <3>3 DEF PartialGrows, MapGrows, cache
  <2> QED BY <1>3, <1>4, <2>1, <2>2, <2>5 DEF Inv
<1>9. CASE NewDay
  <2>1. TypeOK' BY <1>1, <1>2, <1>5, <1>6, <1>9 DEF NewDay, TypeOK, Days, cache
  <2>2. RowsDated' /\ TakenIsYoungest'
    BY <1>1, <1>6, <1>9 DEF NewDay, RowsDated, TakenIsYoungest
  <2>3. PartialIsRecent'
    <3>1. CASE Refreshing
      <4>1. now' - lag' = now - lag BY <1>6, <1>9, <3>1 DEF NewDay, Refreshing
      <4>2. now' \in Nat /\ lag' \in Nat BY <1>6, <1>9 DEF NewDay
      <4> QED BY <1>1, <1>2, <1>9, <4>1 DEF PartialIsRecent, NewDay, cache
    <3>2. CASE ~Refreshing BY <1>2, <3>2 DEF Inv, LocalsFollow, PartialIsRecent, cache
    <3> QED BY <3>1, <3>2
  <2>4. (~fell => RowsGrow /\ PartialGrows /\ (stats # NoStats => MapGrows(stats)))'
    BY <1>2, <1>9 DEF Inv, NewDay, RowsGrow, PartialGrows, MapGrows, cache
  <2> QED BY <1>3, <1>4, <2>1, <2>2, <2>3, <2>4 DEF Inv
<1>10. CASE ReadCounters
  <2> DEFINE new == [at |-> now, count |-> count]
  <2>1. taken' = new /\ UNCHANGED <<now, count, rows, dbUp, cache, lag, round, fell>>
    BY <1>10 DEF ReadCounters
  <2>2. new.at = now /\ new.count = count /\ new \in Row BY <1>1 DEF TypeOK, Row
  <2>3. \A row \in rows : row.at < now BY <1>1, <1>6, <1>10 DEF ReadCounters, RowsDated
  <2> HIDE DEF new
  <2>4. TypeOK' BY <1>1, <2>1, <2>2 DEF TypeOK, cache
  <2>5. RowsDated' /\ TakenIsYoungest'
    BY <1>1, <1>6, <2>1, <2>2, <2>3 DEF RowsDated, TakenIsYoungest
  <2>6. PartialIsRecent' BY <1>1, <2>1 DEF PartialIsRecent, cache
  <2>7. ASSUME ~fell' PROVE RowsGrow' /\ PartialGrows' /\ (stats # NoStats => MapGrows(stats))'
    <3>1. RowsGrow /\ PartialGrows /\ (stats # NoStats => MapGrows(stats))
      BY <2>1, <2>7 DEF Inv
    <3>2. RowsGrow' BY <1>6, <2>1, <2>2, <3>1 DEF RowsGrow
    <3> QED BY <2>1, <3>1, <3>2 DEF PartialGrows, MapGrows, cache
  <2> QED BY <1>3, <1>4, <2>4, <2>5, <2>6, <2>7 DEF Inv
<1>12. CASE InsertCounters
  <2>1. /\ taken # NoRow /\ taken' = NoRow /\ taken \in Row
        /\ rows' = rows \cup {taken} \/ rows' = rows
        /\ UNCHANGED <<now, count, dbUp, cache, lag, round, fell>>
    BY <1>1, <1>12 DEF InsertCounters, TypeOK
  <2>2. \A row \in rows : row.at < taken.at BY <1>1, <2>1 DEF TakenIsYoungest
  <2>3. taken.at \in Nat /\ taken.count \in Nat /\ taken.at <= now
    BY <1>1, <1>6, <2>1 DEF TakenIsYoungest
  <2>4. TypeOK' BY <1>1, <2>1 DEF TypeOK, cache
  <2>5. RowsDated' /\ TakenIsYoungest'
    BY <1>1, <1>6, <2>1, <2>2, <2>3 DEF RowsDated, TakenIsYoungest
  <2>6. PartialIsRecent' BY <1>1, <2>1 DEF PartialIsRecent, cache
  <2>7. ASSUME ~fell' PROVE RowsGrow' /\ PartialGrows' /\ (stats # NoStats => MapGrows(stats))'
    <3>1. RowsGrow /\ PartialGrows /\ (stats # NoStats => MapGrows(stats))
      BY <2>1, <2>7 DEF Inv
    <3>2. RowsGrow' BY <1>6, <2>1, <2>2, <2>3, <3>1 DEF RowsGrow
    <3> QED BY <2>1, <3>1, <3>2 DEF PartialGrows, MapGrows, cache
  <2> QED BY <1>3, <1>4, <2>4, <2>5, <2>6, <2>7 DEF Inv
<1>11. CASE Database
  <2>1. TypeOK' BY <1>1, <1>2, <1>11 DEF Database, TypeOK, cache
  <2> QED BY <1>1, <1>2, <1>3, <1>4, <1>11, <2>1
     DEF Inv, Database, RowsDated, TakenIsYoungest, PartialIsRecent, RowsGrow, PartialGrows,
         MapGrows, cache
<1> QED BY <1>8, <1>9, <1>10, <1>11, <1>12

\* What Run and refresh do.
LEMMA RefreshKeepsInv ==
  ASSUME Inv, Refresh \/ CurrentStats \/ QueryRange \/ QueryFails \/ Stop
  PROVE  Inv'
<1>1. TypeOK BY DEF Inv
<1>2. UNCHANGED <<world, fell>>
  BY DEF Refresh, CurrentStats, QueryRange, QueryFails, Stop
<1>3. RowsDated' /\ TakenIsYoungest' /\ (~fell => RowsGrow)'
  BY <1>2 DEF Inv, RowsDated, TakenIsYoungest, RowsGrow, world
<1>4. Min(Ranges) \in Ranges /\ Ranges \subseteq Nat /\ \A r \in Ranges : Min(Ranges) <= r
  BY ShortestRange
<1>5. Rounds \in Nat \ {0} /\ MaxCount \in Nat /\ MaxLag \in Nat BY StatsCacheAssumption
<1>6. ASSUME NewLocals, ~Refreshing'
      PROVE  /\ DOMAIN partial' = {}
             /\ range' \in Ranges /\ fetched' \in Counts /\ lag' \in 0 .. MaxLag
             /\ partial' \in [DOMAIN partial' -> Combined]
             /\ LocalsFollow' /\ PartialIsRecent' /\ Comparable(partial)'
             /\ (~fell => PartialGrows)'
  <2>1. DOMAIN partial' = {} /\ range' = Min(Ranges) /\ fetched' = 0 /\ lag' = 0
    BY <1>6 DEF NewLocals
  <2>2. fetched' \in Counts /\ lag' \in 0 .. MaxLag BY <2>1, <1>5 DEF Counts
  <2>3. partial' \in [DOMAIN partial' -> Combined] BY <1>6 DEF NewLocals
  <2>4. LocalsFollow' BY <1>6, <2>1 DEF LocalsFollow
  <2>5. fetched' <= count'
    <3>1. count' \in Nat BY <1>1, <1>2, <1>5 DEF TypeOK, Counts, world
    <3> QED BY <2>1, <3>1
  <2>6. PartialGrows' BY <2>1, <2>5 DEF PartialGrows, MapGrows
  <2>7. PartialIsRecent' /\ Comparable(partial)' BY <2>1 DEF PartialIsRecent, Comparable
  <2> QED BY <1>4, <2>1, <2>2, <2>3, <2>4, <2>6, <2>7
<1>7. CASE Refresh
  <2>1. pc = "idle" /\ pc' = "current" /\ UNCHANGED <<range, fetched, partial, stats, lag>>
    BY <1>7 DEF Refresh
  <2>2. DOMAIN partial = {} /\ range = Min(Ranges)
    BY <2>1 DEF Inv, LocalsFollow, Refreshing
  <2>3. round' \in 0 .. Rounds - 1
    <3>1. round + 1 \in Nat BY <1>1, <1>5 DEF TypeOK
    <3> QED BY <1>5, <1>7, <3>1 DEF Refresh
  <2>4. TypeOK' BY <1>1, <1>2, <2>1, <2>3 DEF TypeOK, world
  <2>5. {r \in Ranges : r < range} = {}
    <3>1. range \in Nat /\ \A r \in Ranges : r \in Nat /\ range <= r BY <1>4, <2>2
    <3>2. \A r \in Ranges : ~(r < range) BY <3>1
    <3> QED BY <3>2
  <2>6. LocalsFollow' BY <2>1, <2>2, <2>5 DEF LocalsFollow, Refreshing
  <2>7. PartialIsRecent' BY <2>1, <2>2 DEF PartialIsRecent
  <2>8. Comparable(partial)' /\ (stats # NoStats => Comparable(stats))'
    BY <2>1, <2>2 DEF Inv, Comparable, Growth, Difference
  <2>9. (~fell => PartialGrows /\ (stats # NoStats => MapGrows(stats)))'
    BY <1>2, <2>1, <2>2 DEF Inv, PartialGrows, MapGrows, world
  <2> QED BY <1>3, <2>4, <2>6, <2>7, <2>8, <2>9 DEF Inv
<1>8. CASE CurrentStats
  <2>1. pc = "current" /\ pc' = "old" /\ fetched' = count
        /\ UNCHANGED <<range, partial, stats, lag, round>>
    BY <1>8 DEF CurrentStats
  <2>2. TypeOK' BY <1>1, <1>2, <2>1 DEF TypeOK, world
  <2>3. LocalsFollow' /\ PartialIsRecent'
    BY <1>2, <2>1 DEF Inv, LocalsFollow, PartialIsRecent, Refreshing, world
  <2>4. Comparable(partial)' /\ (stats # NoStats => Comparable(stats))'
    BY <2>1 DEF Inv, Comparable, Growth, Difference
  <2>5. count \in Nat BY <1>1, <1>5 DEF TypeOK, Counts
  <2>6. (~fell => PartialGrows /\ (stats # NoStats => MapGrows(stats)))'
    BY <1>2, <2>1, <2>5 DEF Inv, PartialGrows, MapGrows, world
  <2> QED BY <1>3, <2>2, <2>3, <2>4, <2>6 DEF Inv
<1>9. CASE QueryRange
  <2>1. pc = "old" /\ round' = round BY <1>9 DEF QueryRange
  <2>2. /\ DOMAIN Queried = {r \in Ranges : r <= range}
        /\ Queried \in [DOMAIN Queried -> Combined]
        /\ \A r \in DOMAIN Queried :
              /\ Queried[r].round = round
              /\ Queried[r].base # NoRow =>
                   Queried[r].base \in rows /\ Queried[r].base.at > now - lag - r
    BY <2>1, QueriedFollows
  <2>3. Comparable(Queried) BY <2>1, QueriedComparable
  <2>4. ~fell => /\ MapGrows(Queried)
                 /\ \A r \in DOMAIN Queried :
                      /\ Queried[r].count <= count
                      /\ Queried[r].base # NoRow => Queried[r].base.count <= count
    BY <2>1, QueriedGrows
  <2>5. CASE Later = {}
    <3>1. pc' = "idle" /\ stats' = Queried /\ NewLocals BY <1>9, <2>5 DEF QueryRange, Published
    <3>2. ~Refreshing' BY <3>1 DEF Refreshing
    <3>3. DOMAIN Queried = Ranges
      <4>1. range \in Ranges BY <1>1 DEF TypeOK
      <4>2. \A r \in Ranges : r <= range BY <1>4, <2>5, <4>1 DEF Later
      <4> QED BY <2>2, <4>2
    <3>4. stats' \in [Ranges -> Combined] BY <2>2, <3>1, <3>3
    <3>5. TypeOK' BY <1>1, <1>2, <1>6, <2>1, <3>1, <3>2, <3>4 DEF TypeOK, world
    <3>6. Comparable(stats)' BY <2>3, <3>1 DEF Comparable, Growth, Difference
    <3>7. (~fell => MapGrows(stats))' BY <1>2, <2>4, <3>1 DEF MapGrows
    <3> QED BY <1>3, <1>6, <3>1, <3>2, <3>5, <3>6, <3>7 DEF Inv
  <2>6. CASE Later # {}
    <3>1. /\ pc' = "current" /\ stats' = stats /\ range' = Min(Later)
          /\ partial' = Queried /\ fetched' = 0 /\ lag' = lag
      BY <1>9, <2>6 DEF QueryRange, Published
    <3>2. Min(Later) \in Ranges /\ Min(Later) > range /\ \A r \in Later : Min(Later) <= r
      BY <2>6, ShortestRange DEF Later
    <3>3. TypeOK'
      <4>1. fetched' \in Counts BY <1>5, <3>1 DEF Counts
      <4> QED BY <1>1, <1>2, <2>1, <2>2, <3>1, <3>2, <4>1 DEF TypeOK, world
    <3>4. \A r \in Ranges : r <= range <=> r < Min(Later)
      <4>1. range \in Ranges BY <1>1 DEF TypeOK
      <4>2. \A r \in Ranges : r > range => Min(Later) <= r BY <3>2 DEF Later
      <4>3. range \in Nat /\ Min(Later) \in Nat /\ \A r \in Ranges : r \in Nat
        BY <1>4, <3>2, <4>1
      <4> QED BY <3>2, <4>2, <4>3
    <3>5. LocalsFollow' BY <2>2, <3>1, <3>4 DEF LocalsFollow, Refreshing
    <3>6. PartialIsRecent' BY <1>2, <2>1, <2>2, <3>1 DEF PartialIsRecent, world
    <3>7. Comparable(partial)' /\ (stats # NoStats => Comparable(stats))'
      BY <2>3, <3>1 DEF Inv, Comparable, Growth, Difference
    <3>8. (~fell => PartialGrows)'
      <4>1. count \in Nat BY <1>1, <1>5 DEF TypeOK, Counts
      <4> QED BY <1>2, <2>4, <3>1, <4>1 DEF PartialGrows, MapGrows, world
    <3>9. (~fell => (stats # NoStats => MapGrows(stats)))'
      BY <1>2, <3>1 DEF Inv, MapGrows
    <3> QED BY <1>3, <3>3, <3>5, <3>6, <3>7, <3>8, <3>9 DEF Inv
  <2> QED BY <2>5, <2>6
<1>10. CASE QueryFails
  <2>1. pc' \in {"failed", "idle"} /\ NewLocals /\ UNCHANGED <<stats, round>>
    BY <1>10 DEF QueryFails, AfterFailure
  <2>2. ~Refreshing' BY <2>1 DEF Refreshing
  <2>3. TypeOK' BY <1>1, <1>2, <1>6, <2>1, <2>2 DEF TypeOK, world
  <2>4. (stats # NoStats => Comparable(stats))' /\ (~fell => (stats # NoStats => MapGrows(stats)))'
    BY <1>2, <2>1 DEF Inv, Comparable, MapGrows, Growth, Difference
  <2> QED BY <1>3, <1>6, <2>1, <2>2, <2>3, <2>4 DEF Inv
<1>11. CASE Stop
  <2>1. pc = "idle" /\ pc' = "stopped" /\ UNCHANGED <<range, fetched, partial, stats, lag, round>>
    BY <1>11 DEF Stop
  <2>2. TypeOK' BY <1>1, <1>2, <2>1 DEF TypeOK, world
  <2>3. LocalsFollow' /\ PartialIsRecent'
    BY <1>2, <2>1 DEF Inv, LocalsFollow, PartialIsRecent, Refreshing, world
  <2>4. Comparable(partial)' /\ (stats # NoStats => Comparable(stats))'
    BY <2>1 DEF Inv, Comparable, Growth, Difference
  <2>5. (~fell => PartialGrows /\ (stats # NoStats => MapGrows(stats)))'
    BY <1>2, <2>1 DEF Inv, PartialGrows, MapGrows, world
  <2> QED BY <1>3, <2>2, <2>3, <2>4, <2>5 DEF Inv
<1> QED BY <1>7, <1>8, <1>9, <1>10, <1>11

\* Every step keeps the invariant.
LEMMA NextKeepsInv == Inv /\ [Next]_vars => Inv'
<1> SUFFICES ASSUME Inv, [Next]_vars PROVE Inv' OBVIOUS
<1>1. CASE Next BY <1>1, WorldKeepsInv, RefreshKeepsInv DEF Next
<1>2. CASE UNCHANGED vars
  BY <1>2 DEF vars, world, cache, Inv, TypeOK, RowsDated, TakenIsYoungest, LocalsFollow,
     Refreshing, PartialIsRecent, Comparable, Growth, Difference, RowsGrow, PartialGrows, MapGrows
<1> QED BY <1>1, <1>2

\* The invariant of all that follows.
THEOREM Invariance == Spec => []Inv
BY InitEstablishesInv, NextKeepsInv, PTL DEF Spec

------------------------------------------------------------------------------

\* The types are kept.
THEOREM TypeCorrect == Spec => []TypeOK
<1>1. Inv => TypeOK BY DEF Inv
<1> QED BY <1>1, Invariance, PTL

\* What is served comes of one refresh.
THEOREM ServedTogether == Spec => []SameRefresh
<1>1. Inv => SameRefresh BY DEF Inv, TypeOK, Comparable, SameRefresh
<1> QED BY <1>1, Invariance, PTL

\* A longer range is never compared with a younger row than a shorter one.
THEOREM RangesAlwaysNest == Spec => []RangesNest
<1>1. Inv => RangesNest BY DEF Inv, TypeOK, Comparable, RangesNest
<1> QED BY <1>1, Invariance, PTL

\* As long as no counter fell, a range that is longer than one with a row shows
\* a true growth, and no less than the shorter one does.
THEOREM LongerRangesAlwaysTrue == Spec => []LongerRangesTrue
<1>1. ASSUME Inv, stats # NoStats, ~fell,
             NEW r \in Ranges, NEW q \in Ranges, r < q, stats[r].base # NoRow
      PROVE  /\ stats[q].base.count <= stats[q].count
             /\ stats[r].base.count \in 1 .. stats[r].count =>
                  stats[q].growth = Inf \/ stats[r].growth \in 0 .. stats[q].growth
  <2> DEFINE a == stats[r].count
             x == stats[r].base.count
             b == stats[q].count
             y == stats[q].base.count
  <2>1. stats \in [Ranges -> Combined] /\ Comparable(stats) /\ MapGrows(stats)
    BY <1>1 DEF Inv, TypeOK
  <2>2. stats[q].base # NoRow BY <1>1, <2>1 DEF Comparable
  <2>3. a <= b /\ y <= x /\ x <= b BY <1>1, <2>1 DEF MapGrows
  <2>4. /\ a \in 0 .. MaxCount /\ x \in 0 .. MaxCount /\ b \in 0 .. MaxCount /\ y \in 0 .. MaxCount
        /\ MaxCount \in Nat /\ Modulus \in Nat /\ MaxCount < Modulus
    BY <1>1, <2>1, <2>2, StatsCacheAssumption DEF Combined, Row, Counts
  <2>5. /\ stats[r].growth = Growth(a, stats[r].base)
        /\ stats[q].growth = Growth(b, stats[q].base)
    BY <2>1 DEF Comparable
  <2>6. ASSUME x \in 1 .. a
        PROVE  stats[q].growth = Inf \/ stats[r].growth \in 0 .. stats[q].growth
    <3>1. /\ stats[r].growth = (100 * Difference(a, x)) \div x
          /\ y # 0 => stats[q].growth = (100 * Difference(b, y)) \div y
          /\ y = 0 /\ Difference(b, y) # 0 => stats[q].growth = Inf
      BY <1>1, <2>2, <2>4, <2>5, <2>6 DEF Growth
    <3> HIDE DEF a, x, b, y
    <3>2. a - x \in 0 .. Modulus - 1 /\ b - y \in 0 .. Modulus - 1 /\ a - x <= b - y
      BY <2>3, <2>4, <2>6
    <3>3. Difference(a, x) = a - x /\ Difference(b, y) = b - y
      BY <2>4, <3>2 DEF Difference
    <3>4. CASE y = 0 BY <2>3, <2>4, <2>6, <3>1, <3>3, <3>4
    <3>5. CASE y # 0
      <4>1. (100 * (a - x)) \div x \in 0 .. (100 * (b - y)) \div y
        <5>1. a - x \in Nat /\ b - y \in Nat /\ x \in Nat \ {0} /\ y \in Nat \ {0}
          BY <2>4, <2>6, <3>2, <3>5
        <5> QED BY <2>3, <3>2, <5>1, DivisionOfMore
      <4> QED BY <3>1, <3>3, <3>5, <4>1
    <3> QED BY <3>4, <3>5
  <2>7. y <= b BY <2>3, <2>4
  <2> QED BY <2>6, <2>7
<1>2. Inv => LongerRangesTrue BY <1>1 DEF LongerRangesTrue
<1> QED BY <1>2, Invariance, PTL

==============================================================================
