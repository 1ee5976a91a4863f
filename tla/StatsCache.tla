----------------------------- MODULE StatsCache -----------------------------
(***************************************************************************)
(* store/cache/stats_cache.go with the queries of pg.Store.Stats: the      *)
(* statistics page is served from a map that one goroutine refreshes as a  *)
(* whole, range by range, each range with two queries of its own.          *)
(*                                                                         *)
(* The four counters are treated alike and are one counter here.  A range  *)
(* is named by the length of its window in days, and SupportedStatsRanges  *)
(* lists the ranges by increasing length.                                  *)
(***************************************************************************)
EXTENDS Integers, FiniteSets, FiniteSetsExt

CONSTANTS
  Ranges,       \* the supported ranges (7, 30, 182 and 365 days)
  MaxCount,     \* bound: the largest value of the counter
  Modulus,      \* how many values a counter of the program has (2^64)
  MaxDays,      \* bound: how many days pass
  MaxLag,       \* bound: how many days may begin during one refresh
  Rounds,       \* history only: refreshes are numbered modulo Rounds
  NoRow,        \* sql.ErrNoRows
  NoStats,      \* the atomic.Value before the first Store
  NaN, Inf      \* what a division by zero makes of zero and of more

ASSUME StatsCacheAssumption ==
  /\ IsFiniteSet(Ranges) /\ Ranges # {} /\ Ranges \subseteq Nat \ {0}
  /\ \A r, q \in Ranges : r < q => q - r >= MaxLag
  /\ MaxCount \in Nat /\ Modulus \in Nat /\ MaxCount < Modulus
  /\ MaxDays \in Nat /\ MaxLag \in Nat /\ Rounds \in Nat \ {0}

Counts == 0 .. MaxCount
Days   == 0 .. MaxDays
Row    == [at : Days, count : Counts]

\* model.CombinedStats; base and round are history.
Combined == [count : Counts, growth : Nat \cup {NaN, Inf},
             base : Row \cup {NoRow}, round : 0 .. Rounds - 1]

ASSUME SentinelAssumption ==
  /\ NoRow \notin Row /\ NoStats \notin [Ranges -> Combined]
  /\ NaN \notin Nat /\ Inf \notin Nat /\ NaN # Inf

VARIABLES
  now,       \* the day
  count,     \* the counter, as the tables give it
  rows,      \* the rows of daily_stats
  taken,     \* the row that AggregateStats has read and not yet inserted
  dbUp,      \* the database answers
  pc,        \* where Cache.Run is
  range,     \* the range refresh is at
  fetched,   \* the counter CurrentStats returned for it
  partial,   \* the local statsMap
  stats,     \* the cache's atomic.Value
  lag,       \* days begun during this refresh
  round,     \* history: the number of this refresh
  fell       \* history: the counter has gone down

world == <<now, count, rows, taken, dbUp>>
cache == <<pc, range, fetched, partial, stats>>
vars  == <<world, cache, lag, round, fell>>

Init ==
  /\ now = 0 /\ count = 0 /\ rows = {} /\ taken = NoRow /\ dbUp = TRUE
  /\ pc = "current" /\ range = Min(Ranges) /\ fetched = 0
  /\ partial = [r \in {} |-> NoRow]
  /\ stats = NoStats
  /\ lag = 0 /\ round = 0 /\ fell = FALSE

------------------------------------------------------------------------------
(* The chain, the clock and the aggregator. *)

\* Transactions are added, and rows go when what they refer to is deleted
\* (ON DELETE CASCADE) or a user is taken off the list.
Count ==
  /\ count' \in {count - 1, count + 1} \cap Counts
  /\ fell' = (fell \/ count' < count)
  /\ UNCHANGED <<now, rows, taken, dbUp, cache, lag, round>>

NewDay ==
  /\ now < MaxDays
  /\ pc \in {"current", "old"} => lag < MaxLag
  /\ now' = now + 1
  /\ lag' = IF pc \in {"current", "old"} THEN lag + 1 ELSE lag
  /\ UNCHANGED <<count, rows, taken, dbUp, cache, round, fell>>

\* Store.AggregateStats, once a day at most (see module Aggregator): the
\* counters are read, for the time of the tick, ...
ReadCounters ==
  /\ dbUp /\ taken = NoRow
  /\ \A row \in rows : row.at # now
  /\ taken' = [at |-> now, count |-> count]
  /\ UNCHANGED <<now, count, rows, dbUp, cache, lag, round, fell>>

\* ... and inserted, or not when the database does not answer.
InsertCounters ==
  /\ taken # NoRow
  /\ rows' = IF dbUp THEN rows \cup {taken} ELSE rows
  /\ taken' = NoRow
  /\ UNCHANGED <<now, count, dbUp, cache, lag, round, fell>>

Database ==
  /\ dbUp' = ~dbUp
  /\ UNCHANGED <<now, count, rows, taken, cache, lag, round, fell>>

------------------------------------------------------------------------------
(* Cache.Run and refresh. *)

\* The locals of refresh, as a new one finds them.
NewLocals ==
  range' = Min(Ranges) /\ fetched' = 0 /\ partial' = [r \in {} |-> NoRow] /\ lag' = 0

\* The ticker fires.
Refresh ==
  /\ pc = "idle"
  /\ pc' = "current"
  /\ round' = (round + 1) % Rounds
  /\ UNCHANGED <<world, range, fetched, partial, stats, lag, fell>>

\* Stats, first query.
CurrentStats ==
  /\ pc = "current" /\ dbUp
  /\ fetched' = count
  /\ pc' = "old"
  /\ UNCHANGED <<world, range, partial, stats, lag, round, fell>>

\* Faulty variant: the query picks the newest row of the range.
OldestNewest(R) == CHOOSE row \in R : \A other \in R : other.at <= row.at

\* ORDER BY created_at ASC LIMIT 1
Oldest(R) == CHOOSE row \in R : \A other \in R : row.at <= other.at

\* Stats, second query: the oldest row within the range.
OldStats(r) ==
  LET within == {row \in rows : row.at > now - r}
  IN  IF within = {} THEN NoRow ELSE Oldest(within)

\* Of unsigned integers.
Difference(new, old) == (new - old) % Modulus

\* The percentage by which the counter has grown, as a division of floating
\* point numbers; without a row to compare with it stays zero.
Growth(new, row) ==
  IF row = NoRow THEN 0
  ELSE IF row.count # 0 THEN (100 * Difference(new, row.count)) \div row.count
  ELSE IF Difference(new, row.count) = 0 THEN NaN ELSE Inf

\* Faulty variant: the counters are read for the first range only.
CombinedStatsReadOnce(r) ==
  LET new == IF DOMAIN partial = {} THEN fetched ELSE partial[Min(Ranges)].count
  IN  [count |-> new, growth |-> Growth(new, OldStats(r)), base |-> OldStats(r), round |-> round]

\* Stats: what is shown for range r.
CombinedStats(r) == [count |-> fetched, growth |-> Growth(fetched, OldStats(r)),
                     base |-> OldStats(r), round |-> round]

Queried == [r \in DOMAIN partial \cup {range} |->
              IF r = range THEN CombinedStats(r) ELSE partial[r]]

Later == {r \in Ranges : r > range}

\* Faulty variants: refresh writes into the map that is being served; the map
\* is stored inside the loop.
PublishedInPlace == IF stats = NoStats THEN (IF Later = {} THEN Queried ELSE stats)
                    ELSE [stats EXCEPT ![range] = CombinedStats(range)]
PublishedInLoop  == Queried

\* The new map replaces the old one when every range is in it.
Published == IF Later = {} THEN Queried ELSE stats

QueryRange ==
  /\ pc = "old" /\ dbUp
  /\ stats' = Published
  /\ \/ Later = {} /\ pc' = "idle" /\ NewLocals
     \/ /\ Later # {} /\ pc' = "current"
        /\ range' = Min(Later) /\ partial' = Queried /\ fetched' = 0 /\ lag' = lag
  /\ UNCHANGED <<world, round, fell>>

\* Faulty variant: any failure ends Run.
AfterFailureReturns == "failed"

\* A failure of the first refresh ends Run, and with it the application; a
\* later one is logged, and the map that is served stays.
AfterFailure == IF stats = NoStats THEN "failed" ELSE "idle"

QueryFails ==
  /\ pc \in {"current", "old"} /\ ~dbUp
  /\ pc' = AfterFailure
  /\ NewLocals
  /\ UNCHANGED <<world, stats, round, fell>>

\* Run sees done.
Stop ==
  /\ pc = "idle"
  /\ pc' = "stopped"
  /\ UNCHANGED <<world, range, fetched, partial, stats, lag, round, fell>>

------------------------------------------------------------------------------

Next ==
  \/ Count \/ NewDay \/ ReadCounters \/ InsertCounters \/ Database
  \/ Refresh \/ CurrentStats \/ QueryRange \/ QueryFails \/ Stop

Spec == Init /\ [][Next]_vars

\* The ticker fires, and a query of a database that answers returns.
FairSpec == Spec /\ WF_vars(Refresh) /\ WF_vars(CurrentStats) /\ WF_vars(QueryRange)
                 /\ WF_vars(QueryFails)

------------------------------------------------------------------------------

TypeOK ==
  /\ now \in Days /\ count \in Counts /\ dbUp \in BOOLEAN
  /\ rows \subseteq Row /\ taken \in Row \cup {NoRow}
  /\ pc \in {"current", "old", "idle", "failed", "stopped"}
  /\ range \in Ranges /\ fetched \in Counts
  /\ partial \in [DOMAIN partial -> Combined] /\ DOMAIN partial \subseteq Ranges
  /\ stats # NoStats => stats \in [Ranges -> Combined]
  /\ lag \in 0 .. MaxLag /\ round \in 0 .. Rounds - 1 /\ fell \in BOOLEAN

\* Whatever fails in the middle of a refresh, the ranges that are served were
\* all queried by one and the same refresh.
SameRefresh ==
  stats # NoStats => \A r, q \in Ranges : stats[r].round = stats[q].round

\* A longer range is compared with a row at least as old as a shorter one is,
\* although time passes and rows are added between their queries: growth over
\* a year is never computed from a younger row than growth over a week.
RangesNest ==
  stats # NoStats =>
    \A r, q \in Ranges : r < q /\ stats[r].base # NoRow =>
      /\ stats[q].base # NoRow
      /\ stats[q].base.at <= stats[r].base.at

\* As long as no counter has fallen, the growth of a range that is longer than
\* one with a row to compare with is true: its row was there before its counter
\* was read, and the difference does not wrap.  And it shows no less growth than
\* the shorter one does, whose own row may have been added between its queries.
LongerRangesTrue ==
  stats # NoStats /\ ~fell =>
    \A r, q \in Ranges : r < q /\ stats[r].base # NoRow =>
      /\ stats[q].base.count <= stats[q].count
      /\ stats[r].base.count \in 1 .. stats[r].count =>
           stats[q].growth = Inf \/ stats[r].growth \in 0 .. stats[q].growth

\* The growth that is served is that of the counter over the row it is compared
\* with, also when the counter is the smaller of the two: it has fallen, or the
\* row was added after it was read.  The page knows how to show negative growth.
GrowthIsTrue ==
  stats # NoStats =>
    \A r \in Ranges : stats[r].base # NoRow /\ stats[r].base.count # 0 =>
      stats[r].growth =
        (100 * (stats[r].count - stats[r].base.count)) \div stats[r].base.count

\* When the database works for good and the counter rests, every range ends up
\* showing it, unless Run was stopped or its first refresh failed.
EventuallyFresh ==
  \A k \in Counts :
    <>[](dbUp /\ count = k) =>
      <>[](\/ pc = "stopped"
           \/ stats = NoStats /\ pc = "failed"
           \/ stats # NoStats /\ \A r \in Ranges : stats[r].count = k)

==============================================================================
