----------------------------- MODULE Aggregator -----------------------------
(***************************************************************************)
(* stats/aggregator.go with the two store operations it calls: once a day  *)
(* a row is added to daily_stats.  The table has no key, so that a day has *)
(* one row only is up to this code.  The process may crash at any step and *)
(* be started again; the table is all that survives.                       *)
(***************************************************************************)
EXTENDS Integers, Sequences, SequencesExt, FiniteSetsExt

CONSTANTS
  DayLength,   \* how many instants of the model make a day (secsInDay)
  MaxTime,     \* bound: the last instant
  MaxLost      \* bound: how many commits are never acknowledged

ASSUME AggregatorAssumption ==
  DayLength \in Nat \ {0} /\ MaxTime \in Nat /\ MaxLost \in Nat

Time == 0 .. MaxTime

\* The zero time.Time, of a day before every other.
ZeroTime == -1

VARIABLES
  now,       \* time.Now()
  dbUp,      \* the database answers
  rows,      \* the created_at of the rows of daily_stats, in order of insertion
  pc,        \* where Aggregator.Run is
  ticked,    \* the ticker's channel holds a tick
  lastRan,   \* when statistics were last aggregated, as Run knows it
  at,        \* the local now of this iteration
  lost       \* history: the days of the commits that were not acknowledged

vars == <<now, dbUp, rows, pc, ticked, lastRan, at, lost>>

MonotonicDay(t) == t \div DayLength

Init ==
  /\ now = 0 /\ dbUp = TRUE /\ rows = << >>
  /\ pc = "down" /\ ticked = FALSE
  /\ lastRan = ZeroTime /\ at = 0
  /\ lost = << >>

------------------------------------------------------------------------------
(* The clock, the database and the life of the process. *)

Pass ==
  /\ now < MaxTime
  /\ now' = now + 1
  /\ UNCHANGED <<dbUp, rows, pc, ticked, lastRan, at, lost>>

Database ==
  /\ dbUp' = ~dbUp
  /\ UNCHANGED <<now, rows, pc, ticked, lastRan, at, lost>>

Start ==
  /\ pc = "down"
  /\ pc' = "latest"
  /\ lastRan' = ZeroTime /\ at' = 0
  /\ UNCHANGED <<now, dbUp, rows, ticked, lost>>

\* The process is killed, or Run sees done and returns.
Crash ==
  /\ pc # "down"
  /\ pc' = "down" /\ ticked' = FALSE
  /\ UNCHANGED <<now, dbUp, rows, lastRan, at, lost>>

\* The channel of a ticker holds one tick; further ones are dropped.
Tick ==
  /\ pc \notin {"down", "latest"} /\ ~ticked
  /\ ticked' = TRUE
  /\ UNCHANGED <<now, dbUp, rows, pc, lastRan, at, lost>>

------------------------------------------------------------------------------
(* Aggregator.Run. *)

\* Faulty variant: what earlier processes did is not looked at.
LatestForgotten == ZeroTime

\* ORDER BY created_at DESC LIMIT 1; ErrNotFound leaves the zero value.
Latest == Max(ToSet(rows) \cup {ZeroTime})

LatestDailyStats ==
  /\ pc = "latest" /\ dbUp
  /\ lastRan' = Latest
  /\ pc' = "select"
  /\ UNCHANGED <<now, dbUp, rows, ticked, at, lost>>

\* Run returns the error, which stops the application.
LatestFails ==
  /\ pc = "latest" /\ ~dbUp
  /\ pc' = "down"
  /\ UNCHANGED <<now, dbUp, rows, ticked, lastRan, at, lost>>

\* Faulty variant: a row is due a day's length after the last one.
DuePeriod == now >= lastRan + DayLength

Due == MonotonicDay(now) > MonotonicDay(lastRan)

Wake ==
  /\ pc = "select" /\ ticked
  /\ ticked' = FALSE
  /\ at' = now
  /\ pc' = IF Due THEN "current" ELSE "select"
  /\ UNCHANGED <<now, dbUp, rows, lastRan, lost>>

\* AggregateStats: the counters are read ...
CurrentStats ==
  /\ pc = "current" /\ dbUp
  /\ pc' = "insert"
  /\ UNCHANGED <<now, dbUp, rows, ticked, lastRan, at, lost>>

\* ... and the row is committed, with the time of the tick.
Insert ==
  /\ pc = "insert" /\ dbUp
  /\ rows' = Append(rows, at)
  /\ pc' = "inserted"
  /\ UNCHANGED <<now, dbUp, ticked, lastRan, at, lost>>

\* Faulty variant: the clock is read again.
RanAtLater == now

RanAt == at

Acknowledged ==
  /\ pc = "inserted"
  /\ lastRan' = RanAt
  /\ pc' = "select"
  /\ UNCHANGED <<now, dbUp, rows, ticked, at, lost>>

\* Faulty variant: a failed attempt counts as done.
AfterFailureDone == at

\* continue: the next tick tries again.
AfterFailure == lastRan

Failed ==
  /\ pc \in {"current", "insert"} /\ ~dbUp
  /\ pc' = "select"
  /\ lastRan' = AfterFailure
  /\ UNCHANGED <<now, dbUp, rows, ticked, at, lost>>

\* The row is in the table, the answer is not received: to Run it is a failure.
AcknowledgementLost ==
  /\ pc = "inserted" /\ ~dbUp
  /\ Len(lost) < MaxLost
  /\ pc' = "select"
  /\ lastRan' = AfterFailure
  /\ lost' = Append(lost, MonotonicDay(at))
  /\ UNCHANGED <<now, dbUp, rows, ticked, at>>

------------------------------------------------------------------------------

Run ==
  \/ LatestDailyStats \/ LatestFails \/ Wake \/ CurrentStats \/ Insert
  \/ Acknowledged \/ Failed \/ AcknowledgementLost

Next == Pass \/ Database \/ Start \/ Crash \/ Tick \/ Run

Spec == Init /\ [][Next]_vars

\* The ticker fires, and a database that answers does so in the end.
FairSpec == Spec /\ WF_vars(Tick) /\ WF_vars(Run)

------------------------------------------------------------------------------

TypeOK ==
  /\ now \in Time /\ dbUp \in BOOLEAN /\ rows \in Seq(Time)
  /\ pc \in {"down", "latest", "select", "current", "insert", "inserted"}
  /\ ticked \in BOOLEAN /\ at \in 0 .. now
  /\ lastRan \in ToSet(rows) \cup {ZeroTime}
  /\ lost \in Seq(Nat)

OfDay(s, d) == {i \in DOMAIN s : s[i] = d}

Days == [i \in DOMAIN rows |-> MonotonicDay(rows[i])]

\* A day never gets a second row, whatever crashes, restarts and failures lie
\* between two ticks, except for each commit that was not acknowledged.
OnePerDay ==
  \A d \in 0 .. MonotonicDay(MaxTime) :
    Cardinality(OfDay(Days, d)) <= 1 + Cardinality(OfDay(lost, d))

\* Between two ticks Run knows what a restart would make it know, so that a
\* crash there changes nothing; an acknowledgement that was lost is what can
\* make them differ, until the next row.
RestartChangesNothing ==
  pc = "select" /\ lastRan # Latest => OfDay(lost, MonotonicDay(Latest)) # {}

\* While the process stays up and the database answers, the current day gets
\* its row, whatever failed before.
CaughtUp ==
  <>[](dbUp /\ pc # "down") =>
    <>[](MonotonicDay(Latest) = MonotonicDay(now))

==============================================================================
