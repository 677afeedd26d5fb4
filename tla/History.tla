-------------------------------- MODULE History --------------------------------
(***************************************************************************)
(* What the agent tells of the past: the velocity history it keeps in      *)
(* memory (src/monitor/src/monitoring/velocity.rs, timeseries.rs) and the  *)
(* history it computes from the table system_metrics (store_metrics in     *)
(* monitoring.rs, get_metrics_history in src/monitor/src/api/server.rs).   *)
(*                                                                         *)
(* The received bytes stand for each of the four cumulative counters, and  *)
(* a cycle is one step: what can happen within one is in StatusLoop.  The  *)
(* averages of readings that are no counters are left out.  Asking changes *)
(* nothing, so the answers are operators of the state.                     *)
(***************************************************************************)
EXTENDS Rates, SequencesExt, FiniteSetsExt

CONSTANTS
  Growths,        \* bytes that may arrive in one second
  Loads,          \* ticks a second may bring: core -> [used, total]
  CoreLists,      \* lists of cores a cycle may read; empty when that failed
  VelocityPoints, \* points of the velocity history
  MinuteSecs, DaySecs,      \* seconds of a minute and of a day
  MinMinutes, MaxMinutes,   \* the clamp of ?minutes=
  MinPoints, MAX_POINTS,    \* the clamp of ?max_points=
  Asked,          \* the requests: pairs of minutes and max_points
  MaxSeconds,     \* bound on the clock
  MaxResets       \* bound on interface resets and reboots

Cores == UNION {DOMAIN l : l \in Loads}

(* No core but the last goes away: what is at a place of one list is at    *)
(* that place of every other.                                              *)
CoresKeepPlaces ==
  \A l, m \in CoreLists : \A i \in DOMAIN l \cap DOMAIN m : l[i] = m[i]

ASSUME HistoryAssumption ==
  /\ Growths \subseteq Nat
  /\ Loads \subseteq [Cores -> [used : Nat, total : Nat]]
  /\ CoreLists \subseteq Seq(Cores) /\ \A l \in CoreLists : IsInjective(l)
  /\ VelocityPoints \in Nat \ {0} /\ MinuteSecs \in Nat \ {0} /\ DaySecs \in Nat \ {0}
  /\ MinMinutes \in Nat \ {0} /\ MaxMinutes \in Nat /\ MinMinutes <= MaxMinutes
  /\ MinPoints \in Nat \ {0} /\ MAX_POINTS \in Nat /\ MinPoints <= MAX_POINTS
  /\ Asked \subseteq Int \X Int

VARIABLES
  seconds,  \* the host's clock
  rx,       \* the interface's counter
  flowed,   \* all that ever arrived; history
  ticks,    \* core -> [used, total], since the host started
  resets,   \* interface resets and reboots so far
  cores,    \* cpu_cores of current_metrics: a list of [core, used, total]
  series,   \* VelocityProcessor: the network series and metrics_history
  table,    \* system_metrics: rows [at, rx, flowed]
  counted   \* core -> busy ticks its usages stand for since the host started;
            \* history

historyVars == <<seconds, rx, flowed, ticks, resets, cores, series, table, counted>>

NoTicks == [c \in Cores |-> [used |-> 0, total |-> 0]]
NoneCounted == [c \in Cores |-> 0]
NoSeries == [net |-> EmptyNetwork, points |-> <<>>]

HistoryInit ==
  /\ seconds = 0 /\ rx = 0 /\ flowed = 0 /\ resets = 0
  /\ ticks = NoTicks /\ counted = NoneCounted
  /\ cores = <<>> /\ series = NoSeries /\ table = <<>>

-------------------------------------------------------------------------------
(* The host *)

SecondPassesBy ==
  /\ seconds < MaxSeconds
  /\ seconds' = seconds + 1
  /\ \E g \in Growths : rx' = rx + g /\ flowed' = flowed + g
  /\ \E l \in Loads :
       ticks' = [c \in DOMAIN ticks |-> [used  |-> ticks[c].used + l[c].used,
                                         total |-> ticks[c].total + l[c].total]]
  /\ UNCHANGED <<resets, cores, series, table, counted>>

InterfaceResets ==
  /\ resets < MaxResets
  /\ resets' = resets + 1
  /\ rx' = 0
  /\ UNCHANGED <<seconds, flowed, ticks, cores, series, table, counted>>

(* The agent starts with the host; only the table is there again. *)
HostReboots ==
  /\ resets < MaxResets
  /\ resets' = resets + 1
  /\ rx' = 0
  /\ ticks' = NoTicks /\ counted' = NoneCounted
  /\ cores' = <<>> /\ series' = NoSeries
  /\ UNCHANGED <<seconds, flowed, table>>

-------------------------------------------------------------------------------
(* A cycle *)

UsagesOf(prev, new) == CoreUsages(prev, new)

ReadTicks(list) ==
  [i \in DOMAIN list |-> [core |-> list[i], used |-> ticks[list[i]].used,
                          total |-> ticks[list[i]].total]]

\* Busy ticks that the usage of a core stands for.
Accounted(c, list, usages) ==
  IF \E i \in DOMAIN list : list[i] = c /\ usages[i] # None
  THEN usages[CHOOSE i \in DOMAIN list : list[i] = c].num
  ELSE 0

(* The usages that get_average_usage_percent averages, if any.  A list     *)
(* that could not be read leaves the previous ones.                        *)
ReadUsages(usages) ==
  IF usages # <<>> THEN SelectSeq(usages, LAMBDA u : u # None)
  ELSE IF series.points = <<>> THEN <<>>
  ELSE Last(series.points).usages

(* VelocityProcessor::update *)
UpdatedSeries(usages) ==
  LET net == NetworkUpdate(series.net, rx, seconds)
  IN [net |-> net,
      points |-> AddPoint(series.points,
                   [at |-> seconds, flowed |-> flowed, usages |-> ReadUsages(usages),
                    rx_speed |-> Speed(net.rx, net.stamps)], VelocityPoints)]

(* The row may fail to be stored; the rest goes on. *)
Collects ==
  /\ table # <<>> => Last(table).at < seconds
  /\ series.points # <<>> => Last(series.points).at < seconds
  /\ \E list \in CoreLists :
       LET usages == UsagesOf(cores, ReadTicks(list))
       IN /\ cores' = ReadTicks(list)
          /\ series' = UpdatedSeries(usages)
          /\ counted' = [c \in DOMAIN counted |-> counted[c] + Accounted(c, list, usages)]
  /\ \/ table' = Append(table, [at |-> seconds, rx |-> rx, flowed |-> flowed])
     \/ UNCHANGED table
  /\ UNCHANGED <<seconds, rx, flowed, ticks, resets>>

(* The cleanup removes from the old end. *)
OldestRowGoes ==
  /\ table # <<>>
  /\ table' = Tail(table)
  /\ UNCHANGED <<seconds, rx, flowed, ticks, resets, cores, series, counted>>

HistoryNext ==
  \/ SecondPassesBy
  \/ InterfaceResets
  \/ HostReboots
  \/ Collects
  \/ OldestRowGoes

HistorySpec == HistoryInit /\ [][HistoryNext]_historyVars

-------------------------------------------------------------------------------
(* The answers *)

Clamped(n, low, high) == IF n < low THEN low ELSE IF n > high THEN high ELSE n

(* get_velocity_history *)
velocity_history(limit) ==
  IF Len(series.points) > limit
  THEN SubSeq(series.points, Len(series.points) - limit + 1, Len(series.points))
  ELSE series.points

(* `timestamp >= datetime('now', ...)` compares texts, "...T..." with      *)
(* "... ...": a row of the limit's own day always passes.                  *)
InWindow(row, minutes) ==
  row.at \div DaySecs >= (seconds - minutes * MinuteSecs) \div DaySecs

(* What a request becomes. *)
MinutesOf(asked) == Clamped(asked[1], MinMinutes, MaxMinutes)
PointsOf(asked) == Clamped(asked[2], MinPoints, MAX_POINTS)

(* Rounded up. *)
bucket_secs(asked) == (MinutesOf(asked) * MinuteSecs + PointsOf(asked) - 1) \div PointsOf(asked)

RowsIn(bucket, asked) ==
  {i \in DOMAIN table : InWindow(table[i], MinutesOf(asked))
                        /\ table[i].at \div bucket_secs(asked) = bucket}

BucketsOf(asked) ==
  {table[i].at \div bucket_secs(asked) : i \in {j \in DOMAIN table : InWindow(table[j], MinutesOf(asked))}}

(* avg(network_rx_bytes), as a sum and a count. *)
Average(rows) == [sum   |-> SumFunction([i \in rows |-> table[i].rx]),
                  count |-> Cardinality(rows)]

RateBetween(before, after, elapsed) ==
  LET diff == after.sum * before.count - before.sum * after.count
  IN Quotient(IF diff < 0 THEN 0 ELSE diff, before.count * after.count * elapsed)

SpeedAt(bucket, asked) ==
  LET earlier == {c \in BucketsOf(asked) : c < bucket}
  IN IF earlier = {} THEN Quotient(0, 1)
     ELSE RateBetween(Average(RowsIn(Max(earlier), asked)), Average(RowsIn(bucket, asked)),
                      (bucket - Max(earlier)) * bucket_secs(asked))

(* Mutant: the buckets that fit are the first ones. *)
OldestBuckets(buckets, n) == {b \in buckets : Cardinality({c \in buckets : c < b}) < n}

NewestBuckets(buckets, n) == {b \in buckets : Cardinality({c \in buckets : c > b}) < n}

(* One point for each bucket, whose order is theirs.  Speeds are taken over *)
(* the whole series, which then loses its old end.                         *)
get_metrics_history(asked) ==
  {[bucket |-> b, rx_speed |-> SpeedAt(b, asked)]
     : b \in NewestBuckets(BucketsOf(asked), PointsOf(asked))}

-------------------------------------------------------------------------------
(* Properties *)

(* What a rate says passed in this time is no more than what did. *)
NoMoreThan(rate, time, bytes) == rate.num >= 0 /\ rate.num * time <= bytes * rate.den

(* A history has no more points than asked for, the newest ones, and one   *)
(* for every row of the window that is not older than them all.  A speed   *)
(* never stands for more than what arrived since the bucket before, across *)
(* gaps, resets, reboots and cleaned rows (get_metrics_history).           *)
HistoryIsTrue ==
  \A asked \in Asked :
    LET points == get_metrics_history(asked)
        bucket(row) == row.at \div bucket_secs(asked)
        before(b) == {bucket(table[i]) : i \in DOMAIN table} \cap (0 .. b - 1)
        through(b) == {table[i].flowed : i \in RowsIn(b, asked)}
    IN /\ Cardinality(points) <= MAX_POINTS
       /\ Cardinality(points) <= asked[2] \/ Cardinality(points) <= MinPoints
       /\ \A i \in DOMAIN table : table[i].at >= seconds - MinutesOf(asked) * MinuteSecs =>
            \/ \E p \in points : p.bucket = bucket(table[i])
            \/ /\ Cardinality(points) >= asked[2] \/ Cardinality(points) >= MAX_POINTS
               /\ \A p \in points : bucket(table[i]) < p.bucket
       /\ \A p \in points : p.rx_speed.num # 0 =>
            LET last == Max(before(p.bucket))
            IN NoMoreThan(p.rx_speed, (p.bucket - last) * bucket_secs(asked),
                          Max(through(p.bucket)) - Min(through(last)))

(* "Usage for this core over the sampling window" (timeseries.rs:165): the *)
(* usages of a core, one cycle after another, never stand for more busy    *)
(* ticks than that core had, whichever readings failed (adapt_cpu,         *)
(* core_usage_percent).                                                    *)
UsageIsItsCores == \A c \in DOMAIN counted : counted[c] <= ticks[c].used

(* The velocity history has its newest points in order, each of whose      *)
(* speeds stands for no more than what arrived since the cycle before      *)
(* (VelocityProcessor::update), and usages do not overstate.               *)
VelocityIsTrue ==
  /\ Len(series.points) <= VelocityPoints
  /\ \A i, j \in DOMAIN series.points : j = i + 1 =>
       LET old == series.points[i]
           new == series.points[j]
       IN new.rx_speed # None => NoMoreThan(new.rx_speed, new.at - old.at, new.flowed - old.flowed)
  /\ UsageIsItsCores

(* Neither history overstates: no traffic, no usage and no point that the  *)
(* samples do not account for.                                             *)
HistoriesAreTrue == HistoryIsTrue /\ VelocityIsTrue
=============================================================================
