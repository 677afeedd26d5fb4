----------------------------- MODULE StatusLoop -----------------------------
(***************************************************************************)
(* The monitoring loop of src/monitor/src/monitoring/monitoring.rs with    *)
(* the velocity series it feeds, the rules it checks and the pushes it     *)
(* sends (rules.rs, push.rs), while settings change, viewers come and go,  *)
(* the host's counters are reset and its clock is set back.                *)
(*                                                                         *)
(* One cumulative counter stands for every counter of the host (network    *)
(* bytes, disk sectors); how much it grew is settled when it is read.      *)
(* Time is counted in ticks, and every wait may take up to its limit.      *)
(* Viewers poll when they like: how long ago one did is left open.         *)
(***************************************************************************)
EXTENDS Rates, SequencesExt

CONSTANTS
  Interval,      \* interval_seconds
  LiveChoices,   \* the LiveSettings an operator may save
  GatherTime,    \* longest sampling with its nvidia-smi call
  ScriptTime,    \* EXTERNAL_COMMAND_TIMEOUT, for one of the script's functions
  PushList,      \* the names of the configured pushes, in order
  Times,         \* push rate: at most so many ...
  Window,        \* ... within so long
  SendTime,      \* REQUEST_TIMEOUT
  MaxRate,       \* fastest growth of the counter in one tick
  MaxAlerts,     \* bound: rules without a rate that fire in one cycle
  MaxNow,        \* bound: no cycle starts later
  MaxChanges     \* bound: settings saved, counters reset, clock changes

ASSUME LoopAssumption ==
  /\ Interval \in Nat \ {0}
  /\ LiveChoices \subseteq [extended_interval_secs : Nat, idle_pause_enabled : BOOLEAN]
  /\ Times \in Nat /\ Window \in Nat /\ MaxRate \in Nat

VARIABLES
  now,                \* time
  counter, settled,   \* the counter, and when its value was last settled
  back,               \* how far the wall clock has been set back
  changes,            \* settings, resets and clock changes so far
  live,               \* live_settings
  native,             \* native_status_available
  pc, left,           \* where the loop is, and how long it may wait there
  cycle, due,         \* cycle, extended_due
  sample, execution,  \* what this cycle has read so far
  metrics, todo,      \* the adapted metrics, and the pushes still to try
  current, velocity,  \* current_metrics, and the server's NetworkTimeSeries
  records,            \* PushRateLimiter
  confirmed,          \* when each push was confirmed; history
  skipped             \* cycles without an extended run, in a row; history

host == <<counter, settled, back, changes>>
settings == <<live, native>>
reading == <<sample, execution>>
alerting == <<metrics, todo, records, confirmed>>
published == <<current, velocity>>
loopVars == <<now, host, settings, pc, left, cycle, due, reading,
          alerting, published, skipped>>

Clock == now - back
Growth == 0..(MaxRate * (now - settled))
PushNames == ToSet(PushList)

\* Nothing read: a part of the status that is empty.
Empty == 0

\* ScriptExecution::default
Unexecuted == [status |-> FALSE, extended |-> FALSE]

-------------------------------------------------------------------------------
(* The schedule *)

\* Whole cycles in the interval of the extended collection, at least one.
ExtendedEvery(secs) == IF secs \div Interval = 0 THEN 1 ELSE secs \div Interval

is_extended_cycle(n, secs) == n % ExtendedEvery(secs) = 0

\* should_run_extended: idle when nobody polled within the threshold.
should_run_extended(idle) ==
  /\ is_extended_cycle(cycle, live.extended_interval_secs)
  /\ ~(live.idle_pause_enabled /\ idle)

-------------------------------------------------------------------------------
(* What a cycle publishes *)

\* refreshed_custom_cmds and the extended fields of adapt_status: the new
\* value after a successful SbStatusExt, otherwise the previous one.
Refreshed(fresh, field) ==
  IF execution.extended THEN fresh
  ELSE IF current = None THEN Empty ELSE current[field]

\* Mutant: a failed refresh is stamped like a successful one.
StampedAlways(stamp) == stamp

\* extended_updated_at
RefreshStamp(stamp) ==
  IF execution.extended \/ current = None THEN stamp
  ELSE current.extended_updated_at

\* Mutant: a counter that went backwards is used like any other.
UncheckedRate ==
  IF current = None THEN None
  ELSE Quotient(sample.counter - current.counter, Clock - current.timestamp)

\* compute_diskio_rate: against the metrics published last.
DiskioRate ==
  IF current = None THEN None
  ELSE DiskRate(sample.counter, Clock, current.counter, current.timestamp)

\* adapt_status.  SbStatusExt reads disk_smart, SbStatus the sensors and
\* custom_cmds; the cycle number stands for a value read in that cycle.
\* read is when the counter was read; history.
adapt_status ==
  [timestamp           |-> Clock,
   counter             |-> sample.counter,
   read                |-> sample.read,
   diskio_rate         |-> DiskioRate,
   disk_smart          |-> Refreshed(IF execution.extended THEN cycle ELSE Empty, "disk_smart"),
   custom_cmds         |-> Refreshed(IF execution.status THEN cycle ELSE Empty, "custom_cmds"),
   extended_updated_at |-> RefreshStamp(Clock)]

-------------------------------------------------------------------------------
(* PushRateLimiter *)

\* check: the oldest go while they are older than the window.
Recent(queue) ==
  LET old == CHOOSE n \in 0..Len(queue) :
               /\ \A i \in 1..n : now - queue[i] > Window
               /\ n < Len(queue) => now - queue[n + 1] <= Window
  IN  SubSeq(queue, old + 1, Len(queue))

\* Mutant: one push too many.
OneTooMany(name) == Len(Recent(records[name])) <= Times

Allowed(name) == Len(Recent(records[name])) < Times

-------------------------------------------------------------------------------
(* The loop *)

LoopInit ==
  /\ now = 0 /\ back = 0 /\ changes = 0
  /\ counter = 0 /\ settled = 0
  /\ live \in LiveChoices /\ native \in BOOLEAN
  /\ pc = "start" /\ left = 0
  /\ cycle = 0 /\ due = FALSE
  /\ sample = None /\ execution = Unexecuted
  /\ metrics = None /\ todo = <<>>
  /\ current = None /\ velocity = [net |-> EmptyNetwork, read |-> EmptySequence]
  /\ records = [p \in PushNames |-> <<>>] /\ confirmed = [p \in PushNames |-> <<>>]
  /\ skipped = 0

Goto(where, time) == pc' = where /\ left' = time

\* What belongs to the cycle ends with it.
EndCycle ==
  /\ due' = FALSE /\ sample' = None /\ execution' = Unexecuted
  /\ Goto("sleep", Interval)

\* A cycle starts: the settings are read once, and kept until the next.
Start ==
  /\ pc = "start" /\ now < MaxNow
  /\ \E idle \in BOOLEAN :
       /\ due' = should_run_extended(idle)
       /\ skipped' = IF due' \/ (live.idle_pause_enabled /\ idle) THEN 0 ELSE skipped + 1
  /\ cycle' = cycle + 1
  /\ Goto("sample", 0)
  /\ UNCHANGED <<now, host, settings, reading, alerting, published>>

\* The counter is read.
ReadCounter ==
  /\ counter' \in {counter + growth : growth \in Growth}
  /\ settled' = now
  /\ sample' = [counter |-> counter', read |-> now]
  /\ UNCHANGED <<back, changes>>

\* sbm_native::sample has read the counters; mounts and nvidia-smi may take
\* longer.  A panicking sampler ends the cycle.
Sample ==
  /\ pc = "sample"
  /\ \/ ReadCounter /\ Goto("gather", GatherTime) /\ UNCHANGED <<due, execution>>
     \/ EndCycle /\ UNCHANGED host
  /\ UNCHANGED <<now, settings, cycle, alerting, published, skipped>>

\* The script runs when due, or always where there is no native sampler.
Gathered ==
  /\ pc = "gather"
  /\ IF due THEN Goto("ext", ScriptTime)
     ELSE IF ~native THEN Goto("status", ScriptTime)
     ELSE Goto("adapt", 0)
  /\ UNCHANGED <<now, host, settings, cycle, due, reading, alerting, published, skipped>>

\* A function of the script that was run: it succeeded, failed or timed out.
ExtScript ==
  /\ pc = "ext"
  /\ \E ok \in BOOLEAN : execution' = [execution EXCEPT !.extended = ok]
  /\ Goto("status", ScriptTime)
  /\ UNCHANGED <<now, host, settings, cycle, due, sample, alerting, published, skipped>>

StatusScript ==
  /\ pc = "status"
  /\ \/ /\ execution' = [execution EXCEPT !.status = TRUE]
        /\ IF native THEN UNCHANGED <<sample, host>> ELSE ReadCounter
        /\ Goto("adapt", 0) /\ UNCHANGED due
     \/ native /\ Goto("adapt", 0) /\ UNCHANGED <<host, due, reading>>
     \/ ~native /\ EndCycle /\ UNCHANGED host
  /\ UNCHANGED <<now, settings, cycle, alerting, published, skipped>>

\* A function of the script that could not be run at all (execute_commands
\* returns its error): whatever the other one printed is dropped.
ScriptError ==
  /\ pc \in {"ext", "status"}
  /\ \/ native /\ execution' = Unexecuted /\ Goto("adapt", 0) /\ UNCHANGED <<due, sample>>
     \/ ~native /\ EndCycle
  /\ UNCHANGED <<now, host, settings, cycle, alerting, published, skipped>>

\* The metrics are adapted and the velocity series advances; then each rule
\* that fires tries every push in turn.
Adapt ==
  /\ pc = "adapt"
  /\ metrics' = adapt_status
  /\ velocity' = [net  |-> NetworkUpdate(velocity.net, sample.counter, Clock),
                  read |-> SequenceUpdate(velocity.read, sample.read)]
  /\ \E fired \in 0..MaxAlerts : todo' = FlattenSeq([i \in 1..fired |-> PushList])
  /\ Goto("alert", 0)
  /\ UNCHANGED <<now, host, settings, cycle, due, reading, records, confirmed, current, skipped>>

\* check_enhanced_rule, one push: skipped over its quota.
CheckQuota ==
  /\ pc = "alert" /\ todo # <<>>
  /\ records' = [records EXCEPT ![Head(todo)] = Recent(@)]
  /\ IF Allowed(Head(todo))
       THEN Goto("send", SendTime) /\ UNCHANGED todo
       ELSE todo' = Tail(todo) /\ UNCHANGED <<pc, left>>
  /\ UNCHANGED <<now, host, settings, cycle, due, reading, metrics, confirmed, published, skipped>>

\* Only a push that succeeded is charged to the quota.
Sent ==
  /\ pc = "send"
  /\ \/ /\ records' = [records EXCEPT ![Head(todo)] = Append(@, now)]
        /\ confirmed' = [confirmed EXCEPT ![Head(todo)] = Append(@, now)]
     \/ UNCHANGED <<records, confirmed>>
  /\ todo' = Tail(todo)
  /\ Goto("alert", 0)
  /\ UNCHANGED <<now, host, settings, cycle, due, reading, metrics, published, skipped>>

\* Viewers see the metrics of a cycle once its pushes are done.
Publish ==
  /\ pc = "alert" /\ todo = <<>>
  /\ current' = metrics
  /\ metrics' = None
  /\ EndCycle
  /\ UNCHANGED <<now, host, settings, cycle, todo, records, confirmed, velocity, skipped>>

Wake ==
  /\ pc = "sleep" /\ left = 0
  /\ Goto("start", 0)
  /\ UNCHANGED <<now, host, settings, cycle, due, reading, alerting, published, skipped>>

Loop == \/ Start \/ Sample \/ Gathered \/ ExtScript \/ StatusScript \/ ScriptError
        \/ Adapt \/ CheckQuota \/ Sent \/ Publish \/ Wake

-------------------------------------------------------------------------------
(* The host, and those who use the agent *)

Tick ==
  /\ left > 0
  /\ now' = now + 1 /\ left' = left - 1
  /\ UNCHANGED <<host, settings, pc, cycle, due, reading, alerting, published, skipped>>

Change == changes < MaxChanges /\ changes' = changes + 1

\* An interface or a disk is reset, or comes back: it counts from 0 again.
Reset ==
  /\ Change
  /\ counter' = 0 /\ settled' = now
  /\ UNCHANGED <<now, back, settings, pc, left, cycle, due, reading, alerting, published, skipped>>

ClockSetBack ==
  /\ Change
  /\ back' = back + 1
  /\ UNCHANGED <<now, counter, settled, settings, pc, left, cycle, due, reading, alerting, published, skipped>>

\* update_settings; the count of skipped cycles starts over.
SaveSettings ==
  /\ Change
  /\ live' \in LiveChoices \ {live}
  /\ skipped' = 0
  /\ UNCHANGED <<now, counter, settled, back, native, pc, left, cycle, due, reading, alerting, published>>

Environment == Tick \/ Reset \/ ClockSetBack \/ SaveSettings

LoopNext == Loop \/ Environment

LoopSpec == LoopInit /\ [][LoopNext]_loopVars

-------------------------------------------------------------------------------
(* Properties *)

\* What a rate divides never exceeds what the counter can have grown between
\* the two readings: resets and replugged devices give no rate or a low one,
\* never a spike (the checks in NetworkTimeSeries::speed and
\* compute_diskio_rate).  It bounds what is divided and not the divisor: the
\* stamps are taken when a status is adapted, not when its counters were read.
Grown(rate, reads) == rate = None \/ rate.num \in 0..(MaxRate * (reads.new - reads.old))
NoSpikeAfterReset ==
  /\ Grown(Speed(velocity.net.rx, velocity.net.stamps), velocity.read)
  /\ metrics # None /\ current # None =>
       Grown(metrics.diskio_rate, [old |-> current.read, new |-> metrics.read])

\* A confirmed push is one of at most Times in any window that ends with it,
\* whatever the sends, their failures and the pruned records did meanwhile.
QuotaHolds ==
  \A p \in PushNames : \A i \in DOMAIN confirmed[p] :
    Cardinality({j \in 1..i : confirmed[p][i] - confirmed[p][j] <= Window}) <= Times

\* The extended data of an agent that is not paused is fresh, or says it is
\* not: while the settings stay, the cycles in a row without an extended run
\* never fill extended_interval_secs, not after a pause and not after cycles
\* that failed; and from one published sample to the next SMART data changes
\* exactly when extended_updated_at says so, to what that cycle read.
ExtendedIsFresh ==
  /\ [](skipped * Interval < live.extended_interval_secs \/ skipped = 0)
  /\ [][current # None /\ current' # current =>
          \/ /\ current'.disk_smart = cycle
             /\ current'.extended_updated_at = current'.timestamp
          \/ /\ current'.disk_smart = current.disk_smart
             /\ current'.extended_updated_at = current.extended_updated_at]_current

=============================================================================
