------------------------------- MODULE Rates -------------------------------
(***************************************************************************)
(* The arithmetic between two samples of the host: speeds from cumulative  *)
(* counters, CPU usage, and the small series the agent keeps of them.      *)
(*                                                                         *)
(* A quotient is kept as the pair of its two whole numbers, so that no     *)
(* rounding is invented; None is Rust's None (or an empty list entry).     *)
(***************************************************************************)
EXTENDS Integers, Sequences

CONSTANT None

Quotient(n, d) == [num |-> n, den |-> d]

\* TimeSequence: the last two values pushed.
EmptySequence == [old |-> None, new |-> None]
SequenceUpdate(s, value) == [old |-> s.new, new |-> value]
IsReady(s) == s.old # None /\ s.new # None

\* Time between the two stamps, or None unless it is positive.
ElapsedSeconds(stamps) ==
  IF ~IsReady(stamps) \/ stamps.new <= stamps.old THEN None
  ELSE stamps.new - stamps.old

\* NetworkTimeSeries::speed: a counter that went backwards has no speed.
Speed(counter, stamps) ==
  LET elapsed == ElapsedSeconds(stamps)
  IN  IF elapsed = None \/ ~IsReady(counter) \/ counter.new < counter.old THEN None
      ELSE Quotient(counter.new - counter.old, elapsed)

EmptyNetwork == [rx |-> EmptySequence, stamps |-> EmptySequence]
NetworkUpdate(net, rx, stamp) ==
  [rx |-> SequenceUpdate(net.rx, rx), stamps |-> SequenceUpdate(net.stamps, stamp)]

\* compute_diskio_rate for one device: prev is the previous reading of the
\* same device, None when it was not there.
DiskRate(now, stamp, prev, prev_stamp) ==
  IF prev_stamp = None \/ now = None \/ prev = None THEN None
  ELSE IF stamp <= prev_stamp \/ now < prev THEN None
  ELSE Quotient(now - prev, stamp - prev_stamp)

\* core_usage_percent on Linux: the share of the window's ticks that were not
\* idle, None where it is unusable, clamped to the range of a percentage.
CoreUsage(prev, now) ==
  IF prev = None THEN None
  ELSE LET total == now.total - prev.total
           used  == now.used - prev.used
       IN  IF total <= 0 \/ used < 0 THEN None
           ELSE Quotient(IF used > total THEN total ELSE used, total)

\* adapt_cpu: the list of cores is matched with the previous one by position.
CoreUsages(prev, now) ==
  [i \in 1..Len(now) |->
     CoreUsage(IF i \in 1..Len(prev) THEN prev[i] ELSE None, now[i])]

\* TimeSeries::add_point: the oldest point goes when the series is full.
AddPoint(points, point, max_points) ==
  LET kept == IF Len(points) >= max_points THEN Tail(points) ELSE points
  IN  Append(kept, point)
=============================================================================
