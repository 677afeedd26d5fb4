------------------------------ MODULE Scrollback ------------------------------
(***************************************************************************)
(* The replay buffer of a terminal session: `Scrollback` in                *)
(* src/monitor/src/api/ws/session.rs.                                      *)
(*                                                                         *)
(* `buf` holds the most recent output, `next_seq` counts every byte ever   *)
(* pushed.  `produced` is a history variable the code does not have: the   *)
(* whole output, which the properties compare the buffer with.             *)
(***************************************************************************)
EXTENDS Integers, Sequences

CONSTANTS
  Byte,         \* the values a byte of output may have
  Capacity,     \* Scrollback::capacity
  MaxProduced   \* bound: total output; the code has none

ASSUME CapacityAssumption == Capacity \in Nat
ASSUME BoundAssumption == MaxProduced \in Nat

VARIABLES buf, next_seq, produced

scrollbackVars == <<buf, next_seq, produced>>

-------------------------------------------------------------------------------

(* A single write larger than the buffer: only its tail survives. *)
KeepTail(data) ==
  IF Len(data) > Capacity
    THEN SubSeq(data, Len(data) - Capacity + 1, Len(data))
    ELSE data

(* saturating_sub: how many of the oldest bytes `drain` takes out. *)
Overflow(held, incoming) ==
  IF held + incoming > Capacity THEN held + incoming - Capacity ELSE 0

(* Drop the overflow at the front, append what is kept of the write. *)
Appended(old, data) ==
  LET kept == KeepTail(data)
  IN  SubSeq(old, Overflow(Len(old), Len(kept)) + 1, Len(old)) \o kept

StartSeq == next_seq - Len(buf)

(* Mutant: the last byte rendered is sent again. *)
ReplayOverlapping(since) ==
  IF since >= next_seq
    THEN [kind |-> "gap", data |-> << >>]
    ELSE IF since <= StartSeq
      THEN [kind |-> "truncated", data |-> buf]
      ELSE [kind |-> "gap", data |-> SubSeq(buf, since - StartSeq, Len(buf))]

(* What a client that has rendered `since` bytes is sent. *)
ReplayFrom(since) ==
  IF since >= next_seq
    THEN [kind |-> "gap", data |-> << >>]
    ELSE IF since < StartSeq
      THEN [kind |-> "truncated", data |-> buf]
      ELSE [kind |-> "gap", data |-> SubSeq(buf, since - StartSeq + 1, Len(buf))]

-------------------------------------------------------------------------------

ScrollbackInit ==
  /\ buf = << >>
  /\ next_seq = 0
  /\ produced = << >>

Push(data) ==
  /\ buf' = Appended(buf, data)
  /\ next_seq' = next_seq + Len(data)
  /\ produced' = produced \o data

(* The chunks a shell may write, up to the bound on the whole output. *)
Chunks(n) == UNION { [1..m -> Byte] : m \in 0..n }

ScrollbackNext == \E data \in Chunks(MaxProduced - Len(produced)) : Push(data)

ScrollbackSpec == ScrollbackInit /\ [][ScrollbackNext]_scrollbackVars

-------------------------------------------------------------------------------

ScrollbackTypeOK ==
  /\ buf \in Seq(Byte)
  /\ Len(buf) <= Capacity
  /\ next_seq \in Nat
  /\ produced \in Seq(Byte)

(* The sequence number of the oldest byte a buffer of this capacity can    *)
(* still hold once `total` bytes have been produced.                       *)
WindowStart(total) == IF total > Capacity THEN total - Capacity ELSE 0

(* The buffer is exactly the newest output: nothing in it is out of place, *)
(* nothing is dropped before the capacity forces it, and no write, however *)
(* long, overruns the capacity.  Every replay rests on this relation       *)
(* between `buf` and `next_seq` (session.rs, push and start_seq).          *)
HoldsNewestOutput ==
  /\ next_seq = Len(produced)
  /\ Len(buf) = Len(produced) - WindowStart(Len(produced))
  /\ \A i \in 1..Len(buf) : buf[i] = produced[WindowStart(Len(produced)) + i]

(* A reattaching client is sent precisely the bytes it has not rendered,   *)
(* or is told its position is gone and sent all that is left; it is told   *)
(* so only when the missing bytes really are gone (session.rs,             *)
(* replay_from).                                                           *)
ReplayIsExact ==
  \A since \in 0..Len(produced) :
    LET reply == ReplayFrom(since)
        left  == WindowStart(Len(produced))
    IN  IF reply.kind = "gap"
          THEN reply.data = SubSeq(produced, since + 1, Len(produced))
          ELSE /\ since < left
               /\ reply.data = SubSeq(produced, left + 1, Len(produced))

=============================================================================
