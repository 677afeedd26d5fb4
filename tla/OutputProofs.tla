----------------------------- MODULE OutputProofs -----------------------------
(***************************************************************************)
(* Output on its way: theorems about Scrollback, LocalShell and            *)
(* ChildCommand, each about its own specification, for bytes and programs  *)
(* of any kind, any capacity and any amount of output.                     *)
(***************************************************************************)
EXTENDS Scrollback, LocalShell, ChildCommand,
        SequenceTheorems, FiniteSetTheorems, TLAPS

----------------------------------------------------------------------------
(* The replay buffer: its contents are an inductive invariant together with
   the types; the exactness of a replay follows from it in every state.      *)

IInv == ScrollbackTypeOK /\ HoldsNewestOutput

(* The rest of a sequence from a position on. *)
LEMMA Slice ==
  ASSUME NEW S, NEW s \in Seq(S), NEW m \in 0..Len(s)
  PROVE  /\ SubSeq(s, m + 1, Len(s)) \in Seq(S)
         /\ Len(SubSeq(s, m + 1, Len(s))) = Len(s) - m
         /\ \A i \in 1..(Len(s) - m) : SubSeq(s, m + 1, Len(s))[i] = s[m + i]
<1>1. Len(s) \in Nat /\ m \in Nat /\ m + 1 \in Int /\ Len(s) \in Int
  BY LenProperties
<1>2. \A i \in (m + 1)..Len(s) : s[i] \in S
  BY <1>1, ElementOfSeq
<1>3. /\ SubSeq(s, m + 1, Len(s)) \in Seq(S)
      /\ Len(SubSeq(s, m + 1, Len(s)))
           = IF m + 1 <= Len(s) THEN Len(s) - (m + 1) + 1 ELSE 0
      /\ \A i \in 1..(Len(s) - (m + 1) + 1) :
           SubSeq(s, m + 1, Len(s))[i] = s[(m + 1) + i - 1]
  BY <1>1, <1>2, SubSeqProperties
<1>4. Len(s) - (m + 1) + 1 = Len(s) - m /\ (m + 1 <= Len(s) \/ Len(s) - m = 0)
  BY <1>1
<1>5. \A i \in 1..(Len(s) - m) : (m + 1) + i - 1 = m + i
  BY <1>1
<1> QED BY <1>1, <1>3, <1>4, <1>5

(* Where the window of the newest output starts after a write of d bytes,  *)
(* of which k are kept, to a buffer of b bytes after p were produced.      *)
LEMMA WindowMoves ==
  ASSUME NEW p \in Nat, NEW d \in Nat, NEW b \in Nat, NEW k \in Nat,
         b = p - WindowStart(p), k = d - WindowStart(d)
  PROVE  /\ Overflow(b, k) \in 0..b
         /\ b - Overflow(b, k) + k = p + d - WindowStart(p + d)
         /\ b - Overflow(b, k) + k <= Capacity
         /\ Overflow(b, k) < b
              => WindowStart(p + d) = WindowStart(p) + Overflow(b, k)
         /\ WindowStart(p + d) + (b - Overflow(b, k)) = p + WindowStart(d)
         /\ WindowStart(p) \in 0..p /\ WindowStart(d) \in 0..d
         /\ WindowStart(p + d) \in Nat
BY CapacityAssumption DEF Overflow, WindowStart

(* What is kept of a write: its last bytes, as many as fit. *)
LEMMA KeptTail ==
  ASSUME NEW data \in Seq(Byte)
  PROVE  /\ KeepTail(data) \in Seq(Byte)
         /\ Len(KeepTail(data)) = Len(data) - WindowStart(Len(data))
         /\ \A i \in 1..Len(KeepTail(data)) :
              KeepTail(data)[i] = data[WindowStart(Len(data)) + i]
<1> USE CapacityAssumption
<1>1. Len(data) \in Nat
  BY LenProperties
<1>2. CASE Len(data) > Capacity
  <2> DEFINE m == Len(data) - Capacity
  <2>1. KeepTail(data) = SubSeq(data, m + 1, Len(data))
    BY <1>2 DEF KeepTail
  <2>2. m \in 0..Len(data) /\ WindowStart(Len(data)) = m
    BY <1>1, <1>2 DEF WindowStart
  <2> HIDE DEF m
  <2> QED BY <2>1, <2>2, Slice
<1>3. CASE ~(Len(data) > Capacity)
  BY <1>1, <1>3 DEF WindowStart, KeepTail
<1> QED BY <1>2, <1>3

(* The types and the window survive a write of any length. *)
LEMMA PushKeepsWindow ==
  ASSUME IInv, NEW data \in Seq(Byte), Push(data)
  PROVE  IInv'
<1> DEFINE kept == KeepTail(data)
           over == Overflow(Len(buf), Len(kept))
           rest == SubSeq(buf, over + 1, Len(buf))
           left == WindowStart(Len(produced))
           next == WindowStart(Len(produced'))
           cut  == WindowStart(Len(data))
<1>1. /\ buf \in Seq(Byte) /\ Len(buf) \in Nat
      /\ produced \in Seq(Byte) /\ Len(produced) \in Nat
      /\ Len(data) \in Nat /\ next_seq = Len(produced)
      /\ Len(buf) = Len(produced) - left
      /\ \A i \in 1..Len(buf) : buf[i] = produced[left + i]
  BY LenProperties DEF IInv, ScrollbackTypeOK, HoldsNewestOutput
<1>2. /\ kept \in Seq(Byte) /\ Len(kept) \in Nat
      /\ Len(kept) = Len(data) - cut
      /\ \A i \in 1..Len(kept) : kept[i] = data[cut + i]
  BY KeptTail, LenProperties
<1> HIDE DEF kept
<1>3. /\ produced' \in Seq(Byte)
      /\ Len(produced') = Len(produced) + Len(data)
      /\ \A i \in 1..(Len(produced) + Len(data)) :
           produced'[i] = IF i <= Len(produced) THEN produced[i]
                                                ELSE data[i - Len(produced)]
  BY <1>1, ConcatProperties DEF Push
<1>4. /\ over \in 0..Len(buf)
      /\ Len(buf) - over + Len(kept) = Len(produced) + Len(data) - next
      /\ Len(buf) - over + Len(kept) <= Capacity
      /\ over < Len(buf) => next = left + over
      /\ next + (Len(buf) - over) = Len(produced) + cut
      /\ left \in 0..Len(produced) /\ cut \in 0..Len(data) /\ next \in Nat
  BY <1>1, <1>2, <1>3, WindowMoves
<1> HIDE DEF over, left, next, cut
<1>5. /\ rest \in Seq(Byte)
      /\ Len(rest) = Len(buf) - over
      /\ \A i \in 1..(Len(buf) - over) : rest[i] = buf[over + i]
  BY <1>1, <1>4, Slice
<1>6. buf' = rest \o kept
  BY DEF Push, Appended, kept, over
<1> HIDE DEF rest
<1>7. /\ buf' \in Seq(Byte)
      /\ Len(buf') = Len(rest) + Len(kept)
      /\ \A i \in 1..(Len(rest) + Len(kept)) :
           buf'[i] = IF i <= Len(rest) THEN rest[i] ELSE kept[i - Len(rest)]
  BY <1>2, <1>5, <1>6, ConcatProperties
<1>8. next_seq' = Len(produced')
  BY <1>1, <1>3 DEF Push
<1>9. Len(buf') = Len(produced') - next /\ Len(buf') <= Capacity
  BY <1>3, <1>4, <1>5, <1>7
<1>10. ASSUME NEW i \in 1..Len(buf')
       PROVE  buf'[i] = produced'[next + i]
  <2>1. CASE i <= Len(rest)
    <3>1. i \in 1..(Len(buf) - over) /\ over + i \in 1..Len(buf)
      BY <1>1, <1>4, <1>5, <2>1
    <3>2. buf'[i] = rest[i] /\ rest[i] = buf[over + i]
      BY <1>5, <1>7, <2>1, <3>1
    <3>3. buf[over + i] = produced[left + (over + i)]
      BY <1>1, <3>1
    <3>4. /\ next + i = left + (over + i)
          /\ next + i \in 1..(Len(produced) + Len(data))
          /\ next + i <= Len(produced)
      BY SMTT(30), <1>1, <1>4, <3>1
    <3>5. produced'[next + i] = produced[next + i]
      BY <1>3, <3>4
    <3> QED BY <3>2, <3>3, <3>4, <3>5
  <2>2. CASE ~(i <= Len(rest))
    <3>1. /\ i \in 1..(Len(rest) + Len(kept))
          /\ i - Len(rest) \in 1..Len(kept)
      BY <1>1, <1>2, <1>4, <1>5, <1>7, <2>2
    <3>2. buf'[i] = kept[i - Len(rest)]
      BY <1>7, <2>2, <3>1
    <3>3. kept[i - Len(rest)] = data[cut + (i - Len(rest))]
      BY <1>2, <3>1
    <3>4. /\ next + i \in 1..(Len(produced) + Len(data))
          /\ ~(next + i <= Len(produced))
          /\ next + i - Len(produced) = cut + (i - Len(rest))
      <4>1. /\ Len(rest) = Len(buf) - over /\ Len(kept) = Len(data) - cut
            /\ next + (Len(buf) - over) = Len(produced) + cut
            /\ over \in Int /\ next \in Int /\ cut \in Int /\ i \in Int
            /\ Len(buf) \in Int /\ Len(produced) \in Int /\ Len(data) \in Int
            /\ cut >= 0
            /\ i - Len(rest) >= 1 /\ i - Len(rest) <= Len(kept)
        BY <1>1, <1>2, <1>4, <1>5, <3>1
      <4> QED BY <4>1
    <3>5. produced'[next + i] = data[next + i - Len(produced)]
      <4>1. \A j \in 1..(Len(produced) + Len(data)) :
              ~(j <= Len(produced)) => produced'[j] = data[j - Len(produced)]
        BY <1>3
      <4>2. next \in Int /\ i \in Int /\ Len(produced) \in Int /\ Len(data) \in Int
        BY <1>1, <1>4
      <4> QED BY <3>4, <4>1, <4>2
    <3> QED BY <3>2, <3>3, <3>4, <3>5
  <2> QED BY <2>1, <2>2
<1>11. ScrollbackTypeOK'
  BY <1>1, <1>3, <1>7, <1>8, <1>9 DEF ScrollbackTypeOK
<1>12. HoldsNewestOutput'
  BY <1>8, <1>9, <1>10 DEF HoldsNewestOutput, next
<1> QED BY <1>11, <1>12 DEF IInv

LEMMA Step == IInv /\ [ScrollbackNext]_scrollbackVars => IInv'
<1> SUFFICES ASSUME IInv, [ScrollbackNext]_scrollbackVars
             PROVE  IInv'
  OBVIOUS
<1>1. CASE ScrollbackNext
  <2>1. PICK data \in Chunks(MaxProduced - Len(produced)) : Push(data)
    BY <1>1 DEF ScrollbackNext
  <2>2. data \in Seq(Byte)
    <3>1. PICK m \in 0..(MaxProduced - Len(produced)) : data \in [1..m -> Byte]
      BY <2>1 DEF Chunks
    <3>2. m \in Nat
      BY <3>1
    <3> QED BY <3>1, <3>2, SeqDef
  <2> QED BY <2>1, <2>2, PushKeepsWindow
<1>2. CASE UNCHANGED scrollbackVars
  BY <1>2 DEF scrollbackVars, IInv, ScrollbackTypeOK, HoldsNewestOutput
<1> QED BY <1>1, <1>2

LEMMA Start == ScrollbackInit => IInv
<1> SUFFICES ASSUME ScrollbackInit PROVE IInv
  OBVIOUS
<1>1. << >> \in Seq(Byte) /\ Len(<< >>) = 0
  BY EmptySeq
<1> QED BY <1>1, CapacityAssumption
        DEF ScrollbackInit, IInv, ScrollbackTypeOK, HoldsNewestOutput, WindowStart

LEMMA Invariance == ScrollbackSpec => []IInv
BY Start, Step, PTL DEF ScrollbackSpec

(* Every variable keeps its type, and the buffer its capacity (session.rs, *)
(* Scrollback::push).                                                      *)
THEOREM TypeCorrect == ScrollbackSpec => []ScrollbackTypeOK
<1>1. IInv => ScrollbackTypeOK
  BY DEF IInv
<1> QED BY Invariance, <1>1, PTL

(* The buffer is exactly the newest output (session.rs, push).             *)
THEOREM BufferIsTheWindow == ScrollbackSpec => []HoldsNewestOutput
<1>1. IInv => HoldsNewestOutput
  BY DEF IInv
<1> QED BY Invariance, <1>1, PTL

-------------------------------------------------------------------------------

(* What the two properties say of the state, in one place. *)
LEMMA Facts ==
  ASSUME IInv
  PROVE  /\ buf \in Seq(Byte) /\ Len(buf) \in Nat
         /\ produced \in Seq(Byte) /\ Len(produced) \in Nat
         /\ next_seq = Len(produced)
         /\ WindowStart(Len(produced)) \in 0..Len(produced)
         /\ Len(buf) = Len(produced) - WindowStart(Len(produced))
         /\ StartSeq = WindowStart(Len(produced))
         /\ \A i \in 1..Len(buf) :
              buf[i] = produced[WindowStart(Len(produced)) + i]
<1>1. /\ buf \in Seq(Byte) /\ Len(buf) \in Nat
      /\ produced \in Seq(Byte) /\ Len(produced) \in Nat
  BY LenProperties DEF IInv, ScrollbackTypeOK
<1>2. WindowStart(Len(produced)) \in 0..Len(produced)
  BY <1>1, CapacityAssumption DEF WindowStart
<1> QED BY <1>1, <1>2 DEF IInv, HoldsNewestOutput, StartSeq

(* Slicing the buffer is slicing the output. *)
LEMMA WindowSlice ==
  ASSUME IInv, NEW at \in WindowStart(Len(produced))..Len(produced)
  PROVE  SubSeq(buf, at - WindowStart(Len(produced)) + 1, Len(buf))
           = SubSeq(produced, at + 1, Len(produced))
<1> DEFINE left == WindowStart(Len(produced))
           b == SubSeq(buf, (at - left) + 1, Len(buf))
           p == SubSeq(produced, at + 1, Len(produced))
<1>1. /\ buf \in Seq(Byte) /\ Len(buf) \in Nat
      /\ produced \in Seq(Byte) /\ Len(produced) \in Nat
      /\ left \in 0..Len(produced)
      /\ Len(buf) = Len(produced) - left
      /\ \A i \in 1..Len(buf) : buf[i] = produced[left + i]
  BY Facts
<1> HIDE DEF left
<1>2. /\ at \in 0..Len(produced) /\ at - left \in 0..Len(buf)
      /\ Len(buf) - (at - left) = Len(produced) - at
  BY <1>1 DEF left
<1>3. /\ b \in Seq(Byte) /\ Len(b) = Len(buf) - (at - left)
      /\ \A i \in 1..(Len(buf) - (at - left)) : b[i] = buf[(at - left) + i]
  BY <1>1, <1>2, Slice
<1>4. /\ p \in Seq(Byte) /\ Len(p) = Len(produced) - at
      /\ \A i \in 1..(Len(produced) - at) : p[i] = produced[at + i]
  BY <1>1, <1>2, Slice
<1> HIDE DEF b, p
<1>5. ASSUME NEW i \in 1..Len(b) PROVE b[i] = p[i]
  <2>1. /\ i \in 1..(Len(produced) - at)
        /\ (at - left) + i \in 1..Len(buf)
        /\ left + ((at - left) + i) = at + i
    BY <1>1, <1>2, <1>3
  <2>2. b[i] = buf[(at - left) + i]
    BY <1>2, <1>3, <2>1
  <2>3. buf[(at - left) + i] = produced[at + i]
    BY <1>1, <2>1
  <2> QED BY <1>4, <2>1, <2>2, <2>3
<1>6. b = p
  BY <1>2, <1>3, <1>4, <1>5, SeqEqual
<1> QED BY <1>6 DEF left, b, p

(* A client that reattaches is sent what it has not rendered, or is told   *)
(* that it is gone only when it is (session.rs, replay_from).              *)
THEOREM ReplaysAreExact == ScrollbackSpec => []ReplayIsExact
<1>1. ASSUME IInv PROVE ReplayIsExact
  <2> SUFFICES ASSUME NEW since \in 0..Len(produced)
               PROVE  LET reply == ReplayFrom(since)
                          left  == WindowStart(Len(produced))
                      IN  IF reply.kind = "gap"
                            THEN reply.data = SubSeq(produced, since + 1, Len(produced))
                            ELSE /\ since < left
                                 /\ reply.data = SubSeq(produced, left + 1, Len(produced))
    BY DEF ReplayIsExact
  <2> DEFINE left == WindowStart(Len(produced))
  <2>1. /\ buf \in Seq(Byte) /\ Len(buf) \in Nat
        /\ produced \in Seq(Byte) /\ Len(produced) \in Nat
        /\ next_seq = Len(produced) /\ StartSeq = left
        /\ left \in 0..Len(produced)
    BY <1>1, Facts
  <2> HIDE DEF left
  <2>2. CASE since >= next_seq
    <3>1. SubSeq(produced, since + 1, Len(produced)) = << >>
      BY <2>1, <2>2, SubSeqEmpty
    <3> QED BY <2>2, <3>1 DEF ReplayFrom
  <2>3. CASE since < next_seq /\ since < left
    <3>1. SubSeq(buf, left - left + 1, Len(buf)) = SubSeq(produced, left + 1, Len(produced))
      <4>1. left \in left..Len(produced)
        BY <2>1
      <4> QED BY <1>1, <4>1, WindowSlice DEF left
    <3>2. SubSeq(buf, left - left + 1, Len(buf)) = buf
      <4>1. left - left + 1 = 1
        BY <2>1
      <4> QED BY <2>1, <4>1, SubSeqFull
    <3>3. /\ ReplayFrom(since).kind = "truncated"
          /\ ReplayFrom(since).data = buf
      BY <2>1, <2>3 DEF ReplayFrom
    <3> QED BY <2>3, <3>1, <3>2, <3>3 DEF left
  <2>4. CASE since < next_seq /\ ~(since < left)
    <3>1. since \in left..Len(produced)
      BY <2>1, <2>4
    <3>2. SubSeq(buf, since - left + 1, Len(buf))
            = SubSeq(produced, since + 1, Len(produced))
      BY <1>1, <3>1, WindowSlice DEF left
    <3>3. /\ ReplayFrom(since).kind = "gap"
          /\ ReplayFrom(since).data = SubSeq(buf, since - left + 1, Len(buf))
      BY <2>1, <2>4 DEF ReplayFrom
    <3> QED BY <3>2, <3>3
  <2> QED BY <2>1, <2>2, <2>3, <2>4
<1> QED BY Invariance, <1>1, PTL

----------------------------------------------------------------------------
(* A shell on a local PTY *)

ShellTypesOK ==
  /\ punctual \in BOOLEAN /\ daemon \in BOOLEAN /\ shut \in BOOLEAN
  /\ shell \in {"running", "exited", "killed"}
  /\ thread \in {"reading", "holding", "sending", "finished"}
  /\ reaper \in {"polling", "draining", "closing", "sending", "over"}
  /\ gate \in {"free", "thread", "reaper"}
  /\ driver \in {"selecting", "writing", "gone"}
  /\ written \in Nat /\ fromShell \in 0 .. written
  /\ queue \in Seq(Nat) /\ published \in Seq(Nat)

(* The gate is with whoever sends, the reaper shuts it behind the reader, and
   only a shell that ended is reaped.                                        *)
GateInv ==
  /\ gate = "thread" <=> thread = "sending"
  /\ thread = "sending" => ~shut
  /\ gate = "reaper" <=> reaper = "sending"
  /\ shut <=> reaper \in {"sending", "over"}
  /\ reaper # "polling" => shell # "running"

(* Units are delivered in order, and the reaper's exit behind them; whoever
   publishes it is gone.                                                     *)
OrderInv ==
  /\ \A i \in 1 .. Len(published) :
       \/ published[i] = i
       \/ i = Len(published) /\ published[i] = Exit /\ driver = "gone" /\ reaper = "over"
  /\ \A i \in 1 .. Len(queue) :
       \/ queue[i] = Len(published) + i
       \/ i = Len(queue) /\ queue[i] = Exit /\ reaper = "over"
  /\ driver = "gone" => queue = <<>>

Total == Len(published) + Len(queue)

(* Until the reaper shuts the gate, what the reader took it has handed on,
   or holds.                                                                 *)
CountInv ==
  driver # "gone" /\ ~shut =>
    /\ thread = "reading" => Total = written - fromShell
    /\ thread \in {"holding", "sending"} => Total + 1 = written - fromShell
    /\ thread = "finished" => Total = written /\ HungUp

(* A reaper that was not hurried closes behind a reader that is done. *)
TailInv ==
  punctual /\ ~daemon =>
    /\ driver # "gone" =>
         /\ reaper = "closing" => thread = "finished"
         /\ reaper = "sending" => Total = written
         /\ reaper = "over" => Total = written + 1
    /\ published # <<>> /\ published[Len(published)] = Exit => Len(published) = written + 1

ShellInv ==
  /\ ShellTypesOK
  /\ GateInv
  /\ OrderInv
  /\ CountInv
  /\ TailInv

LEMMA AppendsOne ==
  ASSUME NEW s \in Seq(Nat), NEW n \in Nat
  PROVE  /\ Len(Append(s, n)) = Len(s) + 1 /\ Append(s, n)[Len(s) + 1] = n
         /\ \A i \in 1 .. Len(s) : Append(s, n)[i] = s[i]
OBVIOUS

LEMMA TailsOne ==
  ASSUME NEW s \in Seq(Nat), s # <<>>
  PROVE  /\ Len(s) \in Nat /\ Len(Tail(s)) = Len(s) - 1
         /\ \A i \in 1 .. Len(s) - 1 : Tail(s)[i] = s[i + 1]
<1>1. Len(s) \in Nat \ {0}
  BY EmptySeq
<1> QED
  BY <1>1

\* A sequence that counts up to its end, or to the exit there.
LEMMA EndsOrNot ==
  ASSUME NEW s \in Seq(Nat),
         \A i \in 1 .. Len(s) : s[i] = i \/ (i = Len(s) /\ s[i] = Exit)
  PROVE  \/ s = UpTo(Len(s))
         \/ s # <<>> /\ s = Append(UpTo(Len(s) - 1), Exit)
<1>1. Len(s) \in Nat
  OBVIOUS
<1>2. \A k \in Nat : /\ UpTo(k) \in Seq(Nat) /\ Len(UpTo(k)) = k
                     /\ \A i \in 1 .. k : UpTo(k)[i] = i
  BY DEF UpTo
<1>3. CASE \A i \in 1 .. Len(s) : s[i] = i
  <2>1. s = UpTo(Len(s))
    BY <1>1, <1>2, <1>3, SeqEqual
  <2> QED
    BY <2>1
<1>4. CASE ~\A i \in 1 .. Len(s) : s[i] = i
  <2>1. Len(s) > 0 /\ s[Len(s)] = Exit /\ \A i \in 1 .. Len(s) - 1 : s[i] = i
    BY <1>1, <1>4
  <2> DEFINE k == Len(s) - 1
             t == Append(UpTo(k), Exit)
  <2>2. k \in Nat /\ Len(s) = k + 1
    BY <1>1, <2>1
  <2> HIDE DEF k
  <2>3. t \in Seq(Nat) /\ Len(t) = k + 1 /\ t[k + 1] = Exit /\ \A i \in 1 .. k : t[i] = i
    BY <1>2, <2>2, AppendsOne DEF Exit
  <2>4. \A i \in 1 .. k + 1 : i = k + 1 \/ i \in 1 .. k
    BY <2>2
  <2>5. \A i \in 1 .. Len(s) : s[i] = t[i]
    BY <2>1, <2>2, <2>3, <2>4 DEF k
  <2> HIDE DEF t
  <2>6. s = t
    BY <2>2, <2>3, <2>5, SeqEqual
  <2> QED
    BY <2>1, <2>6 DEF t, k
<1> QED
  BY <1>3, <1>4

LEMMA ShellTypesNext == ShellInv /\ [ShellNext]_shellVars => ShellTypesOK'
<1> SUFFICES ASSUME ShellInv, [ShellNext]_shellVars PROVE ShellTypesOK'
  OBVIOUS
<1>0. ShellTypesOK /\ GateInv
  BY DEF ShellInv
<1> USE <1>0
<1>1. CASE ShellWrites
  BY <1>1 DEF ShellWrites, ShellTypesOK, GateInv
<1>2. CASE ShellReads
  BY <1>2 DEF ShellReads, ShellTypesOK
<1>3. CASE ShellExits
  BY <1>3 DEF ShellExits, ShellTypesOK
<1>4. CASE Typing
  BY <1>4 DEF Typing, ShellTypesOK
<1>5. CASE Closing
  BY <1>5 DEF Closing, ShellTypesOK
<1>6. CASE ThreadReads
  BY <1>6 DEF ThreadReads, ShellTypesOK
<1>7. CASE ThreadEnds
  BY <1>7 DEF ThreadEnds, HungUp, ShellTypesOK
<1>8. CASE ThreadEnters
  BY <1>8 DEF ThreadEnters, ShellTypesOK
<1>9. CASE ThreadSends
  <2>1. written - fromShell \in Nat /\ queue \in Seq(Nat)
    BY DEF ShellTypesOK
  <2>2. queue' \in Seq(Nat)
    BY <1>9, <2>1 DEF ThreadSends
  <2> QED
    BY <1>9, <2>2 DEF ThreadSends, ShellTypesOK
<1>10. CASE Notices
  BY <1>10 DEF Notices, ShellTypesOK
<1>11. CASE StopsDraining
  BY <1>11 DEF StopsDraining, ReaderDone, ShellTypesOK
<1>12. CASE Shuts
  BY <1>12 DEF Shuts, GateIsFree, ShellTypesOK
<1>13. CASE SendsExit
  <2>1. queue' \in Seq(Nat)
    <3>1. queue \in Seq(Nat) /\ Exit \in Nat
      BY DEF ShellTypesOK, Exit
    <3>2. queue' = queue \/ queue' = Append(queue, Exit)
      BY <1>13 DEF SendsExit
    <3> QED
      BY <3>1, <3>2
  <2> QED
    BY <1>13, <2>1 DEF SendsExit, ShellTypesOK
<1>14. CASE TakesInput
  BY <1>14 DEF TakesInput, ShellTypesOK
<1>15. CASE TakesClose
  BY <1>15 DEF TakesClose, Over, ShellTypesOK
<1>16. CASE WriterWrites
  BY <1>16 DEF WriterWrites, ShellTypesOK
<1>17. CASE WriteFails
  BY <1>17 DEF WriteFails, Over, HungUp, ShellTypesOK
<1>18. CASE TakesEvent
  <2>1. Head(queue) \in Nat /\ Tail(queue) \in Seq(Nat) /\ published \in Seq(Nat)
    BY <1>18 DEF TakesEvent, ShellTypesOK
  <2>2. queue' \in Seq(Nat) /\ published' \in Seq(Nat)
    <3>1. published' = Append(published, Head(queue)) /\ (queue' = <<>> \/ queue' = Tail(queue))
      BY <1>18 DEF TakesEvent, Over
    <3>2. Append(published, Head(queue)) \in Seq(Nat) /\ <<>> \in Seq(Nat)
      BY <2>1
    <3> QED
      BY <2>1, <3>1, <3>2
  <2>3. shell' \in {"running", "exited", "killed"} /\ driver' \in {"selecting", "writing", "gone"}
    BY <1>18 DEF TakesEvent, Over, ShellTypesOK
  <2>4. UNCHANGED <<punctual, daemon, shut, thread, reaper, gate, written, fromShell>>
    BY <1>18 DEF TakesEvent
  <2> QED
    BY <2>2, <2>3, <2>4 DEF ShellTypesOK
<1>19. CASE DrainExpires
  BY <1>19 DEF DrainExpires, ShellTypesOK
<1>20. CASE UNCHANGED shellVars
  BY <1>20 DEF shellVars, ShellTypesOK
<1> QED
  BY <1>1, <1>2, <1>3, <1>4, <1>5, <1>6, <1>7, <1>8, <1>9, <1>10, <1>11, <1>12, <1>13, <1>14, <1>15, <1>16, <1>17, <1>18, <1>19, <1>20
  DEF ShellNext, Threads


LEMMA GateNext == ShellInv /\ [ShellNext]_shellVars => GateInv'
<1> SUFFICES ASSUME ShellInv, [ShellNext]_shellVars PROVE GateInv'
  OBVIOUS
<1>0. ShellTypesOK /\ GateInv
  BY DEF ShellInv
<1> USE <1>0 DEF ShellTypesOK
<1>1. CASE ShellWrites
  BY <1>1 DEF ShellWrites, GateInv
<1>2. CASE ShellReads
  BY <1>2 DEF ShellReads, GateInv
<1>3. CASE ShellExits
  BY <1>3 DEF ShellExits, GateInv
<1>4. CASE Typing
  BY <1>4 DEF Typing, GateInv
<1>5. CASE Closing
  BY <1>5 DEF Closing, GateInv
<1>6. CASE ThreadReads
  BY <1>6 DEF ThreadReads, GateInv
<1>7. CASE ThreadEnds
  BY <1>7 DEF ThreadEnds, HungUp, GateInv
<1>8. CASE ThreadEnters
  BY <1>8 DEF ThreadEnters, GateInv
<1>9. CASE ThreadSends
  BY <1>9 DEF ThreadSends, Received, HasRoom, GateInv
<1>10. CASE Notices
  BY <1>10 DEF Notices, GateInv
<1>11. CASE StopsDraining
  BY <1>11 DEF StopsDraining, ReaderDone, GateInv
<1>12. CASE Shuts
  BY <1>12 DEF Shuts, GateIsFree, GateInv
<1>13. CASE SendsExit
  BY <1>13 DEF SendsExit, Received, HasRoom, GateInv
<1>14. CASE TakesInput
  BY <1>14 DEF TakesInput, GateInv
<1>15. CASE TakesClose
  BY <1>15 DEF TakesClose, Over, GateInv
<1>16. CASE WriterWrites
  BY <1>16 DEF WriterWrites, GateInv
<1>17. CASE WriteFails
  BY <1>17 DEF WriteFails, Over, HungUp, GateInv
<1>18. CASE TakesEvent
  BY <1>18 DEF TakesEvent, Over, GateInv
<1>19. CASE DrainExpires
  BY <1>19 DEF DrainExpires, GateInv
<1>20. CASE UNCHANGED shellVars
  BY <1>20 DEF shellVars, GateInv
<1> QED
  BY <1>1, <1>2, <1>3, <1>4, <1>5, <1>6, <1>7, <1>8, <1>9, <1>10, <1>11, <1>12, <1>13, <1>14, <1>15, <1>16, <1>17, <1>18, <1>19, <1>20
  DEF ShellNext, Threads


LEMMA OrderNext == ShellInv /\ [ShellNext]_shellVars => OrderInv'
<1> SUFFICES ASSUME ShellInv, [ShellNext]_shellVars PROVE OrderInv'
  OBVIOUS
<1>0. ShellTypesOK /\ GateInv /\ OrderInv /\ CountInv
  BY DEF ShellInv
<1> USE <1>0
<1>1. CASE ShellWrites
  BY <1>1 DEF ShellWrites, OrderInv
<1>2. CASE ShellReads
  BY <1>2 DEF ShellReads, OrderInv
<1>3. CASE ShellExits
  BY <1>3 DEF ShellExits, OrderInv
<1>4. CASE Typing
  BY <1>4 DEF Typing, OrderInv
<1>5. CASE Closing
  BY <1>5 DEF Closing, OrderInv
<1>6. CASE ThreadReads
  BY <1>6 DEF ThreadReads, OrderInv
<1>7. CASE ThreadEnds
  BY <1>7 DEF ThreadEnds, HungUp, OrderInv
<1>8. CASE ThreadEnters
  BY <1>8 DEF ThreadEnters, OrderInv
<1>9. CASE ThreadSends
  <2>1. thread = "sending" /\ UNCHANGED <<published, driver, reaper>>
    BY <1>9 DEF ThreadSends
  <2>2. CASE UNCHANGED queue
    BY <2>1, <2>2 DEF OrderInv
  <2>3. CASE ~Received /\ queue' = Append(queue, written - fromShell)
    <3>1. written - fromShell = Total + 1 /\ reaper # "over"
      BY <2>1, <2>3 DEF CountInv, GateInv, ShellTypesOK, Received
    <3>2. Len(queue) \in Nat /\ Len(published) \in Nat /\ queue \in Seq(Nat)
      BY DEF ShellTypesOK
    <3>3. /\ Len(queue') = Len(queue) + 1 /\ queue'[Len(queue) + 1] = Len(published) + (Len(queue) + 1)
          /\ \A i \in 1 .. Len(queue) : queue'[i] = queue[i]
      BY <2>3, <3>1, <3>2, AppendsOne DEF Total
    <3>4. \A i \in 1 .. Len(queue) : queue[i] = Len(published) + i
      BY <3>1 DEF OrderInv
    <3>5. ASSUME NEW i \in 1 .. Len(queue') PROVE queue'[i] = Len(published') + i
      <4>1. i = Len(queue) + 1 \/ i \in 1 .. Len(queue)
        BY <3>2, <3>3
      <4> QED
        BY <2>1, <3>3, <3>4, <4>1
    <3>6. driver' # "gone"
      BY <2>1, <2>3 DEF Received
    <3> QED
      BY <2>1, <3>5, <3>6 DEF OrderInv
  <2> QED
    BY <1>9, <2>2, <2>3 DEF ThreadSends
<1>10. CASE Notices
  BY <1>10 DEF Notices, OrderInv
<1>11. CASE StopsDraining
  BY <1>11 DEF StopsDraining, ReaderDone, OrderInv
<1>12. CASE Shuts
  BY <1>12 DEF Shuts, GateIsFree, OrderInv
<1>13. CASE SendsExit
  <2>1. reaper = "sending" /\ reaper' = "over" /\ UNCHANGED <<published, driver>>
    BY <1>13 DEF SendsExit
  <2>2. CASE UNCHANGED queue
    BY <2>1, <2>2 DEF OrderInv
  <2>3. CASE ~Received /\ queue' = Append(queue, Exit)
    <3>1. Len(queue) \in Nat /\ queue \in Seq(Nat)
      BY DEF ShellTypesOK
    <3>2. /\ Len(queue') = Len(queue) + 1 /\ queue'[Len(queue) + 1] = Exit
          /\ \A i \in 1 .. Len(queue) : queue'[i] = queue[i]
      BY <2>3, <3>1, AppendsOne DEF Exit
    <3>3. \A i \in 1 .. Len(queue) : queue[i] = Len(published) + i
      BY <2>1 DEF OrderInv
    <3> QED
      BY <2>1, <2>3, <3>1, <3>2, <3>3 DEF OrderInv, Received
  <2> QED
    BY <1>13, <2>2, <2>3 DEF SendsExit
<1>14. CASE TakesInput
  BY <1>14 DEF TakesInput, OrderInv
<1>15. CASE TakesClose
  BY <1>15 DEF TakesClose, Over, OrderInv
<1>16. CASE WriterWrites
  BY <1>16 DEF WriterWrites, OrderInv
<1>17. CASE WriteFails
  BY <1>17 DEF WriteFails, Over, HungUp, OrderInv
<1>18. CASE TakesEvent
  <2>1. /\ driver = "selecting" /\ queue # <<>> /\ reaper' = reaper
        /\ published' = Append(published, Head(queue))
        /\ IF Head(queue) = Exit THEN driver' = "gone" /\ queue' = <<>>
           ELSE queue' = Tail(queue) /\ driver' = driver
    BY <1>18 DEF TakesEvent, Over
  <2>2. /\ queue \in Seq(Nat) /\ published \in Seq(Nat) /\ Len(published) \in Nat
        /\ Len(queue) \in Nat \ {0} /\ Head(queue) = queue[1] /\ Head(queue) \in Nat
    BY <2>1 DEF ShellTypesOK
  <2>3. /\ Len(published') = Len(published) + 1 /\ published'[Len(published) + 1] = Head(queue)
        /\ \A i \in 1 .. Len(published) : published'[i] = published[i]
    BY <2>1, <2>2, AppendsOne
  <2>4. \A i \in 1 .. Len(published) : published[i] = i
    BY <2>1 DEF OrderInv
  <2>5. CASE Head(queue) = Exit
    <3>1. reaper = "over"
      BY <2>2, <2>5 DEF OrderInv, Exit
    <3> QED
      BY <2>1, <2>2, <2>3, <2>4, <2>5, <3>1 DEF OrderInv
  <2>6. CASE Head(queue) # Exit
    <3>1. Head(queue) = Len(published) + 1
      BY <2>2, <2>6 DEF OrderInv
    <3>2. /\ Len(queue') = Len(queue) - 1
          /\ \A i \in 1 .. Len(queue) - 1 : queue'[i] = queue[i + 1]
      BY <2>1, <2>2, <2>6, TailsOne
    <3>3. ASSUME NEW i \in 1 .. Len(queue')
          PROVE  \/ queue'[i] = Len(published') + i
                 \/ i = Len(queue') /\ queue'[i] = Exit /\ reaper' = "over"
      <4>1. i + 1 \in 1 .. Len(queue) /\ i \in 1 .. Len(queue) - 1
        BY <2>2, <3>2
      <4>2. \/ queue[i + 1] = Len(published) + (i + 1)
            \/ i + 1 = Len(queue) /\ queue[i + 1] = Exit /\ reaper = "over"
        BY <4>1 DEF OrderInv
      <4> QED
        BY <2>1, <2>2, <2>3, <3>2, <4>1, <4>2
    <3>4. \A i \in 1 .. Len(published') : published'[i] = i
      BY <2>2, <2>3, <2>4, <3>1
    <3> QED
      BY <2>1, <2>6, <3>3, <3>4 DEF OrderInv
  <2> QED
    BY <2>5, <2>6
<1>19. CASE DrainExpires
  BY <1>19 DEF DrainExpires, OrderInv
<1>20. CASE UNCHANGED shellVars
  BY <1>20 DEF shellVars, OrderInv
<1> QED
  BY <1>1, <1>2, <1>3, <1>4, <1>5, <1>6, <1>7, <1>8, <1>9, <1>10, <1>11, <1>12, <1>13, <1>14, <1>15, <1>16, <1>17, <1>18, <1>19, <1>20
  DEF ShellNext, Threads


LEMMA CountNext == ShellInv /\ [ShellNext]_shellVars => CountInv'
<1> SUFFICES ASSUME ShellInv, [ShellNext]_shellVars PROVE CountInv'
  OBVIOUS
<1>0. ShellTypesOK /\ GateInv /\ OrderInv /\ CountInv
  BY DEF ShellInv
<1>a. Len(queue) \in Nat /\ Len(published) \in Nat /\ written \in Nat /\ fromShell \in 0 .. written
  BY <1>0 DEF ShellTypesOK
<1> USE <1>0, <1>a
<1>1. CASE ShellWrites
  BY <1>1 DEF ShellWrites, CountInv, Total, HungUp
<1>2. CASE ShellReads
  BY <1>2 DEF ShellReads, CountInv, Total, HungUp
<1>3. CASE ShellExits
  BY <1>3 DEF ShellExits, CountInv, Total, HungUp
<1>4. CASE Typing
  BY <1>4 DEF Typing, CountInv, Total, HungUp
<1>5. CASE Closing
  BY <1>5 DEF Closing, CountInv, Total, HungUp
<1>6. CASE ThreadReads
  BY <1>6 DEF ThreadReads, CountInv, Total, HungUp
<1>7. CASE ThreadEnds
  BY <1>7 DEF ThreadEnds, HungUp, CountInv, Total, HungUp
<1>8. CASE ThreadEnters
  BY <1>8 DEF ThreadEnters, CountInv, Total, HungUp
<1>9. CASE ThreadSends
  <2>1. CASE UNCHANGED queue
    BY <1>9, <2>1 DEF ThreadSends, Received, HasRoom, CountInv, Total, HungUp
  <2>2. CASE queue' = Append(queue, written - fromShell)
    <3>1. Len(queue') = Len(queue) + 1
      BY <2>2, AppendsOne DEF ShellTypesOK
    <3> QED
      BY <1>9, <2>2, <3>1 DEF ThreadSends, Received, HasRoom, CountInv, Total, HungUp
  <2> QED
    BY <1>9, <2>1, <2>2 DEF ThreadSends
<1>10. CASE Notices
  BY <1>10 DEF Notices, CountInv, Total, HungUp
<1>11. CASE StopsDraining
  BY <1>11 DEF StopsDraining, ReaderDone, CountInv, Total, HungUp
<1>12. CASE Shuts
  BY <1>12 DEF Shuts, GateIsFree, CountInv, Total, HungUp
<1>13. CASE SendsExit
  BY <1>13 DEF SendsExit, Received, HasRoom, CountInv, Total, HungUp, GateInv
<1>14. CASE TakesInput
  BY <1>14 DEF TakesInput, CountInv, Total, HungUp
<1>15. CASE TakesClose
  BY <1>15 DEF TakesClose, Over, CountInv, Total, HungUp
<1>16. CASE WriterWrites
  BY <1>16 DEF WriterWrites, CountInv, Total, HungUp
<1>17. CASE WriteFails
  BY <1>17 DEF WriteFails, Over, HungUp, CountInv, Total, HungUp
<1>18. CASE TakesEvent
  <2>1. CASE driver' = "gone"
    BY <1>18, <2>1 DEF TakesEvent, Over, CountInv, Total, HungUp
  <2>2. CASE driver' # "gone"
    <3>1. queue # <<>> /\ queue' = Tail(queue) /\ published' = Append(published, Head(queue))
      BY <1>18, <2>2 DEF TakesEvent, Over
    <3>2. Len(queue') = Len(queue) - 1 /\ Len(published') = Len(published) + 1
      BY <3>1, AppendsOne DEF ShellTypesOK
    <3>3. Total' = Total
      BY <3>2 DEF Total
    <3> QED
      BY <1>18, <2>2, <3>3 DEF TakesEvent, Over, CountInv, HungUp
  <2> QED
    BY <2>1, <2>2
<1>19. CASE DrainExpires
  BY <1>19 DEF DrainExpires, CountInv, Total, HungUp
<1>20. CASE UNCHANGED shellVars
  BY <1>20 DEF shellVars, CountInv, Total, HungUp
<1> QED
  BY <1>1, <1>2, <1>3, <1>4, <1>5, <1>6, <1>7, <1>8, <1>9, <1>10, <1>11, <1>12, <1>13, <1>14, <1>15, <1>16, <1>17, <1>18, <1>19, <1>20
  DEF ShellNext, Threads


LEMMA TailNext == ShellInv /\ [ShellNext]_shellVars => TailInv'
<1> SUFFICES ASSUME ShellInv, [ShellNext]_shellVars PROVE TailInv'
  OBVIOUS
<1>0. ShellTypesOK /\ GateInv /\ OrderInv /\ CountInv /\ TailInv
  BY DEF ShellInv
<1>a. Len(queue) \in Nat /\ Len(published) \in Nat /\ written \in Nat /\ fromShell \in 0 .. written
  BY <1>0 DEF ShellTypesOK
<1>b. driver # "gone" => ~(published # <<>> /\ published[Len(published)] = Exit)
  <2>1. published # <<>> => Len(published) \in 1 .. Len(published) /\ Len(published) # 0
    BY <1>0, <1>a, EmptySeq DEF ShellTypesOK
  <2> QED
    BY <1>0, <2>1 DEF OrderInv, Exit
<1>c. reaper # "over" => ~(published # <<>> /\ published[Len(published)] = Exit)
  <2>1. published # <<>> => Len(published) \in 1 .. Len(published) /\ Len(published) # 0
    BY <1>0, <1>a, EmptySeq DEF ShellTypesOK
  <2> QED
    BY <1>0, <2>1 DEF OrderInv, Exit
<1> USE <1>0, <1>a, <1>b, <1>c
<1>1. CASE ShellWrites
  BY <1>1 DEF ShellWrites, TailInv, Total, GateInv
<1>2. CASE ShellReads
  BY <1>2 DEF ShellReads, TailInv, Total
<1>3. CASE ShellExits
  BY <1>3 DEF ShellExits, TailInv, Total, GateInv
<1>4. CASE Typing
  BY <1>4 DEF Typing, TailInv, Total
<1>5. CASE Closing
  BY <1>5 DEF Closing, TailInv, Total
<1>6. CASE ThreadReads
  BY <1>6 DEF ThreadReads, TailInv, Total
<1>7. CASE ThreadEnds
  BY <1>7 DEF ThreadEnds, HungUp, TailInv, Total
<1>8. CASE ThreadEnters
  BY <1>8 DEF ThreadEnters, TailInv, Total
<1>9. CASE ThreadSends
  <2>1. thread = "sending" /\ ~shut /\ UNCHANGED <<punctual, daemon, driver, reaper, written, published>>
    BY <1>9 DEF ThreadSends, GateInv
  <2>2. reaper \notin {"sending", "over"}
    BY <2>1 DEF GateInv
  <2> QED
    BY <2>1, <2>2 DEF TailInv
<1>10. CASE Notices
  BY <1>10 DEF Notices, TailInv, Total
<1>11. CASE StopsDraining
  BY <1>11 DEF StopsDraining, ReaderDone, TailInv, Total
<1>12. CASE Shuts
  BY <1>12 DEF Shuts, GateIsFree, TailInv, Total, GateInv, CountInv
<1>13. CASE SendsExit
  <2>1. CASE UNCHANGED queue
    BY <1>13, <2>1 DEF SendsExit, Received, HasRoom, TailInv, Total
  <2>2. CASE queue' = Append(queue, Exit)
    <3>1. Len(queue') = Len(queue) + 1
      BY <2>2, AppendsOne DEF ShellTypesOK, Exit
    <3> QED
      BY <1>13, <2>2, <3>1 DEF SendsExit, Received, HasRoom, TailInv, Total
  <2> QED
    BY <1>13, <2>1, <2>2 DEF SendsExit
<1>14. CASE TakesInput
  BY <1>14 DEF TakesInput, TailInv, Total
<1>15. CASE TakesClose
  BY <1>15 DEF TakesClose, Over, TailInv, Total
<1>16. CASE WriterWrites
  BY <1>16 DEF WriterWrites, TailInv, Total
<1>17. CASE WriteFails
  BY <1>17 DEF WriteFails, Over, HungUp, TailInv, Total
<1>18. CASE TakesEvent
  <2>1. /\ driver = "selecting" /\ queue # <<>> /\ UNCHANGED <<punctual, daemon, reaper, written, thread>>
        /\ published' = Append(published, Head(queue))
        /\ IF Head(queue) = Exit THEN driver' = "gone" /\ queue' = <<>>
           ELSE queue' = Tail(queue) /\ driver' = driver
    BY <1>18 DEF TakesEvent, Over
  <2>2. Len(queue) \in Nat \ {0} /\ Head(queue) = queue[1] /\ Head(queue) \in Nat
    BY <2>1 DEF ShellTypesOK
  <2>3. Len(published') = Len(published) + 1 /\ published'[Len(published) + 1] = Head(queue)
    BY <2>2, <2>1, AppendsOne DEF ShellTypesOK
  <2>4. CASE Head(queue) = Exit
    <3>1. Len(queue) = 1 /\ reaper = "over"
      <4>1. 1 \in 1 .. Len(queue) /\ queue[1] # Len(published) + 1
        BY <2>2, <2>4 DEF Exit
      <4> QED
        BY <4>1 DEF OrderInv
    <3> QED
      BY <2>1, <2>3, <2>4, <3>1 DEF TailInv, Total
  <2>5. CASE Head(queue) # Exit
    <3>1. Len(queue') = Len(queue) - 1
      BY <2>1, <2>5 DEF ShellTypesOK
    <3>2. Total' = Total
      BY <2>3, <3>1 DEF Total
    <3>3. published'[Len(published')] # Exit
      BY <2>3, <2>5
    <3> QED
      BY <2>1, <2>5, <3>2, <3>3 DEF TailInv
  <2> QED
    BY <2>4, <2>5
<1>19. CASE DrainExpires
  <2>1. ASSUME punctual, ~daemon, driver # "gone" PROVE thread = "finished"
    <3>1. reaper = "draining" /\ ~ThreadsCanMove /\ HungUp
      BY <1>19, <2>1 DEF DrainExpires, GateInv, HungUp
    <3>2. thread # "reading"
      BY <3>1 DEF ThreadsCanMove
    <3>3. thread # "holding"
      BY <3>1 DEF ThreadsCanMove, GateInv, ShellTypesOK
    <3>4. thread # "sending"
      <4>1. queue = <<>> => HasRoom
        BY ShellAssumption DEF HasRoom
      <4>2. queue # <<>> => ThreadsCanMove
        BY <2>1, <3>1 DEF ThreadsCanMove, ShellTypesOK
      <4> QED
        BY <3>1, <4>1, <4>2 DEF ThreadsCanMove
    <3> QED
      BY <3>2, <3>3, <3>4 DEF ShellTypesOK
  <2> QED
    BY <1>19, <2>1 DEF DrainExpires, TailInv, Total
<1>20. CASE UNCHANGED shellVars
  BY <1>20 DEF shellVars, TailInv, Total
<1> QED
  BY <1>1, <1>2, <1>3, <1>4, <1>5, <1>6, <1>7, <1>8, <1>9, <1>10, <1>11, <1>12, <1>13, <1>14, <1>15, <1>16, <1>17, <1>18, <1>19, <1>20
  DEF ShellNext, Threads


LEMMA ShellStarts == ShellInit => ShellInv
<1> SUFFICES ASSUME ShellInit PROVE ShellInv
  OBVIOUS
<1>1. ShellTypesOK
  <2>1. <<>> \in Seq(Nat) /\ 0 \in 0 .. 0
    OBVIOUS
  <2>2. punctual \in BOOLEAN
    BY Zenon DEF ShellInit
  <2> QED
    BY <2>1, <2>2 DEF ShellInit, ShellTypesOK
<1>2. GateInv
  BY DEF ShellInit, GateInv
<1>3. OrderInv /\ CountInv /\ TailInv
  BY DEF ShellInit, OrderInv, CountInv, TailInv, Total
<1> QED
  BY <1>1, <1>2, <1>3 DEF ShellInv

THEOREM ShellInvariant == ShellSpec => []ShellInv
<1>1. ShellInv /\ [ShellNext]_shellVars => ShellInv'
  BY ShellTypesNext, GateNext, OrderNext, CountNext, TailNext DEF ShellInv
<1> QED
  BY <1>1, ShellStarts, PTL DEF ShellSpec

\* What a shell's driver is told begins with all of its output and ends with its
\* exit, and nothing is missing in between (local_pty.rs: the gate, the done flag).
THEOREM ExitsComeLast == ShellSpec => []ExitIsLast
<1>1. ShellInv => TailIsDelivered
  BY DEF ShellInv, TailInv, TailIsDelivered, ShellTypesOK
<1>2. ShellInv => ExitComesLast
  <2> SUFFICES ASSUME ShellInv PROVE ExitComesLast
    OBVIOUS
  <2> DEFINE n == Len(published)
             m == Len(queue)
  <2>1. /\ published \in Seq(Nat) /\ queue \in Seq(Nat) /\ n \in Nat /\ m \in Nat
        /\ driver = "gone" => m = 0
    BY DEF ShellInv, ShellTypesOK, OrderInv
  <2>2. /\ Stream \in Seq(Nat) /\ Len(Stream) = n + m
        /\ \A i \in 1 .. n + m : Stream[i] = IF i <= n THEN published[i] ELSE queue[i - n]
    BY <2>1 DEF Stream
  <2>3. ASSUME NEW i \in 1 .. n + m
        PROVE  Stream[i] = i \/ (i = n + m /\ Stream[i] = Exit)
    <3>1. CASE i <= n
      <4>1. \/ published[i] = i
            \/ i = n /\ published[i] = Exit /\ driver = "gone"
        BY <2>1, <3>1 DEF ShellInv, OrderInv
      <4> QED
        BY <2>1, <2>2, <3>1, <4>1
    <3>2. CASE i > n
      <4>1. i - n \in 1 .. m
        BY <2>1, <3>2
      <4>2. \/ queue[i - n] = n + (i - n)
            \/ i - n = m /\ queue[i - n] = Exit
        BY <4>1 DEF ShellInv, OrderInv
      <4> QED
        BY <2>1, <2>2, <3>2, <4>2
    <3> QED
      BY <2>1, <3>1, <3>2
  <2> HIDE DEF n, m
  <2>4. n + m \in Nat
    BY <2>1
  <2> QED
    BY <2>2, <2>3, <2>4, EndsOrNot DEF ExitComesLast
<1> QED
  BY <1>1, <1>2, ShellInvariant, PTL DEF ExitIsLast

----------------------------------------------------------------------------
(* One command run to its end *)

CommandTypesOK ==
  /\ kind \in {"monitor", "exec"} /\ prompt \in BOOLEAN
  /\ plan.steps \in Seq(Steps) /\ plan.input \in Nat
  /\ program \in Seq(Steps) /\ held \in Nat
  /\ child \in {"running", "exited", "killed"}
  /\ helpers \subseteq {"group", "away"}
  /\ stdin \in [units : Nat, open : BOOLEAN]
  /\ pipe \in [Streams -> Nat] /\ got \in [Streams -> Nat]
  /\ reader \in [Streams -> {"idle", "reading", "eof", "full", "closed"}]
  /\ stage \in {"feeding", "waiting", "draining", "answered"}

(* How far the command is. *)
Past == Len(plan.steps) - Len(program)

(* What remains is the rest of the plan, and what was written to a pipe is in
   the pipe or with its reader.                                              *)
Written(s) == {i \in 1 .. Past : plan.steps[i] = s}
ProgramInv ==
  /\ Past \in Nat
  /\ \A i \in 1 .. Len(program) : program[i] = plan.steps[Past + i]
  /\ \A s \in Streams : Cardinality(Written(s)) = got[s] + pipe[s]

(* What each side knows of the other: why readers stopped, and how children
   ended.                                                                    *)
EndsInv ==
  /\ child = "exited" => program = <<>>
  /\ child = "killed" /\ ~Answered => Overflowed
  /\ \A s \in Streams :
       /\ reader[s] = "full" => got[s] > Cap
       /\ reader[s] = "eof" => pipe[s] = 0 /\ child # "running"
       /\ reader[s] = "closed" => Answered
  /\ answer = "whole" => Answered /\ child = "exited" /\ \A s \in Streams : reader[s] = "eof"

(* Where things stand while stdin is fed, and what is left behind. *)
FeedInv ==
  /\ stage = "feeding" => kind = "exec"
  /\ stage = "draining" => kind = "monitor"
  /\ stdin.open => kind = "exec" /\ stage \in {"feeding", "answered"}
  /\ held + stdin.units <= plan.input
  /\ \A s \in Streams : reader[s] = "idle" => stage = "feeding" /\ got[s] = 0
  /\ helpers # {} => Plans("group") \/ Plans("away")

CommandInv ==
  /\ CommandTypesOK
  /\ ProgramInv
  /\ EndsInv
  /\ FeedInv
  /\ TimeoutIsDeserved

LEMMA RestIsSteps ==
  ASSUME CommandTypesOK, program # <<>>
  PROVE  Tail(program) \in Seq(Steps)
BY DEF CommandTypesOK

LEMMA WrittenIsFinite ==
  ASSUME CommandTypesOK, NEW s
  PROVE  IsFiniteSet(Written(s)) /\ Cardinality(Written(s)) \in Nat
<1>1. Past \in Int
  BY DEF CommandTypesOK, Past
<1>2. IsFiniteSet(1 .. Past)
  BY <1>1, FS_Interval
<1>3. Written(s) \subseteq 1 .. Past
  BY DEF Written
<1>4. IsFiniteSet(Written(s))
  BY <1>2, <1>3, FS_Subset
<1> QED
  BY <1>4, FS_CardinalityType

\* The command goes on to its next step.
LEMMA Advances ==
  ASSUME CommandTypesOK, ProgramInv, program # <<>>, program' = Tail(program), plan' = plan
  PROVE  /\ program' \in Seq(Steps) /\ Past' = Past + 1 /\ Past' \in Nat
         /\ Past + 1 \in DOMAIN plan.steps /\ plan.steps[Past + 1] = Head(program)
         /\ \A i \in 1 .. Len(program') : program'[i] = plan'.steps[Past' + i]
         /\ \A s \in Streams : Cardinality(Written(s)')
              = Cardinality(Written(s)) + (IF Head(program) = s THEN 1 ELSE 0)
<1>1. /\ plan.steps \in Seq(Steps) /\ program \in Seq(Steps) /\ Past \in Nat
      /\ Len(plan.steps) \in Nat /\ Len(program) \in Nat \ {0}
      /\ Past = Len(plan.steps) - Len(program)
  <2>1. plan.steps \in Seq(Steps) /\ program \in Seq(Steps)
    BY DEF CommandTypesOK
  <2> QED
    BY <2>1, EmptySeq DEF ProgramInv, Past
<1>2. /\ Tail(program) \in Seq(Steps) /\ Len(Tail(program)) = Len(program) - 1
      /\ \A i \in 1 .. Len(program) - 1 : Tail(program)[i] = program[i + 1]
      /\ Head(program) = program[1]
  BY <1>1
<1>3. Past' = Past + 1 /\ Past' \in Nat
  BY <1>1, <1>2 DEF Past
<1>4. Past + 1 \in DOMAIN plan.steps /\ plan.steps[Past + 1] = Head(program)
  <2>1. 1 \in 1 .. Len(program) /\ Past + 1 \in 1 .. Len(plan.steps)
    BY <1>1
  <2>2. program[1] = plan.steps[Past + 1]
    BY <2>1 DEF ProgramInv
  <2> QED
    BY <1>1, <1>2, <2>1, <2>2
<1>a. Len(program') = Len(program) - 1
  BY <1>2
<1>5. ASSUME NEW i \in 1 .. Len(program') PROVE program'[i] = plan'.steps[Past' + i]
  <2>0. i \in Nat /\ i >= 1 /\ i <= Len(program) - 1
    BY <1>1, <1>a
  <2>1. i \in 1 .. Len(program) - 1 /\ i + 1 \in 1 .. Len(program)
    BY <1>1, <2>0
  <2>5. Past' + i = Past + (i + 1)
    <3>1. \A p \in Nat : (p + 1) + i = p + (i + 1)
      BY <2>0
    <3> QED
      BY <1>1, <1>3, <3>1, Zenon
  <2>2. program[i + 1] = plan.steps[Past + (i + 1)]
    BY <2>1 DEF ProgramInv
  <2>3. program'[i] = program[i + 1]
    BY <1>2, <2>1
  <2>4. plan'.steps[Past' + i] = plan.steps[Past + (i + 1)]
    BY <2>5
  <2> QED
    BY <2>2, <2>3, <2>4
<1>6. ASSUME NEW s \in Streams
      PROVE  Cardinality(Written(s)') = Cardinality(Written(s)) + (IF Head(program) = s THEN 1 ELSE 0)
  <2>1. Written(s)' = {i \in 1 .. Past + 1 : plan.steps[i] = s}
    BY <1>3 DEF Written
  <2>2. IsFiniteSet(Written(s)) /\ Cardinality(Written(s)) \in Nat
    BY WrittenIsFinite
  <2>3. \A i : i \in 1 .. Past + 1 <=> i \in 1 .. Past \/ i = Past + 1
    BY <1>1
  <2>4. CASE Head(program) = s
    <3>1. Written(s)' = Written(s) \cup {Past + 1}
      BY <1>4, <2>1, <2>3, <2>4 DEF Written
    <3>2. Past + 1 \notin Written(s)
      BY <1>1 DEF Written
    <3>3. Cardinality(Written(s) \cup {Past + 1}) = Cardinality(Written(s)) + 1
      BY <2>2, <3>2, FS_AddElement
    <3> QED
      BY <2>4, <3>1, <3>3
  <2>5. CASE Head(program) # s
    <3>1. Written(s)' = Written(s)
      BY <1>4, <2>1, <2>3, <2>5 DEF Written
    <3> QED
      BY <2>2, <2>5, <3>1
  <2> QED
    BY <2>4, <2>5
<1> QED
  BY <1>2, <1>3, <1>4, <1>5, <1>6

\* The command stays where it is.
LEMMA Stays ==
  ASSUME ProgramInv, UNCHANGED <<program, plan>>,
         \A s \in Streams : got'[s] + pipe'[s] = got[s] + pipe[s]
  PROVE  ProgramInv'
<1>1. Past' = Past /\ \A s : Written(s)' = Written(s)
  BY DEF Past, Written
<1> QED
  BY <1>1 DEF ProgramInv

\* A step that writes nothing.
LEMMA Elsewhere ==
  ASSUME CommandTypesOK, ProgramInv, program # <<>>, Head(program) \notin Streams,
         program' = Tail(program), UNCHANGED <<plan, got, pipe>>
  PROVE  ProgramInv'
<1>1. /\ Past' \in Nat
      /\ \A i \in 1 .. Len(program') : program'[i] = plan'.steps[Past' + i]
      /\ \A s \in Streams : Cardinality(Written(s)')
           = Cardinality(Written(s)) + (IF Head(program) = s THEN 1 ELSE 0)
  BY Advances
<1>2. ASSUME NEW s \in Streams PROVE Cardinality(Written(s)') = got'[s] + pipe'[s]
  <2>1. Cardinality(Written(s)) \in Nat /\ Head(program) # s
    BY WrittenIsFinite
  <2>2. Cardinality(Written(s)') = Cardinality(Written(s)) + 0
    BY <1>1, <2>1
  <2> QED
    BY <2>1, <2>2 DEF ProgramInv
<1> QED
  BY <1>1, <1>2 DEF ProgramInv


LEMMA CommandTypesNext == CommandInv /\ [CommandNext]_commandVars => CommandTypesOK'
<1> SUFFICES ASSUME CommandInv, [CommandNext]_commandVars PROVE CommandTypesOK'
  OBVIOUS
<1>0. CommandTypesOK /\ ProgramInv /\ FeedInv
  BY DEF CommandInv
<1> USE <1>0
<1>1. ASSUME NEW s \in Streams, Writes(s) PROVE CommandTypesOK'
  <2>1. program' \in Seq(Steps)
    BY <1>1, RestIsSteps DEF Writes, Does, Proceeds, CommandTypesOK
  <2>2. pipe' \in [Streams -> Nat] /\ child' \in {"running", "exited", "killed"}
    BY <1>1 DEF Writes, CommandTypesOK
  <2>3. UNCHANGED <<kind, prompt, helpers, held, stdin, got, reader, stage, plan>>
    BY <1>1 DEF Writes
  <2> QED
    BY <2>1, <2>2, <2>3 DEF CommandTypesOK
<1>2. ASSUME NEW s \in Streams, Collects(s) PROVE CommandTypesOK'
  BY <1>2 DEF Collects, CommandTypesOK
<1>3. ASSUME NEW s \in Streams, AtEnd(s) PROVE CommandTypesOK'
  BY <1>3 DEF AtEnd, CommandTypesOK
<1>4. CASE Reads
  <2>1. program' \in Seq(Steps)
    BY <1>4, RestIsSteps DEF Reads, Does, Proceeds
  <2>2. stdin' \in [units : Nat, open : BOOLEAN]
    BY <1>4 DEF Reads, CommandTypesOK
  <2>3. UNCHANGED <<kind, prompt, child, helpers, held, pipe, got, reader, stage, plan>>
    BY <1>4 DEF Reads
  <2> QED
    BY <2>1, <2>2, <2>3 DEF CommandTypesOK
<1>5. CASE Forks
  <2>1. program' \in Seq(Steps)
    BY <1>5, RestIsSteps DEF Forks, Does, Proceeds
  <2>2. helpers' \subseteq {"group", "away"}
    BY <1>5 DEF Forks, CommandTypesOK
  <2>3. UNCHANGED <<kind, prompt, child, held, stdin, pipe, got, reader, stage, plan>>
    BY <1>5 DEF Forks
  <2> QED
    BY <2>1, <2>2, <2>3 DEF CommandTypesOK
<1>6. CASE Exits
  BY <1>6 DEF Exits, CommandTypesOK
<1>7. CASE Feeds
  <2>1. held' \in Nat /\ stdin' \in [units : Nat, open : BOOLEAN]
    <3>1. held \in Nat /\ held > 0 /\ stdin \in [units : Nat, open : BOOLEAN]
      BY <1>7 DEF Feeds, CommandTypesOK
    <3>2. held' \in {0, held - 1} /\ stdin' \in {stdin, [stdin EXCEPT !.units = stdin.units + 1]}
      BY <1>7 DEF Feeds
    <3> QED
      BY <3>1, <3>2
  <2>2. UNCHANGED <<kind, prompt, program, child, helpers, pipe, got, reader, stage, plan>>
    BY <1>7 DEF Feeds
  <2> QED
    BY <2>1, <2>2 DEF CommandTypesOK
<1>8. CASE Fed
  BY <1>8 DEF Fed, ClosedStdin, CommandTypesOK
<1>9. CASE StopsOverflow
  BY <1>9 DEF StopsOverflow, Gives, Killed, Spared, Closed, CommandTypesOK
<1>10. CASE Waited
  BY <1>10 DEF Waited, CommandTypesOK
<1>11. CASE Drained
  BY <1>11 DEF Drained, Gives, CommandTypesOK
<1>12. CASE TimesOut
  BY <1>12 DEF TimesOut, Gives, Killed, Spared, Closed, CommandTypesOK
<1>13. CASE UNCHANGED commandVars
  BY <1>13 DEF commandVars, CommandTypesOK
<1> QED
  BY <1>1, <1>2, <1>3, <1>4, <1>5, <1>6, <1>7, <1>8, <1>9, <1>10, <1>11, <1>12, <1>13
  DEF CommandNext, CommandMoves


LEMMA ProgramNext == CommandInv /\ [CommandNext]_commandVars => ProgramInv'
<1> SUFFICES ASSUME CommandInv, [CommandNext]_commandVars PROVE ProgramInv'
  OBVIOUS
<1>0. CommandTypesOK /\ ProgramInv
  BY DEF CommandInv
<1> USE <1>0
<1>1. ASSUME NEW s \in Streams, Writes(s) PROVE ProgramInv'
  <2>1. pipe \in [Streams -> Nat] /\ got \in [Streams -> Nat]
    BY DEF CommandTypesOK
  <2>2. CASE UNCHANGED <<program, pipe>>
    BY <1>1, <2>2, Stays DEF Writes
  <2>3. CASE pipe' = [pipe EXCEPT ![s] = pipe[s] + 1] /\ program' = Tail(program)
    <3>1. program # <<>> /\ Head(program) = s /\ plan' = plan /\ got' = got
      BY <1>1 DEF Writes, Does
    <3>2. /\ Past' \in Nat
          /\ \A i \in 1 .. Len(program') : program'[i] = plan'.steps[Past' + i]
          /\ \A t \in Streams : Cardinality(Written(t)')
               = Cardinality(Written(t)) + (IF s = t THEN 1 ELSE 0)
      BY <2>3, <3>1, Advances
    <3>3. ASSUME NEW t \in Streams PROVE Cardinality(Written(t)') = got'[t] + pipe'[t]
      <4>1. Cardinality(Written(t)) = got[t] + pipe[t] /\ got[t] \in Nat /\ pipe[t] \in Nat
        BY <2>1 DEF ProgramInv
      <4>2. pipe'[t] = pipe[t] + (IF s = t THEN 1 ELSE 0)
        BY <2>1, <2>3, <4>1
      <4> QED
        BY <3>1, <3>2, <4>1, <4>2
    <3> QED
      BY <3>2, <3>3 DEF ProgramInv
  <2> QED
    BY <1>1, <2>2, <2>3 DEF Writes, Proceeds
<1>2. ASSUME NEW s \in Streams, Collects(s) PROVE ProgramInv'
  <2>1. pipe \in [Streams -> Nat] /\ got \in [Streams -> Nat]
    BY DEF CommandTypesOK
  <2>2. /\ pipe' = [pipe EXCEPT ![s] = pipe[s] - 1] /\ got' = [got EXCEPT ![s] = got[s] + 1]
        /\ UNCHANGED <<program, plan>>
    BY <1>2 DEF Collects
  <2>3. \A t \in Streams : got'[t] + pipe'[t] = got[t] + pipe[t]
    BY <2>1, <2>2
  <2> QED
    BY <2>2, <2>3, Stays
<1>3. ASSUME NEW s \in Streams, AtEnd(s) PROVE ProgramInv'
  BY <1>3, Stays DEF AtEnd
<1>4. CASE Reads
  <2>1. program # <<>> /\ Head(program) = "in" /\ program' = Tail(program) /\ UNCHANGED <<plan, got, pipe>>
    BY <1>4 DEF Reads, Does, Proceeds
  <2>2. "in" \notin Streams
    BY DEF Streams
  <2> QED
    BY <2>1, <2>2, Elsewhere
<1>5. CASE Forks
  <2>1. program # <<>> /\ Head(program) \notin Streams /\ program' = Tail(program) /\ UNCHANGED <<plan, got, pipe>>
    BY <1>5 DEF Forks, Does, Proceeds, Streams
  <2> QED
    BY <2>1, Elsewhere
<1>6. CASE Exits
  BY <1>6, Stays DEF Exits
<1>7. CASE Feeds
  BY <1>7, Stays DEF Feeds
<1>8. CASE Fed
  BY <1>8, Stays DEF Fed, ClosedStdin
<1>9. CASE StopsOverflow
  BY <1>9, Stays DEF StopsOverflow, Gives, Killed, Spared, Closed
<1>10. CASE Waited
  BY <1>10, Stays DEF Waited
<1>11. CASE Drained
  BY <1>11, Stays DEF Drained, Gives
<1>12. CASE TimesOut
  BY <1>12, Stays DEF TimesOut, Gives, Killed, Spared, Closed
<1>13. CASE UNCHANGED commandVars
  BY <1>13, Stays DEF commandVars
<1> QED
  BY <1>1, <1>2, <1>3, <1>4, <1>5, <1>6, <1>7, <1>8, <1>9, <1>10, <1>11, <1>12, <1>13
  DEF CommandNext, CommandMoves


LEMMA EndsNext == CommandInv /\ [CommandNext]_commandVars => EndsInv'
<1> SUFFICES ASSUME CommandInv, [CommandNext]_commandVars PROVE EndsInv'
  OBVIOUS
<1>0. CommandTypesOK /\ EndsInv
  BY DEF CommandInv
<1> USE <1>0 DEF CommandTypesOK
<1>1. ASSUME NEW s \in Streams, Writes(s) PROVE EndsInv'
  BY <1>1 DEF Writes, Does, Proceeds, Broken, EndsInv, Overflowed, Answered
<1>2. ASSUME NEW s \in Streams, Collects(s) PROVE EndsInv'
  <2>1. /\ got' = [got EXCEPT ![s] = got[s] + 1] /\ pipe' = [pipe EXCEPT ![s] = pipe[s] - 1]
        /\ reader' = [reader EXCEPT ![s] = IF TakesNoMore(got[s] + 1) THEN "full" ELSE reader[s]]
        /\ reader[s] = "reading" /\ pipe[s] > 0
        /\ UNCHANGED <<child, program, stage, answer>>
    BY <1>2 DEF Collects
  <2>2. \A t \in Streams : got'[t] \in Nat /\ got[t] \in Nat /\ got'[t] >= got[t]
    BY <2>1
  <2>3. Overflowed => Overflowed'
    <3> SUFFICES ASSUME NEW t \in Streams, got[t] > Cap PROVE got'[t] > Cap
      BY DEF Overflowed
    <3> QED
      BY <2>2, CommandAssumption
  <2>4. answer # "whole"
    BY <2>1 DEF EndsInv
  <2>5. ASSUME NEW t \in Streams
        PROVE  /\ reader'[t] = "full" => got'[t] > Cap
               /\ reader'[t] = "eof" => pipe'[t] = 0 /\ child' # "running"
               /\ reader'[t] = "closed" => Answered'
    <3>1. CASE t = s
      BY <2>1, <3>1 DEF TakesNoMore
    <3>2. CASE t # s
      BY <2>1, <3>2 DEF EndsInv, Answered
    <3> QED
      BY <3>1, <3>2
  <2> QED
    BY <2>1, <2>3, <2>4, <2>5 DEF EndsInv, Answered
<1>3. ASSUME NEW s \in Streams, AtEnd(s) PROVE EndsInv'
  BY <1>3 DEF AtEnd, EndsInv, Overflowed, Answered
<1>4. CASE Reads
  BY <1>4 DEF Reads, Does, Proceeds, EndsInv, Overflowed, Answered
<1>5. CASE Forks
  BY <1>5 DEF Forks, Does, Proceeds, EndsInv, Overflowed, Answered
<1>6. CASE Exits
  BY <1>6 DEF Exits, EndsInv, Overflowed, Answered
<1>7. CASE Feeds
  BY <1>7 DEF Feeds, EndsInv, Overflowed, Answered
<1>8. CASE Fed
  BY <1>8 DEF Fed, ClosedStdin, EndsInv, Overflowed, Answered
<1>9. CASE StopsOverflow
  BY <1>9 DEF StopsOverflow, Gives, Killed, Spared, Closed, EndsInv, Overflowed, Answered
<1>10. CASE Waited
  BY <1>10 DEF Waited, EndsInv, Overflowed, Answered
<1>11. CASE Drained
  <2>1. /\ UNCHANGED <<child, program, got, pipe, reader>> /\ stage' = "answered" /\ AllRead
        /\ answer' = "whole" => ~Overflowed
    BY <1>11 DEF Drained, Gives
  <2>2. answer' = "whole" => \A s \in Streams : reader[s] = "eof"
    BY <2>1 DEF AllRead, Overflowed, EndsInv
  <2>3. answer' = "whole" => child = "exited"
    <3>1. "out" \in Streams /\ ~Answered
      BY <1>11 DEF Drained, Streams, Answered
    <3> QED
      BY <2>1, <2>2, <3>1 DEF EndsInv
  <2> QED
    BY <2>1, <2>2, <2>3 DEF EndsInv, Answered
<1>12. CASE TimesOut
  BY <1>12 DEF TimesOut, Gives, Killed, Spared, Closed, EndsInv, Overflowed, Answered
<1>13. CASE UNCHANGED commandVars
  BY <1>13 DEF commandVars, EndsInv, Overflowed, Answered
<1> QED
  BY <1>1, <1>2, <1>3, <1>4, <1>5, <1>6, <1>7, <1>8, <1>9, <1>10, <1>11, <1>12, <1>13
  DEF CommandNext, CommandMoves


LEMMA FeedNext == CommandInv /\ [CommandNext]_commandVars => FeedInv'
<1> SUFFICES ASSUME CommandInv, [CommandNext]_commandVars PROVE FeedInv'
  OBVIOUS
<1>0. CommandTypesOK /\ ProgramInv /\ FeedInv
  BY DEF CommandInv
<1> USE <1>0 DEF CommandTypesOK
<1>1. ASSUME NEW s \in Streams, Writes(s) PROVE FeedInv'
  BY <1>1 DEF Writes, Does, Proceeds, Broken, FeedInv, Answered, Plans
<1>2. ASSUME NEW s \in Streams, Collects(s) PROVE FeedInv'
  BY <1>2 DEF Collects, FeedInv, Answered, Plans
<1>3. ASSUME NEW s \in Streams, AtEnd(s) PROVE FeedInv'
  BY <1>3 DEF AtEnd, FeedInv, Answered, Plans
<1>4. CASE Reads
  BY <1>4 DEF Reads, Does, Proceeds, FeedInv, Answered, Plans
<1>5. CASE Forks
  <2>1. program # <<>> /\ Head(program) \in {"group", "away"} /\ program' = Tail(program) /\ plan' = plan
    BY <1>5 DEF Forks, Does, Proceeds
  <2>2. Past + 1 \in DOMAIN plan.steps /\ plan.steps[Past + 1] = Head(program)
    BY <2>1, Advances
  <2>3. Plans("group") \/ Plans("away")
    BY <2>1, <2>2 DEF Plans
  <2>4. UNCHANGED <<kind, held, stdin, got, reader, stage>>
    BY <1>5 DEF Forks
  <2> QED
    BY <2>1, <2>3, <2>4 DEF FeedInv, Plans
<1>6. CASE Exits
  BY <1>6 DEF Exits, FeedInv, Answered, Plans
<1>7. CASE Feeds
  BY <1>7 DEF Feeds, FeedInv, Answered, Plans
<1>8. CASE Fed
  BY <1>8 DEF Fed, ClosedStdin, FeedInv, Answered, Plans
<1>9. CASE StopsOverflow
  BY <1>9 DEF StopsOverflow, Gives, Killed, Spared, Closed, FeedInv, Answered, Plans
<1>10. CASE Waited
  BY <1>10 DEF Waited, FeedInv, Answered, Plans
<1>11. CASE Drained
  BY <1>11 DEF Drained, Gives, FeedInv, Answered, Plans
<1>12. CASE TimesOut
  BY <1>12 DEF TimesOut, Gives, Killed, Spared, Closed, FeedInv, Answered, Plans
<1>13. CASE UNCHANGED commandVars
  BY <1>13 DEF commandVars, FeedInv, Answered, Plans
<1> QED
  BY <1>1, <1>2, <1>3, <1>4, <1>5, <1>6, <1>7, <1>8, <1>9, <1>10, <1>11, <1>12, <1>13
  DEF CommandNext, CommandMoves


\* A deadline that runs out while nothing else can move.
LEMMA DeadlinesAreDeserved ==
  ASSUME CommandTypesOK, ProgramInv, EndsInv, FeedInv,
         ~Answered, ~(ChildCanMove \/ AgentCanMove)
  PROVE  \/ Plans("hang") \/ Plans("group") \/ Plans("away")
         \/ kind = "exec" /\ plan.input > PipeSize /\ \E s \in Streams : Wrote(s) > PipeSize
<1> SUFFICES ASSUME ~Plans("hang"), ~Plans("group"), ~Plans("away")
             PROVE  kind = "exec" /\ plan.input > PipeSize /\ \E s \in Streams : Wrote(s) > PipeSize
  OBVIOUS
<1>1. helpers = {} /\ stage \in {"feeding", "waiting", "draining"}
  BY DEF FeedInv, CommandTypesOK, Answered
<1>2. \A s \in Streams : reader[s] # "closed" /\ (reader[s] = "idle" => stage = "feeding")
  BY DEF EndsInv, FeedInv
<1>3. child = "running"
  <2> SUFFICES ASSUME child # "running" PROVE FALSE
    OBVIOUS
  <2>1. stage # "feeding"
    BY DEF AgentCanMove
  <2>2. \A s \in Streams : reader[s] # "reading"
    BY <1>1 DEF AgentCanMove, CommandTypesOK
  <2>3. AllRead
    BY <1>2, <2>1, <2>2 DEF AllRead, CommandTypesOK
  <2> QED
    BY <1>1, <2>1, <2>3 DEF AgentCanMove, FeedInv, CommandTypesOK
<1>4. program # <<>>
  BY <1>3 DEF ChildCanMove
<1> DEFINE x == Head(program)
<1>5. /\ x \in Steps /\ Past \in Nat /\ Past + 1 \in DOMAIN plan.steps
      /\ plan.steps[Past + 1] = x
  <2>1. /\ program \in Seq(Steps) /\ plan.steps \in Seq(Steps) /\ Len(program) \in Nat \ {0}
        /\ Len(plan.steps) \in Nat
    BY <1>4, EmptySeq DEF CommandTypesOK
  <2>2. x = program[1] /\ x \in Steps
    BY <2>1
  <2>3. Past = Len(plan.steps) - Len(program) /\ Past \in Nat
    BY DEF Past, ProgramInv
  <2>4. 1 \in 1 .. Len(program) /\ Past + 1 \in 1 .. Len(plan.steps)
    BY <2>1, <2>3
  <2> QED
    BY <2>1, <2>2, <2>3, <2>4 DEF ProgramInv
<1> HIDE DEF x
<1>6. Does(x)
  BY <1>3, <1>4 DEF Does, x
<1>7. x \notin {"hang", "group", "away"}
  BY <1>5 DEF Plans
<1>8. x # "in"
  <2> SUFFICES ASSUME x = "in" PROVE FALSE
    OBVIOUS
  <2>1. stdin.open /\ ~(stdin.units > 0) /\ stdin.units \in Nat
    BY <1>3, <1>6 DEF ChildCanMove, CommandTypesOK
  <2>2. stage = "feeding"
    BY <1>1, <2>1 DEF FeedInv
  <2> QED
    BY <2>1, <2>2, CommandAssumption DEF AgentCanMove
<1>9. x \in Streams
  BY <1>5, <1>7, <1>8 DEF Steps
<1>10. ~Broken(x) /\ ~(pipe[x] < PipeSize) /\ pipe[x] \in Nat
  BY <1>3, <1>6, <1>9 DEF ChildCanMove, CommandTypesOK
<1>11. reader[x] = "idle"
  <2>1. reader[x] # "reading"
    BY <1>9, <1>10, CommandAssumption DEF AgentCanMove
  <2>2. reader[x] # "eof"
    BY <1>3, <1>9 DEF EndsInv
  <2> QED
    BY <1>9, <1>10, <2>1, <2>2 DEF Broken, CommandTypesOK
<1>12. stage = "feeding" /\ got[x] = 0 /\ kind = "exec"
  BY <1>9, <1>11 DEF FeedInv
<1>13. plan.input > PipeSize
  <2>1. held # 0 /\ ~(stdin.units < PipeSize)
    BY <1>12 DEF AgentCanMove
  <2>2. held \in Nat /\ stdin.units \in Nat /\ plan.input \in Nat /\ held + stdin.units <= plan.input
    BY DEF CommandTypesOK, FeedInv
  <2> QED
    BY <2>1, <2>2, CommandAssumption
<1>14. Wrote(x) > PipeSize
  <2> DEFINE W == {i \in DOMAIN plan.steps : plan.steps[i] = x}
  <2>1. /\ IsFiniteSet(Written(x)) /\ Cardinality(Written(x)) \in Nat
        /\ Cardinality(Written(x)) >= PipeSize
    <3>1. Cardinality(Written(x)) = 0 + pipe[x]
      BY <1>9, <1>12 DEF ProgramInv
    <3>2. IsFiniteSet(Written(x))
      BY WrittenIsFinite
    <3> QED
      BY <1>10, <3>1, <3>2, CommandAssumption
  <2>2. Past + 1 \notin Written(x)
    BY <1>5 DEF Written
  <2>3. Cardinality(Written(x) \cup {Past + 1}) = Cardinality(Written(x)) + 1
    BY <2>1, <2>2, FS_AddElement
  <2>4. Written(x) \cup {Past + 1} \subseteq W
    <3>1. DOMAIN plan.steps = 1 .. Len(plan.steps) /\ Len(plan.steps) \in Nat
      BY DEF CommandTypesOK
    <3> QED
      BY <1>5, <3>1 DEF Written
  <2>5. IsFiniteSet(W)
    <3>1. DOMAIN plan.steps = 1 .. Len(plan.steps) /\ Len(plan.steps) \in Int
      BY DEF CommandTypesOK
    <3>2. IsFiniteSet(1 .. Len(plan.steps))
      BY <3>1, FS_Interval
    <3>3. W \subseteq 1 .. Len(plan.steps)
      BY <3>1
    <3> QED
      BY <3>2, <3>3, FS_Subset
  <2> HIDE DEF W
  <2>6. Cardinality(Written(x) \cup {Past + 1}) <= Cardinality(W) /\ Cardinality(W) \in Nat
    BY <2>4, <2>5, FS_Subset, FS_CardinalityType
  <2>7. Cardinality(W) > PipeSize
    BY <2>1, <2>3, <2>6, CommandAssumption
  <2> QED
    BY <2>7 DEF W, Wrote
<1> QED
  BY <1>9, <1>12, <1>13, <1>14

LEMMA DeservedNext == CommandInv /\ [CommandNext]_commandVars => TimeoutIsDeserved'
<1> SUFFICES ASSUME CommandInv, [CommandNext]_commandVars PROVE TimeoutIsDeserved'
  OBVIOUS
<1>1. TimeoutIsDeserved
  BY DEF CommandInv
<1>2. UNCHANGED <<plan, kind, prompt>>
  BY DEF CommandNext, CommandMoves, Writes, Collects, AtEnd, Reads, Forks, Exits, Feeds, Fed,
         StopsOverflow, Waited, Drained, TimesOut, commandVars
<1>3. CASE TimesOut
  <2>1. prompt => ~Answered /\ ~(ChildCanMove \/ AgentCanMove)
    BY <1>3 DEF TimesOut
  <2>2. CommandTypesOK /\ ProgramInv /\ EndsInv /\ FeedInv
    BY DEF CommandInv
  <2>3. prompt => \/ Plans("hang") \/ Plans("group") \/ Plans("away")
                  \/ kind = "exec" /\ plan.input > PipeSize /\ \E s \in Streams : Wrote(s) > PipeSize
    BY <2>1, <2>2, DeadlinesAreDeserved
  <2>4. /\ \A step : Plans(step)' = Plans(step)
        /\ \A s : Wrote(s)' = Wrote(s)
    BY <1>2 DEF Plans, Wrote
  <2> QED
    BY <1>2, <2>3, <2>4 DEF TimeoutIsDeserved
<1>4. CASE ~TimesOut
  <2>1. answer' = "timeout" => answer = "timeout"
    BY <1>4 DEF CommandNext, CommandMoves, Writes, Collects, AtEnd, Reads, Forks, Exits, Feeds, Fed,
           StopsOverflow, Waited, Drained, Gives, commandVars
  <2> QED
    BY <1>1, <1>2, <2>1 DEF TimeoutIsDeserved, Plans, Wrote
<1> QED
  BY <1>3, <1>4

LEMMA CommandStarts == CommandInit => CommandInv
<1> SUFFICES ASSUME CommandInit PROVE CommandInv
  OBVIOUS
<1>1. PICK k \in {"monitor", "exec"}, p \in Programs, n \in 0 .. MaxInput, fast \in BOOLEAN :
        /\ k = "monitor" => n = 0
        /\ kind = k /\ prompt = fast /\ program = p /\ held = n
        /\ plan = [steps |-> p, input |-> n]
        /\ child = "running" /\ helpers = {} /\ answer = "none"
        /\ stdin = [units |-> 0, open |-> k = "exec"]
        /\ pipe = [s \in Streams |-> 0] /\ got = [s \in Streams |-> 0]
        /\ reader = [s \in Streams |-> IF k = "exec" THEN "idle" ELSE "reading"]
        /\ stage = IF k = "exec" THEN "feeding" ELSE "waiting"
  BY DEF CommandInit
<1>2. p \in Seq(Steps) /\ n \in Nat /\ Len(p) \in Nat
  BY <1>1, CommandAssumption
<1>3. CommandTypesOK
  <2>1. prompt \in BOOLEAN /\ (k = "exec") \in BOOLEAN
    BY <1>1, Zenon
  <2> QED
    BY <1>1, <1>2, <2>1 DEF CommandTypesOK
<1>4. ProgramInv
  <2>1. Past = 0
    BY <1>1, <1>2 DEF Past
  <2>2. \A s \in Streams : Written(s) = {}
    BY <2>1 DEF Written
  <2>3. \A s \in Streams : Cardinality(Written(s)) = 0
    BY <2>2, FS_EmptySet
  <2>4. \A i \in 1 .. Len(program) : program[i] = plan.steps[Past + i]
    BY <1>1, <1>2, <2>1
  <2> QED
    BY <1>1, <2>1, <2>3, <2>4 DEF ProgramInv
<1>5. EndsInv /\ TimeoutIsDeserved
  BY <1>1 DEF EndsInv, TimeoutIsDeserved, Overflowed, Answered
<1>6. FeedInv
  <2>1. CASE k = "exec"
    BY <1>1, <1>2, <2>1 DEF FeedInv
  <2>2. CASE k = "monitor"
    <3>1. stage = "waiting" /\ stdin.open = (k = "exec") /\ stdin.units = 0 /\ held = 0 /\ plan.input = 0
      BY <1>1, <2>2
    <3>2. ~stdin.open
      BY <2>2, <3>1
    <3>3. \A s \in Streams : reader[s] = "reading"
      BY <1>1, <2>2
    <3> QED
      BY <1>1, <3>1, <3>2, <3>3 DEF FeedInv
  <2> QED
    BY <2>1, <2>2
<1> QED
  BY <1>3, <1>4, <1>5, <1>6 DEF CommandInv

THEOREM CommandInvariant == CommandSpec => []CommandInv
<1>1. CommandInv /\ [CommandNext]_commandVars => CommandInv'
  BY CommandTypesNext, ProgramNext, EndsNext, FeedNext, DeservedNext DEF CommandInv
<1> QED
  BY <1>1, CommandStarts, PTL DEF CommandSpec

\* Output that is called whole is whole, and a deadline that runs out with time to
\* spare is the command's own doing (exec.rs run, monitoring.rs command_output).
THEOREM CommandsAnswerHonestly == CommandSpec => []AnswersAreHonest
<1>1. CommandInv => OutputIsWhole
  <2> SUFFICES ASSUME CommandInv, answer = "whole", NEW s \in Streams
               PROVE  got[s] = Wrote(s) /\ pipe[s] = 0
    BY DEF OutputIsWhole
  <2>1. program = <<>> /\ pipe[s] = 0 /\ got[s] \in Nat
    BY DEF CommandInv, EndsInv, CommandTypesOK
  <2>2. Past = Len(plan.steps) /\ DOMAIN plan.steps = 1 .. Len(plan.steps)
    BY <2>1 DEF CommandInv, CommandTypesOK, Past
  <2>3. Written(s) = {i \in DOMAIN plan.steps : plan.steps[i] = s}
    BY <2>2 DEF Written
  <2>4. Wrote(s) = got[s] + pipe[s]
    BY <2>3 DEF Wrote, CommandInv, ProgramInv
  <2> QED
    BY <2>1, <2>4
<1>2. CommandInv => TimeoutIsDeserved
  BY DEF CommandInv
<1> QED
  BY <1>1, <1>2, CommandInvariant, PTL DEF AnswersAreHonest
=============================================================================
