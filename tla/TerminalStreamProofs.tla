------------------------- MODULE TerminalStreamProofs -------------------------
(***************************************************************************)
(* Theorems about TerminalStream, for any clients, any number of           *)
(* connections, any buffer and any queue.                                  *)
(*                                                                         *)
(* By itself: the queues' types are shown apart from the rest, as they     *)
(* rest on facts about sequences.  Who owns the session is an inductive    *)
(* invariant by itself, and decides what the reaper and a late disconnect  *)
(* may do.                                                                 *)
(*                                                                         *)
(* As an implementation of OutputView: theorems StreamImplementsView and   *)
(* ScreensStayWhole at the end.  What makes it true is StreamInv.  Its     *)
(* parts build on each other:                                              *)
(*                                                                         *)
(*   LinksOK      which client uses which connection                       *)
(*   AttachingOK  how far a connection has come, and what is queued by then *)
(*   PumpOK       what a queue holds while its pump runs                   *)
(*   OrderOK      the order of the frames on a link                        *)
(*   BoundsOK     nothing is ahead of what the shell produced              *)
(*   ResumesOK    an attach carries the counter, and is answered from it   *)
(*   ChainOK      from the client's counter over the link, the answer being *)
(*                written and the output channel to the session's position *)
(*                there is one unbroken chain of output                    *)
(*   ScreensOK    the screen touches the position the chain begins at      *)
(*                                                                         *)
(* One lemma per part shows that each of the 29 steps keeps it.  The last  *)
(* three are about a client and shown together, first for a client that a  *)
(* step does not concern, then case by case for the one it does.  Facts    *)
(* about queues are stated for sequences s and t of any kind.              *)
(***************************************************************************)
EXTENDS TerminalStream, SequenceTheorems, TLAPS

(* What is written to a queue is of the kind the queue carries. *)
LEMMA Frames ==
  /\ \A t \in FrameKinds : Signal(t) \in Frame
  /\ \A at \in Nat : Ready(at) \in Frame
  /\ \A lo \in Nat, n \in Nat : Output(lo, n) \in Frame /\ Output(lo, n) \in Entry
  /\ \A t \in OutputKinds : Signal(t) \in Entry
  /\ \A e \in Entry : e.t = "data" => e \in Frame
  /\ \A f \in Frame : f.lo \in Nat /\ f.n \in Nat
BY DEF Frame, Entry, Tagged, FrameKinds, OutputKinds, Signal, Ready, Output

(* The head and the rest of a queue that is not empty. *)
LEMMA HeadTail ==
  ASSUME NEW S, NEW s \in Seq(S), s # << >>
  PROVE  Head(s) \in S /\ Tail(s) \in Seq(S)
OBVIOUS

(* Frames written to a connection, and frames read from one. *)
LEMMA Writes ==
  ASSUME TypeOK, NEW k \in Conns, NEW frames \in Seq(Frame)
  PROVE  [wire EXCEPT ![k] = Written(k, frames)] \in [Conns -> Seq(Frame)]
<1>1. wire \in [Conns -> Seq(Frame)]
  BY DEF TypeOK, QueuesOK, ControlOK
<1>2. wire[k] \o frames \in Seq(Frame)
  BY <1>1, ConcatProperties
<1>3. Written(k, frames) \in Seq(Frame)
  BY <1>2, EmptySeq DEF Written
<1> QED BY <1>1, <1>3

LEMMA Takes ==
  ASSUME TypeOK, NEW c \in Clients, NEW t, Incoming(c, t)
  PROVE  /\ conn[c] \in Conns
         /\ Head(wire[conn[c]]) \in Frame
         /\ Consumes(c) => wire' \in [Conns -> Seq(Frame)]
<1>1. conn[c] \in Conns /\ wire[conn[c]] \in Seq(Frame) /\ wire[conn[c]] # << >>
  BY DEF TypeOK, QueuesOK, ControlOK, Incoming
<1>2. Head(wire[conn[c]]) \in Frame /\ Tail(wire[conn[c]]) \in Seq(Frame)
  BY <1>1, HeadTail
<1> QED BY <1>1, <1>2 DEF Consumes, TypeOK, QueuesOK, ControlOK

(* The three ways the wire empties or a pump ends, and publish. *)
LEMMA HungUp ==
  ASSUME TypeOK, NEW c \in Clients, Hangs(c)
  PROVE  wire' \in [Conns -> Seq(Frame)]
<1>1. << >> \in Seq(Frame)
  OBVIOUS
<1> QED BY <1>1 DEF Hangs, TypeOK, QueuesOK, ControlOK

LEMMA Ended ==
  ASSUME TypeOK, NEW k \in Conns, NEW t \in FrameKinds, EndsWith(k, t)
  PROVE  wire' \in [Conns -> Seq(Frame)] /\ rx' \in [Conns -> Seq(Entry)]
<1>1. "close" \in FrameKinds
  BY DEF FrameKinds
<1>2. <<Signal(t), Signal("close")>> \in Seq(Frame) /\ << >> \in Seq(Entry)
  BY <1>1, Frames
<1>3. wire' \in [Conns -> Seq(Frame)]
  BY <1>2, Writes DEF EndsWith
<1> QED BY <1>2, <1>3 DEF EndsWith, TypeOK, QueuesOK, ControlOK

LEMMA Published ==
  ASSUME TypeOK, NEW out \in Entry, Publish(out)
  PROVE  QueuesOK'
<1>1. rx \in [Conns -> Seq(Entry)]
  BY DEF TypeOK, QueuesOK, ControlOK
<1>2. rx' \in [Conns -> Seq(Entry)]
  <2>1. CASE PublishQueued(out)
    <3>1. current \in Conns /\ rx' = [rx EXCEPT ![current] = Append(@, out)]
      BY <2>1 DEF PublishQueued, Withheld, TypeOK, QueuesOK, ControlOK
    <3>2. Append(rx[current], out) \in Seq(Entry)
      BY <1>1, <3>1
    <3> QED BY <1>1, <3>1, <3>2
  <2>2. CASE ~PublishQueued(out)
    BY <1>1, <2>2 DEF Publish, PublishDropped, PublishLags, PublishFindsClosed
  <2> QED BY <2>1, <2>2
<1> QED BY <1>2 DEF Publish, QueuesOK, TypeOK, ControlOK, handlerVars, linkVars

(* No step puts into a queue what does not belong there. *)
LEMMA QueuesInductive == TypeOK /\ [Next]_vars => QueuesOK'
<1> SUFFICES ASSUME TypeOK, [Next]_vars PROVE QueuesOK'
  OBVIOUS
<1>1. CASE Next
  <2>1. ASSUME NEW n \in 1..MaxChunk, ShellWrites(n)
       PROVE  QueuesOK'
    <3>1. Publish(Output(next_seq, n)) /\ Output(next_seq, n) \in Entry
      BY <2>1, Frames, BoundsAssumption DEF ShellWrites, TypeOK, QueuesOK, ControlOK
    <3> QED BY <3>1, Published
  <2>2. ASSUME ShellExits
       PROVE  QueuesOK'
    <3>1. Publish(Signal("exit")) /\ Signal("exit") \in Entry
      BY <2>2, Frames DEF ShellExits, OutputKinds
    <3> QED BY <3>1, Published
  <2>3. ASSUME ShellLost
       PROVE  QueuesOK'
    BY <2>3 DEF ShellLost, QueuesOK, TypeOK, ControlOK, agentVars, handlerVars, pumpVars, linkVars
  <2>4. ASSUME ShellReadsClose
       PROVE  QueuesOK'
    BY <2>4 DEF ShellReadsClose, QueuesOK, TypeOK, ControlOK, agentVars, handlerVars, pumpVars, linkVars
  <2>5. ASSUME ShellCleansUp
       PROVE  QueuesOK'
    BY <2>5 DEF ShellCleansUp, QueuesOK, TypeOK, ControlOK, agentVars, handlerVars, pumpVars, linkVars
  <2>6. ASSUME ReaperTakes
       PROVE  QueuesOK'
    BY <2>6 DEF ReaperTakes, QueuesOK, TypeOK, ControlOK, agentVars, handlerVars, pumpVars, linkVars
  <2>7. ASSUME ReaperTerminates
       PROVE  QueuesOK'
    BY <2>7 DEF ReaperTerminates, QueuesOK, TypeOK, ControlOK, agentVars, handlerVars, pumpVars, linkVars
  <2>8. ASSUME NEW k \in Conns, AttachLooksUp(k)
       PROVE  QueuesOK'
    <3>1. <<Signal("gone")>> \in Seq(Frame)
      BY Frames DEF FrameKinds
    <3>2. wire' \in [Conns -> Seq(Frame)]
      BY <2>8, <3>1, Writes DEF AttachLooksUp, TypeOK, QueuesOK, ControlOK
    <3> QED BY <2>8, <3>2 DEF AttachLooksUp, QueuesOK, TypeOK, ControlOK, handlerVars, pumpVars
  <2>9. ASSUME NEW k \in Conns, AttachRefused(k)
       PROVE  QueuesOK'
    <3>1. <<Signal("gone")>> \in Seq(Frame)
      BY Frames DEF FrameKinds
    <3>2. wire' \in [Conns -> Seq(Frame)]
      BY <2>9, <3>1, Writes DEF AttachRefused, TypeOK, QueuesOK, ControlOK
    <3> QED BY <2>9, <3>2 DEF AttachRefused, QueuesOK, TypeOK, ControlOK, handlerVars, pumpVars
  <2>10. ASSUME NEW k \in Conns, AttachInstalls(k)
       PROVE  QueuesOK'
    <3>1. StartSeq \in Nat /\ StartSeq <= next_seq /\ since[k] \in Nat /\ next_seq \in Nat
      BY BoundsAssumption DEF StartSeq, TypeOK, QueuesOK, ControlOK
    <3>2. ReplayFrom(since[k]) \in Tagged(ReplyKinds)
      BY <3>1 DEF ReplayFrom, Tagged, ReplyKinds
    <3>3. reply' \in [Conns -> Tagged(ReplyKinds)]
      BY <2>10, <3>2 DEF AttachInstalls, TypeOK, QueuesOK, ControlOK
    <3> QED BY <2>10, <3>3 DEF AttachInstalls, QueuesOK, TypeOK, ControlOK, linkVars, pumpVars
  <2>11. ASSUME NEW k \in Conns, AttachReplies(k)
       PROVE  QueuesOK'
    <3>1. reply[k] \in Tagged(ReplyKinds) /\ NoReply \in Tagged(ReplyKinds)
      BY DEF TypeOK, QueuesOK, ControlOK, NoReply, Signal, Tagged, ReplyKinds
    <3>2. reply[k].lo \in Nat /\ reply[k].n \in Nat
      BY <3>1 DEF Tagged
    <3>3. /\ <<Ready(reply[k].lo)>> \in Seq(Frame)
          /\ <<Signal("truncated")>> \in Seq(Frame)
          /\ <<Output(reply[k].lo, reply[k].n)>> \in Seq(Frame)
          /\ << >> \in Seq(Frame)
      BY <3>2, Frames DEF FrameKinds
    <3>4. ReplyFrames(reply[k]) \in Seq(Frame)
      BY <3>3, ConcatProperties DEF ReplyFrames
    <3>5. wire' \in [Conns -> Seq(Frame)]
      BY <2>11, <3>4, Writes DEF AttachReplies
    <3> QED BY <2>11, <3>1, <3>5 DEF AttachReplies, QueuesOK, TypeOK, ControlOK
  <2>12. ASSUME NEW k \in Conns, HandlesClose(k)
       PROVE  QueuesOK'
    BY <2>12 DEF HandlesClose, QueuesOK, TypeOK, ControlOK, agentVars, handlerVars, pumpVars, linkVars
  <2>13. ASSUME NEW k \in Conns, NoticesDisconnect(k)
       PROVE  QueuesOK'
    BY <2>13 DEF NoticesDisconnect, QueuesOK, TypeOK, ControlOK, agentVars, handlerVars, pumpVars, linkVars
  <2>14. ASSUME NEW k \in Conns, MarkerQueued(k)
       PROVE  QueuesOK'
    <3>1. Signal("replay") \in Entry /\ rx \in [Conns -> Seq(Entry)]
      BY Frames DEF OutputKinds, TypeOK, QueuesOK, ControlOK
    <3>2. Append(rx[k], Signal("replay")) \in Seq(Entry)
      BY <3>1
    <3>3. rx' \in [Conns -> Seq(Entry)]
      BY <2>14, <3>1, <3>2 DEF MarkerQueued
    <3> QED BY <2>14, <3>3 DEF MarkerQueued, QueuesOK, TypeOK, ControlOK, handlerVars, linkVars
  <2>15. ASSUME NEW k \in Conns, PumpForwards(k)
       PROVE  QueuesOK'
    <3>1. rx \in [Conns -> Seq(Entry)] /\ rx[k] \in Seq(Entry) /\ rx[k] # << >>
      BY <2>15 DEF PumpForwards, TypeOK, QueuesOK, ControlOK
    <3>2. Head(rx[k]) \in Frame /\ Tail(rx[k]) \in Seq(Entry) /\ << >> \in Seq(Entry)
      BY <2>15, <3>1, HeadTail, Frames DEF PumpForwards
    <3>3. rx' \in [Conns -> Seq(Entry)]
      BY <2>15, <3>1, <3>2 DEF PumpForwards
    <3>4. [wire EXCEPT ![k] = Written(k, <<Head(rx[k])>>)] \in [Conns -> Seq(Frame)]
      <4>1. <<Head(rx[k])>> \in Seq(Frame)
        BY <3>2
      <4> QED BY <4>1, Writes
    <3>5. wire' \in [Conns -> Seq(Frame)]
      BY <2>15, <3>4 DEF PumpForwards, TypeOK, QueuesOK, ControlOK
    <3> QED BY <2>15, <3>3, <3>5 DEF PumpForwards, QueuesOK, TypeOK, ControlOK, handlerVars
  <2>16. ASSUME NEW k \in Conns, PumpReadsExit(k)
       PROVE  QueuesOK'
    <3>1. EndsWith(k, "exit") /\ "exit" \in FrameKinds
      BY <2>16 DEF PumpReadsExit, FrameKinds
    <3>2. wire' \in [Conns -> Seq(Frame)] /\ rx' \in [Conns -> Seq(Entry)]
      BY <3>1, Ended
    <3> QED BY <2>16, <3>2 DEF PumpReadsExit, QueuesOK, TypeOK, ControlOK, handlerVars
  <2>17. ASSUME NEW k \in Conns, PumpReadsMarker(k)
       PROVE  QueuesOK'
    <3>1. EndsWith(k, "lagged") /\ "lagged" \in FrameKinds
      BY <2>17 DEF PumpReadsMarker, FrameKinds
    <3>2. wire' \in [Conns -> Seq(Frame)] /\ rx' \in [Conns -> Seq(Entry)]
      BY <3>1, Ended
    <3> QED BY <2>17, <3>2 DEF PumpReadsMarker, QueuesOK, TypeOK, ControlOK, handlerVars
  <2>18. ASSUME NEW k \in Conns, PumpSuperseded(k)
       PROVE  QueuesOK'
    <3>1. EndsWith(k, "superseded") /\ "superseded" \in FrameKinds
      BY <2>18 DEF PumpSuperseded, FrameKinds
    <3>2. wire' \in [Conns -> Seq(Frame)] /\ rx' \in [Conns -> Seq(Entry)]
      BY <3>1, Ended
    <3> QED BY <2>18, <3>2 DEF PumpSuperseded, QueuesOK, TypeOK, ControlOK, handlerVars
  <2>19. ASSUME NEW c \in Clients, GetsReady(c)
       PROVE  QueuesOK'
    <3>1. wire' \in [Conns -> Seq(Frame)]
      BY <2>19, Takes DEF GetsReady
    <3> QED BY <2>19, <3>1 DEF GetsReady, QueuesOK, TypeOK, ControlOK, agentVars, handlerVars, pumpVars
  <2>20. ASSUME NEW c \in Clients, GetsData(c)
       PROVE  QueuesOK'
    <3>1. wire' \in [Conns -> Seq(Frame)]
      BY <2>20, Takes DEF GetsData
    <3> QED BY <2>20, <3>1 DEF GetsData, QueuesOK, TypeOK, ControlOK, agentVars, handlerVars, pumpVars
  <2>21. ASSUME NEW c \in Clients, GetsTruncated(c)
       PROVE  QueuesOK'
    <3>1. wire' \in [Conns -> Seq(Frame)]
      BY <2>21, Takes DEF GetsTruncated
    <3> QED BY <2>21, <3>1 DEF GetsTruncated, QueuesOK, TypeOK, ControlOK, agentVars, handlerVars, pumpVars
  <2>22. ASSUME NEW c \in Clients, GetsFinal(c)
       PROVE  QueuesOK'
    <3>1. Consumes(c) => wire' \in [Conns -> Seq(Frame)]
      BY <2>22, Takes DEF GetsFinal
    <3>2. Hangs(c) \/ Consumes(c)
      BY <2>22 DEF GetsFinal
    <3>3. wire' \in [Conns -> Seq(Frame)]
      BY <3>1, <3>2, HungUp
    <3> QED BY <2>22, <3>3 DEF GetsFinal, QueuesOK, TypeOK, ControlOK, agentVars, handlerVars, pumpVars
  <2>23. ASSUME NEW c \in Clients, GetsLagged(c)
       PROVE  QueuesOK'
    <3>1. wire' \in [Conns -> Seq(Frame)]
      BY <2>23, Takes DEF GetsLagged
    <3> QED BY <2>23, <3>1 DEF GetsLagged, QueuesOK, TypeOK, ControlOK, agentVars, handlerVars, pumpVars
  <2>24. ASSUME NEW c \in Clients, GetsClose(c)
       PROVE  QueuesOK'
    <3>1. wire' \in [Conns -> Seq(Frame)]
      BY <2>24, HungUp DEF GetsClose
    <3> QED BY <2>24, <3>1 DEF GetsClose, QueuesOK, TypeOK, ControlOK, agentVars, handlerVars, pumpVars
  <2>25. ASSUME NEW c \in Clients, Paints(c)
       PROVE  QueuesOK'
    BY <2>25 DEF Paints, QueuesOK, TypeOK, ControlOK, agentVars, handlerVars, pumpVars, linkVars
  <2>26. ASSUME NEW c \in Clients, Reconnects(c)
       PROVE  QueuesOK'
    BY <2>26 DEF Reconnects, OpensSocket, QueuesOK, TypeOK, ControlOK, agentVars, handlerVars, pumpVars, linkVars
  <2>27. ASSUME NEW c \in Clients, Resumes(c)
       PROVE  QueuesOK'
    BY <2>27 DEF Resumes, OpensSocket, QueuesOK, TypeOK, ControlOK, agentVars, handlerVars, pumpVars, linkVars
  <2>28. ASSUME NEW c \in Clients, UserCloses(c)
       PROVE  QueuesOK'
    <3>1. wire' \in [Conns -> Seq(Frame)]
      BY <2>28, HungUp DEF UserCloses
    <3> QED BY <2>28, <3>1 DEF UserCloses, QueuesOK, TypeOK, ControlOK, agentVars, handlerVars, pumpVars
  <2>29. ASSUME NEW c \in Clients, LinkDrops(c)
       PROVE  QueuesOK'
    <3>1. wire' \in [Conns -> Seq(Frame)]
      BY <2>29, HungUp DEF LinkDrops
    <3> QED BY <2>29, <3>1 DEF LinkDrops, QueuesOK, TypeOK, ControlOK, agentVars, handlerVars, pumpVars
  <2> QED 
    BY <1>1, <2>1, <2>2, <2>3, <2>4, <2>5, <2>6, <2>7, <2>8, <2>9,
       <2>10, <2>11, <2>12, <2>13, <2>14, <2>15, <2>16, <2>17, <2>18, <2>19,
       <2>20, <2>21, <2>22, <2>23, <2>24, <2>25, <2>26, <2>27, <2>28, <2>29
    DEF Next, ShellTask, Reaper, Handler, Pump, Receives, Client
<1>2. CASE UNCHANGED vars
  BY <1>2 DEF vars, QueuesOK, TypeOK, ControlOK, handlerVars, pumpVars, linkVars
<1> QED BY <1>1, <1>2

(* No step leaves the types of the rest of the state. *)
LEMMA ControlInductive == TypeOK /\ [Next]_vars => ControlOK'
<1> SUFFICES ASSUME TypeOK, [Next]_vars PROVE ControlOK'
  OBVIOUS
<1> USE BoundsAssumption DEF ControlOK, sessionVars, storeVars, shellVars, handlerVars, pumpVars, linkVars, clientVars, agentVars
<1> ControlOK BY DEF TypeOK, QueuesOK, ControlOK
<1>1. CASE Next
  <2>1. ASSUME NEW n \in 1..MaxChunk, ShellWrites(n)
       PROVE  ControlOK'
    <3>1. next_seq' \in Nat
      BY <2>1 DEF ShellWrites
    <3>2. Publish(Output(next_seq, n)) /\ UNCHANGED shell
      BY <2>1 DEF ShellWrites
    <3> QED BY ZenonT(30), <3>1, <3>2 DEF Publish, PublishDropped, PublishQueued, PublishLags, PublishFindsClosed
  <2>2. ASSUME ShellExits
       PROVE  ControlOK'
    BY ZenonT(30), <2>2 DEF ShellExits, Publish, PublishDropped, PublishQueued, PublishLags, PublishFindsClosed, Signal
  <2>3. ASSUME ShellLost
       PROVE  ControlOK'
    BY <2>3 DEF ShellLost
  <2>4. ASSUME ShellReadsClose
       PROVE  ControlOK'
    BY <2>4 DEF ShellReadsClose
  <2>5. ASSUME ShellCleansUp
       PROVE  ControlOK'
    BY <2>5 DEF ShellCleansUp
  <2>6. ASSUME ReaperTakes
       PROVE  ControlOK'
    BY <2>6 DEF ReaperTakes
  <2>7. ASSUME ReaperTerminates
       PROVE  ControlOK'
    BY <2>7 DEF ReaperTerminates
  <2>8. ASSUME NEW k \in Conns, AttachLooksUp(k)
       PROVE  ControlOK'
    BY <2>8 DEF AttachLooksUp, Written, Signal
  <2>9. ASSUME NEW k \in Conns, AttachRefused(k)
       PROVE  ControlOK'
    BY <2>9 DEF AttachRefused, Written, Signal
  <2>10. ASSUME NEW k \in Conns, AttachInstalls(k)
       PROVE  ControlOK'
    BY <2>10 DEF AttachInstalls, ReplayFrom, StartSeq
  <2>11. ASSUME NEW k \in Conns, AttachReplies(k)
       PROVE  ControlOK'
    BY <2>11 DEF AttachReplies, Written, ReplyFrames, Ready, Signal, Output, NoReply
  <2>12. ASSUME NEW k \in Conns, HandlesClose(k)
       PROVE  ControlOK'
    BY <2>12 DEF HandlesClose
  <2>13. ASSUME NEW k \in Conns, NoticesDisconnect(k)
       PROVE  ControlOK'
    BY <2>13 DEF NoticesDisconnect
  <2>14. ASSUME NEW k \in Conns, MarkerQueued(k)
       PROVE  ControlOK'
    BY <2>14 DEF MarkerQueued, Signal
  <2>15. ASSUME NEW k \in Conns, PumpForwards(k)
       PROVE  ControlOK'
    BY <2>15 DEF PumpForwards, Written
  <2>16. ASSUME NEW k \in Conns, PumpReadsExit(k)
       PROVE  ControlOK'
    BY <2>16 DEF PumpReadsExit, EndsWith, Written, Signal
  <2>17. ASSUME NEW k \in Conns, PumpReadsMarker(k)
       PROVE  ControlOK'
    BY <2>17 DEF PumpReadsMarker, EndsWith, Written, Signal
  <2>18. ASSUME NEW k \in Conns, PumpSuperseded(k)
       PROVE  ControlOK'
    BY <2>18 DEF PumpSuperseded, EndsWith, Written, Signal
  <2>19. ASSUME NEW c \in Clients, GetsReady(c)
       PROVE  ControlOK'
    <3>1. Head(wire[conn[c]]).lo \in Nat /\ Head(wire[conn[c]]).n \in Nat
      BY <2>19, Takes, Frames DEF GetsReady
    <3> QED BY <2>19, <3>1 DEF GetsReady
  <2>20. ASSUME NEW c \in Clients, GetsData(c)
       PROVE  ControlOK'
    <3>1. Head(wire[conn[c]]).lo \in Nat /\ Head(wire[conn[c]]).n \in Nat
      BY <2>20, Takes, Frames DEF GetsData
    <3> QED BY <2>20, <3>1 DEF GetsData
  <2>21. ASSUME NEW c \in Clients, GetsTruncated(c)
       PROVE  ControlOK'
    BY <2>21 DEF GetsTruncated, Incoming, Consumes
  <2>22. ASSUME NEW c \in Clients, GetsFinal(c)
       PROVE  ControlOK'
    BY ZenonT(30), <2>22 DEF GetsFinal, Incoming, Consumes, Hangs
  <2>23. ASSUME NEW c \in Clients, GetsLagged(c)
       PROVE  ControlOK'
    BY <2>23 DEF GetsLagged, Incoming, Consumes
  <2>24. ASSUME NEW c \in Clients, GetsClose(c)
       PROVE  ControlOK'
    BY <2>24 DEF GetsClose, Incoming, Hangs
  <2>25. ASSUME NEW c \in Clients, Paints(c)
       PROVE  ControlOK'
    BY <2>25 DEF Paints
  <2>26. ASSUME NEW c \in Clients, Reconnects(c)
       PROVE  ControlOK'
    BY <2>26 DEF Reconnects, OpensSocket
  <2>27. ASSUME NEW c \in Clients, Resumes(c)
       PROVE  ControlOK'
    BY <2>27 DEF Resumes, OpensSocket
  <2>28. ASSUME NEW c \in Clients, UserCloses(c)
       PROVE  ControlOK'
    BY <2>28 DEF UserCloses, Hangs
  <2>29. ASSUME NEW c \in Clients, LinkDrops(c)
       PROVE  ControlOK'
    BY <2>29 DEF LinkDrops, Hangs
  <2> QED 
    BY <1>1, <2>1, <2>2, <2>3, <2>4, <2>5, <2>6, <2>7, <2>8, <2>9,
       <2>10, <2>11, <2>12, <2>13, <2>14, <2>15, <2>16, <2>17, <2>18, <2>19,
       <2>20, <2>21, <2>22, <2>23, <2>24, <2>25, <2>26, <2>27, <2>28, <2>29
    DEF Next, ShellTask, Reaper, Handler, Pump, Receives, Client
<1>2. CASE UNCHANGED vars
  BY <1>2 DEF vars
<1> QED BY <1>1, <1>2

-------------------------------------------------------------------------------

LEMMA InitTypes == Init => TypeOK
<1> SUFFICES ASSUME Init PROVE TypeOK
  OBVIOUS
<1> USE BoundsAssumption DEF Init
<1>1. 1 \in Conns
  BY DEF Conns
<1>2. ControlOK
  <2>0. /\ next_seq = 0 /\ current = 1 /\ shell = "running"
    OBVIOUS
  <2>1. /\ detached \in BOOLEAN /\ closed \in BOOLEAN
        /\ replay_requested \in BOOLEAN /\ in_store \in BOOLEAN
        /\ expired \in BOOLEAN /\ input_close \in BOOLEAN
    BY Zenon
  <2>2. /\ phase \in [Conns -> {"unused", "attaching", "found", "idle", "running", "done"}]
        /\ since \in [Conns -> Nat]
        /\ marker \in [Conns -> BOOLEAN]
        /\ pump \in [Conns -> {"none", "on", "ended"}]
        /\ link \in [Conns -> {"none", "up", "lost", "gone"}]
        /\ close_sent \in [Conns -> BOOLEAN]
    OBVIOUS
  <2>3. /\ conn \in [Clients -> Conns \cup {Nobody}]
        /\ mode \in [Clients -> {"live", "over", "ended"}]
        /\ rendered \in [Clients -> Nat]
        /\ pending \in [Clients -> Nat]
        /\ shown \in [Clients -> SUBSET Nat]
    BY <1>1
  <2> QED BY <1>1, <2>0, <2>1, <2>2, <2>3 DEF ControlOK
<1>3. QueuesOK
  <2>1. <<Ready(0)>> \in Seq(Frame) /\ << >> \in Seq(Frame) /\ << >> \in Seq(Entry)
    BY Frames
  <2>2. NoReply \in Tagged(ReplyKinds)
    BY DEF NoReply, Signal, Tagged, ReplyKinds
  <2> QED BY <2>1, <2>2 DEF QueuesOK
<1> QED BY <1>2, <1>3 DEF TypeOK

(* Every variable keeps its type (session.rs, terminal.rs and the clients). *)
THEOREM TypeCorrect == Spec => []TypeOK
<1>1. TypeOK /\ [Next]_vars => TypeOK'
  BY QueuesInductive, ControlInductive DEF TypeOK
<1> QED BY InitTypes, <1>1, PTL DEF Spec

-------------------------------------------------------------------------------

LEMMA NobodyIsNoConnection == Nobody \notin Conns
BY DEF Nobody, Conns

(* The steps that change the owner or the reaper's clock change both. *)
LEMMA OwnerInductive == DetachedIffUnowned /\ [Next]_vars => DetachedIffUnowned'
<1> SUFFICES ASSUME DetachedIffUnowned, [Next]_vars
             PROVE  DetachedIffUnowned'
  OBVIOUS
<1> USE DEF DetachedIffUnowned, sessionVars, agentVars
<1>1. CASE Next
  <2>1. ASSUME NEW n \in 1..MaxChunk, ShellWrites(n)
       PROVE  DetachedIffUnowned'
    BY <2>1 DEF ShellWrites, Publish, PublishDropped, PublishQueued, PublishLags, PublishFindsClosed
  <2>2. ASSUME ShellExits
       PROVE  DetachedIffUnowned'
    BY <2>2 DEF ShellExits, Publish, PublishDropped, PublishQueued, PublishLags, PublishFindsClosed
  <2>3. ASSUME ShellLost
       PROVE  DetachedIffUnowned'
    BY <2>3 DEF ShellLost
  <2>4. ASSUME ShellReadsClose
       PROVE  DetachedIffUnowned'
    BY <2>4 DEF ShellReadsClose
  <2>5. ASSUME ShellCleansUp
       PROVE  DetachedIffUnowned'
    BY <2>5 DEF ShellCleansUp
  <2>6. ASSUME ReaperTakes
       PROVE  DetachedIffUnowned'
    BY <2>6 DEF ReaperTakes
  <2>7. ASSUME ReaperTerminates
       PROVE  DetachedIffUnowned'
    BY <2>7 DEF ReaperTerminates
  <2>8. ASSUME NEW k \in Conns, AttachLooksUp(k)
       PROVE  DetachedIffUnowned'
    BY <2>8 DEF AttachLooksUp
  <2>9. ASSUME NEW k \in Conns, AttachRefused(k)
       PROVE  DetachedIffUnowned'
    BY <2>9 DEF AttachRefused
  <2>10. ASSUME NEW k \in Conns, AttachInstalls(k)
       PROVE  DetachedIffUnowned'
    BY <2>10, NobodyIsNoConnection DEF AttachInstalls
  <2>11. ASSUME NEW k \in Conns, AttachReplies(k)
       PROVE  DetachedIffUnowned'
    BY <2>11 DEF AttachReplies
  <2>12. ASSUME NEW k \in Conns, HandlesClose(k)
       PROVE  DetachedIffUnowned'
    BY <2>12 DEF HandlesClose
  <2>13. ASSUME NEW k \in Conns, NoticesDisconnect(k)
       PROVE  DetachedIffUnowned'
    BY <2>13 DEF NoticesDisconnect
  <2>14. ASSUME NEW k \in Conns, MarkerQueued(k)
       PROVE  DetachedIffUnowned'
    BY <2>14 DEF MarkerQueued
  <2>15. ASSUME NEW k \in Conns, PumpForwards(k)
       PROVE  DetachedIffUnowned'
    BY <2>15 DEF PumpForwards
  <2>16. ASSUME NEW k \in Conns, PumpReadsExit(k)
       PROVE  DetachedIffUnowned'
    BY <2>16 DEF PumpReadsExit
  <2>17. ASSUME NEW k \in Conns, PumpReadsMarker(k)
       PROVE  DetachedIffUnowned'
    BY <2>17 DEF PumpReadsMarker
  <2>18. ASSUME NEW k \in Conns, PumpSuperseded(k)
       PROVE  DetachedIffUnowned'
    BY <2>18 DEF PumpSuperseded
  <2>19. ASSUME NEW c \in Clients, GetsReady(c)
       PROVE  DetachedIffUnowned'
    BY <2>19 DEF GetsReady
  <2>20. ASSUME NEW c \in Clients, GetsData(c)
       PROVE  DetachedIffUnowned'
    BY <2>20 DEF GetsData
  <2>21. ASSUME NEW c \in Clients, GetsTruncated(c)
       PROVE  DetachedIffUnowned'
    BY <2>21 DEF GetsTruncated
  <2>22. ASSUME NEW c \in Clients, GetsFinal(c)
       PROVE  DetachedIffUnowned'
    BY <2>22 DEF GetsFinal
  <2>23. ASSUME NEW c \in Clients, GetsLagged(c)
       PROVE  DetachedIffUnowned'
    BY <2>23 DEF GetsLagged
  <2>24. ASSUME NEW c \in Clients, GetsClose(c)
       PROVE  DetachedIffUnowned'
    BY <2>24 DEF GetsClose
  <2>25. ASSUME NEW c \in Clients, Paints(c)
       PROVE  DetachedIffUnowned'
    BY <2>25 DEF Paints
  <2>26. ASSUME NEW c \in Clients, Reconnects(c)
       PROVE  DetachedIffUnowned'
    BY <2>26 DEF Reconnects, OpensSocket
  <2>27. ASSUME NEW c \in Clients, Resumes(c)
       PROVE  DetachedIffUnowned'
    BY <2>27 DEF Resumes, OpensSocket
  <2>28. ASSUME NEW c \in Clients, UserCloses(c)
       PROVE  DetachedIffUnowned'
    BY <2>28 DEF UserCloses
  <2>29. ASSUME NEW c \in Clients, LinkDrops(c)
       PROVE  DetachedIffUnowned'
    BY <2>29 DEF LinkDrops
  <2> QED
    BY <1>1, <2>1, <2>2, <2>3, <2>4, <2>5, <2>6, <2>7, <2>8, <2>9,
       <2>10, <2>11, <2>12, <2>13, <2>14, <2>15, <2>16, <2>17, <2>18, <2>19,
       <2>20, <2>21, <2>22, <2>23, <2>24, <2>25, <2>26, <2>27, <2>28, <2>29
    DEF Next, ShellTask, Reaper, Handler, Pump, Receives, Client
<1>2. CASE UNCHANGED vars
  BY <1>2 DEF vars
<1> QED BY <1>1, <1>2

(* detached_at is set exactly while nobody owns the session, so the        *)
(* reaper's clock runs when it should and only then (session.rs,           *)
(* AttachmentState).                                                       *)
THEOREM ClockRunsIffUnowned == Spec => []DetachedIffUnowned
<1>1. Init => DetachedIffUnowned
  BY DEF Init, DetachedIffUnowned, Nobody
<1> QED BY <1>1, OwnerInductive, PTL DEF Spec

(* Only the reaper takes a session out as expired. *)
LEMMA OnlyReaperTakes ==
  ASSUME [Next]_vars, expired', ~expired
  PROVE  ReaperTakes
<1> USE DEF storeVars, agentVars
<1>1. CASE Next
  <2>1. ASSUME NEW n \in 1..MaxChunk, ShellWrites(n)
       PROVE  ReaperTakes
    BY <2>1 DEF ShellWrites, Publish, PublishDropped, PublishQueued, PublishLags, PublishFindsClosed
  <2>2. ASSUME ShellExits
       PROVE  ReaperTakes
    BY <2>2 DEF ShellExits, Publish, PublishDropped, PublishQueued, PublishLags, PublishFindsClosed
  <2>3. ASSUME ShellLost
       PROVE  ReaperTakes
    BY <2>3 DEF ShellLost
  <2>4. ASSUME ShellReadsClose
       PROVE  ReaperTakes
    BY <2>4 DEF ShellReadsClose
  <2>5. ASSUME ShellCleansUp
       PROVE  ReaperTakes
    BY <2>5 DEF ShellCleansUp
  <2>6. ASSUME ReaperTakes
       PROVE  ReaperTakes
    BY <2>6 DEF ReaperTakes
  <2>7. ASSUME ReaperTerminates
       PROVE  ReaperTakes
    BY <2>7 DEF ReaperTerminates
  <2>8. ASSUME NEW k \in Conns, AttachLooksUp(k)
       PROVE  ReaperTakes
    BY <2>8 DEF AttachLooksUp
  <2>9. ASSUME NEW k \in Conns, AttachRefused(k)
       PROVE  ReaperTakes
    BY <2>9 DEF AttachRefused
  <2>10. ASSUME NEW k \in Conns, AttachInstalls(k)
       PROVE  ReaperTakes
    BY <2>10 DEF AttachInstalls
  <2>11. ASSUME NEW k \in Conns, AttachReplies(k)
       PROVE  ReaperTakes
    BY <2>11 DEF AttachReplies
  <2>12. ASSUME NEW k \in Conns, HandlesClose(k)
       PROVE  ReaperTakes
    BY <2>12 DEF HandlesClose
  <2>13. ASSUME NEW k \in Conns, NoticesDisconnect(k)
       PROVE  ReaperTakes
    BY <2>13 DEF NoticesDisconnect
  <2>14. ASSUME NEW k \in Conns, MarkerQueued(k)
       PROVE  ReaperTakes
    BY <2>14 DEF MarkerQueued
  <2>15. ASSUME NEW k \in Conns, PumpForwards(k)
       PROVE  ReaperTakes
    BY <2>15 DEF PumpForwards
  <2>16. ASSUME NEW k \in Conns, PumpReadsExit(k)
       PROVE  ReaperTakes
    BY <2>16 DEF PumpReadsExit
  <2>17. ASSUME NEW k \in Conns, PumpReadsMarker(k)
       PROVE  ReaperTakes
    BY <2>17 DEF PumpReadsMarker
  <2>18. ASSUME NEW k \in Conns, PumpSuperseded(k)
       PROVE  ReaperTakes
    BY <2>18 DEF PumpSuperseded
  <2>19. ASSUME NEW c \in Clients, GetsReady(c)
       PROVE  ReaperTakes
    BY <2>19 DEF GetsReady
  <2>20. ASSUME NEW c \in Clients, GetsData(c)
       PROVE  ReaperTakes
    BY <2>20 DEF GetsData
  <2>21. ASSUME NEW c \in Clients, GetsTruncated(c)
       PROVE  ReaperTakes
    BY <2>21 DEF GetsTruncated
  <2>22. ASSUME NEW c \in Clients, GetsFinal(c)
       PROVE  ReaperTakes
    BY <2>22 DEF GetsFinal
  <2>23. ASSUME NEW c \in Clients, GetsLagged(c)
       PROVE  ReaperTakes
    BY <2>23 DEF GetsLagged
  <2>24. ASSUME NEW c \in Clients, GetsClose(c)
       PROVE  ReaperTakes
    BY <2>24 DEF GetsClose
  <2>25. ASSUME NEW c \in Clients, Paints(c)
       PROVE  ReaperTakes
    BY <2>25 DEF Paints
  <2>26. ASSUME NEW c \in Clients, Reconnects(c)
       PROVE  ReaperTakes
    BY <2>26 DEF Reconnects, OpensSocket
  <2>27. ASSUME NEW c \in Clients, Resumes(c)
       PROVE  ReaperTakes
    BY <2>27 DEF Resumes, OpensSocket
  <2>28. ASSUME NEW c \in Clients, UserCloses(c)
       PROVE  ReaperTakes
    BY <2>28 DEF UserCloses
  <2>29. ASSUME NEW c \in Clients, LinkDrops(c)
       PROVE  ReaperTakes
    BY <2>29 DEF LinkDrops
  <2> QED
    BY <1>1, <2>1, <2>2, <2>3, <2>4, <2>5, <2>6, <2>7, <2>8, <2>9,
       <2>10, <2>11, <2>12, <2>13, <2>14, <2>15, <2>16, <2>17, <2>18, <2>19,
       <2>20, <2>21, <2>22, <2>23, <2>24, <2>25, <2>26, <2>27, <2>28, <2>29
    DEF Next, ShellTask, Reaper, Handler, Pump, Receives, Client
<1>2. CASE UNCHANGED vars
  BY <1>2 DEF vars
<1> QED BY <1>1, <1>2

(* The reaper takes a session nobody owns, never one in use (session.rs,   *)
(* take_expired).                                                          *)
THEOREM ReaperIsSafe == Spec => ReaperSparesTheAttached
<1>1. DetachedIffUnowned /\ [Next]_vars
        => [(expired' /\ ~expired) => current = Nobody]_vars
  BY OnlyReaperTakes DEF ReaperTakes, DetachedIffUnowned
<1> QED BY <1>1, ClockRunsIffUnowned, PTL DEF Spec, ReaperSparesTheAttached

(* A step after which nobody owns the session was the end of its owner's   *)
(* link or pump, or the reaper's.                                          *)
LEMMA OnlyTheOwnerLetsGo ==
  ASSUME [Next]_vars, current # Nobody, current' = Nobody
  PROVE  link[current] # "up" \/ pump[current] = "ended" \/ expired
<1> USE DEF sessionVars, agentVars
<1> DEFINE Goal == link[current] # "up" \/ pump[current] = "ended" \/ expired
<1>1. CASE Next
  <2>1. ASSUME NEW n \in 1..MaxChunk, ShellWrites(n)
       PROVE  Goal
    BY <2>1 DEF ShellWrites, Publish, PublishDropped, PublishQueued, PublishLags, PublishFindsClosed
  <2>2. ASSUME ShellExits
       PROVE  Goal
    BY <2>2 DEF ShellExits, Publish, PublishDropped, PublishQueued, PublishLags, PublishFindsClosed
  <2>3. ASSUME ShellLost
       PROVE  Goal
    BY <2>3 DEF ShellLost
  <2>4. ASSUME ShellReadsClose
       PROVE  Goal
    BY <2>4 DEF ShellReadsClose
  <2>5. ASSUME ShellCleansUp
       PROVE  Goal
    BY <2>5 DEF ShellCleansUp
  <2>6. ASSUME ReaperTakes
       PROVE  Goal
    BY <2>6 DEF ReaperTakes
  <2>7. ASSUME ReaperTerminates
       PROVE  Goal
    BY <2>7 DEF ReaperTerminates
  <2>8. ASSUME NEW k \in Conns, AttachLooksUp(k)
       PROVE  Goal
    BY <2>8 DEF AttachLooksUp
  <2>9. ASSUME NEW k \in Conns, AttachRefused(k)
       PROVE  Goal
    BY <2>9 DEF AttachRefused
  <2>10. ASSUME NEW k \in Conns, AttachInstalls(k)
       PROVE  Goal
    BY <2>10, NobodyIsNoConnection DEF AttachInstalls
  <2>11. ASSUME NEW k \in Conns, AttachReplies(k)
       PROVE  Goal
    BY <2>11 DEF AttachReplies
  <2>12. ASSUME NEW k \in Conns, HandlesClose(k)
       PROVE  Goal
    BY <2>12 DEF HandlesClose
  <2>13. ASSUME NEW k \in Conns, NoticesDisconnect(k)
       PROVE  Goal
    BY <2>13 DEF NoticesDisconnect
  <2>14. ASSUME NEW k \in Conns, MarkerQueued(k)
       PROVE  Goal
    BY <2>14 DEF MarkerQueued
  <2>15. ASSUME NEW k \in Conns, PumpForwards(k)
       PROVE  Goal
    BY <2>15 DEF PumpForwards
  <2>16. ASSUME NEW k \in Conns, PumpReadsExit(k)
       PROVE  Goal
    BY <2>16 DEF PumpReadsExit
  <2>17. ASSUME NEW k \in Conns, PumpReadsMarker(k)
       PROVE  Goal
    BY <2>17 DEF PumpReadsMarker
  <2>18. ASSUME NEW k \in Conns, PumpSuperseded(k)
       PROVE  Goal
    BY <2>18 DEF PumpSuperseded
  <2>19. ASSUME NEW c \in Clients, GetsReady(c)
       PROVE  Goal
    BY <2>19 DEF GetsReady
  <2>20. ASSUME NEW c \in Clients, GetsData(c)
       PROVE  Goal
    BY <2>20 DEF GetsData
  <2>21. ASSUME NEW c \in Clients, GetsTruncated(c)
       PROVE  Goal
    BY <2>21 DEF GetsTruncated
  <2>22. ASSUME NEW c \in Clients, GetsFinal(c)
       PROVE  Goal
    BY <2>22 DEF GetsFinal
  <2>23. ASSUME NEW c \in Clients, GetsLagged(c)
       PROVE  Goal
    BY <2>23 DEF GetsLagged
  <2>24. ASSUME NEW c \in Clients, GetsClose(c)
       PROVE  Goal
    BY <2>24 DEF GetsClose
  <2>25. ASSUME NEW c \in Clients, Paints(c)
       PROVE  Goal
    BY <2>25 DEF Paints
  <2>26. ASSUME NEW c \in Clients, Reconnects(c)
       PROVE  Goal
    BY <2>26 DEF Reconnects, OpensSocket
  <2>27. ASSUME NEW c \in Clients, Resumes(c)
       PROVE  Goal
    BY <2>27 DEF Resumes, OpensSocket
  <2>28. ASSUME NEW c \in Clients, UserCloses(c)
       PROVE  Goal
    BY <2>28 DEF UserCloses
  <2>29. ASSUME NEW c \in Clients, LinkDrops(c)
       PROVE  Goal
    BY <2>29 DEF LinkDrops
  <2> QED
    BY <1>1, <2>1, <2>2, <2>3, <2>4, <2>5, <2>6, <2>7, <2>8, <2>9,
       <2>10, <2>11, <2>12, <2>13, <2>14, <2>15, <2>16, <2>17, <2>18, <2>19,
       <2>20, <2>21, <2>22, <2>23, <2>24, <2>25, <2>26, <2>27, <2>28, <2>29
    DEF Next, ShellTask, Reaper, Handler, Pump, Receives, Client
<1>2. CASE UNCHANGED vars
  BY <1>2 DEF vars
<1> QED BY <1>1, <1>2

(* A connection that dies late never unseats the one that took over        *)
(* (session.rs, Session::detach): of the steps of TerminalStream only the  *)
(* end of the owner's connection and the reaper's termination do.          *)
THEOREM TakeoverSurvivesLateDisconnects == Spec => StaleConnectionsDoNotUnseat
<1>1. [Next]_vars
        => [(current # Nobody /\ current' = Nobody)
              => \/ link[current] # "up"
                 \/ pump[current] = "ended"
                 \/ expired]_vars
  BY OnlyTheOwnerLetsGo
<1> QED BY <1>1, PTL DEF Spec, StaleConnectionsDoNotUnseat


-------------------------------------------------------------------------------
(* A connection has its receiver once it was attached; before that nothing *)
(* is ever queued for it.                                                  *)
Attached(k) == reply[k] # NoReply \/ pump[k] = "on"
Unattached(k) == reply[k] = NoReply /\ pump[k] = "none"

(* A link is up while a client uses it, and it carries frames only then. *)
LinksOK ==
  /\ \A c \in Clients : conn[c] # Nobody => link[conn[c]] = "up"
  /\ \A c, d \in Clients : conn[c] # Nobody /\ conn[c] = conn[d] => c = d
  /\ \A k \in Conns : phase[k] = "unused" <=> link[k] = "none"
  /\ \A k \in Conns : link[k] # "up" => wire[k] = << >>
  /\ \A k \in Conns : link[k] = "up" => \E c \in Clients : conn[c] = k

(* How far a connection has come, and what its queues hold by then. *)
Attaching(k) ==
    /\ phase[k] \in {"unused", "attaching", "found"} => Unattached(k) /\ wire[k] = << >>
    /\ phase[k] = "idle" => Unattached(k)
    /\ reply[k] # NoReply => pump[k] = "none" /\ wire[k] = << >>
    /\ Unattached(k) => rx[k] = << >> /\ ~marker[k] /\ current # k
    /\ Unattached(k) => \A i \in 1..Len(wire[k]) : wire[k][i].t \in {"gone"}

AttachingOK == \A k \in Conns : Attaching(k)

Pumping(k) ==
    /\ pump[k] = "on" =>
         \A i \in 1..Len(wire[k]) : wire[k][i].t \in {"ready", "truncated", "data"}
    /\ current = k /\ ~replay_requested =>
         /\ ~marker[k]
         /\ shell = "running" => \A i \in 1..Len(rx[k]) : rx[k][i].t \in {"data"}
PumpOK == \A k \in Conns : Pumping(k)

(* Output is contiguous when each chunk begins where the one before ends, *)
(* the first at a given position.                                         *)
Contiguous(s, at) ==
  \A i \in 1..Len(s) :
    s[i].t = "data" =>
      s[i].lo = IF i > 1 /\ s[i - 1].t = "data" THEN s[i - 1].lo + s[i - 1].n ELSE at
EndOf(s, at) ==
  IF s # << >> /\ s[Len(s)].t = "data" THEN s[Len(s)].lo + s[Len(s)].n ELSE at

(* `ready` and `gap_truncated` come first, then output, then what ends it. *)
OrderedWire(s) ==
  \A i \in 1..Len(s) :
    /\ s[i].t = "ready" => i = 1
    /\ s[i].t = "truncated" => i = 1 \/ (i = 2 /\ s[1].t = "ready")
    /\ s[i].t = "data" /\ i > 1 => s[i - 1].t \in {"data", "ready", "truncated"}
OrderedRx(s) ==
  \A i \in 1..Len(s) : s[i].t = "data" /\ i > 1 => s[i - 1].t = "data"

FinalKinds == {"exit", "lagged", "superseded", "gone", "close"}
EndsOnce(s) ==
  \A i, j \in 1..Len(s) : i < j /\ s[i].t \in FinalKinds => s[j].t = "close"

Ordering(k) == OrderedWire(wire[k]) /\ OrderedRx(rx[k]) /\ EndsOnce(wire[k])
OrderOK == \A k \in Conns : Ordering(k)

(* Nothing is ahead of what was produced. *)
Within(s, last) ==
  \A i \in 1..Len(s) :
    /\ s[i].t = "ready" => s[i].lo <= last
    /\ s[i].t = "data" => s[i].n > 0 /\ s[i].lo + s[i].n <= last
Bounded(k) ==
  /\ Within(wire[k], next_seq) /\ Within(rx[k], next_seq)
  /\ since[k] <= next_seq /\ reply[k].lo + reply[k].n <= next_seq
Behind(c) == rendered[c] + pending[c] <= next_seq /\ shown[c] \subseteq 1..next_seq
BoundsOK == (\A k \in Conns : Bounded(k)) /\ (\A c \in Clients : Behind(c))

(* Where the next output for a client has to begin: at its counter and     *)
(* what is still being painted, or where a `ready` on its way puts it.     *)
Starts(s, at) == IF s # << >> /\ s[1].t = "ready" THEN s[1].lo ELSE at
Base(c) == Starts(wire[conn[c]], rendered[c] + pending[c])

(* Where output that is still queued begins. *)
Follows(c) ==
  IF reply[conn[c]] # NoReply THEN reply[conn[c]].lo + reply[conn[c]].n
  ELSE EndOf(wire[conn[c]], Base(c))

(* The attach frame carries the counter, and the reply answers to it. *)
Resuming(c) ==
  conn[c] # Nobody =>
    LET k == conn[c] IN
      /\ phase[k] \in {"attaching", "found"} => since[k] = rendered[c] /\ pending[c] = 0
      /\ reply[k] # NoReply =>
           pending[c] = 0 /\ (reply[k].t # "cut" => reply[k].lo = rendered[c])
      /\ \A i \in 1..Len(wire[k]) : wire[k][i].t = "truncated" => pending[c] = 0
      /\ wire[k] # << >> /\ wire[k][1].t = "ready" =>
           /\ pending[c] = 0
           /\ \/ wire[k][1].lo = rendered[c]
              \/ Len(wire[k]) > 1 /\ wire[k][2].t = "truncated"
ResumesOK == \A c \in Clients : Resuming(c)

(* What is published now goes to this connection. *)
Owns(k) == current = k /\ ~replay_requested /\ shell = "running"

Chained(c) ==
  conn[c] # Nobody =>
    LET k == conn[c] IN
      /\ Contiguous(wire[k], Base(c))
      /\ Attached(k) => Contiguous(rx[k], Follows(c))
      /\ Attached(k) /\ Owns(k) => EndOf(rx[k], Follows(c)) = next_seq
ChainOK == \A c \in Clients : Chained(c)

(* The screen ends, or begins, wherever the counter may stand when the     *)
(* connection is lost.                                                     *)
Joins(c, at) == at \in shown[c] \/ at + 1 \in shown[c]
Joined(c) == 
  IF shown[c] = {} THEN pending[c] = 0
  ELSE \A at \in rendered[c]..(rendered[c] + pending[c]) : Joins(c, at)

OverIsOver(c) ==
  conn[c] # Nobody =>
    /\ \A i \in 1..Len(wire[conn[c]]) : wire[conn[c]][i].t = "close"
    /\ reply[conn[c]] = NoReply
    /\ pump[conn[c]] # "on"
    /\ phase[conn[c]] \notin {"attaching", "found"}

WipePending(c) ==
  conn[c] # Nobody /\ wire[conn[c]] # << >> /\ wire[conn[c]][1].t = "truncated"

Screened(c) ==
    IF mode[c] = "ended" THEN OverIsOver(c) ELSE WipePending(c) \/ Joined(c)
ScreensOK == \A c \in Clients : Screened(c)

StreamInv ==
  /\ TypeOK /\ LinksOK /\ AttachingOK /\ PumpOK /\ OrderOK /\ BoundsOK
  /\ ResumesOK /\ ChainOK /\ ScreensOK

-------------------------------------------------------------------------------
(* Queues: how steps change them, and what that preserves.                 *)

(* How a queue changes: its first entry is taken, one is added, or the last *)
(* two that a pump writes.                                                 *)
Consumed(s, t) ==
  /\ Len(s) \in Nat \ {0} /\ Len(t) = Len(s) - 1 /\ (Len(s) = 1 => t = << >>)
  /\ \A i \in 1..(Len(s) - 1) : t[i] = s[i + 1]
Extended(s, t, e) ==
  /\ Len(s) \in Nat /\ Len(t) = Len(s) + 1 /\ t[Len(s) + 1] = e
  /\ \A i \in 1..Len(s) : t[i] = s[i]
EndedWith(s, t, e) ==
  /\ Len(s) \in Nat /\ Len(t) = Len(s) + 2
  /\ t[Len(s) + 1] = Signal(e) /\ t[Len(s) + 2] = Signal("close")
  /\ \A i \in 1..Len(s) : t[i] = s[i]

(* What one or two frames more, or one less, make of a queue. *)
LEMMA OneMore ==
  ASSUME NEW S, NEW s \in Seq(S), NEW e \in S
  PROVE  /\ Append(s, e) = s \o <<e>>
         /\ Append(s, e) \in Seq(S) /\ Len(Append(s, e)) = Len(s) + 1
         /\ \A i \in 1..Len(s) : Append(s, e)[i] = s[i]
         /\ Append(s, e)[Len(s) + 1] = e
BY AppendProperties, AppendIsConcat

LEMMA OneMoreExtends ==
  ASSUME NEW S, NEW s \in Seq(S), NEW e \in S
  PROVE  Extended(s, Append(s, e), e)
BY OneMore DEF Extended

LEMMA TwoMore ==
  ASSUME NEW S, NEW s \in Seq(S), NEW e \in S, NEW f \in S
  PROVE  /\ Len(s \o <<e, f>>) = Len(s) + 2
         /\ \A i \in 1..Len(s) : (s \o <<e, f>>)[i] = s[i]
         /\ (s \o <<e, f>>)[Len(s) + 1] = e
         /\ (s \o <<e, f>>)[Len(s) + 2] = f
<1>1. <<e, f>> \in Seq(S) /\ Len(<<e, f>>) = 2 /\ <<e, f>>[1] = e /\ <<e, f>>[2] = f
  OBVIOUS
<1>2. Len(s) \in Nat
  BY LenProperties
<1> DEFINE ef == <<e, f>>
<1> HIDE DEF ef
<1>3. ef \in Seq(S) /\ Len(ef) = 2 /\ ef[1] = e /\ ef[2] = f
  BY <1>1 DEF ef
<1>4. /\ Len(s \o ef) = Len(s) + Len(ef)
      /\ \A i \in 1..Len(s) + Len(ef) : (s \o ef)[i] = IF i <= Len(s) THEN s[i] ELSE ef[i - Len(s)]
  BY <1>3, ConcatProperties
<1>5. Len(s \o ef) = Len(s) + 2 /\ \A i \in 1..Len(s) : (s \o ef)[i] = s[i]
  BY <1>2, <1>3, <1>4
<1>6. (s \o ef)[Len(s) + 1] = ef[1] /\ (s \o ef)[Len(s) + 2] = ef[2]
  BY <1>2, <1>3, <1>4
<1> QED BY <1>3, <1>5, <1>6 DEF ef

LEMMA OneLess ==
  ASSUME NEW S, NEW s \in Seq(S), s # << >>
  PROVE  /\ Len(s) \in Nat \ {0} /\ Head(s) = s[1] /\ s[1] \in S
         /\ Tail(s) \in Seq(S) /\ Len(Tail(s)) = Len(s) - 1 /\ (Len(s) = 1 => Tail(s) = << >>)
         /\ \A i \in 1..(Len(s) - 1) : Tail(s)[i] = s[i + 1]
<1>1. Len(s) \in Nat /\ Len(s) # 0
  BY EmptySeq, LenProperties
<1>2. /\ Head(s) = s[1] /\ Tail(s) \in Seq(S) /\ Len(Tail(s)) = Len(s) - 1
      /\ \A i \in 1..Len(Tail(s)) : Tail(s)[i] = s[i + 1]
  BY HeadTailProperties
<1>3. s[1] \in S
  BY <1>1, ElementOfSeq
<1>4. Len(s) = 1 => Tail(s) = << >>
  <2>1. Len(s) = 1 => Len(Tail(s)) = 0
    BY <1>2
  <2> QED BY <1>2, <2>1, EmptySeq
<1> QED BY <1>1, <1>2, <1>3, <1>4

(* The fields of what a queue carries. *)
LEMMA Fields ==
  ASSUME QueuesOK, NEW k \in Conns
  PROVE  /\ wire[k] \in Seq(Frame) /\ Len(wire[k]) \in Nat
         /\ \A i \in 1..Len(wire[k]) : /\ wire[k][i] \in Frame /\ wire[k][i].t \in FrameKinds
                                       /\ wire[k][i].lo \in Nat /\ wire[k][i].n \in Nat
         /\ rx[k] \in Seq(Entry) /\ Len(rx[k]) \in Nat
         /\ \A i \in 1..Len(rx[k]) : /\ rx[k][i] \in Entry /\ rx[k][i].t \in OutputKinds
                                     /\ rx[k][i].lo \in Nat /\ rx[k][i].n \in Nat
         /\ reply[k].t \in ReplyKinds /\ reply[k].lo \in Nat /\ reply[k].n \in Nat
<1>1. wire[k] \in Seq(Frame) /\ rx[k] \in Seq(Entry) /\ reply[k] \in Tagged(ReplyKinds)
  BY DEF QueuesOK
<1>2. \A i \in 1..Len(wire[k]) : wire[k][i] \in Frame
  BY <1>1, ElementOfSeq
<1>3. \A i \in 1..Len(rx[k]) : rx[k][i] \in Entry
  BY <1>1, ElementOfSeq
<1>4. Len(wire[k]) \in Nat /\ Len(rx[k]) \in Nat
  BY <1>1, LenProperties
<1> QED BY <1>1, <1>2, <1>3, <1>4 DEF Frame, Entry, Tagged

(* What is published: it joins the owner's queue, or changes no queue. *)
LEMMA PublishedFacts ==
  ASSUME TypeOK, NEW out \in Entry, Publish(out)
  PROVE  /\ UNCHANGED <<closed, storeVars, input_close, handlerVars, pump, linkVars,
                        clientVars>>
         /\ \/ /\ current \in Conns /\ ~replay_requested /\ pump[current] # "ended"
               /\ UNCHANGED <<current, detached, replay_requested, marker>>
               /\ Extended(rx[current], rx'[current], out)
               /\ \A j \in Conns : j # current => rx'[j] = rx[j]
            \/ /\ UNCHANGED rx
               /\ \/ /\ Withheld /\ UNCHANGED <<current, detached, replay_requested, marker>>
                  \/ /\ current \in Conns /\ current' = current /\ replay_requested'
                     /\ \A j \in Conns : j # current => marker'[j] = marker[j]
                  \/ /\ current' = Nobody /\ UNCHANGED <<replay_requested, marker>>
<1> USE DEF TypeOK, ControlOK
<1>1. CASE PublishQueued(out)
  <2>1. current \in Conns /\ rx' = [rx EXCEPT ![current] = Append(@, out)]
    BY <1>1 DEF PublishQueued, Withheld
  <2>2. rx[current] \in Seq(Entry)
    BY <2>1, Fields
  <2> DEFINE more == Append(rx[current], out)
  <2>3. /\ Len(more) = Len(rx[current]) + 1 /\ more[Len(rx[current]) + 1] = out
        /\ \A i \in 1..Len(rx[current]) : more[i] = rx[current][i]
    BY <2>2, OneMore
  <2> HIDE DEF more
  <2>4. rx' = [rx EXCEPT ![current] = more]
    BY <2>1 DEF more
  <2>5. rx'[current] = more /\ \A j \in Conns : j # current => rx'[j] = rx[j]
    BY <2>1, <2>4 DEF QueuesOK
  <2>6. Extended(rx[current], rx'[current], out)
    BY <2>2, <2>3, <2>5, LenProperties DEF Extended
  <2> QED BY <1>1, <2>1, <2>6, <2>5 DEF PublishQueued, Publish, Withheld
<1>2. CASE PublishDropped
  BY <1>2 DEF PublishDropped, Publish
<1>3. CASE PublishLags
  BY <1>3 DEF PublishLags, Publish, Withheld
<1>4. CASE PublishFindsClosed
  BY <1>4 DEF PublishFindsClosed, Publish
<1> QED BY <1>1, <1>2, <1>3, <1>4 DEF Publish

(* What the pump passes on, and how it ends. *)
LEMMA ForwardedFacts ==
  ASSUME TypeOK, LinksOK, NEW k \in Conns, PumpForwards(k)
  PROVE  /\ pump[k] = "on" /\ Len(rx[k]) \in Nat \ {0} /\ rx[k][1].t = "data"
         /\ UNCHANGED <<sessionVars, storeVars, shellVars, handlerVars, marker, link,
                        close_sent, clientVars>>
         /\ \A j \in Conns : j # k => wire'[j] = wire[j] /\ rx'[j] = rx[j] /\ pump'[j] = pump[j]
         /\ \/ wire' = wire /\ rx'[k] = << >> /\ pump'[k] = "ended"
            \/ /\ pump' = pump
               /\ Consumed(rx[k], rx'[k])
               /\ \/ link[k] # "up" /\ wire'[k] = << >>
                  \/ link[k] = "up" /\ Extended(wire[k], wire'[k], rx[k][1])
<1> USE DEF TypeOK, ControlOK, QueuesOK, Consumed
<1>1. rx[k] \in Seq(Entry) /\ wire[k] \in Seq(Frame) /\ rx[k] # << >>
  BY Fields DEF PumpForwards
<1>2. /\ Len(rx[k]) \in Nat \ {0} /\ Head(rx[k]) = rx[k][1] /\ rx[k][1] \in Entry
      /\ Len(Tail(rx[k])) = Len(rx[k]) - 1 /\ (Len(rx[k]) = 1 => Tail(rx[k]) = << >>)
      /\ \A i \in 1..(Len(rx[k]) - 1) : Tail(rx[k])[i] = rx[k][i + 1]
  BY <1>1, OneLess
<1>3. rx[k][1].t = "data" /\ rx[k][1] \in Frame
  BY <1>2, Frames DEF PumpForwards
<1>4. CASE link[k] = "gone"
  BY <1>2, <1>3, <1>4 DEF PumpForwards
<1>5. CASE link[k] # "gone"
  <2>1. /\ wire' = [wire EXCEPT ![k] = Written(k, <<Head(rx[k])>>)]
        /\ rx' = [rx EXCEPT ![k] = Tail(@)] /\ UNCHANGED pump
    BY <1>5 DEF PumpForwards
  <2>2. /\ rx'[k] = Tail(rx[k])
        /\ \A j \in Conns : j # k => wire'[j] = wire[j] /\ rx'[j] = rx[j]
    BY <2>1
  <2>3. CASE link[k] = "up"
    <3>1. wire'[k] = wire[k] \o <<rx[k][1]>>
      BY <1>2, <2>1, <2>3 DEF Written
    <3>2. wire'[k] = Append(wire[k], rx[k][1])
      BY <1>1, <1>3, <3>1, OneMore
    <3>3. /\ Len(wire'[k]) = Len(wire[k]) + 1 /\ wire'[k][Len(wire[k]) + 1] = rx[k][1]
          /\ \A i \in 1..Len(wire[k]) : wire'[k][i] = wire[k][i]
      BY <1>1, <1>3, <3>2, OneMore
    <3>4. Extended(wire[k], wire'[k], rx[k][1])
      BY <1>1, <3>3, LenProperties DEF Extended
    <3> QED BY <1>2, <1>3, <2>1, <2>2, <2>3, <3>4 DEF PumpForwards
  <2>4. CASE link[k] # "up"
    <3>1. wire'[k] = << >>
      BY <2>1, <2>4 DEF Written
    <3> QED BY <1>2, <1>3, <2>1, <2>2, <2>4, <3>1 DEF PumpForwards
  <2> QED BY <2>3, <2>4
<1> QED BY <1>4, <1>5

LEMMA EndedFacts ==
  ASSUME TypeOK, NEW k \in Conns, NEW t \in FrameKinds, EndsWith(k, t)
  PROVE  /\ pump' = [pump EXCEPT ![k] = "ended"] /\ rx' = [rx EXCEPT ![k] = << >>]
         /\ \A j \in Conns : j # k => wire'[j] = wire[j] /\ rx'[j] = rx[j] /\ pump'[j] = pump[j]
         /\ rx'[k] = << >> /\ pump'[k] = "ended"
         /\ \/ link[k] # "up" /\ wire'[k] = << >>
            \/ link[k] = "up" /\ EndedWith(wire[k], wire'[k], t)
<1> USE DEF TypeOK, ControlOK, QueuesOK
<1>1. wire[k] \in Seq(Frame) /\ Signal(t) \in Frame /\ Signal("close") \in Frame
  BY Fields, Frames DEF FrameKinds
<1>2. /\ pump' = [pump EXCEPT ![k] = "ended"] /\ rx' = [rx EXCEPT ![k] = << >>]
      /\ \A j \in Conns : j # k => wire'[j] = wire[j] /\ rx'[j] = rx[j] /\ pump'[j] = pump[j]
      /\ rx'[k] = << >> /\ pump'[k] = "ended"
      /\ wire'[k] = Written(k, <<Signal(t), Signal("close")>>)
  BY DEF EndsWith
<1>3. CASE link[k] = "up"
  <2>1. wire'[k] = wire[k] \o <<Signal(t), Signal("close")>>
    BY <1>2, <1>3 DEF Written
  <2>2. /\ Len(wire'[k]) = Len(wire[k]) + 2
        /\ wire'[k][Len(wire[k]) + 1] = Signal(t)
        /\ wire'[k][Len(wire[k]) + 2] = Signal("close")
        /\ \A i \in 1..Len(wire[k]) : wire'[k][i] = wire[k][i]
    BY <1>1, <2>1, TwoMore
  <2> QED BY <1>1, <1>2, <1>3, <2>2, LenProperties DEF EndedWith
<1>4. CASE link[k] # "up"
  BY <1>2, <1>4 DEF Written
<1> QED BY <1>3, <1>4

(* What a client reads. *)
LEMMA ReadFacts ==
  ASSUME TypeOK, LinksOK, NEW c \in Clients, NEW t, Incoming(c, t), NEW k, k = conn[c]
  PROVE  /\ k \in Conns /\ link[k] = "up" /\ Len(wire[k]) \in Nat \ {0}
         /\ wire[k] # << >> /\ Head(wire[k]) = wire[k][1] /\ wire[k][1].t = t
         /\ wire[k][1].lo \in Nat /\ wire[k][1].n \in Nat
         /\ Consumes(c) => /\ \A j \in Conns : j # k => wire'[j] = wire[j]
                           /\ Consumed(wire[k], wire'[k])
<1> USE DEF TypeOK, ControlOK, QueuesOK, Consumed
<1>1. k \in Conns /\ link[k] = "up" /\ wire[k] \in Seq(Frame) /\ wire[k] # << >> /\ Head(wire[k]).t = t
  BY DEF Incoming, LinksOK
<1>2. /\ Len(wire[k]) \in Nat \ {0} /\ Head(wire[k]) = wire[k][1] /\ wire[k][1] \in Frame
      /\ Len(Tail(wire[k])) = Len(wire[k]) - 1 /\ (Len(wire[k]) = 1 => Tail(wire[k]) = << >>)
      /\ \A i \in 1..(Len(wire[k]) - 1) : Tail(wire[k])[i] = wire[k][i + 1]
  BY <1>1, OneLess
<1>3. Consumes(c) => wire'[k] = Tail(wire[k]) /\ \A j \in Conns : j # k => wire'[j] = wire[j]
  BY <1>1 DEF Consumes
<1>4. wire[k][1].lo \in Nat /\ wire[k][1].n \in Nat
  BY <1>2 DEF Frame, Tagged
<1> QED BY <1>1, <1>2, <1>3, <1>4

LEMMA HungFacts ==
  ASSUME TypeOK, NEW c \in Clients, conn[c] # Nobody, Hangs(c), NEW k, k = conn[c]
  PROVE  /\ k \in Conns /\ wire'[k] = << >> /\ link'[k] = "lost"
         /\ \A j \in Conns : j # k => wire'[j] = wire[j] /\ link'[j] = link[j]
         /\ conn'[c] = Nobody /\ \A d \in Clients : d # c => conn'[d] = conn[d]
BY DEF Hangs, TypeOK, ControlOK, QueuesOK

(* The frames of a reply, by position. *)
LEMMA Literals ==
  ASSUME NEW a, NEW b, NEW c
  PROVE  /\ << >> \o <<a>> = <<a>>
         /\ << >> \o (<<a>> \o << >> \o << >>) = <<a>>
         /\ << >> \o (<<a>> \o <<b>> \o << >>) = <<a, b>>
         /\ << >> \o (<<a>> \o << >> \o <<b>>) = <<a, b>>
         /\ << >> \o (<<a>> \o <<b>> \o <<c>>) = <<a, b, c>>
<1> DEFINE S == {a, b, c}
<1>1. /\ << >> \in Seq(S) /\ <<a>> \in Seq(S) /\ <<b>> \in Seq(S) /\ <<c>> \in Seq(S)
      /\ <<a, b>> \in Seq(S) /\ <<a, b, c>> \in Seq(S)
  OBVIOUS
<1>2. \A s \in Seq(S) : << >> \o s = s /\ s \o << >> = s
  BY ConcatEmptySeq
<1>3. Append(<<a>>, b) = <<a, b>> /\ Append(<<a, b>>, c) = <<a, b, c>>
  <2>1. a \in S /\ b \in S /\ c \in S
    OBVIOUS
  <2>2. /\ Append(<<a>>, b) \in Seq(S) /\ Len(Append(<<a>>, b)) = 2
        /\ Append(<<a>>, b)[1] = a /\ Append(<<a>>, b)[2] = b
    <3>1. Len(<<a>>) = 1 /\ <<a>>[1] = a
      OBVIOUS
    <3> QED BY <1>1, <2>1, <3>1, AppendProperties
  <2>3. Append(<<a>>, b) = <<a, b>>
    <3>1. Len(<<a, b>>) = 2 /\ <<a, b>>[1] = a /\ <<a, b>>[2] = b
      OBVIOUS
    <3> HIDE DEF S
    <3>2. \A i \in 1..Len(Append(<<a>>, b)) : Append(<<a>>, b)[i] = <<a, b>>[i]
      BY <2>2, <3>1
    <3> QED BY <1>1, <2>2, <3>1, <3>2, SeqEqual
  <2>4. /\ Append(<<a, b>>, c) \in Seq(S) /\ Len(Append(<<a, b>>, c)) = 3
        /\ Append(<<a, b>>, c)[1] = a /\ Append(<<a, b>>, c)[2] = b /\ Append(<<a, b>>, c)[3] = c
    <3>1. Len(<<a, b>>) = 2 /\ <<a, b>>[1] = a /\ <<a, b>>[2] = b
      OBVIOUS
    <3> QED BY <1>1, <2>1, <3>1, AppendProperties
  <2>5. Append(<<a, b>>, c) = <<a, b, c>>
    <3>1. Len(<<a, b, c>>) = 3 /\ <<a, b, c>>[1] = a /\ <<a, b, c>>[2] = b /\ <<a, b, c>>[3] = c
      OBVIOUS
    <3> HIDE DEF S
    <3>2. \A i \in 1..Len(Append(<<a, b>>, c)) : Append(<<a, b>>, c)[i] = <<a, b, c>>[i]
      BY <2>4, <3>1
    <3> QED BY <1>1, <2>4, <3>1, <3>2, SeqEqual
  <2> QED BY <2>3, <2>5
<1>4. \A s \in Seq(S) : \A e \in S : Append(s, e) = s \o <<e>>
  BY AppendIsConcat
<1>5. <<a>> \o <<b>> = <<a, b>> /\ <<a, b>> \o <<c>> = <<a, b, c>>
  BY <1>1, <1>3, <1>4
<1> QED BY <1>1, <1>2, <1>5

(* What an attach handler writes in answer. *)
Answers(r, w) ==
  /\ Len(w) \in 1..3 /\ w[1].t = "ready" /\ w[1].lo = r.lo /\ w[1].n = 0
  /\ r.t = "cut" => Len(w) >= 2 /\ w[2].t = "truncated"
  /\ r.t # "cut" => Len(w) <= 2
  /\ r.n > 0 => /\ w[Len(w)].t = "data" /\ w[Len(w)].lo = r.lo /\ w[Len(w)].n = r.n
                /\ Len(w) = IF r.t = "cut" THEN 3 ELSE 2
  /\ r.n = 0 => Len(w) = IF r.t = "cut" THEN 2 ELSE 1
  /\ \A i \in 1..Len(w) : w[i].t \in {"ready", "truncated", "data"}

LEMMA RepliedFacts ==
  ASSUME TypeOK, NEW k \in Conns, AttachReplies(k), wire[k] = << >>, link[k] = "up"
  PROVE  Answers(reply[k], wire'[k])
<1> DEFINE r == reply[k]
           w == wire'[k]
<1>1. r.lo \in Nat /\ r.n \in Nat
  BY Fields DEF TypeOK
<1>2. w = << >> \o ReplyFrames(r)
  BY DEF AttachReplies, Written, TypeOK, QueuesOK
<1> DEFINE f1 == Ready(r.lo)
           f2 == Signal("truncated")
           f3 == Output(r.lo, r.n)
<1>3. f1.t = "ready" /\ f1.lo = r.lo /\ f1.n = 0 /\ f2.t = "truncated"
      /\ f3.t = "data" /\ f3.lo = r.lo /\ f3.n = r.n
  BY DEF Ready, Signal, Output
<1>4. w = << >> \o (<<f1>> \o (IF r.t = "cut" THEN <<f2>> ELSE << >>)
                     \o (IF r.n > 0 THEN <<f3>> ELSE << >>))
  BY <1>2 DEF ReplyFrames
<1> SUFFICES Answers(r, w)
  OBVIOUS
<1> HIDE DEF f1, f2, f3, r, w
<1>5. CASE r.t = "cut" /\ r.n > 0
  <2>1. w = <<f1, f2, f3>>
    BY <1>4, <1>5, Literals
  <2>2. Len(w) = 3 /\ w[1] = f1 /\ w[2] = f2 /\ w[3] = f3
    BY <2>1
  <2>3. \A i \in 1..Len(w) : i = 1 \/ i = 2 \/ i = 3
    BY <2>2
  <2> QED BY <1>1, <1>3, <1>5, <2>2, <2>3 DEF Answers
<1>6. CASE r.t = "cut" /\ ~(r.n > 0)
  <2>1. w = <<f1, f2>>
    BY <1>4, <1>6, Literals
  <2>2. Len(w) = 2 /\ w[1] = f1 /\ w[2] = f2
    BY <2>1
  <2>3. \A i \in 1..Len(w) : i = 1 \/ i = 2
    BY <2>2
  <2> QED BY <1>1, <1>3, <1>6, <2>2, <2>3 DEF Answers
<1>7. CASE r.t # "cut" /\ r.n > 0
  <2>1. w = <<f1, f3>>
    BY <1>4, <1>7, Literals
  <2>2. Len(w) = 2 /\ w[1] = f1 /\ w[2] = f3
    BY <2>1
  <2>3. \A i \in 1..Len(w) : i = 1 \/ i = 2
    BY <2>2
  <2> QED BY <1>1, <1>3, <1>7, <2>2, <2>3 DEF Answers
<1>8. CASE r.t # "cut" /\ ~(r.n > 0)
  <2>1. w = <<f1>>
    BY <1>4, <1>8, Literals
  <2>2. Len(w) = 1 /\ w[1] = f1
    BY <2>1
  <2>3. \A i \in 1..Len(w) : i = 1
    BY <2>2
  <2> QED BY <1>1, <1>3, <1>8, <2>2, <2>3 DEF Answers
<1> QED BY <1>5, <1>6, <1>7, <1>8

LEMMA GoneFacts ==
  ASSUME TypeOK, NEW k \in Conns, wire[k] = << >>,
         NEW w, w = Written(k, <<Signal("gone")>>)
  PROVE  w = << >> \/ (link[k] = "up" /\ Len(w) = 1 /\ w[1].t = "gone")
<1> DEFINE e == Signal("gone")
<1>0. e.t = "gone"
  BY DEF Signal
<1> HIDE DEF e
<1>1. CASE link[k] = "up"
  <2>1. w = << >> \o <<e>>
    BY <1>1 DEF Written, e
  <2>2. w = <<e>>
    BY <2>1, Literals
  <2> QED BY <1>0, <1>1, <2>2
<1>2. CASE link[k] # "up"
  BY <1>2 DEF Written
<1> QED BY <1>1, <1>2

LEMMA Replies ==
  ASSUME TypeOK, NEW from \in Nat
  PROVE  /\ ReplayFrom(from) \in Tagged(ReplyKinds) /\ ReplayFrom(from).t \in {"gap", "cut"}
         /\ ReplayFrom(from).t = "gap" => ReplayFrom(from).lo = from
         /\ from <= next_seq => ReplayFrom(from).lo + ReplayFrom(from).n = next_seq
BY BoundsAssumption DEF TypeOK, ControlOK, ReplayFrom, StartSeq, Tagged, ReplyKinds

LEMMA KindsStay ==
  ASSUME NEW T, NEW s, NEW t, NEW e, \A i \in 1..Len(s) : s[i].t \in T
  PROVE  /\ Consumed(s, t) => \A i \in 1..Len(t) : t[i].t \in T
         /\ Extended(s, t, e) /\ e.t \in T => \A i \in 1..Len(t) : t[i].t \in T
<1>1. CASE Consumed(s, t)
  <2>1. \A i \in 1..Len(t) : i \in 1..(Len(s) - 1) /\ i + 1 \in 1..Len(s) /\ t[i] = s[i + 1]
    BY <1>1 DEF Consumed
  <2>2. \A i \in 1..Len(t) : t[i].t \in T
    BY <2>1
  <2>3. ~Extended(s, t, e)
    BY <1>1 DEF Consumed, Extended
  <2> QED BY <2>2, <2>3
<1>2. CASE Extended(s, t, e)
  <2>1. \A i \in 1..Len(t) : (i \in 1..Len(s) /\ t[i] = s[i]) \/ t[i] = e
    BY <1>2 DEF Extended
  <2>3. ~Consumed(s, t)
    BY <1>2 DEF Consumed, Extended
  <2> QED BY <2>1, <2>3
<1> QED BY <1>1, <1>2

LEMMA OrderStays ==
  ASSUME NEW s, NEW t, NEW e, OrderedWire(s)
  PROVE  /\ Consumed(s, t) => OrderedWire(t)
         /\ /\ Extended(s, t, e) /\ e.t = "data"
            /\ \A i \in 1..Len(s) : s[i].t \in {"ready", "truncated", "data"}
            => OrderedWire(t)
         /\ EndedWith(s, t, e) /\ e \in {"exit", "lagged", "superseded"} => OrderedWire(t)
<1>1. ASSUME Consumed(s, t) PROVE OrderedWire(t)
  <2> SUFFICES ASSUME NEW i \in 1..Len(t)
               PROVE  /\ t[i].t = "ready" => i = 1
                      /\ t[i].t = "truncated" => i = 1 \/ (i = 2 /\ t[1].t = "ready")
                      /\ t[i].t = "data" /\ i > 1 => t[i - 1].t \in {"data", "ready", "truncated"}
    BY DEF OrderedWire
  <2>1. i + 1 \in 1..Len(s) /\ t[i] = s[i + 1] /\ (i > 1 => t[i - 1] = s[i])
    <3>1. i \in 1..(Len(s) - 1) /\ (i > 1 => i - 1 \in 1..(Len(s) - 1))
      BY <1>1 DEF Consumed
    <3> QED BY <1>1, <3>1 DEF Consumed
  <2>2. /\ s[i + 1].t = "ready" => i + 1 = 1
        /\ s[i + 1].t = "truncated" => i + 1 = 1 \/ (i + 1 = 2 /\ s[1].t = "ready")
        /\ s[i + 1].t = "data" /\ i + 1 > 1 => s[i].t \in {"data", "ready", "truncated"}
    BY <2>1 DEF OrderedWire
  <2> QED BY <2>1, <2>2
<1>2. ASSUME Extended(s, t, e), e.t = "data",
             \A i \in 1..Len(s) : s[i].t \in {"ready", "truncated", "data"}
      PROVE  OrderedWire(t)
  BY <1>2 DEF OrderedWire, Extended
<1>3. ASSUME EndedWith(s, t, e), e \in {"exit", "lagged", "superseded"}
      PROVE  OrderedWire(t)
  <2>1. \A i \in 1..Len(t) : \/ i \in 1..Len(s) /\ t[i] = s[i]
                             \/ t[i].t \in {"exit", "lagged", "superseded", "close"}
    BY <1>3 DEF EndedWith, Signal
  <2>2. \A i \in 1..Len(s) : t[i] = s[i]
    BY <1>3 DEF EndedWith
  <2>3. Len(s) \in Nat
    BY <1>3 DEF EndedWith
  <2> QED BY <2>1, <2>2, <2>3 DEF OrderedWire
<1> QED BY <1>1, <1>2, <1>3

LEMMA RxOrderStays ==
  ASSUME NEW s, NEW t, NEW e, OrderedRx(s)
  PROVE  /\ Consumed(s, t) => OrderedRx(t)
         /\ Extended(s, t, e) /\ e.t # "data" => OrderedRx(t)
         /\ Extended(s, t, e) /\ (\A i \in 1..Len(s) : s[i].t \in {"data"}) => OrderedRx(t)
<1>1. ASSUME Consumed(s, t) PROVE OrderedRx(t)
  <2> SUFFICES ASSUME NEW i \in 1..Len(t), t[i].t = "data", i > 1 PROVE t[i - 1].t = "data"
    BY DEF OrderedRx
  <2>1. i + 1 \in 1..Len(s) /\ t[i] = s[i + 1] /\ t[i - 1] = s[i]
    <3>1. i \in 1..(Len(s) - 1) /\ i - 1 \in 1..(Len(s) - 1)
      BY <1>1 DEF Consumed
    <3> QED BY <1>1, <3>1 DEF Consumed
  <2> QED BY <2>1 DEF OrderedRx
<1>2. ASSUME Extended(s, t, e), e.t # "data" PROVE OrderedRx(t)
  BY <1>2 DEF OrderedRx, Extended
<1>3. ASSUME Extended(s, t, e), \A i \in 1..Len(s) : s[i].t \in {"data"} PROVE OrderedRx(t)
  BY <1>3 DEF OrderedRx, Extended
<1> QED BY <1>1, <1>2, <1>3

LEMMA ShortOrder ==
  ASSUME NEW w, w[1].t = "ready",
         Len(w) = 1 \/ (Len(w) = 2 /\ w[2].t \in {"truncated", "data"})
           \/ (Len(w) = 3 /\ w[2].t = "truncated" /\ w[3].t = "data")
  PROVE  OrderedWire(w)
<1> SUFFICES ASSUME NEW i \in 1..Len(w)
             PROVE  /\ w[i].t = "ready" => i = 1
                    /\ w[i].t = "truncated" => i = 1 \/ (i = 2 /\ w[1].t = "ready")
                    /\ w[i].t = "data" /\ i > 1 => w[i - 1].t \in {"data", "ready", "truncated"}
  BY DEF OrderedWire
<1>1. CASE Len(w) = 1
  <2>1. i = 1
    BY <1>1
  <2> QED BY <2>1
<1>2. CASE Len(w) = 2 /\ w[2].t \in {"truncated", "data"}
  <2>1. i = 1 \/ i = 2
    BY <1>2
  <2> QED BY <1>2, <2>1
<1>3. CASE Len(w) = 3 /\ w[2].t = "truncated" /\ w[3].t = "data"
  <2>1. i = 1 \/ i = 2 \/ i = 3
    BY <1>3
  <2> QED BY <1>3, <2>1
<1> QED BY <1>1, <1>2, <1>3

LEMMA WithinStays ==
  ASSUME NEW s, NEW t, NEW e, NEW last \in Nat, Within(s, last)
  PROVE  /\ Consumed(s, t) => Within(t, last)
         /\ Extended(s, t, e) /\ Within(<<e>>, last) => Within(t, last)
         /\ EndedWith(s, t, e) /\ e \in {"exit", "lagged", "superseded"} => Within(t, last)
<1>1. ASSUME Consumed(s, t) PROVE Within(t, last)
  <2>1. \A i \in 1..Len(t) : i + 1 \in 1..Len(s) /\ t[i] = s[i + 1]
    BY <1>1 DEF Consumed
  <2> QED BY <2>1 DEF Within
<1>2. ASSUME Extended(s, t, e), Within(<<e>>, last) PROVE Within(t, last)
  <2>1. \A i \in 1..Len(t) : (i \in 1..Len(s) /\ t[i] = s[i]) \/ t[i] = e
    BY <1>2 DEF Extended
  <2>2. /\ e.t = "ready" => e.lo <= last
        /\ e.t = "data" => e.n > 0 /\ e.lo + e.n <= last
    <3>1. Len(<<e>>) = 1 /\ <<e>>[1] = e
      OBVIOUS
    <3> QED BY <1>2, <3>1 DEF Within
  <2> QED BY <2>1, <2>2 DEF Within
<1>3. ASSUME EndedWith(s, t, e), e \in {"exit", "lagged", "superseded"} PROVE Within(t, last)
  <2>1. \A i \in 1..Len(t) : \/ i \in 1..Len(s) /\ t[i] = s[i]
                             \/ t[i].t \in {"exit", "lagged", "superseded", "close"}
    BY <1>3 DEF EndedWith, Signal
  <2> QED BY <2>1 DEF Within
<1> QED BY <1>1, <1>2, <1>3

LEMMA WithinGrows ==
  ASSUME NEW s, NEW last \in Nat, NEW more \in Nat, last <= more, Within(s, last),
         \A i \in 1..Len(s) : s[i].lo \in Nat /\ s[i].n \in Nat
  PROVE  Within(s, more)
BY DEF Within

LEMMA WithinSignals ==
  ASSUME NEW s, NEW last, \A i \in 1..Len(s) : s[i].t \notin {"ready", "data"}
  PROVE  Within(s, last)
BY DEF Within

LEMMA AnswersWithin ==
  ASSUME NEW r, NEW w, NEW last \in Nat, Answers(r, w), r.lo \in Nat, r.n \in Nat,
         r.lo + r.n <= last
  PROVE  Within(w, last)
<1> SUFFICES ASSUME NEW i \in 1..Len(w)
             PROVE  /\ w[i].t = "ready" => w[i].lo <= last
                    /\ w[i].t = "data" => w[i].n > 0 /\ w[i].lo + w[i].n <= last
  BY DEF Within
<1>1. w[1].t = "ready" /\ w[1].lo = r.lo /\ Len(w) \in 1..3 /\ r.lo <= last
  BY DEF Answers
<1>2. i = 1 \/ (i = 2 /\ Len(w) = 3) \/ i = Len(w)
  <2> DEFINE m == Len(w)
  <2>1. m = 1 \/ m = 2 \/ m = 3
    BY <1>1
  <2>2. i \in 1..m
    OBVIOUS
  <2> HIDE DEF m
  <2>3. i = 1 \/ (i = 2 /\ m = 3) \/ i = m
    BY <2>1, <2>2
  <2> QED BY <2>3 DEF m
<1>3. CASE i = 1
  BY <1>1, <1>3
<1>4. CASE i = 2 /\ Len(w) = 3
  <2>1. r.t = "cut"
    BY <1>4 DEF Answers
  <2> QED BY <1>4, <2>1 DEF Answers
<1>5. CASE i = Len(w) /\ i # 1
  <2>1. CASE r.n > 0
    BY <1>5, <2>1 DEF Answers
  <2>2. CASE r.n = 0
    <3>1. r.t = "cut" /\ i = 2
      BY <1>5, <2>2 DEF Answers
    <3> QED BY <3>1 DEF Answers
  <2> QED BY <2>1, <2>2
<1> QED BY <1>2, <1>3, <1>4, <1>5

LEMMA EndsStay ==
  ASSUME NEW s, NEW t, NEW e
  PROVE  /\ EndsOnce(s) /\ Consumed(s, t) => EndsOnce(t)
         /\ (\A i \in 1..Len(s) : s[i].t \in {"ready", "truncated", "data"})
              => (Extended(s, t, e) \/ EndedWith(s, t, e) => EndsOnce(t))
         /\ (\A i \in 1..Len(s) : s[i].t \in {"ready", "truncated", "data"}) => EndsOnce(s)
<1>1. ASSUME EndsOnce(s), Consumed(s, t) PROVE EndsOnce(t)
  <2> SUFFICES ASSUME NEW i \in 1..Len(t), NEW j \in 1..Len(t), i < j, t[i].t \in FinalKinds
               PROVE  t[j].t = "close"
    BY DEF EndsOnce
  <2>1. /\ i + 1 \in 1..Len(s) /\ j + 1 \in 1..Len(s) /\ i + 1 < j + 1
        /\ t[i] = s[i + 1] /\ t[j] = s[j + 1]
    BY <1>1 DEF Consumed
  <2> QED BY <1>1, <2>1 DEF EndsOnce
<1>2. ASSUME \A i \in 1..Len(s) : s[i].t \in {"ready", "truncated", "data"},
             Extended(s, t, e) \/ EndedWith(s, t, e)
      PROVE  EndsOnce(t)
  <2> SUFFICES ASSUME NEW i \in 1..Len(t), NEW j \in 1..Len(t), i < j, t[i].t \in FinalKinds
               PROVE  t[j].t = "close"
    BY DEF EndsOnce
  <2>1. CASE Extended(s, t, e)
    <3>1. i \in 1..Len(s) /\ t[i] = s[i]
      BY <2>1 DEF Extended
    <3> QED BY <1>2, <3>1 DEF FinalKinds
  <2>2. CASE EndedWith(s, t, e)
    <3>1. CASE i \in 1..Len(s)
      <4>1. t[i] = s[i]
        BY <2>2, <3>1 DEF EndedWith
      <4> QED BY <1>2, <3>1, <4>1 DEF FinalKinds
    <3>2. CASE i \notin 1..Len(s)
      <4>1. j = Len(s) + 2
        BY <2>2, <3>2 DEF EndedWith
      <4> QED BY <2>2, <4>1 DEF EndedWith, Signal
    <3> QED BY <3>1, <3>2
  <2> QED BY <1>2, <2>1, <2>2
<1>4. ASSUME \A i \in 1..Len(s) : s[i].t \in {"ready", "truncated", "data"} PROVE EndsOnce(s)
  BY <1>4 DEF EndsOnce, FinalKinds
<1> QED BY <1>1, <1>2, <1>4

LEMMA ShortEnds ==
  ASSUME NEW s, Len(s) = 1 PROVE EndsOnce(s)
<1>1. \A i, j \in 1..Len(s) : ~(i < j)
  OBVIOUS
<1> QED BY <1>1 DEF EndsOnce

(* What chunks that follow one another leave when the first is taken, and   *)
(* what one that follows them adds.                                         *)
LEMMA ChainLosesData ==
  ASSUME NEW s, NEW t, NEW at, Consumed(s, t), OrderedRx(s), Contiguous(s, at),
         s[1].t = "data"
  PROVE  /\ s[1].lo = at
         /\ Contiguous(t, s[1].lo + s[1].n)
         /\ (\A i \in 1..Len(s) : s[i].t = "data") => EndOf(t, s[1].lo + s[1].n) = EndOf(s, at)
<1>0. Len(s) \in Nat \ {0} /\ Len(t) = Len(s) - 1 /\ 1 \in 1..Len(s)
  BY DEF Consumed
<1>1. s[1].lo = at
  BY <1>0 DEF Contiguous
<1>2. Contiguous(t, s[1].lo + s[1].n)
  <2> SUFFICES ASSUME NEW i \in 1..Len(t), t[i].t = "data"
               PROVE  t[i].lo = IF i > 1 /\ t[i - 1].t = "data" THEN t[i - 1].lo + t[i - 1].n
                                ELSE s[1].lo + s[1].n
    BY DEF Contiguous
  <2>1. i + 1 \in 1..Len(s) /\ t[i] = s[i + 1] /\ (i > 1 => t[i - 1] = s[i])
    <3>1. i \in 1..(Len(s) - 1) /\ (i > 1 => i - 1 \in 1..(Len(s) - 1))
      BY <1>0
    <3> QED BY <1>0, <3>1 DEF Consumed
  <2>2. s[i].t = "data"
    <3>1. (i + 1) - 1 = i /\ i + 1 > 1
      OBVIOUS
    <3> QED BY <2>1, <3>1 DEF OrderedRx
  <2>3. s[i + 1].lo = s[i].lo + s[i].n
    <3>1. (i + 1) - 1 = i /\ i + 1 > 1
      OBVIOUS
    <3> QED BY <2>1, <2>2, <3>1 DEF Contiguous
  <2> QED BY <2>1, <2>2, <2>3
<1>3. ASSUME \A i \in 1..Len(s) : s[i].t = "data" PROVE EndOf(t, s[1].lo + s[1].n) = EndOf(s, at)
  <2>1. CASE Len(s) = 1
    <3>1. t = << >>
      BY <2>1 DEF Consumed
    <3>3. EndOf(s, at) = s[1].lo + s[1].n
      <4>1. s # << >>
        BY <1>0
      <4> QED BY <2>1, <4>1 DEF EndOf
    <3>4. EndOf(t, s[1].lo + s[1].n) = s[1].lo + s[1].n
      BY <3>1 DEF EndOf
    <3> QED BY <3>3, <3>4
  <2>2. CASE Len(s) # 1
    <3>1. t[Len(t)] = s[Len(s)] /\ Len(t) > 0
      <4>1. Len(t) \in 1..(Len(s) - 1) /\ Len(t) + 1 = Len(s)
        BY <1>0, <2>2
      <4> QED BY <4>1 DEF Consumed
    <3>2. s[Len(s)].t = "data" /\ s # << >> /\ t # << >>
      BY <1>0, <1>3, <3>1
    <3> QED BY <3>1, <3>2 DEF EndOf
  <2> QED BY <2>1, <2>2
<1> QED BY <1>1, <1>2, <1>3

(* A chunk that begins where a queue ends lengthens its chain. *)
LEMMA ChainGrows ==
  ASSUME NEW s, NEW t, NEW e, NEW at, Extended(s, t, e), Contiguous(s, at),
         s = << >> <=> Len(s) = 0
  PROVE  /\ e.t = "data" /\ e.lo = EndOf(s, at)
              => Contiguous(t, at) /\ EndOf(t, at) = e.lo + e.n
         /\ e.t # "data" => Contiguous(t, at)
         /\ \A b : e.t # "ready" => Starts(t, b) = Starts(s, b)
         /\ t # << >>
         /\ s # << >> => t[1] = s[1]
         /\ s = << >> => t[1] = e
<1>1. Len(s) \in Nat /\ Len(t) = Len(s) + 1 /\ t[Len(t)] = e
  BY DEF Extended
<1>2. \A i \in 1..Len(t) : (i \in 1..Len(s) /\ t[i] = s[i]) \/ (i = Len(t) /\ t[i] = e)
  BY <1>1 DEF Extended
<1>3. t # << >>
  BY <1>1
<1>4. s # << >> => t[1] = s[1]
  BY <1>1 DEF Extended
<1>5. s = << >> => t[1] = e
  BY <1>1 DEF Extended
<1>6. e.t # "ready" => \A b : Starts(t, b) = Starts(s, b)
  BY <1>3, <1>4, <1>5 DEF Starts
<1>7. ASSUME e.t = "data" => e.lo = EndOf(s, at) PROVE Contiguous(t, at)
  <2> SUFFICES ASSUME NEW i \in 1..Len(t), t[i].t = "data"
               PROVE  t[i].lo = IF i > 1 /\ t[i - 1].t = "data" THEN t[i - 1].lo + t[i - 1].n ELSE at
    BY DEF Contiguous
  <2>1. CASE i \in 1..Len(s)
    <3>1. t[i] = s[i] /\ (i > 1 => t[i - 1] = s[i - 1])
      BY <1>1, <2>1 DEF Extended
    <3> QED BY <2>1, <3>1 DEF Contiguous
  <2>2. CASE i \notin 1..Len(s)
    <3>1. i = Len(s) + 1 /\ t[i] = e
      BY <1>1, <2>2 DEF Extended
    <3>2. e.lo = EndOf(s, at)
      BY <1>7, <3>1
    <3>3. i > 1 => t[i - 1] = s[Len(s)]
      BY <1>1, <3>1 DEF Extended
    <3>4. i > 1 <=> s # << >>
      BY <1>1, <3>1
    <3> QED BY <3>1, <3>2, <3>3, <3>4 DEF EndOf
  <2> QED BY <2>1, <2>2
<1>8. e.t = "data" => EndOf(t, at) = e.lo + e.n
  BY <1>1, <1>3 DEF EndOf
<1> QED BY <1>3, <1>4, <1>5, <1>6, <1>7, <1>8

(* What ends the output leaves the chain before it as it is. *)
LEMMA ChainEnds ==
  ASSUME NEW s, NEW t, NEW e, NEW at, EndedWith(s, t, e), Contiguous(s, at),
         s = << >> <=> Len(s) = 0, e \in {"exit", "lagged", "superseded"}
  PROVE  /\ Contiguous(t, at)
         /\ \A b : Starts(t, b) = Starts(s, b)
         /\ t # << >>
         /\ s # << >> => t[1] = s[1]
         /\ s = << >> => t[1].t = e
<1>1. /\ Len(s) \in Nat /\ Len(t) = Len(s) + 2
      /\ t[Len(s) + 1].t = e /\ t[Len(s) + 2].t = "close"
  BY DEF EndedWith, Signal
<1>2. \A i \in 1..Len(t) : t[i].t = "data" => i \in 1..Len(s)
  <2> SUFFICES ASSUME NEW i \in 1..Len(t), i \notin 1..Len(s) PROVE t[i].t # "data"
    OBVIOUS
  <2>1. i = Len(s) + 1 \/ i = Len(s) + 2
    BY <1>1
  <2> QED BY <1>1, <2>1
<1>3. Contiguous(t, at)
  <2> SUFFICES ASSUME NEW i \in 1..Len(t), t[i].t = "data"
               PROVE  t[i].lo = IF i > 1 /\ t[i - 1].t = "data" THEN t[i - 1].lo + t[i - 1].n ELSE at
    BY DEF Contiguous
  <2>1. i \in 1..Len(s)
    BY <1>2
  <2>2. t[i] = s[i] /\ (i > 1 => t[i - 1] = s[i - 1])
    BY <1>1, <2>1 DEF EndedWith
  <2> QED BY <2>1, <2>2 DEF Contiguous
<1>4. t # << >>
  BY <1>1
<1>5. s # << >> => t[1] = s[1]
  BY <1>1 DEF EndedWith
<1>6. s = << >> => t[1].t = e
  BY <1>1
<1>7. \A b : Starts(t, b) = Starts(s, b)
  BY <1>4, <1>5, <1>6 DEF Starts
<1> QED BY <1>3, <1>4, <1>5, <1>6, <1>7

(* A frame that carries no output can be taken from the head of a chain. *)
LEMMA ChainLosesSignal ==
  ASSUME NEW s, NEW t, NEW at, Consumed(s, t), OrderedWire(s), Contiguous(s, at),
         s[1].t # "data"
  PROVE  /\ Contiguous(t, at)
         /\ EndOf(t, at) = EndOf(s, at)
         /\ Starts(t, at) = at
<1>0. Len(s) \in Nat \ {0} /\ Len(t) = Len(s) - 1 /\ 1 \in 1..Len(s) /\ s # << >>
  BY DEF Consumed
<1>1. \A i \in 1..Len(t) : i + 1 \in 1..Len(s) /\ t[i] = s[i + 1] /\ (i > 1 => t[i - 1] = s[i])
  <2> SUFFICES ASSUME NEW i \in 1..Len(t)
               PROVE  i + 1 \in 1..Len(s) /\ t[i] = s[i + 1] /\ (i > 1 => t[i - 1] = s[i])
    OBVIOUS
  <2>1. i \in 1..(Len(s) - 1) /\ (i > 1 => i - 1 \in 1..(Len(s) - 1))
    BY <1>0
  <2> QED BY <1>0, <2>1 DEF Consumed
<1>2. Contiguous(t, at)
  <2> SUFFICES ASSUME NEW i \in 1..Len(t), t[i].t = "data"
               PROVE  t[i].lo = IF i > 1 /\ t[i - 1].t = "data" THEN t[i - 1].lo + t[i - 1].n ELSE at
    BY DEF Contiguous
  <2>1. i + 1 \in 1..Len(s) /\ t[i] = s[i + 1] /\ (i > 1 => t[i - 1] = s[i])
    BY <1>1
  <2>2. s[i + 1].lo = IF s[i].t = "data" THEN s[i].lo + s[i].n ELSE at
    <3>1. (i + 1) - 1 = i /\ i + 1 > 1
      OBVIOUS
    <3> QED BY <2>1, <3>1 DEF Contiguous
  <2>3. CASE i = 1
    BY <2>1, <2>2, <2>3
  <2>4. CASE i > 1
    BY <2>1, <2>2, <2>4
  <2> QED BY <2>3, <2>4
<1>3. EndOf(t, at) = EndOf(s, at)
  <2>1. CASE Len(s) = 1
    <3>1. t = << >>
      BY <2>1 DEF Consumed
    <3> QED BY <1>0, <2>1, <3>1 DEF EndOf
  <2>2. CASE Len(s) # 1
    <3>1. t[Len(t)] = s[Len(s)] /\ Len(t) > 0
      <4>1. Len(t) \in 1..(Len(s) - 1) /\ Len(t) + 1 = Len(s)
        BY <1>0, <2>2
      <4> QED BY <4>1 DEF Consumed
    <3>2. t # << >>
      BY <3>1
    <3> QED BY <1>0, <3>1, <3>2 DEF EndOf
  <2> QED BY <2>1, <2>2
<1>4. Starts(t, at) = at
  <2>1. CASE t = << >>
    BY <2>1 DEF Starts
  <2>2. CASE t # << >>
    <3>1. Len(s) # 1
      BY <2>2 DEF Consumed
    <3>2. 1 \in 1..Len(t)
      BY <1>0, <3>1
    <3>3. t[1] = s[2] /\ 2 \in 1..Len(s)
      BY <1>1, <3>2
    <3>4. t[1].t # "ready"
      BY <3>3 DEF OrderedWire
    <3> QED BY <3>4 DEF Starts
  <2> QED BY <2>1, <2>2
<1> QED BY <1>2, <1>3, <1>4

(* Once output has begun, only output and what ends it follows. *)
LEMMA OutputHasBegun ==
  ASSUME NEW s, OrderedWire(s), Len(s) \in Nat \ {0}, s[1].t = "data"
  PROVE  /\ OrderedRx(s)
         /\ \A i \in 1..Len(s) : s[i].t \notin {"ready", "truncated"}
<1>1. \A i \in 1..Len(s) : s[i].t \notin {"ready", "truncated"}
  <2> SUFFICES ASSUME NEW i \in 1..Len(s), s[i].t \in {"ready", "truncated"} PROVE FALSE
    OBVIOUS
  <2>1. /\ s[i].t = "ready" => i = 1
        /\ s[i].t = "truncated" => i = 1 \/ (i = 2 /\ s[1].t = "ready")
    BY DEF OrderedWire
  <2>2. i = 1 \/ s[1].t = "ready"
    BY <2>1
  <2>3. i = 1
    BY <2>2
  <2> QED BY <2>3
<1>2. OrderedRx(s)
  <2> SUFFICES ASSUME NEW i \in 1..Len(s), s[i].t = "data", i > 1 PROVE s[i - 1].t = "data"
    BY DEF OrderedRx
  <2>1. s[i - 1].t \in {"data", "ready", "truncated"}
    BY DEF OrderedWire
  <2>2. i - 1 \in 1..Len(s)
    OBVIOUS
  <2> QED BY <1>1, <2>1, <2>2
<1> QED BY <1>1, <1>2

(* What a chain starts with, and the answer to an attach. *)
LEMMA ChainOfAnswer ==
  ASSUME NEW r, NEW w, NEW at, Answers(r, w), r.lo \in Nat, r.n \in Nat
  PROVE  /\ Starts(w, at) = r.lo
         /\ Contiguous(w, r.lo)
         /\ EndOf(w, r.lo) = r.lo + r.n
         /\ w # << >>
<1>1. Len(w) \in 1..3 /\ w[1].t = "ready" /\ w[1].lo = r.lo
  BY DEF Answers
<1>2. w # << >>
  BY <1>1
<1>3. CASE r.n > 0
  <2>1. /\ w[Len(w)].t = "data" /\ w[Len(w)].lo = r.lo /\ w[Len(w)].n = r.n
        /\ (Len(w) = 2 \/ (Len(w) = 3 /\ w[2].t = "truncated"))
    BY <1>3 DEF Answers
  <2>2. Contiguous(w, r.lo)
    <3> SUFFICES ASSUME NEW i \in 1..Len(w), w[i].t = "data"
                 PROVE  w[i].lo = IF i > 1 /\ w[i - 1].t = "data" THEN w[i - 1].lo + w[i - 1].n ELSE r.lo
      BY DEF Contiguous
    <3>1. i = Len(w) /\ w[i - 1].t # "data"
      <4>1. CASE Len(w) = 2
        <5>1. i = 1 \/ i = 2
          BY <4>1
        <5>2. i = 2
          BY <1>1, <5>1
        <5> QED BY <1>1, <4>1, <5>2
      <4>2. CASE Len(w) = 3 /\ w[2].t = "truncated"
        <5>1. i = 1 \/ i = 2 \/ i = 3
          BY <4>2
        <5>2. i = 3
          BY <1>1, <4>2, <5>1
        <5> QED BY <4>2, <5>2
      <4> QED BY <2>1, <4>1, <4>2
    <3> QED BY <2>1, <3>1
  <2> QED BY <1>1, <1>2, <2>1, <2>2 DEF Starts, EndOf
<1>4. CASE r.n = 0
  <2>1. Len(w) = 1 \/ (Len(w) = 2 /\ w[2].t = "truncated")
    BY <1>4 DEF Answers
  <2>2. \A i \in 1..Len(w) : w[i].t # "data"
    <3> SUFFICES ASSUME NEW i \in 1..Len(w) PROVE w[i].t # "data"
      OBVIOUS
    <3>1. CASE Len(w) = 1
      <4>1. i = 1
        BY <3>1
      <4> QED BY <1>1, <4>1
    <3>2. CASE Len(w) = 2 /\ w[2].t = "truncated"
      <4>1. i = 1 \/ i = 2
        BY <3>2
      <4> QED BY <1>1, <3>2, <4>1
    <3> QED BY <2>1, <3>1, <3>2
  <2>3. Len(w) \in 1..Len(w)
    BY <1>1
  <2>4. w[Len(w)].t # "data"
    BY <2>2, <2>3
  <2> QED BY <1>1, <1>2, <1>4, <2>2, <2>4 DEF Starts, EndOf, Contiguous
<1> QED BY <1>3, <1>4

(* A queue without output is a chain, whatever it begins at. *)
LEMMA NoChain ==
  ASSUME NEW s, NEW at, \A i \in 1..Len(s) : s[i].t # "data"
  PROVE  Contiguous(s, at)
BY DEF Contiguous

-------------------------------------------------------------------------------
(* The parts of the invariant that concern connections, one lemma each.    *)

(* A client hangs up, and one opens a socket. *)
LEMMA HangsLinks ==
  ASSUME TypeOK, LinksOK, NEW c \in Clients, conn[c] # Nobody, Hangs(c), UNCHANGED phase
  PROVE  LinksOK'
<1> DEFINE k == conn[c]
<1>1. /\ k \in Conns /\ link[k] = "up"
      /\ \A d \in Clients : conn'[d] = IF d = c THEN Nobody ELSE conn[d]
      /\ \A j \in Conns : link'[j] = IF j = k THEN "lost" ELSE link[j]
      /\ \A j \in Conns : j # k => wire'[j] = wire[j]
  BY DEF TypeOK, ControlOK, LinksOK, Hangs
<1>2. wire'[k] = << >>
  BY <1>1 DEF Hangs, TypeOK, QueuesOK
<1>3. LinksOK!1' /\ LinksOK!2'
  BY <1>1 DEF LinksOK, TypeOK, ControlOK
<1>4. LinksOK!3' /\ LinksOK!4'
  BY <1>1, <1>2 DEF LinksOK
<1>5. LinksOK!5'
  BY <1>1 DEF LinksOK
<1> QED BY <1>3, <1>4, <1>5 DEF LinksOK

LEMMA OpensLinks ==
  ASSUME TypeOK, LinksOK, NEW c \in Clients, NEW k \in Conns, conn[c] = Nobody, OpensSocket(c, k)
  PROVE  LinksOK'
<1>1. /\ link[k] = "none" /\ wire' = wire
      /\ \A d \in Clients : conn'[d] = IF d = c THEN k ELSE conn[d]
      /\ \A j \in Conns : link'[j] = IF j = k THEN "up" ELSE link[j]
      /\ \A j \in Conns : phase'[j] = IF j = k THEN "attaching" ELSE phase[j]
  BY DEF TypeOK, ControlOK, LinksOK, OpensSocket
<1>2. \A d \in Clients : conn[d] # k
  BY <1>1 DEF LinksOK, Nobody, Conns
<1>6. Nobody \notin Conns /\ \A d \in Clients : conn[d] # Nobody => conn[d] \in Conns
  BY BoundsAssumption DEF TypeOK, ControlOK, Nobody, Conns
<1>3. LinksOK!1' /\ LinksOK!2'
  BY <1>1, <1>2, <1>6 DEF LinksOK
<1>4. LinksOK!3' /\ LinksOK!4'
  BY <1>1 DEF LinksOK
<1>5. LinksOK!5'
  BY <1>1, <1>6 DEF LinksOK
<1> QED BY <1>3, <1>4, <1>5 DEF LinksOK

LEMMA LinksStep == StreamInv /\ [Next]_vars => LinksOK'
<1> SUFFICES ASSUME StreamInv, [Next]_vars PROVE LinksOK'
  OBVIOUS
<1> USE BoundsAssumption DEF Nobody, sessionVars, storeVars, shellVars, handlerVars, pumpVars, linkVars, clientVars, agentVars
<1> TypeOK /\ ControlOK /\ QueuesOK /\ LinksOK BY DEF StreamInv, TypeOK
<1> USE DEF ControlOK
<1>1. ASSUME NEW n \in 1..MaxChunk, ShellWrites(n) PROVE LinksOK'
  BY <1>1 DEF ShellWrites, Publish, PublishDropped, PublishQueued, PublishLags,
     PublishFindsClosed, Withheld, LinksOK
<1>2. ASSUME ShellExits PROVE LinksOK'
  BY <1>2 DEF ShellExits, Publish, PublishDropped, PublishQueued, PublishLags,
     PublishFindsClosed, Withheld, LinksOK
<1>3. ASSUME ShellLost PROVE LinksOK'
  BY <1>3 DEF ShellLost, LinksOK
<1>4. ASSUME ShellReadsClose PROVE LinksOK'
  BY <1>4 DEF ShellReadsClose, LinksOK
<1>5. ASSUME ShellCleansUp PROVE LinksOK'
  BY <1>5 DEF ShellCleansUp, LinksOK
<1>6. ASSUME ReaperTakes PROVE LinksOK'
  BY <1>6 DEF ReaperTakes, LinksOK
<1>7. ASSUME ReaperTerminates PROVE LinksOK'
  BY <1>7 DEF ReaperTerminates, LinksOK
<1>8. ASSUME NEW k \in Conns, AttachLooksUp(k) PROVE LinksOK'
  BY <1>8 DEF AttachLooksUp, Written, LinksOK
<1>9. ASSUME NEW k \in Conns, AttachRefused(k) PROVE LinksOK'
  BY <1>9 DEF AttachRefused, Written, LinksOK
<1>10. ASSUME NEW k \in Conns, AttachInstalls(k) PROVE LinksOK'
  BY <1>10 DEF AttachInstalls, LinksOK
<1>11. ASSUME NEW k \in Conns, AttachReplies(k) PROVE LinksOK'
  BY <1>11 DEF AttachReplies, Written, LinksOK
<1>12. ASSUME NEW k \in Conns, HandlesClose(k) PROVE LinksOK'
  BY <1>12 DEF HandlesClose, LinksOK
<1>13. ASSUME NEW k \in Conns, NoticesDisconnect(k) PROVE LinksOK'
  BY <1>13 DEF NoticesDisconnect, LinksOK
<1>14. ASSUME NEW k \in Conns, MarkerQueued(k) PROVE LinksOK'
  BY <1>14 DEF MarkerQueued, LinksOK
<1>15. ASSUME NEW k \in Conns, PumpForwards(k) PROVE LinksOK'
  <2>1. /\ UNCHANGED <<conn, link, phase>>
        /\ \A j \in Conns : link[j] # "up" => wire'[j] = wire[j] \/ wire'[j] = << >>
    BY <1>15 DEF PumpForwards, Written, QueuesOK
  <2> QED BY ZenonT(30), <2>1 DEF LinksOK
<1>16. ASSUME NEW k \in Conns, PumpReadsExit(k) PROVE LinksOK'
  BY <1>16 DEF PumpReadsExit, EndsWith, Written, LinksOK
<1>17. ASSUME NEW k \in Conns, PumpReadsMarker(k) PROVE LinksOK'
  BY <1>17 DEF PumpReadsMarker, EndsWith, Written, LinksOK
<1>18. ASSUME NEW k \in Conns, PumpSuperseded(k) PROVE LinksOK'
  BY <1>18 DEF PumpSuperseded, EndsWith, Written, LinksOK
<1>19. ASSUME NEW c \in Clients, GetsReady(c) PROVE LinksOK'
  BY <1>19 DEF GetsReady, Incoming, Consumes, LinksOK
<1>20. ASSUME NEW c \in Clients, GetsData(c) PROVE LinksOK'
  BY <1>20 DEF GetsData, Incoming, Consumes, LinksOK
<1>21. ASSUME NEW c \in Clients, GetsTruncated(c) PROVE LinksOK'
  BY <1>21 DEF GetsTruncated, Incoming, Consumes, LinksOK
<1>22. ASSUME NEW c \in Clients, GetsFinal(c) PROVE LinksOK'
  <2>0. conn[c] # Nobody
    BY <1>22 DEF GetsFinal, Incoming
  <2>1. CASE AppClient
    BY <1>22, <2>0, <2>1, HangsLinks DEF GetsFinal
  <2>2. CASE ~AppClient
    BY <1>22, <2>0, <2>2 DEF GetsFinal, Consumes, LinksOK, QueuesOK
  <2> QED BY <2>1, <2>2
<1>23. ASSUME NEW c \in Clients, GetsLagged(c) PROVE LinksOK'
  BY <1>23 DEF GetsLagged, Incoming, Consumes, LinksOK
<1>24. ASSUME NEW c \in Clients, GetsClose(c) PROVE LinksOK'
  BY <1>24, HangsLinks DEF GetsClose, Incoming
<1>25. ASSUME NEW c \in Clients, Paints(c) PROVE LinksOK'
  BY <1>25 DEF Paints, LinksOK
<1>26. ASSUME NEW c \in Clients, Reconnects(c) PROVE LinksOK'
  BY <1>26, OpensLinks DEF Reconnects
<1>27. ASSUME NEW c \in Clients, Resumes(c) PROVE LinksOK'
  BY <1>27, OpensLinks DEF Resumes
<1>28. ASSUME NEW c \in Clients, UserCloses(c) PROVE LinksOK'
  BY <1>28, HangsLinks DEF UserCloses
<1>29. ASSUME NEW c \in Clients, LinkDrops(c) PROVE LinksOK'
  BY <1>29, HangsLinks DEF LinkDrops
<1>30. CASE UNCHANGED vars
  BY <1>30 DEF vars, LinksOK
<1> QED
  BY <1>1, <1>2, <1>3, <1>4, <1>5, <1>6, <1>7, <1>8, <1>9, <1>10, <1>11, <1>12, <1>13,
     <1>14, <1>15, <1>16, <1>17, <1>18, <1>19, <1>20, <1>21, <1>22, <1>23, <1>24,
     <1>25, <1>26, <1>27, <1>28, <1>29, <1>30
  DEF Next, ShellTask, Reaper, Handler, Pump, Receives, Client

(* A connection gets its receiver by an attach, and no queue before.       *)
LEMMA AttachingStep == StreamInv /\ [Next]_vars => AttachingOK'
<1> SUFFICES ASSUME StreamInv, [Next]_vars PROVE AttachingOK'
  OBVIOUS
<1> USE BoundsAssumption DEF Nobody, Conns, sessionVars, storeVars, shellVars, handlerVars, pumpVars, linkVars, clientVars, agentVars
<1> TypeOK /\ ControlOK /\ QueuesOK /\ LinksOK
  BY DEF StreamInv, TypeOK
<1> SUFFICES ASSUME NEW j \in Conns PROVE Attaching(j)'
  BY DEF AttachingOK
<1> Attaching(j) /\ (\A k \in Conns : Attaching(k))
  BY DEF StreamInv, AttachingOK
<1> USE DEF ControlOK
<1>1. ASSUME NEW n \in 1..MaxChunk, ShellWrites(n) PROVE Attaching(j)'
  <2>1. Publish(Output(next_seq, n)) /\ Output(next_seq, n) \in Entry
    <3> Output(next_seq, n) \in Entry
      BY Frames, BoundsAssumption DEF OutputKinds
    <3> QED BY <1>1 DEF ShellWrites
  <2>2. /\ UNCHANGED <<phase, reply, pump, wire>> /\ (current' = current \/ current' = Nobody)
        /\ (j # current => rx'[j] = rx[j] /\ marker'[j] = marker[j])
    BY <2>1, PublishedFacts
  <2> QED BY <2>1, <2>2, <1>1 DEF Attaching, Unattached
<1>2. ASSUME ShellExits PROVE Attaching(j)'
  <2>1. Publish(Signal("exit")) /\ Signal("exit") \in Entry
    <3> Signal("exit") \in Entry
      BY Frames, BoundsAssumption DEF OutputKinds
    <3> QED BY <1>2 DEF ShellExits
  <2>2. /\ UNCHANGED <<phase, reply, pump, wire>> /\ (current' = current \/ current' = Nobody)
        /\ (j # current => rx'[j] = rx[j] /\ marker'[j] = marker[j])
    BY <2>1, PublishedFacts
  <2> QED BY <2>1, <2>2, <1>2 DEF Attaching, Unattached
<1>3. ASSUME ShellLost PROVE Attaching(j)'
  BY <1>3 DEF ShellLost, Attaching, Unattached
<1>4. ASSUME ShellReadsClose PROVE Attaching(j)'
  BY <1>4 DEF ShellReadsClose, Attaching, Unattached
<1>5. ASSUME ShellCleansUp PROVE Attaching(j)'
  BY <1>5 DEF ShellCleansUp, Attaching, Unattached
<1>6. ASSUME ReaperTakes PROVE Attaching(j)'
  BY <1>6 DEF ReaperTakes, Attaching, Unattached
<1>7. ASSUME ReaperTerminates PROVE Attaching(j)'
  BY <1>7 DEF ReaperTerminates, Attaching, Unattached
<1>8. ASSUME NEW k \in Conns, AttachLooksUp(k) PROVE Attaching(j)'
  <2>1. wire[k] = << >> /\ Unattached(k)
    BY <1>8 DEF AttachLooksUp, Attaching
  <2>2. /\ (j # k => wire'[j] = wire[j] /\ phase'[j] = phase[j])
        /\ UNCHANGED <<reply, pump, rx, marker, current>>
    BY <1>8 DEF AttachLooksUp
  <2>3. CASE j # k
    BY <2>2, <2>3 DEF Attaching, Unattached
  <2>4. CASE j = k
    <3>1. \/ phase'[k] \in {"found"} /\ wire'[k] = wire[k]
          \/ phase'[k] = "idle" /\ wire'[k] = Written(k, <<Signal("gone")>>)
      BY <1>8 DEF AttachLooksUp, QueuesOK
    <3>2. wire'[k] = << >> \/ (Len(wire'[k]) = 1 /\ wire'[k][1].t = "gone")
      BY <2>1, <3>1, GoneFacts
    <3>3. Unattached(k)' /\ rx'[k] = << >> /\ ~marker'[k] /\ current' # k
      BY <2>1, <2>2 DEF Attaching, Unattached
    <3>4. \A i \in 1..Len(wire'[k]) : wire'[k][i].t \in {"gone"}
      BY <3>2
    <3>5. phase'[k] = "found" => wire'[k] = << >>
      BY <2>1, <3>1
    <3> QED BY <2>4, <3>1, <3>3, <3>4, <3>5 DEF Attaching, Unattached
  <2> QED BY <2>3, <2>4
<1>9. ASSUME NEW k \in Conns, AttachRefused(k) PROVE Attaching(j)'
  <2>1. wire[k] = << >> /\ Unattached(k)
    BY <1>9 DEF AttachRefused, Attaching
  <2>2. /\ (j # k => wire'[j] = wire[j] /\ phase'[j] = phase[j])
        /\ UNCHANGED <<reply, pump, rx, marker, current>>
    BY <1>9 DEF AttachRefused
  <2>3. CASE j # k
    BY <2>2, <2>3 DEF Attaching, Unattached
  <2>4. CASE j = k
    <3>1. \/ phase'[k] \in {"found"} /\ wire'[k] = wire[k]
          \/ phase'[k] = "idle" /\ wire'[k] = Written(k, <<Signal("gone")>>)
      BY <1>9 DEF AttachRefused, QueuesOK
    <3>2. wire'[k] = << >> \/ (Len(wire'[k]) = 1 /\ wire'[k][1].t = "gone")
      BY <2>1, <3>1, GoneFacts
    <3>3. Unattached(k)' /\ rx'[k] = << >> /\ ~marker'[k] /\ current' # k
      BY <2>1, <2>2 DEF Attaching, Unattached
    <3>4. \A i \in 1..Len(wire'[k]) : wire'[k][i].t \in {"gone"}
      BY <3>2
    <3>5. phase'[k] = "found" => wire'[k] = << >>
      BY <2>1, <3>1
    <3> QED BY <2>4, <3>1, <3>3, <3>4, <3>5 DEF Attaching, Unattached
  <2> QED BY <2>3, <2>4
<1>10. ASSUME NEW k \in Conns, AttachInstalls(k) PROVE Attaching(j)'
  <2>1. wire[k] = << >> /\ Unattached(k)
    BY <1>10 DEF AttachInstalls, Attaching
  <2>0. PICK r : r = ReplayFrom(since[k])
    OBVIOUS
  <2>6. r \in Tagged(ReplyKinds) /\ r.t # "none"
    BY <2>0, Replies
  <2>2. /\ reply'[k].t # "none" /\ current' = k /\ phase'[k] = "running"
        /\ (j # k => reply'[j] = reply[j] /\ phase'[j] = phase[j])
        /\ UNCHANGED <<pump, rx, marker, wire>>
    BY <1>10, <2>0, <2>6 DEF AttachInstalls, QueuesOK
  <2>3. reply'[k] # NoReply
    BY <2>2 DEF NoReply, Signal
  <2>4. CASE j = k
    BY <2>1, <2>2, <2>3, <2>4 DEF Attaching, Unattached
  <2>5. CASE j # k
    BY <2>2, <2>5 DEF Attaching, Unattached
  <2> QED BY <2>4, <2>5
<1>11. ASSUME NEW k \in Conns, AttachReplies(k) PROVE Attaching(j)'
  <2>1. reply[k] # NoReply
    BY <1>11 DEF AttachReplies
  <2>2. /\ pump'[k] = "on" /\ reply'[k] = NoReply
        /\ (j # k => pump'[j] = pump[j] /\ reply'[j] = reply[j] /\ wire'[j] = wire[j])
        /\ UNCHANGED <<phase, rx, marker, current>>
    BY <1>11 DEF AttachReplies, QueuesOK
  <2>3. CASE j = k
    BY <2>1, <2>2, <2>3 DEF Attaching, Unattached
  <2>4. CASE j # k
    BY <2>2, <2>4 DEF Attaching, Unattached
  <2> QED BY <2>3, <2>4
<1>12. ASSUME NEW k \in Conns, HandlesClose(k) PROVE Attaching(j)'
  BY <1>12 DEF HandlesClose, Attaching, Unattached
<1>13. ASSUME NEW k \in Conns, NoticesDisconnect(k) PROVE Attaching(j)'
  BY <1>13 DEF NoticesDisconnect, Attaching, Unattached
<1>14. ASSUME NEW k \in Conns, MarkerQueued(k) PROVE Attaching(j)'
  <2>1. /\ marker[k] /\ (marker'[j] => marker[j])
        /\ (j # k => rx'[j] = rx[j])
        /\ UNCHANGED <<phase, reply, pump, wire, current>>
    BY <1>14 DEF MarkerQueued, QueuesOK
  <2>2. ~Unattached(k)
    BY <2>1 DEF Attaching
  <2>3. Unattached(j)' => Unattached(j) /\ j # k
    BY <2>1, <2>2 DEF Unattached
  <2> QED BY <2>1, <2>3 DEF Attaching, Unattached
<1>15. ASSUME NEW k \in Conns, PumpForwards(k) PROVE Attaching(j)'
  <2>1. /\ pump[k] = "on" /\ UNCHANGED <<phase, reply, marker, current>>
        /\ pump'[k] \in {"on", "ended"}
        /\ \A i \in Conns : i # k => wire'[i] = wire[i] /\ rx'[i] = rx[i] /\ pump'[i] = pump[i]
    BY <1>15, ForwardedFacts
  <2>2. CASE j = k
    BY <2>1, <2>2 DEF Attaching, Unattached
  <2>3. CASE j # k
    BY <2>1, <2>3 DEF Attaching, Unattached
  <2> QED BY <2>2, <2>3
<1>16. ASSUME NEW k \in Conns, PumpReadsExit(k) PROVE Attaching(j)'
  <2>1. EndsWith(k, "exit") /\ "exit" \in FrameKinds
    <3>1. EndsWith(k, "exit")
      BY <1>16 DEF PumpReadsExit
    <3> QED BY <3>1 DEF FrameKinds
  <2>2. pump[k] = "on" /\ UNCHANGED <<phase, reply, marker, current>>
    BY <1>16 DEF PumpReadsExit
  <2>3. CASE j = k
    BY <2>1, <2>2, <2>3, EndedFacts DEF Attaching, Unattached
  <2>4. CASE j # k
    BY <2>1, <2>2, <2>4, EndedFacts DEF Attaching, Unattached
  <2> QED BY <2>3, <2>4
<1>17. ASSUME NEW k \in Conns, PumpReadsMarker(k) PROVE Attaching(j)'
  <2>1. EndsWith(k, "lagged") /\ "lagged" \in FrameKinds
    <3>1. EndsWith(k, "lagged")
      BY <1>17 DEF PumpReadsMarker
    <3> QED BY <3>1 DEF FrameKinds
  <2>2. pump[k] = "on" /\ UNCHANGED <<phase, reply, marker, current>>
    BY <1>17 DEF PumpReadsMarker
  <2>3. CASE j = k
    BY <2>1, <2>2, <2>3, EndedFacts DEF Attaching, Unattached
  <2>4. CASE j # k
    BY <2>1, <2>2, <2>4, EndedFacts DEF Attaching, Unattached
  <2> QED BY <2>3, <2>4
<1>18. ASSUME NEW k \in Conns, PumpSuperseded(k) PROVE Attaching(j)'
  <2>1. EndsWith(k, "superseded") /\ "superseded" \in FrameKinds
    <3>1. EndsWith(k, "superseded")
      BY <1>18 DEF PumpSuperseded
    <3> QED BY <3>1 DEF FrameKinds
  <2>2. pump[k] = "on" /\ UNCHANGED <<phase, reply, marker, current>>
    BY <1>18 DEF PumpSuperseded
  <2>3. CASE j = k
    BY <2>1, <2>2, <2>3, EndedFacts DEF Attaching, Unattached
  <2>4. CASE j # k
    BY <2>1, <2>2, <2>4, EndedFacts DEF Attaching, Unattached
  <2> QED BY <2>3, <2>4
<1>19. ASSUME NEW c \in Clients, GetsReady(c) PROVE Attaching(j)'
  <2>0. Incoming(c, "ready") /\ Consumes(c)
    BY <1>19 DEF GetsReady
  <2>1. UNCHANGED <<phase, reply, pump, rx, marker, current>>
    BY <1>19 DEF GetsReady
  <2>2. /\ (j # conn[c] => wire'[j] = wire[j])
        /\ (j = conn[c] => wire[j] # << >> /\ Consumed(wire[j], wire'[j]))
    BY <2>0, ReadFacts
  <2>3. wire[j] = << >> => wire'[j] = wire[j]
    BY <2>2
  <2>4. ASSUME \A i \in 1..Len(wire[j]) : wire[j][i].t \in {"gone"}
        PROVE  \A i \in 1..Len(wire'[j]) : wire'[j][i].t \in {"gone"}
    BY <2>2, <2>4, KindsStay
  <2> QED BY <2>1, <2>3, <2>4 DEF Attaching, Unattached
<1>20. ASSUME NEW c \in Clients, GetsData(c) PROVE Attaching(j)'
  <2>0. Incoming(c, "data") /\ Consumes(c)
    BY <1>20 DEF GetsData
  <2>1. UNCHANGED <<phase, reply, pump, rx, marker, current>>
    BY <1>20 DEF GetsData
  <2>2. /\ (j # conn[c] => wire'[j] = wire[j])
        /\ (j = conn[c] => wire[j] # << >> /\ Consumed(wire[j], wire'[j]))
    BY <2>0, ReadFacts
  <2>3. wire[j] = << >> => wire'[j] = wire[j]
    BY <2>2
  <2>4. ASSUME \A i \in 1..Len(wire[j]) : wire[j][i].t \in {"gone"}
        PROVE  \A i \in 1..Len(wire'[j]) : wire'[j][i].t \in {"gone"}
    BY <2>2, <2>4, KindsStay
  <2> QED BY <2>1, <2>3, <2>4 DEF Attaching, Unattached
<1>21. ASSUME NEW c \in Clients, GetsTruncated(c) PROVE Attaching(j)'
  <2>0. Incoming(c, "truncated") /\ Consumes(c)
    BY <1>21 DEF GetsTruncated
  <2>1. UNCHANGED <<phase, reply, pump, rx, marker, current>>
    BY <1>21 DEF GetsTruncated
  <2>2. /\ (j # conn[c] => wire'[j] = wire[j])
        /\ (j = conn[c] => wire[j] # << >> /\ Consumed(wire[j], wire'[j]))
    BY <2>0, ReadFacts
  <2>3. wire[j] = << >> => wire'[j] = wire[j]
    BY <2>2
  <2>4. ASSUME \A i \in 1..Len(wire[j]) : wire[j][i].t \in {"gone"}
        PROVE  \A i \in 1..Len(wire'[j]) : wire'[j][i].t \in {"gone"}
    BY <2>2, <2>4, KindsStay
  <2> QED BY <2>1, <2>3, <2>4 DEF Attaching, Unattached
<1>22. ASSUME NEW c \in Clients, GetsFinal(c) PROVE Attaching(j)'
  <2>0. PICK t \in FrameKinds : Incoming(c, t)
    BY <1>22 DEF GetsFinal, FrameKinds
  <2>1. UNCHANGED <<phase, reply, pump, rx, marker, current>>
    BY <1>22 DEF GetsFinal
  <2>5. CASE AppClient
    <3>1. conn[c] # Nobody /\ Hangs(c)
      BY <1>22, <2>0, <2>5 DEF GetsFinal, Incoming
    <3>2. wire'[j] = wire[j] \/ wire'[j] = << >>
      BY <3>1, HungFacts
    <3> QED BY <2>1, <3>2 DEF Attaching, Unattached
  <2>6. CASE ~AppClient
    <3>0. Consumes(c)
      BY <1>22, <2>6 DEF GetsFinal
    <3>2. /\ (j # conn[c] => wire'[j] = wire[j])
        /\ (j = conn[c] => wire[j] # << >> /\ Consumed(wire[j], wire'[j]))
      BY <2>0, <3>0, ReadFacts
    <3>3. wire[j] = << >> => wire'[j] = wire[j]
      BY <3>2
    <3>4. ASSUME \A i \in 1..Len(wire[j]) : wire[j][i].t \in {"gone"}
          PROVE  \A i \in 1..Len(wire'[j]) : wire'[j][i].t \in {"gone"}
      BY <3>2, <3>4, KindsStay
    <3> QED BY <2>1, <3>3, <3>4 DEF Attaching, Unattached
  <2> QED BY <2>5, <2>6
<1>23. ASSUME NEW c \in Clients, GetsLagged(c) PROVE Attaching(j)'
  <2>0. Incoming(c, "lagged") /\ Consumes(c)
    BY <1>23 DEF GetsLagged
  <2>1. UNCHANGED <<phase, reply, pump, rx, marker, current>>
    BY <1>23 DEF GetsLagged
  <2>2. /\ (j # conn[c] => wire'[j] = wire[j])
        /\ (j = conn[c] => wire[j] # << >> /\ Consumed(wire[j], wire'[j]))
    BY <2>0, ReadFacts
  <2>3. wire[j] = << >> => wire'[j] = wire[j]
    BY <2>2
  <2>4. ASSUME \A i \in 1..Len(wire[j]) : wire[j][i].t \in {"gone"}
        PROVE  \A i \in 1..Len(wire'[j]) : wire'[j][i].t \in {"gone"}
    BY <2>2, <2>4, KindsStay
  <2> QED BY <2>1, <2>3, <2>4 DEF Attaching, Unattached
<1>24. ASSUME NEW c \in Clients, GetsClose(c) PROVE Attaching(j)'
  <2>1. UNCHANGED <<phase, reply, pump, rx, marker,
                    current>> /\ (wire'[j] = wire[j] \/ wire'[j] = << >>)
    BY <1>24, HungFacts DEF GetsClose, Incoming
  <2> QED BY <2>1 DEF Attaching, Unattached
<1>25. ASSUME NEW c \in Clients, Paints(c) PROVE Attaching(j)'
  BY <1>25 DEF Paints, Attaching, Unattached
<1>26. ASSUME NEW c \in Clients, Reconnects(c) PROVE Attaching(j)'
  BY <1>26 DEF Reconnects, OpensSocket, Attaching, Unattached
<1>27. ASSUME NEW c \in Clients, Resumes(c) PROVE Attaching(j)'
  BY <1>27 DEF Resumes, OpensSocket, Attaching, Unattached
<1>28. ASSUME NEW c \in Clients, UserCloses(c) PROVE Attaching(j)'
  <2>1. UNCHANGED <<phase, reply, pump, rx, marker,
                    current>> /\ (wire'[j] = wire[j] \/ wire'[j] = << >>)
    BY <1>28, HungFacts DEF UserCloses, Incoming
  <2> QED BY SMTT(30), <2>1 DEF Attaching, Unattached
<1>29. ASSUME NEW c \in Clients, LinkDrops(c) PROVE Attaching(j)'
  <2>1. UNCHANGED <<phase, reply, pump, rx, marker,
                    current>> /\ (wire'[j] = wire[j] \/ wire'[j] = << >>)
    BY <1>29, HungFacts DEF LinkDrops, Incoming
  <2> QED BY <2>1 DEF Attaching, Unattached
<1>30. CASE UNCHANGED vars
  BY <1>30 DEF vars, Attaching, Unattached
<1> QED
  BY <1>1, <1>2, <1>3, <1>4, <1>5, <1>6, <1>7, <1>8, <1>9, <1>10, <1>11, <1>12, <1>13,
     <1>14, <1>15, <1>16, <1>17, <1>18, <1>19, <1>20, <1>21, <1>22, <1>23, <1>24,
     <1>25, <1>26, <1>27, <1>28, <1>29, <1>30
  DEF Next, ShellTask, Reaper, Handler, Pump, Receives, Client

(* While a pump runs its link carries only output and the answer, and      *)
(* an owner's channel only output.                                         *)
LEMMA PumpStep == StreamInv /\ [Next]_vars => PumpOK'
<1> SUFFICES ASSUME StreamInv, [Next]_vars PROVE PumpOK'
  OBVIOUS
<1> USE BoundsAssumption DEF Nobody, Conns, sessionVars, storeVars, shellVars, handlerVars, pumpVars, linkVars, clientVars, agentVars
<1> TypeOK /\ ControlOK /\ QueuesOK /\ LinksOK
  BY DEF StreamInv, TypeOK
<1> SUFFICES ASSUME NEW j \in Conns PROVE Pumping(j)'
  BY DEF PumpOK
<1> Pumping(j) /\ (\A k \in Conns : Attaching(k) /\ Pumping(k))
  BY DEF StreamInv, AttachingOK, PumpOK
<1> USE DEF ControlOK
<1>1. ASSUME NEW n \in 1..MaxChunk, ShellWrites(n) PROVE Pumping(j)'
  <2>1. Publish(Output(next_seq, n)) /\ Output(next_seq, n) \in Entry
    <3> Output(next_seq, n) \in Entry
      BY Frames, BoundsAssumption DEF OutputKinds
    <3> QED BY <1>1 DEF ShellWrites
  <2>2. shell' = shell /\ Output(next_seq, n).t = "data"
    BY <1>1 DEF ShellWrites, Output, Signal
  <2>3. UNCHANGED <<pump, wire>>
    BY <2>1, PublishedFacts
  <2>4. CASE current' = j /\ ~replay_requested'
    <3>1. current = j /\ ~replay_requested /\ marker' = marker
      BY <2>1, <2>4, PublishedFacts DEF Withheld
    <3>2. rx'[j] = rx[j] \/ Extended(rx[j], rx'[j], Output(next_seq, n))
      BY <2>1, <3>1, PublishedFacts
    <3>3. shell = "running" => \A i \in 1..Len(rx[j]) : rx[j][i].t \in {"data"}
      BY <3>1 DEF Pumping
    <3>4. shell = "running" => \A i \in 1..Len(rx'[j]) : rx'[j][i].t \in {"data"}
      BY <2>2, <3>2, <3>3, KindsStay
    <3> QED BY <2>2, <2>3, <3>1, <3>4 DEF Pumping
  <2> QED BY <2>3, <2>4 DEF Pumping
<1>2. ASSUME ShellExits PROVE Pumping(j)'
  <2>1. Publish(Signal("exit")) /\ Signal("exit") \in Entry
    <3> Signal("exit") \in Entry
      BY Frames, BoundsAssumption DEF OutputKinds
    <3> QED BY <1>2 DEF ShellExits
  <2>2. shell' = "ending" /\ Signal("exit").t = "exit"
    BY <1>2 DEF ShellExits, Output, Signal
  <2>3. UNCHANGED <<pump, wire>>
    BY <2>1, PublishedFacts
  <2>4. CASE current' = j /\ ~replay_requested'
    <3>1. current = j /\ ~replay_requested /\ marker' = marker
      BY <2>1, <2>4, PublishedFacts DEF Withheld
    <3>2. rx'[j] = rx[j] \/ Extended(rx[j], rx'[j], Signal("exit"))
      BY <2>1, <3>1, PublishedFacts
    <3> QED BY <2>2, <2>3, <3>1 DEF Pumping
  <2> QED BY <2>3, <2>4 DEF Pumping
<1>3. ASSUME ShellLost PROVE Pumping(j)'
  BY <1>3 DEF ShellLost, Pumping
<1>4. ASSUME ShellReadsClose PROVE Pumping(j)'
  BY <1>4 DEF ShellReadsClose, Pumping
<1>5. ASSUME ShellCleansUp PROVE Pumping(j)'
  BY <1>5 DEF ShellCleansUp, Pumping
<1>6. ASSUME ReaperTakes PROVE Pumping(j)'
  BY <1>6 DEF ReaperTakes, Pumping
<1>7. ASSUME ReaperTerminates PROVE Pumping(j)'
  BY <1>7 DEF ReaperTerminates, Pumping
<1>8. ASSUME NEW k \in Conns, AttachLooksUp(k) PROVE Pumping(j)'
  <2>0. Unattached(k)
    BY <1>8 DEF AttachLooksUp, Attaching
  <2>1. UNCHANGED <<pump, rx, marker, current, replay_requested, shell>>
    BY <1>8 DEF AttachLooksUp
  <2>3. j # k => wire'[j] = wire[j]
    BY <1>8 DEF AttachLooksUp, QueuesOK
  <2>2. j = k => pump[j] # "on"
    BY <2>0 DEF Unattached
  <2> QED BY <2>1, <2>2, <2>3 DEF Pumping
<1>9. ASSUME NEW k \in Conns, AttachRefused(k) PROVE Pumping(j)'
  <2>0. Unattached(k)
    BY <1>9 DEF AttachRefused, Attaching
  <2>1. UNCHANGED <<pump, rx, marker, current, replay_requested, shell>>
    BY <1>9 DEF AttachRefused
  <2>3. j # k => wire'[j] = wire[j]
    BY <1>9 DEF AttachRefused, QueuesOK
  <2>2. j = k => pump[j] # "on"
    BY <2>0 DEF Unattached
  <2> QED BY <2>1, <2>2, <2>3 DEF Pumping
<1>10. ASSUME NEW k \in Conns, AttachInstalls(k) PROVE Pumping(j)'
  <2>1. Unattached(k) /\ ~marker[k] /\ rx[k] = << >>
    BY <1>10 DEF AttachInstalls, Attaching
  <2>2. UNCHANGED <<pump, rx, marker, wire, shell>> /\ current' = k
    BY <1>10 DEF AttachInstalls
  <2> QED BY <2>1, <2>2 DEF Pumping
<1>11. ASSUME NEW k \in Conns, AttachReplies(k) PROVE Pumping(j)'
  <2>1. wire[k] = << >> /\ Attaching(k)
    BY <1>11 DEF AttachReplies, Attaching
  <2>2. UNCHANGED <<rx, marker, current, replay_requested, shell>>
        /\ (j # k => wire'[j] = wire[j] /\ pump'[j] = pump[j])
        /\ wire'[k] = Written(k, ReplyFrames(reply[k]))
    BY <1>11 DEF AttachReplies, QueuesOK
  <2>3. \A i \in 1..Len(wire'[k]) : wire'[k][i].t \in {"ready", "truncated", "data"}
    <3>1. CASE link[k] = "up"
      <4>1. Answers(reply[k], wire'[k])
        BY <1>11, <2>1, <3>1, RepliedFacts
      <4> QED BY <4>1 DEF Answers
    <3>2. CASE link[k] # "up"
      BY <2>2, <3>2 DEF Written
    <3> QED BY <3>1, <3>2
  <2>4. CASE j = k
    BY <2>2, <2>3, <2>4 DEF Pumping
  <2>5. CASE j # k
    BY <2>2, <2>5 DEF Pumping
  <2> QED BY <2>4, <2>5
<1>12. ASSUME NEW k \in Conns, HandlesClose(k) PROVE Pumping(j)'
  BY <1>12 DEF HandlesClose, Pumping
<1>13. ASSUME NEW k \in Conns, NoticesDisconnect(k) PROVE Pumping(j)'
  BY <1>13 DEF NoticesDisconnect, Pumping
<1>14. ASSUME NEW k \in Conns, MarkerQueued(k) PROVE Pumping(j)'
  <2>1. /\ marker[k] /\ (marker'[j] => marker[j]) /\ (j # k => rx'[j] = rx[j])
        /\ UNCHANGED <<pump, wire, current, replay_requested, shell>>
    BY <1>14 DEF MarkerQueued, QueuesOK
  <2>2. ~(current = k /\ ~replay_requested)
    BY <2>1 DEF Pumping
  <2> QED BY <2>1, <2>2 DEF Pumping
<1>15. ASSUME NEW k \in Conns, PumpForwards(k) PROVE Pumping(j)'
  <2>1. /\ rx[k][1].t = "data" /\ UNCHANGED <<marker, current, replay_requested, shell>>
        /\ \A i \in Conns : i # k => wire'[i] = wire[i] /\ rx'[i] = rx[i] /\ pump'[i] = pump[i]
    BY <1>15, ForwardedFacts
  <2>2. CASE j = k
    <3>1. CASE pump'[k] = "ended"
      BY <2>1, <2>2, <3>1, <1>15, ForwardedFacts DEF Pumping
    <3>2. CASE pump'[k] # "ended"
      <4>1. pump[k] = "on" /\ Consumed(rx[k], rx'[k])
            /\ (wire'[k] = << >> \/ Extended(wire[k], wire'[k], rx[k][1]))
        BY <3>2, <1>15, ForwardedFacts
      <4>2. \A i \in 1..Len(wire[k]) : wire[k][i].t \in {"ready", "truncated", "data"}
        BY <4>1 DEF Pumping
      <4>3. rx[k][1].t \in {"ready", "truncated", "data"}
        BY <2>1
      <4>4. \A i \in 1..Len(wire'[k]) : wire'[k][i].t \in {"ready", "truncated", "data"}
        <5>1. CASE wire'[k] = << >>
          BY <5>1
        <5>2. CASE Extended(wire[k], wire'[k], rx[k][1])
          BY <5>2, <4>2, <4>3, KindsStay
        <5> QED BY <4>1, <5>1, <5>2
      <4>5. ASSUME current = k, ~replay_requested
            PROVE  ~marker[k] /\ (shell = "running" => \A i \in 1..Len(rx'[k]) : rx'[k][i].t \in {"data"})
        <5>1. ~marker[k] /\ (shell = "running" => \A i \in 1..Len(rx[k]) : rx[k][i].t \in {"data"})
          BY <4>5 DEF Pumping
        <5> QED BY <4>1, <5>1, KindsStay
      <4> QED BY <2>1, <2>2, <4>4, <4>5 DEF Pumping
    <3> QED BY <3>1, <3>2
  <2>3. CASE j # k
    BY <2>1, <2>3 DEF Pumping
  <2> QED BY <2>2, <2>3
<1>16. ASSUME NEW k \in Conns, PumpReadsExit(k) PROVE Pumping(j)'
  <2>1. EndsWith(k, "exit") /\ "exit" \in FrameKinds
    <3>1. EndsWith(k, "exit")
      BY <1>16 DEF PumpReadsExit
    <3> QED BY <3>1 DEF FrameKinds
  <2>2. pump[k] = "on" /\ UNCHANGED <<marker, current, replay_requested, shell>>
    BY <1>16 DEF PumpReadsExit
  <2>3. CASE j = k
    BY <2>1, <2>2, <2>3, EndedFacts DEF Pumping
  <2>4. CASE j # k
    <3>1. wire'[j] = wire[j] /\ rx'[j] = rx[j] /\ pump'[j] = pump[j]
      BY <2>1, <2>4, EndedFacts
    <3> QED BY <2>2, <2>4, <3>1 DEF Pumping
  <2> QED BY <2>3, <2>4
<1>17. ASSUME NEW k \in Conns, PumpReadsMarker(k) PROVE Pumping(j)'
  <2>1. EndsWith(k, "lagged") /\ "lagged" \in FrameKinds
    <3>1. EndsWith(k, "lagged")
      BY <1>17 DEF PumpReadsMarker
    <3> QED BY <3>1 DEF FrameKinds
  <2>2. pump[k] = "on" /\ UNCHANGED <<marker, current, replay_requested, shell>>
    BY <1>17 DEF PumpReadsMarker
  <2>3. CASE j = k
    BY <2>1, <2>2, <2>3, EndedFacts DEF Pumping
  <2>4. CASE j # k
    <3>1. wire'[j] = wire[j] /\ rx'[j] = rx[j] /\ pump'[j] = pump[j]
      BY ZenonT(30), <2>1, <2>4, EndedFacts
    <3> QED BY <2>2, <2>4, <3>1 DEF Pumping
  <2> QED BY <2>3, <2>4
<1>18. ASSUME NEW k \in Conns, PumpSuperseded(k) PROVE Pumping(j)'
  <2>1. EndsWith(k, "superseded") /\ "superseded" \in FrameKinds
    <3>1. EndsWith(k, "superseded")
      BY <1>18 DEF PumpSuperseded
    <3> QED BY <3>1 DEF FrameKinds
  <2>2. pump[k] = "on" /\ UNCHANGED <<marker, current, replay_requested, shell>>
    BY <1>18 DEF PumpSuperseded
  <2>3. CASE j = k
    BY <2>1, <2>2, <2>3, EndedFacts DEF Pumping
  <2>4. CASE j # k
    <3>1. wire'[j] = wire[j] /\ rx'[j] = rx[j] /\ pump'[j] = pump[j]
      BY ZenonT(30), <2>1, <2>4, EndedFacts
    <3> QED BY <2>2, <2>4, <3>1 DEF Pumping
  <2> QED BY <2>3, <2>4
<1>19. ASSUME NEW c \in Clients, GetsReady(c) PROVE Pumping(j)'
  <2>0. Incoming(c, "ready") /\ Consumes(c)
    BY <1>19 DEF GetsReady
  <2>1. UNCHANGED <<pump, rx, marker, current, replay_requested, shell>>
    BY <1>19 DEF GetsReady
  <2>2. /\ (j # conn[c] => wire'[j] = wire[j])
        /\ (j = conn[c] => wire[j] # << >> /\ Consumed(wire[j], wire'[j]))
    BY <2>0, ReadFacts
  <2>4. ASSUME \A i \in 1..Len(wire[j]) : wire[j][i].t \in {"ready", "truncated", "data"}
        PROVE  \A i \in 1..Len(wire'[j]) : wire'[j][i].t \in {"ready", "truncated", "data"}
    BY <2>2, <2>4, KindsStay
  <2> QED BY <2>1, <2>4 DEF Pumping
<1>20. ASSUME NEW c \in Clients, GetsData(c) PROVE Pumping(j)'
  <2>0. Incoming(c, "data") /\ Consumes(c)
    BY <1>20 DEF GetsData
  <2>1. UNCHANGED <<pump, rx, marker, current, replay_requested, shell>>
    BY <1>20 DEF GetsData
  <2>2. /\ (j # conn[c] => wire'[j] = wire[j])
        /\ (j = conn[c] => wire[j] # << >> /\ Consumed(wire[j], wire'[j]))
    BY <2>0, ReadFacts
  <2>4. ASSUME \A i \in 1..Len(wire[j]) : wire[j][i].t \in {"ready", "truncated", "data"}
        PROVE  \A i \in 1..Len(wire'[j]) : wire'[j][i].t \in {"ready", "truncated", "data"}
    BY <2>2, <2>4, KindsStay
  <2> QED BY <2>1, <2>4 DEF Pumping
<1>21. ASSUME NEW c \in Clients, GetsTruncated(c) PROVE Pumping(j)'
  <2>0. Incoming(c, "truncated") /\ Consumes(c)
    BY <1>21 DEF GetsTruncated
  <2>1. UNCHANGED <<pump, rx, marker, current, replay_requested, shell>>
    BY <1>21 DEF GetsTruncated
  <2>2. /\ (j # conn[c] => wire'[j] = wire[j])
        /\ (j = conn[c] => wire[j] # << >> /\ Consumed(wire[j], wire'[j]))
    BY <2>0, ReadFacts
  <2>4. ASSUME \A i \in 1..Len(wire[j]) : wire[j][i].t \in {"ready", "truncated", "data"}
        PROVE  \A i \in 1..Len(wire'[j]) : wire'[j][i].t \in {"ready", "truncated", "data"}
    BY <2>2, <2>4, KindsStay
  <2> QED BY <2>1, <2>4 DEF Pumping
<1>22. ASSUME NEW c \in Clients, GetsFinal(c) PROVE Pumping(j)'
  <2>0. PICK t \in FrameKinds : Incoming(c, t)
    BY <1>22 DEF GetsFinal, FrameKinds
  <2>1. UNCHANGED <<pump, rx, marker, current, replay_requested, shell>>
    BY <1>22 DEF GetsFinal
  <2>5. CASE AppClient
    <3>1. conn[c] # Nobody /\ Hangs(c)
      BY <1>22, <2>0, <2>5 DEF GetsFinal, Incoming
    <3>2. wire'[j] = wire[j] \/ wire'[j] = << >>
      BY <3>1, HungFacts
    <3> QED BY <2>1, <3>2 DEF Pumping
  <2>6. CASE ~AppClient
    <3>0. Consumes(c)
      BY <1>22, <2>6 DEF GetsFinal
    <3>2. /\ (j # conn[c] => wire'[j] = wire[j])
        /\ (j = conn[c] => wire[j] # << >> /\ Consumed(wire[j], wire'[j]))
      BY <2>0, <3>0, ReadFacts
    <3>4. ASSUME \A i \in 1..Len(wire[j]) : wire[j][i].t \in {"ready", "truncated", "data"}
        PROVE  \A i \in 1..Len(wire'[j]) : wire'[j][i].t \in {"ready", "truncated", "data"}
      BY <3>2, <3>4, KindsStay
    <3> QED BY <2>1, <3>4 DEF Pumping
  <2> QED BY <2>5, <2>6
<1>23. ASSUME NEW c \in Clients, GetsLagged(c) PROVE Pumping(j)'
  <2>0. Incoming(c, "lagged") /\ Consumes(c)
    BY <1>23 DEF GetsLagged
  <2>1. UNCHANGED <<pump, rx, marker, current, replay_requested, shell>>
    BY <1>23 DEF GetsLagged
  <2>2. /\ (j # conn[c] => wire'[j] = wire[j])
        /\ (j = conn[c] => wire[j] # << >> /\ Consumed(wire[j], wire'[j]))
    BY <2>0, ReadFacts
  <2>4. ASSUME \A i \in 1..Len(wire[j]) : wire[j][i].t \in {"ready", "truncated", "data"}
        PROVE  \A i \in 1..Len(wire'[j]) : wire'[j][i].t \in {"ready", "truncated", "data"}
    BY <2>2, <2>4, KindsStay
  <2> QED BY <2>1, <2>4 DEF Pumping
<1>24. ASSUME NEW c \in Clients, GetsClose(c) PROVE Pumping(j)'
  <2>1. UNCHANGED <<pump, rx, marker, current, replay_requested,
                    shell>> /\ (wire'[j] = wire[j] \/ wire'[j] = << >>)
    BY <1>24, HungFacts DEF GetsClose, Incoming
  <2> QED BY <2>1 DEF Pumping
<1>25. ASSUME NEW c \in Clients, Paints(c) PROVE Pumping(j)'
  BY <1>25 DEF Paints, Pumping
<1>26. ASSUME NEW c \in Clients, Reconnects(c) PROVE Pumping(j)'
  BY <1>26 DEF Reconnects, OpensSocket, Pumping
<1>27. ASSUME NEW c \in Clients, Resumes(c) PROVE Pumping(j)'
  BY <1>27 DEF Resumes, OpensSocket, Pumping
<1>28. ASSUME NEW c \in Clients, UserCloses(c) PROVE Pumping(j)'
  <2>1. UNCHANGED <<pump, rx, marker, current, replay_requested,
                    shell>> /\ (wire'[j] = wire[j] \/ wire'[j] = << >>)
    BY <1>28, HungFacts DEF UserCloses, Incoming
  <2> QED BY <2>1 DEF Pumping
<1>29. ASSUME NEW c \in Clients, LinkDrops(c) PROVE Pumping(j)'
  <2>1. UNCHANGED <<pump, rx, marker, current, replay_requested,
                    shell>> /\ (wire'[j] = wire[j] \/ wire'[j] = << >>)
    BY <1>29, HungFacts DEF LinkDrops, Incoming
  <2> QED BY <2>1 DEF Pumping
<1>30. CASE UNCHANGED vars
  BY <1>30 DEF vars, Pumping
<1> QED
  BY <1>1, <1>2, <1>3, <1>4, <1>5, <1>6, <1>7, <1>8, <1>9, <1>10, <1>11, <1>12, <1>13,
     <1>14, <1>15, <1>16, <1>17, <1>18, <1>19, <1>20, <1>21, <1>22, <1>23, <1>24,
     <1>25, <1>26, <1>27, <1>28, <1>29, <1>30
  DEF Next, ShellTask, Reaper, Handler, Pump, Receives, Client

(* `ready` and `gap_truncated` come first, and after what ends the output  *)
(* only `close`.                                                           *)
LEMMA OrderStep == StreamInv /\ [Next]_vars => OrderOK'
<1> SUFFICES ASSUME StreamInv, [Next]_vars PROVE OrderOK'
  OBVIOUS
<1> USE BoundsAssumption DEF Nobody, Conns, sessionVars, storeVars, shellVars, handlerVars, pumpVars, linkVars, clientVars, agentVars
<1> TypeOK /\ ControlOK /\ QueuesOK /\ LinksOK
  BY DEF StreamInv, TypeOK
<1> SUFFICES ASSUME NEW j \in Conns PROVE Ordering(j)'
  BY DEF OrderOK
<1> Ordering(j) /\ Pumping(j) /\ (\A k \in Conns : Attaching(k) /\ Pumping(k) /\ Ordering(k))
  BY DEF StreamInv, AttachingOK, PumpOK, OrderOK
<1> USE DEF ControlOK
<1>1. ASSUME NEW n \in 1..MaxChunk, ShellWrites(n) PROVE Ordering(j)'
  <2>1. Publish(Output(next_seq, n)) /\ Output(next_seq, n) \in Entry
    <3> Output(next_seq, n) \in Entry
      BY Frames, BoundsAssumption DEF OutputKinds
    <3> QED BY <1>1 DEF ShellWrites
  <2>2. shell = "running"
    BY <1>1 DEF ShellWrites
  <2>3. UNCHANGED wire
    BY <2>1, PublishedFacts
  <2>4. CASE rx'[j] = rx[j]
    BY <2>3, <2>4 DEF Ordering
  <2>5. CASE rx'[j] # rx[j]
    <3>1. current = j /\ ~replay_requested /\ Extended(rx[j], rx'[j], Output(next_seq, n))
      BY <2>1, <2>5, PublishedFacts
    <3>2. \A i \in 1..Len(rx[j]) : rx[j][i].t \in {"data"}
      BY <2>2, <3>1 DEF Pumping
    <3>3. OrderedRx(rx[j]) /\ OrderedWire(wire[j]) /\ EndsOnce(wire[j])
      BY DEF Ordering
    <3>4. OrderedRx(rx'[j])
      BY <3>1, <3>2, <3>3, RxOrderStays
    <3> QED BY <2>3, <3>3, <3>4 DEF Ordering
  <2> QED BY <2>4, <2>5
<1>2. ASSUME ShellExits PROVE Ordering(j)'
  <2>1. Publish(Signal("exit")) /\ Signal("exit") \in Entry
    <3> Signal("exit") \in Entry
      BY Frames, BoundsAssumption DEF OutputKinds
    <3> QED BY <1>2 DEF ShellExits
  <2>2. shell = "running"
    BY <1>2 DEF ShellExits
  <2>3. UNCHANGED wire
    BY <2>1, PublishedFacts
  <2>4. CASE rx'[j] = rx[j]
    BY <2>3, <2>4 DEF Ordering
  <2>5. CASE rx'[j] # rx[j]
    <3>1. current = j /\ ~replay_requested /\ Extended(rx[j], rx'[j], Signal("exit"))
      BY <2>1, <2>5, PublishedFacts
    <3>2. \A i \in 1..Len(rx[j]) : rx[j][i].t \in {"data"}
      BY <2>2, <3>1 DEF Pumping
    <3>3. OrderedRx(rx[j]) /\ OrderedWire(wire[j]) /\ EndsOnce(wire[j])
      BY DEF Ordering
    <3>4. OrderedRx(rx'[j])
      BY <3>1, <3>2, <3>3, RxOrderStays
    <3> QED BY <2>3, <3>3, <3>4 DEF Ordering
  <2> QED BY <2>4, <2>5
<1>3. ASSUME ShellLost PROVE Ordering(j)'
  BY <1>3 DEF ShellLost, Ordering
<1>4. ASSUME ShellReadsClose PROVE Ordering(j)'
  BY <1>4 DEF ShellReadsClose, Ordering
<1>5. ASSUME ShellCleansUp PROVE Ordering(j)'
  BY <1>5 DEF ShellCleansUp, Ordering
<1>6. ASSUME ReaperTakes PROVE Ordering(j)'
  BY <1>6 DEF ReaperTakes, Ordering
<1>7. ASSUME ReaperTerminates PROVE Ordering(j)'
  BY <1>7 DEF ReaperTerminates, Ordering
<1>8. ASSUME NEW k \in Conns, AttachLooksUp(k) PROVE Ordering(j)'
  <2>1. UNCHANGED rx /\ wire[k] = << >>
    BY <1>8 DEF AttachLooksUp, Attaching
  <2>2. j # k => wire'[j] = wire[j]
    BY <1>8 DEF AttachLooksUp, QueuesOK
  <2>3. CASE j = k
    <3>1. wire'[k] = wire[k] \/ wire'[k] = Written(k, <<Signal("gone")>>)
      BY <1>8 DEF AttachLooksUp, QueuesOK
    <3>2. wire'[k] = << >> \/ (Len(wire'[k]) = 1 /\ wire'[k][1].t = "gone")
      BY <2>1, <3>1, GoneFacts
    <3>3. OrderedWire(wire'[k])
      BY <3>2 DEF OrderedWire
    <3>4. EndsOnce(wire'[k])
      <4>1. CASE wire'[k] = << >>
        BY <4>1 DEF EndsOnce
      <4>2. CASE Len(wire'[k]) = 1
        BY <4>2, ShortEnds
      <4> QED BY <3>2, <4>1, <4>2
    <3> QED BY <2>1, <2>3, <3>3, <3>4 DEF Ordering
  <2> QED BY <2>1, <2>2, <2>3 DEF Ordering
<1>9. ASSUME NEW k \in Conns, AttachRefused(k) PROVE Ordering(j)'
  <2>1. UNCHANGED rx /\ wire[k] = << >>
    BY <1>9 DEF AttachRefused, Attaching
  <2>2. j # k => wire'[j] = wire[j]
    BY <1>9 DEF AttachRefused, QueuesOK
  <2>3. CASE j = k
    <3>1. wire'[k] = wire[k] \/ wire'[k] = Written(k, <<Signal("gone")>>)
      BY <1>9 DEF AttachRefused, QueuesOK
    <3>2. wire'[k] = << >> \/ (Len(wire'[k]) = 1 /\ wire'[k][1].t = "gone")
      BY <2>1, <3>1, GoneFacts
    <3>3. OrderedWire(wire'[k])
      BY <3>2 DEF OrderedWire
    <3>4. EndsOnce(wire'[k])
      <4>1. CASE wire'[k] = << >>
        BY <4>1 DEF EndsOnce
      <4>2. CASE Len(wire'[k]) = 1
        BY <4>2, ShortEnds
      <4> QED BY <3>2, <4>1, <4>2
    <3> QED BY <2>1, <2>3, <3>3, <3>4 DEF Ordering
  <2> QED BY <2>1, <2>2, <2>3 DEF Ordering
<1>10. ASSUME NEW k \in Conns, AttachInstalls(k) PROVE Ordering(j)'
  BY <1>10 DEF AttachInstalls, Ordering
<1>11. ASSUME NEW k \in Conns, AttachReplies(k) PROVE Ordering(j)'
  <2>1. wire[k] = << >> /\ Attaching(k)
    BY <1>11 DEF AttachReplies, Attaching
  <2>2. UNCHANGED rx /\ (j # k => wire'[j] = wire[j])
        /\ wire'[k] = Written(k, ReplyFrames(reply[k]))
    BY <1>11 DEF AttachReplies, QueuesOK
  <2>3. OrderedWire(wire'[k])
    <3>1. CASE link[k] = "up"
      <4> DEFINE w == wire'[k]
      <4>1. /\ Len(w) \in 1..3 /\ w[1].t = "ready"
            /\ Len(w) = 1 \/ (Len(w) = 2 /\ w[2].t \in {"truncated", "data"})
               \/ (Len(w) = 3 /\ w[2].t = "truncated" /\ w[3].t = "data")
        <5>1. reply[k].n \in Nat
          BY Fields
        <5>2. Answers(reply[k], w)
          BY <1>11, <2>1, <3>1, RepliedFacts
        <5> HIDE DEF w
        <5>3. CASE reply[k].n = 0
          BY <5>2, <5>3 DEF Answers
        <5>4. CASE reply[k].n > 0
          BY <5>2, <5>4 DEF Answers
        <5> QED BY <5>1, <5>3, <5>4
      <4> HIDE DEF w
      <4>2. OrderedWire(w)
        BY <4>1, ShortOrder
      <4> QED BY <4>2 DEF w
    <3>2. CASE link[k] # "up"
      BY <2>2, <3>2 DEF Written, OrderedWire
    <3> QED BY <3>1, <3>2
  <2>4. EndsOnce(wire'[k])
    <3>1. CASE link[k] = "up"
      <4>1. Answers(reply[k], wire'[k])
        BY <1>11, <2>1, <3>1, RepliedFacts
      <4>2. \A i \in 1..Len(wire'[k]) : wire'[k][i].t \in {"ready", "truncated", "data"}
        BY <4>1 DEF Answers
      <4> QED BY <4>2, EndsStay
    <3>2. CASE link[k] # "up"
      BY <2>2, <3>2 DEF Written, EndsOnce
    <3> QED BY <3>1, <3>2
  <2> QED BY <2>2, <2>3, <2>4 DEF Ordering
<1>12. ASSUME NEW k \in Conns, HandlesClose(k) PROVE Ordering(j)'
  BY <1>12 DEF HandlesClose, Ordering
<1>13. ASSUME NEW k \in Conns, NoticesDisconnect(k) PROVE Ordering(j)'
  BY <1>13 DEF NoticesDisconnect, Ordering
<1>14. ASSUME NEW k \in Conns, MarkerQueued(k) PROVE Ordering(j)'
  <2>1. UNCHANGED wire /\ (j # k => rx'[j] = rx[j])
    BY <1>14 DEF MarkerQueued, QueuesOK
  <2>2. rx'[k] = rx[k] \/ rx'[k] = Append(rx[k], Signal("replay"))
    BY <1>14 DEF MarkerQueued, QueuesOK
  <2>3. rx'[k] = rx[k] \/ Extended(rx[k], rx'[k], Signal("replay"))
    <3>1. Signal("replay") \in Entry /\ rx[k] \in Seq(Entry) /\ Len(rx[k]) \in Nat
      BY Frames, Fields DEF OutputKinds
    <3>2. Extended(rx[k], Append(rx[k], Signal("replay")), Signal("replay"))
      BY <3>1, OneMoreExtends
    <3> QED BY <2>2, <3>2
  <2>4. Signal("replay").t # "data"
    BY DEF Signal
  <2>5. OrderedRx(rx'[k])
    <3>1. OrderedRx(rx[k])
      BY DEF Ordering
    <3> QED BY <2>3, <2>4, <3>1, RxOrderStays
  <2> QED BY <2>1, <2>5 DEF Ordering
<1>15. ASSUME NEW k \in Conns, PumpForwards(k) PROVE Ordering(j)'
  <2>1. /\ rx[k][1].t = "data" /\ pump[k] = "on"
        /\ (j # k => wire'[j] = wire[j] /\ rx'[j] = rx[j])
    <3>1. rx[k][1].t = "data" /\ pump[k] = "on"
      BY <1>15, ForwardedFacts
    <3>2. j # k => wire'[j] = wire[j] /\ rx'[j] = rx[j]
      BY <1>15, ForwardedFacts
    <3> QED BY <3>1, <3>2
  <2>2. CASE j = k
    <3>1. OrderedWire(wire[k]) /\ OrderedRx(rx[k])
      BY DEF Ordering
    <3>2. rx'[k] = << >> \/ Consumed(rx[k], rx'[k])
      BY <1>15, ForwardedFacts
    <3>3. OrderedRx(rx'[k])
      <4>1. OrderedRx(<< >>)
        BY DEF OrderedRx
      <4> QED BY <3>1, <3>2, <4>1, RxOrderStays
    <3>4. wire'[k] = wire[k] \/ wire'[k] = << >> \/ Extended(wire[k], wire'[k], rx[k][1])
      BY <1>15, ForwardedFacts
    <3>5. OrderedWire(wire'[k])
      <4>1. OrderedWire(<< >>)
        BY DEF OrderedWire
      <4>2. \A i \in 1..Len(wire[k]) : wire[k][i].t \in {"ready", "truncated", "data"}
        BY <2>1 DEF Pumping
      <4>3. CASE Extended(wire[k], wire'[k], rx[k][1])
        BY <2>1, <3>1, <4>2, <4>3, OrderStays
      <4> QED BY <3>1, <3>4, <4>1, <4>3
    <3>6. EndsOnce(wire'[k])
      <4>1. \A i \in 1..Len(wire[k]) : wire[k][i].t \in {"ready", "truncated", "data"}
        BY <2>1 DEF Pumping
      <4>2. CASE wire'[k] = << >>
        BY <4>2 DEF EndsOnce
      <4>3. CASE wire'[k] = wire[k]
        BY <4>1, <4>3, EndsStay
      <4>4. CASE Extended(wire[k], wire'[k], rx[k][1])
        BY <4>1, <4>4, EndsStay
      <4> QED BY <3>4, <4>2, <4>3, <4>4
    <3> QED BY <2>2, <3>3, <3>5, <3>6 DEF Ordering
  <2> QED BY <2>1, <2>2 DEF Ordering
<1>16. ASSUME NEW k \in Conns, PumpReadsExit(k) PROVE Ordering(j)'
  <2>1. EndsWith(k, "exit") /\ "exit" \in FrameKinds
    <3>1. EndsWith(k, "exit")
      BY <1>16 DEF PumpReadsExit
    <3> QED BY <3>1 DEF FrameKinds
  <2>2. (j # k => wire'[j] = wire[j] /\ rx'[j] = rx[j]) /\ rx'[k] = << >>
        /\ (wire'[k] = << >> \/ EndedWith(wire[k], wire'[k], "exit"))
    BY <2>1, EndedFacts
  <2>3. OrderedWire(wire'[k]) /\ OrderedRx(rx'[k])
    <3>1. OrderedWire(<< >>) /\ OrderedRx(<< >>)
      BY DEF OrderedWire, OrderedRx
    <3>2. OrderedWire(wire[k])
      BY DEF Ordering
    <3>3. EndedWith(wire[k], wire'[k], "exit") => OrderedWire(wire'[k])
      BY <3>2, OrderStays
    <3> QED BY <2>2, <3>1, <3>3
  <2>4. EndsOnce(wire'[k])
    <3>1. CASE wire'[k] = << >>
      BY <3>1 DEF EndsOnce
    <3>2. CASE EndedWith(wire[k], wire'[k], "exit")
      <4>1. pump[k] = "on"
        BY <1>16 DEF PumpReadsExit
      <4>2. \A i \in 1..Len(wire[k]) : wire[k][i].t \in {"ready", "truncated", "data"}
        BY <4>1 DEF Pumping
      <4> QED BY <3>2, <4>2, EndsStay
    <3> QED BY <2>2, <3>1, <3>2
  <2> QED BY <2>2, <2>3, <2>4 DEF Ordering
<1>17. ASSUME NEW k \in Conns, PumpReadsMarker(k) PROVE Ordering(j)'
  <2>1. EndsWith(k, "lagged") /\ "lagged" \in FrameKinds
    <3>1. EndsWith(k, "lagged")
      BY <1>17 DEF PumpReadsMarker
    <3> QED BY <3>1 DEF FrameKinds
  <2>2. (j # k => wire'[j] = wire[j] /\ rx'[j] = rx[j]) /\ rx'[k] = << >>
        /\ (wire'[k] = << >> \/ EndedWith(wire[k], wire'[k], "lagged"))
    BY <2>1, EndedFacts
  <2>3. OrderedWire(wire'[k]) /\ OrderedRx(rx'[k])
    <3>1. OrderedWire(<< >>) /\ OrderedRx(<< >>)
      BY DEF OrderedWire, OrderedRx
    <3>2. OrderedWire(wire[k])
      BY DEF Ordering
    <3>3. EndedWith(wire[k], wire'[k], "lagged") => OrderedWire(wire'[k])
      BY <3>2, OrderStays
    <3> QED BY <2>2, <3>1, <3>3
  <2>4. EndsOnce(wire'[k])
    <3>1. CASE wire'[k] = << >>
      BY <3>1 DEF EndsOnce
    <3>2. CASE EndedWith(wire[k], wire'[k], "lagged")
      <4>1. pump[k] = "on"
        BY <1>17 DEF PumpReadsMarker
      <4>2. \A i \in 1..Len(wire[k]) : wire[k][i].t \in {"ready", "truncated", "data"}
        BY <4>1 DEF Pumping
      <4> QED BY <3>2, <4>2, EndsStay
    <3> QED BY <2>2, <3>1, <3>2
  <2> QED BY <2>2, <2>3, <2>4 DEF Ordering
<1>18. ASSUME NEW k \in Conns, PumpSuperseded(k) PROVE Ordering(j)'
  <2>1. EndsWith(k, "superseded") /\ "superseded" \in FrameKinds
    <3>1. EndsWith(k, "superseded")
      BY <1>18 DEF PumpSuperseded
    <3> QED BY <3>1 DEF FrameKinds
  <2>2. (j # k => wire'[j] = wire[j] /\ rx'[j] = rx[j]) /\ rx'[k] = << >>
        /\ (wire'[k] = << >> \/ EndedWith(wire[k], wire'[k], "superseded"))
    BY <2>1, EndedFacts
  <2>3. OrderedWire(wire'[k]) /\ OrderedRx(rx'[k])
    <3>1. OrderedWire(<< >>) /\ OrderedRx(<< >>)
      BY DEF OrderedWire, OrderedRx
    <3>2. OrderedWire(wire[k])
      BY DEF Ordering
    <3>3. EndedWith(wire[k], wire'[k], "superseded") => OrderedWire(wire'[k])
      BY <3>2, OrderStays
    <3> QED BY <2>2, <3>1, <3>3
  <2>4. EndsOnce(wire'[k])
    <3>1. CASE wire'[k] = << >>
      BY <3>1 DEF EndsOnce
    <3>2. CASE EndedWith(wire[k], wire'[k], "superseded")
      <4>1. pump[k] = "on"
        BY <1>18 DEF PumpSuperseded
      <4>2. \A i \in 1..Len(wire[k]) : wire[k][i].t \in {"ready", "truncated", "data"}
        BY <4>1 DEF Pumping
      <4> QED BY <3>2, <4>2, EndsStay
    <3> QED BY <2>2, <3>1, <3>2
  <2> QED BY <2>2, <2>3, <2>4 DEF Ordering
<1>19. ASSUME NEW c \in Clients, GetsReady(c) PROVE Ordering(j)'
  <2>0. Incoming(c, "ready") /\ Consumes(c)
    BY <1>19 DEF GetsReady
  <2>1. UNCHANGED rx
    BY <1>19 DEF GetsReady
  <2>2. UNCHANGED rx /\ (wire'[j] = wire[j] \/ Consumed(wire[j], wire'[j]))
    <3>1. (j # conn[c] => wire'[j] = wire[j]) /\ (j = conn[c] => Consumed(wire[j], wire'[j]))
      BY <2>0, ReadFacts
    <3> QED BY <2>1, <3>1
  <2>3. /\ OrderedWire(wire[j]) /\ OrderedRx(rx[j]) /\ EndsOnce(wire[j])
        /\ OrderedWire(<< >>) /\ EndsOnce(<< >>)
    BY DEF Ordering, OrderedWire, EndsOnce
  <2>4. Consumed(wire[j], wire'[j]) => OrderedWire(wire'[j]) /\ EndsOnce(wire'[j])
    BY <2>3, OrderStays, EndsStay
  <2> QED BY <2>2, <2>3, <2>4 DEF Ordering
<1>20. ASSUME NEW c \in Clients, GetsData(c) PROVE Ordering(j)'
  <2>0. Incoming(c, "data") /\ Consumes(c)
    BY <1>20 DEF GetsData
  <2>1. UNCHANGED rx
    BY <1>20 DEF GetsData
  <2>2. UNCHANGED rx /\ (wire'[j] = wire[j] \/ Consumed(wire[j], wire'[j]))
    <3>1. (j # conn[c] => wire'[j] = wire[j]) /\ (j = conn[c] => Consumed(wire[j], wire'[j]))
      BY <2>0, ReadFacts
    <3> QED BY <2>1, <3>1
  <2>3. /\ OrderedWire(wire[j]) /\ OrderedRx(rx[j]) /\ EndsOnce(wire[j])
        /\ OrderedWire(<< >>) /\ EndsOnce(<< >>)
    BY DEF Ordering, OrderedWire, EndsOnce
  <2>4. Consumed(wire[j], wire'[j]) => OrderedWire(wire'[j]) /\ EndsOnce(wire'[j])
    BY <2>3, OrderStays, EndsStay
  <2> QED BY <2>2, <2>3, <2>4 DEF Ordering
<1>21. ASSUME NEW c \in Clients, GetsTruncated(c) PROVE Ordering(j)'
  <2>0. Incoming(c, "truncated") /\ Consumes(c)
    BY <1>21 DEF GetsTruncated
  <2>1. UNCHANGED rx
    BY <1>21 DEF GetsTruncated
  <2>2. UNCHANGED rx /\ (wire'[j] = wire[j] \/ Consumed(wire[j], wire'[j]))
    <3>1. (j # conn[c] => wire'[j] = wire[j]) /\ (j = conn[c] => Consumed(wire[j], wire'[j]))
      BY <2>0, ReadFacts
    <3> QED BY <2>1, <3>1
  <2>3. /\ OrderedWire(wire[j]) /\ OrderedRx(rx[j]) /\ EndsOnce(wire[j])
        /\ OrderedWire(<< >>) /\ EndsOnce(<< >>)
    BY DEF Ordering, OrderedWire, EndsOnce
  <2>4. Consumed(wire[j], wire'[j]) => OrderedWire(wire'[j]) /\ EndsOnce(wire'[j])
    BY <2>3, OrderStays, EndsStay
  <2> QED BY <2>2, <2>3, <2>4 DEF Ordering
<1>22. ASSUME NEW c \in Clients, GetsFinal(c) PROVE Ordering(j)'
  <2>0. PICK t \in FrameKinds : Incoming(c, t)
    BY <1>22 DEF GetsFinal, FrameKinds
  <2>1. UNCHANGED rx
    BY <1>22 DEF GetsFinal
  <2>2. UNCHANGED rx /\ (wire'[j] = wire[j] \/ wire'[j] = << >> \/ Consumed(wire[j], wire'[j]))
    <3>1. CASE AppClient
      <4>1. conn[c] # Nobody /\ Hangs(c)
        BY <1>22, <2>0, <3>1 DEF GetsFinal, Incoming
      <4> QED BY <2>1, <4>1, HungFacts
    <3>2. CASE ~AppClient
      <4>0. Consumes(c)
        BY <1>22, <3>2 DEF GetsFinal
      <4>1. (j # conn[c] => wire'[j] = wire[j]) /\ (j = conn[c] => Consumed(wire[j], wire'[j]))
        BY <2>0, <4>0, ReadFacts
      <4> QED BY <2>1, <4>1
    <3> QED BY <3>1, <3>2
  <2>3. /\ OrderedWire(wire[j]) /\ OrderedRx(rx[j]) /\ EndsOnce(wire[j])
        /\ OrderedWire(<< >>) /\ EndsOnce(<< >>)
    BY DEF Ordering, OrderedWire, EndsOnce
  <2>4. Consumed(wire[j], wire'[j]) => OrderedWire(wire'[j]) /\ EndsOnce(wire'[j])
    BY <2>3, OrderStays, EndsStay
  <2> QED BY <2>2, <2>3, <2>4 DEF Ordering
<1>23. ASSUME NEW c \in Clients, GetsLagged(c) PROVE Ordering(j)'
  <2>0. Incoming(c, "lagged") /\ Consumes(c)
    BY <1>23 DEF GetsLagged
  <2>1. UNCHANGED rx
    BY <1>23 DEF GetsLagged
  <2>2. UNCHANGED rx /\ (wire'[j] = wire[j] \/ Consumed(wire[j], wire'[j]))
    <3>1. (j # conn[c] => wire'[j] = wire[j]) /\ (j = conn[c] => Consumed(wire[j], wire'[j]))
      BY <2>0, ReadFacts
    <3> QED BY <2>1, <3>1
  <2>3. /\ OrderedWire(wire[j]) /\ OrderedRx(rx[j]) /\ EndsOnce(wire[j])
        /\ OrderedWire(<< >>) /\ EndsOnce(<< >>)
    BY DEF Ordering, OrderedWire, EndsOnce
  <2>4. Consumed(wire[j], wire'[j]) => OrderedWire(wire'[j]) /\ EndsOnce(wire'[j])
    BY <2>3, OrderStays, EndsStay
  <2> QED BY <2>2, <2>3, <2>4 DEF Ordering
<1>24. ASSUME NEW c \in Clients, GetsClose(c) PROVE Ordering(j)'
  <2>2. UNCHANGED rx /\ (wire'[j] = wire[j] \/ wire'[j] = << >>)
    BY <1>24, HungFacts DEF GetsClose, Incoming
  <2>3. /\ OrderedWire(wire[j]) /\ OrderedRx(rx[j]) /\ EndsOnce(wire[j])
        /\ OrderedWire(<< >>) /\ EndsOnce(<< >>)
    BY DEF Ordering, OrderedWire, EndsOnce
  <2>4. Consumed(wire[j], wire'[j]) => OrderedWire(wire'[j]) /\ EndsOnce(wire'[j])
    BY <2>3, OrderStays, EndsStay
  <2> QED BY <2>2, <2>3, <2>4 DEF Ordering
<1>25. ASSUME NEW c \in Clients, Paints(c) PROVE Ordering(j)'
  BY <1>25 DEF Paints, Ordering
<1>26. ASSUME NEW c \in Clients, Reconnects(c) PROVE Ordering(j)'
  BY <1>26 DEF Reconnects, OpensSocket, Ordering
<1>27. ASSUME NEW c \in Clients, Resumes(c) PROVE Ordering(j)'
  BY <1>27 DEF Resumes, OpensSocket, Ordering
<1>28. ASSUME NEW c \in Clients, UserCloses(c) PROVE Ordering(j)'
  <2>2. UNCHANGED rx /\ (wire'[j] = wire[j] \/ wire'[j] = << >>)
    BY <1>28, HungFacts DEF UserCloses, Incoming
  <2>3. /\ OrderedWire(wire[j]) /\ OrderedRx(rx[j]) /\ EndsOnce(wire[j])
        /\ OrderedWire(<< >>) /\ EndsOnce(<< >>)
    BY DEF Ordering, OrderedWire, EndsOnce
  <2>4. Consumed(wire[j], wire'[j]) => OrderedWire(wire'[j]) /\ EndsOnce(wire'[j])
    BY <2>3, OrderStays, EndsStay
  <2> QED BY <2>2, <2>3, <2>4 DEF Ordering
<1>29. ASSUME NEW c \in Clients, LinkDrops(c) PROVE Ordering(j)'
  <2>2. UNCHANGED rx /\ (wire'[j] = wire[j] \/ wire'[j] = << >>)
    BY <1>29, HungFacts DEF LinkDrops, Incoming
  <2>3. /\ OrderedWire(wire[j]) /\ OrderedRx(rx[j]) /\ EndsOnce(wire[j])
        /\ OrderedWire(<< >>) /\ EndsOnce(<< >>)
    BY DEF Ordering, OrderedWire, EndsOnce
  <2>4. Consumed(wire[j], wire'[j]) => OrderedWire(wire'[j]) /\ EndsOnce(wire'[j])
    BY <2>3, OrderStays, EndsStay
  <2> QED BY <2>2, <2>3, <2>4 DEF Ordering
<1>30. CASE UNCHANGED vars
  BY <1>30 DEF vars, Ordering
<1> QED
  BY <1>1, <1>2, <1>3, <1>4, <1>5, <1>6, <1>7, <1>8, <1>9, <1>10, <1>11, <1>12, <1>13,
     <1>14, <1>15, <1>16, <1>17, <1>18, <1>19, <1>20, <1>21, <1>22, <1>23, <1>24,
     <1>25, <1>26, <1>27, <1>28, <1>29, <1>30
  DEF Next, ShellTask, Reaper, Handler, Pump, Receives, Client

(* Whatever is queued was produced before.                                 *)
LEMMA BoundedStep == StreamInv /\ [Next]_vars => (\A k \in Conns : Bounded(k))'
<1> SUFFICES ASSUME StreamInv, [Next]_vars PROVE (\A k \in Conns : Bounded(k))'
  OBVIOUS
<1> USE DEF Nobody, Conns, sessionVars, storeVars, shellVars, handlerVars, pumpVars, linkVars, clientVars, agentVars
<1> TypeOK /\ ControlOK /\ QueuesOK /\ LinksOK
  BY DEF StreamInv, TypeOK
<1> SUFFICES ASSUME NEW j \in Conns PROVE Bounded(j)'
  OBVIOUS
<1> Bounded(j) /\ (\A k \in Conns : Attaching(k) /\ Bounded(k)) /\ (\A c \in Clients : Behind(c))
  BY DEF StreamInv, AttachingOK, BoundsOK
<1> USE DEF ControlOK
<1>1. ASSUME NEW n \in 1..MaxChunk, ShellWrites(n) PROVE Bounded(j)'
  <2>1. Publish(Output(next_seq, n)) /\ Output(next_seq, n) \in Entry
    <3> Output(next_seq, n) \in Entry
      BY Frames, BoundsAssumption DEF OutputKinds
    <3> QED BY <1>1 DEF ShellWrites
  <2>2. UNCHANGED <<wire, since, reply>>
    BY <2>1, PublishedFacts
  <2>3. next_seq' \in Nat /\ next_seq <= next_seq'
    BY <1>1, BoundsAssumption DEF ShellWrites
  <2>4. Within(wire[j], next_seq') /\ Within(rx[j], next_seq')
    BY <2>3, Fields, WithinGrows DEF Bounded
  <2>5. since[j] <= next_seq' /\ reply[j].lo + reply[j].n <= next_seq'
    <3>1. since[j] \in Nat /\ reply[j].lo \in Nat /\ reply[j].n \in Nat
      BY Fields
    <3> QED BY <2>3, <3>1 DEF Bounded
  <2>6. Within(rx'[j], next_seq')
    <3>1. Within(<<Output(next_seq, n)>>, next_seq')
      <4>1. Len(<<Output(next_seq, n)>>) = 1 /\ <<Output(next_seq, n)>>[1] = Output(next_seq, n)
        OBVIOUS
      <4>2. Output(next_seq, n).n = n /\ Output(next_seq, n).lo = next_seq /\ Output(next_seq, n).t = "data" /\ n > 0 /\ next_seq' = next_seq + n
        BY <1>1, BoundsAssumption DEF ShellWrites, Output, Signal
      <4> QED BY <2>3, <4>1, <4>2 DEF Within
    <3>2. rx'[j] = rx[j] \/ Extended(rx[j], rx'[j], Output(next_seq, n))
      BY <2>1, PublishedFacts
    <3> QED BY <2>3, <2>4, <3>1, <3>2, WithinStays
  <2> QED BY <2>2, <2>4, <2>5, <2>6 DEF Bounded
<1>2. ASSUME ShellExits PROVE Bounded(j)'
  <2>1. Publish(Signal("exit")) /\ Signal("exit") \in Entry
    <3> Signal("exit") \in Entry
      BY Frames, BoundsAssumption DEF OutputKinds
    <3> QED BY <1>2 DEF ShellExits
  <2>2. UNCHANGED <<wire, since, reply>>
    BY <2>1, PublishedFacts
  <2>3. next_seq' \in Nat /\ next_seq <= next_seq'
    BY <1>2, BoundsAssumption DEF ShellExits
  <2>4. Within(wire[j], next_seq') /\ Within(rx[j], next_seq')
    BY <2>3, Fields, WithinGrows DEF Bounded
  <2>5. since[j] <= next_seq' /\ reply[j].lo + reply[j].n <= next_seq'
    <3>1. since[j] \in Nat /\ reply[j].lo \in Nat /\ reply[j].n \in Nat
      BY Fields
    <3> QED BY <2>3, <3>1 DEF Bounded
  <2>6. Within(rx'[j], next_seq')
    <3>1. Within(<<Signal("exit")>>, next_seq')
      <4>1. Len(<<Signal("exit")>>) = 1 /\ <<Signal("exit")>>[1] = Signal("exit")
        OBVIOUS
      <4>2. Signal("exit").t = "exit"
        BY <1>2, BoundsAssumption DEF ShellExits, Output, Signal
      <4> QED BY <2>3, <4>1, <4>2 DEF Within
    <3>2. rx'[j] = rx[j] \/ Extended(rx[j], rx'[j], Signal("exit"))
      BY <2>1, PublishedFacts
    <3> QED BY <2>3, <2>4, <3>1, <3>2, WithinStays
  <2> QED BY <2>2, <2>4, <2>5, <2>6 DEF Bounded
<1>3. ASSUME ShellLost PROVE Bounded(j)'
  BY <1>3 DEF ShellLost, Bounded
<1>4. ASSUME ShellReadsClose PROVE Bounded(j)'
  BY <1>4 DEF ShellReadsClose, Bounded
<1>5. ASSUME ShellCleansUp PROVE Bounded(j)'
  BY <1>5 DEF ShellCleansUp, Bounded
<1>6. ASSUME ReaperTakes PROVE Bounded(j)'
  BY <1>6 DEF ReaperTakes, Bounded
<1>7. ASSUME ReaperTerminates PROVE Bounded(j)'
  BY <1>7 DEF ReaperTerminates, Bounded
<1>8. ASSUME NEW k \in Conns, AttachLooksUp(k) PROVE Bounded(j)'
  <2>1. UNCHANGED <<rx, reply, next_seq>> /\ wire[k] = << >>
    BY <1>8 DEF AttachLooksUp, Attaching
  <2>2. (j # k => wire'[j] = wire[j]) /\ since'[j] \in {0, since[j]}
    BY <1>8 DEF AttachLooksUp, QueuesOK
  <2>3. Within(wire'[j], next_seq)
    <3>1. CASE j = k
      <4>1. wire'[k] = wire[k] \/ wire'[k] = Written(k, <<Signal("gone")>>)
        BY <1>8 DEF AttachLooksUp, QueuesOK
      <4>2. wire'[k] = << >> \/ (Len(wire'[k]) = 1 /\ wire'[k][1].t = "gone")
        BY <2>1, <4>1, GoneFacts
      <4>3. \A i \in 1..Len(wire'[k]) : wire'[k][i].t \notin {"ready", "data"}
        BY <4>2
      <4> QED BY <3>1, <4>3, WithinSignals
    <3>2. CASE j # k
      BY <2>2, <3>2 DEF Bounded
    <3> QED BY <3>1, <3>2
  <2> QED BY <2>1, <2>2, <2>3 DEF Bounded
<1>9. ASSUME NEW k \in Conns, AttachRefused(k) PROVE Bounded(j)'
  <2>1. UNCHANGED <<rx, reply, next_seq>> /\ wire[k] = << >>
    BY <1>9 DEF AttachRefused, Attaching
  <2>2. (j # k => wire'[j] = wire[j]) /\ since'[j] \in {0, since[j]}
    BY <1>9 DEF AttachRefused, QueuesOK
  <2>3. Within(wire'[j], next_seq)
    <3>1. CASE j = k
      <4>1. wire'[k] = wire[k] \/ wire'[k] = Written(k, <<Signal("gone")>>)
        BY <1>9 DEF AttachRefused, QueuesOK
      <4>2. wire'[k] = << >> \/ (Len(wire'[k]) = 1 /\ wire'[k][1].t = "gone")
        BY <2>1, <4>1, GoneFacts
      <4>3. \A i \in 1..Len(wire'[k]) : wire'[k][i].t \notin {"ready", "data"}
        BY <4>2
      <4> QED BY <3>1, <4>3, WithinSignals
    <3>2. CASE j # k
      BY <2>2, <3>2 DEF Bounded
    <3> QED BY <3>1, <3>2
  <2> QED BY <2>1, <2>2, <2>3 DEF Bounded
<1>10. ASSUME NEW k \in Conns, AttachInstalls(k) PROVE Bounded(j)'
  <2>1. UNCHANGED <<rx, wire, next_seq>> /\ since' = [since EXCEPT ![k] = 0]
        /\ reply' = [reply EXCEPT ![k] = ReplayFrom(since[k])]
    BY <1>10 DEF AttachInstalls
  <2>2. since[k] \in Nat /\ since[k] <= next_seq
    BY DEF Bounded
  <2> DEFINE r == ReplayFrom(since[k])
  <2>3. r.lo + r.n = next_seq
    BY <2>2, Replies
  <2> HIDE DEF r
  <2>4. reply' = [reply EXCEPT ![k] = r]
    BY <2>1 DEF r
  <2>5. (j # k => reply'[j] = reply[j]) /\ reply'[k] = r
    BY <2>4 DEF QueuesOK
  <2>6. since'[j] \in {0, since[j]}
    BY <2>1
  <2>7. reply'[j].lo + reply'[j].n <= next_seq
    <3>1. CASE j = k
      BY <2>3, <2>5, <3>1
    <3>2. CASE j # k
      BY <2>5, <3>2 DEF Bounded
    <3> QED BY <3>1, <3>2
  <2> QED BY <2>1, <2>6, <2>7 DEF Bounded
<1>11. ASSUME NEW k \in Conns, AttachReplies(k) PROVE Bounded(j)'
  <2>1. wire[k] = << >>
    BY <1>11 DEF AttachReplies, Attaching
  <2>2. UNCHANGED <<rx, since, next_seq>> /\ (j # k => wire'[j] = wire[j])
        /\ (j # k => reply'[j] = reply[j]) /\ reply'[k] = NoReply
        /\ wire'[k] = Written(k, ReplyFrames(reply[k]))
    BY <1>11 DEF AttachReplies, QueuesOK
  <2>3. Within(wire'[k], next_seq)
    <3>1. CASE link[k] = "up"
      <4>1. Answers(reply[k], wire'[k])
        BY <1>11, <2>1, <3>1, RepliedFacts
      <4>2. reply[k].lo \in Nat /\ reply[k].n \in Nat /\ reply[k].lo + reply[k].n <= next_seq
        BY Fields DEF Bounded
      <4> QED BY <4>1, <4>2, AnswersWithin
    <3>2. CASE link[k] # "up"
      BY <2>2, <3>2 DEF Written, Within
    <3> QED BY <3>1, <3>2
  <2>4. NoReply.lo + NoReply.n <= next_seq
    BY DEF NoReply, Signal
  <2>5. CASE j = k
    BY <2>2, <2>3, <2>4, <2>5 DEF Bounded
  <2>6. CASE j # k
    BY <2>2, <2>6 DEF Bounded
  <2> QED BY <2>5, <2>6
<1>12. ASSUME NEW k \in Conns, HandlesClose(k) PROVE Bounded(j)'
  BY <1>12 DEF HandlesClose, Bounded
<1>13. ASSUME NEW k \in Conns, NoticesDisconnect(k) PROVE Bounded(j)'
  <2>1. UNCHANGED <<rx, reply, next_seq, wire>> /\ since'[j] \in {0, since[j]}
    BY <1>13 DEF NoticesDisconnect
  <2> QED BY <2>1 DEF Bounded
<1>14. ASSUME NEW k \in Conns, MarkerQueued(k) PROVE Bounded(j)'
  <2>1. UNCHANGED <<wire, since, reply, next_seq>> /\ (j # k => rx'[j] = rx[j])
    BY <1>14 DEF MarkerQueued, QueuesOK
  <2>2. rx'[k] = rx[k] \/ rx'[k] = Append(rx[k], Signal("replay"))
    BY <1>14 DEF MarkerQueued, QueuesOK
  <2>3. rx'[k] = rx[k] \/ Extended(rx[k], rx'[k], Signal("replay"))
    <3>1. Signal("replay") \in Entry /\ rx[k] \in Seq(Entry) /\ Len(rx[k]) \in Nat
      BY Frames, Fields DEF OutputKinds
    <3>2. Extended(rx[k], Append(rx[k], Signal("replay")), Signal("replay"))
      BY <3>1, OneMoreExtends
    <3> QED BY <2>2, <3>2
  <2>4. Within(<<Signal("replay")>>, next_seq)
    BY DEF Signal, Within
  <2>5. Within(rx'[k], next_seq)
    <3>1. Within(rx[k], next_seq)
      BY DEF Bounded
    <3> QED BY <2>3, <2>4, <3>1, WithinStays
  <2> QED BY <2>1, <2>5 DEF Bounded
<1>15. ASSUME NEW k \in Conns, PumpForwards(k) PROVE Bounded(j)'
  <2>1. /\ (j # k => wire'[j] = wire[j] /\ rx'[j] = rx[j]) /\ UNCHANGED <<since, reply,
                                                                          next_seq>>
    BY <1>15, ForwardedFacts
  <2>2. CASE j = k
    <3>1. Within(wire[k], next_seq) /\ Within(rx[k], next_seq) /\ Within(<< >>, next_seq)
      BY DEF Bounded, Within
    <3>2. rx'[k] = << >> \/ Consumed(rx[k], rx'[k])
      BY <1>15, ForwardedFacts
    <3>3. Within(rx'[k], next_seq)
      BY <3>1, <3>2, WithinStays
    <3>4. wire'[k] = wire[k] \/ wire'[k] = << >> \/ Extended(wire[k], wire'[k], rx[k][1])
      BY <1>15, ForwardedFacts
    <3>5. Within(<<rx[k][1]>>, next_seq)
      <4>1. Len(rx[k]) \in Nat \ {0}
        BY <1>15, ForwardedFacts
      <4>2. 1 \in 1..Len(rx[k])
        BY <4>1
      <4> DEFINE e == rx[k][1]
      <4>3. /\ e.t = "ready" => e.lo <= next_seq
            /\ e.t = "data" => e.n > 0 /\ e.lo + e.n <= next_seq
        BY <3>1, <4>2 DEF Within
      <4> HIDE DEF e
      <4>4. Within(<<e>>, next_seq)
        BY <4>3 DEF Within
      <4> QED BY <4>4 DEF e
    <3>6. Within(wire'[k], next_seq)
      BY <3>1, <3>4, <3>5, WithinStays
    <3> QED BY <2>1, <2>2, <3>3, <3>6 DEF Bounded
  <2> QED BY <2>1, <2>2 DEF Bounded
<1>16. ASSUME NEW k \in Conns, PumpReadsExit(k) PROVE Bounded(j)'
  <2>1. EndsWith(k, "exit") /\ "exit" \in FrameKinds
    <3>1. EndsWith(k, "exit")
      BY <1>16 DEF PumpReadsExit
    <3> QED BY <3>1 DEF FrameKinds
  <2>0. UNCHANGED <<since, reply, next_seq>>
    BY <1>16 DEF PumpReadsExit
  <2>2. (j # k => wire'[j] = wire[j] /\ rx'[j] = rx[j]) /\ rx'[k] = << >>
        /\ (wire'[k] = << >> \/ EndedWith(wire[k], wire'[k], "exit"))
    BY <2>1, EndedFacts
  <2>3. Within(wire'[k], next_seq) /\ Within(rx'[k], next_seq)
    <3>1. Within(<< >>, next_seq)
      BY DEF Within
    <3>2. Within(wire[k], next_seq)
      BY DEF Bounded
    <3>3. EndedWith(wire[k], wire'[k], "exit") => Within(wire'[k], next_seq)
      BY <3>2, WithinStays
    <3> QED BY <2>2, <3>1, <3>3
  <2> QED BY <2>0, <2>2, <2>3 DEF Bounded
<1>17. ASSUME NEW k \in Conns, PumpReadsMarker(k) PROVE Bounded(j)'
  <2>1. EndsWith(k, "lagged") /\ "lagged" \in FrameKinds
    <3>1. EndsWith(k, "lagged")
      BY <1>17 DEF PumpReadsMarker
    <3> QED BY <3>1 DEF FrameKinds
  <2>0. UNCHANGED <<since, reply, next_seq>>
    BY <1>17 DEF PumpReadsMarker
  <2>2. (j # k => wire'[j] = wire[j] /\ rx'[j] = rx[j]) /\ rx'[k] = << >>
        /\ (wire'[k] = << >> \/ EndedWith(wire[k], wire'[k], "lagged"))
    BY <2>1, EndedFacts
  <2>3. Within(wire'[k], next_seq) /\ Within(rx'[k], next_seq)
    <3>1. Within(<< >>, next_seq)
      BY DEF Within
    <3>2. Within(wire[k], next_seq)
      BY DEF Bounded
    <3>3. EndedWith(wire[k], wire'[k], "lagged") => Within(wire'[k], next_seq)
      BY <3>2, WithinStays
    <3> QED BY <2>2, <3>1, <3>3
  <2> QED BY <2>0, <2>2, <2>3 DEF Bounded
<1>18. ASSUME NEW k \in Conns, PumpSuperseded(k) PROVE Bounded(j)'
  <2>1. EndsWith(k, "superseded") /\ "superseded" \in FrameKinds
    <3>1. EndsWith(k, "superseded")
      BY <1>18 DEF PumpSuperseded
    <3> QED BY <3>1 DEF FrameKinds
  <2>0. UNCHANGED <<since, reply, next_seq>>
    BY <1>18 DEF PumpSuperseded
  <2>2. (j # k => wire'[j] = wire[j] /\ rx'[j] = rx[j]) /\ rx'[k] = << >>
        /\ (wire'[k] = << >> \/ EndedWith(wire[k], wire'[k], "superseded"))
    BY <2>1, EndedFacts
  <2>3. Within(wire'[k], next_seq) /\ Within(rx'[k], next_seq)
    <3>1. Within(<< >>, next_seq)
      BY DEF Within
    <3>2. Within(wire[k], next_seq)
      BY DEF Bounded
    <3>3. EndedWith(wire[k], wire'[k], "superseded") => Within(wire'[k], next_seq)
      BY <3>2, WithinStays
    <3> QED BY <2>2, <3>1, <3>3
  <2> QED BY <2>0, <2>2, <2>3 DEF Bounded
<1>19. ASSUME NEW c \in Clients, GetsReady(c) PROVE Bounded(j)'
  <2>0. Incoming(c, "ready") /\ Consumes(c)
    BY <1>19 DEF GetsReady
  <2>1. UNCHANGED <<rx, since, reply, next_seq>>
    BY <1>19 DEF GetsReady
  <2>2. wire'[j] = wire[j] \/ Consumed(wire[j], wire'[j])
    <3>1. (j # conn[c] => wire'[j] = wire[j]) /\ (j = conn[c] => Consumed(wire[j], wire'[j]))
      BY <2>0, ReadFacts
    <3> QED BY <2>1, <3>1
  <2>3. Within(wire[j], next_seq) /\ Within(<< >>, next_seq)
    <3>1. Within(<< >>, next_seq)
      BY DEF Within
    <3> QED BY <3>1 DEF Bounded
  <2>4. Consumed(wire[j], wire'[j]) => Within(wire'[j], next_seq)
    BY <2>3, WithinStays
  <2> QED BY <2>1, <2>2, <2>3, <2>4 DEF Bounded
<1>20. ASSUME NEW c \in Clients, GetsData(c) PROVE Bounded(j)'
  <2>0. Incoming(c, "data") /\ Consumes(c)
    BY <1>20 DEF GetsData
  <2>1. UNCHANGED <<rx, since, reply, next_seq>>
    BY <1>20 DEF GetsData
  <2>2. wire'[j] = wire[j] \/ Consumed(wire[j], wire'[j])
    <3>1. (j # conn[c] => wire'[j] = wire[j]) /\ (j = conn[c] => Consumed(wire[j], wire'[j]))
      BY <2>0, ReadFacts
    <3> QED BY <2>1, <3>1
  <2>3. Within(wire[j], next_seq) /\ Within(<< >>, next_seq)
    <3>1. Within(<< >>, next_seq)
      BY DEF Within
    <3> QED BY <3>1 DEF Bounded
  <2>4. Consumed(wire[j], wire'[j]) => Within(wire'[j], next_seq)
    BY <2>3, WithinStays
  <2> QED BY <2>1, <2>2, <2>3, <2>4 DEF Bounded
<1>21. ASSUME NEW c \in Clients, GetsTruncated(c) PROVE Bounded(j)'
  <2>0. Incoming(c, "truncated") /\ Consumes(c)
    BY <1>21 DEF GetsTruncated
  <2>1. UNCHANGED <<rx, since, reply, next_seq>>
    BY <1>21 DEF GetsTruncated
  <2>2. wire'[j] = wire[j] \/ Consumed(wire[j], wire'[j])
    <3>1. (j # conn[c] => wire'[j] = wire[j]) /\ (j = conn[c] => Consumed(wire[j], wire'[j]))
      BY <2>0, ReadFacts
    <3> QED BY <2>1, <3>1
  <2>3. Within(wire[j], next_seq) /\ Within(<< >>, next_seq)
    <3>1. Within(<< >>, next_seq)
      BY DEF Within
    <3> QED BY <3>1 DEF Bounded
  <2>4. Consumed(wire[j], wire'[j]) => Within(wire'[j], next_seq)
    BY <2>3, WithinStays
  <2> QED BY <2>1, <2>2, <2>3, <2>4 DEF Bounded
<1>22. ASSUME NEW c \in Clients, GetsFinal(c) PROVE Bounded(j)'
  <2>0. PICK t \in FrameKinds : Incoming(c, t)
    BY <1>22 DEF GetsFinal, FrameKinds
  <2>1. UNCHANGED <<rx, since, reply, next_seq>>
    BY <1>22 DEF GetsFinal
  <2>2. wire'[j] = wire[j] \/ wire'[j] = << >> \/ Consumed(wire[j], wire'[j])
    <3>1. CASE AppClient
      <4>1. conn[c] # Nobody /\ Hangs(c)
        BY <1>22, <2>0, <3>1 DEF GetsFinal, Incoming
      <4> QED BY <2>1, <4>1, HungFacts
    <3>2. CASE ~AppClient
      <4>0. Consumes(c)
        BY <1>22, <3>2 DEF GetsFinal
      <4>1. (j # conn[c] => wire'[j] = wire[j]) /\ (j = conn[c] => Consumed(wire[j], wire'[j]))
        BY <2>0, <4>0, ReadFacts
      <4> QED BY <2>1, <4>1
    <3> QED BY <3>1, <3>2
  <2>3. Within(wire[j], next_seq) /\ Within(<< >>, next_seq)
    <3>1. Within(<< >>, next_seq)
      BY DEF Within
    <3> QED BY <3>1 DEF Bounded
  <2>4. Consumed(wire[j], wire'[j]) => Within(wire'[j], next_seq)
    BY <2>3, WithinStays
  <2> QED BY <2>1, <2>2, <2>3, <2>4 DEF Bounded
<1>23. ASSUME NEW c \in Clients, GetsLagged(c) PROVE Bounded(j)'
  <2>0. Incoming(c, "lagged") /\ Consumes(c)
    BY <1>23 DEF GetsLagged
  <2>1. UNCHANGED <<rx, since, reply, next_seq>>
    BY <1>23 DEF GetsLagged
  <2>2. wire'[j] = wire[j] \/ Consumed(wire[j], wire'[j])
    <3>1. (j # conn[c] => wire'[j] = wire[j]) /\ (j = conn[c] => Consumed(wire[j], wire'[j]))
      BY <2>0, ReadFacts
    <3> QED BY <2>1, <3>1
  <2>3. Within(wire[j], next_seq) /\ Within(<< >>, next_seq)
    <3>1. Within(<< >>, next_seq)
      BY DEF Within
    <3> QED BY <3>1 DEF Bounded
  <2>4. Consumed(wire[j], wire'[j]) => Within(wire'[j], next_seq)
    BY <2>3, WithinStays
  <2> QED BY <2>1, <2>2, <2>3, <2>4 DEF Bounded
<1>24. ASSUME NEW c \in Clients, GetsClose(c) PROVE Bounded(j)'
  <2>1. UNCHANGED <<rx, since, reply, next_seq>>
    BY <1>24 DEF GetsClose
  <2>2. wire'[j] = wire[j] \/ wire'[j] = << >>
    BY <1>24, HungFacts DEF GetsClose, Incoming
  <2>3. Within(wire[j], next_seq) /\ Within(<< >>, next_seq)
    <3>1. Within(<< >>, next_seq)
      BY DEF Within
    <3> QED BY <3>1 DEF Bounded
  <2>4. Consumed(wire[j], wire'[j]) => Within(wire'[j], next_seq)
    BY <2>3, WithinStays
  <2> QED BY <2>1, <2>2, <2>3, <2>4 DEF Bounded
<1>25. ASSUME NEW c \in Clients, Paints(c) PROVE Bounded(j)'
  BY <1>25 DEF Paints, Bounded
<1>26. ASSUME NEW c \in Clients, Reconnects(c) PROVE Bounded(j)'
  <2>1. PICK k \in Conns : OpensSocket(c, k)
    BY <1>26 DEF Reconnects
  <2>2. UNCHANGED <<rx, reply, next_seq, wire>> /\ since' = [since EXCEPT ![k] = rendered[c]]
    BY <2>1 DEF OpensSocket
  <2>3. rendered[c] <= next_seq
    BY DEF Behind
  <2>4. since'[j] = since[j] \/ since'[j] = rendered[c]
    BY <2>2
  <2> QED BY <2>2, <2>3, <2>4 DEF Bounded
<1>27. ASSUME NEW c \in Clients, Resumes(c) PROVE Bounded(j)'
  <2>1. PICK k \in Conns : OpensSocket(c, k)
    BY <1>27 DEF Resumes
  <2>2. UNCHANGED <<rx, reply, next_seq, wire>> /\ since' = [since EXCEPT ![k] = rendered[c]]
    BY <2>1 DEF OpensSocket
  <2>3. rendered[c] <= next_seq
    BY DEF Behind
  <2>4. since'[j] = since[j] \/ since'[j] = rendered[c]
    BY <2>2
  <2> QED BY <2>2, <2>3, <2>4 DEF Bounded
<1>28. ASSUME NEW c \in Clients, UserCloses(c) PROVE Bounded(j)'
  <2>1. UNCHANGED <<rx, since, reply, next_seq>>
    BY <1>28 DEF UserCloses
  <2>2. wire'[j] = wire[j] \/ wire'[j] = << >>
    BY <1>28, HungFacts DEF UserCloses, Incoming
  <2>3. Within(wire[j], next_seq) /\ Within(<< >>, next_seq)
    <3>1. Within(<< >>, next_seq)
      BY DEF Within
    <3> QED BY <3>1 DEF Bounded
  <2>4. Consumed(wire[j], wire'[j]) => Within(wire'[j], next_seq)
    BY <2>3, WithinStays
  <2> QED BY <2>1, <2>2, <2>3, <2>4 DEF Bounded
<1>29. ASSUME NEW c \in Clients, LinkDrops(c) PROVE Bounded(j)'
  <2>1. UNCHANGED <<rx, since, reply, next_seq>>
    BY <1>29 DEF LinkDrops
  <2>2. wire'[j] = wire[j] \/ wire'[j] = << >>
    BY <1>29, HungFacts DEF LinkDrops, Incoming
  <2>3. Within(wire[j], next_seq) /\ Within(<< >>, next_seq)
    <3>1. Within(<< >>, next_seq)
      BY DEF Within
    <3> QED BY <3>1 DEF Bounded
  <2>4. Consumed(wire[j], wire'[j]) => Within(wire'[j], next_seq)
    BY <2>3, WithinStays
  <2> QED BY <2>1, <2>2, <2>3, <2>4 DEF Bounded
<1>30. CASE UNCHANGED vars
  BY <1>30 DEF vars, Bounded
<1> QED
  BY <1>1, <1>2, <1>3, <1>4, <1>5, <1>6, <1>7, <1>8, <1>9, <1>10, <1>11, <1>12, <1>13,
     <1>14, <1>15, <1>16, <1>17, <1>18, <1>19, <1>20, <1>21, <1>22, <1>23, <1>24,
     <1>25, <1>26, <1>27, <1>28, <1>29, <1>30
  DEF Next, ShellTask, Reaper, Handler, Pump, Receives, Client

-------------------------------------------------------------------------------
(* A client's part: its counter, the chain behind it and its screen.       *)

(* What a client's part of the invariant reads. *)
ClientOK(d) == Behind(d) /\ Resuming(d) /\ Chained(d) /\ Screened(d)

(* A step that leaves a client, its link and what is published to it alone. *)
Undisturbed(d) ==
  /\ conn'[d] = conn[d] /\ mode'[d] = mode[d] /\ rendered'[d] = rendered[d]
  /\ pending'[d] = pending[d] /\ shown'[d] = shown[d]
  /\ next_seq \in Nat /\ next_seq' \in Nat /\ next_seq <= next_seq'
  /\ conn[d] # Nobody =>
       /\ wire'[conn[d]] = wire[conn[d]] /\ rx'[conn[d]] = rx[conn[d]]
       /\ reply'[conn[d]] = reply[conn[d]] /\ pump'[conn[d]] = pump[conn[d]]
       /\ \/ phase'[conn[d]] = phase[conn[d]] /\ since'[conn[d]] = since[conn[d]]
          \/ phase'[conn[d]] \notin {"attaching", "found"}
       /\ Owns(conn[d])' => Owns(conn[d]) /\ next_seq' = next_seq

LEMMA UndisturbedKeeps ==
  ASSUME TypeOK, NEW d \in Clients, Undisturbed(d), ClientOK(d)
  PROVE  ClientOK(d)'
<1> DEFINE k == conn[d]
<1>1. /\ k' = k /\ mode'[d] = mode[d] /\ rendered'[d] = rendered[d]
      /\ pending'[d] = pending[d] /\ shown'[d] = shown[d]
      /\ k # Nobody => /\ wire'[k] = wire[k] /\ rx'[k] = rx[k]
                       /\ reply'[k] = reply[k] /\ pump'[k] = pump[k]
  BY DEF Undisturbed
<1>2. Behind(d)'
  <2>1. rendered[d] \in Nat /\ pending[d] \in Nat /\ next_seq <= next_seq'
        /\ next_seq \in Nat /\ next_seq' \in Nat
    BY DEF TypeOK, ControlOK, Undisturbed
  <2> QED BY <1>1, <2>1 DEF Behind, ClientOK
<1>3. Resuming(d)'
  BY <1>1 DEF Undisturbed, Resuming, ClientOK
<1>4. Chained(d)'
  <2> SUFFICES ASSUME k # Nobody PROVE Chained(d)'
    BY <1>1 DEF Chained
  <2>1. Base(d)' = Base(d) /\ Follows(d)' = Follows(d) /\ (Attached(k)' <=> Attached(k))
    <3>1. NoReply' = NoReply
      OBVIOUS
    <3> QED BY <1>1, <3>1 DEF Base, Follows, Attached
  <2>2. Owns(k)' => Owns(k) /\ next_seq' = next_seq
    BY <1>1 DEF Undisturbed
  <2> QED BY <1>1, <2>1, <2>2 DEF Chained, ClientOK
<1>5. Screened(d)'
  BY <1>1 DEF Undisturbed, Screened, OverIsOver, WipePending, Joined, Joins, ClientOK
<1> QED BY <1>2, <1>3, <1>4, <1>5 DEF ClientOK

(* A connection, and the client that uses it. *)
Serves(k, d) ==
  /\ k \in Conns /\ k # Nobody /\ conn[d] = k /\ link[k] = "up"
  /\ Attaching(k) /\ Pumping(k) /\ Ordering(k) /\ Bounded(k)

(* The client's own state in a step of the agent. *)
LEMMA AgentLeavesClient ==
  ASSUME TypeOK, NEW k, NEW d \in Clients, ClientOK(d), Serves(k, d),
         UNCHANGED <<clientVars, next_seq>>
  PROVE  /\ Behind(d)'
         /\ (Joined(d)' <=> Joined(d))
         /\ conn'[d] = k /\ mode'[d] = mode[d] /\ rendered'[d] = rendered[d]
         /\ pending'[d] = pending[d] /\ shown'[d] = shown[d]
         /\ rendered[d] \in Nat /\ pending[d] \in Nat /\ next_seq \in Nat
         /\ wire[k] \in Seq(Frame) /\ rx[k] \in Seq(Entry)
         /\ (wire[k] = << >> <=> Len(wire[k]) = 0) /\ (rx[k] = << >> <=> Len(rx[k]) = 0)
<1>1. wire[k] \in Seq(Frame) /\ rx[k] \in Seq(Entry)
  BY DEF TypeOK, QueuesOK, Serves
<1>2. (wire[k] = << >> <=> Len(wire[k]) = 0) /\ (rx[k] = << >> <=> Len(rx[k]) = 0)
  BY <1>1, EmptySeq
<1>3. Behind(d)' /\ (Joined(d)' <=> Joined(d))
  BY DEF ClientOK, Behind, Joined, Joins, clientVars
<1> QED BY <1>1, <1>2, <1>3 DEF clientVars, Serves, TypeOK, ControlOK

(* The lookup finds the session, or the client is told it is gone. *)
LEMMA LookedUpClient ==
  ASSUME TypeOK, NEW k, NEW d \in Clients, ClientOK(d), Serves(k, d),
         AttachLooksUp(k) \/ AttachRefused(k)
  PROVE  ClientOK(d)'
<1>0. UNCHANGED <<clientVars, next_seq, current, replay_requested, shell, reply, rx, pump>>
  BY DEF AttachLooksUp, AttachRefused, sessionVars, shellVars, pumpVars
<1>1. /\ Behind(d)' /\ (Joined(d)' <=> Joined(d)) /\ conn'[d] = k /\ mode'[d] = mode[d]
      /\ rendered'[d] = rendered[d] /\ pending'[d] = pending[d]
  BY <1>0, AgentLeavesClient
<1>2. /\ phase[k] \in {"attaching", "found"} /\ Unattached(k) /\ wire[k] = << >> /\ rx[k] = << >>
  BY DEF AttachLooksUp, AttachRefused, Serves, Attaching
<1>3. ~Attached(k) /\ ~(Attached(k)') /\ reply'[k] = NoReply /\ pump'[k] = "none"
  BY <1>0, <1>2 DEF Unattached, Attached
<1>4. wire'[k] = << >> \/ (Len(wire'[k]) = 1 /\ wire'[k][1].t = "gone")
  <2>1. wire'[k] = wire[k] \/ wire'[k] = Written(k, <<Signal("gone")>>)
    BY DEF AttachLooksUp, AttachRefused, TypeOK, QueuesOK, Serves
  <2>2. k \in Conns
    BY DEF Serves
  <2> QED BY <1>2, <2>1, <2>2, GoneFacts
<1>5. \A i \in 1..Len(wire'[k]) : i = 1 /\ wire'[k][i].t = "gone"
  <2>1. CASE wire'[k] = << >>
    BY <2>1
  <2>2. CASE Len(wire'[k]) = 1 /\ wire'[k][1].t = "gone"
    <3>1. \A i \in 1..Len(wire'[k]) : i = 1
      BY <2>2
    <3> QED BY <2>2, <3>1
  <2> QED BY <1>4, <2>1, <2>2
<1>6. phase'[k] \in {"attaching", "found"} => since'[k] = since[k]
  BY DEF AttachLooksUp, AttachRefused, TypeOK, ControlOK, Serves
<1>7. Resuming(d)'
  BY <1>0, <1>1, <1>2, <1>3, <1>4, <1>5, <1>6 DEF Resuming, ClientOK, Serves
<1>8. Chained(d)'
  <2>1. Contiguous(wire'[k], Base(d)')
    BY <1>5, NoChain
  <2> QED BY <1>1, <1>3, <2>1 DEF Chained
<1>9. Screened(d)'
  <2>1. mode[d] # "ended" /\ ~WipePending(d)
    BY <1>2 DEF ClientOK, Screened, OverIsOver, Serves, WipePending
  <2> QED BY <1>1, <2>1 DEF Screened, ClientOK
<1> QED BY <1>1, <1>7, <1>8, <1>9 DEF ClientOK

(* The attach reads what is missing and takes the session over. *)
LEMMA InstalledClient ==
  ASSUME TypeOK, NEW k, NEW d \in Clients, ClientOK(d), Serves(k, d), AttachInstalls(k)
  PROVE  ClientOK(d)'
<1>0. UNCHANGED <<clientVars, next_seq, rx, pump, wire, shell>>
  BY DEF AttachInstalls, pumpVars, linkVars, shellVars
<1>1. /\ Behind(d)' /\ (Joined(d)' <=> Joined(d)) /\ conn'[d] = k /\ mode'[d] = mode[d]
      /\ rendered'[d] = rendered[d] /\ pending'[d] = pending[d]
      /\ rendered[d] \in Nat /\ pending[d] \in Nat /\ next_seq \in Nat
  BY <1>0, AgentLeavesClient
<1>2. phase[k] = "found" /\ Unattached(k) /\ wire[k] = << >> /\ rx[k] = << >>
  BY DEF AttachInstalls, Serves, Attaching
<1>3. since[k] = rendered[d] /\ pending[d] = 0 /\ since[k] <= next_seq /\ since[k] \in Nat
  BY <1>2, <1>1 DEF Serves, Bounded, ClientOK, Resuming, TypeOK, ControlOK
<1> DEFINE r == ReplayFrom(since[k])
<1>4. /\ r.t \in {"gap", "cut"} /\ (r.t = "gap" => r.lo = since[k]) /\ r.lo + r.n = next_seq
  BY <1>3, Replies
<1>5. reply'[k] = r /\ phase'[k] = "running"
  BY DEF AttachInstalls, TypeOK, QueuesOK, ControlOK, Serves
<1>6. r # NoReply
  BY <1>4 DEF NoReply, Signal
<1> HIDE DEF r
<1>7. Resuming(d)'
  <2>1. NoReply' = NoReply /\ (r.t # "cut" => r.lo = rendered[d])
    BY <1>3, <1>4
  <2> QED BY <1>0, <1>1, <1>2, <1>3, <1>5, <2>1 DEF Resuming
<1>8. Chained(d)'
  <2>1. Follows(d)' = next_seq
    BY <1>1, <1>4, <1>5, <1>6 DEF Follows
  <2>2. wire'[k] = << >> /\ rx'[k] = << >>
    BY <1>0, <1>2
  <2>3. EndOf(rx'[k], Follows(d)') = next_seq
    BY <2>1, <2>2 DEF EndOf
  <2>4. Contiguous(wire'[k], Base(d)') /\ Contiguous(rx'[k], Follows(d)')
    BY <2>2, NoChain
  <2> QED BY <1>0, <1>1, <2>3, <2>4 DEF Chained
<1>9. Screened(d)'
  <2>1. mode[d] # "ended" /\ ~WipePending(d)
    BY <1>2 DEF ClientOK, Screened, OverIsOver, Serves, WipePending
  <2> QED BY <1>1, <2>1 DEF Screened, ClientOK
<1> QED BY <1>1, <1>7, <1>8, <1>9 DEF ClientOK

(* The answer is written and the pump started. *)
LEMMA RepliedClient ==
  ASSUME TypeOK, NEW k, NEW d \in Clients, ClientOK(d), Serves(k, d), AttachReplies(k)
  PROVE  ClientOK(d)'
<1>0. /\ UNCHANGED <<clientVars, next_seq, current, replay_requested, shell, rx, phase, since>>
      /\ reply[k] # NoReply /\ reply'[k] = NoReply /\ pump'[k] = "on"
  BY DEF AttachReplies, sessionVars, shellVars, TypeOK, QueuesOK, ControlOK, Serves
<1>1. /\ Behind(d)' /\ (Joined(d)' <=> Joined(d)) /\ conn'[d] = k /\ mode'[d] = mode[d]
      /\ rendered'[d] = rendered[d] /\ pending'[d] = pending[d]
  BY <1>0, AgentLeavesClient
<1>2. k \in Conns /\ conn[d] = k /\ k # Nobody /\ wire[k] = << >> /\ link[k] = "up" /\ pump[k] = "none"
  BY <1>0 DEF Serves, Attaching
<1>3. Answers(reply[k], wire'[k])
  BY <1>2, RepliedFacts
<1>4. reply[k].lo \in Nat /\ reply[k].n \in Nat
  BY <1>2, Fields DEF TypeOK
<1>5. /\ \A at : Starts(wire'[k], at) = reply[k].lo
      /\ Contiguous(wire'[k], reply[k].lo) /\ EndOf(wire'[k], reply[k].lo) = reply[k].lo + reply[k].n
      /\ wire'[k] # << >>
  BY <1>3, <1>4, ChainOfAnswer
<1>6. Base(d)' = reply[k].lo /\ Follows(d)' = reply[k].lo + reply[k].n /\ Follows(d) = reply[k].lo + reply[k].n
  <2>1. Base(d)' = reply[k].lo
    BY <1>1, <1>5 DEF Base
  <2>2. Follows(d) = reply[k].lo + reply[k].n
    BY <1>0, <1>2 DEF Follows
  <2>3. Follows(d)' = EndOf(wire'[k], Base(d)')
    BY <1>0, <1>1 DEF Follows
  <2> QED BY <1>5, <2>1, <2>2, <2>3
<1>7. Resuming(d)'
  <2>1. /\ pending[d] = 0 /\ (reply[k].t # "cut" => reply[k].lo = rendered[d])
        /\ phase[k] \in {"attaching", "found"} => since[k] = rendered[d]
    BY <1>0, <1>2 DEF ClientOK, Resuming
  <2>2. /\ wire'[k][1].lo = reply[k].lo
        /\ reply[k].t = "cut" => Len(wire'[k]) > 1 /\ wire'[k][2].t = "truncated"
    BY <1>3 DEF Answers
  <2> QED BY <1>0, <1>1, <2>1, <2>2 DEF Resuming
<1>8. Chained(d)'
  <2>1. Attached(k)
    BY <1>0 DEF Attached
  <2>2. /\ Contiguous(rx[k], reply[k].lo + reply[k].n)
        /\ Owns(k) => EndOf(rx[k], reply[k].lo + reply[k].n) = next_seq
    BY <1>2, <1>6, <2>1 DEF ClientOK, Chained
  <2>3. Owns(k)' => Owns(k)
    BY <1>0 DEF Owns
  <2> QED BY <1>0, <1>1, <1>5, <1>6, <2>2, <2>3 DEF Chained
<1>9. Screened(d)'
  <2>1. mode[d] # "ended" /\ ~WipePending(d)
    BY <1>0, <1>2 DEF ClientOK, Screened, OverIsOver, WipePending
  <2> QED BY <1>1, <2>1 DEF Screened, ClientOK
<1> QED BY <1>1, <1>7, <1>8, <1>9 DEF ClientOK

(* The connection passes a chunk on, *)
LEMMA ForwardedClient ==
  ASSUME TypeOK, LinksOK, NEW k, NEW d \in Clients, ClientOK(d), Serves(k, d), PumpForwards(k)
  PROVE  ClientOK(d)'
<1>00. k \in Conns /\ conn[d] = k /\ k # Nobody /\ link[k] = "up" /\ Ordering(k) /\ Pumping(k) /\ Attaching(k)
  BY DEF Serves
<1>0. /\ UNCHANGED <<clientVars, next_seq, current, replay_requested, shell, phase,
                     since, reply, pump>>
      /\ pump[k] = "on" /\ rx[k][1].t = "data" /\ Consumed(rx[k], rx'[k])
      /\ Extended(wire[k], wire'[k], rx[k][1])
  <2>1. link[k] # "gone"
    BY <1>00
  <2>2. UNCHANGED pump
    BY <2>1 DEF PumpForwards
  <2> QED BY <1>00, <2>1, <2>2, ForwardedFacts DEF sessionVars, shellVars, handlerVars, PumpForwards
<1>1. /\ Behind(d)' /\ (Joined(d)' <=> Joined(d)) /\ conn'[d] = k /\ mode'[d] = mode[d]
      /\ rendered'[d] = rendered[d] /\ pending'[d] = pending[d]
      /\ (wire[k] = << >> <=> Len(wire[k]) = 0)
  BY <1>0, AgentLeavesClient
<1>2. reply[k] = NoReply /\ reply'[k] = NoReply /\ Attached(k) /\ pump'[k] = "on"
  BY <1>00, <1>0 DEF Attaching, Attached
<1> DEFINE b == Base(d)
           e == rx[k][1]
<1>3. Contiguous(wire[k], b) /\ Contiguous(rx[k], EndOf(wire[k], b))
      /\ (Owns(k) => EndOf(rx[k], EndOf(wire[k], b)) = next_seq)
  <2>1. Follows(d) = EndOf(wire[k], b)
    BY <1>00, <1>2 DEF Follows
  <2> QED BY <1>00, <1>2, <2>1 DEF ClientOK, Chained
<1>4. /\ e.lo = EndOf(wire[k], b) /\ Contiguous(rx'[k], e.lo + e.n)
      /\ (\A i \in 1..Len(rx[k]) : rx[k][i].t = "data")
            => EndOf(rx'[k], e.lo + e.n) = EndOf(rx[k], EndOf(wire[k], b))
  BY <1>00, <1>0, <1>3, ChainLosesData DEF Ordering
<1>5. /\ Contiguous(wire'[k], b) /\ EndOf(wire'[k], b) = e.lo + e.n
      /\ (\A at : Starts(wire'[k], at) = Starts(wire[k], at))
      /\ wire'[k] # << >> /\ (wire[k] # << >> => wire'[k][1] = wire[k][1])
      /\ (wire[k] = << >> => wire'[k][1] = e)
  <2> DEFINE w == wire[k]
             v == wire'[k]
  <2>1. Extended(w, v, e) /\ Contiguous(w, b) /\ (w = << >> <=> Len(w) = 0) /\ e.t = "data"
        /\ e.lo = EndOf(w, b)
    BY <1>0, <1>1, <1>3, <1>4
  <2> HIDE DEF w, v, e, b
  <2>2. /\ Contiguous(v, b) /\ EndOf(v, b) = e.lo + e.n
        /\ (\A at : Starts(v, at) = Starts(w, at))
        /\ v # << >> /\ (w # << >> => v[1] = w[1]) /\ (w = << >> => v[1] = e)
    BY <2>1, ChainGrows
  <2> QED BY <2>2 DEF w, v
<1>6. Base(d)' = b /\ Follows(d)' = e.lo + e.n
  <2>1. Base(d)' = b
    BY <1>00, <1>1, <1>5 DEF Base
  <2> QED BY <1>1, <1>2, <1>5, <2>1 DEF Follows
<1>7. Resuming(d)'
  <2>1. \A i \in 1..Len(wire'[k]) : (i \in 1..Len(wire[k]) /\ wire'[k][i] = wire[k][i]) \/ wire'[k][i] = e
    BY <1>0 DEF Extended
  <2>2. \A i \in 1..Len(wire'[k]) : wire'[k][i].t = "truncated" => pending[d] = 0
    BY <1>00, <1>0, <2>1 DEF ClientOK, Resuming
  <2>3. wire'[k][1].t = "ready" => wire[k] # << >> /\ wire'[k][1] = wire[k][1]
    BY <1>0, <1>5
  <2>4. Len(wire[k]) > 1 => Len(wire'[k]) > 1 /\ wire'[k][2] = wire[k][2]
    BY <1>0 DEF Extended
  <2> QED BY <1>00, <1>0, <1>1, <1>2, <2>2, <2>3, <2>4 DEF ClientOK, Resuming
<1>8. Chained(d)'
  <2>1. Owns(k)' => Owns(k) /\ next_seq' = next_seq
    BY <1>0 DEF Owns
  <2>2. Owns(k) => \A i \in 1..Len(rx[k]) : rx[k][i].t = "data"
    BY <1>00 DEF Pumping, Owns
  <2> QED BY <1>00, <1>1, <1>3, <1>4, <1>5, <1>6, <2>1, <2>2 DEF Chained
<1>9. Screened(d)'
  <2>1. mode[d] # "ended"
    BY <1>00, <1>0 DEF ClientOK, Screened, OverIsOver
  <2>2. WipePending(d) => WipePending(d)'
    BY <1>00, <1>1, <1>5 DEF WipePending
  <2> QED BY <1>1, <2>1, <2>2 DEF Screened, ClientOK
<1> QED BY <1>1, <1>7, <1>8, <1>9 DEF ClientOK

(* or says why no more will come. *)
LEMMA EndedClient ==
  ASSUME TypeOK, NEW k, NEW d \in Clients, ClientOK(d), Serves(k, d),
         NEW t \in {"exit", "lagged", "superseded"}, EndsWith(k, t), pump[k] = "on",
         UNCHANGED <<clientVars, next_seq, phase, since, reply>>
  PROVE  ClientOK(d)'
<1>00. k \in Conns /\ conn[d] = k /\ k # Nobody /\ link[k] = "up" /\ Attaching(k) /\ t \in FrameKinds
  BY DEF Serves, FrameKinds
<1>0. pump'[k] = "ended" /\ EndedWith(wire[k], wire'[k], t)
  BY <1>00, EndedFacts
<1>1. /\ Behind(d)' /\ (Joined(d)' <=> Joined(d)) /\ conn'[d] = k /\ mode'[d] = mode[d]
      /\ rendered'[d] = rendered[d] /\ pending'[d] = pending[d]
      /\ (wire[k] = << >> <=> Len(wire[k]) = 0)
  BY AgentLeavesClient
<1>2. reply'[k] = NoReply /\ ~(Attached(k)')
  BY <1>00, <1>0 DEF Attaching, Attached
<1> DEFINE b == Base(d)
<1>5. /\ Contiguous(wire'[k], b)
      /\ (\A at : Starts(wire'[k], at) = Starts(wire[k], at))
      /\ wire'[k] # << >> /\ (wire[k] # << >> => wire'[k][1] = wire[k][1])
      /\ (wire[k] = << >> => wire'[k][1].t = t)
  <2> DEFINE w == wire[k]
             v == wire'[k]
  <2>1. EndedWith(w, v, t) /\ Contiguous(w, b) /\ (w = << >> <=> Len(w) = 0)
    BY <1>00, <1>0, <1>1 DEF ClientOK, Chained
  <2> HIDE DEF w, v, b
  <2>2. /\ Contiguous(v, b)
        /\ (\A at : Starts(v, at) = Starts(w, at))
        /\ v # << >> /\ (w # << >> => v[1] = w[1]) /\ (w = << >> => v[1].t = t)
    BY <2>1, ChainEnds
  <2> QED BY <2>2 DEF w, v
<1>6. Base(d)' = b
  BY <1>00, <1>1, <1>5 DEF Base
<1>7. Resuming(d)'
  <2>1. \A i \in 1..Len(wire'[k]) : \/ i \in 1..Len(wire[k]) /\ wire'[k][i] = wire[k][i]
                                    \/ wire'[k][i].t \in {t, "close"}
    BY SMTT(30), <1>0 DEF EndedWith, Signal
  <2>2. \A i \in 1..Len(wire'[k]) : wire'[k][i].t = "truncated" => pending[d] = 0
    BY <1>00, <2>1 DEF ClientOK, Resuming
  <2>3. wire'[k][1].t = "ready" => wire[k] # << >> /\ wire'[k][1] = wire[k][1]
    BY <1>5
  <2>4. Len(wire[k]) > 1 => Len(wire'[k]) > 1 /\ wire'[k][2] = wire[k][2]
    BY <1>0 DEF EndedWith
  <2> QED BY <1>00, <1>1, <1>2, <2>2, <2>3, <2>4 DEF ClientOK, Resuming
<1>8. Chained(d)'
  BY <1>1, <1>2, <1>5, <1>6 DEF Chained
<1>9. Screened(d)'
  <2>1. mode[d] # "ended"
    BY <1>00 DEF ClientOK, Screened, OverIsOver
  <2>2. WipePending(d) => WipePending(d)'
    BY <1>00, <1>1, <1>5 DEF WipePending
  <2> QED BY <1>1, <2>1, <2>2 DEF Screened, ClientOK
<1> QED BY <1>1, <1>7, <1>8, <1>9 DEF ClientOK

(* A marker joins a queue that is not published to. *)
LEMMA MarkedClient ==
  ASSUME TypeOK, NEW k, NEW d \in Clients, ClientOK(d), Serves(k, d), MarkerQueued(k)
  PROVE  ClientOK(d)'
<1>00. k \in Conns /\ conn[d] = k /\ k # Nobody
  BY DEF Serves
<1>0. /\ UNCHANGED <<clientVars, next_seq, current, replay_requested, shell, phase,
                     since, reply, pump, wire>>
      /\ marker[k]
  BY DEF MarkerQueued, sessionVars, shellVars, handlerVars, linkVars
<1>1. /\ Behind(d)' /\ (Joined(d)' <=> Joined(d)) /\ conn'[d] = k /\ mode'[d] = mode[d]
      /\ rendered'[d] = rendered[d] /\ pending'[d] = pending[d]
      /\ (rx[k] = << >> <=> Len(rx[k]) = 0)
  BY <1>0, AgentLeavesClient
<1>2. ~Owns(k) /\ ~(Owns(k)')
  BY <1>0 DEF Serves, Pumping, Owns
<1>3. rx'[k] = rx[k] \/ Extended(rx[k], rx'[k], Signal("replay"))
  <2>1. rx'[k] = rx[k] \/ rx'[k] = Append(rx[k], Signal("replay"))
    BY <1>00 DEF MarkerQueued, TypeOK, QueuesOK
  <2>2. Signal("replay") \in Entry /\ rx[k] \in Seq(Entry) /\ Len(rx[k]) \in Nat
    BY <1>00, Frames, Fields DEF OutputKinds, TypeOK
  <2>3. Extended(rx[k], Append(rx[k], Signal("replay")), Signal("replay"))
    BY <2>2, OneMoreExtends
  <2> QED BY <2>1, <2>3
<1>4. Base(d)' = Base(d) /\ Follows(d)' = Follows(d) /\ (Attached(k)' <=> Attached(k))
  <2>1. NoReply' = NoReply
    OBVIOUS
  <2> QED BY <1>00, <1>0, <1>1, <2>1 DEF Base, Follows, Attached
<1>5. Attached(k) => Contiguous(rx'[k], Follows(d))
  <2> DEFINE x == rx[k]
             y == rx'[k]
             f == Follows(d)
  <2>1. /\ (y = x \/ Extended(x, y, Signal("replay"))) /\ (x = << >> <=> Len(x) = 0)
        /\ (Attached(k) => Contiguous(x, f)) /\ Signal("replay").t # "data"
    BY <1>00, <1>1, <1>3 DEF ClientOK, Chained, Signal
  <2> HIDE DEF x, y, f
  <2>2. Attached(k) => Contiguous(y, f)
    BY <2>1, ChainGrows
  <2> QED BY <2>2 DEF y, f
<1>7. Resuming(d)'
  BY <1>00, <1>0, <1>1 DEF Resuming, ClientOK
<1>8. Chained(d)'
  BY <1>00, <1>0, <1>1, <1>2, <1>4, <1>5 DEF Chained, ClientOK
<1>9. Screened(d)'
  BY <1>00, <1>0, <1>1 DEF Screened, ClientOK, OverIsOver, WipePending
<1> QED BY <1>1, <1>7, <1>8, <1>9 DEF ClientOK

(* What the shell writes joins the queue of the connection that owns the    *)
(* session, where the chain ends.                                          *)
LEMMA PublishedClient ==
  ASSUME TypeOK, NEW k, NEW d \in Clients, ClientOK(d), Serves(k, d),
         NEW out \in Entry, Publish(out), shell = "running",
         \/ \E n \in Nat : out = Output(next_seq, n) /\ next_seq' = next_seq + n /\ shell' = shell
         \/ out = Signal("exit") /\ next_seq' = next_seq /\ shell' = "ending"
  PROVE  ClientOK(d)'
<1>00. k \in Conns /\ conn[d] = k /\ k # Nobody /\ next_seq \in Nat
  BY DEF Serves, TypeOK, ControlOK
<1>0. UNCHANGED <<phase, since, reply, pump, wire, conn, mode, rendered, pending, shown>>
  BY PublishedFacts DEF handlerVars, linkVars, clientVars
<1>1. next_seq' \in Nat /\ next_seq <= next_seq'
  BY <1>00
<1>2. CASE rx'[k] = rx[k] /\ (Owns(k)' => Owns(k) /\ next_seq' = next_seq)
  <2>1. Undisturbed(d)
    BY <1>00, <1>0, <1>1, <1>2 DEF Undisturbed
  <2> QED BY <2>1, UndisturbedKeeps
<1>3. CASE /\ current = k /\ ~replay_requested /\ pump[k] # "ended" /\ Extended(rx[k], rx'[k], out)
  <2>1. Owns(k) /\ Attached(k)
    BY <1>00, <1>3 DEF Owns, Serves, Attaching, Attached, Unattached, TypeOK, ControlOK
  <2>2. Contiguous(rx[k], Follows(d)) /\ EndOf(rx[k], Follows(d)) = next_seq
    BY <1>00, <2>1 DEF ClientOK, Chained
  <2>3. Base(d)' = Base(d) /\ Follows(d)' = Follows(d) /\ (Attached(k)' <=> Attached(k))
    <3>1. NoReply' = NoReply
      OBVIOUS
    <3> QED BY <1>0, <3>1 DEF Base, Follows, Attached
  <2>4. \/ \E n \in Nat : out.t = "data" /\ out.lo = next_seq /\ out.n = n /\ next_seq' = next_seq + n
        \/ out.t # "data" /\ ~(Owns(k)')
    BY DEF Output, Signal, Owns
  <2>5. Contiguous(rx'[k], Follows(d)) /\ (Owns(k)' => EndOf(rx'[k], Follows(d)) = next_seq')
    <3> DEFINE x == rx[k]
               y == rx'[k]
               f == Follows(d)
    <3>1. Extended(x, y, out) /\ Contiguous(x, f) /\ (x = << >> <=> Len(x) = 0)
      <4>1. x \in Seq(Entry)
        BY <1>00 DEF TypeOK, QueuesOK
      <4> QED BY <1>3, <2>2, <4>1, EmptySeq
    <3>2. EndOf(x, f) = next_seq
      BY <2>2
    <3> HIDE DEF x, y, f
    <3>3. CASE out.t = "data"
      <4>1. Contiguous(y, f) /\ EndOf(y, f) = out.lo + out.n
        BY <2>4, <3>1, <3>2, <3>3, ChainGrows
      <4> QED BY <2>4, <3>3, <4>1 DEF y, f
    <3>4. CASE out.t # "data"
      <4>1. Contiguous(y, f)
        BY <3>1, <3>4, ChainGrows
      <4> QED BY <2>4, <3>4, <4>1 DEF y, f
    <3> QED BY <3>3, <3>4
  <2>6. Behind(d)'
    BY <1>00, <1>0, <1>1 DEF Behind, ClientOK, TypeOK, ControlOK
  <2>7. Resuming(d)'
    BY <1>00, <1>0 DEF Resuming, ClientOK
  <2>8. Chained(d)'
    BY <1>00, <1>0, <2>3, <2>5 DEF Chained, ClientOK
  <2>9. Screened(d)'
    BY <1>00, <1>0 DEF Screened, ClientOK, OverIsOver, WipePending, Joined, Joins
  <2> QED BY <2>6, <2>7, <2>8, <2>9 DEF ClientOK
<1>4. \/ rx'[k] = rx[k] /\ (Owns(k)' => Owns(k) /\ next_seq' = next_seq)
      \/ /\ current = k /\ ~replay_requested /\ pump[k] # "ended" /\ Extended(rx[k], rx'[k], out)
  <2>1. CASE /\ current \in Conns /\ ~replay_requested /\ pump[current] # "ended"
             /\ UNCHANGED <<current, detached, replay_requested, marker>>
             /\ Extended(rx[current], rx'[current], out)
             /\ \A j \in Conns : j # current => rx'[j] = rx[j]
    BY <1>00, <2>1 DEF Owns
  <2>2. CASE /\ UNCHANGED rx
             /\ \/ /\ Withheld /\ UNCHANGED <<current, detached, replay_requested, marker>>
                \/ /\ current \in Conns /\ current' = current /\ replay_requested'
                   /\ \A j \in Conns : j # current => marker'[j] = marker[j]
                \/ /\ current' = Nobody /\ UNCHANGED <<replay_requested, marker>>
    BY <1>00, <2>2 DEF Owns, Withheld
  <2> QED BY <2>1, <2>2, PublishedFacts
<1> QED BY <1>2, <1>3, <1>4

(* What a client knows of the frame it is about to read. *)
LEMMA ReadingClient ==
  ASSUME TypeOK, LinksOK, NEW k, NEW d \in Clients, ClientOK(d), Serves(k, d),
         NEW t \in FrameKinds, Incoming(d, t)
  PROVE  /\ k \in Conns /\ conn[d] = k /\ k # Nobody /\ wire[k] # << >>
         /\ Len(wire[k]) \in Nat \ {0} /\ Head(wire[k]) = wire[k][1] /\ wire[k][1].t = t
         /\ wire[k][1].lo \in Nat /\ wire[k][1].n \in Nat
         /\ rendered[d] \in Nat /\ pending[d] \in Nat /\ next_seq \in Nat
         /\ reply[k] = NoReply /\ phase[k] \notin {"attaching", "found"}
         /\ t \notin {"ready", "truncated", "data"} => pump[k] # "on"
         /\ t # "close" => mode[d] # "ended"
         /\ t # "truncated" /\ mode[d] # "ended" => Joined(d)
         /\ Consumes(d) => Consumed(wire[k], wire'[k])
<1>00. k \in Conns /\ conn[d] = k /\ k # Nobody /\ Attaching(k) /\ Pumping(k)
  BY DEF Serves
<1>1. /\ Len(wire[k]) \in Nat \ {0} /\ wire[k] # << >> /\ Head(wire[k]) = wire[k][1] /\ wire[k][1].t = t
      /\ wire[k][1].lo \in Nat /\ wire[k][1].n \in Nat
      /\ Consumes(d) => Consumed(wire[k], wire'[k])
  BY <1>00, ReadFacts
<1>2. rendered[d] \in Nat /\ pending[d] \in Nat /\ next_seq \in Nat
  BY DEF TypeOK, ControlOK
<1>3. reply[k] = NoReply /\ phase[k] \notin {"attaching", "found"}
  BY <1>00, <1>1 DEF Attaching
<1>4. 1 \in 1..Len(wire[k])
  BY <1>1
<1>5. t \notin {"ready", "truncated", "data"} => pump[k] # "on"
  BY <1>00, <1>1, <1>4 DEF Pumping
<1>6. t # "close" => mode[d] # "ended"
  BY <1>00, <1>1, <1>4 DEF ClientOK, Screened, OverIsOver
<1>7. t # "truncated" /\ mode[d] # "ended" => Joined(d)
  BY <1>00, <1>1 DEF ClientOK, Screened, WipePending
<1> QED BY <1>00, <1>1, <1>2, <1>3, <1>5, <1>6, <1>7

(* A frame without output is taken: the chain stays. *)
LEMMA SignalRead ==
  ASSUME TypeOK, LinksOK, NEW k, NEW d \in Clients, ClientOK(d), Serves(k, d),
         NEW t \in {"ready", "truncated", "lagged", "exit", "superseded", "gone"}, Incoming(d, t),
         Consumes(d), UNCHANGED <<agentVars, link, conn>>,
         rendered'[d] + pending'[d] = Base(d)
  PROVE  Chained(d)' /\ Base(d)' = Base(d)
<1>0. /\ k \in Conns /\ conn[d] = k /\ k # Nobody /\ wire[k][1].t = t
      /\ Consumed(wire[k], wire'[k]) /\ reply[k] = NoReply
  BY ReadingClient DEF FrameKinds
<1>1. /\ Contiguous(wire'[k], Base(d)) /\ EndOf(wire'[k], Base(d)) = EndOf(wire[k], Base(d))
      /\ Starts(wire'[k], Base(d)) = Base(d)
  <2>1. OrderedWire(wire[k]) /\ Contiguous(wire[k], Base(d)) /\ wire[k][1].t # "data"
    BY <1>0 DEF Serves, Ordering, ClientOK, Chained
  <2> DEFINE w == wire[k]
             v == wire'[k]
             b == Base(d)
  <2>2. Consumed(w, v) /\ OrderedWire(w) /\ Contiguous(w, b) /\ w[1].t # "data"
    BY <1>0, <2>1
  <2> HIDE DEF w, v, b
  <2>3. Contiguous(v, b) /\ EndOf(v, b) = EndOf(w, b) /\ Starts(v, b) = b
    BY <2>2, ChainLosesSignal
  <2> QED BY <2>3 DEF w, v, b
<1>2. UNCHANGED <<rx, reply, pump, current, replay_requested, shell, next_seq, conn>>
  BY DEF agentVars, sessionVars, shellVars, handlerVars, pumpVars
<1>3. Base(d)' = Base(d)
  <2>1. Base(d)' = Starts(wire'[k], rendered'[d] + pending'[d])
    BY <1>0, <1>2 DEF Base
  <2> QED BY <1>1, <2>1
<1>4. Follows(d)' = Follows(d) /\ (Attached(k)' <=> Attached(k)) /\ (Owns(k)' <=> Owns(k))
  <2>1. NoReply' = NoReply
    OBVIOUS
  <2>2. Follows(d)' = EndOf(wire'[k], Base(d)') /\ Follows(d) = EndOf(wire[k], Base(d))
    BY <1>0, <1>2, <2>1 DEF Follows
  <2>3. (Attached(k)' <=> Attached(k)) /\ (Owns(k)' <=> Owns(k))
    BY <1>2, <2>1 DEF Attached, Owns
  <2> QED BY <1>1, <1>3, <2>2, <2>3
<1> QED BY <1>0, <1>1, <1>2, <1>3, <1>4 DEF Chained, ClientOK

LEMMA ReadyClient ==
  ASSUME TypeOK, LinksOK, NEW k, NEW d \in Clients, ClientOK(d), Serves(k, d), GetsReady(d)
  PROVE  ClientOK(d)'
<1>1. Incoming(d, "ready") /\ Consumes(d) /\ UNCHANGED <<agentVars, link, conn, mode,
                                                         pending, shown>>
  BY DEF GetsReady
<1>2. /\ k \in Conns /\ conn[d] = k /\ k # Nobody /\ wire[k] # << >>
      /\ Len(wire[k]) \in Nat \ {0} /\ Head(wire[k]) = wire[k][1] /\ wire[k][1].t = "ready"
      /\ wire[k][1].lo \in Nat /\ rendered[d] \in Nat /\ pending[d] \in Nat /\ next_seq \in Nat
      /\ reply[k] = NoReply /\ phase[k] \notin {"attaching", "found"} /\ mode[d] # "ended" /\ Joined(d)
      /\ Consumed(wire[k], wire'[k])
  <2>1. "ready" \in FrameKinds
    BY DEF FrameKinds
  <2> QED BY <1>1, <2>1, ReadingClient
<1>3. rendered'[d] = wire[k][1].lo /\ pending'[d] = pending[d]
  BY <1>1, <1>2 DEF GetsReady, TypeOK, ControlOK
<1>4. pending[d] = 0 /\ (wire[k][1].lo = rendered[d] \/ (Len(wire[k]) > 1 /\ wire[k][2].t = "truncated"))
  BY <1>2 DEF ClientOK, Resuming
<1>5. UNCHANGED <<reply, phase, since, next_seq>>
  BY <1>1 DEF agentVars, sessionVars, handlerVars
<1>6. Behind(d)'
  <2>1. wire[k][1].lo <= next_seq
    <3>1. 1 \in 1..Len(wire[k])
      BY <1>2
    <3> QED BY <1>2, <3>1 DEF Serves, Bounded, Within
  <2> QED BY <1>1, <1>2, <1>3, <1>4, <1>5, <2>1 DEF Behind, ClientOK
<1>7. Chained(d)'
  <2>1. rendered'[d] + pending'[d] = Base(d)
    BY <1>2, <1>3, <1>4 DEF Base, Starts
  <2> QED BY <1>1, <2>1, SignalRead
<1>8. /\ \A i \in 1..Len(wire'[k]) : wire'[k][i].t # "ready"
      /\ Len(wire[k]) > 1 /\ wire[k][2].t = "truncated" => wire'[k] # << >> /\ wire'[k][1].t = "truncated"
  <2>1. \A i \in 1..Len(wire'[k]) : i + 1 \in 1..Len(wire[k]) /\ i + 1 # 1 /\ wire'[k][i] = wire[k][i + 1]
    BY <1>2 DEF Consumed
  <2>2. OrderedWire(wire[k])
    BY DEF Serves, Ordering
  <2>3. Len(wire[k]) > 1 => wire'[k] # << >> /\ wire'[k][1] = wire[k][2]
    BY <1>2 DEF Consumed
  <2> QED BY <2>1, <2>2, <2>3 DEF OrderedWire
<1>9. Resuming(d)'
  <2>1. wire'[k] # << >> => wire'[k][1].t # "ready"
    <3>1. wire'[k] # << >> => 1 \in 1..Len(wire'[k])
      BY <1>2 DEF Consumed
    <3> QED BY <1>8, <3>1
  <2>2. NoReply' = NoReply
    OBVIOUS
  <2> QED BY <1>1, <1>2, <1>3, <1>4, <1>5, <2>1, <2>2 DEF Resuming
<1>10. Screened(d)'
  <2>1. CASE wire[k][1].lo = rendered[d]
    <3>1. Joined(d)'
      BY <1>1, <1>2, <1>3, <2>1 DEF Joined, Joins
    <3> QED BY <1>1, <1>2, <3>1 DEF Screened
  <2>2. CASE Len(wire[k]) > 1 /\ wire[k][2].t = "truncated"
    <3>1. WipePending(d)'
      BY <1>1, <1>2, <1>8, <2>2 DEF WipePending
    <3> QED BY <1>1, <1>2, <3>1 DEF Screened
  <2> QED BY <1>4, <2>1, <2>2
<1> QED BY <1>6, <1>7, <1>9, <1>10 DEF ClientOK

(* Output is read: it begins where the counter and the renderer stand. *)
LEMMA DataRead ==
  ASSUME TypeOK, LinksOK, NEW k, NEW d \in Clients, ClientOK(d), Serves(k, d), GetsData(d)
  PROVE  /\ wire[k][1].lo = rendered[d] + pending[d]
         /\ wire[k][1].n \in Nat /\ wire[k][1].n > 0
         /\ wire[k][1].lo + wire[k][1].n <= next_seq
         /\ rendered[d] \in Nat /\ pending[d] \in Nat /\ next_seq \in Nat
         /\ shown'[d] = shown[d] \cup (wire[k][1].lo + 1)..(wire[k][1].lo + wire[k][1].n)
         /\ \A c \in Clients : c # d => shown'[c] = shown[c]
         /\ \/ rendered'[d] = rendered[d] + wire[k][1].n /\ pending'[d] = pending[d]
            \/ rendered'[d] = rendered[d] /\ pending'[d] = pending[d] + wire[k][1].n
         /\ mode[d] # "ended" /\ Joined(d)
<1>1. Incoming(d, "data") /\ Consumes(d) /\ "data" \in FrameKinds
  BY DEF GetsData, FrameKinds
<1>2. /\ k \in Conns /\ conn[d] = k /\ k # Nobody /\ wire[k] # << >>
      /\ Len(wire[k]) \in Nat \ {0} /\ Head(wire[k]) = wire[k][1] /\ wire[k][1].t = "data"
      /\ wire[k][1].lo \in Nat /\ wire[k][1].n \in Nat
      /\ rendered[d] \in Nat /\ pending[d] \in Nat /\ next_seq \in Nat /\ mode[d] # "ended" /\ Joined(d)
  BY <1>1, ReadingClient
<1>3. 1 \in 1..Len(wire[k])
  BY <1>2
<1>4. wire[k][1].lo = Base(d) /\ Base(d) = rendered[d] + pending[d]
  <2>1. wire[k][1].lo = Base(d)
    BY <1>2, <1>3 DEF ClientOK, Chained, Contiguous
  <2> QED BY <1>2, <2>1 DEF Base, Starts
<1>5. wire[k][1].n > 0 /\ wire[k][1].lo + wire[k][1].n <= next_seq
  BY <1>2, <1>3 DEF Serves, Bounded, Within
<1> DEFINE e == wire[k][1]
<1>6. /\ shown' = [shown EXCEPT ![d] = @ \cup (e.lo + 1)..(e.lo + e.n)]
      /\ \/ rendered' = [rendered EXCEPT ![d] = @ + e.n] /\ UNCHANGED pending
         \/ pending' = [pending EXCEPT ![d] = @ + e.n] /\ UNCHANGED rendered
  BY <1>2 DEF GetsData
<1> HIDE DEF e
<1>7. /\ shown'[d] = shown[d] \cup (e.lo + 1)..(e.lo + e.n)
      /\ \A c \in Clients : c # d => shown'[c] = shown[c]
  BY <1>6 DEF TypeOK, ControlOK
<1>8. \/ rendered'[d] = rendered[d] + e.n /\ pending'[d] = pending[d]
      \/ rendered'[d] = rendered[d] /\ pending'[d] = pending[d] + e.n
  BY <1>6 DEF TypeOK, ControlOK
<1> QED BY <1>2, <1>4, <1>5, <1>7, <1>8 DEF e

LEMMA DataClient ==
  ASSUME TypeOK, LinksOK, NEW k, NEW d \in Clients, ClientOK(d), Serves(k, d), GetsData(d)
  PROVE  ClientOK(d)'
<1>1. Incoming(d, "data") /\ Consumes(d) /\ "data" \in FrameKinds
      /\ UNCHANGED <<conn, mode, next_seq, current, replay_requested, shell, phase,
                     since, reply, rx, pump>>
  BY DEF GetsData, FrameKinds, agentVars, sessionVars, shellVars, handlerVars, pumpVars
<1>2. /\ k \in Conns /\ conn[d] = k /\ k # Nobody /\ wire[k] # << >>
      /\ Len(wire[k]) \in Nat \ {0} /\ wire[k][1].t = "data"
      /\ reply[k] = NoReply /\ phase[k] \notin {"attaching", "found"}
      /\ Consumed(wire[k], wire'[k])
  BY <1>1, ReadingClient
<1> DEFINE lo == wire[k][1].lo
           n == wire[k][1].n
           r == rendered[d]
           p == pending[d]
<1>3. /\ lo = r + p /\ n \in Nat /\ n > 0 /\ lo + n <= next_seq
      /\ r \in Nat /\ p \in Nat /\ next_seq \in Nat
      /\ shown'[d] = shown[d] \cup (lo + 1)..(lo + n)
      /\ \/ rendered'[d] = r + n /\ pending'[d] = p
         \/ rendered'[d] = r /\ pending'[d] = p + n
      /\ mode[d] # "ended" /\ Joined(d)
  BY DataRead
<1>4. /\ OrderedRx(wire[k])
      /\ \A i \in 1..Len(wire[k]) : wire[k][i].t \notin {"ready", "truncated"}
  <2>1. OrderedWire(wire[k])
    BY DEF Serves, Ordering
  <2> QED BY <1>2, <2>1, OutputHasBegun
<1>5. \A i \in 1..Len(wire'[k]) : wire'[k][i].t \notin {"ready", "truncated"}
  <2>1. \A i \in 1..Len(wire'[k]) : i + 1 \in 1..Len(wire[k]) /\ wire'[k][i] = wire[k][i + 1]
    BY <1>2 DEF Consumed
  <2> QED BY <1>4, <2>1
<1>6. wire'[k] # << >> => wire'[k][1].t # "ready"
  <2>1. wire'[k] # << >> => 1 \in 1..Len(wire'[k])
    BY <1>2 DEF Consumed
  <2> QED BY <1>5, <2>1
<1>7. Base(d) = lo /\ Base(d)' = lo + n
  <2>1. Base(d) = r + p
    BY <1>2 DEF Base, Starts
  <2>2. Base(d)' = rendered'[d] + pending'[d]
    BY <1>1, <1>2, <1>6 DEF Base, Starts
  <2>3. rendered'[d] + pending'[d] = lo + n
    <3> HIDE DEF lo, n, r, p
    <3> QED BY <1>3
  <2> QED BY <1>3, <2>1, <2>2, <2>3
<1>8. Behind(d)'
  <2>1. rendered'[d] + pending'[d] <= next_seq /\ \A i \in (lo + 1)..(lo + n) : i \in 1..next_seq
    <3> HIDE DEF lo, n, r, p
    <3> QED BY <1>3
  <2>2. shown'[d] \subseteq 1..next_seq
    <3> HIDE DEF lo, n, r, p
    <3> QED BY <1>3, <2>1 DEF Behind, ClientOK
  <2> QED BY <1>1, <2>1, <2>2 DEF Behind
<1>9. Resuming(d)'
  <2>1. NoReply' = NoReply
    OBVIOUS
  <2> QED BY <1>1, <1>2, <1>5, <1>6, <2>1 DEF Resuming
<1>10. Chained(d)'
  <2>1. /\ Contiguous(wire'[k], lo + n)
        /\ (\A i \in 1..Len(wire[k]) : wire[k][i].t = "data") => EndOf(wire'[k], lo + n) = EndOf(wire[k], lo)
    <3>1. Contiguous(wire[k], lo)
      BY <1>2, <1>7 DEF ClientOK, Chained
    <3> QED BY <1>2, <1>4, <3>1, ChainLosesData
  <2>2. Attached(k) => \A i \in 1..Len(wire[k]) : wire[k][i].t = "data"
    BY <1>2, <1>4 DEF Attached, Serves, Pumping
  <2>3. Attached(k) => Follows(d)' = Follows(d)
    <3>1. NoReply' = NoReply
      OBVIOUS
    <3>2. Follows(d)' = EndOf(wire'[k], lo + n) /\ Follows(d) = EndOf(wire[k], lo)
      BY <1>1, <1>2, <1>7, <3>1 DEF Follows
    <3> QED BY <2>1, <2>2, <3>2
  <2>4. (Attached(k)' <=> Attached(k)) /\ (Owns(k)' <=> Owns(k))
    <3>1. NoReply' = NoReply
      OBVIOUS
    <3> QED BY <1>1, <3>1 DEF Attached, Owns
  <2> QED BY <1>1, <1>2, <1>7, <2>1, <2>3, <2>4 DEF Chained, ClientOK
<1>11. Screened(d)'
  <2> DEFINE S == shown[d]
             T == shown'[d]
             q == rendered'[d]
             m == pending'[d]
  <2>1. S # {} => \A at \in r..(r + p) : at \in S \/ at + 1 \in S
    BY <1>3 DEF Joined, Joins
  <2>2. S = {} => p = 0
    BY <1>3 DEF Joined
  <2> SUFFICES T # {} /\ \A at \in q..(q + m) : at \in T \/ at + 1 \in T
    BY <1>1, <1>3 DEF Screened, Joined, Joins
  <2>3. /\ lo = r + p /\ n \in Nat /\ n > 0 /\ r \in Nat /\ p \in Nat
        /\ T = S \cup (lo + 1)..(lo + n)
        /\ (q = r + n /\ m = p) \/ (q = r /\ m = p + n)
    BY <1>3
  <2> HIDE DEF lo, n, r, p, S, T, q, m
  <2>4. lo + 1 \in T /\ T # {}
    BY <2>3
  <2>5. ASSUME NEW at \in q..(q + m) PROVE at \in T \/ at + 1 \in T
    <3>1. at \in Int /\ r <= at /\ at <= lo + n
      BY <2>3
    <3>2. CASE at >= lo
      <4>1. at + 1 \in (lo + 1)..(lo + n) \/ at \in (lo + 1)..(lo + n)
        BY <2>3, <3>1, <3>2
      <4> QED BY <2>3, <4>1
    <3>3. CASE at < lo
      <4>1. at \in r..(r + p) /\ p # 0
        BY <2>3, <3>1, <3>3
      <4> QED BY <2>1, <2>2, <2>3, <4>1
    <3> QED BY <2>3, <3>1, <3>2, <3>3
  <2> QED BY <2>4, <2>5
<1> QED BY <1>8, <1>9, <1>10, <1>11 DEF ClientOK

LEMMA TruncatedClient ==
  ASSUME TypeOK, LinksOK, NEW k, NEW d \in Clients, ClientOK(d), Serves(k, d), GetsTruncated(d)
  PROVE  ClientOK(d)'
<1>1. Incoming(d, "truncated") /\ Consumes(d) /\ "truncated" \in FrameKinds
      /\ UNCHANGED <<agentVars, link, conn, mode, rendered, pending, next_seq, phase,
                     since, reply>>
      /\ shown'[d] = {}
  BY DEF GetsTruncated, FrameKinds, agentVars, sessionVars, handlerVars, TypeOK, ControlOK
<1>2. /\ k \in Conns /\ conn[d] = k /\ k # Nobody /\ wire[k] # << >>
      /\ Len(wire[k]) \in Nat \ {0} /\ wire[k][1].t = "truncated"
      /\ reply[k] = NoReply /\ phase[k] \notin {"attaching", "found"}
      /\ Consumed(wire[k], wire'[k])
  BY <1>1, ReadingClient
<1>3. pending[d] = 0
  <2>1. 1 \in 1..Len(wire[k])
    BY <1>2
  <2> QED BY <1>2, <2>1 DEF ClientOK, Resuming
<1>4. Behind(d)'
  BY <1>1 DEF Behind, ClientOK
<1>5. Chained(d)'
  <2>1. rendered'[d] + pending'[d] = Base(d)
    BY <1>1, <1>2 DEF Base, Starts
  <2> QED BY <1>1, <2>1, SignalRead
<1>6. Resuming(d)'
  <2>1. wire'[k] # << >> => wire'[k][1].t # "ready"
    <3>1. wire'[k] # << >> => 2 \in 1..Len(wire[k]) /\ wire'[k][1] = wire[k][2]
      BY <1>2 DEF Consumed
    <3> QED BY <3>1 DEF Serves, Ordering, OrderedWire
  <2>2. NoReply' = NoReply
    OBVIOUS
  <2> QED BY <1>1, <1>2, <1>3, <2>1, <2>2 DEF Resuming
<1>7. Screened(d)'
  <2>1. Joined(d)'
    BY <1>1, <1>3 DEF Joined
  <2>2. mode'[d] # "ended"
    BY <1>1, ReadingClient
  <2> QED BY <2>1, <2>2 DEF Screened
<1> QED BY <1>4, <1>5, <1>6, <1>7 DEF ClientOK

(* A frame that ends the output: at most `close` follows. *)
LEMMA FinalClient ==
  ASSUME TypeOK, LinksOK, NEW k, NEW d \in Clients, ClientOK(d), Serves(k, d),
         NEW t \in {"exit", "superseded", "gone", "lagged"}, Incoming(d, t), Consumes(d),
         UNCHANGED <<agentVars, link, conn, pending, shown>>,
         rendered'[d] \in {rendered[d], 0},
         rendered'[d] = rendered[d] \/ mode'[d] = "ended",
         mode'[d] \in {"ended", "over", mode[d]}
  PROVE  ClientOK(d)'
<1>1. t \in FrameKinds /\ t \in FinalKinds
      /\ UNCHANGED <<next_seq, phase, since, reply, pump, rx>>
  BY DEF FrameKinds, FinalKinds, agentVars, sessionVars, handlerVars, pumpVars
<1>2. /\ k \in Conns /\ conn[d] = k /\ k # Nobody /\ wire[k] # << >>
      /\ Len(wire[k]) \in Nat \ {0} /\ wire[k][1].t = t
      /\ reply[k] = NoReply /\ phase[k] \notin {"attaching", "found"} /\ pump[k] # "on"
      /\ mode[d] # "ended" /\ Joined(d)
      /\ rendered[d] \in Nat /\ pending[d] \in Nat /\ next_seq \in Nat
      /\ Consumed(wire[k], wire'[k])
  BY <1>1, ReadingClient
<1>3. \A i \in 1..Len(wire'[k]) : wire'[k][i].t = "close"
  <2>1. \A i \in 1..Len(wire'[k]) : 1 \in 1..Len(wire[k]) /\ i + 1 \in 1..Len(wire[k]) /\ 1 < i + 1 /\ wire'[k][i] = wire[k][i + 1]
    BY <1>2 DEF Consumed
  <2>2. EndsOnce(wire[k])
    BY DEF Serves, Ordering
  <2>3. \A i, j \in 1..Len(wire[k]) : i < j /\ wire[k][i].t \in FinalKinds => wire[k][j].t = "close"
    BY <2>2 DEF EndsOnce
  <2>4. wire[k][1].t \in FinalKinds
    BY <1>1, <1>2
  <2> QED BY <2>1, <2>3, <2>4
<1>4. wire'[k] # << >> => 1 \in 1..Len(wire'[k])
  BY <1>2 DEF Consumed
<1>5. NoReply' = NoReply
  OBVIOUS
<1>6. Behind(d)'
  BY <1>1, <1>2 DEF Behind, ClientOK
<1>7. Resuming(d)'
  BY <1>1, <1>2, <1>3, <1>4, <1>5 DEF Resuming
<1>8. Chained(d)'
  <2>1. Contiguous(wire'[k], Base(d)')
    BY <1>3, NoChain
  <2> QED BY <1>1, <1>2, <1>5, <2>1 DEF Chained, Attached
<1>9. Screened(d)'
  <2>1. OverIsOver(d)'
    BY <1>1, <1>2, <1>3, <1>5 DEF OverIsOver
  <2>2. mode'[d] # "ended" => Joined(d)'
    BY <1>2 DEF Joined, Joins
  <2> QED BY <2>1, <2>2 DEF Screened
<1> QED BY <1>6, <1>7, <1>8, <1>9 DEF ClientOK

(* A client that hangs up keeps its screen and its counter, unless the     *)
(* handle is forgotten.                                                    *)
LEMMA HungClient ==
  ASSUME TypeOK, NEW d \in Clients, ClientOK(d), conn'[d] = Nobody,
         UNCHANGED <<next_seq, shown>>,
         rendered'[d] \in {rendered[d], 0}, pending'[d] \in {pending[d], 0},
         \/ mode'[d] = "ended"
         \/ mode'[d] = mode[d] /\ rendered'[d] = rendered[d] /\ pending'[d] = pending[d]
            /\ ~WipePending(d)
  PROVE  ClientOK(d)'
<1>1. rendered[d] \in Nat /\ pending[d] \in Nat /\ next_seq \in Nat
  BY DEF TypeOK, ControlOK
<1>2. Behind(d)'
  BY <1>1 DEF Behind, ClientOK
<1>3. Resuming(d)' /\ Chained(d)' /\ OverIsOver(d)'
  BY DEF Resuming, Chained, OverIsOver
<1>4. Screened(d)'
  BY <1>3 DEF Screened, ClientOK, Joined, Joins
<1> QED BY <1>2, <1>3, <1>4 DEF ClientOK

LEMMA PaintedClient ==
  ASSUME TypeOK, NEW d \in Clients, ClientOK(d), Paints(d)
  PROVE  ClientOK(d)'
<1>0. PICK n \in 1..pending[d] :
        /\ rendered' = [rendered EXCEPT ![d] = @ + n]
        /\ pending' = [pending EXCEPT ![d] = @ - n]
  BY DEF Paints
<1> DEFINE r == rendered[d]
           p == pending[d]
<1>1. /\ r \in Nat /\ p \in Nat /\ next_seq \in Nat /\ n \in 1..p
      /\ rendered'[d] = r + n /\ pending'[d] = p - n
  BY <1>0 DEF TypeOK, ControlOK
<1>2. p # 0 /\ rendered'[d] + pending'[d] = r + p
  <2> HIDE DEF r, p
  <2> QED BY <1>1
<1>3. UNCHANGED <<conn, mode, shown, wire, next_seq, phase, since, reply, rx, pump,
                  current, replay_requested, shell>>
  BY DEF Paints, agentVars, sessionVars, shellVars, handlerVars, pumpVars
<1>4. Behind(d)'
  BY <1>2, <1>3 DEF Behind, ClientOK
<1>5. Resuming(d)'
  <2>1. NoReply' = NoReply
    OBVIOUS
  <2> QED BY <1>2, <1>3, <2>1 DEF Resuming, ClientOK
<1>6. Chained(d)'
  <2>1. NoReply' = NoReply
    OBVIOUS
  <2>2. conn[d] # Nobody => Base(d)' = Base(d) /\ Follows(d)' = Follows(d)
                            /\ (Attached(conn[d])' <=> Attached(conn[d]))
                            /\ (Owns(conn[d])' <=> Owns(conn[d]))
    BY <1>2, <1>3, <2>1 DEF Base, Follows, Attached, Owns
  <2> QED BY <1>3, <2>2 DEF Chained, ClientOK
<1>7. Screened(d)'
  <2>1. OverIsOver(d) => OverIsOver(d)'
    BY <1>3 DEF OverIsOver
  <2>2. WipePending(d) => WipePending(d)'
    BY <1>3 DEF WipePending
  <2>3. Joined(d) => Joined(d)'
    <3> SUFFICES ASSUME Joined(d), shown[d] # {} PROVE Joined(d)'
      BY <1>2 DEF Joined
    <3>1. \A at \in r..(r + p) : at \in shown[d] \/ at + 1 \in shown[d]
      BY DEF Joined, Joins
    <3>2. \A at \in (r + n)..((r + n) + (p - n)) : at \in r..(r + p)
      <4> HIDE DEF r, p
      <4> QED BY <1>1
    <3> QED BY <1>1, <1>3, <3>1, <3>2 DEF Joined, Joins
  <2> QED BY <1>3, <2>1, <2>2, <2>3 DEF Screened, ClientOK
<1> QED BY <1>4, <1>5, <1>6, <1>7 DEF ClientOK

LEMMA OpenedClient ==
  ASSUME TypeOK, LinksOK, NEW d \in Clients, ClientOK(d), NEW k \in Conns, OpensSocket(d, k),
         conn[d] = Nobody, mode[d] # "ended", mode'[d] = "live", Attaching(k)
  PROVE  ClientOK(d)'
<1>1. /\ phase[k] = "unused" /\ phase'[k] = "attaching" /\ since'[k] = rendered[d]
      /\ conn'[d] = k /\ pending'[d] = 0
      /\ UNCHANGED <<wire, rx, reply, pump, rendered, shown, next_seq>>
  BY DEF OpensSocket, TypeOK, ControlOK, sessionVars, pumpVars
<1>2. reply[k] = NoReply /\ pump[k] = "none" /\ wire[k] = << >> /\ rx[k] = << >>
  BY <1>1 DEF Attaching, Unattached
<1>3. rendered[d] \in Nat /\ pending[d] \in Nat /\ next_seq \in Nat
  BY DEF TypeOK, ControlOK
<1>4. Behind(d)'
  BY <1>1, <1>3 DEF Behind, ClientOK
<1>5. NoReply' = NoReply
  OBVIOUS
<1>6. Resuming(d)'
  BY <1>1, <1>2, <1>5 DEF Resuming
<1>7. Chained(d)'
  <2>1. Contiguous(wire'[k], Base(d)')
    BY <1>1, <1>2, NoChain
  <2>2. ~(Attached(k)')
    BY <1>1, <1>2, <1>5 DEF Attached
  <2> QED BY <1>1, <2>1, <2>2 DEF Chained
<1>8. Screened(d)'
  <2>1. Joined(d)
    BY DEF ClientOK, Screened, WipePending
  <2>2. shown[d] # {} => rendered[d] \in shown[d] \/ rendered[d] + 1 \in shown[d]
    <3>1. rendered[d] \in rendered[d]..(rendered[d] + pending[d])
      BY <1>3
    <3> QED BY <2>1, <3>1 DEF Joined, Joins
  <2>3. \A at \in rendered[d]..(rendered[d] + 0) : at = rendered[d]
    BY <1>3
  <2>4. Joined(d)'
    BY <1>1, <2>2, <2>3 DEF Joined, Joins
  <2> QED BY <2>4 DEF Screened
<1> QED BY <1>4, <1>6, <1>7, <1>8 DEF ClientOK

(* Each step either concerns a client, and then one of the lemmas above    *)
(* applies, or leaves it undisturbed.                                      *)
LEMMA ClientStep == ~CutReply /\ StreamInv /\ [Next]_vars => (\A c \in Clients : ClientOK(c))'
<1> SUFFICES ASSUME ~CutReply /\ StreamInv, [Next]_vars PROVE (\A c \in Clients : ClientOK(c))'
  OBVIOUS
<1> USE DEF Conns, sessionVars, storeVars, shellVars, handlerVars, pumpVars, linkVars, clientVars, agentVars
<1> TypeOK /\ ControlOK /\ QueuesOK /\ LinksOK /\ ~CutReply
  BY DEF StreamInv, TypeOK
<1> SUFFICES ASSUME NEW d \in Clients PROVE ClientOK(d)'
  OBVIOUS
<1> ClientOK(d)
  BY DEF StreamInv, ClientOK, BoundsOK, ResumesOK, ChainOK, ScreensOK
<1>b. \A k \in Conns : Attaching(k) /\ Pumping(k) /\ Ordering(k) /\ Bounded(k)
  BY DEF StreamInv, AttachingOK, PumpOK, OrderOK, BoundsOK
<1>c. Nobody \notin Conns
  BY BoundsAssumption DEF Nobody, Conns
<1>a. conn[d] # Nobody => Serves(conn[d], d)
  <2>1. conn[d] # Nobody => conn[d] \in Conns /\ link[conn[d]] = "up"
    BY DEF LinksOK, ControlOK
  <2> QED BY <2>1, <1>b DEF Serves
<1> USE DEF ControlOK
<1>1. ASSUME NEW n \in 1..MaxChunk, ShellWrites(n) PROVE ClientOK(d)'
  <2>1. Publish(Output(next_seq, n)) /\ Output(next_seq, n) \in Entry /\ shell = "running" /\ next_seq' = next_seq + n /\ shell' = shell
    <3> Output(next_seq, n) \in Entry
      BY Frames, BoundsAssumption DEF OutputKinds
    <3> QED BY <1>1 DEF ShellWrites
  <2>2. next_seq \in Nat /\ next_seq' \in Nat /\ next_seq <= next_seq'
    BY <1>1, <2>1, BoundsAssumption
  <2>3. CASE conn[d] = Nobody
    <3>1. UNCHANGED clientVars
      BY <2>1, PublishedFacts
    <3>2. Undisturbed(d)
      BY <2>2, <2>3, <3>1 DEF Undisturbed
    <3> QED BY <3>2, UndisturbedKeeps
  <2>4. CASE conn[d] # Nobody
    <3>1. Serves(conn[d], d)
      BY <2>4, <1>a
    <3> QED BY <1>1, <2>1, <2>2, <3>1, PublishedClient, BoundsAssumption
  <2> QED BY <2>3, <2>4
<1>2. ASSUME ShellExits PROVE ClientOK(d)'
  <2>1. Publish(Signal("exit")) /\ Signal("exit") \in Entry /\ shell = "running" /\ next_seq' = next_seq /\ shell' = "ending"
    <3> Signal("exit") \in Entry
      BY Frames, BoundsAssumption DEF OutputKinds
    <3> QED BY <1>2 DEF ShellExits
  <2>2. next_seq \in Nat /\ next_seq' \in Nat /\ next_seq <= next_seq'
    BY <1>2, <2>1, BoundsAssumption
  <2>3. CASE conn[d] = Nobody
    <3>1. UNCHANGED clientVars
      BY <2>1, PublishedFacts
    <3>2. Undisturbed(d)
      BY <2>2, <2>3, <3>1 DEF Undisturbed
    <3> QED BY <3>2, UndisturbedKeeps
  <2>4. CASE conn[d] # Nobody
    <3>1. Serves(conn[d], d)
      BY <2>4, <1>a
    <3> QED BY <1>2, <2>1, <2>2, <3>1, PublishedClient, BoundsAssumption
  <2> QED BY <2>3, <2>4
<1>3. ASSUME ShellLost PROVE ClientOK(d)'
  <2>1. UNCHANGED <<conn, mode, rendered, pending, shown, next_seq, wire, rx, reply,
                    pump, phase, since>>
    BY <1>3 DEF ShellLost
  <2>2. \A k \in Conns : Owns(k)' => Owns(k)
    BY <1>3, <1>c DEF ShellLost, Owns
  <2>3. Undisturbed(d)
    BY <2>1, <2>2 DEF Undisturbed
  <2> QED BY <2>3, UndisturbedKeeps
<1>4. ASSUME ShellReadsClose PROVE ClientOK(d)'
  <2>1. UNCHANGED <<conn, mode, rendered, pending, shown, next_seq, wire, rx, reply,
                    pump, phase, since>>
    BY <1>4 DEF ShellReadsClose
  <2>2. \A k \in Conns : Owns(k)' => Owns(k)
    BY <1>4, <1>c DEF ShellReadsClose, Owns
  <2>3. Undisturbed(d)
    BY <2>1, <2>2 DEF Undisturbed
  <2> QED BY <2>3, UndisturbedKeeps
<1>5. ASSUME ShellCleansUp PROVE ClientOK(d)'
  <2>1. UNCHANGED <<conn, mode, rendered, pending, shown, next_seq, wire, rx, reply,
                    pump, phase, since>>
    BY <1>5 DEF ShellCleansUp
  <2>2. \A k \in Conns : Owns(k)' => Owns(k)
    BY <1>5, <1>c DEF ShellCleansUp, Owns
  <2>3. Undisturbed(d)
    BY <2>1, <2>2 DEF Undisturbed
  <2> QED BY <2>3, UndisturbedKeeps
<1>6. ASSUME ReaperTakes PROVE ClientOK(d)'
  <2>1. UNCHANGED <<conn, mode, rendered, pending, shown, next_seq, wire, rx, reply,
                    pump, phase, since>>
    BY <1>6 DEF ReaperTakes
  <2>2. \A k \in Conns : Owns(k)' => Owns(k)
    BY <1>6, <1>c DEF ReaperTakes, Owns
  <2>3. Undisturbed(d)
    BY <2>1, <2>2 DEF Undisturbed
  <2> QED BY <2>3, UndisturbedKeeps
<1>7. ASSUME ReaperTerminates PROVE ClientOK(d)'
  <2>1. UNCHANGED <<conn, mode, rendered, pending, shown, next_seq, wire, rx, reply,
                    pump, phase, since>>
    BY <1>7 DEF ReaperTerminates
  <2>2. \A k \in Conns : Owns(k)' => Owns(k)
    BY <1>7, <1>c DEF ReaperTerminates, Owns
  <2>3. Undisturbed(d)
    BY <2>1, <2>2 DEF Undisturbed
  <2> QED BY <2>3, UndisturbedKeeps
<1>8. ASSUME NEW k \in Conns, AttachLooksUp(k) PROVE ClientOK(d)'
  <2>1. CASE conn[d] = k
    <3>1. Serves(k, d)
      BY <2>1, <1>a, <1>c
    <3> QED BY <1>8, <3>1, LookedUpClient
  <2>2. CASE conn[d] # k
    <3>1. /\ UNCHANGED <<conn, mode, rendered, pending, shown, next_seq, rx, reply,
                         pump, current, replay_requested, shell>>
          /\ \A j \in Conns : j # k => wire'[j] = wire[j] /\ phase'[j] = phase[j] /\ since'[j] = since[j]
      BY <1>8 DEF AttachLooksUp
    <3>2. Undisturbed(d)
      BY <2>2, <3>1 DEF Undisturbed, Owns
    <3> QED BY <3>2, UndisturbedKeeps
  <2> QED BY <2>1, <2>2
<1>9. ASSUME NEW k \in Conns, AttachRefused(k) PROVE ClientOK(d)'
  <2>1. CASE conn[d] = k
    <3>1. Serves(k, d)
      BY <2>1, <1>a, <1>c
    <3> QED BY <1>9, <3>1, LookedUpClient
  <2>2. CASE conn[d] # k
    <3>1. /\ UNCHANGED <<conn, mode, rendered, pending, shown, next_seq, rx, reply,
                         pump, current, replay_requested, shell>>
          /\ \A j \in Conns : j # k => wire'[j] = wire[j] /\ phase'[j] = phase[j] /\ since'[j] = since[j]
      BY <1>9 DEF AttachRefused
    <3>2. Undisturbed(d)
      BY <2>2, <3>1 DEF Undisturbed, Owns
    <3> QED BY <3>2, UndisturbedKeeps
  <2> QED BY <2>1, <2>2
<1>10. ASSUME NEW k \in Conns, AttachInstalls(k) PROVE ClientOK(d)'
  <2>1. CASE conn[d] = k
    <3>1. Serves(k, d)
      BY <2>1, <1>a, <1>c
    <3> QED BY <1>10, <3>1, InstalledClient
  <2>2. CASE conn[d] # k
    <3>1. /\ UNCHANGED <<conn, mode, rendered, pending, shown, next_seq, wire, rx, pump>>
          /\ \A j \in Conns : j # k => reply'[j] = reply[j] /\ phase'[j] = phase[j] /\ since'[j] = since[j]
          /\ current' = k
      BY <1>10 DEF AttachInstalls
    <3>2. Undisturbed(d)
      BY <2>2, <3>1 DEF Undisturbed, Owns
    <3> QED BY <3>2, UndisturbedKeeps
  <2> QED BY <2>1, <2>2
<1>11. ASSUME NEW k \in Conns, AttachReplies(k) PROVE ClientOK(d)'
  <2>1. CASE conn[d] = k
    <3>1. Serves(k, d)
      BY <2>1, <1>a, <1>c
    <3> QED BY <1>11, <3>1, RepliedClient
  <2>2. CASE conn[d] # k
    <3>1. /\ UNCHANGED <<conn, mode, rendered, pending, shown, next_seq, rx, phase,
                         since, current, replay_requested, shell>>
          /\ \A j \in Conns : j # k => wire'[j] = wire[j] /\ reply'[j] = reply[j] /\ pump'[j] = pump[j]
      BY <1>11 DEF AttachReplies
    <3>2. Undisturbed(d)
      BY <2>2, <3>1 DEF Undisturbed, Owns
    <3> QED BY <3>2, UndisturbedKeeps
  <2> QED BY <2>1, <2>2
<1>12. ASSUME NEW k \in Conns, HandlesClose(k) PROVE ClientOK(d)'
  <2>1. /\ UNCHANGED <<conn, mode, rendered, pending, shown, next_seq, wire, rx, reply,
                       pump, since, current, replay_requested, shell>>
        /\ \A j \in Conns : phase'[j] = phase[j] \/ phase'[j] = "done"
    BY <1>12 DEF HandlesClose
  <2>2. Undisturbed(d)
    BY <2>1 DEF Undisturbed, Owns
  <2> QED BY <2>2, UndisturbedKeeps
<1>13. ASSUME NEW k \in Conns, NoticesDisconnect(k) PROVE ClientOK(d)'
  <2>1. /\ UNCHANGED <<conn, mode, rendered, pending, shown, next_seq, wire, rx, reply,
                       pump, replay_requested, shell>>
        /\ \A j \in Conns : (phase'[j] = phase[j] /\ since'[j] = since[j]) \/ phase'[j] = "done"
        /\ current' = current \/ current' = Nobody
    BY <1>13 DEF NoticesDisconnect
  <2>2. Undisturbed(d)
    BY <2>1 DEF Undisturbed, Owns
  <2> QED BY <2>2, UndisturbedKeeps
<1>14. ASSUME NEW k \in Conns, MarkerQueued(k) PROVE ClientOK(d)'
  <2>1. CASE conn[d] = k
    <3>1. Serves(k, d)
      BY <2>1, <1>a, <1>c
    <3> QED BY <1>14, <3>1, MarkedClient
  <2>2. CASE conn[d] # k
    <3>1. /\ UNCHANGED <<conn, mode, rendered, pending, shown, next_seq, wire, reply,
                         pump, phase, since, current, replay_requested, shell>>
      BY <1>14 DEF MarkerQueued
    <3>3. \A j \in Conns : j # k => rx'[j] = rx[j]
      <4>1. UNCHANGED rx \/ rx' = [rx EXCEPT ![k] = Append(rx[k], Signal("replay"))]
        BY <1>14 DEF MarkerQueued
      <4> QED BY <4>1 DEF QueuesOK
    <3>2. Undisturbed(d)
      BY <2>2, <3>1, <3>3 DEF Undisturbed, Owns
    <3> QED BY <3>2, UndisturbedKeeps
  <2> QED BY <2>1, <2>2
<1>15. ASSUME NEW k \in Conns, PumpForwards(k) PROVE ClientOK(d)'
  <2>1. CASE conn[d] = k
    <3>1. Serves(k, d)
      BY <2>1, <1>a, <1>c
    <3> QED BY <1>15, <3>1, ForwardedClient
  <2>2. CASE conn[d] # k
    <3>1. /\ UNCHANGED <<conn, mode, rendered, pending, shown, next_seq, reply, phase,
                         since, current, replay_requested, shell>>
          /\ \A j \in Conns : j # k => wire'[j] = wire[j] /\ rx'[j] = rx[j] /\ pump'[j] = pump[j]
      BY <1>15, ForwardedFacts DEF PumpForwards
    <3>2. Undisturbed(d)
      BY <2>2, <3>1 DEF Undisturbed, Owns
    <3> QED BY <3>2, UndisturbedKeeps
  <2> QED BY <2>1, <2>2
<1>16. ASSUME NEW k \in Conns, PumpReadsExit(k) PROVE ClientOK(d)'
  <2>1. CASE conn[d] = k
    <3>1. Serves(k, d)
      BY <2>1, <1>a, <1>c
    <3>2. /\ EndsWith(k, "exit") /\ pump[k] = "on"
          /\ UNCHANGED <<clientVars, next_seq, phase, since, reply>>
      BY <1>16 DEF PumpReadsExit
    <3> QED BY <1>16, <3>1, <3>2, EndedClient
  <2>2. CASE conn[d] # k
    <3>1. /\ UNCHANGED <<conn, mode, rendered, pending, shown, next_seq, reply, phase,
                         since, current, replay_requested, shell>>
          /\ \A j \in Conns : j # k => wire'[j] = wire[j] /\ rx'[j] = rx[j] /\ pump'[j] = pump[j]
      BY <1>16 DEF PumpReadsExit, EndsWith
    <3>2. Undisturbed(d)
      BY <2>2, <3>1 DEF Undisturbed, Owns
    <3> QED BY <3>2, UndisturbedKeeps
  <2> QED BY <2>1, <2>2
<1>17. ASSUME NEW k \in Conns, PumpReadsMarker(k) PROVE ClientOK(d)'
  <2>1. CASE conn[d] = k
    <3>1. Serves(k, d)
      BY <2>1, <1>a, <1>c
    <3>2. /\ EndsWith(k, "lagged") /\ pump[k] = "on"
          /\ UNCHANGED <<clientVars, next_seq, phase, since, reply>>
      BY <1>17 DEF PumpReadsMarker
    <3> QED BY <1>17, <3>1, <3>2, EndedClient
  <2>2. CASE conn[d] # k
    <3>1. /\ UNCHANGED <<conn, mode, rendered, pending, shown, next_seq, reply, phase,
                         since, current, replay_requested, shell>>
          /\ \A j \in Conns : j # k => wire'[j] = wire[j] /\ rx'[j] = rx[j] /\ pump'[j] = pump[j]
      BY <1>17 DEF PumpReadsMarker, EndsWith
    <3>2. Undisturbed(d)
      BY <2>2, <3>1 DEF Undisturbed, Owns
    <3> QED BY <3>2, UndisturbedKeeps
  <2> QED BY <2>1, <2>2
<1>18. ASSUME NEW k \in Conns, PumpSuperseded(k) PROVE ClientOK(d)'
  <2>1. CASE conn[d] = k
    <3>1. Serves(k, d)
      BY <2>1, <1>a, <1>c
    <3>2. /\ EndsWith(k, "superseded") /\ pump[k] = "on"
          /\ UNCHANGED <<clientVars, next_seq, phase, since, reply>>
      BY <1>18 DEF PumpSuperseded
    <3> QED BY <1>18, <3>1, <3>2, EndedClient
  <2>2. CASE conn[d] # k
    <3>1. /\ UNCHANGED <<conn, mode, rendered, pending, shown, next_seq, reply, phase,
                         since, current, replay_requested, shell>>
          /\ \A j \in Conns : j # k => wire'[j] = wire[j] /\ rx'[j] = rx[j] /\ pump'[j] = pump[j]
      BY <1>18 DEF PumpSuperseded, EndsWith
    <3>2. Undisturbed(d)
      BY <2>2, <3>1 DEF Undisturbed, Owns
    <3> QED BY <3>2, UndisturbedKeeps
  <2> QED BY <2>1, <2>2
<1>19. ASSUME NEW c \in Clients, GetsReady(c) PROVE ClientOK(d)'
  <2>1. CASE d = c
    <3>1. Serves(conn[d], d)
      BY <1>19, <2>1, <1>a DEF GetsReady, Incoming
    <3> QED BY <1>19, <2>1, <3>1, ReadyClient
  <2>2. CASE d # c
    <3>1. /\ UNCHANGED <<next_seq, rx, reply, pump, phase, since, current,
                         replay_requested, shell>>
          /\ \A j \in Conns : j # conn[c] => wire'[j] = wire[j]
          /\ conn'[d] = conn[d] /\ mode'[d] = mode[d] /\ rendered'[d] = rendered[d]
          /\ pending'[d] = pending[d] /\ shown'[d] = shown[d]
      BY <1>19, <2>2 DEF GetsReady, Consumes, Hangs
    <3>2. conn[d] # Nobody => conn[d] # conn[c]
      BY <2>2 DEF LinksOK
    <3>3. Undisturbed(d)
      BY <2>2, <3>1, <3>2 DEF Undisturbed, Owns
    <3> QED BY <3>3, UndisturbedKeeps
  <2> QED BY <2>1, <2>2
<1>20. ASSUME NEW c \in Clients, GetsData(c) PROVE ClientOK(d)'
  <2>1. CASE d = c
    <3>1. Serves(conn[d], d)
      BY <1>20, <2>1, <1>a DEF GetsData, Incoming
    <3> QED BY <1>20, <2>1, <3>1, DataClient
  <2>2. CASE d # c
    <3>1. /\ UNCHANGED <<next_seq, rx, reply, pump, phase, since, current,
                         replay_requested, shell>>
          /\ \A j \in Conns : j # conn[c] => wire'[j] = wire[j]
          /\ conn'[d] = conn[d] /\ mode'[d] = mode[d] /\ rendered'[d] = rendered[d]
          /\ pending'[d] = pending[d] /\ shown'[d] = shown[d]
      BY <1>20, <2>2 DEF GetsData, Consumes, Hangs
    <3>2. conn[d] # Nobody => conn[d] # conn[c]
      BY <2>2 DEF LinksOK
    <3>3. Undisturbed(d)
      BY <2>2, <3>1, <3>2 DEF Undisturbed, Owns
    <3> QED BY <3>3, UndisturbedKeeps
  <2> QED BY <2>1, <2>2
<1>21. ASSUME NEW c \in Clients, GetsTruncated(c) PROVE ClientOK(d)'
  <2>1. CASE d = c
    <3>1. Serves(conn[d], d)
      BY <1>21, <2>1, <1>a DEF GetsTruncated, Incoming
    <3> QED BY <1>21, <2>1, <3>1, TruncatedClient
  <2>2. CASE d # c
    <3>1. /\ UNCHANGED <<next_seq, rx, reply, pump, phase, since, current,
                         replay_requested, shell>>
          /\ \A j \in Conns : j # conn[c] => wire'[j] = wire[j]
          /\ conn'[d] = conn[d] /\ mode'[d] = mode[d] /\ rendered'[d] = rendered[d]
          /\ pending'[d] = pending[d] /\ shown'[d] = shown[d]
      BY <1>21, <2>2 DEF GetsTruncated, Consumes, Hangs
    <3>2. conn[d] # Nobody => conn[d] # conn[c]
      BY <2>2 DEF LinksOK
    <3>3. Undisturbed(d)
      BY <2>2, <3>1, <3>2 DEF Undisturbed, Owns
    <3> QED BY <3>3, UndisturbedKeeps
  <2> QED BY <2>1, <2>2
<1>22. ASSUME NEW c \in Clients, GetsFinal(c) PROVE ClientOK(d)'
  <2>1. CASE d = c
    <3>0. PICK t \in {"exit", "superseded", "gone", "lagged"} : Incoming(d, t)
      BY <1>22, <2>1 DEF GetsFinal
    <3>1. /\ conn[d] # Nobody /\ Serves(conn[d], d)
          /\ UNCHANGED <<agentVars, next_seq, pending, shown>>
          /\ rendered'[d] \in {rendered[d], 0}
          /\ mode'[d] \in {"over", "ended"}
      BY <1>22, <2>1, <3>0, <1>a DEF GetsFinal, Incoming
    <3>2. CASE AppClient
      <4>1. conn'[d] = Nobody /\ mode'[d] = "ended"
        BY <1>22, <2>1, <3>2 DEF GetsFinal, Hangs
      <4> QED BY <3>1, <4>1, HungClient
    <3>3. CASE ~AppClient
      <4>1. Consumes(d) /\ UNCHANGED <<link, conn>>
        BY <1>22, <2>1, <3>3 DEF GetsFinal
      <4>2. rendered'[d] = rendered[d] \/ mode'[d] = "ended"
        <5>1. rendered'[d] = rendered[d] \/ Incoming(d, "gone")
          BY <1>22, <2>1 DEF GetsFinal
        <5>2. Incoming(d, "gone") => ~Incoming(d, "superseded")
          BY DEF Incoming
        <5>3. mode'[d] = "ended" \/ Incoming(d, "superseded")
          BY <1>22, <2>1 DEF GetsFinal
        <5> QED BY <5>1, <5>2, <5>3
      <4> QED BY <3>0, <3>1, <4>1, <4>2, FinalClient
    <3> QED BY <3>2, <3>3
  <2>2. CASE d # c
    <3>1. /\ UNCHANGED <<next_seq, rx, reply, pump, phase, since, current,
                         replay_requested, shell, pending, shown>>
          /\ mode'[d] = mode[d] /\ rendered'[d] = rendered[d]
      BY <1>22, <2>2 DEF GetsFinal
    <3>4. /\ \A j \in Conns : j # conn[c] => wire'[j] = wire[j]
          /\ conn'[d] = conn[d]
      <4>1. Hangs(c) \/ (Consumes(c) /\ UNCHANGED conn)
        BY <1>22 DEF GetsFinal
      <4>2. CASE Hangs(c)
        BY <2>2, <4>2 DEF Hangs, QueuesOK
      <4>3. CASE Consumes(c) /\ UNCHANGED conn
        BY <4>3 DEF Consumes, QueuesOK
      <4> QED BY <4>1, <4>2, <4>3
    <3>2. conn[d] # Nobody => conn[d] # conn[c]
      BY <2>2 DEF LinksOK
    <3>3. Undisturbed(d)
      BY <2>2, <3>1, <3>2, <3>4 DEF Undisturbed, Owns
    <3> QED BY <3>3, UndisturbedKeeps
  <2> QED BY <2>1, <2>2
<1>23. ASSUME NEW c \in Clients, GetsLagged(c) PROVE ClientOK(d)'
  <2>1. CASE d = c
    <3>1. /\ Incoming(d, "lagged") /\ Consumes(d) /\ Serves(conn[d], d)
          /\ UNCHANGED <<agentVars, link, conn, pending, shown, rendered, mode>>
      BY <1>23, <2>1, <1>a DEF GetsLagged, Incoming
    <3> QED BY <3>1, FinalClient
  <2>2. CASE d # c
    <3>1. /\ UNCHANGED <<next_seq, rx, reply, pump, phase, since, current,
                         replay_requested, shell>>
          /\ \A j \in Conns : j # conn[c] => wire'[j] = wire[j]
          /\ conn'[d] = conn[d] /\ mode'[d] = mode[d] /\ rendered'[d] = rendered[d]
          /\ pending'[d] = pending[d] /\ shown'[d] = shown[d]
      BY <1>23, <2>2 DEF GetsLagged, Consumes, Hangs
    <3>2. conn[d] # Nobody => conn[d] # conn[c]
      BY <2>2 DEF LinksOK
    <3>3. Undisturbed(d)
      BY <2>2, <3>1, <3>2 DEF Undisturbed, Owns
    <3> QED BY <3>3, UndisturbedKeeps
  <2> QED BY <2>1, <2>2
<1>24. ASSUME NEW c \in Clients, GetsClose(c) PROVE ClientOK(d)'
  <2>1. CASE d = c
    <3>1. /\ conn'[d] = Nobody
          /\ UNCHANGED <<next_seq, pending, shown, rendered, mode>>
      BY <1>24, <2>1 DEF GetsClose, Hangs
    <3>2. ~WipePending(d)
      <4>1. conn[d] \in Conns /\ wire[conn[d]][1].t = "close"
        <5>1. Incoming(d, "close")
          BY <1>24, <2>1 DEF GetsClose
        <5>2. Serves(conn[d], d) /\ "close" \in FrameKinds
          BY <5>1, <1>a DEF Incoming, FrameKinds
        <5> QED BY <5>1, <5>2, ReadingClient
      <4> QED BY <4>1 DEF WipePending
    <3> QED BY <3>1, <3>2, HungClient
  <2>2. CASE d # c
    <3>1. /\ UNCHANGED <<next_seq, rx, reply, pump, phase, since, current,
                         replay_requested, shell>>
          /\ \A j \in Conns : j # conn[c] => wire'[j] = wire[j]
          /\ conn'[d] = conn[d] /\ mode'[d] = mode[d] /\ rendered'[d] = rendered[d]
          /\ pending'[d] = pending[d] /\ shown'[d] = shown[d]
      BY <1>24, <2>2 DEF GetsClose, Consumes, Hangs
    <3>2. conn[d] # Nobody => conn[d] # conn[c]
      BY <2>2 DEF LinksOK
    <3>3. Undisturbed(d)
      BY <2>2, <3>1, <3>2 DEF Undisturbed, Owns
    <3> QED BY <3>3, UndisturbedKeeps
  <2> QED BY <2>1, <2>2
<1>25. ASSUME NEW c \in Clients, Paints(c) PROVE ClientOK(d)'
  <2>1. CASE d = c
    BY <1>25, <2>1, PaintedClient
  <2>2. CASE d # c
    <3>1. /\ UNCHANGED <<next_seq, wire, rx, reply, pump, phase, since, current,
                         replay_requested, shell>>
          /\ conn'[d] = conn[d] /\ mode'[d] = mode[d] /\ rendered'[d] = rendered[d]
          /\ pending'[d] = pending[d] /\ shown'[d] = shown[d]
      BY <1>25, <2>2 DEF Paints
    <3>2. Undisturbed(d)
      BY <3>1 DEF Undisturbed, Owns
    <3> QED BY <3>2, UndisturbedKeeps
  <2> QED BY <2>1, <2>2
<1>26. ASSUME NEW c \in Clients, Reconnects(c) PROVE ClientOK(d)'
  <2>0. PICK k \in Conns : OpensSocket(c, k)
    BY <1>26 DEF Reconnects
  <2>1. CASE d = c
    <3>1. conn[d] = Nobody /\ mode[d] # "ended" /\ mode'[d] = "live"
      BY <1>26, <2>1 DEF Reconnects
    <3>2. Attaching(k)
      BY <1>b
    <3> QED BY <2>0, <2>1, <3>1, <3>2, OpenedClient
  <2>2. CASE d # c
    <3>1. /\ UNCHANGED <<next_seq, wire, rx, reply, pump, current, replay_requested, shell>>
          /\ conn'[d] = conn[d] /\ mode'[d] = mode[d] /\ rendered'[d] = rendered[d]
          /\ pending'[d] = pending[d] /\ shown'[d] = shown[d]
          /\ \A j \in Conns : j # k => phase'[j] = phase[j] /\ since'[j] = since[j]
      BY <1>26, <2>0, <2>2 DEF Reconnects, OpensSocket
    <3>2. conn[d] # k
      BY <2>0, <1>c DEF OpensSocket, LinksOK
    <3>3. Undisturbed(d)
      BY <3>1, <3>2 DEF Undisturbed, Owns
    <3> QED BY <3>3, UndisturbedKeeps
  <2> QED BY <2>1, <2>2
<1>27. ASSUME NEW c \in Clients, Resumes(c) PROVE ClientOK(d)'
  <2>0. PICK k \in Conns : OpensSocket(c, k)
    BY <1>27 DEF Resumes
  <2>1. CASE d = c
    <3>1. conn[d] = Nobody /\ mode[d] # "ended" /\ mode'[d] = "live"
      BY <1>27, <2>1 DEF Resumes
    <3>2. Attaching(k)
      BY <1>b
    <3> QED BY <2>0, <2>1, <3>1, <3>2, OpenedClient
  <2>2. CASE d # c
    <3>1. /\ UNCHANGED <<next_seq, wire, rx, reply, pump, current, replay_requested, shell>>
          /\ conn'[d] = conn[d] /\ mode'[d] = mode[d] /\ rendered'[d] = rendered[d]
          /\ pending'[d] = pending[d] /\ shown'[d] = shown[d]
          /\ \A j \in Conns : j # k => phase'[j] = phase[j] /\ since'[j] = since[j]
      BY <1>27, <2>0, <2>2 DEF Resumes, OpensSocket
    <3>2. conn[d] # k
      BY <2>0, <1>c DEF OpensSocket, LinksOK
    <3>3. Undisturbed(d)
      BY <3>1, <3>2 DEF Undisturbed, Owns
    <3> QED BY <3>3, UndisturbedKeeps
  <2> QED BY <2>1, <2>2
<1>28. ASSUME NEW c \in Clients, UserCloses(c) PROVE ClientOK(d)'
  <2>1. CASE d = c
    <3>1. /\ conn'[d] = Nobody /\ mode'[d] = "ended" /\ UNCHANGED <<next_seq, shown>>
          /\ rendered'[d] \in {rendered[d], 0} /\ pending'[d] \in {pending[d], 0}
      BY <1>28, <2>1 DEF UserCloses, Hangs
    <3> QED BY <3>1, HungClient
  <2>2. CASE d # c
    <3>1. /\ UNCHANGED <<next_seq, rx, reply, pump, phase, since, current,
                         replay_requested, shell>>
          /\ \A j \in Conns : j # conn[c] => wire'[j] = wire[j]
          /\ conn'[d] = conn[d] /\ mode'[d] = mode[d] /\ rendered'[d] = rendered[d]
          /\ pending'[d] = pending[d] /\ shown'[d] = shown[d]
      BY <1>28, <2>2 DEF UserCloses, Consumes, Hangs
    <3>2. conn[d] # Nobody => conn[d] # conn[c]
      BY <2>2 DEF LinksOK
    <3>3. Undisturbed(d)
      BY <2>2, <3>1, <3>2 DEF Undisturbed, Owns
    <3> QED BY <3>3, UndisturbedKeeps
  <2> QED BY <2>1, <2>2
<1>29. ASSUME NEW c \in Clients, LinkDrops(c) PROVE ClientOK(d)'
  <2>1. CASE d = c
    <3>1. /\ conn'[d] = Nobody /\ conn[d] # Nobody /\ ~Incoming(d, "truncated")
          /\ UNCHANGED <<next_seq, pending, shown, rendered, mode>>
      BY <1>29, <2>1 DEF LinkDrops, Hangs
    <3>2. ~WipePending(d)
      <4>1. wire[conn[d]] # << >> => Head(wire[conn[d]]) = wire[conn[d]][1]
        <5>1. wire[conn[d]] \in Seq(Frame)
          BY <3>1 DEF QueuesOK
        <5> QED BY <5>1, HeadTailProperties
      <4> QED BY <3>1, <4>1 DEF WipePending, Incoming
    <3> QED BY <3>1, <3>2, HungClient
  <2>2. CASE d # c
    <3>1. /\ UNCHANGED <<next_seq, rx, reply, pump, phase, since, current,
                         replay_requested, shell>>
          /\ \A j \in Conns : j # conn[c] => wire'[j] = wire[j]
          /\ conn'[d] = conn[d] /\ mode'[d] = mode[d] /\ rendered'[d] = rendered[d]
          /\ pending'[d] = pending[d] /\ shown'[d] = shown[d]
      BY <1>29, <2>2 DEF LinkDrops, Consumes, Hangs
    <3>2. conn[d] # Nobody => conn[d] # conn[c]
      BY <2>2 DEF LinksOK
    <3>3. Undisturbed(d)
      BY <2>2, <3>1, <3>2 DEF Undisturbed, Owns
    <3> QED BY <3>3, UndisturbedKeeps
  <2> QED BY <2>1, <2>2
<1>30. CASE UNCHANGED vars
  <2>1. Undisturbed(d)
    BY <1>30 DEF vars, Undisturbed, Owns
  <2> QED BY <2>1, UndisturbedKeeps
<1> QED
  BY <1>1, <1>2, <1>3, <1>4, <1>5, <1>6, <1>7, <1>8, <1>9, <1>10, <1>11, <1>12, <1>13,
     <1>14, <1>15, <1>16, <1>17, <1>18, <1>19, <1>20, <1>21, <1>22, <1>23, <1>24,
     <1>25, <1>26, <1>27, <1>28, <1>29, <1>30
  DEF Next, ShellTask, Reaper, Handler, Pump, Receives, Client

-------------------------------------------------------------------------------
(* The invariant holds.                                                    *)

(* In the first state the one connection's `ready` is on its way. *)
LEMMA InitStream == Init => StreamInv
<1> SUFFICES ASSUME Init PROVE StreamInv
  OBVIOUS
<1>0. TypeOK
  BY InitTypes
<1> PICK opener \in Clients :
    /\ next_seq = 0 /\ current = 1 /\ replay_requested = FALSE /\ shell = "running"
    /\ phase = [k \in Conns |-> IF k = 1 THEN "running" ELSE "unused"]
    /\ since = [k \in Conns |-> 0]
    /\ reply = [k \in Conns |-> NoReply]
    /\ rx = [k \in Conns |-> << >>]
    /\ marker = [k \in Conns |-> FALSE]
    /\ pump = [k \in Conns |-> IF k = 1 THEN "on" ELSE "none"]
    /\ link = [k \in Conns |-> IF k = 1 THEN "up" ELSE "none"]
    /\ wire = [k \in Conns |-> IF k = 1 THEN <<Ready(0)>> ELSE << >>]
    /\ conn = [c \in Clients |-> IF c = opener THEN 1 ELSE Nobody]
    /\ mode = [c \in Clients |-> IF c = opener THEN "live" ELSE "over"]
    /\ rendered = [c \in Clients |-> 0]
    /\ pending = [c \in Clients |-> 0]
    /\ shown = [c \in Clients |-> {}]
  BY DEF Init
<1>1. 1 \in Conns /\ 1 # Nobody /\ Nobody \notin Conns
  BY BoundsAssumption DEF Conns, Nobody
<1> DEFINE f == Ready(0)
           q == <<f>>
<1>2. Len(q) = 1 /\ q[1] = f /\ f.t = "ready" /\ f.lo = 0 /\ q # << >>
  BY DEF Ready
<1>3. NoReply.t = "none" /\ NoReply.lo = 0 /\ NoReply.n = 0
  BY DEF NoReply, Signal
<1>4. \A k \in Conns : /\ wire[k] = IF k = 1 THEN q ELSE << >>
                       /\ rx[k] = << >> /\ reply[k] = NoReply
  OBVIOUS
<1>40. \A i \in 1..Len(q) : i = 1
  BY <1>2
<1>41. Len(<< >>) = 0
  OBVIOUS
<1> HIDE DEF f, q
<1>5. LinksOK
  BY <1>1, <1>4 DEF LinksOK
<1>6. AttachingOK
  <2> SUFFICES ASSUME NEW k \in Conns PROVE Attaching(k)
    BY DEF AttachingOK
  <2> QED BY <1>1, <1>4, <1>41 DEF Attaching, Unattached
<1>7. PumpOK
  <2> SUFFICES ASSUME NEW k \in Conns PROVE Pumping(k)
    BY DEF PumpOK
  <2>1. \A i \in 1..Len(wire[k]) : wire[k][i].t = "ready"
    BY <1>2, <1>4, <1>40, <1>41
  <2> QED BY <1>4, <1>41, <2>1 DEF Pumping
<1>8. OrderOK
  <2> SUFFICES ASSUME NEW k \in Conns PROVE Ordering(k)
    BY DEF OrderOK
  <2>1. OrderedRx(rx[k])
    BY <1>4, <1>41 DEF OrderedRx
  <2>2. OrderedWire(wire[k])
    <3>1. CASE k = 1
      BY <1>2, <1>4, <1>40, <3>1 DEF OrderedWire
    <3>2. CASE k # 1
      BY <1>4, <1>41, <3>2 DEF OrderedWire
    <3> QED BY <3>1, <3>2
  <2>3. EndsOnce(wire[k])
    <3>1. CASE k = 1
      BY <1>2, <1>4, <3>1, ShortEnds
    <3>2. CASE k # 1
      BY <1>4, <1>41, <3>2 DEF EndsOnce
    <3> QED BY <3>1, <3>2
  <2> QED BY <2>1, <2>2, <2>3 DEF Ordering
<1>9. BoundsOK
  <2>1. ASSUME NEW k \in Conns PROVE Bounded(k)
    <3>1. Within(rx[k], 0)
      BY <1>4, <1>41 DEF Within
    <3>2. Within(wire[k], 0)
      <4>1. CASE k = 1
        BY <1>2, <1>4, <1>40, <4>1 DEF Within
      <4>2. CASE k # 1
        BY <1>4, <1>41, <4>2 DEF Within
      <4> QED BY <4>1, <4>2
    <3> QED BY <1>3, <3>1, <3>2 DEF Bounded
  <2>2. \A c \in Clients : Behind(c)
    BY DEF Behind
  <2> QED BY <2>1, <2>2 DEF BoundsOK
<1>10. ResumesOK
  <2> SUFFICES ASSUME NEW c \in Clients PROVE Resuming(c)
    BY DEF ResumesOK
  <2> QED BY <1>1, <1>2, <1>4 DEF Resuming
<1>11. ChainOK
  <2> SUFFICES ASSUME NEW c \in Clients, c = opener PROVE Chained(c)
    BY DEF ChainOK, Chained
  <2>1. wire[1] = q /\ rx[1] = << >> /\ reply[1] = NoReply /\ conn[c] = 1
    BY <1>1, <1>4
  <2>2. Base(c) = 0
    BY <1>2, <2>1 DEF Base, Starts
  <2>3. Contiguous(q, 0)
    BY <1>2, <1>40 DEF Contiguous
  <2>4. Follows(c) = 0
    BY <1>2, <2>1, <2>2 DEF Follows, EndOf
  <2>5. Contiguous(<< >>, 0) /\ EndOf(<< >>, 0) = 0
    BY <1>41 DEF Contiguous, EndOf
  <2> QED BY <2>1, <2>2, <2>3, <2>4, <2>5 DEF Chained
<1>12. ScreensOK
  BY DEF ScreensOK, Screened, Joined
<1> QED BY <1>0, <1>5, <1>6, <1>7, <1>8, <1>9, <1>10, <1>11, <1>12 DEF StreamInv

LEMMA StreamStep ==
  ASSUME ~CutReply
  PROVE  StreamInv /\ [Next]_vars => StreamInv'
<1> SUFFICES ASSUME StreamInv, [Next]_vars PROVE StreamInv'
  OBVIOUS
<1>1. TypeOK'
  BY QueuesInductive, ControlInductive DEF TypeOK, StreamInv
<1>2. LinksOK' /\ AttachingOK' /\ PumpOK' /\ OrderOK'
  BY LinksStep, AttachingStep, PumpStep, OrderStep
<1>3. (\A k \in Conns : Bounded(k))' /\ (\A c \in Clients : ClientOK(c))'
  BY BoundedStep, ClientStep
<1>4. BoundsOK' /\ ResumesOK' /\ ChainOK' /\ ScreensOK'
  BY <1>3 DEF ClientOK, BoundsOK, ResumesOK, ChainOK, ScreensOK
<1> QED BY <1>1, <1>2, <1>4 DEF StreamInv

-------------------------------------------------------------------------------
(* Every step is a step of OutputView, or none of its business. *)

LEMMA ScreenGrows ==
  ASSUME StreamInv, NEW c \in Clients, GetsData(c)
  PROVE  View!Extend(c)
<1>1. TypeOK /\ LinksOK /\ ClientOK(c) /\ conn[c] # Nobody
  BY DEF StreamInv, BoundsOK, ResumesOK, ChainOK, ScreensOK, ClientOK, GetsData, Incoming
<1>2. Serves(conn[c], c)
  BY <1>1 DEF Serves, StreamInv, LinksOK, TypeOK, ControlOK, AttachingOK, PumpOK,
     OrderOK, BoundsOK
<1> DEFINE lo == wire[conn[c]][1].lo
           n == wire[conn[c]][1].n
<1>3. /\ lo = rendered[c] + pending[c] /\ n \in Nat /\ lo + n <= next_seq
      /\ rendered[c] \in Nat /\ pending[c] \in Nat /\ next_seq \in Nat
      /\ shown'[c] = shown[c] \cup (lo + 1)..(lo + n)
      /\ \A d \in Clients : d # c => shown'[d] = shown[d]
      /\ Joined(c)
  BY <1>1, <1>2, DataRead
<1> HIDE DEF lo, n
<1>4. lo \in 0..next_seq /\ lo + n \in lo..next_seq /\ lo \in rendered[c]..(rendered[c] + pending[c])
  BY <1>3
<1>5. shown[c] = {} \/ {lo, lo + 1} \cap shown[c] # {}
  BY <1>3, <1>4 DEF Joined, Joins
<1>6. shown' = [shown EXCEPT ![c] = @ \cup (lo + 1)..(lo + n)]
  <2>1. shown \in [Clients -> SUBSET Nat] /\ shown' = [shown EXCEPT ![c] = shown'[c]]
    BY <1>1 DEF GetsData, TypeOK, ControlOK
  <2> QED BY <1>3, <2>1
<1>7. next_seq' = next_seq
  BY DEF GetsData, agentVars, sessionVars
<1> QED BY <1>4, <1>5, <1>6, <1>7 DEF View!Extend

LEMMA StepIsViewed == StreamInv /\ [Next]_vars => [View!Next]_(View!vars)
<1> SUFFICES ASSUME StreamInv, [Next]_vars PROVE [View!Next]_(View!vars)
  OBVIOUS
<1> USE DEF View!vars
<1>1. ASSUME NEW n \in 1..MaxChunk, ShellWrites(n) PROVE [View!Next]_(View!vars)
  <2>1. next_seq' = next_seq + n /\ Publish(Output(next_seq, n)) /\ next_seq \in Nat /\ n \in Nat /\ n > 0
    BY <1>1, BoundsAssumption DEF ShellWrites, StreamInv, TypeOK, ControlOK
  <2>2. UNCHANGED shown
    BY <2>1 DEF Publish, clientVars
  <2> QED BY <2>1, <2>2 DEF View!Next, View!Produce
<1>2. ASSUME ShellExits PROVE [View!Next]_(View!vars)
  BY <1>2 DEF ShellExits, Publish, sessionVars, clientVars, agentVars
<1>3. ASSUME ShellLost PROVE [View!Next]_(View!vars)
  BY <1>3 DEF ShellLost, sessionVars, clientVars, agentVars
<1>4. ASSUME ShellReadsClose PROVE [View!Next]_(View!vars)
  BY <1>4 DEF ShellReadsClose, sessionVars, clientVars, agentVars
<1>5. ASSUME ShellCleansUp PROVE [View!Next]_(View!vars)
  BY <1>5 DEF ShellCleansUp, sessionVars, clientVars, agentVars
<1>6. ASSUME ReaperTakes PROVE [View!Next]_(View!vars)
  BY <1>6 DEF ReaperTakes, sessionVars, clientVars, agentVars
<1>7. ASSUME ReaperTerminates PROVE [View!Next]_(View!vars)
  BY <1>7 DEF ReaperTerminates, sessionVars, clientVars, agentVars
<1>8. ASSUME NEW k \in Conns, AttachLooksUp(k) PROVE [View!Next]_(View!vars)
  BY <1>8 DEF AttachLooksUp, sessionVars, clientVars, agentVars
<1>9. ASSUME NEW k \in Conns, AttachRefused(k) PROVE [View!Next]_(View!vars)
  BY <1>9 DEF AttachRefused, sessionVars, clientVars, agentVars
<1>10. ASSUME NEW k \in Conns, AttachInstalls(k) PROVE [View!Next]_(View!vars)
  BY <1>10 DEF AttachInstalls, sessionVars, clientVars, agentVars
<1>11. ASSUME NEW k \in Conns, AttachReplies(k) PROVE [View!Next]_(View!vars)
  BY <1>11 DEF AttachReplies, sessionVars, clientVars, agentVars
<1>12. ASSUME NEW k \in Conns, HandlesClose(k) PROVE [View!Next]_(View!vars)
  BY <1>12 DEF HandlesClose, sessionVars, clientVars, agentVars
<1>13. ASSUME NEW k \in Conns, NoticesDisconnect(k) PROVE [View!Next]_(View!vars)
  BY <1>13 DEF NoticesDisconnect, sessionVars, clientVars, agentVars
<1>14. ASSUME NEW k \in Conns, MarkerQueued(k) PROVE [View!Next]_(View!vars)
  BY <1>14 DEF MarkerQueued, sessionVars, clientVars, agentVars
<1>15. ASSUME NEW k \in Conns, PumpForwards(k) PROVE [View!Next]_(View!vars)
  BY <1>15 DEF PumpForwards, sessionVars, clientVars, agentVars
<1>16. ASSUME NEW k \in Conns, PumpReadsExit(k) PROVE [View!Next]_(View!vars)
  BY <1>16 DEF PumpReadsExit, sessionVars, clientVars, agentVars
<1>17. ASSUME NEW k \in Conns, PumpReadsMarker(k) PROVE [View!Next]_(View!vars)
  BY <1>17 DEF PumpReadsMarker, sessionVars, clientVars, agentVars
<1>18. ASSUME NEW k \in Conns, PumpSuperseded(k) PROVE [View!Next]_(View!vars)
  BY <1>18 DEF PumpSuperseded, sessionVars, clientVars, agentVars
<1>19. ASSUME NEW c \in Clients, GetsReady(c) PROVE [View!Next]_(View!vars)
  BY <1>19 DEF GetsReady, sessionVars, clientVars, agentVars
<1>20. ASSUME NEW c \in Clients, GetsData(c) PROVE [View!Next]_(View!vars)
  BY <1>20, ScreenGrows DEF View!Next
<1>21. ASSUME NEW c \in Clients, GetsTruncated(c) PROVE [View!Next]_(View!vars)
  BY <1>21 DEF GetsTruncated, agentVars, sessionVars, View!Next, View!Wipe
<1>22. ASSUME NEW c \in Clients, GetsFinal(c) PROVE [View!Next]_(View!vars)
  BY <1>22 DEF GetsFinal, sessionVars, clientVars, agentVars
<1>23. ASSUME NEW c \in Clients, GetsLagged(c) PROVE [View!Next]_(View!vars)
  BY <1>23 DEF GetsLagged, sessionVars, clientVars, agentVars
<1>24. ASSUME NEW c \in Clients, GetsClose(c) PROVE [View!Next]_(View!vars)
  BY <1>24 DEF GetsClose, sessionVars, clientVars, agentVars
<1>25. ASSUME NEW c \in Clients, Paints(c) PROVE [View!Next]_(View!vars)
  BY <1>25 DEF Paints, sessionVars, clientVars, agentVars
<1>26. ASSUME NEW c \in Clients, Reconnects(c) PROVE [View!Next]_(View!vars)
  BY <1>26 DEF Reconnects, OpensSocket, sessionVars, clientVars, agentVars
<1>27. ASSUME NEW c \in Clients, Resumes(c) PROVE [View!Next]_(View!vars)
  BY <1>27 DEF Resumes, OpensSocket, sessionVars, clientVars, agentVars
<1>28. ASSUME NEW c \in Clients, UserCloses(c) PROVE [View!Next]_(View!vars)
  BY <1>28 DEF UserCloses, sessionVars, clientVars, agentVars
<1>29. ASSUME NEW c \in Clients, LinkDrops(c) PROVE [View!Next]_(View!vars)
  BY <1>29 DEF LinkDrops, sessionVars, clientVars, agentVars
<1>30. CASE UNCHANGED vars
  BY <1>30 DEF vars, sessionVars, clientVars
<1> QED
  BY <1>1, <1>2, <1>3, <1>4, <1>5, <1>6, <1>7, <1>8, <1>9, <1>10, <1>11, <1>12, <1>13,
     <1>14, <1>15, <1>16, <1>17, <1>18, <1>19, <1>20, <1>21, <1>22, <1>23, <1>24,
     <1>25, <1>26, <1>27, <1>28, <1>29, <1>30
  DEF Next, ShellTask, Reaper, Handler, Pump, Receives, Client

(* The whole of the machinery implements OutputView: a screen only grows   *)
(* at its end or is wiped, across reconnects, takeovers, overflow of the   *)
(* output queue and loss of the replay buffer's start, unless a link dies  *)
(* exactly between `ready` and `gap_truncated` (session.rs, Scrollback,    *)
(* publish and attach; the clients' handling of ready and gap_truncated).  *)
THEOREM StreamImplementsView ==
  ASSUME ~CutReply
  PROVE  Spec => ImplementsView
<1>1. StreamInv /\ [Next]_vars => StreamInv'
  BY StreamStep
<1>2. Init => View!Init
  BY DEF Init, View!Init
<1> QED BY <1>1, <1>2, InitStream, StepIsViewed, PTL DEF Spec, ImplementsView, View!Spec

(* No byte is skipped on any screen (session.rs, Scrollback and            *)
(* Session::attach).                                                       *)
Promise == INSTANCE OutputViewProofs WITH produced <- next_seq

THEOREM ScreensStayWhole ==
  ASSUME ~CutReply
  PROVE  Spec => []ScreenHasNoHole
<1>1. StreamInv /\ [Next]_vars => StreamInv'
  BY StreamStep
<1>2. Init => Promise!IInv
  BY DEF Init, Promise!IInv, Promise!UnbrokenScreens
<1>3. Promise!IInv /\ [Promise!Next]_(Promise!vars) => Promise!IInv'
  BY Promise!Step
<1>4. [View!Next]_(View!vars) => [Promise!Next]_(Promise!vars)
  BY DEF View!Next, View!vars, View!Produce, View!Extend, View!Wipe,
         Promise!Next, Promise!vars, Promise!Produce, Promise!Extend, Promise!Wipe
<1>5. Promise!IInv => ScreenHasNoHole
  BY DEF Promise!IInv, Promise!UnbrokenScreens, ScreenHasNoHole
<1> QED BY <1>1, <1>2, <1>3, <1>4, <1>5, InitStream, StepIsViewed, PTL DEF Spec
===============================================================================
