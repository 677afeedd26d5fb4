---------------------------- MODULE TerminalStream ----------------------------
(***************************************************************************)
(* One terminal session of the agent, the WebSocket connections that drive *)
(* it one after another, and the clients at their far ends.                *)
(*                                                                         *)
(*   Session          src/monitor/src/api/ws/session.rs                    *)
(*   connections      src/monitor/src/api/ws/terminal.rs                   *)
(*   panel client     src/monitor/frontend/src/lib/terminal.svelte.ts      *)
(*   app client       src/lib/core/utils/monitor_terminal.dart             *)
(*                                                                         *)
(* Output is counted, not spelled out: byte number p of the shell's output *)
(* is the integer p, a chunk a position and a length.  The replay buffer is *)
(* the window of the newest Capacity bytes; module Scrollback models the   *)
(* buffer itself and its theorem HoldsNewestOutput justifies the window.   *)
(*                                                                         *)
(* A connection attaches at most once, so the connection's number stands   *)
(* for its AttachmentId.  Keyboard input, resizing and the audit log leave *)
(* this state alone and are left out.                                      *)
(***************************************************************************)
EXTENDS Integers, Sequences, FiniteSets

CONSTANTS
  Clients,       \* the tabs (or the app) that hold the session's handle
  AppClient,     \* TRUE: the client is the app; FALSE: the clients are panel tabs
  Capacity,      \* remote_access.terminal.scrollback_bytes
  OutputQueue,   \* OUTPUT_QUEUE
  MaxBytes,      \* bound: output the shell produces
  MaxChunk,      \* bound: bytes in one read of the PTY
  MaxConns,      \* bound: connections ever opened
  CutReply       \* whether a link may die between `ready` and `gap_truncated`

Conns == 1..MaxConns
Nobody == 0

ASSUME BoundsAssumption ==
  /\ Capacity \in Nat
  /\ OutputQueue \in Nat \ {0}
  /\ MaxBytes \in Nat
  /\ MaxChunk \in Nat
  /\ MaxConns \in Nat \ {0}

(* The app keeps its handle in memory, so no second client can hold it. *)
ASSUME ClientsAssumption ==
  /\ AppClient \in BOOLEAN
  /\ CutReply \in BOOLEAN
  /\ AppClient => \A c, d \in Clients : c = d

VARIABLES
  \* --- the Session object, the store's entry for it, and its shell task ---
  next_seq,          \* bytes produced so far
  current,           \* the connection whose sender is installed, or Nobody
  detached,          \* detached_at is set
  closed,            \* no further attach
  replay_requested,  \* live output withheld until the next attach
  in_store,          \* the SessionStore maps the handle to it
  expired,           \* taken out of the store as expired, not closed yet
  shell,             \* the shell task
  input_close,       \* SessionInput::Close is on its way to the shell task
  \* --- per connection, on the agent ---
  phase,
  since,             \* the resume point an attach frame carried; 0 once used
  reply,             \* what the attach handler has still to write
  rx,                \* the output channel
  marker,            \* a task waits to queue ReplayRequired on that channel
  pump,
  \* --- per connection, the link ---
  link,
  wire,              \* frames written by the agent and not yet delivered
  close_sent,        \* ClientMsg::Close on its way to the agent
  \* --- per client ---
  conn,              \* the connection in use, or Nobody
  mode,
  rendered,          \* the resume counter
  pending,           \* bytes handed to the renderer, not yet acknowledged
  shown              \* the bytes on the screen

sessionVars == <<next_seq, current, detached, closed, replay_requested>>
storeVars   == <<in_store, expired>>
shellVars   == <<shell, input_close>>
handlerVars == <<phase, since, reply>>
pumpVars    == <<rx, marker, pump>>
linkVars    == <<link, wire, close_sent>>
clientVars  == <<conn, mode, rendered, pending, shown>>
vars == <<sessionVars, storeVars, shellVars, handlerVars, pumpVars, linkVars,
          clientVars>>

-------------------------------------------------------------------------------
(* Frames and queue entries *)

(* Output is the n bytes after position lo; `ready` carries a position. *)
Output(lo, n) == [t |-> "data", lo |-> lo, n |-> n]
Ready(at)     == [t |-> "ready", lo |-> at, n |-> 0]
Signal(t)     == [t |-> t, lo |-> 0, n |-> 0]
NoReply       == Signal("none")

OutputKinds == {"data", "exit", "replay"}
FrameKinds  == {"data", "ready", "truncated", "exit", "lagged", "superseded",
                "gone", "close"}
ReplyKinds  == {"gap", "cut", "none"}

Tagged(kinds) == [t : kinds, lo : Nat, n : Nat]

Entry == Tagged(OutputKinds)   \* what the output channel carries
Frame == Tagged(FrameKinds)    \* what the socket carries

(* Where the buffer starts: everything before has been dropped. *)
StartSeq == IF next_seq > Capacity THEN next_seq - Capacity ELSE 0

(* Whatever holds the Session, and with it the installed sender: the store, *)
(* the reaper, the shell task, an attach handler, a Running connection.    *)
SessionAlive ==
  \/ in_store
  \/ expired
  \/ shell # "ended"
  \/ \E k \in Conns : phase[k] \in {"found", "running"} \/ reply[k] # NoReply

(* Mutant: a takeover keeps the previous sender. *)
SenderKept(k) == marker[k] \/ SessionAlive

SenderAlive(k) == marker[k] \/ (current = k /\ SessionAlive)

(* Frames written to a socket the agent believes open; they reach the      *)
(* client only while the link is.                                          *)
Written(k, frames) == IF link[k] = "up" THEN wire[k] \o frames ELSE << >>

-------------------------------------------------------------------------------
(* A session just opened by one client: the shell runs, its connection is  *)
(* Running, and `ready` is on the wire.  Other tabs are duplicates of the  *)
(* opener's: they hold the handle and an empty screen.                     *)
Init ==
  \E opener \in Clients :
    /\ next_seq = 0
    /\ current = 1
    /\ detached = FALSE
    /\ closed = FALSE
    /\ replay_requested = FALSE
    /\ in_store = TRUE
    /\ expired = FALSE
    /\ shell = "running"
    /\ input_close = FALSE
    /\ phase = [k \in Conns |-> IF k = 1 THEN "running" ELSE "unused"]
    /\ since = [k \in Conns |-> 0]
    /\ reply = [k \in Conns |-> NoReply]
    /\ rx = [k \in Conns |-> << >>]
    /\ marker = [k \in Conns |-> FALSE]
    /\ pump = [k \in Conns |-> IF k = 1 THEN "on" ELSE "none"]
    /\ link = [k \in Conns |-> IF k = 1 THEN "up" ELSE "none"]
    /\ wire = [k \in Conns |-> IF k = 1 THEN <<Ready(0)>> ELSE << >>]
    /\ close_sent = [k \in Conns |-> FALSE]
    /\ conn = [c \in Clients |-> IF c = opener THEN 1 ELSE Nobody]
    /\ mode = [c \in Clients |-> IF c = opener THEN "live" ELSE "over"]
    /\ rendered = [c \in Clients |-> 0]
    /\ pending = [c \in Clients |-> 0]
    /\ shown = [c \in Clients |-> {}]

-------------------------------------------------------------------------------
(* Session::publish, for the connection whose sender is installed          *)

Withheld == replay_requested \/ current = Nobody

PublishDropped ==
  /\ Withheld
  /\ UNCHANGED <<current, detached, replay_requested, rx, marker>>

PublishQueued(out) ==
  /\ ~Withheld
  /\ pump[current] # "ended"
  /\ Len(rx[current]) < OutputQueue
  /\ rx' = [rx EXCEPT ![current] = Append(@, out)]
  /\ UNCHANGED <<current, detached, replay_requested, marker>>

(* Mutant: the overflow is dropped and nobody told. *)
PublishSkips ==
  /\ ~Withheld
  /\ pump[current] # "ended"
  /\ Len(rx[current]) >= OutputQueue
  /\ UNCHANGED <<current, detached, replay_requested, rx, marker>>

(* Mutant: the marker is tried once, on the queue that is full, and lost. *)
LagsUntold ==
  /\ ~Withheld
  /\ pump[current] # "ended"
  /\ Len(rx[current]) >= OutputQueue
  /\ replay_requested' = TRUE
  /\ UNCHANGED <<current, detached, rx, marker>>

(* The queue is full: stop live output; a task queues the marker later. *)
PublishLags ==
  /\ ~Withheld
  /\ pump[current] # "ended"
  /\ Len(rx[current]) >= OutputQueue
  /\ replay_requested' = TRUE
  /\ marker' = [marker EXCEPT ![current] = TRUE]
  /\ UNCHANGED <<current, detached, rx>>

(* The pump is gone and its receiver with it. *)
PublishFindsClosed ==
  /\ ~Withheld
  /\ pump[current] = "ended"
  /\ current' = Nobody
  /\ detached' = TRUE
  /\ UNCHANGED <<replay_requested, rx, marker>>

Publish(out) ==
  /\ \/ PublishDropped
     \/ PublishQueued(out)
     \/ PublishLags
     \/ PublishFindsClosed
  /\ UNCHANGED <<closed, storeVars, input_close, handlerVars, pump, linkVars,
                 clientVars>>

-------------------------------------------------------------------------------
(* The shell task: drive_shell and drive_local_shell *)

ShellWrites(n) ==
  /\ shell = "running"
  /\ next_seq + n <= MaxBytes
  /\ next_seq' = next_seq + n
  /\ Publish(Output(next_seq, n))
  /\ UNCHANGED shell

ShellExits ==
  /\ shell = "running"
  /\ shell' = "ending"
  /\ Publish(Signal("exit"))
  /\ UNCHANGED next_seq

(* The channel is gone without an exit status, or a write to it failed. *)
ShellLost ==
  /\ shell = "running"
  /\ shell' = "ending"
  /\ UNCHANGED <<sessionVars, storeVars, input_close, handlerVars, pumpVars,
                 linkVars, clientVars>>

ShellReadsClose ==
  /\ shell = "running"
  /\ input_close
  /\ shell' = "ending"
  /\ UNCHANGED <<sessionVars, storeVars, input_close, handlerVars, pumpVars,
                 linkVars, clientVars>>

(* After eof and disconnect: the handle stops working. *)
ShellCleansUp ==
  /\ shell = "ending"
  /\ shell' = "ended"
  /\ in_store' = FALSE
  /\ UNCHANGED <<sessionVars, expired, input_close, handlerVars, pumpVars,
                 linkVars, clientVars>>

-------------------------------------------------------------------------------
(* The reaper: reap_at takes the expired entry under the store's lock and  *)
(* terminates it afterwards.  Any time may have passed since the detach.   *)

ReaperTakes ==
  /\ in_store
  /\ detached
  /\ in_store' = FALSE
  /\ expired' = TRUE
  /\ UNCHANGED <<sessionVars, shellVars, handlerVars, pumpVars, linkVars,
                 clientVars>>

ReaperTerminates ==
  /\ expired
  /\ expired' = FALSE
  /\ closed' = TRUE
  /\ detached' = TRUE
  /\ current' = Nobody
  /\ input_close' = TRUE
  /\ UNCHANGED <<next_seq, replay_requested, in_store, shell, handlerVars,
                 pumpVars, linkVars, clientVars>>

-------------------------------------------------------------------------------
(* A connection's handlers *)

(* attach: the store lookup.  A refusal goes back to Idle. *)
AttachLooksUp(k) ==
  /\ phase[k] = "attaching"
  /\ phase' = [phase EXCEPT ![k] = IF in_store THEN "found" ELSE "idle"]
  /\ wire' = [wire EXCEPT ![k] =
                IF in_store THEN @ ELSE Written(k, <<Signal("gone")>>)]
  /\ since' = [since EXCEPT ![k] = IF in_store THEN @ ELSE 0]
  /\ UNCHANGED <<sessionVars, storeVars, shellVars, reply, pumpVars, link,
                 close_sent, clientVars>>

(* Session::attach refuses a session that has been closed. *)
AttachRefused(k) ==
  /\ phase[k] = "found"
  /\ closed
  /\ phase' = [phase EXCEPT ![k] = "idle"]
  /\ wire' = [wire EXCEPT ![k] = Written(k, <<Signal("gone")>>)]
  /\ since' = [since EXCEPT ![k] = 0]
  /\ UNCHANGED <<sessionVars, storeVars, shellVars, reply, pumpVars, link,
                 close_sent, clientVars>>

(* replay_from: the gap alone while the buffer reaches back far enough,    *)
(* else all that is left of it.                                            *)
ReplayFrom(from) ==
  IF from >= next_seq THEN [t |-> "gap", lo |-> from, n |-> 0]
  ELSE IF from < StartSeq
    THEN [t |-> "cut", lo |-> StartSeq, n |-> next_seq - StartSeq]
    ELSE [t |-> "gap", lo |-> from, n |-> next_seq - from]

(* Mutant: attach leaves detached_at as it was. *)
InstallsLeavingClock(k) ==
  /\ phase[k] = "found"
  /\ ~closed
  /\ current' = k
  /\ replay_requested' = FALSE
  /\ reply' = [reply EXCEPT ![k] = ReplayFrom(since[k])]
  /\ phase' = [phase EXCEPT ![k] = "running"]
  /\ since' = [since EXCEPT ![k] = 0]
  /\ UNCHANGED <<next_seq, detached, closed, storeVars, shellVars, pumpVars, linkVars,
                 clientVars>>

(* Session::attach: the replay is read and the sender installed under one  *)
(* lock, then the connection is Running.                                   *)
AttachInstalls(k) ==
  /\ phase[k] = "found"
  /\ ~closed
  /\ current' = k
  /\ detached' = FALSE
  /\ replay_requested' = FALSE
  /\ reply' = [reply EXCEPT ![k] = ReplayFrom(since[k])]
  /\ phase' = [phase EXCEPT ![k] = "running"]
  /\ since' = [since EXCEPT ![k] = 0]
  /\ UNCHANGED <<next_seq, closed, storeVars, shellVars, pumpVars, linkVars,
                 clientVars>>

(* The frames of the reply, in the order they are written. *)
ReplyFrames(r) ==
  <<Ready(r.lo)>>
    \o (IF r.t = "cut" THEN <<Signal("truncated")>> ELSE << >>)
    \o (IF r.n > 0 THEN <<Output(r.lo, r.n)>> ELSE << >>)

AttachReplies(k) ==
  /\ reply[k] # NoReply
  /\ wire' = [wire EXCEPT ![k] = Written(k, ReplyFrames(reply[k]))]
  /\ reply' = [reply EXCEPT ![k] = NoReply]
  /\ pump' = [pump EXCEPT ![k] = "on"]
  /\ UNCHANGED <<sessionVars, storeVars, shellVars, phase, since, rx, marker, link,
                 close_sent, clientVars>>

(* ClientMsg::Close: the session leaves the store and its shell is told to *)
(* end, whichever connection is attached by now.                           *)
HandlesClose(k) ==
  /\ close_sent[k]
  /\ phase[k] \in {"running", "idle"}
  /\ close_sent' = [close_sent EXCEPT ![k] = FALSE]
  /\ IF phase[k] = "running"
       THEN in_store' = FALSE /\ input_close' = TRUE
       ELSE UNCHANGED <<in_store, input_close>>
  /\ phase' = [phase EXCEPT ![k] = "done"]
  /\ UNCHANGED <<sessionVars, expired, shell, since, reply, pumpVars, link, wire,
                 clientVars>>

(* Mutant: a late disconnect unseats whoever owns the session.             *)
DisconnectUnseats(k) ==
  /\ link[k] = "lost"
  /\ phase[k] # "found"
  /\ link' = [link EXCEPT ![k] = "gone"]
  /\ close_sent' = [close_sent EXCEPT ![k] = FALSE]
  /\ phase' = [phase EXCEPT ![k] = "done"]
  /\ since' = [since EXCEPT ![k] = 0]
  /\ IF phase[k] = "running"
       THEN current' = Nobody /\ detached' = TRUE
       ELSE UNCHANGED <<current, detached>>
  /\ UNCHANGED <<next_seq, closed, replay_requested, storeVars, shellVars, reply,
                 pumpVars, wire, clientVars>>

(* on_disconnect, or the peer's Close frame: detach if still the owner. *)
NoticesDisconnect(k) ==
  /\ link[k] = "lost"
  /\ phase[k] # "found"
  /\ link' = [link EXCEPT ![k] = "gone"]
  /\ close_sent' = [close_sent EXCEPT ![k] = FALSE]
  /\ phase' = [phase EXCEPT ![k] = "done"]
  /\ since' = [since EXCEPT ![k] = 0]
  /\ IF phase[k] = "running" /\ current = k
       THEN current' = Nobody /\ detached' = TRUE
       ELSE UNCHANGED <<current, detached>>
  /\ UNCHANGED <<next_seq, closed, replay_requested, storeVars, shellVars, reply,
                 pumpVars, wire, clientVars>>

-------------------------------------------------------------------------------
(* pump_output, and the task publish spawns when the queue is full *)

MarkerQueued(k) ==
  /\ marker[k]
  /\ \/ /\ pump[k] = "ended"
        /\ UNCHANGED rx
     \/ /\ pump[k] # "ended"
        /\ Len(rx[k]) < OutputQueue
        /\ rx' = [rx EXCEPT ![k] = Append(@, Signal("replay"))]
  /\ marker' = [marker EXCEPT ![k] = FALSE]
  /\ UNCHANGED <<sessionVars, storeVars, shellVars, handlerVars, pump, linkVars,
                 clientVars>>

(* The last frames of a pump: what it ends with, then Close. *)
EndsWith(k, t) ==
  /\ wire' = [wire EXCEPT ![k] = Written(k, <<Signal(t), Signal("close")>>)]
  /\ pump' = [pump EXCEPT ![k] = "ended"]
  /\ rx' = [rx EXCEPT ![k] = << >>]

PumpForwards(k) ==
  /\ pump[k] = "on"
  /\ rx[k] # << >>
  /\ Head(rx[k]).t = "data"
  /\ IF link[k] = "gone"
       THEN /\ pump' = [pump EXCEPT ![k] = "ended"]
            /\ rx' = [rx EXCEPT ![k] = << >>]
            /\ UNCHANGED wire
       ELSE /\ wire' = [wire EXCEPT ![k] = Written(k, <<Head(rx[k])>>)]
            /\ rx' = [rx EXCEPT ![k] = Tail(@)]
            /\ UNCHANGED pump
  /\ UNCHANGED <<sessionVars, storeVars, shellVars, handlerVars, marker, link,
                 close_sent, clientVars>>

PumpReadsExit(k) ==
  /\ pump[k] = "on"
  /\ rx[k] # << >>
  /\ Head(rx[k]).t = "exit"
  /\ EndsWith(k, "exit")
  /\ UNCHANGED <<sessionVars, storeVars, shellVars, handlerVars, marker, link,
                 close_sent, clientVars>>

PumpReadsMarker(k) ==
  /\ pump[k] = "on"
  /\ rx[k] # << >>
  /\ Head(rx[k]).t = "replay"
  /\ EndsWith(k, "lagged")
  /\ UNCHANGED <<sessionVars, storeVars, shellVars, handlerVars, marker, link,
                 close_sent, clientVars>>

(* The channel is drained and every sender is gone. *)
PumpSuperseded(k) ==
  /\ pump[k] = "on"
  /\ rx[k] = << >>
  /\ ~SenderAlive(k)
  /\ EndsWith(k, "superseded")
  /\ UNCHANGED <<sessionVars, storeVars, shellVars, handlerVars, marker, link,
                 close_sent, clientVars>>

-------------------------------------------------------------------------------
(* Clients *)

(* Nothing the old socket still says is heard any more. *)
Hangs(c) ==
  /\ conn' = [conn EXCEPT ![c] = Nobody]
  /\ link' = [link EXCEPT ![conn[c]] = "lost"]
  /\ wire' = [wire EXCEPT ![conn[c]] = << >>]

(* Opens a socket and sends attach with the resume counter.  Completions   *)
(* of older renders no longer count.                                       *)
OpensSocket(c, k) ==
  /\ phase[k] = "unused"
  /\ \A j \in Conns : j < k => phase[j] # "unused"
  /\ phase' = [phase EXCEPT ![k] = "attaching"]
  /\ since' = [since EXCEPT ![k] = rendered[c]]
  /\ link' = [link EXCEPT ![k] = "up"]
  /\ conn' = [conn EXCEPT ![c] = k]
  /\ pending' = [pending EXCEPT ![c] = 0]
  /\ UNCHANGED <<sessionVars, storeVars, shellVars, reply, pumpVars, wire,
                 close_sent, rendered, shown>>

(* The automatic reconnect after a lost link. *)
Reconnects(c) ==
  /\ mode[c] = "live"
  /\ conn[c] = Nobody
  /\ \E k \in Conns : OpensSocket(c, k)
  /\ UNCHANGED mode

(* The user of a tab rejoins the stored session: an explicit choice. *)
Resumes(c) ==
  /\ mode[c] = "over"
  /\ conn[c] = Nobody
  /\ \E k \in Conns : OpensSocket(c, k)
  /\ mode' = [mode EXCEPT ![c] = "live"]

Incoming(c, t) ==
  /\ conn[c] # Nobody
  /\ wire[conn[c]] # << >>
  /\ Head(wire[conn[c]]).t = t

Consumes(c) == wire' = [wire EXCEPT ![conn[c]] = Tail(@)]

agentVars == <<sessionVars, storeVars, shellVars, handlerVars, pumpVars, close_sent>>

GetsReady(c) ==
  /\ Incoming(c, "ready")
  /\ Consumes(c)
  /\ rendered' = [rendered EXCEPT ![c] = Head(wire[conn[c]]).lo]
  /\ UNCHANGED <<agentVars, link, conn, mode, pending, shown>>

(* The app counts bytes as they arrive, the panel once they are painted. *)
GetsData(c) ==
  /\ Incoming(c, "data")
  /\ Consumes(c)
  /\ LET d == Head(wire[conn[c]])
     IN  /\ shown' = [shown EXCEPT ![c] = @ \cup (d.lo + 1)..(d.lo + d.n)]
         /\ IF AppClient
              THEN /\ rendered' = [rendered EXCEPT ![c] = @ + d.n]
                   /\ UNCHANGED pending
              ELSE /\ pending' = [pending EXCEPT ![c] = @ + d.n]
                   /\ UNCHANGED rendered
  /\ UNCHANGED <<agentVars, link, conn, mode>>

(* The renderer acknowledges a write. *)
Paints(c) ==
  /\ \E n \in 1..pending[c] :
       /\ rendered' = [rendered EXCEPT ![c] = @ + n]
       /\ pending' = [pending EXCEPT ![c] = @ - n]
  /\ UNCHANGED <<agentVars, link, wire, conn, mode, shown>>

(* Mutant: the screen is not reset. *)
KeepsScreen(c) ==
  /\ Incoming(c, "truncated")
  /\ Consumes(c)
  /\ UNCHANGED <<agentVars, link, conn, mode, rendered, pending, shown>>

GetsTruncated(c) ==
  /\ Incoming(c, "truncated")
  /\ Consumes(c)
  /\ shown' = [shown EXCEPT ![c] = {}]
  /\ UNCHANGED <<agentVars, link, conn, mode, rendered, pending>>

(* Frames after which the client does not reconnect by itself.  A panel    *)
(* tab waits for the agent's Close; the app hangs up at once, and has no   *)
(* way to resume.  To the app output_lagged is such a frame too.           *)
GetsFinal(c) ==
  /\ \/ Incoming(c, "exit") \/ Incoming(c, "superseded") \/ Incoming(c, "gone")
     \/ AppClient /\ Incoming(c, "lagged")
  /\ mode' = [mode EXCEPT ![c] =
                IF Incoming(c, "superseded") /\ ~AppClient THEN "over" ELSE "ended"]
  /\ rendered' = [rendered EXCEPT ![c] =
                    IF Incoming(c, "gone") /\ ~AppClient THEN 0 ELSE @]
  /\ IF AppClient THEN Hangs(c) ELSE Consumes(c) /\ UNCHANGED <<conn, link>>
  /\ UNCHANGED <<agentVars, pending, shown>>

GetsLagged(c) ==
  /\ ~AppClient
  /\ Incoming(c, "lagged")
  /\ Consumes(c)
  /\ UNCHANGED <<agentVars, link, conn, mode, rendered, pending, shown>>

GetsClose(c) ==
  /\ Incoming(c, "close")
  /\ Hangs(c)
  /\ UNCHANGED <<agentVars, mode, rendered, pending, shown>>

(* The user ends the session; the handle is forgotten. *)
UserCloses(c) ==
  /\ mode[c] = "live"
  /\ conn[c] # Nobody
  /\ mode' = [mode EXCEPT ![c] = "ended"]
  /\ close_sent' = [close_sent EXCEPT ![conn[c]] = TRUE]
  /\ rendered' = [rendered EXCEPT ![c] = IF AppClient THEN @ ELSE 0]
  /\ pending' = [pending EXCEPT ![c] = 0]
  /\ Hangs(c)
  /\ UNCHANGED <<sessionVars, storeVars, shellVars, handlerVars, pumpVars, shown>>

(* The link dies, or its heartbeat is given up on. *)
LinkDrops(c) ==
  /\ conn[c] # Nobody
  /\ CutReply \/ ~Incoming(c, "truncated")
  /\ Hangs(c)
  /\ UNCHANGED <<agentVars, mode, rendered, pending, shown>>

-------------------------------------------------------------------------------

ShellTask ==
  \/ \E n \in 1..MaxChunk : ShellWrites(n)
  \/ ShellExits
  \/ ShellLost
  \/ ShellReadsClose
  \/ ShellCleansUp

Reaper == ReaperTakes \/ ReaperTerminates

Handler(k) ==
  \/ AttachLooksUp(k)
  \/ AttachRefused(k)
  \/ AttachInstalls(k)
  \/ AttachReplies(k)
  \/ HandlesClose(k)
  \/ NoticesDisconnect(k)

Pump(k) ==
  \/ MarkerQueued(k)
  \/ PumpForwards(k)
  \/ PumpReadsExit(k)
  \/ PumpReadsMarker(k)
  \/ PumpSuperseded(k)

Receives(c) ==
  \/ GetsReady(c)
  \/ GetsData(c)
  \/ GetsTruncated(c)
  \/ GetsFinal(c)
  \/ GetsLagged(c)
  \/ GetsClose(c)

Client(c) ==
  \/ Receives(c)
  \/ Paints(c)
  \/ Reconnects(c)
  \/ Resumes(c)
  \/ UserCloses(c)
  \/ LinkDrops(c)

Next ==
  \/ ShellTask
  \/ Reaper
  \/ \E k \in Conns : Handler(k) \/ Pump(k)
  \/ \E c \in Clients : Client(c)

Spec == Init /\ [][Next]_vars

(* Tasks the runtime schedules keep running, a dead link is noticed in the *)
(* end (the heartbeat's write fails) and the reaper comes round (it loops  *)
(* on a timer).  What the shell, the user and the network do is left open. *)
Fairness ==
  /\ WF_vars(ShellReadsClose)
  /\ WF_vars(ShellCleansUp)
  /\ WF_vars(ReaperTakes)
  /\ WF_vars(ReaperTerminates)
  /\ \A k \in Conns : WF_vars(Handler(k)) /\ WF_vars(Pump(k))
  /\ \A c \in Clients : WF_vars(Receives(c))

FairSpec == Spec /\ Fairness

-------------------------------------------------------------------------------
(* Safety *)

ControlOK ==
  /\ next_seq \in Nat
  /\ current \in Conns \cup {Nobody}
  /\ detached \in BOOLEAN
  /\ closed \in BOOLEAN
  /\ replay_requested \in BOOLEAN
  /\ in_store \in BOOLEAN
  /\ expired \in BOOLEAN
  /\ shell \in {"running", "ending", "ended"}
  /\ input_close \in BOOLEAN
  /\ phase \in [Conns -> {"unused", "attaching", "found", "idle", "running", "done"}]
  /\ since \in [Conns -> Nat]
  /\ marker \in [Conns -> BOOLEAN]
  /\ pump \in [Conns -> {"none", "on", "ended"}]
  /\ link \in [Conns -> {"none", "up", "lost", "gone"}]
  /\ close_sent \in [Conns -> BOOLEAN]
  /\ conn \in [Clients -> Conns \cup {Nobody}]
  /\ mode \in [Clients -> {"live", "over", "ended"}]
  /\ rendered \in [Clients -> Nat]
  /\ pending \in [Clients -> Nat]
  /\ shown \in [Clients -> SUBSET Nat]

QueuesOK ==
  /\ reply \in [Conns -> Tagged(ReplyKinds)]
  /\ rx \in [Conns -> Seq(Entry)]
  /\ wire \in [Conns -> Seq(Frame)]

TypeOK == ControlOK /\ QueuesOK

(* A screen is one unbroken run of the shell's output: across reconnects,  *)
(* takeovers and a queue that overflowed, no byte is skipped unless the    *)
(* screen was reset first (session.rs, Scrollback and Session::attach).    *)
ScreenHasNoHole ==
  \A c \in Clients : \A p, q \in shown[c] : p..q \subseteq shown[c]

(* detached_at is set exactly while no sender is installed; the reaper     *)
(* goes by it alone (session.rs, take_expired).                            *)
DetachedIffUnowned == detached <=> current = Nobody

-------------------------------------------------------------------------------
(* Action properties *)

(* The reaper never takes a session out from under a connection that owns  *)
(* it at that moment (session.rs, reap_at).                                *)
ReaperSparesTheAttached ==
  [][(expired' /\ ~expired) => current = Nobody]_vars

(* Of the steps this module has, only the end of the owner's connection    *)
(* and the reaper's termination leave a session without an owner: an older *)
(* connection that dies late does not (session.rs, Session::detach).  The  *)
(* full-access switch, which closes local shells under their owners, is in *)
(* SessionLifecycle and not here.                                          *)
StaleConnectionsDoNotUnseat ==
  [][(current # Nobody /\ current' = Nobody)
       => \/ link[current] # "up"
          \/ pump[current] = "ended"
          \/ expired]_vars

-------------------------------------------------------------------------------
(* Refinement *)

View == INSTANCE OutputView WITH produced <- next_seq

(* The whole of the machinery implements the plain view of OutputView: a   *)
(* screen only ever grows at its end or is wiped (session.rs, Scrollback,  *)
(* publish and attach; the clients' handling of ready and gap_truncated).  *)
ImplementsView == View!Spec

-------------------------------------------------------------------------------
(* Liveness *)

(* A connection whose session was taken over, or reaped, is closed rather  *)
(* than left open and quiet (terminal.rs, pump_output).                    *)
SupersededIsClosed ==
  \A k \in Conns : (pump[k] = "on" /\ current # k) ~> pump[k] = "ended"

(* Every byte the shell writes reaches the screen of the client that owns  *)
(* the session, unless the session leaves that connection or the client is *)
(* off it.  An owner that falls behind is therefore not left on an open    *)
(* connection that has stopped: the marker gets through the full queue,    *)
(* output_lagged and Close follow, and the client hangs up                 *)
(* (session.rs, publish; terminal.rs, pump_output).                        *)
OutputReachesOwner ==
  \A c \in Clients : \A k \in Conns : \A p \in 1..MaxBytes :
    (conn[c] = k /\ current = k /\ mode[c] = "live" /\ next_seq = p)
      ~> \/ p \in shown[c]
         \/ conn[c] # k
         \/ current # k

-------------------------------------------------------------------------------
(* What the repository says and the code does not do *)

(* "Pumps a session's output into this WebSocket until it is taken over,   *)
(* the shell exits, or the socket dies" (terminal.rs): when the shell is   *)
(* gone, the connection that owns its session is not left open and quiet.  *)
OwnerLearnsShellIsGone ==
  \A k \in Conns :
    (shell = "ended" /\ pump[k] = "on" /\ link[k] = "up")
      ~> (pump[k] = "ended" \/ link[k] # "up")

=============================================================================
