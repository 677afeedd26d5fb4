--------------------------- MODULE SessionLifecycle ---------------------------
(***************************************************************************)
(* How terminal sessions come and go: several connections open, resume,    *)
(* answer prompts and hang up; handlers suspend at every await; the store  *)
(* caps, reaps and closes; an administrator turns local shells off.        *)
(*                                                                         *)
(*   connections and handlers    src/monitor/src/api/ws/terminal.rs        *)
(*   Session and SessionStore    src/monitor/src/api/ws/session.rs         *)
(*   disable_full_access         src/monitor/src/api/server.rs             *)
(*                                                                         *)
(* Output is left to TerminalStream: here a session is owned or not.  One  *)
(* element of Handlers is one call of on_control that got as far as        *)
(* claiming its connection.  A handler starts at most one shell, so its    *)
(* number also names that shell, its Session and its handle.               *)
(*                                                                         *)
(* All tasks of one connection share a thread and its state is an Rc: they *)
(* interleave at awaits only.  The store, the sessions and the switch are  *)
(* shared by threads and interleave at every lock or atomic access.        *)
(***************************************************************************)
EXTENDS Integers, FiniteSets

CONSTANTS
  Conns,         \* WebSocket connections
  Secure,        \* those the startup settings would allow a local shell
  MaxHandlers,   \* bound: handlers that ever claim a connection
  MaxSessions    \* remote_access.terminal.max_sessions

Handlers == 1..MaxHandlers
Nobody == 0
Nothing == 0

ASSUME ConnsAssumption == Nobody \notin Conns /\ Secure \subseteq Conns
ASSUME MaxHandlersAssumption == MaxHandlers \in Nat
ASSUME MaxSessionsAssumption == MaxSessions \in Nat

VARIABLES
  \* --- per connection ---
  up,           \* the socket is open
  phase,
  running,      \* the session of a Running connection
  deadline,     \* the handler whose prompt is outstanding
  timers,       \* prompts whose timeout task still sleeps
  \* --- per handler ---
  at,           \* where it is
  conn,         \* the connection it claimed
  target,       \* the session it resumes
  \* --- per session ---
  auth,
  shell,        \* open: held by its handler; driven: held by its task
  current,      \* the connection whose sender is installed
  detached,     \* detached_at is set
  closed,       \* no further attach
  input_close,  \* SessionInput::Close is queued
  \* --- the store and the switch ---
  in_store,     \* sessions a handle still reaches
  condemned,    \* taken out of the store, not closed yet
  access_off,   \* AppState::full_access_off
  swept         \* close_local has emptied the store of local shells

connVars    == <<up, phase, running, deadline, timers>>
handlerVars == <<at, conn, target>>
sessionVars == <<auth, shell, current, detached, closed, input_close>>
storeVars   == <<in_store, condemned>>
switchVars  == <<access_off, swept>>
vars == <<connVars, handlerVars, sessionVars, storeVars, switchVars>>

-------------------------------------------------------------------------------
(* Where a handler is suspended in an await, and where it runs on.         *)
Awaiting == {"connecting", "authenticating", "starting", "refused"}
OnThread == {"spawned", "inserted", "checked", "found", "cleared"}
InFlight(h) == at[h] \in Awaiting \cup OnThread

(* No other task of a connection runs while a handler of it does. *)
Busy(k) == \E h \in Handlers : conn[h] = k /\ at[h] \in OnThread

(* full_access_allowed: the startup settings minus the switch. *)
LocalAllowed(k) == k \in Secure /\ ~access_off

(* reset_opening, on a phase *)
Reset(p) == IF p = "opening" THEN "idle" ELSE p

Moves(h, place) == at' = [at EXCEPT ![h] = place]

(* The handler returns, leaving its connection to the next frame. *)
Refuses(h) ==
  /\ Moves(h, "done")
  /\ phase' = [phase EXCEPT ![conn[h]] = Reset(@)]

-------------------------------------------------------------------------------
Init ==
  /\ up = [k \in Conns |-> TRUE]
  /\ phase = [k \in Conns |-> "idle"]
  /\ running = [k \in Conns |-> Nothing]
  /\ deadline = [k \in Conns |-> Nothing]
  /\ timers = {}
  /\ at = [h \in Handlers |-> "unused"]
  /\ conn = [h \in Handlers |-> Nobody]
  /\ target = [h \in Handlers |-> Nothing]
  /\ auth = [s \in Handlers |-> "Ssh"]
  /\ shell = [s \in Handlers |-> "none"]
  /\ current = [s \in Handlers |-> Nobody]
  /\ detached = [s \in Handlers |-> FALSE]
  /\ closed = [s \in Handlers |-> FALSE]
  /\ input_close = [s \in Handlers |-> FALSE]
  /\ in_store = {}
  /\ condemned = {}
  /\ access_off = FALSE
  /\ swept = FALSE

-------------------------------------------------------------------------------
(* Frames that claim the connection.  One that cannot is answered          *)
(* bad_request and changes nothing.                                        *)

Claims(k, h, from) ==
  /\ at[h] = "unused"
  /\ \A g \in Handlers : g < h => at[g] # "unused"
  /\ up[k]
  /\ ~Busy(k)
  /\ phase[k] = from
  /\ phase' = [phase EXCEPT ![k] = "opening"]
  /\ conn' = [conn EXCEPT ![h] = k]

OpensSsh(k, h) ==
  /\ Claims(k, h, "idle")
  /\ Moves(h, "connecting")
  /\ UNCHANGED <<up, running, deadline, timers, target, sessionVars, storeVars,
                 switchVars>>

(* open_local refuses, or fails to spawn and says so. *)
OpensLocal(k, h) ==
  /\ Claims(k, h, "idle")
  /\ \/ /\ LocalAllowed(k)
        /\ Moves(h, "spawned")
        /\ shell' = [shell EXCEPT ![h] = "open"]
        /\ auth' = [auth EXCEPT ![h] = "Local"]
     \/ /\ Moves(h, "refused")
        /\ UNCHANGED <<shell, auth>>
  /\ UNCHANGED <<up, running, deadline, timers, target, current, detached, closed,
                 input_close, storeVars, switchVars>>

(* attach, as far as the store's answer; `ready` told the client the       *)
(* handle, so its opener is done.                                          *)
Resumes(k, h, s) ==
  /\ Claims(k, h, "idle")
  /\ at[s] = "done"
  /\ target' = [target EXCEPT ![h] = IF s \in in_store THEN s ELSE Nothing]
  /\ Moves(h, IF s \in in_store THEN "found" ELSE "refused")
  /\ UNCHANGED <<up, running, deadline, timers, sessionVars, storeVars, switchVars>>

Answers(k, h) ==
  /\ Claims(k, h, "authenticating")
  /\ Moves(h, "authenticating")
  /\ deadline' = [deadline EXCEPT ![k] = Nothing]
  /\ UNCHANGED <<up, running, timers, target, sessionVars, storeVars, switchVars>>

-------------------------------------------------------------------------------
(* open, answer and start_shell after their awaits *)

Claimed(h) == phase[conn[h]] = "opening"

(* An error, a timeout, or the audit record of a refusal is written. *)
Fails(h) ==
  /\ at[h] \in Awaiting
  /\ Refuses(h)
  /\ UNCHANGED <<up, running, deadline, timers, conn, target, sessionVars, storeVars,
                 switchVars>>

Connects(h) ==
  /\ at[h] = "connecting"
  /\ Moves(h, IF Claimed(h) THEN "authenticating" ELSE "done")
  /\ UNCHANGED <<connVars, conn, target, sessionVars, storeVars, switchVars>>

Authenticates(h) ==
  /\ at[h] = "authenticating"
  /\ Moves(h, IF Claimed(h) THEN "starting" ELSE "done")
  /\ UNCHANGED <<connVars, conn, target, sessionVars, storeVars, switchVars>>

Prompts(h) ==
  /\ at[h] = "authenticating"
  /\ Moves(h, "done")
  /\ IF Claimed(h)
       THEN /\ phase' = [phase EXCEPT ![conn[h]] = "authenticating"]
            /\ deadline' = [deadline EXCEPT ![conn[h]] = h]
            /\ timers' = timers \cup {h}
       ELSE UNCHANGED <<phase, deadline, timers>>
  /\ UNCHANGED <<up, running, conn, target, sessionVars, storeVars, switchVars>>

(* The channel is open: unless the connection went away meanwhile, a       *)
(* Session is made for it.                                                 *)
OpensShell(h) ==
  /\ at[h] = "starting"
  /\ Moves(h, IF Claimed(h) THEN "spawned" ELSE "done")
  /\ shell' = [shell EXCEPT ![h] = IF Claimed(h) THEN "open" ELSE "dead"]
  /\ UNCHANGED <<connVars, conn, target, auth, current, detached, closed,
                 input_close, storeVars, switchVars>>

(* Mutant: the timeout task does not look at the phase it finds. *)
ExpiresBlindly(h) ==
  /\ h \in timers
  /\ ~Busy(conn[h])
  /\ timers' = timers \ {h}
  /\ phase' = [phase EXCEPT ![conn[h]] = IF @ = "over" THEN @ ELSE "idle"]
  /\ deadline' = [deadline EXCEPT ![conn[h]] = Nothing]
  /\ UNCHANGED <<up, running, handlerVars, sessionVars, storeVars, switchVars>>

(* A prompt's timeout task wakes; it acts only on its own prompt. *)
PromptExpires(h) ==
  /\ h \in timers
  /\ ~Busy(conn[h])
  /\ timers' = timers \ {h}
  /\ IF phase[conn[h]] = "authenticating" /\ deadline[conn[h]] = h
       THEN /\ phase' = [phase EXCEPT ![conn[h]] = "idle"]
            /\ deadline' = [deadline EXCEPT ![conn[h]] = Nothing]
       ELSE UNCHANGED <<phase, deadline>>
  /\ UNCHANGED <<up, running, handlerVars, sessionVars, storeVars, switchVars>>

-------------------------------------------------------------------------------
(* A shell becomes a session: insert, recheck, attach *)

(* Any of the detached may have been so for long enough. *)
Expirable == {s \in in_store : detached[s]}

(* Mutant: the cap admits one too many. *)
HasRoomForOneMore(left) == Cardinality(left) <= MaxSessions

HasRoom(left) == Cardinality(left) < MaxSessions

(* SessionStore::insert reaps under the lock it checks the cap under. *)
Inserts(h) ==
  /\ at[h] = "spawned"
  /\ \E gone \in SUBSET Expirable :
       LET left == in_store \ gone
       IN  /\ condemned' = condemned \cup gone
           /\ \/ /\ HasRoom(left)
                 /\ in_store' = left \cup {h}
                 /\ Moves(h, IF auth[h] = "Local" THEN "inserted" ELSE "checked")
                 /\ UNCHANGED <<phase, shell>>
              \/ /\ ~HasRoom(left)
                 /\ in_store' = left
                 /\ shell' = [shell EXCEPT ![h] = "dead"]
                 /\ Refuses(h)
  /\ UNCHANGED <<up, running, deadline, timers, conn, target, auth, current, detached,
                 closed, input_close, switchVars>>

(* Give up a session that is registered already. *)
Withdraws(h) ==
  /\ in_store' = in_store \ {h}
  /\ shell' = [shell EXCEPT ![h] = "dead"]
  /\ Refuses(h)

(* Mutant: open_local looks at the switch only once. *)
SkipsRecheck(h) ==
  /\ at[h] = "inserted"
  /\ Moves(h, "checked")
  /\ UNCHANGED <<connVars, conn, target, sessionVars, storeVars, switchVars>>

(* open_local looks at the switch a second time, once registered. *)
Rechecks(h) ==
  /\ at[h] = "inserted"
  /\ IF LocalAllowed(conn[h])
       THEN /\ Moves(h, "checked")
            /\ UNCHANGED <<in_store, shell, phase>>
       ELSE Withdraws(h)
  /\ UNCHANGED <<up, running, deadline, timers, conn, target, auth, current, detached,
                 closed, input_close, condemned, switchVars>>

(* Session::attach by the opener.  The task that drives the shell is       *)
(* spawned before the connection is Running; if it cannot be Running any   *)
(* more, that task is told to end.                                         *)
Starts(h) ==
  /\ at[h] = "checked"
  /\ ~closed[h]
  /\ Moves(h, "done")
  /\ current' = [current EXCEPT ![h] = conn[h]]
  /\ detached' = [detached EXCEPT ![h] = FALSE]
  /\ shell' = [shell EXCEPT ![h] = "driven"]
  /\ IF Claimed(h)
       THEN /\ phase' = [phase EXCEPT ![conn[h]] = "running"]
            /\ running' = [running EXCEPT ![conn[h]] = h]
            /\ UNCHANGED <<input_close, in_store>>
       ELSE /\ input_close' = [input_close EXCEPT ![h] = TRUE]
            /\ in_store' = in_store \ {h}
            /\ UNCHANGED <<phase, running>>
  /\ UNCHANGED <<up, deadline, timers, conn, target, auth, closed, condemned,
                 switchVars>>

StartsTooLate(h) ==
  /\ at[h] = "checked"
  /\ closed[h]
  /\ Withdraws(h)
  /\ UNCHANGED <<up, running, deadline, timers, conn, target, auth, current, detached,
                 closed, input_close, condemned, switchVars>>

-------------------------------------------------------------------------------
(* attach: the switch, then Session::attach *)

Checks(h) ==
  /\ at[h] = "found"
  /\ IF auth[target[h]] = "Local" /\ access_off
       THEN Refuses(h)
       ELSE Moves(h, "cleared") /\ UNCHANGED phase
  /\ UNCHANGED <<up, running, deadline, timers, conn, target, sessionVars, storeVars,
                 switchVars>>

Joins(h) ==
  LET s == target[h]
      k == conn[h]
  IN  /\ at[h] = "cleared"
      /\ ~closed[s]
      /\ Moves(h, "done")
      /\ IF Claimed(h)
           THEN /\ current' = [current EXCEPT ![s] = k]
                /\ detached' = [detached EXCEPT ![s] = FALSE]
                /\ phase' = [phase EXCEPT ![k] = "running"]
                /\ running' = [running EXCEPT ![k] = s]
           ELSE /\ current' = [current EXCEPT ![s] = Nobody]
                /\ detached' = [detached EXCEPT ![s] = TRUE]
                /\ UNCHANGED <<phase, running>>
      /\ UNCHANGED <<up, deadline, timers, conn, target, auth, shell, closed,
                     input_close, storeVars, switchVars>>

JoinsTooLate(h) ==
  /\ at[h] = "cleared"
  /\ closed[target[h]]
  /\ Refuses(h)
  /\ UNCHANGED <<up, running, deadline, timers, conn, target, sessionVars, storeVars,
                 switchVars>>

-------------------------------------------------------------------------------
(* The end of a connection *)

SocketDies(k) ==
  /\ up[k]
  /\ up' = [up EXCEPT ![k] = FALSE]
  /\ UNCHANGED <<phase, running, deadline, timers, handlerVars, sessionVars, storeVars,
                 switchVars>>

(* Session::detach: only the owner lets go. *)
Detaches(k) ==
  IF phase[k] = "running" /\ current[running[k]] = k
    THEN /\ current' = [current EXCEPT ![running[k]] = Nobody]
         /\ detached' = [detached EXCEPT ![running[k]] = TRUE]
    ELSE UNCHANGED <<current, detached>>

(* on_disconnect, or a Close frame from the peer. *)
ConnectionEnds(k) ==
  /\ ~Busy(k)
  /\ phase[k] # "over"
  /\ up' = [up EXCEPT ![k] = FALSE]
  /\ phase' = [phase EXCEPT ![k] = "over"]
  /\ running' = [running EXCEPT ![k] = Nothing]
  /\ deadline' = [deadline EXCEPT ![k] = Nothing]
  /\ Detaches(k)
  /\ UNCHANGED <<timers, handlerVars, auth, shell, closed, input_close, storeVars,
                 switchVars>>

(* Mutant: the handle is forgotten and the shell not told. *)
ForgetsOnClose(k) ==
  /\ up[k]
  /\ ~Busy(k)
  /\ phase[k] # "over"
  /\ phase' = [phase EXCEPT ![k] = "over"]
  /\ running' = [running EXCEPT ![k] = Nothing]
  /\ deadline' = [deadline EXCEPT ![k] = Nothing]
  /\ in_store' = in_store \ {running[k]}
  /\ UNCHANGED <<up, timers, handlerVars, sessionVars, condemned, switchVars>>

(* ClientMsg::Close, in any phase. *)
ClientCloses(k) ==
  /\ up[k]
  /\ ~Busy(k)
  /\ phase[k] # "over"
  /\ phase' = [phase EXCEPT ![k] = "over"]
  /\ running' = [running EXCEPT ![k] = Nothing]
  /\ deadline' = [deadline EXCEPT ![k] = Nothing]
  /\ IF phase[k] = "running"
       THEN /\ in_store' = in_store \ {running[k]}
            /\ input_close' = [input_close EXCEPT ![running[k]] = TRUE]
       ELSE UNCHANGED <<in_store, input_close>>
  /\ UNCHANGED <<up, timers, handlerVars, auth, shell, current, detached, closed,
                 condemned, switchVars>>

-------------------------------------------------------------------------------
(* Shell tasks, the store's sweeps and the switch *)

(* Mutant: the owner is dropped and the reaper's clock not started. *)
PublishLeavesClock(s) ==
  /\ shell[s] = "driven"
  /\ current[s] # Nobody
  /\ ~up[current[s]]
  /\ current' = [current EXCEPT ![s] = Nobody]
  /\ UNCHANGED <<connVars, handlerVars, auth, shell, detached, closed, input_close,
                 storeVars, switchVars>>

(* publish finds the owner's receiver gone with its socket. *)
PublishFindsClosed(s) ==
  /\ shell[s] = "driven"
  /\ current[s] # Nobody
  /\ ~up[current[s]]
  /\ current' = [current EXCEPT ![s] = Nobody]
  /\ detached' = [detached EXCEPT ![s] = TRUE]
  /\ UNCHANGED <<connVars, handlerVars, auth, shell, closed, input_close, storeVars,
                 switchVars>>

Stops(s) ==
  /\ shell' = [shell EXCEPT ![s] = "ending"]
  /\ UNCHANGED <<connVars, handlerVars, auth, current, detached, closed, input_close,
                 storeVars, switchVars>>

ShellExits(s) == shell[s] = "driven" /\ Stops(s)

ShellReadsClose(s) == shell[s] = "driven" /\ input_close[s] /\ Stops(s)

(* The loop is over: end the process, forget the handle. *)
ShellCleansUp(s) ==
  /\ shell[s] = "ending"
  /\ shell' = [shell EXCEPT ![s] = "dead"]
  /\ in_store' = in_store \ {s}
  /\ UNCHANGED <<connVars, handlerVars, auth, current, detached, closed, input_close,
                 condemned, switchVars>>

Reaps ==
  /\ \E gone \in SUBSET Expirable :
       /\ gone # {}
       /\ in_store' = in_store \ gone
       /\ condemned' = condemned \cup gone
  /\ UNCHANGED <<connVars, handlerVars, sessionVars, switchVars>>

(* terminate, and the same steps in close_local, once the store's lock is  *)
(* free again: close the session, then its input.                          *)
Terminates(s) ==
  /\ s \in condemned
  /\ condemned' = condemned \ {s}
  /\ closed' = [closed EXCEPT ![s] = TRUE]
  /\ detached' = [detached EXCEPT ![s] = TRUE]
  /\ current' = [current EXCEPT ![s] = Nobody]
  /\ input_close' = [input_close EXCEPT ![s] = TRUE]
  /\ UNCHANGED <<connVars, handlerVars, auth, shell, in_store, switchVars>>

(* disable_full_access, once the setting is saved. *)
TurnsOff ==
  /\ ~access_off
  /\ access_off' = TRUE
  /\ UNCHANGED <<connVars, handlerVars, sessionVars, storeVars, swept>>

(* Mutant: close_local forgets the sessions it removes. *)
SweepsWithoutClosing ==
  /\ access_off
  /\ ~swept
  /\ swept' = TRUE
  /\ in_store' = {s \in in_store : auth[s] # "Local"}
  /\ UNCHANGED <<connVars, handlerVars, sessionVars, condemned, access_off>>

Sweeps ==
  LET local == {s \in in_store : auth[s] = "Local"}
  IN  /\ access_off
      /\ ~swept
      /\ swept' = TRUE
      /\ in_store' = in_store \ local
      /\ condemned' = condemned \cup local
      /\ UNCHANGED <<connVars, handlerVars, sessionVars, access_off>>

-------------------------------------------------------------------------------

(* What a handler does once it need not wait for anybody. *)
Proceeds(h) ==
  \/ Inserts(h)
  \/ Rechecks(h)
  \/ Starts(h)
  \/ StartsTooLate(h)
  \/ Checks(h)
  \/ Joins(h)
  \/ JoinsTooLate(h)

(* What follows an await that a timeout or the database bounds.            *)
Resolves(h) ==
  \/ Connects(h)
  \/ Authenticates(h)
  \/ Prompts(h)
  \/ at[h] # "starting" /\ Fails(h)

Next ==
  \/ \E k \in Conns, h \in Handlers :
       \/ OpensSsh(k, h)
       \/ OpensLocal(k, h)
       \/ Answers(k, h)
       \/ \E s \in Handlers : Resumes(k, h, s)
  \/ \E h \in Handlers :
       \/ Connects(h)
       \/ Authenticates(h)
       \/ Prompts(h)
       \/ OpensShell(h)
       \/ Fails(h)
       \/ Proceeds(h)
       \/ PromptExpires(h)
  \/ \E k \in Conns : SocketDies(k) \/ ConnectionEnds(k) \/ ClientCloses(k)
  \/ \E s \in Handlers :
       \/ PublishFindsClosed(s)
       \/ ShellExits(s)
       \/ ShellReadsClose(s)
       \/ ShellCleansUp(s)
       \/ Terminates(s)
  \/ Reaps
  \/ TurnsOff
  \/ Sweeps

Spec == Init /\ [][Next]_vars

(* Tasks keep running, timers fire, a dead socket is noticed.  A shell     *)
(* task comes back to its input: no write to the shell blocks for ever.    *)
(* Nothing bounds the wait for sshd to open a channel (start_shell).       *)
Fairness ==
  /\ \A h \in Handlers :
       /\ WF_vars(Resolves(h))
       /\ WF_vars(Proceeds(h))
       /\ WF_vars(PromptExpires(h))
       /\ WF_vars(ShellReadsClose(h))
       /\ WF_vars(ShellCleansUp(h))
       /\ WF_vars(Terminates(h))
  /\ \A k \in Conns : WF_vars(~up[k] /\ ConnectionEnds(k))
  /\ WF_vars(Reaps)
  /\ WF_vars(Sweeps)

FairSpec == Spec /\ Fairness

-------------------------------------------------------------------------------

TypeOK ==
  /\ up \in [Conns -> BOOLEAN]
  /\ phase \in [Conns -> {"idle", "opening", "authenticating", "running", "over"}]
  /\ running \in [Conns -> Handlers \cup {Nothing}]
  /\ deadline \in [Conns -> Handlers \cup {Nothing}]
  /\ timers \subseteq Handlers
  /\ at \in [Handlers -> {"unused", "done"} \cup Awaiting \cup OnThread]
  /\ conn \in [Handlers -> Conns \cup {Nobody}]
  /\ target \in [Handlers -> Handlers \cup {Nothing}]
  /\ auth \in [Handlers -> {"Ssh", "Local"}]
  /\ shell \in [Handlers -> {"none", "open", "driven", "ending", "dead"}]
  /\ current \in [Handlers -> Conns \cup {Nobody}]
  /\ detached \in [Handlers -> BOOLEAN]
  /\ closed \in [Handlers -> BOOLEAN]
  /\ input_close \in [Handlers -> BOOLEAN]
  /\ in_store \subseteq Handlers
  /\ condemned \subseteq Handlers
  /\ access_off \in BOOLEAN
  /\ swept \in BOOLEAN

(* Exactly one handler owns a connection that is Opening: while it awaits, *)
(* no other frame, timeout or late result of an earlier handler can start  *)
(* a second shell or free the claim under it (terminal.rs, Phase).         *)
ClaimIsExclusive ==
  /\ \A g, h \in Handlers :
       (InFlight(g) /\ InFlight(h) /\ conn[g] = conn[h]) => g = h
  /\ \A h \in Handlers : InFlight(h) => phase[conn[h]] \in {"opening", "over"}
  /\ \A k \in Conns :
       phase[k] = "opening" => \E h \in Handlers : InFlight(h) /\ conn[h] = k

(* A connection that waits for an answer has a timeout task asleep for     *)
(* that very prompt, however many prompts went before (terminal.rs,        *)
(* arm_auth_timeout).                                                      *)
PromptsHaveTimeouts ==
  \A k \in Conns : phase[k] = "authenticating" => deadline[k] \in timers

(* A shell whose end is on its way. *)
Ending(s) == s \in condemned \/ input_close[s] \/ shell[s] \in {"ending", "dead"}

(* A shell never runs with nothing to end it: its opener still holds it,   *)
(* or its handle reaches it, or it is being ended (terminal.rs, open_local *)
(* and start_shell; session.rs, SessionStore).                             *)
NoShellIsOrphaned ==
  \A s \in Handlers :
    /\ shell[s] = "open" => InFlight(s)
    /\ shell[s] = "driven" => (s \in in_store \/ Ending(s))

(* The owner of a session is a connection that will let go of it: one that *)
(* is Running it.  Else the session would count as attached, and be spared *)
(* by the reaper, for ever (session.rs, detach; terminal.rs, handler).     *)
OwnersWillDetach ==
  \A s \in Handlers :
    current[s] # Nobody =>
      \/ phase[current[s]] = "running" /\ running[current[s]] = s
      \/ Ending(s)

(* Shells that are not on their way out are as many as the cap allows,     *)
(* however opens, reaping and closes interleave (session.rs, insert).      *)
LiveShellsBounded ==
  Cardinality({s \in Handlers : shell[s] = "driven" /\ ~Ending(s)}) <= MaxSessions

(* Once local shells have been turned off and swept, none is left that is  *)
(* not being ended, and no handle reaches one, save that of an opener who  *)
(* has yet to look at the switch again (server.rs, disable_full_access;    *)
(* terminal.rs, open_local).                                               *)
TurnedOffLeavesNoLocalShell ==
  swept => \A s \in Handlers : auth[s] = "Local" =>
             /\ s \in in_store => at[s] = "inserted"
             /\ shell[s] = "driven" => Ending(s)

(* No connection owns a session that has been closed, so one that arrives  *)
(* late is refused rather than left with a shell that is going away        *)
(* (session.rs, Session::attach and close).                                *)
ClosedIsUnowned == \A s \in Handlers : closed[s] => current[s] = Nobody

-------------------------------------------------------------------------------

(* Turning local shells off ends every one of them, those being opened at  *)
(* that moment too (server.rs, disable_full_access).                       *)
TurningOffEndsLocalShells ==
  access_off ~> \A s \in Handlers : auth[s] = "Local" => shell[s] = "dead"

(* A claimed connection is released again, unless sshd leaves a request to *)
(* open a shell unanswered (terminal.rs, open and answer).                 *)
ClaimsAreReleased ==
  \A k \in Conns :
    phase[k] = "opening" ~>
      \/ phase[k] # "opening"
      \/ \E h \in Handlers : conn[h] = k /\ at[h] = "starting"

(* A shell without a connection does not outlive the grace period, unless  *)
(* somebody resumes it (session.rs, reap).                                 *)
UnownedShellsEnd ==
  \A s \in Handlers :
    (shell[s] = "driven" /\ current[s] = Nobody) ~>
      (shell[s] = "dead" \/ current[s] # Nobody)

=============================================================================
