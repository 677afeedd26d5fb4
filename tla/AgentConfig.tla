---------------------------- MODULE AgentConfig ----------------------------
(***************************************************************************)
(* config.toml from start to crash: loaded and migrated by Config::load    *)
(* (src/monitor/src/core/config.rs), written by core/config_file.rs for    *)
(* three handlers of src/monitor/src/api/server.rs and for the command     *)
(* line.                                                                   *)
(*                                                                         *)
(* A configuration is what its keys say: monitoring stands for all of      *)
(* [monitoring], server for [server], rest for the top-level keys, access  *)
(* for [remote_access] full_access, legacy for the Go agent's flat keys.   *)
(* Values are numbers, 0 the default; None is an absent section.  The      *)
(* steps of a write are those a crash or another process can fall between. *)
(***************************************************************************)
EXTENDS Integers, Sequences, SequencesExt, FiniteSets

CONSTANTS
  None, NoHolder,  \* nothing; no holder
  Torn,           \* a file that was cut short
  Savers,         \* requests being handled at once
  Values,         \* values a request may save
  InitialFiles,   \* configurations that may be installed
  MaxBackups,     \* MAX_BACKUPS
  MaxSaves,       \* bound: requests and runs of `config init`
  MaxFaults       \* bound: crashes and failing calls

Optional == Int \cup {None}
Configurations ==
  [monitoring : Optional, server : Optional, rest : Int, access : Int, legacy : Optional]

Asks == [kind : {"settings", "cards"}, value : Int] \cup [kind : {"access"}, value : {0}]

\* normalize asks for this.
Sectionless(c) == c.server = None /\ c.monitoring = None

\* The Go agent's keys are read from a file which that agent wrote, and that is
\* JSON (Config::legacy): in an installed config.toml they decide nothing.
ASSUME ConfigAssumption ==
  /\ \A c \in InitialFiles : c \in Configurations /\ (Sectionless(c) => c.legacy = None)
  /\ None \notin Configurations /\ Torn \notin Configurations /\ None \notin Asks
  /\ None \notin Int /\ Values \subseteq Int
  /\ NoHolder \notin Savers /\ {"start", "cli"} \cap Savers = {}

VARIABLES
  file,       \* config.toml, or None
  safe,       \* what a power loss may leave of it
  json,       \* the JSON configuration of an older agent, or None
  leftover,   \* temporary files that a crash left behind
  backups,    \* the backups there are, oldest first; numbered
  made,       \* backups made so far
  agent_state, \* what the agent does
  live,       \* live_settings
  full_access_off,
  lock,       \* config_write
  step,       \* where each writer is
  copy,       \* the configuration it writes
  request,    \* what it was asked to change
  saves, faults,
  legit,      \* the values each key may have; history
  stale       \* keys changed on disk by a write not acknowledged; history

disk == <<file, safe, leftover, backups, made>>
agent == <<agent_state, live, full_access_off, lock>>
writing == <<step, copy, request>>
history == <<legit, stale>>
agentVars == <<disk, json, agent, writing, saves, faults, history>>

Starting == "start"
CommandLine == "cli"
Writers == Savers \cup {Starting, CommandLine}

Keys == {"monitoring", "server", "rest", "access"}

\* Config::default
Default == [monitoring |-> 0, server |-> 0, rest |-> 0, access |-> 1, legacy |-> None]

\* LegacyGoConfig: what an older agent's JSON holds.
OlderAgents == [monitoring |-> None, server |-> None, rest |-> 0, access |-> 1, legacy |-> 1]

\* normalize: without either section the file is taken for the Go agent's,
\* and whatever its other keys say is replaced.
Normalized(c) ==
  IF Sectionless(c)
    THEN [c EXCEPT !.server = 0, !.rest = 0, !.legacy = None,
                   !.monitoring = IF c.legacy = None THEN 0 ELSE c.legacy]
    ELSE [c EXCEPT !.legacy = None]

\* get_monitoring and get_server
Section(value) == IF value = None THEN 0 ELSE value

\* LiveSettings::from_config
FromConfig(c) == Section(c.monitoring)

\* What a handler makes of the file it has read; the legacy keys are not
\* written back.
Edited(c, r) ==
  LET written == [c EXCEPT !.legacy = None]
  IN  CASE r.kind = "settings" -> [written EXCEPT !.monitoring = r.value,
                                                  !.server = Section(c.server)]
        [] r.kind = "cards"    -> [written EXCEPT !.server = r.value]
        [] r.kind = "access"   -> [written EXCEPT !.access = 0]

Target(r) == CASE r.kind = "settings" -> "monitoring"
               [] r.kind = "cards"    -> "server"
               [] r.kind = "access"   -> "access"

AgentInit ==
  /\ \E c \in InitialFiles \cup {None} :
       /\ file = c /\ json \in {None, OlderAgents}
       /\ legit = [k \in Keys |->
                     LET start == IF c # None THEN c
                                  ELSE IF json # None THEN Normalized(json) ELSE Default
                     IN  {start[k]} \cup (IF start[k] = None THEN {0} ELSE {})]
  /\ safe = file /\ leftover = 0
  /\ backups = <<>> /\ made = 0
  /\ agent_state = "down" /\ live = 0 /\ full_access_off = FALSE /\ lock = NoHolder
  /\ step = [w \in Writers |-> "idle"]
  /\ copy = [w \in Writers |-> None] /\ request = [w \in Writers |-> None]
  /\ saves = 0 /\ faults = 0
  /\ stale = {}

-------------------------------------------------------------------------------
(* config_file::write, one writer w *)

MovesTo(w, where) == step' = [step EXCEPT ![w] = where]
Fault == faults < MaxFaults /\ faults' = faults + 1
NoFault == UNCHANGED faults

\* prune_backups
NewestOf(b) == IF Len(b) <= MaxBackups THEN b
               ELSE SubSeq(b, Len(b) - MaxBackups + 1, Len(b))

\* A backup of the current file, at best effort, and the pruning that follows.
Backup(w) ==
  /\ step[w] = "backup"
  /\ \/ /\ file # None /\ NoFault
        /\ made' = made + 1 /\ backups' = Append(backups, made + 1)
        /\ MovesTo(w, "prune")
     \/ /\ file = None /\ NoFault /\ MovesTo(w, "temp") /\ UNCHANGED <<made, backups>>
     \/ /\ file # None /\ Fault /\ MovesTo(w, "temp") /\ UNCHANGED <<made, backups>>
  /\ UNCHANGED <<file, safe, leftover, json, agent, copy, request, saves, history>>

Prune(w) ==
  /\ step[w] = "prune"
  /\ backups' = NewestOf(backups)
  /\ MovesTo(w, "temp")
  /\ UNCHANGED <<file, safe, leftover, json, made, agent, copy, request, saves, faults, history>>

\* Mutant: the temporary file is not flushed.
Unflushed(c) == Torn

\* What a power loss leaves of the temporary file once it has been renamed.
Flushed(c) == c

\* Mutant: its name is the same every time.
FixedName == leftover = 0

\* create_new succeeds: no other file has this process and this instant in
\* its name.
FreshName == TRUE

\* The temporary file is written and flushed, or removed again.
Temp(w) ==
  /\ step[w] = "temp"
  /\ \/ FreshName /\ NoFault /\ MovesTo(w, "rename")
     \/ Fault /\ MovesTo(w, "failed")
     \/ ~FreshName /\ NoFault /\ MovesTo(w, "failed")
  /\ UNCHANGED <<disk, json, agent, copy, request, saves, history>>

\* Readers see the new file from here on; a power loss may still take it back.
Rename(w) ==
  /\ step[w] = "rename"
  /\ \/ /\ NoFault /\ MovesTo(w, "sync")
        /\ file' = copy[w]
        /\ stale' = stale \cup {k \in Keys : file # None /\ file[k] # copy[w][k]}
     \/ Fault /\ MovesTo(w, "failed") /\ UNCHANGED <<file, stale>>
  /\ UNCHANGED <<safe, leftover, json, backups, made, agent, copy, request, saves, legit>>

\* sync_parent_dir: when it fails the write fails, though it has happened.
Sync(w) ==
  /\ step[w] = "sync"
  /\ \/ NoFault /\ MovesTo(w, "written") /\ safe' = file
     \/ Fault /\ MovesTo(w, "failed") /\ UNCHANGED safe
  /\ UNCHANGED <<file, leftover, json, backups, made, agent, copy, request, saves, history>>

Write(w) == Backup(w) \/ Prune(w) \/ Temp(w) \/ Rename(w) \/ Sync(w)

-------------------------------------------------------------------------------
(* The handlers *)

Serving == agent_state = "serving"

\* Mutant: the lock only guards the write, not the read before it.
AlwaysFree == TRUE

LockFree == lock = NoHolder

Idle(w) == [step EXCEPT ![w] = "idle"]

\* update_settings, update_card_order or disable_full_access waits its turn.
Request(h) ==
  /\ Serving /\ step[h] = "idle" /\ saves < MaxSaves
  /\ saves' = saves + 1
  /\ \E r \in [kind : {"settings", "cards"}, value : Values]
              \cup {[kind |-> "access", value |-> 0]} :
       /\ request' = [request EXCEPT ![h] = r]
       /\ legit' = [legit EXCEPT ![Target(r)] = @ \cup {r.value}]
  /\ MovesTo(h, "waiting")
  /\ UNCHANGED <<disk, json, agent, copy, faults, stale>>

\* With the lock held the file is read; what cannot be read ends the request.
ReadModify(h) ==
  /\ Serving /\ step[h] = "waiting" /\ LockFree
  /\ IF file = None
       THEN /\ step' = Idle(h) /\ request' = [request EXCEPT ![h] = None]
            /\ UNCHANGED <<lock, copy>>
       ELSE /\ lock' = h
            /\ copy' = [copy EXCEPT ![h] = Edited(file, request[h])]
            /\ MovesTo(h, "backup") /\ UNCHANGED request
  /\ UNCHANGED <<disk, json, agent_state, live, full_access_off, saves, faults, history>>

Release(h) ==
  /\ lock' = NoHolder
  /\ step' = Idle(h)
  /\ copy' = [copy EXCEPT ![h] = None] /\ request' = [request EXCEPT ![h] = None]

LiveAfter(r) == IF r.kind = "settings" THEN r.value ELSE live

\* The running agent follows, and the request is answered: from now on its
\* value is the one to find, unless somebody else is about to change it.
Acknowledge(h) ==
  /\ Serving /\ step[h] = "written"
  /\ live' = LiveAfter(request[h])
  /\ full_access_off' = (full_access_off \/ request[h].kind = "access")
  /\ Release(h)
  /\ legit' =
       LET key == Target(request[h])
           others == {request[o].value : o \in {p \in Savers \ {h} :
                        request[p] # None /\ Target(request[p]) = key}}
       IN  [legit EXCEPT ![key] = {request[h].value} \cup others
              \cup (IF step[CommandLine] = "idle" /\ file = copy[h]
                      THEN {} ELSE {Default[key]})]
  /\ stale' = IF copy[h] = file THEN stale \ {Target(request[h])} ELSE stale
  /\ UNCHANGED <<disk, json, agent_state, saves, faults>>

\* The write failed: the request is answered with the error.
Refuse(h) ==
  /\ Serving /\ step[h] = "failed"
  /\ Release(h)
  /\ UNCHANGED <<disk, json, agent_state, live, full_access_off, saves, faults, history>>

\* The client goes away while its request waits for a lock.
Dropped(h) ==
  /\ Serving
  /\ \/ step[h] = "waiting" /\ UNCHANGED <<lock, copy>>
        /\ step' = Idle(h) /\ request' = [request EXCEPT ![h] = None]
     \/ step[h] = "written" /\ request[h].kind = "settings" /\ Release(h)
  /\ UNCHANGED <<disk, json, agent_state, live, full_access_off, saves, faults, history>>

-------------------------------------------------------------------------------
(* `config init`, another process: it takes no lock *)

ConfigInit ==
  /\ step[CommandLine] = "idle" /\ saves < MaxSaves
  /\ saves' = saves + 1
  /\ copy' = [copy EXCEPT ![CommandLine] = Default]
  /\ legit' = [k \in Keys |-> legit[k] \cup {Default[k]}]
  /\ MovesTo(CommandLine, "backup")
  /\ UNCHANGED <<disk, json, agent, request, faults, stale>>

ConfigInitEnds ==
  /\ step[CommandLine] \in {"written", "failed"}
  /\ step' = Idle(CommandLine)
  /\ copy' = [copy EXCEPT ![CommandLine] = None]
  /\ UNCHANGED <<disk, json, agent, request, saves, faults, history>>

-------------------------------------------------------------------------------
(* Starting the agent *)

Loaded(c) == agent_state' = "serving" /\ live' = FromConfig(Normalized(c))

\* Config::load: the file, else an older agent's JSON, else the defaults.
Load ==
  /\ agent_state = "down"
  /\ IF file # None
       THEN Loaded(file) /\ stale' = {} /\ UNCHANGED <<step, copy>>
       ELSE /\ agent_state' = "loading"
            /\ copy' = [copy EXCEPT ![Starting] =
                          IF json # None THEN Normalized(json) ELSE Default]
            /\ MovesTo(Starting, "temp")
            /\ UNCHANGED <<live, stale>>
  /\ UNCHANGED <<disk, json, full_access_off, lock, request, saves, faults, legit>>

\* A migrated file is renamed, which may fail; then the agent goes on.
Installed ==
  /\ agent_state = "loading" /\ step[Starting] = "written"
  /\ Loaded(copy[Starting])
  /\ stale' = {k \in Keys : copy[Starting][k] # file[k]}
  /\ \/ json' = None /\ NoFault
     \/ json # None /\ Fault /\ UNCHANGED json
  /\ step' = Idle(Starting) /\ copy' = [copy EXCEPT ![Starting] = None]
  /\ UNCHANGED <<disk, full_access_off, lock, request, saves, legit>>

\* The start fails, and the supervisor tries again.
NotInstalled ==
  /\ agent_state = "loading" /\ step[Starting] = "failed"
  /\ agent_state' = "down"
  /\ step' = Idle(Starting) /\ copy' = [copy EXCEPT ![Starting] = None]
  /\ UNCHANGED <<disk, json, live, full_access_off, lock, request, saves, faults, history>>

Start == Load \/ Installed \/ NotInstalled

-------------------------------------------------------------------------------
(* Crashes *)

Stopped(ws) ==
  /\ agent_state' = "down" /\ lock' = NoHolder /\ live' = 0 /\ full_access_off' = FALSE
  /\ step' = [w \in Writers |-> IF w \in ws THEN "idle" ELSE step[w]]
  /\ copy' = [w \in Writers |-> IF w \in ws THEN None ELSE copy[w]]
  /\ request' = [w \in Writers |-> None]
  /\ leftover' = leftover + Cardinality({w \in ws : step[w] = "rename"})
  /\ UNCHANGED <<json, backups, made, saves, history>>

\* The agent is killed; what it wrote so far stays.
Killed ==
  /\ agent_state # "down" /\ Fault
  /\ Stopped(Writers \ {CommandLine})
  /\ UNCHANGED <<file, safe>>

\* The power fails: a rename that was not flushed may be undone, and a file
\* that was not flushed is cut short.
PowerLoss ==
  /\ Fault
  /\ Stopped(Writers)
  /\ file' \in {safe, IF file = safe THEN safe ELSE Flushed(file)}
  /\ safe' = file'

AgentNext ==
  \/ \E w \in Writers : Write(w)
  \/ \E h \in Savers :
       Request(h) \/ ReadModify(h) \/ Acknowledge(h) \/ Refuse(h) \/ Dropped(h)
  \/ ConfigInit \/ ConfigInitEnds
  \/ Start
  \/ Killed \/ PowerLoss

AgentSpec == AgentInit /\ [][AgentNext]_agentVars

\* The supervisor starts the agent again whenever it ends.
AgentFairness == WF_agentVars(Start \/ Write(Starting))

-------------------------------------------------------------------------------
(* Properties *)

\* Each key of config.toml has a value that was last acknowledged for it, or
\* one whose request has not been answered with success since: across
\* concurrent saves of other keys, failing calls, kills and power losses no
\* acknowledged save is lost, and the file is never torn (the header of
\* config_file.rs, and config_write in AppState).
SavesSurvive ==
  \A c \in {file, safe} \ {None} : c # Torn /\ \A k \in Keys : c[k] \in legit[k]

\* While nobody saves, the running agent follows the file: concurrent saves
\* cannot leave it with the settings of one and the file with those of the
\* other.  (A save whose handler failed or was dropped after the rename, and
\* `config init`, change the file alone.)
LiveFollowsFile ==
  Serving /\ lock = NoHolder /\ "monitoring" \notin stale => live = FromConfig(file)

\* The agent comes back: no crash or failed call leaves a disk on which it
\* cannot start again (a start that failed or was cut short is repeated).
AgentComesBack == []<>Serving
=============================================================================
