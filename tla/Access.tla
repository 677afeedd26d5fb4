--------------------------------- MODULE Access ---------------------------------
(***************************************************************************)
(* Who may do what through the agent's HTTP surface:                       *)
(* src/monitor/src/core/remote_access.rs (settings and their resolution),  *)
(* src/monitor/src/api/server.rs (the route table, the two kinds of token, *)
(* the switch that turns full access off), api/exec.rs, api/fs.rs,         *)
(* api/custom_cmds.rs and api/ws/mod.rs (the checks at the handlers).      *)
(*                                                                         *)
(* The settings are read from the file and from the environment when the   *)
(* agent starts; the switch writes the file and sets a flag of the running *)
(* process; the operator may edit the file and restart the agent, which    *)
(* may also crash between any two steps.  A command is checked, then       *)
(* recorded in the audit log (an await), then run.  The switch's last      *)
(* step, close_local, is in SessionLifecycle; the audit log decides        *)
(* nothing and is left out.                                                *)
(***************************************************************************)
EXTENDS Naturals, FiniteSets

CONSTANTS
  Slots,               \* request slots
  Clients,             \* watches
  full_access_default, \* the platform's default
  Settings,            \* contents of [remote_access] the operator may write:
                       \* [full_access, terminal, terminal_insecure,
                       \*  fs, roots, fs_insecure]
  MaxEdits, MaxStarts, \* bounds: edits of the file, starts of the agent
  MaxTokens,           \* bound on watch tokens
  Lifetime, MaxNow     \* WATCH_TOKEN_LIFETIME, and a bound on the clock

ASSUME AccessAssumption ==
  /\ full_access_default \in BOOLEAN
  /\ Settings \subseteq [full_access : {"unset", "on", "off"}, terminal : BOOLEAN,
                          terminal_insecure : BOOLEAN, fs : BOOLEAN, roots : BOOLEAN,
                          fs_insecure : BOOLEAN]
  /\ Lifetime \in Nat \ {0} /\ MaxTokens \in Nat /\ MaxNow \in Nat

VARIABLES
  file,            \* [remote_access] of config.toml
  up,              \* the agent runs
  remote_access,   \* AppState.remote_access, resolved at the start
  tls_active,      \* AppState.tls_active
  full_access_off, \* AppState.full_access_off
  disabling,       \* where the switch's handler is
  requests,        \* Slots -> [phase, route, late]
  watch_tokens,    \* the table: a set of [client, token, expires_at]
  tokens_issued,   \* tokens handed out
  newest,          \* client -> its last token, 0 if none or revoked; history
  now,             \* seconds
  edits, starts,   \* counters of the bounds
  closed           \* the switch has answered and nobody has edited the file
                   \* since; history

agentVars == <<up, remote_access, tls_active, full_access_off>>
tokenVars == <<watch_tokens, tokens_issued, newest, now>>
accessVars == <<file, agentVars, disabling, requests, tokenVars, edits, starts, closed>>

-------------------------------------------------------------------------------
(* Resolution *)

(* SBM_FULL_ACCESS, as the process was given it. *)
Environments == {"unset", "on", "off", "junk"}

full_access_from_env(env) == IF env \in {"on", "off"} THEN env ELSE "unset"

(* Mutant: the environment beats the file. *)
EnvironmentFirst(configured, from_env) ==
  LET said == IF from_env # "unset" THEN from_env ELSE configured
  IN IF said # "unset" THEN said = "on" ELSE full_access_default

resolve_full_access(configured, from_env) ==
  LET said == IF from_env # "unset" THEN from_env ELSE configured
  IN IF configured = "off" THEN FALSE
     ELSE IF said # "unset" THEN said = "on"
     ELSE full_access_default

resolve(settings, env) ==
  [settings EXCEPT !.full_access =
     resolve_full_access(settings.full_access, full_access_from_env(env))]

(* secure_transport: a TLS listener or a peer on loopback. *)
is_secure_transport(loopback) == tls_active \/ loopback

terminal_available(secure) ==
  remote_access.terminal /\ (secure \/ remote_access.terminal_insecure)

fs_available(secure) ==
  remote_access.fs /\ remote_access.roots /\ (secure \/ remote_access.fs_insecure)

full_access_available(secure) == terminal_available(secure) /\ remote_access.full_access

full_access_allowed(secure) == full_access_available(secure) /\ ~full_access_off

-------------------------------------------------------------------------------
(* The route table: what a route asks of the caller, and what of the agent *)

ReadRoutes == {"status", "metrics", "history"}
PanelRoutes == {"capabilities", "settings", "velocity", "commands"}
FullAccessRoutes == {"exec", "custom-cmds"}
Routes == {"health"} \cup ReadRoutes \cup PanelRoutes \cup FullAccessRoutes
            \cup {"ws-ticket", "fs"}

(* verify_watch_token *)
verify_watch_token(t) == \E row \in watch_tokens : row.token = t /\ row.expires_at > now

(* Bearer tokens: none that is valid, the panel's own, a watch's. *)
Nobody == <<"nobody">>
Panel == <<"panel">>
Bearers == {Nobody, Panel} \cup {<<"watch", t>> : t \in 1 .. tokens_issued}

(* require_jwt and require_read_access *)
Authorised(route, who) ==
  \/ route = "health"
  \/ who = Panel
  \/ route \in ReadRoutes /\ who[1] = "watch" /\ verify_watch_token(who[2])

Grants(route, secure) ==
  CASE route \in FullAccessRoutes -> full_access_allowed(secure)
    [] route = "fs" -> fs_available(secure)
    [] route = "ws-ticket" -> terminal_available(secure)
    [] OTHER -> TRUE

-------------------------------------------------------------------------------
NoRequest == [phase |-> "none", route |-> "health", late |-> FALSE]

AccessInit ==
  /\ file \in Settings
  /\ up = FALSE
  /\ remote_access = resolve(file, "unset")
  /\ tls_active = FALSE
  /\ full_access_off = FALSE
  /\ disabling = "no"
  /\ requests = [r \in Slots |-> NoRequest]
  /\ watch_tokens = {}
  /\ tokens_issued = 0
  /\ newest = [c \in Clients |-> 0]
  /\ now = 0
  /\ edits = 0
  /\ starts = 0
  /\ closed = FALSE

(* main, AppState::new *)
AgentStarts ==
  /\ ~up
  /\ starts < MaxStarts
  /\ up' = TRUE
  /\ \E env \in Environments : remote_access' = resolve(file, env)
  /\ tls_active' \in BOOLEAN
  /\ full_access_off' = FALSE
  /\ starts' = starts + 1
  /\ UNCHANGED <<file, disabling, requests, tokenVars, edits, closed>>

(* A stop or a crash: what was under way is gone, the file and the table   *)
(* stay.                                                                   *)
AgentStops ==
  /\ up
  /\ up' = FALSE
  /\ disabling' = "no"
  /\ requests' = [r \in Slots |-> NoRequest]
  /\ UNCHANGED <<file, remote_access, tls_active, full_access_off, tokenVars,
                 edits, starts, closed>>

OperatorEdits ==
  /\ edits < MaxEdits
  /\ file' \in Settings \ {file}
  /\ edits' = edits + 1
  /\ closed' = FALSE
  /\ UNCHANGED <<agentVars, disabling, requests, tokenVars, starts>>

-------------------------------------------------------------------------------
(* Requests *)

(* The checks at the top of a handler; a refusal answers 401 or 403 and    *)
(* leaves nothing behind.                                                  *)
Admits(r) ==
  /\ up
  /\ requests[r].phase = "none"
  /\ \E route \in Routes, who \in Bearers, loopback \in BOOLEAN :
       /\ Authorised(route, who)
       /\ Grants(route, is_secure_transport(loopback))
       /\ requests' = [requests EXCEPT ![r] =
            [phase |-> "admitted", route |-> route, late |-> closed]]
  /\ UNCHANGED <<file, agentVars, disabling, tokenVars, edits, starts, closed>>

(* After the audit row: the command runs, the files are written, the       *)
(* answer is made.                                                         *)
Runs(r) ==
  /\ requests[r].phase = "admitted"
  /\ requests' = [requests EXCEPT ![r].phase = "running"]
  /\ UNCHANGED <<file, agentVars, disabling, tokenVars, edits, starts, closed>>

Answers(r) ==
  /\ requests[r].phase = "running"
  /\ requests' = [requests EXCEPT ![r] = NoRequest]
  /\ UNCHANGED <<file, agentVars, disabling, tokenVars, edits, starts, closed>>

-------------------------------------------------------------------------------
(* disable_full_access, for a caller with a panel token *)

TurnedOff(settings) == [settings EXCEPT !.full_access = "off"]

(* Read, change and write, under config_write. *)
DisableWrites ==
  /\ up
  /\ disabling = "no"
  /\ file' = TurnedOff(file)
  /\ disabling' = "written"
  /\ UNCHANGED <<agentVars, requests, tokenVars, edits, starts, closed>>

DisableStores ==
  /\ disabling = "written"
  /\ full_access_off' = TRUE
  /\ disabling' = "stored"
  /\ UNCHANGED <<file, up, remote_access, tls_active, requests, tokenVars, edits, starts, closed>>

DisableAnswers ==
  /\ disabling = "stored"
  /\ disabling' = "no"
  /\ closed' = (file.full_access = "off")
  /\ UNCHANGED <<file, agentVars, requests, tokenVars, edits, starts>>

-------------------------------------------------------------------------------
(* Watch tokens *)

(* Mutant: a row for each token. *)
Adding(c) == watch_tokens

(* ON CONFLICT (subject, client_id) DO UPDATE *)
ReplacingRow(c) == {row \in watch_tokens : row.client # c}

IssuesWatchToken(c) ==
  /\ up
  /\ tokens_issued < MaxTokens
  /\ tokens_issued' = tokens_issued + 1
  /\ watch_tokens' = ReplacingRow(c) \cup
       {[client |-> c, token |-> tokens_issued', expires_at |-> now + Lifetime]}
  /\ newest' = [newest EXCEPT ![c] = tokens_issued']
  /\ UNCHANGED <<file, agentVars, disabling, requests, now, edits, starts, closed>>

RevokesWatchToken(c) ==
  /\ up
  /\ watch_tokens' = {row \in watch_tokens : row.client # c}
  /\ newest' = [newest EXCEPT ![c] = 0]
  /\ UNCHANGED <<file, agentVars, disabling, requests, tokens_issued, now, edits, starts, closed>>

SecondPasses ==
  /\ now < MaxNow
  /\ now' = now + 1
  /\ UNCHANGED <<file, agentVars, disabling, requests, watch_tokens, tokens_issued, newest,
                 edits, starts, closed>>

AccessNext ==
  \/ AgentStarts
  \/ AgentStops
  \/ OperatorEdits
  \/ \E r \in Slots : Admits(r) \/ Runs(r) \/ Answers(r)
  \/ DisableWrites
  \/ DisableStores
  \/ DisableAnswers
  \/ \E c \in Clients : IssuesWatchToken(c) \/ RevokesWatchToken(c)
  \/ SecondPasses

AccessSpec == AccessInit /\ [][AccessNext]_accessVars

-------------------------------------------------------------------------------
(* Properties *)

(* Once the switch has answered, no command that is asked for afterwards   *)
(* runs, whatever the environment of this process or of a later one says,  *)
(* until the operator edits the file (disable_full_access,                 *)
(* resolve_full_access).                                                   *)
AccessStaysOff ==
  \A r \in Slots :
    requests[r].phase = "running" /\ requests[r].route \in FullAccessRoutes
      => ~requests[r].late

(* A watch reads with the token it was handed last, while that one lasts,  *)
(* and with no other: not with one handed out before it, revoked or past   *)
(* its time (issue_watch_token, verify_watch_token).                       *)
NewestTokenReads ==
  /\ \A t \in 1 .. tokens_issued : verify_watch_token(t) => \E c \in Clients : newest[c] = t
  /\ \A c \in Clients : newest[c] # 0 =>
       \/ verify_watch_token(newest[c])
       \/ \E row \in watch_tokens : row.token = newest[c] /\ row.expires_at <= now
=============================================================================
