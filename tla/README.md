# A verification model of the Azad monitor agent

TLA+ models of the Rust agent of this repository (`src/monitor`), of the two clients that hold one of its
terminal sessions (the web panel in `src/monitor/frontend`, the app in `src/lib`), TLC configurations
that check them, and proofs that TLAPS checks. Paths below are relative to the repository.

The agent runs on a server beside what it monitors. Several browsers and apps talk to one agent at the
same time; the state they share is in the agent, so that is where the model starts. The Flutter app's own
SSH client, its screens and its stores are single-user code with little shared state and are left aside.

## 1. Inventory

| Part | Source (below `src/monitor/src` where no other root is given) | State | Operations |
| --- | --- | --- | --- |
| Replay buffer | `api/ws/session.rs`, `Scrollback` | the newest bytes, a count of all bytes | `push`, `replay_from` |
| Session | `session.rs`, `Session` | buffer, installed sender and its attachment id, `detached_at`, `closed`, `replay_requested` | `publish`, `attach`, `detach`, `close` |
| Session store | `session.rs`, `SessionStore` | handles to sessions, cap | `insert`, `get`, `remove`, `reap`, `close_local` |
| Terminal connection | `api/ws/terminal.rs` | `Phase` (Idle, Opening, Authenticating, Running, Done), prompt deadline | `open`, `open_local`, `answer`, `attach`, `start_shell`, close, disconnect |
| Shell task, output pump | `terminal.rs`, `drive_shell`, `drive_local_shell`, `pump_output` | a channel or PTY; the receiving end of a bounded queue | output, exit, input, close; forward, lag, superseded |
| Terminal clients | `src/monitor/frontend/src/lib/terminal.svelte.ts`, `src/lib/core/utils/monitor_terminal.dart` | resume counter, unacknowledged renders, handle | connect, receive, reconnect, close |
| WebSocket tickets | `api/ws/ticket.rs` | live tickets with expiry and reservation | issue, reserve, commit, roll back |
| Login throttle | `api/ratelimit.rs` | failures, attempts in flight and a deadline, by address and by user | begin, fail, succeed, release |
| Access and watch tokens | `core/remote_access.rs`, `api/server.rs`, `api/auth.rs` | settings from file and environment, an atomic flag, a token table | resolve, admit, turn off, issue, revoke, check |
| Local PTY | `ssh/local_pty.rs` | master and child, two threads, a bounded channel, a gate | read, write, resize, end |
| SSH client | `ssh/client.rs`, `ssh/known_hosts.rs` | a handle and a channel, pinned host keys | connect, verify or pin, authenticate, open a shell |
| Configuration | `core/config_file.rs`, `core/config.rs` | file, temporary, backups; live settings | load and migrate, read-modify-write, prune |
| Start-up secrets | `core/config.rs`, `db/bootstrap.rs`, `cli/cli.rs` | secret file, credentials file, table of users | resolve the secret, create the administrator |
| Custom commands | `monitoring/custom_cmds.rs`, `src/crates/sbm_parser/src/script.rs` | a directory replaced as a whole, two side directories, a lock file | replace, recover, read; install (by the app) |
| Command execution | `api/exec.rs`, `monitoring/monitoring.rs` | a child and its pipes | run with a timeout and a limit |
| File API | `api/fs.rs`, `core/fs_roots.rs` | roots, staged files, open files | list, stat, read, write, mkdir, remove, rename, chmod |
| Monitoring loop | `monitoring/monitoring.rs`, `monitoring/push.rs` | last sample, when extended data was refreshed, who looked last, quotas | collect, adapt, alert, publish |
| Histories | `monitoring/velocity.rs`, `timeseries.rs`, `api/server.rs` | short series in memory, rows of `system_metrics` | update, bucket |
| Retention | `db/cleanup.rs` | rows of all tables, size of the file | expire, trim |
| Rules | `monitoring/rules.rs`, `threshold.rs`, `size.rs` | the rules of the start-up configuration | parse, judge |
| Status script and parsers | `src/crates/sbm_parser/src/` | none | generate, cut into sections, parse |
| Native backend | `src/crates/sbm_native/src/linux.rs` | children that outlived their kill, slots | run a command, reap |
| Panel and app outside the terminal | `src/monitor/frontend`, `src/lib` | user interface | not modelled |

`PROJECT.json` lists every part, modelled or not, with what is left out.

**How they interact.** A client obtains a ticket over HTTP and opens a WebSocket with it. The first control
frame opens a shell or resumes a session by its handle. An opened shell becomes a `Session` in the store,
driven by a task of its own that outlives the connection: it publishes output into the session's buffer
and, through a bounded queue, to the one connection whose sender is installed. Attaching replaces the
sender; the previous connection's pump finds its channel without a sender and closes its socket. A
reaper ends sessions that nobody has owned for a grace period. Turning full access off sets a flag,
removes local sessions from the store and closes them. The monitoring loop samples the host natively and through
a script, publishes one `SystemMetrics` that every request reads, appends rows that the cleanup later
deletes, and judges rules whose alerts go out under a quota. Settings are saved through one lock into one file that the loop
re-reads as `live_settings`; the app, the command line and a second agent write to some of the same
files without that lock.

**What is hard.**

* Connections live on several worker threads. Tasks of one connection share a thread and interleave at
  awaits; sessions, store and switch interleave at every lock.
* ntex runs the handlers of one connection's frames concurrently, so `Phase` is a lock held across awaits.
* An audit record, a login, a prompt and the opening of a channel are awaits after which the connection
  may be gone and the switch off.
* Links die without a word, at any frame. A client resumes from a counter that moves at `ready`, as
  bytes arrive, or as a renderer acknowledges them.
* The agent may be killed between any two calls to the file system; a supervisor starts it again. Some
  files have to outlive a power loss too.
* Requests are futures that are dropped when a client goes away, at any await.
* Counters reset, clocks are set back, rows are cleaned away between two readings.
* Children outlive their kill, fill their pipes, or leave them to descendants.
* Queue, buffer and cap are bounded and something must happen at each bound.
* The reaper decides under the store's lock on a field that attach writes under the session's.

**What makes each part correct.** The buffer is the newest output and a replay exactly what was
missed. No screen skips output, whoever reconnects or takes over, and output reaches its owner. One
handler owns an opening connection, no shell is left without something that will end it, the cap holds, off
means off - for the shells that exist, for the requests under way and after a restart. A ticket works once; the
throttle counts exactly what is in flight and forgets no failure. A saved setting survives, the agent
comes back, and the running settings are those of the file. A command set is replaced as a whole, a file
is never half of an upload, a download is one version, and nothing outside the roots is touched. An answer
about a command's output is true. One host key is trusted at a time; the first password is not lost. Rates stand for no more than
what passed, extended data is what it says it is, a disk counts once, a threshold means what it says. The cleanup ends,
and ends with a file that fits.

The hazards these properties are aimed at are listed in `PROJECT.json`, each at the line where it bites.

## 2. Modules

| Module | Models |
| --- | --- |
| `Scrollback` | `Scrollback` over real sequences of bytes, beside a history of everything produced |
| `OutputView` | abstract: what a terminal promises those who look at it |
| `TerminalStream` | one session, the connections that own it in turn, the links and the clients |
| `SessionLifecycle` | many connections, handlers and sessions; store, cap, reaper and switch |
| `TicketStore` | tickets, the requests that reserve them, time |
| `LoginThrottle` | the throttle, the login handler and its bounded password checks |
| `Access` | switches, routes and watch tokens across restarts and changed environments |
| `FileApi` | uploads, downloads and changes of names in one directory |
| `FsRoots` | resolution of paths and every operation over trees with links |
| `ChildCommand` | one command with its pipes, readers, limit and deadline, in both callers |
| `LocalShell` | the threads, the channel and the driver of a shell on a PTY |
| `SshHosts` | connections that check, pin and use host keys |
| `FirstStart` | the signing secret and the first administrator |
| `AgentConfig` | `config.toml` from start to crash, and the settings of the running agent |
| `Retention` | a cleanup, statement by statement, beside those who insert |
| `Rates` | the arithmetic between two samples, used by the next two |
| `StatusLoop` | the monitoring loop, its rates, alerts and quotas |
| `History` | both histories as operators of the state |
| `StatusScript` | the script's output as a stream, and the parser that cuts it |
| `DiskTotals` | df and lsblk, their readers, and what is made of the rows |
| `Rules` | thresholds and rules |
| `NativeCommands` | the native backend's commands and reaper |
| `CommandStore` | abstract: the custom commands, replaced as a whole |
| `CustomCmdDir` | the agent's replacement of the directory of custom commands, call by call |
| `CustomCmdInstall` | the same beside the script by which the app replaces it over SSH |
| `MC...` | the instances TLC checks; the configurations give the constants their values |
| `OutputProofs` | theorems about `Scrollback`, `LocalShell` and `ChildCommand` |
| `TerminalStreamProofs` | about `TerminalStream`, by itself and as an implementation of `OutputView` |
| `OutputViewProofs` | about `OutputView` |
| `SessionLifecycleProofs` | about `SessionLifecycle` |
| `AccountProofs` | about `TicketStore`, `LoginThrottle`, `Access` and `FirstStart` |
| `RequestProofs` | about `FileApi`, `FsRoots`, `SshHosts` and `AgentConfig` |
| `MonitorProofs` | about `CustomCmdDir`, `NativeCommands`, `StatusLoop` and `Rules` |
| `ReadingProofs` | about `StatusScript`, `DiskTotals`, `History` and `Retention` |

`map` in `PROJECT.json` says which lines each definition stands for.

### Around a terminal

**Scrollback.** `buf` and `next_seq` are the code's; `produced` is history. `Push` is `push`, with the
tail of a write longer than the buffer and the overflow drained from the front; `ReplayFrom` is
`replay_from`.

**TerminalStream.** Output is counted: byte number *p* is the integer *p*, a chunk is a position and a
length, the buffer is the window of the newest `Capacity` bytes. `Scrollback!HoldsNewestOutput` is proved
and is what justifies the window. A connection attaches at most once, so its number serves as its
`AttachmentId`. `Publish` has a disjunct for each outcome of `Session::publish`: withheld, queued, queue
full (which stops live output and leaves a task to queue the marker), receiver gone. An attach is four
steps with other tasks in between: the lookup, the refusal of a closed session, the lock under which the
replay is read and the sender installed, the reply. A pump's sender is alive while it is installed in a session
that something still holds, or held by the marker task. A client's screen is a set of positions; `shown`
includes what is queued in the renderer and not yet acknowledged (`pending`). The panel counts bytes when
acknowledged, the app on arrival. Keyboard input, resizing, the audit log and the throttled copy of
the counter in `sessionStorage` are left out.

`CutReply` says whether a link may die between the `ready` of a truncated reply and the
`gap_truncated` behind it. With it, screens can have a hole (section 4, `cut_reply`), which would hide everything
else those properties have to say, so it is FALSE in the passing runs and a hypothesis of the theorems about screens. Every other
place where a link may die is in them.

**SessionLifecycle.** An element of `Handlers` is one call of `on_control` that claimed its connection.
It starts at most one shell, so its number also names the shell, its `Session` and its handle. `at[h]` is
either an await (`Awaiting`) or a point between two locks on the connection's thread
(`OnThread`, during which nothing else of that connection runs: `Busy`). `Inserts`, `Rechecks`, `Starts`,
`Checks` and `Joins` are the steps from a shell, or a handle, to a Running connection. Timeouts,
failures and the network are nondeterministic. Subjects, secrets, tickets and the contents of records are
abstracted; `LocalAllowed` is the startup settings (`Secure`) minus the switch; a setting that cannot be
saved is a `TurnsOff` that does not happen. A handle is known to anyone once `ready` announced it.

**TicketStore.** A ticket is its id; deadlines are the time left until them, which `TicketTick` counts down. A request
suspends between `Reserves` and the outcome of the handshake (`Commits`, `RollsBack`), and can be dropped there,
in which case neither happens and the entry stays reserved until a later `Issues` sweeps it. `Burns` is a
`reserve` that finds the ticket expired or the secret wrong. `opened` is history.

**OutputView.** Screens grow at their end, may repeat what they show, or are wiped. `TerminalStream`
implements it under `produced <- next_seq`. Both are proved: `ScreensAreUnbroken` of the abstract screen, `StreamImplementsView`
of the stream.

### What requests do

**LoginThrottle.** `entry` is the map, with zeros for a key it does not hold: every operation leaves one of the
counters positive or removes the entry. A login runs through the handler's awaits (`querying`,
`waiting` for a permit, `checking`, `verified`) and can be dropped at each. `abandoned` counts the bcrypt
tasks whose request is gone; they still hold their permits. `forgotten` is history: the keys on which a success cleared
reservations that others still held. Each of those others, when it ends, finds no reservation of its own and takes one
of a newer attempt, so the count can be too low then, and the property says by how much: never too high.

**Access.** `resolve` is the resolution at start, route by route from file and environment. A request is admitted,
recorded (an await), then run. `late` is history: it was sent after the switch had answered.
Watch tokens are rows of one table; `newest` is what each watch was handed last.

**FileApi.** Files are numbered inodes, so an open file stays what it was when its name goes, as on Unix. An upload's
`Stages`, `Receives`, `LooksAtMode`, `CarriesMode` and `Replaces` are the handler's awaits; dropping it cleans nothing up,
a kill starts the counter of staging names again. `Destinations` is a bound: uploads go to one of the names. A download starts at an offset
and `ReadsAreOneVersion` is about one response: a client that joins two has no way to tell that both are of one version. Power loss is left out: `write` flushes
to the system and does not sync. **FsRoots** has the
other half: which path a request may name at all. `canonicalize` walks links as the system does, one name or one link in a step and
as many steps as a path can take (`MaxTarget` is the length of the longest target), `resolve_new` anchors at the deepest ancestor that exists, and each operation does to the tree what the code's call does. A call that no
change overtakes is `fresh`: resolving and using a path are two steps, and `fs_roots.rs` (18-25) says that a change between
them is not defended against.

**ChildCommand.** A command is a program of a few steps (write to either pipe, read, start something in
the background that leaves or stays in the group, hang); pipes hold `PipeSize` units. `kind` is who runs it: `exec.rs`,
which feeds stdin to the end and then reads both pipes at once, or `command_output_with_timeout`, which has its readers from the start and stops at a
limit. `prompt` says whether time passes only when nothing else can move; the properties about deserved timeouts are for that case.
What can move is written out (`ChildCanMove`, `AgentCanMove`): the guards of the actions, which are what each side waits for.

**LocalShell.** Reader and reaper thread, `delivery_closed` (`gate`, `shut`), the bounded channel, the driver and its
blocking write. Units of output are numbered. `punctual` is to the 100 ms of draining what `prompt` is to deadlines, and
`ThreadsCanMove` says when a thread has something to do.

**SshHosts.** Every SQL statement of `verify` is a step; the server behind the address may be replaced and the row deleted. **FirstStart** has
several starts of the agent, killed anywhere, and `user set-password` beside them; `told` is what the operator has read.

### What goes on in the agent

**AgentConfig.** A configuration is what its keys say, one number for each key that is written by somebody else. A writer goes through
`backup`, `prune`, `temp`, `rename`, `sync`, each of which may fail or be the last before a kill; after a power loss `safe` is what is left.
`legit` and `stale` are history: the values each key may have after what was acknowledged, and the keys that changed on disk
by a write nobody acknowledged (a failed directory flush, a dropped request, `config init`).

**Retention.** Rows carry the hour they were written. `Pages` is the live size of a table, `Iso` tells the tables stamped by the
agent from those stamped by SQLite; `undisturbed` is history. The rows of a table are in the order they were written, so those a DELETE takes are its first,
and `Without` is what both kinds of deletion leave.

**StatusLoop** follows the loop's awaits: the settings are read, the sample taken (several ticks), the script run, the result adapted
against what was published before, alerts judged and sent one by one, the metrics published. One counter stands for all; it may be reset, and the
clock set back. **Rates** keeps quotients as pairs, so nothing is rounded. **History** asks every bounded request in every state and compares the answers
with `flowed`, all that ever arrived. An answer is the set of its points, which the number of the bucket puts in order; an average is a sum
and a count. `cores` says whose ticks a place of the list has, which the code does not look at: `counted` adds up what the usages of a core stand for.

**StatusScript.** The stream is a sequence of lines: markers, what built-in commands print (which may lack its last newline), and custom commands
captured into one encoded line. What a function has still to print is a set (`to_run`), gone through in the order of `Before`; `ran` is history, and says of
each command whether its section can be told apart (`whole`). The directory may be replaced while the script goes through it. **DiskTotals** lets df print row by row while mounts come and go. A list
is the sequence of rows in the order of a walk, children behind their parents; an identity is kept where it is first met (`FirstOfEach`). **Rules** reads a
threshold as operator, number, characters of the unit and `/s`, and judges each kind of rule.

**NativeCommands.** Calls reserve a slot, spawn, poll and give up; processes end, are killed, or stay in a state no signal ends.

**CustomCmdDir.** `dir`, `tmp` and `backup` are the three directories of `write_dir`, each a set of files or missing; a
file is a name and a text, or torn when its write was cut short. Each call to the file system is an action, with an
action for what the code does when it fails, and `Crashes` kills the process before any of them. A crash is that of the process:
what was written stays (files are not flushed, so after a power loss it might not). `Stored` is what there is of the
commands, the backup where the directory is missing, and `Wanted` the lists of calls under way; with them it refines
`CommandStore`, where only a list that was asked for can become the set. `before` is history. Lists passed `validate`, of which
the model keeps that names differ. `SideSticks` says whether a left-over staging
directory may resist its removal, an error the code drops (`custom_cmds.rs:127`); it is FALSE, since leftovers would then be
installed with the new list. **CustomCmdInstall** adds the commands of the installer script and takes the agent's steps
unchanged, for the disagreement `shared_side`.

### Instances and mutants

Components that share no state are checked in one run: `MCTerminal`, `MCRequests`, `MCMonitor` and `MCAgent` extend their modules and
choose in `part` the one that moves, while the others stand still in one initial state. So the states of a run are the sum and
not the product of those of its components, and each component is explored as if it were alone. What
several components share is inside one module: sessions, store and switch in `SessionLifecycle`, buffer and clients in
`TerminalStream`, throttle and handler in `LoginThrottle`, file and settings in `AgentConfig`.
Under fairness, a component that stands still does so where none of its fair actions is enabled.

Definitions commented `Mutant:` are what a plausible bug would turn their neighbour into. No model uses
them. Each property of a passing run has one in `PROJECT.json` that, put in the place of the real
definition, makes TLC find that property violated.

## 3. Runs

| Run | Instance | What it shows |
| --- | --- | --- |
| `stream` | 2 panel tabs, 2 connections, buffer 1, queue 1, 3 bytes | safety of the stream, reaper and takeover, and refinement of `OutputView` |
| `stream_live` | the app, 2 connections, 2 bytes, fairness | output arrives or its owner is told and closed, losers are closed |
| `terminal` | 2 connections, 3 handlers, cap 1; 4 tickets, 2 accounts, 2 requests, caps 3 and 2; 2 byte values, capacity 3, 7 bytes | claims, orphans, cap, switch; one use; the buffer against its history |
| `agent` | 2 savers, 2 saves, 1 fault, 1 backup; 2 tables, 4 hours, 6 rows; 2 connections, 2 handlers; fairness | saves survive, the agent comes back, the cleanup ends, shells end |
| `requests` | 2 logins; 1 request, 2 starts, 2 tokens; 2 uploads, 1 download; 1 call on trees of depth 3; programs of 4 steps; 4 units of output; 2 dials, 2 keys; 3 starts | what each request promises beside others, failures and restarts |
| `monitor` | 3 ticks after the first; 3 built-in and 2 custom commands; 2 replacements; 2 callers, 3 processes; 5 mounts, 2 trees; 20 rules, 8 readings; 3 seconds, 2 cores | what is measured and told |
| `silent_end`, `cut_reply`, `shared_side`, `closed_shell`, `early_deletion`, `wrapped_row` | | section 4 |

Type correctness is proved (section 5) and not run again.

**Bounds.** Constants commented as bounds cap what the model may do; everything else is a parameter of the code, made small.

* Stream and buffer: a capacity of 3 with 7 bytes has the buffer fill, overflow by less and by more than a write, and a write longer
  than the buffer. A buffer of 1 with 3 bytes has both a resume inside the window and a truncated one; a queue of 1
  overflows at once; two connections and two tabs give a takeover, a late disconnect of the loser and a reconnect,
  though not all in one behaviour: what each pair of connections does to the other is what the properties are about.
* Sessions: three handlers on two connections are an opener, a competitor on the same connection and one on another,
  or two shells against a cap of one with a resume. Tickets: four are one more than the store holds, and caps of three and two make each
  of them the one that refuses.
* Logins: two at a time are enough for one to clear what the other holds and for a third, in the
  place of the first, to meet what is left; `MaxCount` = 2 lets a second failure raise the penalty. `Logins` and `Requests` are
  interchangeable, hence the symmetry sets; those runs check no liveness.
* Files: uploads of two chunks, and of three against a limit of two; downloads from the start of a file, its middle or its end (an offset past it has nothing to read either); one pid, as in a container, so that a restart draws names that were used.
  Trees have a root whose name is a prefix of a directory outside, links in and out and to what is not there, and one change by others; no path needs more links than the system follows.
* Commands: four steps write one unit more than two pipes and a limit of one hold. Shells: a terminal of one, a channel of two, four units.
* Configuration: two saves and one fault are a save beside another or beside `config init`, and a crash in any place, the next start included.
  A power loss after a kill is left to the crash alone.
* Cleanup: three rows that stay (`MinAudit`) take more pages than the cap allows, so a file that cannot be made to fit is among the cases.
* Loop: `MaxNow` = 3 is one interval more than the longer of the two extended periods needs; a reset or a change of settings once.
* Script: outputs that look like markers, one left open, one cut at its maximum. Replacement of the command directory: two calls and a backup are enough for
  one to be killed, the other to recover and be killed as well, and the first to come back.
* Disks: one device at two places, one with a long name, pseudo filesystems; RAID below two disks; subvolumes. Rules: every operator and kind, with readings on both sides of each threshold.
* History: buckets of one and more seconds, requests that ask for fewer points than the least allowed and for more than there are.

Where a bound could hide something in a module with proofs, the theorems do not have it: they hold for every value of the constants.

`CHECK_DEADLOCK FALSE`: an instance stops for good when its bounds are used up or everything is closed.

**Fairness.** Weak fairness, per task: tasks the runtime can schedule do run; timers fire; the reaper loops on a timer; a dead
socket is noticed, because the heartbeat's write fails in the end (`TerminalStream`, `SessionLifecycle`). That no write to a shell
blocks for ever is an assumption of `SessionLifecycle`, and `closed_shell` shows where it fails. No fairness is given to
the shell's output and exit, the user or the network, nor to the answer to a request for a channel:
`open_shell` is awaited without a timeout (`terminal.rs:850`). `AgentFairness`: the agent is started again whenever it ends, as its systemd unit says
(`Restart=always`), and a start goes on. `RetentionFairness`: a cleanup under way goes on. Those who insert are stopped by the bound `MaxRows`, and `CleanupEnds`
needs that: a cleanup ends when inserts stop or fall behind its rounds, and `cleanup.rs` has no bound against inserters who keep up. `ShellFairness`
adds strong fairness for the driver's choice between input and output: `select!` picks at random among what is ready. A shell may print whenever it can; nothing
makes it read.

## 4. Where the code and its comments disagree

Six runs expect a violation:

* `silent_end`: `pump_output` is documented to pump "until it is taken over, the shell exits, or the
  socket dies", but a shell whose channel ends without an exit status, or is closed through an older
  connection, publishes nothing. The owner's own phase keeps the sender alive and the connection stays
  open, quiet.
* `cut_reply`: the counter "is allowed to lag, never to lead", but it moves at `ready` and the screen is
  reset one frame later. A link that dies in between leaves a counter ahead of the screen and, after the
  next replay, a hole.
* `shared_side`: the agent's comment has the lock keep concurrent processes from its side paths, and the installer script's
  has polls see the old set or the new one. The script stages at the agent's side path without the lock, so either can
  install part of what the other was writing.
* `closed_shell`: `close_local` "removes and terminates every shell that bypassed SSH authentication", but the driver of a local shell writes input with a blocking
  call and reads Close only after it; a shell that takes no input is never closed.
* `early_deletion`: rows are reported as older than their days, but the stamps of SQLite and the cutoff are different text for the same time, and rows of the cutoff's day all go.
* `wrapped_row`: `parse_df` "handles wrapped lines", but the name replaces the first number of the continuation, which then has a field too few and is dropped.

Met while modelling and not in a run of their own:

* `output_lagged` is sent so that "the client recovers the same way it recovers from a disconnect"; the app treats it as fatal (`monitor_terminal.dart:282`).
* The settings page's help names threshold forms that `validate_threshold_format` (`server.rs:852-859`) refuses or that are read otherwise; `10MB/s` is accepted by PUT
  and never parses, so its rule is silent.
* A network speed that is not known yet is judged as 0 by `check_network_rule`, though `timeseries.rs:121` says that none is reported rather than a made-up one.
* A failed extended refresh keeps the previous commands (comment at `monitoring.rs:501-502`) only while the previous metrics are there to keep them from.
* With a clock set back, velocity rates are withheld, but the averages of the database can put two different times in one bucket. The window of the history query
  compares the text of stamps of two forms, as the cleanup does (`server.rs:1084`).
* A chmod between the read of the destination's permissions and the rename of an upload is lost (`fs.rs:351-357`). A root below another root
  can be removed with its parent (`fs.rs:397`).
* Command files from the thousandth on are numbered with a sixth digit that the script skips. A stray file that passes the script's
  test and does not decode ends the section before it, and built-in output without its last newline takes the next marker with it: `SectionsAreExact` names
  these cases. A poll during a replacement may run some commands of each set, one after another.
* A core's usage is documented as its own "over the sampling window" (`timeseries.rs:165`), but `adapt_cpu` matches cores to the previous cycle by their place in the list (`monitoring.rs:1248`).
  When one goes away, those behind it are compared with the ticks of another core. The lists of the run are empty or grow at the end, and the theorem about histories has the hypothesis `CoresKeepPlaces`: TLC
  finds `UsageIsItsCores` violated with the lists `<<1, 2>>` and `<<2>>`.
* A settings file without either section is taken for the older agent's, and a save of the card order then writes defaults over the rest.

## 5. Proofs

All proofs are for arbitrary constants, under the named assumptions of the modules:

* capacities, limits and bounds are naturals; a queue, a pipe and an interval are at least one;
* a device has one size however it is listed, uses no more than that, and no node of `lsblk` is below itself; a file has at least one table that is trimmed and a page room for a row;
* constants for "none" (`Nobody`, `NoTicket`, `Unpinned`, `NoFile`, `None`, `Torn`) are none of what they stand beside; names are not addresses, and what is not read is no number;
* the logins in progress, callers and processes are finitely many;
* what comes from outside has the shape the code accepts: a saved list has one file per name (`validate`), the app is a single client, uploads go to files, a command is a
  sequence of steps, a built-in command prints no marker, the files of a directory differ in their order, a list names each core once, the parts of a tree are directories, files and links. `ConfigAssumption` also says that a configuration with neither section does not have the older agent's keys: that agent
  wrote JSON, which `Config::legacy` reads from a file of its own.

### The terminal

* `OutputProofs`, **Scrollback**. `HoldsNewestOutput` (the buffer is the last `Min(Capacity, Len(produced))` bytes
  of `produced`) with the types is inductive. A write longer than the buffer, one that overflows
  and one that fits are separate lemmas on `SubSeq` and `\o`. `ReplayIsExact` follows from the invariant.
* `TerminalStreamProofs`. Types, queues and frames included. `DetachedIffUnowned` is
  inductive by itself, as the two fields change together; from it follows `ReaperIsSafe` (what the reaper
  takes has no owner at that moment). `TakeoverSurvivesLateDisconnects` is an action property
  proved by cases over the steps that clear `current`. The switch, which closes local shells under their owners (`close_local`), is not one of them: it is in `SessionLifecycle`.
* `OutputViewProofs`. `UnbrokenScreens`, with the lemma that two runs that touch join into one.
* `TerminalStreamProofs`, **as an `OutputView`**. Every step of the stream is a step of `OutputView` or a stutter. The case that needs an invariant is a client
  that shows output: the bytes must continue its screen. `ChainOK` is the reason: what a client has been shown, what is pending at its renderer, the frames on
  its link, and the pump's queue are one run of output, each beginning where the one before ends, unless a gap is marked between them. `ResumesOK` says
  what a counter may be while a reply is under way, `OrderOK` that a reply is ahead of live output, `PumpOK`, `AttachingOK` and `LinksOK` which
  queues and frames there are at each place of a connection. `StreamInv` is their conjunction; `ScreensStayWhole` is the abstract theorem carried
  back. Both have the hypothesis that a link does not die inside a truncated reply (`~CutReply`), and run `cut_reply` shows that they
  need it.
* `SessionLifecycleProofs`. The invariants of the sessions are proved together, as they lean on each other.
  `IInv` adds to them, for each handler, what its place says of its shell, its connection and the session
  it found (`HandlerInv`, `ShellInv`): a shell is open exactly while a handler holds it, one that was
  registered is reached by the store or is ending. `LocalInv` adds that a sweep comes after the
  flag. Without it the sweep and the recheck cannot be told to cover each other: an
  opener registers and then looks at the switch; the switch is set and then the store swept; whichever
  order they meet in, one of the two sees the other. `CapInv` bounds the store's entries, and
  `ShellsWithinCap` counts driven shells
  by them, with the cardinality theorems of the library.
* `OutputProofs`, **LocalShell**. What the driver has been told is 1, 2, 3, ... and then the exit (`OrderInv`), with the queue as its continuation.
  `GateInv` ties the lock to those inside it, so the reader and the reaper never send at once. `CountInv` follows each unit from the terminal to the
  driver, and `TailInv` says that a reaper that was not hurried closes only behind a reader that has read the end: together, that the exit comes after all that was written.

### Accounts and access

* `AccountProofs`, **TicketStore**. `SingleUse` and `ReservationsAreKept` are inductive together with `HoldingInv`: ids are not drawn
  twice, a used ticket has no entry, the entry of a held one is reserved. The caps are proved apart, since they need
  that the store is finite: the sweep only removes, and a new id adds one to a set that had room.
* **LoginThrottle**. `ReservationsAreExact` compares a counter with the cardinality of the set of logins that hold
  the key. A lemma shows that every way to end a login other than success takes one off both; with
  success, the keys that others hold move to `forgotten`. `FailuresStay` is an action property over what each operation does
  to an entry; `ChecksWithinPermits` moves a check from its request to `abandoned`.
* **Access**. `SwitchIsFinal`: once the switch has answered, the file says off and so does the flag or what was resolved (`ClosedIsClosed`), also after a restart, since `resolve`
  takes a written "off" over any environment; so a request sent later is never admitted to a route that needs full access (`LateRequestsAreHarmless`).
  `WatchesReadWithTheirToken` needs that each watch has at most one row and that it is its newest (`RowsAreNewest`).
* **FirstStart**. The credentials file is created by one start only, and the administrator has that start's password or the chosen one
  (`CredentialsAreExclusive`, `AdminPasswordIsKnown`). For the secret: a file that is being written is not removed meanwhile, its author is past writing it once it is whole, and whoever signs with it does so later and
  with the file closed to others (`SecretStaysThere`, `SecretIsWritten`, `SignersAreLate`).

### Requests

* `RequestProofs`, **FileApi**. The staged file of an upload is its own: name and inode are shared with no other upload, no name and no left-over of an
  earlier process that drew the same pid and counter (`StagesArePrivate`, `StagesAreOwn`). So only its handler appends to it, and what a rename installs is whole and
  is never written again. What a reader has follows its offset in one inode, which was whole when it was opened (`ReadersGoThrough`).
* **FsRoots**. `CallsStayInRoots` rests on what a walk is: where one ends there are only directories and files on the way (`Canonical`), and such a path leads to itself (`CanonicalStays`). So a path that was
  resolved leads, while nothing changed, to where it did, and what a call touches is that or below it; `FreshOK` says this of each call that no change overtook. `Ahead` shows that a walk is over after as many steps as
  `StepsOf` gives it. The hypothesis `LinksSuffice`: resolving in parts may follow `MaxLinks` links in each, so a name that was out of reach
  of a whole path could be in reach from where the names before it lead. No path of the run needs that many.
* **SshHosts**. A connection is admitted in an era, which ends when the row is deleted. `OneKeyIsTrusted` is inductive with the types once no admission is of an era to come
  and a connection under way has seen a key (`AdmissionsArePast`).
* **AgentConfig**. `SavesAreKept` and `AgentFollowsItsFile` are proved from one invariant: whose turn it is under the lock (`TurnsOK`), that what is about to be written
  differs from what was read by the save alone (`ValuesOK`), that a file of the agent does not disappear and survives a start's migration as it is (`FileStays`, `OwnFileOK`, `FilesArePlain`), and that the
  running settings are the file's, up to the keys that changed unacknowledged (`LiveIsFile`).
* `OutputProofs`, **ChildCommand**. The remaining program is the end of the plan and each pipe holds what was written less what was read (`ProgramInv`), so a reader that saw
  the end of a child that exited has all of it. `EndsInv` says why readers stop and children end; `FeedInv` what feeding stdin leaves open, from which a deadline
  beside an agent that could do nothing is the command's own doing (`TimeoutIsDeserved`).

### The monitor

* `MonitorProofs`, **CustomCmdDir**. `DirInv` says for each place in `write_dir` what the directories hold: the lock is held by whoever is
  in there, so that one call at a time has a place; while files are written `tmp` is the first `n` of the list
  and perhaps a torn one, which names being different makes exact; from the move aside on the backup is what was stored. From it follow
  the refinement of `CommandStore` and `AnswersAreTrue`, both under the assumption that `SideSticks` is FALSE.
* **NativeCommands**. `SlotsAreExact` is inductive once pollers are known to be apart (`PollersAreApart`): each polls a process of its own
  that the reaper does not hold. Leaving a call takes one from the set of calls in flight and one slot, which the saturating subtraction could only miss if there were none.
* **StatusLoop**. `RatesHaveNoSpikes`: a counter grows by at most `MaxRate` in a tick and a sample is at most its value when it settled (`CountersOK`), so
  whatever two samples are compared, the difference is bounded by the time between them or is negative, when no rate is told.
  `ExtendedDataIsFresh` bounds the cycles that skipped it (`SkipsBounded`) and follows what was carried over (`CarriesOver`). `QuotaIsKept`: the queue of a push
  holds its newest confirmations, and every one it does not hold is older than the window (`KeepsNewest`), so a queue with room
  has fewer than `Times` within the window, and the next makes one more. That what `Recent` drops is exactly what is too old is shown with a least counterexample, which the
  library's theorem on well-founded orders provides without an operator parameter.
* `ReadingProofs`, **StatusScript**. `OnStream` is the invariant of a function that runs: what the parser makes of the stream so far is what was run, section by section, for those
  that can be told apart (`RanOK`), and no built-in key comes twice (`KeysOK`). `Parts` says what each function left in the segments. A section is whole once the next marker was read, so the last one's is decided a step later
  (`LastEnds`). Each built-in key belongs to one of the two functions, hence the first section of a key is the one.
* **History**. `HistoriesDoNotOverstate`: rows are in the order of their times and what resets took from the counter is never given back (`RowsOK`), so the difference of two averages, taken over rows one after the other, is
  at most what arrived between the first of one bucket and the last of the next; a sum is bounded by its cardinality times its greatest member. Of the buckets, the newest are taken by how many are newer, which
  makes their number and what is left out a matter of cardinality. `SpeedsOK` and `UsagesOK` say the same of the series in memory, one sample after another.
* **DiskTotals**. `DevicesCountOnce` follows the rows from their source. After a name on a line of its own come its numbers (`WellBroken`), which the parser throws away, so every row that is read was printed
  whole (`RowIsRead`): no name takes another's numbers. The recursion over lsblk's trees is an induction over the height of a node (`DeviceIs`, `DeviceRows`), and `btrfs` children that are appended once more are rows of nodes
  too. So each row gives its device's one size and no more used than that (`ListedRow`, `DisksInv`), the first rows of each path are one for each device (`FirstPlaces`), and sums do not depend on the order or on the names of
  what is added (`SumTakesOut`, `SumMoved`).
* **Retention**. `CleanupsMeetTheCap`: a round that has deleted nothing and was not disturbed has seen only tables with nothing to spare (`RoundOK`), since a tenth and one more is never nothing (`TrimmedIsSpare`).
  A cleanup ends behind a table only if the file fits or the round has been at all of them.
* `MonitorProofs`, **Rules**. `AlertsMeanWhatTheySay` needs no invariant but types. `HelpedIsRead` is the argument: of a unit of one letter the order of the parser's tests decides
  nothing, so its kind, its scale and its number are the ones a reader sees; the rest goes through the types of rules one by one.

The proof of a step has one case for each action. A theorem in `PROJECT.json` without a property states an invariant that is proved and no longer run
(types, `HoldsNewestOutput`, `CapsHold`, `ChecksAreBounded`, `ReservationsAreKept`, `PromptsHaveTimeouts`, `OwnersWillDetach`, `ClosedIsUnowned`, `DetachedIffUnowned`), the
inductive invariant of a module, or a property of the abstract `OutputView`.

**Induction.** What a recursive function computes is proved by an induction over a set of naturals (`EachNumber`, from the least number that
is not in it), so that no theorem needs a predicate as a parameter; `ReadingProofs` has the pattern in `ParseExists`. Sums over finite sets are taken element by element the same way (`SumIs`, `SumWithin`), and so are lists of lists (`FlatIs`) and walks over trees (`WalkExists`).

**Only model-checked:** liveness, which is out of the prover's reach: that output arrives and losers are closed, that the agent comes back, that a cleanup ends, that
local shells end when they are turned off and shells nobody owns end. Every invariant and action property of the passing runs is a theorem.

## 6. Not modelled

The per-command parsers other than df and lsblk, reading `/proc` and `/sys`, generated bindings, the app's and the panel's
screens, schema and audit rows, request routing and JSON, what each push provider is sent: pure or sequential code, I/O, or
someone else's concurrency. `cleanup run` in another process beside the scheduler's cleanup, failing statements of a cleanup,
Windows and macOS variants, resizing of terminals and the audit log's own contents are left out of modelled parts. The SSH
protocol, SQLite and the WebSocket library are what the code assumes them to be.

## 7. Plan

1. Done: terminal sessions, tickets, login throttle, custom commands, with their proofs.
2. Done: configuration, start-up, access, files, commands, local shells, host keys, the monitoring loop, scripts, disks, rules,
   histories, retention, native commands.
3. Done: `TerminalStream` implements `OutputView`; the properties of host keys, files, roots, configuration, access, start-up, commands,
   local shells, the monitoring loop, rules, scripts, disks, histories and retention as theorems.
4. Models next: a second `cleanup run`; loss of unflushed command files; input from two tabs of one session.
