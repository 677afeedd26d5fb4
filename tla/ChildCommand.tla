---------------------------- MODULE ChildCommand ----------------------------
(***************************************************************************)
(* One command run to its end, with bounded time and bounded output:       *)
(* `command_output` of src/monitor/src/monitoring/monitoring.rs (kind      *)
(* "monitor", no stdin) and `run` of src/monitor/src/api/exec.rs (kind     *)
(* "exec", with a stdin fed by the request).  The command is a program of  *)
(* a few steps; its pipes hold PipeSize units; what it starts in the       *)
(* background holds its output pipes for ever.                             *)
(***************************************************************************)
EXTENDS Naturals, Sequences, FiniteSets

CONSTANTS
    PipeSize,       \* units a pipe holds
    Cap,            \* MAX_COMMAND_OUTPUT_BYTES, and MAX_OUTPUT of exec.rs
    MaxInput,       \* bounds the stdin of a request
    Programs        \* what a command may do, a set of sequences of steps

Streams == {"out", "err"}
Steps == Streams \cup {"in", "group", "away", "hang"}

ASSUME CommandAssumption ==
    PipeSize \in Nat \ {0} /\ Cap \in Nat /\ MaxInput \in Nat /\ \A p \in Programs : p \in Seq(Steps)

VARIABLES
    kind,           \* who runs the command
    prompt,         \* whether time passes only when nothing else can move
    program,        \* what the command still does
    child,          \* "running", "exited" or "killed"
    helpers,        \* where what it left in the background lives
    held,           \* units of stdin not yet written
    stdin,          \* units in the stdin pipe, and whether it is still open
    pipe,           \* units in each output pipe
    got,            \* units each reader has
    reader,         \* "idle", "reading", "eof", "full" or "closed"
    stage,          \* "feeding", "waiting", "draining" or "answered"
    answer,         \* what the caller is told
    plan            \* history: the program and the input it was started with

commandVars == <<kind, prompt, program, child, helpers, held, stdin, pipe, got,
                 reader, stage, answer, plan>>

\* `command_output` has its readers and no stdin from the start, `exec` feeds first.
CommandInit ==
    \E k \in {"monitor", "exec"}, p \in Programs, n \in 0 .. MaxInput, fast \in BOOLEAN :
        /\ k = "monitor" => n = 0
        /\ kind = k /\ prompt = fast /\ program = p /\ held = n
        /\ plan = [steps |-> p, input |-> n]
        /\ child = "running" /\ helpers = {} /\ answer = "none"
        /\ stdin = [units |-> 0, open |-> k = "exec"]
        /\ pipe = [s \in Streams |-> 0] /\ got = [s \in Streams |-> 0]
        /\ reader = [s \in Streams |-> IF k = "exec" THEN "idle" ELSE "reading"]
        /\ stage = IF k = "exec" THEN "feeding" ELSE "waiting"

Answered == stage = "answered"

-----------------------------------------------------------------------------
(* The command.                                                            *)

Does(step) == child = "running" /\ program # <<>> /\ Head(program) = step

Proceeds == program' = Tail(program)

\* A write to a pipe nobody reads any more ends the command.
Broken(s) == reader[s] \in {"full", "closed"}

Writes(s) ==
    /\ Does(s)
    /\ IF Broken(s)
       THEN child' = "killed" /\ UNCHANGED <<program, pipe>>
       ELSE /\ pipe[s] < PipeSize
            /\ pipe' = [pipe EXCEPT ![s] = @ + 1]
            /\ Proceeds /\ UNCHANGED child
    /\ UNCHANGED <<kind, prompt, helpers, held, stdin, got, reader, stage, answer, plan>>

\* Reads a unit of stdin, or finds its end; waits while there is neither.
Reads ==
    /\ Does("in")
    /\ stdin.units > 0 \/ ~stdin.open
    /\ stdin' = [stdin EXCEPT !.units = IF @ > 0 THEN @ - 1 ELSE 0]
    /\ Proceeds
    /\ UNCHANGED <<kind, prompt, child, helpers, held, pipe, got, reader, stage, answer, plan>>

\* Starts something that keeps the output open, in its process group or out of it.
Forks ==
    /\ \E where \in {"group", "away"} : Does(where) /\ helpers' = helpers \cup {where}
    /\ Proceeds
    /\ UNCHANGED <<kind, prompt, child, held, stdin, pipe, got, reader, stage, answer, plan>>

Exits ==
    /\ child = "running" /\ program = <<>>
    /\ child' = "exited"
    /\ UNCHANGED <<kind, prompt, program, helpers, held, stdin, pipe, got, reader, stage, answer, plan>>

-----------------------------------------------------------------------------
(* The agent.                                                              *)

\* exec: `feed`. A broken pipe ends the feeding and is not an error.
Feeds ==
    /\ stage = "feeding" /\ held > 0
    /\ IF child = "running"
       THEN /\ stdin.units < PipeSize
            /\ held' = held - 1
            /\ stdin' = [stdin EXCEPT !.units = @ + 1]
       ELSE held' = 0 /\ UNCHANGED stdin
    /\ UNCHANGED <<kind, prompt, program, child, helpers, pipe, got, reader, stage, answer, plan>>

\* Closed either way, and only then is the output read.
ClosedStdin == [stdin EXCEPT !.open = FALSE]

Fed ==
    /\ stage = "feeding" /\ held = 0
    /\ stdin' = ClosedStdin
    /\ reader' = [s \in Streams |-> "reading"]
    /\ stage' = "waiting"
    /\ UNCHANGED <<kind, prompt, program, child, helpers, held, pipe, got, answer, plan>>

\* command_output takes one unit more than the cap and closes the pipe.
TakesNoMore(n) == kind = "monitor" /\ n > Cap

Collects(s) ==
    /\ reader[s] = "reading" /\ pipe[s] > 0
    /\ got' = [got EXCEPT ![s] = @ + 1]
    /\ pipe' = [pipe EXCEPT ![s] = @ - 1]
    /\ reader' = [reader EXCEPT ![s] = IF TakesNoMore(got[s] + 1) THEN "full" ELSE @]
    /\ UNCHANGED <<kind, prompt, program, child, helpers, held, stdin, stage, answer, plan>>

AtEnd(s) ==
    /\ reader[s] = "reading" /\ pipe[s] = 0
    /\ child # "running" /\ helpers = {}
    /\ reader' = [reader EXCEPT ![s] = "eof"]
    /\ UNCHANGED <<kind, prompt, program, child, helpers, held, stdin, pipe, got, stage, answer, plan>>

Closed == [s \in Streams |-> IF reader[s] \in {"eof", "full"} THEN reader[s] ELSE "closed"]

Overflowed == \E s \in Streams : got[s] > Cap

\* `terminate_command` signals the group; dropping the child of exec kills it alone.
Killed == IF child = "running" THEN "killed" ELSE child
Spared == IF kind = "monitor" THEN helpers \ {"group"} ELSE helpers

Gives(a) == answer' = a /\ stage' = "answered"

\* The select is biased: an overflow comes before the exit.
StopsOverflow ==
    /\ kind = "monitor" /\ stage = "waiting" /\ Overflowed
    /\ child' = Killed /\ helpers' = Spared /\ reader' = Closed
    /\ Gives("too much")
    /\ UNCHANGED <<kind, prompt, program, held, stdin, pipe, got, plan>>

Waited ==
    /\ kind = "monitor" /\ stage = "waiting" /\ ~Overflowed /\ child # "running"
    /\ stage' = "draining"
    /\ UNCHANGED <<kind, prompt, program, child, helpers, held, stdin, pipe, got, reader, answer, plan>>

\* Mutant: the answer does not wait for the second pipe.
OneRead == reader["out"] \in {"eof", "full"}

AllRead == \A s \in Streams : reader[s] \in {"eof", "full"}

\* exec waits for the child and both pipes in one future.
Drained ==
    /\ IF kind = "monitor" THEN stage = "draining" ELSE stage = "waiting" /\ child # "running"
    /\ AllRead
    /\ Gives(IF ~Overflowed THEN "whole" ELSE IF kind = "monitor" THEN "too much" ELSE "cut")
    /\ UNCHANGED <<kind, prompt, program, child, helpers, held, stdin, pipe, got, reader, plan>>

CommandMoves ==
    \/ \E s \in Streams : Writes(s) \/ Collects(s) \/ AtEnd(s)
    \/ Reads \/ Forks \/ Exits
    \/ Feeds \/ Fed \/ StopsOverflow \/ Waited \/ Drained

\* What CommandMoves waits for, action by action.
ChildCanMove ==
    /\ child = "running"
    /\ \/ program = <<>> \/ Does("group") \/ Does("away")
       \/ \E s \in Streams : Does(s) /\ (Broken(s) \/ pipe[s] < PipeSize)
       \/ Does("in") /\ (stdin.units > 0 \/ ~stdin.open)

AgentCanMove ==
    \/ stage = "feeding" /\ (held = 0 \/ child # "running" \/ stdin.units < PipeSize)
    \/ \E s \in Streams : reader[s] = "reading" /\ (pipe[s] > 0 \/ (child # "running" /\ helpers = {}))
    \/ kind = "monitor" /\ stage = "waiting" /\ (Overflowed \/ child # "running")
    \/ AllRead /\ IF kind = "monitor" THEN stage = "draining" ELSE stage = "waiting" /\ child # "running"

\* The deadline: of the whole of exec, of the wait, and of what is left for draining.
TimesOut ==
    /\ ~Answered
    /\ kind = "monitor" /\ stage = "waiting" => ~Overflowed /\ child = "running"
    /\ prompt => ~(ChildCanMove \/ AgentCanMove)
    /\ child' = Killed /\ helpers' = Spared /\ reader' = Closed
    /\ Gives("timeout")
    /\ UNCHANGED <<kind, prompt, program, held, stdin, pipe, got, plan>>

CommandNext == CommandMoves \/ TimesOut
CommandSpec == CommandInit /\ [][CommandNext]_commandVars

-----------------------------------------------------------------------------
(* Properties.                                                             *)

Wrote(s) == Cardinality({i \in DOMAIN plan.steps : plan.steps[i] = s})
Plans(step) == \E i \in DOMAIN plan.steps : plan.steps[i] = step

\* An answer that is not marked as cut holds everything the command wrote to either
\* pipe: neither the exit, seen before the pipes are empty, nor the deadline that races
\* it lets a prefix pass for the whole.
OutputIsWhole ==
    answer = "whole" => \A s \in Streams : got[s] = Wrote(s) /\ pipe[s] = 0

\* While time is slow beside the command, only a command that waits for ever, or leaves
\* its pipes open, costs the deadline - or one given more input than a pipe holds that
\* fills its own output before it has read it, since exec reads nothing while it feeds.
TimeoutIsDeserved ==
    prompt /\ answer = "timeout" =>
        \/ Plans("hang") \/ Plans("group") \/ Plans("away")
        \/ kind = "exec" /\ plan.input > PipeSize /\ \E s \in Streams : Wrote(s) > PipeSize

\* What the caller is told is what happened: whole output is whole, and a timeout is the
\* command's own doing (exec and run_command_with_timeout).
AnswersAreHonest == OutputIsWhole /\ TimeoutIsDeserved
=============================================================================
