----------------------------- MODULE LocalShell -----------------------------
(***************************************************************************)
(* A shell on a local PTY: the reader and reaper threads that              *)
(* LocalShell::spawn of src/monitor/src/ssh/local_pty.rs starts, the       *)
(* bounded channel they send on, and the task that drives the shell        *)
(* (drive_local_shell of src/monitor/src/api/ws/terminal.rs).  Units of    *)
(* output are numbered, so what was delivered can be compared with what    *)
(* was written.                                                            *)
(***************************************************************************)
EXTENDS Naturals, Sequences

CONSTANTS
    TtySize,        \* units the terminal holds in either direction
    QueueSize,      \* capacity of the channel to the driver
    MaxWritten,     \* bounds the output of the shell
    MaxTyped        \* bounds the units typed into it

ASSUME ShellAssumption == QueueSize \in Nat \ {0}

VARIABLES
    punctual,       \* whether time passes only when nothing else can move
    shell,          \* "running", "exited" or "killed"
    daemon,         \* a background job that keeps the terminal open
    written,        \* units the shell wrote
    toShell, fromShell, \* units in the terminal, going in and coming out
    thread,         \* the reader: "reading", "holding", "sending" or "finished"
    reaper,         \* "polling", "draining", "closing", "sending" or "over"
    gate,           \* who holds delivery_closed
    shut,           \* delivery_closed
    queue,          \* the channel: numbers of units, or Exit
    driver,         \* "selecting", "writing" or "gone"
    typed,          \* units still to write in the write under way
    input,          \* what waits in input_rx: sizes of writes
    closing,        \* SessionInput::Close is in input_rx, behind them
    published       \* what the session was given

shellVars == <<punctual, shell, daemon, written, toShell, fromShell, thread, reaper, gate,
               shut, queue, driver, typed, input, closing, published>>

Exit == 0           \* ShellEvent::Exit in the channel; units are numbered from one

ShellInit ==
    /\ punctual \in BOOLEAN
    /\ shell = "running" /\ daemon = FALSE /\ written = 0
    /\ toShell = 0 /\ fromShell = 0
    /\ thread = "reading" /\ reaper = "polling" /\ gate = "free" /\ shut = FALSE
    /\ queue = <<>> /\ driver = "selecting" /\ typed = 0
    /\ input = <<>> /\ closing = FALSE /\ published = <<>>

-----------------------------------------------------------------------------
(* The shell and who types into it.                                        *)

\* A full terminal makes the program wait.
ShellWrites ==
    /\ shell = "running" /\ written < MaxWritten /\ fromShell < TtySize
    /\ written' = written + 1 /\ fromShell' = fromShell + 1
    /\ UNCHANGED <<punctual, shell, daemon, toShell, thread, reaper, gate, shut, queue, driver,
                   typed, input, closing, published>>

ShellReads ==
    /\ shell = "running" /\ toShell > 0
    /\ toShell' = toShell - 1
    /\ UNCHANGED <<punctual, shell, daemon, written, fromShell, thread, reaper, gate, shut, queue,
                   driver, typed, input, closing, published>>

ShellExits ==
    /\ shell = "running"
    /\ shell' = "exited"
    /\ daemon' \in BOOLEAN
    /\ UNCHANGED <<punctual, written, toShell, fromShell, thread, reaper, gate, shut, queue, driver,
                   typed, input, closing, published>>

Typing ==
    /\ driver # "gone" /\ ~closing /\ input = <<>>
    /\ \E n \in 1 .. MaxTyped : input' = <<n>>
    /\ UNCHANGED <<punctual, shell, daemon, written, toShell, fromShell, thread, reaper, gate, shut,
                   queue, driver, typed, closing, published>>

\* Session taken from the store, its owner gone or full access turned off.
Closing ==
    /\ driver # "gone" /\ ~closing
    /\ closing' = TRUE
    /\ UNCHANGED <<punctual, shell, daemon, written, toShell, fromShell, thread, reaper, gate, shut,
                   queue, driver, typed, input, published>>

-----------------------------------------------------------------------------
(* The reader thread. A chunk is one unit.                                 *)

Received == driver = "gone"     \* the receiver was dropped
HasRoom == Len(queue) < QueueSize

\* Nobody has the other end of the terminal any more.
HungUp == shell # "running" /\ ~daemon

ThreadReads ==
    /\ thread = "reading" /\ fromShell > 0
    /\ fromShell' = fromShell - 1
    /\ thread' = "holding"
    /\ UNCHANGED <<punctual, shell, daemon, written, toShell, reaper, gate, shut, queue, driver,
                   typed, input, closing, published>>

ThreadEnds ==
    /\ thread = "reading" /\ fromShell = 0 /\ HungUp
    /\ thread' = "finished"
    /\ UNCHANGED <<punctual, shell, daemon, written, toShell, fromShell, reaper, gate, shut, queue,
                   driver, typed, input, closing, published>>

ThreadEnters ==
    /\ thread = "holding" /\ gate = "free"
    /\ IF shut
       THEN thread' = "finished" /\ UNCHANGED gate
       ELSE thread' = "sending" /\ gate' = "thread"
    /\ UNCHANGED <<punctual, shell, daemon, written, toShell, fromShell, reaper, shut, queue,
                   driver, typed, input, closing, published>>

\* blocking_send, under the gate; an error ends the thread.
ThreadSends ==
    /\ thread = "sending"
    /\ IF Received
       THEN thread' = "finished" /\ UNCHANGED queue
       ELSE /\ HasRoom
            /\ queue' = Append(queue, written - fromShell)
            /\ thread' = "reading"
    /\ gate' = "free"
    /\ UNCHANGED <<punctual, shell, daemon, written, toShell, fromShell, reaper, shut, driver,
                   typed, input, closing, published>>

-----------------------------------------------------------------------------
(* The reaper thread.                                                      *)

Notices ==
    /\ reaper = "polling" /\ shell # "running"
    /\ reaper' = "draining"
    /\ UNCHANGED <<punctual, shell, daemon, written, toShell, fromShell, thread, gate, shut, queue,
                   driver, typed, input, closing, published>>

\* The condition variable: the reader is done.
ReaderDone == thread = "finished"

StopsDraining ==
    /\ reaper = "draining" /\ ReaderDone
    /\ reaper' = "closing"
    /\ UNCHANGED <<punctual, shell, daemon, written, toShell, fromShell, thread, gate, shut, queue,
                   driver, typed, input, closing, published>>

\* Mutant: the gate is not waited for.
Unguarded == TRUE

GateIsFree == gate = "free"

Shuts ==
    /\ reaper = "closing" /\ GateIsFree
    /\ shut' = TRUE /\ gate' = "reaper" /\ reaper' = "sending"
    /\ UNCHANGED <<punctual, shell, daemon, written, toShell, fromShell, thread, queue, driver,
                   typed, input, closing, published>>

SendsExit ==
    /\ reaper = "sending"
    /\ IF Received THEN UNCHANGED queue
       ELSE HasRoom /\ queue' = Append(queue, Exit)
    /\ gate' = "free" /\ reaper' = "over"
    /\ UNCHANGED <<punctual, shell, daemon, written, toShell, fromShell, thread, shut, driver,
                   typed, input, closing, published>>

-----------------------------------------------------------------------------
(* The driver: one of the two queues at a time.                            *)

\* shell.kill(), and the receiver, the writer and the master are dropped.
Over ==
    /\ driver' = "gone"
    /\ shell' = IF shell = "running" THEN "killed" ELSE shell
    /\ queue' = <<>>

TakesInput ==
    /\ driver = "selecting" /\ input # <<>>
    /\ input' = Tail(input)
    /\ typed' = Head(input) /\ driver' = "writing"
    /\ UNCHANGED <<punctual, shell, daemon, written, toShell, fromShell, thread, reaper, gate, shut,
                   queue, closing, published>>

TakesClose ==
    /\ driver = "selecting" /\ input = <<>> /\ closing
    /\ Over
    /\ UNCHANGED <<punctual, daemon, written, toShell, fromShell, thread, reaper, gate, shut, typed,
                   input, closing, published>>

\* A blocking write: nothing else is served until the last unit is in the terminal.
WriterWrites ==
    /\ driver = "writing" /\ typed > 0
    /\ ~HungUp /\ toShell < TtySize
    /\ toShell' = toShell + 1
    /\ typed' = typed - 1
    /\ driver' = IF typed = 1 THEN "selecting" ELSE driver
    /\ UNCHANGED <<punctual, shell, daemon, written, fromShell, thread, reaper, gate, shut, queue,
                   input, closing, published>>

\* With the other side closed the write fails, and the driver stops.
WriteFails ==
    /\ driver = "writing" /\ HungUp
    /\ Over
    /\ UNCHANGED <<punctual, daemon, written, toShell, fromShell, thread, reaper, gate, shut, typed,
                   input, closing, published>>

TakesEvent ==
    /\ driver = "selecting" /\ queue # <<>>
    /\ published' = Append(published, Head(queue))
    /\ IF Head(queue) = Exit THEN Over
       ELSE queue' = Tail(queue) /\ UNCHANGED <<driver, shell>>
    /\ UNCHANGED <<punctual, daemon, written, toShell, fromShell, thread, reaper, gate, shut, typed,
                   input, closing>>

-----------------------------------------------------------------------------
Threads ==
    \/ ThreadReads \/ ThreadEnds \/ ThreadEnters \/ ThreadSends
    \/ Notices \/ StopsDraining \/ Shuts \/ SendsExit
    \/ TakesInput \/ TakesClose \/ WriterWrites \/ WriteFails \/ TakesEvent

\* What Threads wait for, action by action.
ThreadsCanMove ==
    \/ thread = "reading" /\ (fromShell > 0 \/ HungUp)
    \/ thread = "holding" /\ gate = "free"
    \/ thread = "sending" /\ (Received \/ HasRoom)
    \/ reaper = "polling" /\ shell # "running"
    \/ reaper = "draining" /\ ReaderDone
    \/ reaper = "closing" /\ GateIsFree
    \/ reaper = "sending" /\ (Received \/ HasRoom)
    \/ driver = "selecting" /\ (input # <<>> \/ closing \/ queue # <<>>)
    \/ driver = "writing" /\ (HungUp \/ (typed > 0 /\ toShell < TtySize))

\* 100 ms have passed: a reader still held up, or kept open, is not waited for.
DrainExpires ==
    /\ reaper = "draining"
    /\ punctual => ~ThreadsCanMove
    /\ reaper' = "closing"
    /\ UNCHANGED <<punctual, shell, daemon, written, toShell, fromShell, thread, gate, shut, queue,
                   driver, typed, input, closing, published>>

ShellNext ==
    \/ ShellWrites \/ ShellReads \/ ShellExits \/ Typing \/ Closing
    \/ Threads \/ DrainExpires

\* Threads run, timers fire and a program that can write does. Nothing makes it read or exit.
ShellFairness ==
    /\ WF_shellVars(ThreadReads \/ ThreadEnds \/ ThreadEnters \/ ThreadSends)
    /\ WF_shellVars(Notices \/ StopsDraining \/ Shuts \/ SendsExit)
    /\ WF_shellVars(WriterWrites \/ WriteFails)
    /\ WF_shellVars(TakesInput) /\ SF_shellVars(TakesClose) /\ SF_shellVars(TakesEvent)
    /\ WF_shellVars(ShellWrites) /\ WF_shellVars(DrainExpires)

ShellSpec == ShellInit /\ [][ShellNext]_shellVars /\ ShellFairness

-----------------------------------------------------------------------------
(* Properties.                                                             *)

Stream == published \o queue

UpTo(n) == [i \in 1 .. n |-> i]

\* Whatever the threads do and whatever the deadline cuts off, the driver is given the
\* output from its start without a gap, and nothing behind the exit.
ExitComesLast ==
    \/ Stream = UpTo(Len(Stream))
    \/ Stream # <<>> /\ Stream = Append(UpTo(Len(Stream) - 1), Exit)

\* A shell that ended by itself and left nobody on its terminal has delivered its last
\* output before its exit is, as long as 100 ms are long beside a step of a thread.
TailIsDelivered ==
    punctual /\ shell = "exited" /\ ~daemon /\ Len(published) > 0 /\ published[Len(published)] = Exit
        => Len(published) = written + 1

\* Both together: the exit is the last thing the driver is told, and nothing is missing
\* before it (the threads of LocalPtySession::spawn, the gate and the done flag).
ExitIsLast == ExitComesLast /\ TailIsDelivered

\* session.rs:368, "Removes and terminates every shell that bypassed SSH authentication":
\* a shell that is to be closed ends. The driver does not look while it writes to a
\* terminal nobody reads.
ClosedShellEnds == closing ~> shell # "running"
=============================================================================
