--------------------------- MODULE NativeCommands ---------------------------
(***************************************************************************)
(* The commands the native status backend runs on the sampler's thread     *)
(* (run_command_with_timeout of src/crates/sbm_native/src/linux.rs), and   *)
(* the ChildReaper that keeps what survived its kill.  A process in        *)
(* uninterruptible I/O outlives SIGKILL; its caller must not wait for it,  *)
(* and no child may be lost or kept without bound.                         *)
(***************************************************************************)
EXTENDS Naturals, FiniteSets

CONSTANTS
    Callers,        \* threads that sample; the library is called by more than one
    Runs,           \* identifies the processes spawned, a bound on their number
    MaxReaping,     \* MAX_REAPING_CHILDREN
    MaxSize         \* MAX_COMMAND_OUTPUT_BYTES, the hard limit of the output file

ASSUME CommandsAssumption ==
    /\ MaxReaping \in Nat /\ MaxSize \in Nat
    /\ IsFiniteSet(Callers) /\ IsFiniteSet(Runs)
    /\ "none" \notin Runs

VARIABLES
    stage,          \* "idle", "reserved" or "polling"
    mine,           \* the process a caller polls
    process,        \* "unborn", "running", "dying", "failed", "done" or "reaped"
    size,           \* of its output file
    files,          \* the output files in the temporary directory
    children,       \* ChildReaper.children
    reserved_slots  \* ChildReaper.reserved_slots

commandsVars == <<stage, mine, process, size, files, children, reserved_slots>>

CommandsInit ==
    /\ stage = [c \in Callers |-> "idle"] /\ mine = [c \in Callers |-> "none"]
    /\ process = [r \in Runs |-> "unborn"] /\ size = [r \in Runs |-> 0]
    /\ files = {} /\ children = {} /\ reserved_slots = 0

Ended == {r \in Runs : process[r] \in {"failed", "done"}}

-----------------------------------------------------------------------------
(* The reaper; each operation is under its mutex.                          *)

\* What `reap` keeps: children whose status is not there yet.
Kept == children \ Ended
Full(kept) == Cardinality(kept) + reserved_slots >= MaxReaping

\* `reserve`, which reaps first.
Reserves(c) ==
    /\ stage[c] = "idle"
    /\ children' = Kept
    /\ process' = [r \in Runs |-> IF r \in children \ Kept THEN "reaped" ELSE process[r]]
    /\ IF Full(Kept)
       THEN UNCHANGED <<stage, reserved_slots>>
       ELSE stage' = [stage EXCEPT ![c] = "reserved"] /\ reserved_slots' = reserved_slots + 1
    /\ UNCHANGED <<mine, size, files>>

\* Both subtractions saturate.
Less(n) == IF n = 0 THEN 0 ELSE n - 1

Goes(c) == stage' = [stage EXCEPT ![c] = "idle"] /\ mine' = [mine EXCEPT ![c] = "none"]

\* Mutant: an early return forgets the slot.
Forgets(c) == Goes(c) /\ UNCHANGED <<children, reserved_slots>>

Releases(c) == Goes(c) /\ reserved_slots' = Less(reserved_slots) /\ UNCHANGED children

Retains(c) ==
    /\ Goes(c)
    /\ reserved_slots' = Less(reserved_slots) /\ children' = children \cup {mine[c]}

-----------------------------------------------------------------------------
(* A call.                                                                 *)

\* No output file, or the spawn failed: the slot goes back and the file goes.
CannotSpawn(c) ==
    /\ stage[c] = "reserved"
    /\ Releases(c)
    /\ UNCHANGED <<process, size, files>>

Spawns(c) ==
    /\ stage[c] = "reserved"
    /\ \E r \in Runs :
        /\ process[r] = "unborn"
        /\ process' = [process EXCEPT ![r] = "running"]
        /\ mine' = [mine EXCEPT ![c] = r]
        /\ files' = files \cup {r}
    /\ stage' = [stage EXCEPT ![c] = "polling"]
    /\ UNCHANGED <<size, children, reserved_slots>>

\* try_wait has a status: the file is read and removed.
TakesStatus(c) ==
    /\ stage[c] = "polling" /\ process[mine[c]] \in {"failed", "done"}
    /\ process' = [process EXCEPT ![mine[c]] = "reaped"]
    /\ Releases(c)
    /\ files' = files \ {mine[c]}
    /\ UNCHANGED size

\* The file is full, the deadline has passed, or try_wait failed: the group is killed and
\* the child kept for later, dead or not.
Abandons(c) ==
    /\ stage[c] = "polling"
    /\ process' = [process EXCEPT ![mine[c]] = IF @ = "running" THEN "dying" ELSE @]
    /\ Retains(c)
    /\ files' = files \ {mine[c]}
    /\ UNCHANGED size

-----------------------------------------------------------------------------
(* The processes.                                                          *)

\* At the limit the kernel signals the process (limit_output_size).
ProcessWrites(r) ==
    /\ process[r] = "running"
    /\ IF size[r] < MaxSize
       THEN size' = [size EXCEPT ![r] = @ + 1] /\ UNCHANGED process
       ELSE process' = [process EXCEPT ![r] = "failed"] /\ UNCHANGED size
    /\ UNCHANGED <<stage, mine, files, children, reserved_slots>>

ProcessEnds(r) ==
    /\ \/ process[r] = "running" /\ \E s \in {"done", "failed"} : process' = [process EXCEPT ![r] = s]
       \/ process[r] = "dying" /\ process' = [process EXCEPT ![r] = "failed"]
    /\ UNCHANGED <<stage, mine, size, files, children, reserved_slots>>

CommandsNext ==
    \/ \E c \in Callers :
        Reserves(c) \/ CannotSpawn(c) \/ Spawns(c) \/ TakesStatus(c) \/ Abandons(c)
    \/ \E r \in Runs : ProcessWrites(r) \/ ProcessEnds(r)

CommandsSpec == CommandsInit /\ [][CommandsNext]_commandsVars

-----------------------------------------------------------------------------
(* Properties.                                                             *)

InFlight == {c \in Callers : stage[c] # "idle"}
Polled == {mine[c] : c \in {d \in Callers : stage[d] = "polling"}}

\* However many callers overlap and fail, a reserved slot belongs to a call in flight and
\* to one only, so `retain` always finds the slot it asserts and the survivors never
\* outgrow the bound; and no child is lost: what was spawned and not reaped is polled by
\* its caller or kept by the reaper, and output files are those of commands being polled.
SlotsAreExact ==
    /\ reserved_slots = Cardinality(InFlight)
    /\ Cardinality(children) + reserved_slots <= MaxReaping
    /\ {r \in Runs : process[r] \notin {"unborn", "reaped"}} = Polled \cup children
    /\ files = Polled
=============================================================================
