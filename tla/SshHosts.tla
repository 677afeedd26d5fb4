------------------------------- MODULE SshHosts -------------------------------
(***************************************************************************)
(* The agent's SSH client (src/monitor/src/ssh/client.rs) and the record   *)
(* of host keys it trusts on first use (known_hosts.rs): several terminals *)
(* connect at once to one address, whose server may be replaced, and the   *)
(* operator may delete the record.  Every SQL statement is a step.         *)
(***************************************************************************)
EXTENDS Naturals

CONSTANTS
    Dials,          \* connections under way at once
    HostKeys,       \* keys the server may present
    Unpinned,       \* no row for the address
    MaxReplaced,    \* bounds how often the server is replaced
    MaxDeleted,     \* bounds how often the row is deleted
    MaxRounds       \* bounds the rounds of prompts the server asks for

ASSUME HostsAssumption == Unpinned \notin HostKeys

VARIABLES
    pinned,         \* ssh_known_hosts.fingerprint
    presented,      \* the key the server has now
    era, replaced,  \* how often the row was deleted, the server replaced
    dial,           \* where each connection is
    seen,           \* the key presented to it
    admittedIn,     \* the era in which its key was accepted; history
    rounds          \* prompts it was sent

hostsVars == <<pinned, presented, era, replaced, dial, seen, admittedIn, rounds>>

HostsInit ==
    /\ pinned = Unpinned /\ presented \in HostKeys /\ era = 0 /\ replaced = 0
    /\ dial = [d \in Dials |-> "idle"]
    /\ seen = [d \in Dials |-> Unpinned]
    /\ admittedIn = [d \in Dials |-> 0]
    /\ rounds = [d \in Dials |-> 0]

DialAt(d, where) == dial' = [dial EXCEPT ![d] = where]

Admitted(d) ==
    /\ DialAt(d, "connected")
    /\ admittedIn' = [admittedIn EXCEPT ![d] = era]

\* `connect` ends with an error and everything the connection held.
Refused(d) == DialAt(d, "idle") /\ UNCHANGED admittedIn

-----------------------------------------------------------------------------
(* check_server_key.                                                       *)

Connects(d) ==
    /\ dial[d] = "idle"
    /\ DialAt(d, "looking")
    /\ seen' = [seen EXCEPT ![d] = presented]
    /\ rounds' = [rounds EXCEPT ![d] = 0]
    /\ UNCHANGED <<pinned, presented, era, replaced, admittedIn>>

\* `verify` reads the row.
Looks(d) ==
    /\ dial[d] = "looking"
    /\ \/ pinned = seen[d] /\ Admitted(d)
       \/ pinned = Unpinned /\ DialAt(d, "pinning") /\ UNCHANGED admittedIn
       \/ pinned \notin {Unpinned, seen[d]} /\ Refused(d)
    /\ UNCHANGED <<pinned, presented, era, replaced, seen, rounds>>

\* Mutant: the insert replaces a row made meanwhile.
Replacing(d) == pinned' = seen[d] /\ Admitted(d)

\* INSERT OR IGNORE: one connection gets its key stored, the others compare.
Pinning(d) ==
    IF pinned = Unpinned
    THEN pinned' = seen[d] /\ Admitted(d)
    ELSE DialAt(d, "comparing") /\ UNCHANGED <<pinned, admittedIn>>

Pins(d) ==
    /\ dial[d] = "pinning"
    /\ Pinning(d)
    /\ UNCHANGED <<presented, era, replaced, seen, rounds>>

\* Mutant: who lost the race takes the record for its own.
Trusting(d) == pinned # Unpinned

Agrees(d) == pinned = seen[d]

\* The row that won is read; that it is gone by now is an error.
Compares(d) ==
    /\ dial[d] = "comparing"
    /\ IF Agrees(d) THEN Admitted(d) ELSE Refused(d)
    /\ UNCHANGED <<pinned, presented, era, replaced, seen, rounds>>

\* A statement fails, or the timeout around `connect` drops it where it is.
CheckFails(d) ==
    /\ dial[d] \in {"looking", "pinning", "comparing"}
    /\ Refused(d)
    /\ UNCHANGED <<pinned, presented, era, replaced, seen, rounds>>

-----------------------------------------------------------------------------
(* authenticate, answer_prompts and the shell.                             *)

\* Success, or prompts to be answered; anything else ends the connection.
Authenticates(d) ==
    /\ dial[d] \in {"connected", "answering"}
    /\ \/ DialAt(d, "authenticated") /\ UNCHANGED rounds
       \/ /\ rounds[d] < MaxRounds
          /\ rounds' = [rounds EXCEPT ![d] = @ + 1]
          /\ DialAt(d, "answering")
    /\ UNCHANGED <<pinned, presented, era, replaced, seen, admittedIn>>

HangsUp(d) ==
    /\ dial[d] \in {"connected", "answering", "authenticated", "shell"}
    /\ DialAt(d, "idle")
    /\ UNCHANGED <<pinned, presented, era, replaced, seen, admittedIn, rounds>>

\* A channel, a PTY and a shell on it.
OpensShellOn(d) ==
    /\ dial[d] = "authenticated"
    /\ DialAt(d, "shell")
    /\ UNCHANGED <<pinned, presented, era, replaced, seen, admittedIn, rounds>>

-----------------------------------------------------------------------------
(* The host and its operator.                                              *)

ServerReplaced ==
    /\ replaced < MaxReplaced
    /\ replaced' = replaced + 1
    /\ presented' \in HostKeys \ {presented}
    /\ UNCHANGED <<pinned, era, dial, seen, admittedIn, rounds>>

\* "Recovering is a deliberate act (delete the row)".
RowDeleted ==
    /\ pinned # Unpinned /\ era < MaxDeleted
    /\ pinned' = Unpinned /\ era' = era + 1
    /\ UNCHANGED <<presented, replaced, dial, seen, admittedIn, rounds>>

HostsNext ==
    \/ \E d \in Dials :
        \/ Connects(d) \/ Looks(d) \/ Pins(d) \/ Compares(d) \/ CheckFails(d)
        \/ Authenticates(d) \/ OpensShellOn(d) \/ HangsUp(d)
    \/ ServerReplaced \/ RowDeleted

HostsSpec == HostsInit /\ [][HostsNext]_hostsVars

-----------------------------------------------------------------------------
(* Properties.                                                             *)

Talks(d) == dial[d] \in {"connected", "answering", "authenticated", "shell"}

\* Every server that is sent a credential presented the key on record: connections that
\* race to be the first, while the server behind the address is replaced, never trust two
\* keys, and only deleting the row starts anew (the header of known_hosts.rs).
OneKeyIsTrusted ==
    \A d \in Dials : Talks(d) /\ admittedIn[d] = era => seen[d] = pinned
=============================================================================
