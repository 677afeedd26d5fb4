------------------------------ MODULE FirstStart ------------------------------
(***************************************************************************)
(* What handle_serve (src/monitor/src/cli/cli.rs) does before it serves:   *)
(* the secret that signs tokens (resolve_jwt_secret of core/config.rs),    *)
(* then the initial administrator (db/bootstrap.rs) - by agents that may   *)
(* be started twice, that are killed anywhere, and beside                  *)
(* `user set-password`.                                                    *)
(*                                                                         *)
(* An agent's number stands for the secret and the password it generates.  *)
(***************************************************************************)
EXTENDS Integers

CONSTANTS
    Agents,         \* starts, numbered from 1; each runs once
    Chosen,         \* the password an operator sets, none of the agents'
    NoFile          \* what is not there

Unreadable == -1    \* a file cut short by a kill

ASSUME StartAssumption ==
    /\ Agents \subseteq Nat /\ Chosen \in Nat \ Agents
    /\ NoFile \notin Agents \cup {Chosen, Unreadable}
    /\ NoFile \notin [by : Agents \cup {Unreadable}, private : BOOLEAN]

VARIABLES
    agent,          \* where each start is
    signs_with,          \* the secret it signs with
    secret,         \* the secret file: [by, private], or NoFile
    credentials,    \* the credentials file: whose password, Unreadable or NoFile
    admin,          \* whose password the administrator has, or NoFile
    others,         \* whether there are users beside
    told            \* passwords the operator has read or set; history

startVars == <<agent, signs_with, secret, credentials, admin, others, told>>

StartInit ==
    /\ agent = [a \in Agents |-> "unstarted"] /\ signs_with = [a \in Agents |-> NoFile]
    /\ secret = NoFile /\ credentials = NoFile
    /\ admin = NoFile /\ others = FALSE /\ told = {}

NoUsers == admin = NoFile /\ ~others

AgentAt(a, where) == agent' = [agent EXCEPT ![a] = where]

-----------------------------------------------------------------------------
(* resolve_jwt_secret.                                                     *)

Private == [secret EXCEPT !.private = TRUE]

\* What others may read is closed to them before it is used.
Narrowed == Private

\* A secret that was cut short ends the start, with the advice to delete it.
ResolvesSecret(a) ==
    /\ agent[a] = "unstarted"
    /\ \/ secret = NoFile /\ AgentAt(a, "generating") /\ UNCHANGED <<secret, signs_with>>
       \/ /\ secret # NoFile /\ secret' = Narrowed
          /\ IF secret.by = Unreadable
             THEN AgentAt(a, "ended") /\ UNCHANGED signs_with
             ELSE AgentAt(a, "counting") /\ signs_with' = [signs_with EXCEPT ![a] = secret.by]
    /\ UNCHANGED <<credentials, admin, others, told>>

\* fs::write creates the file for everyone to read, or empties the one there is by now.
TruncatesSecret(a) ==
    /\ agent[a] = "generating"
    /\ secret' = [by |-> Unreadable,
                  private |-> IF secret = NoFile THEN FALSE ELSE secret.private]
    /\ AgentAt(a, "writing")
    /\ UNCHANGED <<signs_with, credentials, admin, others, told>>

WritesSecret(a) ==
    /\ agent[a] = "writing"
    /\ secret' = [secret EXCEPT !.by = a]
    /\ AgentAt(a, "closing")
    /\ UNCHANGED <<signs_with, credentials, admin, others, told>>

\* The mode is set last.
ClosesSecret(a) ==
    /\ agent[a] = "closing"
    /\ secret' = Private /\ signs_with' = [signs_with EXCEPT ![a] = a]
    /\ AgentAt(a, "counting")
    /\ UNCHANGED <<credentials, admin, others, told>>

-----------------------------------------------------------------------------
(* ensure_admin_user.                                                      *)

CountsUsers(a) ==
    /\ agent[a] = "counting"
    /\ AgentAt(a, IF NoUsers THEN "announcing" ELSE "serving")
    /\ UNCHANGED <<signs_with, secret, credentials, admin, others, told>>

\* Mutant: the file is opened to be overwritten.
Overwritable == TRUE

Creatable == credentials = NoFile

\* create_new: a file that is there ends the start.
CreatesCredentials(a) ==
    /\ agent[a] = "announcing"
    /\ IF Creatable
       THEN credentials' = Unreadable /\ AgentAt(a, "recording")
       ELSE UNCHANGED credentials /\ AgentAt(a, "ended")
    /\ UNCHANGED <<signs_with, secret, admin, others, told>>

\* Written and flushed; an error leaves what there is.
WritesCredentials(a) ==
    /\ agent[a] = "recording"
    /\ \/ credentials' = a /\ AgentAt(a, "inserting")
       \/ UNCHANGED credentials /\ AgentAt(a, "ended")
    /\ UNCHANGED <<signs_with, secret, admin, others, told>>

\* A name that is taken, or another error, takes the file back.
InsertsAdmin(a) ==
    /\ agent[a] = "inserting"
    /\ \E inserted \in BOOLEAN :
        /\ inserted => admin = NoFile
        /\ admin' = IF inserted THEN a ELSE admin
        /\ credentials' = IF inserted THEN credentials ELSE NoFile
        /\ AgentAt(a, IF inserted THEN "serving" ELSE "ended")
    /\ UNCHANGED <<signs_with, secret, others, told>>

\* A kill, or another agent has the port.
EndsStart(a) ==
    /\ agent[a] \notin {"unstarted", "ended"}
    /\ AgentAt(a, "ended")
    /\ UNCHANGED <<signs_with, secret, credentials, admin, others, told>>

-----------------------------------------------------------------------------
(* The operator.                                                           *)

Starting == \E a \in Agents : agent[a] \notin {"unstarted", "ended", "serving"}

\* `user set-password`, for the administrator or for somebody else.
SetsPassword ==
    /\ \/ admin' = Chosen /\ told' = told \cup {Chosen} /\ UNCHANGED others
       \/ ~others /\ others' = TRUE /\ UNCHANGED <<admin, told>>
    /\ UNCHANGED <<agent, signs_with, secret, credentials>>

\* The file is read and deleted once an agent serves, or when a start that is over
\* complained of it.
TakesCredentials ==
    /\ ~Starting /\ credentials # NoFile
    /\ told' = told \cup {credentials} /\ credentials' = NoFile
    /\ UNCHANGED <<agent, signs_with, secret, admin, others>>

\* "delete it to regenerate"
DeletesSecret ==
    /\ ~Starting /\ secret # NoFile /\ secret.by = Unreadable
    /\ secret' = NoFile
    /\ UNCHANGED <<agent, signs_with, credentials, admin, others, told>>

StartNext ==
    \/ \E a \in Agents :
        \/ ResolvesSecret(a) \/ TruncatesSecret(a) \/ WritesSecret(a) \/ ClosesSecret(a)
        \/ CountsUsers(a) \/ CreatesCredentials(a) \/ WritesCredentials(a)
        \/ InsertsAdmin(a) \/ EndsStart(a)
    \/ SetsPassword \/ TakesCredentials \/ DeletesSecret

StartSpec == StartInit /\ [][StartNext]_startVars

-----------------------------------------------------------------------------
(* Properties.                                                             *)

\* The administrator's password can be found: it is in the credentials file, whole, or the
\* operator has had it - however many agents start at once and wherever they are killed.
AdminPasswordIsKnown == admin # NoFile => admin \in told \cup {credentials}

\* An agent that serves signs with a whole secret that nobody else can read, though a
\* start before it was killed between writing the file and closing it to others.
ServedSecretIsPrivate ==
    \A a \in Agents : agent[a] = "serving" =>
        signs_with[a] \in Agents /\ (secret # NoFile /\ secret.by = signs_with[a] => secret.private)

\* Both secrets outlive interrupted starts: the password is never lost and the signing key
\* never served half-written or readable to others.
SecretsAreSound == AdminPasswordIsKnown /\ ServedSecretIsPrivate
=============================================================================
