----------------------------- MODULE CustomCmdDir -----------------------------
(***************************************************************************)
(* Replacing the directory of custom commands: `replace` in                *)
(* src/monitor/src/monitoring/custom_cmds.rs.                              *)
(*                                                                         *)
(* One action for each call to the file system; each may fail, and the     *)
(* process may be killed between any two.  A check that something exists   *)
(* and the call it decides on are one action: the lock keeps other         *)
(* writers away in between.  A directory is the set of its files, a file   *)
(* a name and a text.                                                      *)
(***************************************************************************)
EXTENDS Naturals, Sequences, Functions

CONSTANTS
  Writers,      \* calls of `replace`, in any thread or process
  Names,        \* names of files: an order and an encoded name
  Texts,        \* texts of commands
  Torn,         \* the text of a file that is not all written
  Lists,        \* the lists of commands that are saved
  Missing,      \* no directory
  Nobody,       \* no writer
  SideSticks    \* whether `tmp` may resist its removal

Files == Names \X (Texts \cup {Torn})

(* validate: one file per name. *)
Valid(s) ==
  /\ s \in Seq(Names \X Texts)
  /\ \A i, j \in DOMAIN s : s[i][1] = s[j][1] => i = j

ASSUME ListsAssumption == \A s \in Lists : Valid(s)
ASSUME DirAssumption ==
  /\ Torn \notin Texts
  /\ \A d \in SUBSET Files : d # Missing
ASSUME NobodyAssumption == Nobody \notin Writers

(* What the directory holds once a list is installed. *)
Saved == {Range(s) : s \in Lists}

VARIABLES
  dir,       \* the directory of custom commands
  tmp,       \* side_path(dir, "new")
  backup,    \* side_path(dir, "old")
  lock,      \* who holds the lock on side_path(dir, "lock")
  at,        \* where a call is
  cmds,      \* the list it saves
  written,   \* how many of its commands it has written to tmp
  before     \* what was stored when it got the lock; history

disk == <<dir, tmp, backup>>
vars == <<dir, tmp, backup, lock, at, cmds, written, before>>

-------------------------------------------------------------------------------

(* What there is of the commands; a directory that is missing is put back  *)
(* from its backup by the next call, and without one it has no commands.   *)
Stored ==
  IF dir # Missing THEN dir ELSE IF backup # Missing THEN backup ELSE {}

(* Writing a file replaces the one of its name. *)
WithFile(d, f) == {g \in d : g[1] # f[1]} \cup {f}

(* What remove_dir_all leaves of `tmp`.  Nobody looks at its error. *)
LeftOf(d) ==
  IF SideSticks /\ d # Missing THEN {Missing} \cup SUBSET d ELSE {Missing}

AtRest == {"idle", "saved", "failed"}

Init ==
  /\ dir \in Saved \cup {Missing}
  /\ tmp = Missing
  /\ backup = Missing
  /\ lock = Nobody
  /\ at = [w \in Writers |-> "idle"]
  /\ cmds = [w \in Writers |-> <<>>]
  /\ written = [w \in Writers |-> 0]
  /\ before = [w \in Writers |-> {}]

-------------------------------------------------------------------------------
(* write_dir *)

GoesTo(w, place) ==
  /\ at' = [at EXCEPT ![w] = place]
  /\ UNCHANGED <<lock, cmds, before>>

(* The call returns, and its lock goes with the file. *)
Returns(w, result) ==
  /\ at' = [at EXCEPT ![w] = result]
  /\ lock' = Nobody
  /\ UNCHANGED <<cmds, written, before>>

(* replace_lock *)
Locks(w, s) ==
  /\ at[w] \in AtRest
  /\ lock = Nobody
  /\ lock' = w
  /\ at' = [at EXCEPT ![w] = "recovering"]
  /\ cmds' = [cmds EXCEPT ![w] = s]
  /\ before' = [before EXCEPT ![w] = Stored]
  /\ UNCHANGED <<disk, written>>

NothingToRecover(w) ==
  /\ at[w] = "recovering"
  /\ backup = Missing
  /\ GoesTo(w, "clearing")
  /\ UNCHANGED <<disk, written>>

(* Mutant: a backup is always from a replacement that came through. *)
DropsBackup(w) ==
  /\ at[w] = "recovering"
  /\ backup # Missing
  /\ backup' = Missing
  /\ GoesTo(w, "clearing")
  /\ UNCHANGED <<dir, tmp, written>>

PutsBack(w) ==
  /\ at[w] = "recovering"
  /\ backup # Missing
  /\ dir = Missing
  /\ dir' = backup
  /\ backup' = Missing
  /\ GoesTo(w, "clearing")
  /\ UNCHANGED <<tmp, written>>

(* remove_dir_all takes the backup away file by file. *)
RemovesSome(w) ==
  /\ \/ at[w] = "cleaning"
     \/ at[w] = "recovering" /\ dir # Missing
  /\ backup # Missing
  /\ backup' \in SUBSET backup
  /\ UNCHANGED <<dir, tmp, lock, at, cmds, written, before>>

RemovesOldBackup(w) ==
  /\ at[w] = "recovering"
  /\ dir # Missing
  /\ backup # Missing
  /\ backup' = Missing
  /\ GoesTo(w, "clearing")
  /\ UNCHANGED <<dir, tmp, written>>

FailsToRecover(w) ==
  /\ at[w] = "recovering"
  /\ backup # Missing
  /\ Returns(w, "failed")
  /\ UNCHANGED disk

(* tmp is removed and made again. *)
ClearsSide(w) ==
  /\ at[w] = "clearing"
  /\ \E left \in LeftOf(tmp) : tmp' = IF left = Missing THEN {} ELSE left
  /\ written' = [written EXCEPT ![w] = 0]
  /\ GoesTo(w, "writing")
  /\ UNCHANGED <<dir, backup>>

NextFile(w) == cmds[w][written[w] + 1]

WritesPart(w) ==
  /\ at[w] = "writing"
  /\ written[w] < Len(cmds[w])
  /\ tmp # Missing
  /\ tmp' = WithFile(tmp, <<NextFile(w)[1], Torn>>)
  /\ UNCHANGED <<dir, backup, lock, at, cmds, written, before>>

WritesFile(w) ==
  /\ at[w] = "writing"
  /\ written[w] < Len(cmds[w])
  /\ tmp # Missing
  /\ tmp' = WithFile(tmp, NextFile(w))
  /\ written' = [written EXCEPT ![w] = @ + 1]
  /\ GoesTo(w, "writing")
  /\ UNCHANGED <<dir, backup>>

AllWritten(w) == at[w] = "writing" /\ written[w] = Len(cmds[w])

(* tmp could not be made, a file not be written, or dir not be moved. *)
GivesUp(w) ==
  /\ at[w] \in {"clearing", "writing"}
  /\ ~(AllWritten(w) /\ dir = Missing)
  /\ tmp' \in LeftOf(tmp)
  /\ Returns(w, "failed")
  /\ UNCHANGED <<dir, backup>>

MovesAside(w) ==
  /\ AllWritten(w)
  /\ dir # Missing
  /\ backup = Missing
  /\ backup' = dir
  /\ dir' = Missing
  /\ GoesTo(w, "aside")
  /\ UNCHANGED <<tmp, written>>

MayInstall(w) ==
  \/ at[w] = "aside"
  \/ AllWritten(w) /\ dir = Missing

Installs(w) ==
  /\ MayInstall(w)
  /\ dir = Missing
  /\ tmp # Missing
  /\ dir' = tmp
  /\ tmp' = Missing
  /\ GoesTo(w, "cleaning")
  /\ UNCHANGED <<backup, written>>

(* tmp cannot be moved; what was moved aside comes back. *)
Restores(w) ==
  /\ at[w] = "aside"
  /\ dir = Missing
  /\ dir' = backup
  /\ backup' = Missing
  /\ Returns(w, "failed")
  /\ UNCHANGED tmp

(* tmp cannot be moved, and nothing was aside or it does not come back. *)
FailsToInstall(w) ==
  /\ MayInstall(w)
  /\ Returns(w, "failed")
  /\ UNCHANGED disk

RemovesBackup(w) ==
  /\ at[w] = "cleaning"
  /\ backup' = Missing
  /\ Returns(w, "saved")
  /\ UNCHANGED <<dir, tmp>>

(* Mutant: the save is reported as failed. *)
ReportsBackup(w) ==
  /\ at[w] = "cleaning"
  /\ backup # Missing
  /\ Returns(w, "failed")
  /\ UNCHANGED disk

(* The backup stays, for the next call. *)
LeavesBackup(w) ==
  /\ at[w] = "cleaning"
  /\ backup # Missing
  /\ Returns(w, "saved")
  /\ UNCHANGED disk

(* The process is killed: the lock goes, the files stay. *)
Crashes(w) ==
  /\ at[w] \notin AtRest
  /\ Returns(w, "idle")
  /\ UNCHANGED disk

Next ==
  \E w \in Writers :
    \/ \E s \in Lists : Locks(w, s)
    \/ NothingToRecover(w)
    \/ PutsBack(w)
    \/ RemovesSome(w)
    \/ RemovesOldBackup(w)
    \/ FailsToRecover(w)
    \/ ClearsSide(w)
    \/ WritesPart(w)
    \/ WritesFile(w)
    \/ GivesUp(w)
    \/ MovesAside(w)
    \/ Installs(w)
    \/ Restores(w)
    \/ FailsToInstall(w)
    \/ RemovesBackup(w)
    \/ LeavesBackup(w)
    \/ Crashes(w)

Spec == Init /\ [][Next]_vars

-------------------------------------------------------------------------------

Dirs == {Missing} \cup SUBSET Files

TypeOK ==
  /\ dir \in Dirs
  /\ tmp \in Dirs
  /\ backup \in Dirs
  /\ lock \in Writers \cup {Nobody}
  /\ at \in [Writers -> AtRest \cup {"recovering", "clearing", "writing",
                                     "aside", "cleaning"}]
  /\ cmds \in [Writers -> Lists \cup {<<>>}]
  /\ written \in [Writers -> Nat]
  /\ before \in [Writers -> Dirs \ {Missing}]

(* The lists of the calls that are under way. *)
Wanted == {Range(cmds[w]) : w \in {v \in Writers : at[v] \notin AtRest}}

(* The commands are replaced as a whole, by a list that a call under way   *)
(* was given, or not at all.  Wherever a call fails or its process is      *)
(* killed, the next one finds the set of before or the new one, never less *)
(* and never a mixture (custom_cmds.rs, the comment on `replace`).         *)
Store == INSTANCE CommandStore WITH
  Sets <- Saved, commands <- Stored, wanted <- Wanted
ImplementsStore == Store!Spec

(* The answer to a save is true: with Ok its commands are stored, with an  *)
(* error those are stored that were before (custom_cmds.rs, write_dir and  *)
(* its comment on a backup that cannot be removed).                        *)
AnswersAreTrue ==
  [][\A w \in Writers : at'[w] # at[w] =>
       /\ at'[w] = "saved" => Stored' = Range(cmds[w])
       /\ at'[w] = "failed" => Stored' = before[w]]_vars
=============================================================================
