---------------------------- MODULE MonitorProofs ----------------------------
(* The agent's monitoring and the server's own commands: proofs about
   CustomCmdDir, NativeCommands, StatusLoop and Rules, each about its own
   specification and for any value of its constants.                         *)
EXTENDS CustomCmdDir, NativeCommands, StatusLoop, Rules,
        FiniteSetTheorems, SequenceTheorems, WellFoundedInduction, TLAPS

----------------------------------------------------------------------------
(* The directory of custom commands *)

(* The first n files of a list. *)
FirstFiles(s, n) == {s[i] : i \in 1..n}

LEMMA ListsAreLists ==
  ASSUME NEW s \in Lists
  PROVE  /\ s \in Seq(Names \X Texts)
         /\ \A i, j \in 1..Len(s) : s[i][1] = s[j][1] => i = j
         /\ Range(s) = FirstFiles(s, Len(s))
         /\ Range(s) \in SUBSET Files
         /\ Range(s) \in Saved
         /\ Len(s) \in Nat
         /\ \A i \in 1..Len(s) : s[i] \in Names \X Texts
<1>1. s \in Seq(Names \X Texts) /\ \A i, j \in DOMAIN s : s[i][1] = s[j][1] => i = j
  BY ListsAssumption DEF Valid
<1>2. DOMAIN s = 1..Len(s) /\ Len(s) \in Nat
  BY <1>1
<1>3. \A i \in 1..Len(s) : s[i] \in Names \X Texts
  BY <1>1
<1>4. Range(s) = FirstFiles(s, Len(s))
  BY <1>2 DEF Range, FirstFiles
<1>5. Range(s) \in SUBSET Files
  BY <1>3, <1>4 DEF FirstFiles, Files
<1> QED
  BY <1>1, <1>2, <1>3, <1>4, <1>5 DEF Saved

(* A set that was saved is a directory of files. *)
LEMMA SavedAreFiles == Saved \subseteq SUBSET Files
  BY ListsAreLists DEF Saved

LEMMA StoredIsFiles ==
  ASSUME TypeOK
  PROVE  Stored \in Dirs \ {Missing}
BY DirAssumption DEF TypeOK, Stored, Dirs

(* Writing a file in a directory of files makes one. *)
LEMMA WithFileIsFiles ==
  ASSUME NEW d \in SUBSET Files, NEW f \in Files
  PROVE  WithFile(d, f) \in SUBSET Files
BY DEF WithFile

LEMMA InitialTypes == Init => TypeOK
<1> SUFFICES ASSUME Init PROVE TypeOK
  OBVIOUS
<1>1. {} \in Dirs \ {Missing}
  BY DirAssumption DEF Dirs
<1>2. dir \in Dirs
  BY SavedAreFiles DEF Init, Dirs
<1> QED
  BY <1>1, <1>2 DEF Init, TypeOK, Dirs, AtRest

LEMMA NextKeepsTypes == TypeOK /\ [Next]_vars => TypeOK'
<1> SUFFICES ASSUME TypeOK, [Next]_vars PROVE TypeOK'
  OBVIOUS
<1> USE DEF TypeOK, GoesTo, Returns, AtRest, Dirs
<1>0. Stored \in Dirs \ {Missing}
  BY StoredIsFiles
<1>1. ASSUME NEW w \in Writers, NEW s \in Lists, Locks(w, s)
      PROVE  TypeOK'
  BY <1>1, <1>0 DEF Locks, disk
<1>2. ASSUME NEW w \in Writers, NothingToRecover(w)
      PROVE  TypeOK'
  BY <1>2 DEF NothingToRecover, disk
<1>3. ASSUME NEW w \in Writers, PutsBack(w)
      PROVE  TypeOK'
  BY <1>3 DEF PutsBack
<1>4. ASSUME NEW w \in Writers, RemovesSome(w)
      PROVE  TypeOK'
  BY <1>4 DEF RemovesSome
<1>5. ASSUME NEW w \in Writers, RemovesOldBackup(w)
      PROVE  TypeOK'
  BY <1>5 DEF RemovesOldBackup
<1>6. ASSUME NEW w \in Writers, FailsToRecover(w)
      PROVE  TypeOK'
  BY <1>6 DEF FailsToRecover, disk
<1>7. ASSUME NEW w \in Writers, ClearsSide(w)
      PROVE  TypeOK'
  <2>1. tmp' \in Dirs
    BY <1>7 DEF ClearsSide, LeftOf
  <2> QED
    BY <1>7, <2>1 DEF ClearsSide
<1>8. ASSUME NEW w \in Writers, WritesPart(w) \/ WritesFile(w)
      PROVE  TypeOK'
  <2>1. cmds[w] \in Lists /\ written[w] + 1 \in 1..Len(cmds[w])
    <3>1. written[w] \in Nat /\ written[w] < Len(cmds[w])
      BY <1>8 DEF WritesPart, WritesFile
    <3>2. cmds[w] # <<>>
      BY <3>1
    <3>3. cmds[w] \in Lists
      BY <3>2
    <3> QED
      BY <3>1, <3>3, ListsAreLists
  <2>2. NextFile(w) \in Names \X Texts
    BY <2>1, ListsAreLists DEF NextFile
  <2>3. NextFile(w) \in Files /\ <<NextFile(w)[1], Torn>> \in Files
    BY <2>2 DEF Files
  <2>4. tmp \in SUBSET Files
    BY <1>8 DEF WritesPart, WritesFile
  <2>5. tmp' \in SUBSET Files
    BY <1>8, <2>3, <2>4, WithFileIsFiles DEF WritesPart, WritesFile
  <2>6. written' \in [Writers -> Nat]
    BY <1>8 DEF WritesPart, WritesFile
  <2>7. /\ at' \in [Writers -> AtRest \cup {"recovering", "clearing", "writing",
                                            "aside", "cleaning"}]
        /\ UNCHANGED <<dir, backup, lock, cmds, before>>
    BY <1>8 DEF WritesPart, WritesFile
  <2> QED
    BY <2>5, <2>6, <2>7
<1>9. ASSUME NEW w \in Writers, GivesUp(w)
      PROVE  TypeOK'
  <2>1. tmp' \in Dirs
    BY <1>9 DEF GivesUp, LeftOf
  <2> QED
    BY <1>9, <2>1 DEF GivesUp
<1>10. ASSUME NEW w \in Writers, MovesAside(w)
       PROVE  TypeOK'
  BY <1>10 DEF MovesAside
<1>11. ASSUME NEW w \in Writers, Installs(w)
       PROVE  TypeOK'
  BY <1>11 DEF Installs
<1>12. ASSUME NEW w \in Writers, Restores(w)
       PROVE  TypeOK'
  BY <1>12 DEF Restores
<1>13. ASSUME NEW w \in Writers, FailsToInstall(w)
       PROVE  TypeOK'
  BY <1>13 DEF FailsToInstall, disk
<1>14. ASSUME NEW w \in Writers, RemovesBackup(w)
       PROVE  TypeOK'
  BY <1>14 DEF RemovesBackup
<1>15. ASSUME NEW w \in Writers, LeavesBackup(w)
       PROVE  TypeOK'
  BY <1>15 DEF LeavesBackup, disk
<1>16. ASSUME NEW w \in Writers, Crashes(w)
       PROVE  TypeOK'
  BY <1>16 DEF Crashes, disk
<1>17. CASE UNCHANGED vars
  BY <1>17 DEF vars
<1> QED
  BY <1>1, <1>2, <1>3, <1>4, <1>5, <1>6, <1>7, <1>8, <1>9, <1>10, <1>11,
     <1>12, <1>13, <1>14, <1>15, <1>16, <1>17 DEF Next

(* The directories, the lock and the calls keep their types. *)
THEOREM DirIsTyped == Spec => []TypeOK
  BY InitialTypes, NextKeepsTypes, PTL DEF Spec

-------------------------------------------------------------------------------
(* What holds under the lock *)

(* The lock is held by the call that is under way, if there is one. *)
LockInv == \A w \in Writers : at[w] \notin AtRest <=> lock = w

(* tmp while it is written: the files so far, and perhaps part of the next. *)
SideIsPrefix(w) ==
  \/ tmp = FirstFiles(cmds[w], written[w])
  \/ /\ written[w] < Len(cmds[w])
     /\ tmp = FirstFiles(cmds[w], written[w]) \cup {<<NextFile(w)[1], Torn>>}

(* What its place says of a call and the directories. *)
PlaceInv(w) ==
  /\ at[w] \notin AtRest => cmds[w] \in Lists
  /\ at[w] \in {"recovering", "clearing", "writing", "aside"} => Stored = before[w]
  /\ at[w] \in {"clearing", "writing"} => backup = Missing
  /\ at[w] = "writing" => written[w] <= Len(cmds[w]) /\ SideIsPrefix(w)
  /\ at[w] = "aside" =>
       dir = Missing /\ backup # Missing /\ tmp = Range(cmds[w])
  /\ at[w] = "cleaning" => dir = Range(cmds[w])

(* The directory is a saved set; if it is missing, so is the backup. *)
DiskInv ==
  /\ dir \in Saved \cup {Missing}
  /\ dir = Missing => backup \in Saved \cup {Missing}

DirInv == TypeOK /\ LockInv /\ DiskInv /\ \A w \in Writers : PlaceInv(w)

LEMMA SavedIsNotMissing == \A d \in Saved : d # Missing
  BY SavedAreFiles, DirAssumption

(* A call that lets go of the lock leaves nobody in write_dir. *)
LEMMA ReturningFreesAll ==
  ASSUME LockInv, TypeOK, NEW w \in Writers, at[w] \notin AtRest,
         NEW result \in AtRest, Returns(w, result)
  PROVE  /\ LockInv'
         /\ \A v \in Writers : PlaceInv(v)'
<1>1. \A v \in Writers : at'[v] \in AtRest
  BY DEF LockInv, Returns, TypeOK
<1>2. lock' \notin Writers
  BY NobodyAssumption DEF Returns
<1> QED
  BY <1>1, <1>2 DEF LockInv, PlaceInv, AtRest

(* A call that goes on is alone in write_dir. *)
LEMMA GoingOnIsAlone ==
  ASSUME LockInv, TypeOK, NEW w \in Writers, at[w] \notin AtRest,
         NEW place, place \notin AtRest, GoesTo(w, place),
         PlaceInv(w)'
  PROVE  /\ LockInv'
         /\ \A v \in Writers : PlaceInv(v)'
<1>1. \A v \in Writers \ {w} : at'[v] \in AtRest
  BY DEF LockInv, GoesTo, TypeOK
<1>2. LockInv'
  BY DEF LockInv, GoesTo, TypeOK
<1>3. \A v \in Writers \ {w} : PlaceInv(v)'
  BY <1>1 DEF PlaceInv, AtRest
<1> QED
  BY <1>2, <1>3

(* The next file is of a new name, so that it is added to what is there    *)
(* and takes the place of its torn part.                                   *)
LEMMA NextFileIsNew ==
  ASSUME NEW s \in Lists, NEW n \in Nat, n < Len(s),
         NEW d, NEW text,
         \/ d = FirstFiles(s, n)
         \/ d = FirstFiles(s, n) \cup {<<s[n + 1][1], Torn>>}
  PROVE  /\ WithFile(d, <<s[n + 1][1], text>>)
              = FirstFiles(s, n) \cup {<<s[n + 1][1], text>>}
         /\ FirstFiles(s, n) \cup {s[n + 1]} = FirstFiles(s, n + 1)
         /\ s[n + 1] = <<s[n + 1][1], s[n + 1][2]>>
<1>1. \A g \in FirstFiles(s, n) : g[1] # s[n + 1][1]
  <2> SUFFICES ASSUME NEW i \in 1..n PROVE s[i][1] # s[n + 1][1]
    BY DEF FirstFiles
  <2>1. i \in 1..Len(s) /\ n + 1 \in 1..Len(s) /\ i # n + 1
    BY ListsAreLists
  <2> QED
    BY <2>1, ListsAreLists
<1>2. <<s[n + 1][1], Torn>>[1] = s[n + 1][1]
  OBVIOUS
<1>3. WithFile(d, <<s[n + 1][1], text>>)
        = FirstFiles(s, n) \cup {<<s[n + 1][1], text>>}
  BY <1>1, <1>2 DEF WithFile
<1>4. FirstFiles(s, n) \cup {s[n + 1]} = FirstFiles(s, n + 1)
  BY DEF FirstFiles
<1>5. s[n + 1] \in Names \X Texts
  BY ListsAreLists
<1> QED
  BY <1>3, <1>4, <1>5

(* Once every file is written, tmp is the list. *)
LEMMA AllWrittenIsWhole ==
  ASSUME NEW w \in Writers, PlaceInv(w), at[w] = "writing",
         written[w] = Len(cmds[w])
  PROVE  cmds[w] \in Lists /\ tmp = Range(cmds[w])
<1>1. cmds[w] \in Lists
  BY DEF PlaceInv, AtRest
<1>2. ~(written[w] < Len(cmds[w]))
  BY <1>1, ListsAreLists
<1>3. tmp = FirstFiles(cmds[w], written[w])
  BY <1>2 DEF PlaceInv, SideIsPrefix
<1> QED
  BY <1>1, <1>3, ListsAreLists

(* What is moved into place is a whole list. *)
LEMMA InstalledIsWhole ==
  ASSUME NEW w \in Writers, PlaceInv(w), MayInstall(w)
  PROVE  cmds[w] \in Lists /\ tmp = Range(cmds[w])
BY AllWrittenIsWhole DEF MayInstall, AllWritten, PlaceInv, AtRest

(* The invariant is inductive, provided that tmp does not stick. *)
LEMMA DirInductive ==
  ASSUME ~SideSticks
  PROVE  DirInv /\ [Next]_vars => DirInv'
<1> SUFFICES ASSUME DirInv, [Next]_vars
             PROVE  LockInv' /\ DiskInv' /\ \A w \in Writers : PlaceInv(w)'
  BY NextKeepsTypes DEF DirInv
<1>0. TypeOK /\ LockInv /\ DiskInv /\ \A w \in Writers : PlaceInv(w)
  BY DEF DirInv
<1>a. Missing \notin Saved
  BY SavedIsNotMissing
<1>1. ASSUME NEW w \in Writers, NEW s \in Lists, Locks(w, s)
      PROVE  LockInv' /\ DiskInv' /\ \A v \in Writers : PlaceInv(v)'
  <2>1. \A v \in Writers : at[v] \in AtRest
    BY <1>0, <1>1, NobodyAssumption DEF Locks, LockInv
  <2>2. Stored' = Stored
    BY <1>1 DEF Locks, disk, Stored
  <2>3. at'[w] = "recovering" /\ cmds'[w] = s /\ before'[w] = Stored /\ lock' = w
    BY <1>0, <1>1 DEF Locks, TypeOK
  <2>4. \A v \in Writers \ {w} : at'[v] \in AtRest
    BY <2>1, <1>0, <1>1 DEF Locks, TypeOK
  <2>5. LockInv'
    BY <2>3, <2>4 DEF LockInv, AtRest
  <2>6. \A v \in Writers : PlaceInv(v)'
    BY <2>2, <2>3, <2>4 DEF PlaceInv, AtRest
  <2>7. DiskInv'
    BY <1>0, <1>1 DEF Locks, disk, DiskInv
  <2> QED
    BY <2>5, <2>6, <2>7
<1>2. ASSUME NEW w \in Writers, NothingToRecover(w)
      PROVE  LockInv' /\ DiskInv' /\ \A v \in Writers : PlaceInv(v)'
  <2>1. /\ PlaceInv(w)
        /\ at[w] = "recovering" /\ at'[w] = "clearing" /\ backup = Missing
        /\ GoesTo(w, "clearing")
        /\ UNCHANGED <<dir, tmp, backup, cmds, before>>
    BY <1>0, <1>2 DEF NothingToRecover, GoesTo, disk, TypeOK
  <2>2. PlaceInv(w)'
    BY <2>1 DEF PlaceInv, AtRest, Stored
  <2>3. DiskInv'
    BY <1>0, <2>1 DEF DiskInv
  <2> QED
    BY <1>0, <2>1, <2>2, <2>3, GoingOnIsAlone DEF AtRest
<1>3. ASSUME NEW w \in Writers, PutsBack(w)
      PROVE  LockInv' /\ DiskInv' /\ \A v \in Writers : PlaceInv(v)'
  <2>1. /\ PlaceInv(w)
        /\ at[w] = "recovering" /\ at'[w] = "clearing" /\ backup # Missing
        /\ dir = Missing /\ dir' = backup /\ backup' = Missing
        /\ GoesTo(w, "clearing")
        /\ UNCHANGED <<tmp, cmds, before>>
    BY <1>0, <1>3 DEF PutsBack, GoesTo, TypeOK
  <2>2. Stored' = Stored
    BY <2>1 DEF Stored
  <2>3. PlaceInv(w)'
    BY <2>1, <2>2 DEF PlaceInv, AtRest
  <2>4. DiskInv'
    BY <1>0, <2>1 DEF DiskInv
  <2> QED
    BY <1>0, <2>1, <2>3, <2>4, GoingOnIsAlone DEF AtRest
<1>4. ASSUME NEW w \in Writers, RemovesSome(w)
      PROVE  LockInv' /\ DiskInv' /\ \A v \in Writers : PlaceInv(v)'
  <2>1. /\ PlaceInv(w)
        /\ at[w] \in {"recovering", "cleaning"} /\ at' = at
        /\ GoesTo(w, at[w])
        /\ UNCHANGED <<dir, tmp, cmds, before>>
    BY <1>0, <1>4 DEF RemovesSome, GoesTo, TypeOK
  <2>2. dir # Missing
    <3>1. CASE at[w] = "cleaning"
      BY <1>0, <2>1, <3>1, <1>a, ListsAreLists DEF PlaceInv, AtRest
    <3> QED
      BY <1>4, <3>1 DEF RemovesSome
  <2>3. PlaceInv(w)'
    BY <2>1, <2>2 DEF PlaceInv, AtRest, Stored
  <2>4. DiskInv'
    BY <1>0, <2>1, <2>2 DEF DiskInv
  <2> QED
    BY <1>0, <2>1, <2>3, <2>4, GoingOnIsAlone DEF AtRest
<1>5. ASSUME NEW w \in Writers, RemovesOldBackup(w)
      PROVE  LockInv' /\ DiskInv' /\ \A v \in Writers : PlaceInv(v)'
  <2>1. /\ PlaceInv(w)
        /\ at[w] = "recovering" /\ at'[w] = "clearing" /\ dir # Missing
        /\ backup' = Missing
        /\ GoesTo(w, "clearing")
        /\ UNCHANGED <<dir, tmp, cmds, before>>
    BY <1>0, <1>5 DEF RemovesOldBackup, GoesTo, TypeOK
  <2>2. PlaceInv(w)'
    BY <2>1 DEF PlaceInv, AtRest, Stored
  <2>3. DiskInv'
    BY <1>0, <2>1 DEF DiskInv
  <2> QED
    BY <1>0, <2>1, <2>2, <2>3, GoingOnIsAlone DEF AtRest
<1>6. ASSUME NEW w \in Writers, ClearsSide(w)
      PROVE  LockInv' /\ DiskInv' /\ \A v \in Writers : PlaceInv(v)'
  <2>1. /\ PlaceInv(w)
        /\ at[w] = "clearing" /\ at'[w] = "writing"
        /\ written'[w] = 0 /\ tmp' = {}
        /\ GoesTo(w, "writing")
        /\ UNCHANGED <<dir, backup, cmds, before>>
    BY <1>0, <1>6, ~SideSticks DEF ClearsSide, LeftOf, GoesTo, TypeOK
  <2>2. cmds[w] \in Lists
    BY <2>1 DEF PlaceInv, AtRest
  <2>3. tmp' = FirstFiles(cmds'[w], written'[w]) /\ written'[w] <= Len(cmds'[w])
    BY <2>1, <2>2, ListsAreLists DEF FirstFiles
  <2>4. PlaceInv(w)'
    BY <2>1, <2>3 DEF PlaceInv, AtRest, Stored, SideIsPrefix
  <2>5. DiskInv'
    BY <1>0, <2>1 DEF DiskInv
  <2> QED
    BY <1>0, <2>1, <2>4, <2>5, GoingOnIsAlone DEF AtRest
<1>7. ASSUME NEW w \in Writers, WritesPart(w) \/ WritesFile(w)
      PROVE  LockInv' /\ DiskInv' /\ \A v \in Writers : PlaceInv(v)'
  <2> DEFINE s == cmds[w]
             n == written[w]
  <2>1. /\ PlaceInv(w)
        /\ at[w] = "writing" /\ at'[w] = "writing"
        /\ GoesTo(w, "writing")
        /\ UNCHANGED <<dir, backup, cmds, before>>
    BY <1>0, <1>7 DEF WritesPart, WritesFile, GoesTo, TypeOK
  <2>2. s \in Lists /\ n \in Nat /\ n < Len(s) /\ Len(s) \in Nat
    BY <1>0, <1>7, <2>1, ListsAreLists
       DEF PlaceInv, AtRest, WritesPart, WritesFile, TypeOK
  <2>3. \/ tmp = FirstFiles(s, n)
        \/ tmp = FirstFiles(s, n) \cup {<<s[n + 1][1], Torn>>}
    BY <2>1 DEF PlaceInv, SideIsPrefix, NextFile
  <2>4. SideIsPrefix(w)' /\ written'[w] <= Len(s)
    <3>1. CASE WritesPart(w)
      <4>1. tmp' = WithFile(tmp, <<s[n + 1][1], Torn>>) /\ written' = written
        BY <3>1 DEF WritesPart, NextFile
      <4>2. tmp' = FirstFiles(s, n) \cup {<<s[n + 1][1], Torn>>}
        BY <4>1, <2>2, <2>3, NextFileIsNew
      <4> QED
        BY <4>1, <4>2, <2>1, <2>2 DEF SideIsPrefix, NextFile
    <3>2. CASE WritesFile(w)
      <4>1. tmp' = WithFile(tmp, s[n + 1]) /\ written'[w] = n + 1
        BY <3>2, <1>0 DEF WritesFile, NextFile, TypeOK
      <4>2. s[n + 1] = <<s[n + 1][1], s[n + 1][2]>>
        BY <2>2, <2>3, NextFileIsNew
      <4>3. WithFile(tmp, <<s[n + 1][1], s[n + 1][2]>>)
              = FirstFiles(s, n) \cup {<<s[n + 1][1], s[n + 1][2]>>}
        BY <2>2, <2>3, NextFileIsNew
      <4>4. tmp' = FirstFiles(s, n + 1)
        BY ZenonT(30), <4>1, <4>2, <4>3, <2>2, <2>3, NextFileIsNew
      <4> QED
        BY <4>1, <4>4, <2>1, <2>2 DEF SideIsPrefix
    <3> QED
      BY <1>7, <3>1, <3>2
  <2>5. PlaceInv(w)'
    BY <2>1, <2>4 DEF PlaceInv, AtRest, Stored
  <2>6. DiskInv'
    BY <1>0, <2>1 DEF DiskInv
  <2> QED
    BY <1>0, <2>1, <2>5, <2>6, GoingOnIsAlone DEF AtRest
<1>8. ASSUME NEW w \in Writers, MovesAside(w)
      PROVE  LockInv' /\ DiskInv' /\ \A v \in Writers : PlaceInv(v)'
  <2>1. /\ PlaceInv(w)
        /\ at[w] = "writing" /\ written[w] = Len(cmds[w]) /\ at'[w] = "aside"
        /\ dir # Missing /\ backup' = dir /\ dir' = Missing
        /\ GoesTo(w, "aside")
        /\ UNCHANGED <<tmp, cmds, before>>
    BY <1>0, <1>8 DEF MovesAside, AllWritten, GoesTo, TypeOK
  <2>2. tmp = Range(cmds[w])
    BY <2>1, AllWrittenIsWhole DEF AtRest
  <2>3. Stored' = Stored
    BY <2>1 DEF Stored
  <2>4. PlaceInv(w)'
    BY <2>1, <2>2, <2>3 DEF PlaceInv, AtRest
  <2>5. DiskInv'
    BY <1>0, <2>1 DEF DiskInv
  <2> QED
    BY <1>0, <2>1, <2>4, <2>5, GoingOnIsAlone DEF AtRest
<1>9. ASSUME NEW w \in Writers, Installs(w)
      PROVE  LockInv' /\ DiskInv' /\ \A v \in Writers : PlaceInv(v)'
  <2>1. /\ at[w] \notin AtRest /\ at'[w] = "cleaning" /\ dir' = tmp
        /\ GoesTo(w, "cleaning") /\ cmds' = cmds
    BY <1>0, <1>9 DEF Installs, MayInstall, AllWritten, GoesTo, TypeOK, AtRest
  <2>2. cmds[w] \in Lists /\ tmp = Range(cmds[w])
    BY <1>0, <1>9, InstalledIsWhole DEF Installs
  <2>3. PlaceInv(w)'
    BY <2>1, <2>2 DEF PlaceInv, AtRest
  <2>4. DiskInv'
    BY <2>1, <2>2, <1>a, ListsAreLists DEF DiskInv
  <2> QED
    BY <1>0, <2>1, <2>3, <2>4, GoingOnIsAlone DEF AtRest
<1>10. ASSUME NEW w \in Writers,
              \/ FailsToRecover(w) \/ GivesUp(w) \/ Restores(w) \/ FailsToInstall(w)
              \/ RemovesBackup(w) \/ LeavesBackup(w) \/ Crashes(w)
       PROVE  LockInv' /\ DiskInv' /\ \A v \in Writers : PlaceInv(v)'
  <2>1. at[w] \notin AtRest /\ \E result \in AtRest : Returns(w, result)
    BY <1>10 DEF FailsToRecover, GivesUp, Restores, FailsToInstall, MayInstall,
                 AllWritten, RemovesBackup, LeavesBackup, Crashes, AtRest
  <2>2. LockInv' /\ \A v \in Writers : PlaceInv(v)'
    BY <1>0, <2>1, ReturningFreesAll
  <2>3. DiskInv'
    <3>1. CASE UNCHANGED <<dir, backup>>
      BY <1>0, <3>1 DEF DiskInv
    <3>2. CASE Restores(w)
      BY <1>0, <3>2 DEF Restores, DiskInv
    <3>3. CASE RemovesBackup(w)
      BY <1>0, <3>3 DEF RemovesBackup, DiskInv
    <3> QED
      BY <1>10, <3>1, <3>2, <3>3
         DEF FailsToRecover, GivesUp, FailsToInstall, LeavesBackup, Crashes, disk
  <2> QED
    BY <2>2, <2>3
<1>11. CASE UNCHANGED vars
  BY <1>0, <1>11 DEF vars, LockInv, DiskInv, PlaceInv, SideIsPrefix, Stored, NextFile
<1> QED
  BY <1>1, <1>2, <1>3, <1>4, <1>5, <1>6, <1>7, <1>8, <1>9, <1>10, <1>11 DEF Next

LEMMA DirInitialInv == Init => DirInv
<1> SUFFICES ASSUME Init PROVE DirInv
  OBVIOUS
<1>1. TypeOK
  BY InitialTypes
<1>2. LockInv /\ \A w \in Writers : PlaceInv(w)
  BY NobodyAssumption DEF Init, LockInv, PlaceInv, AtRest
<1>3. DiskInv
  BY DEF Init, DiskInv
<1> QED
  BY <1>1, <1>2, <1>3 DEF DirInv

THEOREM DirInvariance ==
  ASSUME ~SideSticks
  PROVE  Spec => []DirInv
<1>1. DirInv /\ [Next]_vars => DirInv'
  BY DirInductive
<1> QED
  BY <1>1, DirInitialInv, PTL DEF Spec

-------------------------------------------------------------------------------
(* What those who edit the commands find *)

(* A call asks for its list, goes on, or ends. *)
LEMMA LockingAsks ==
  ASSUME DirInv, NEW w \in Writers, NEW s \in Lists, Locks(w, s)
  PROVE  Wanted' = Wanted \cup {Range(s)}
<1>1. \A v \in Writers : at[v] \in AtRest
  BY NobodyAssumption DEF DirInv, Locks, LockInv
<1>2. /\ \A v \in Writers : at'[v] \notin AtRest <=> v = w
      /\ cmds'[w] = s
  BY <1>1 DEF DirInv, TypeOK, Locks, AtRest
<1>3. Wanted = {}
  BY <1>1 DEF Wanted
<1>4. Wanted' = {Range(s)}
  BY <1>2 DEF Wanted
<1> QED
  BY <1>3, <1>4

LEMMA GoingOnWants ==
  ASSUME DirInv, NEW w \in Writers, at[w] \notin AtRest,
         NEW place, place \notin AtRest, GoesTo(w, place)
  PROVE  Wanted' = Wanted
<1>1. \A v \in Writers : at'[v] \notin AtRest <=> at[v] \notin AtRest
  BY DEF DirInv, TypeOK, GoesTo
<1> QED
  BY <1>1 DEF Wanted, GoesTo

LEMMA UnderWayIsWanted ==
  ASSUME DirInv, NEW w \in Writers, at[w] \notin AtRest
  PROVE  Wanted = {Range(cmds[w])} /\ Range(cmds[w]) \in Saved
<1>1. \A v \in Writers : at[v] \notin AtRest <=> v = w
  BY DEF DirInv, LockInv
<1>2. cmds[w] \in Lists
  BY DEF DirInv, PlaceInv
<1> QED
  BY <1>1, <1>2, ListsAreLists DEF Wanted

LEMMA ReturningEnds ==
  ASSUME DirInv, NEW w \in Writers, at[w] \notin AtRest,
         NEW result \in AtRest, Returns(w, result), Stored' = Stored
  PROVE  Store!Next
<1>1. Wanted = {Range(cmds[w])} /\ Range(cmds[w]) \in Saved
  BY UnderWayIsWanted
<1>2. Wanted' = {}
  <2>1. \A v \in Writers : at'[v] \in AtRest
    BY DEF DirInv, LockInv, Returns, TypeOK
  <2> QED
    BY <2>1 DEF Wanted
<1>3. Store!Ends(Range(cmds[w]))
  BY <1>1, <1>2 DEF Store!Ends
<1> QED
  BY <1>1, <1>3 DEF Store!Next

(* Every step is one of the store, or none of its own. *)
LEMMA StepsAreOfTheStore ==
  ASSUME DirInv, Next
  PROVE  Store!Next \/ UNCHANGED <<Stored, Wanted>>
<1>0. TypeOK /\ LockInv /\ DiskInv /\ \A w \in Writers : PlaceInv(w)
  BY DEF DirInv
<1>1. ASSUME NEW w \in Writers, NEW s \in Lists, Locks(w, s)
      PROVE  Store!Next
  <2>1. Stored' = Stored
    BY <1>1 DEF Locks, disk, Stored
  <2>2. Store!Asks(Range(s))
    BY <1>1, <2>1, LockingAsks DEF Store!Asks
  <2> QED
    BY <2>2, ListsAreLists DEF Store!Next
<1>2. ASSUME NEW w \in Writers,
             \/ NothingToRecover(w) \/ PutsBack(w) \/ RemovesOldBackup(w)
             \/ ClearsSide(w) \/ WritesFile(w) \/ MovesAside(w)
      PROVE  UNCHANGED <<Stored, Wanted>>
  <2>1. at[w] \notin AtRest /\ \E place : place \notin AtRest /\ GoesTo(w, place)
    BY <1>2 DEF NothingToRecover, PutsBack, RemovesOldBackup, ClearsSide, WritesFile,
                MovesAside, AllWritten, AtRest
  <2>2. Stored' = Stored
    BY <1>2 DEF NothingToRecover, PutsBack, RemovesOldBackup, ClearsSide, WritesFile,
                MovesAside, disk, Stored
  <2> QED
    BY <2>1, <2>2, GoingOnWants
<1>3. ASSUME NEW w \in Writers, at[w] = "cleaning"
      PROVE  dir # Missing
  BY <1>0, <1>3, SavedIsNotMissing, ListsAreLists DEF PlaceInv, AtRest
<1>4. ASSUME NEW w \in Writers, RemovesSome(w) \/ WritesPart(w)
      PROVE  UNCHANGED <<Stored, Wanted>>
  <2>1. RemovesSome(w) => dir # Missing
    BY <1>3 DEF RemovesSome
  <2>2. Stored' = Stored
    BY <1>4, <2>1 DEF RemovesSome, WritesPart, Stored
  <2>3. UNCHANGED <<at, cmds>>
    BY <1>4 DEF RemovesSome, WritesPart
  <2> QED
    BY <2>2, <2>3 DEF Wanted
<1>5. ASSUME NEW w \in Writers, Installs(w)
      PROVE  Store!Next
  <2>1. at[w] \notin AtRest /\ GoesTo(w, "cleaning")
    BY <1>5 DEF Installs, MayInstall, AllWritten, AtRest
  <2>2. dir' = Range(cmds[w]) /\ dir' # Missing
    BY <1>0, <1>5, InstalledIsWhole DEF Installs
  <2>3. Wanted' = Wanted /\ Range(cmds[w]) \in Wanted /\ Range(cmds[w]) \in Saved
    BY <2>1, GoingOnWants, UnderWayIsWanted DEF AtRest
  <2>4. Store!Replaces(Range(cmds[w]))
    BY <2>2, <2>3 DEF Store!Replaces, Stored
  <2> QED
    BY <2>3, <2>4 DEF Store!Next
<1>6. ASSUME NEW w \in Writers,
             \/ FailsToRecover(w) \/ GivesUp(w) \/ Restores(w) \/ FailsToInstall(w)
             \/ RemovesBackup(w) \/ LeavesBackup(w) \/ Crashes(w)
      PROVE  Store!Next
  <2>1. at[w] \notin AtRest /\ \E result \in AtRest : Returns(w, result)
    BY <1>6 DEF FailsToRecover, GivesUp, Restores, FailsToInstall, MayInstall,
                AllWritten, RemovesBackup, LeavesBackup, Crashes, AtRest
  <2>2. RemovesBackup(w) => dir # Missing
    BY <1>3 DEF RemovesBackup
  <2>3. Stored' = Stored
    BY <1>6, <2>2 DEF FailsToRecover, GivesUp, Restores, FailsToInstall, RemovesBackup,
                      LeavesBackup, Crashes, disk, Stored
  <2> QED
    BY <2>1, <2>3, ReturningEnds
<1> QED
  BY <1>1, <1>2, <1>4, <1>5, <1>6 DEF Next

(* Replacing the directory is one step to those who edit the commands,     *)
(* with a backup put back by the next call wherever one was cut short.     *)
THEOREM ReplacingIsAtomic ==
  ASSUME ~SideSticks
  PROVE  Spec => ImplementsStore
<1>1. Init => Store!Init
  <2> SUFFICES ASSUME Init PROVE Store!Init
    OBVIOUS
  <2>1. Wanted = {}
    BY DEF Init, Wanted, AtRest
  <2> QED
    BY <2>1, SavedIsNotMissing DEF Init, Store!Init, Stored
<1>2. DirInv /\ [Next]_vars => [Store!Next]_<<Stored, Wanted>>
  <2> SUFFICES ASSUME DirInv, [Next]_vars
               PROVE  Store!Next \/ UNCHANGED <<Stored, Wanted>>
    OBVIOUS
  <2>1. CASE Next
    BY <2>1, StepsAreOfTheStore
  <2>2. CASE UNCHANGED vars
    BY <2>2 DEF vars, Stored, Wanted
  <2> QED
    BY <2>1, <2>2
<1> QED
  BY <1>1, <1>2, DirInvariance, PTL DEF Spec, ImplementsStore, Store!Spec

(* A call answers Ok when its list is stored, and with an error when what  *)
(* was stored before still is.                                             *)
THEOREM SavesAnswerTruly ==
  ASSUME ~SideSticks
  PROVE  Spec => AnswersAreTrue
<1>1. DirInv /\ [Next]_vars
        => [\A w \in Writers : at'[w] # at[w] =>
              /\ at'[w] = "saved" => Stored' = Range(cmds[w])
              /\ at'[w] = "failed" => Stored' = before[w]]_vars
  <2> SUFFICES ASSUME DirInv, Next, NEW w \in Writers, at'[w] # at[w],
                      at'[w] \in {"saved", "failed"}
               PROVE  /\ at'[w] = "saved" => Stored' = Range(cmds[w])
                      /\ at'[w] = "failed" => Stored' = before[w]
    OBVIOUS
  <2>0. TypeOK /\ PlaceInv(w)
    BY DEF DirInv
  <2>1. \/ RemovesBackup(w) \/ LeavesBackup(w)
        \/ FailsToRecover(w) \/ GivesUp(w) \/ Restores(w) \/ FailsToInstall(w)
    <3>1. PICK v \in Writers :
            \/ RemovesBackup(v) \/ LeavesBackup(v)
            \/ FailsToRecover(v) \/ GivesUp(v) \/ Restores(v) \/ FailsToInstall(v)
      BY <2>0 DEF Next, Locks, NothingToRecover, PutsBack, RemovesSome,
                  RemovesOldBackup, ClearsSide, WritesPart, WritesFile, MovesAside,
                  Installs, Crashes, GoesTo, Returns, TypeOK
    <3>2. v = w
      BY <2>0, <3>1 DEF RemovesBackup, LeavesBackup, FailsToRecover, GivesUp,
                        Restores, FailsToInstall, Returns, TypeOK
    <3> QED
      BY <3>1, <3>2
  <2>2. CASE RemovesBackup(w) \/ LeavesBackup(w)
    <3>1. at[w] = "cleaning" /\ at'[w] = "saved" /\ dir' = dir
      BY <2>0, <2>2 DEF RemovesBackup, LeavesBackup, Returns, disk, TypeOK
    <3>2. dir = Range(cmds[w]) /\ dir # Missing
      BY <2>0, <3>1, SavedIsNotMissing, ListsAreLists DEF PlaceInv, AtRest
    <3> QED
      BY <3>1, <3>2 DEF Stored
  <2>3. CASE FailsToRecover(w) \/ GivesUp(w) \/ Restores(w) \/ FailsToInstall(w)
    <3>1. at'[w] = "failed"
      BY <2>0, <2>3 DEF FailsToRecover, GivesUp, Restores, FailsToInstall, Returns,
                        TypeOK
    <3>2. Stored = before[w]
      BY <2>0, <2>3 DEF FailsToRecover, GivesUp, Restores, FailsToInstall,
                        MayInstall, AllWritten, PlaceInv
    <3>3. Stored' = Stored
      BY <2>3 DEF FailsToRecover, GivesUp, Restores, FailsToInstall, disk, Stored
    <3> QED
      BY <3>1, <3>2, <3>3
  <2> QED
    BY <2>1, <2>2, <2>3
<1> QED
  BY <1>1, DirInvariance, PTL DEF Spec, AnswersAreTrue

----------------------------------------------------------------------------
(* The native commands *)

Living == {r \in Runs : process[r] \notin {"unborn", "reaped"}}

CommandsTypeOK ==
    /\ stage \in [Callers -> {"idle", "reserved", "polling"}]
    /\ mine \in [Callers -> Runs \cup {"none"}]
    /\ process \in [Runs -> {"unborn", "running", "dying", "failed", "done", "reaped"}]
    /\ children \in SUBSET Runs
    /\ reserved_slots \in Nat

\* Each polling caller has a process of its own, which the reaper does not know of.
PollersAreApart ==
    \A c \in Callers : stage[c] = "polling" =>
        /\ mine[c] \in Runs \ children
        /\ \A d \in Callers : stage[d] = "polling" /\ mine[d] = mine[c] => d = c

CommandsInv == CommandsTypeOK /\ PollersAreApart /\ SlotsAreExact

-----------------------------------------------------------------------------
(* What leaving a call does to the sets the invariant counts.              *)

LEMMA FiniteSets ==
    ASSUME CommandsTypeOK
    PROVE  /\ IsFiniteSet(InFlight) /\ Cardinality(InFlight) \in Nat
           /\ IsFiniteSet(children) /\ Cardinality(children) \in Nat
<1>1. IsFiniteSet(InFlight)
  BY CommandsAssumption, FS_Subset DEF InFlight
<1>2. IsFiniteSet(children)
  BY CommandsAssumption, FS_Subset DEF CommandsTypeOK
<1> QED BY <1>1, <1>2, FS_CardinalityType

\* The caller is no longer in flight, so one slot fewer is in use.
LEMMA GoingFreesASlot ==
    ASSUME CommandsInv, NEW c \in Callers, stage[c] # "idle", Goes(c)
    PROVE  /\ Less(reserved_slots) = reserved_slots - 1
           /\ reserved_slots - 1 = Cardinality(InFlight')
<1>1. InFlight' = InFlight \ {c}
  BY DEF InFlight, Goes, CommandsInv, CommandsTypeOK
<1>2. c \in InFlight
  BY DEF InFlight
<1>3. /\ IsFiniteSet(InFlight) /\ Cardinality(InFlight) \in Nat
  BY FiniteSets DEF CommandsInv
<1>4. Cardinality(InFlight \ {c}) = Cardinality(InFlight) - 1
  BY <1>2, <1>3, FS_RemoveElement
<1>5. Cardinality(InFlight) # 0
  BY <1>2, <1>3, FS_EmptySet
<1> QED BY <1>1, <1>3, <1>4, <1>5 DEF Less, CommandsInv, SlotsAreExact

\* Its process is no longer polled by anybody.
LEMMA GoingUnpolls ==
    ASSUME CommandsInv, NEW c \in Callers, Goes(c)
    PROVE  /\ stage[c] = "polling" => Polled' = Polled \ {mine[c]}
           /\ stage[c] # "polling" => Polled' = Polled
<1>1. \A d \in Callers : stage'[d] = "polling" <=> d # c /\ stage[d] = "polling"
  BY DEF Goes, CommandsInv, CommandsTypeOK
<1>2. \A d \in Callers : d # c => mine'[d] = mine[d]
  BY DEF Goes, CommandsInv, CommandsTypeOK
<1> QED BY <1>1, <1>2 DEF Polled, CommandsInv, PollersAreApart

\* Types and the apartness of pollers survive a call that ends.
LEMMA GoingKeepsApart ==
    ASSUME CommandsInv, NEW c \in Callers, Goes(c),
           children' \subseteq children \cup {mine[c]}, stage[c] = "polling"
    PROVE  PollersAreApart'
<1>1. \A d \in Callers : stage'[d] = "polling" => d # c /\ stage[d] = "polling" /\ mine'[d] = mine[d]
  BY DEF Goes, CommandsInv, CommandsTypeOK
<1>2. \A d \in Callers : stage'[d] = "polling" => mine[d] # mine[c]
  BY <1>1 DEF CommandsInv, PollersAreApart
<1> QED BY <1>1, <1>2 DEF CommandsInv, PollersAreApart

-----------------------------------------------------------------------------
(* The invariant.                                                          *)

LEMMA CommandsInitInv == CommandsInit => CommandsInv
<1> SUFFICES ASSUME CommandsInit PROVE CommandsInv
  OBVIOUS
<1>1. InFlight = {} /\ Polled = {} /\ Living = {}
  BY DEF CommandsInit, InFlight, Polled, Living
<1>2. Cardinality({}) = 0
  BY FS_EmptySet
<1>3. CommandsTypeOK
  BY DEF CommandsInit, CommandsTypeOK
<1>4. PollersAreApart
  BY DEF CommandsInit, PollersAreApart
<1>5. SlotsAreExact
  BY <1>1, <1>2, CommandsAssumption DEF CommandsInit, SlotsAreExact, Living
<1> QED BY <1>3, <1>4, <1>5 DEF CommandsInv

LEMMA ReservesInv ==
    ASSUME CommandsInv, NEW c \in Callers, Reserves(c)
    PROVE  CommandsInv'
<1> USE DEF CommandsInv
<1>1. IsFiniteSet(children) /\ Cardinality(children) \in Nat
  BY FiniteSets
<1>2. IsFiniteSet(Kept) /\ Cardinality(Kept) \in Nat /\ Cardinality(Kept) <= Cardinality(children)
  BY <1>1, FS_Subset, FS_CardinalityType DEF Kept
<1>3. Living' = Living \ (children \ Kept)
  BY DEF Reserves, Living, Kept, Ended, CommandsTypeOK
<1>4. Polled' = Polled /\ Polled \cap children = {}
  BY DEF Reserves, Polled, CommandsTypeOK, PollersAreApart
<1>5. Living' = Polled' \cup children'
  BY <1>3, <1>4 DEF Reserves, SlotsAreExact, Living, Kept
<1>6. CommandsTypeOK'
  BY DEF Reserves, CommandsTypeOK, Kept
<1>7. PollersAreApart'
  BY DEF Reserves, PollersAreApart, CommandsTypeOK, Kept
<1>8. reserved_slots' = Cardinality(InFlight') /\ Cardinality(children') + reserved_slots' <= MaxReaping
  <2>1. CASE Full(Kept)
    <3>1. InFlight' = InFlight
      BY <2>1 DEF Reserves, InFlight
    <3> QED BY <2>1, <3>1, <1>1, <1>2, CommandsAssumption DEF Reserves, SlotsAreExact, CommandsTypeOK
  <2>2. CASE ~Full(Kept)
    <3>1. InFlight' = InFlight \cup {c} /\ c \notin InFlight
      BY <2>2 DEF Reserves, InFlight, CommandsTypeOK
    <3>2. Cardinality(InFlight') = Cardinality(InFlight) + 1
      BY <3>1, FiniteSets, FS_AddElement
    <3> QED BY <2>2, <3>2, <1>2, FiniteSets, CommandsAssumption
            DEF Reserves, SlotsAreExact, CommandsTypeOK, Full
  <2> QED BY <2>1, <2>2
<1>9. files' = Polled'
  BY <1>4 DEF Reserves, SlotsAreExact
<1> QED BY <1>5, <1>6, <1>7, <1>8, <1>9 DEF SlotsAreExact, Living

LEMMA CannotSpawnInv ==
    ASSUME CommandsInv, NEW c \in Callers, CannotSpawn(c)
    PROVE  CommandsInv'
<1> USE DEF CommandsInv
<1>1. Goes(c) /\ stage[c] = "reserved" /\ children' = children
  BY DEF CannotSpawn, Releases
<1>2. Polled' = Polled
  BY <1>1, GoingUnpolls
<1>3. reserved_slots' = reserved_slots - 1 /\ reserved_slots' = Cardinality(InFlight')
  BY <1>1, GoingFreesASlot DEF CannotSpawn, Releases
<1>4. Cardinality(children) \in Nat /\ reserved_slots' \in Nat
  BY <1>1, FiniteSets, GoingFreesASlot DEF CannotSpawn, Releases, Less, CommandsTypeOK
<1>5. CommandsTypeOK'
  BY <1>1, <1>4 DEF CannotSpawn, Goes, CommandsTypeOK
<1>6. PollersAreApart'
  BY <1>1 DEF Goes, PollersAreApart, CommandsTypeOK
<1>7. SlotsAreExact'
  BY <1>1, <1>2, <1>3, <1>4, CommandsAssumption DEF CannotSpawn, SlotsAreExact, CommandsTypeOK
<1> QED BY <1>5, <1>6, <1>7

LEMMA SpawnsInv ==
    ASSUME CommandsInv, NEW c \in Callers, Spawns(c)
    PROVE  CommandsInv'
<1> USE DEF CommandsInv
<1>1. PICK r \in Runs :
        /\ process[r] = "unborn" /\ process' = [process EXCEPT ![r] = "running"]
        /\ mine' = [mine EXCEPT ![c] = r] /\ files' = files \cup {r}
  BY DEF Spawns
<1>2. r \notin Polled /\ r \notin children
  BY <1>1 DEF SlotsAreExact
<1>3. InFlight' = InFlight
  BY DEF Spawns, InFlight, CommandsTypeOK
<1>4. Polled' = Polled \cup {r}
  <2>1. \A d \in Callers : stage'[d] = "polling" <=> d = c \/ stage[d] = "polling"
    BY DEF Spawns, CommandsTypeOK
  <2>2. mine'[c] = r /\ \A d \in Callers : d # c => mine'[d] = mine[d]
    BY <1>1 DEF CommandsTypeOK
  <2>3. stage[c] # "polling"
    BY DEF Spawns
  <2> QED BY <2>1, <2>2, <2>3 DEF Polled
<1>5. Living' = Living \cup {r}
  BY <1>1 DEF Living, CommandsTypeOK
<1>6. CommandsTypeOK'
  BY <1>1 DEF Spawns, CommandsTypeOK
<1>7. PollersAreApart'
  <2>1. \A d \in Callers : stage[d] = "polling" => mine[d] \in Polled
    BY DEF Polled
  <2> QED BY <1>1, <1>2, <2>1 DEF Spawns, PollersAreApart, CommandsTypeOK
<1>8. SlotsAreExact'
  BY <1>1, <1>3, <1>4, <1>5 DEF Spawns, SlotsAreExact, Living
<1> QED BY <1>6, <1>7, <1>8

LEMMA TakesStatusInv ==
    ASSUME CommandsInv, NEW c \in Callers, TakesStatus(c)
    PROVE  CommandsInv'
<1> USE DEF CommandsInv
<1>1. Goes(c) /\ stage[c] = "polling" /\ children' = children
  BY DEF TakesStatus, Releases
<1>2. Polled' = Polled \ {mine[c]} /\ mine[c] \in Runs \ children
  BY <1>1, GoingUnpolls DEF PollersAreApart
<1>3. reserved_slots' = reserved_slots - 1 /\ reserved_slots' = Cardinality(InFlight')
  BY <1>1, GoingFreesASlot DEF TakesStatus, Releases
<1>4. Cardinality(children) \in Nat /\ reserved_slots' \in Nat
  BY <1>1, FiniteSets, GoingFreesASlot DEF TakesStatus, Releases, Less, CommandsTypeOK
<1>5. Living' = Living \ {mine[c]}
  BY <1>2 DEF TakesStatus, Living, CommandsTypeOK
<1>6. CommandsTypeOK'
  BY <1>1, <1>2, <1>4 DEF TakesStatus, Goes, CommandsTypeOK
<1>7. PollersAreApart'
  BY <1>1, GoingKeepsApart
<1>8. SlotsAreExact'
  BY <1>1, <1>2, <1>3, <1>4, <1>5, CommandsAssumption
  DEF TakesStatus, SlotsAreExact, CommandsTypeOK, Living
<1> QED BY <1>6, <1>7, <1>8

LEMMA AbandonsInv ==
    ASSUME CommandsInv, NEW c \in Callers, Abandons(c)
    PROVE  CommandsInv'
<1> USE DEF CommandsInv
<1>1. Goes(c) /\ stage[c] = "polling" /\ children' = children \cup {mine[c]}
  BY DEF Abandons, Retains
<1>2. Polled' = Polled \ {mine[c]} /\ mine[c] \in Runs \ children /\ mine[c] \in Polled
  BY <1>1, GoingUnpolls DEF PollersAreApart, Polled
<1>3. reserved_slots' = reserved_slots - 1 /\ reserved_slots' = Cardinality(InFlight')
  BY <1>1, GoingFreesASlot DEF Abandons, Retains
<1>4. reserved_slots' \in Nat /\ Cardinality(children) \in Nat
  BY <1>1, FiniteSets, GoingFreesASlot DEF Abandons, Retains, Less, CommandsTypeOK
<1>5. Cardinality(children') = Cardinality(children) + 1
  BY <1>1, <1>2, FiniteSets, FS_AddElement
<1>6. Living' = Living
  BY <1>2 DEF Abandons, Living, CommandsTypeOK
<1>7. CommandsTypeOK'
  BY <1>1, <1>2, <1>4 DEF Abandons, Goes, CommandsTypeOK
<1>8. PollersAreApart'
  BY <1>1, GoingKeepsApart
<1>9. Living' = Polled' \cup children' /\ files' = Polled'
  BY <1>1, <1>2, <1>6 DEF Abandons, SlotsAreExact, Living
<1>10. Cardinality(children') + reserved_slots' <= MaxReaping
  BY <1>3, <1>4, <1>5, CommandsAssumption DEF SlotsAreExact, CommandsTypeOK
<1> QED BY <1>3, <1>7, <1>8, <1>9, <1>10 DEF SlotsAreExact, Living

\* A process that writes or ends stays alive for the purpose of being waited for.
LEMMA ProcessInv ==
    ASSUME CommandsInv, NEW r \in Runs, ProcessWrites(r) \/ ProcessEnds(r)
    PROVE  CommandsInv'
<1> USE DEF CommandsInv
<1>1. /\ UNCHANGED <<stage, mine, files, children, reserved_slots>>
      /\ process' \in [Runs -> {"unborn", "running", "dying", "failed", "done", "reaped"}]
  BY DEF ProcessWrites, ProcessEnds, CommandsTypeOK
<1>2. Living' = Living
  BY DEF ProcessWrites, ProcessEnds, CommandsTypeOK, Living
<1>3. InFlight' = InFlight /\ Polled' = Polled
  BY <1>1 DEF InFlight, Polled
<1>4. CommandsTypeOK'
  BY <1>1 DEF CommandsTypeOK
<1>5. PollersAreApart'
  BY <1>1 DEF PollersAreApart
<1>6. SlotsAreExact'
  BY <1>1, <1>2, <1>3 DEF SlotsAreExact, Living
<1> QED BY <1>4, <1>5, <1>6

LEMMA CommandsNextInv == CommandsInv /\ [CommandsNext]_commandsVars => CommandsInv'
<1> SUFFICES ASSUME CommandsInv, [CommandsNext]_commandsVars PROVE CommandsInv'
  OBVIOUS
<1>1. ASSUME NEW c \in Callers, Reserves(c) PROVE CommandsInv'
  BY <1>1, ReservesInv
<1>2. ASSUME NEW c \in Callers, CannotSpawn(c) PROVE CommandsInv'
  BY <1>2, CannotSpawnInv
<1>3. ASSUME NEW c \in Callers, Spawns(c) PROVE CommandsInv'
  BY <1>3, SpawnsInv
<1>4. ASSUME NEW c \in Callers, TakesStatus(c) PROVE CommandsInv'
  BY <1>4, TakesStatusInv
<1>5. ASSUME NEW c \in Callers, Abandons(c) PROVE CommandsInv'
  BY <1>5, AbandonsInv
<1>6. ASSUME NEW r \in Runs, ProcessWrites(r) \/ ProcessEnds(r) PROVE CommandsInv'
  BY <1>6, ProcessInv
<1>7. CASE UNCHANGED commandsVars
  BY <1>7 DEF commandsVars, CommandsInv, CommandsTypeOK, PollersAreApart, SlotsAreExact,
              InFlight, Polled
<1> QED BY <1>1, <1>2, <1>3, <1>4, <1>5, <1>6, <1>7 DEF CommandsNext

\* However many callers sample at once, the reaper's slots are exactly the calls in flight,
\* survivors never outgrow its bound, and every process is polled, kept or reaped.
THEOREM SlotsStayExact == CommandsSpec => []SlotsAreExact
<1>1. CommandsInv => SlotsAreExact
  BY DEF CommandsInv
<1> QED BY <1>1, CommandsInitInv, CommandsNextInv, PTL DEF CommandsSpec

----------------------------------------------------------------------------
(* The monitoring loop *)

(* What was read of the counter, and when; nothing read, or all of it. *)
SampleKinds == [counter : Nat, read : Nat]
Collected == {"gather", "ext", "status", "adapt", "alert", "send"}

LoopTypesOK ==
  /\ now \in Nat /\ counter \in Nat /\ settled \in 0 .. now
  /\ live \in LiveChoices
  /\ cycle \in Nat /\ skipped \in Nat
  /\ pc \in Collected \cup {"start", "sample", "sleep"}
  /\ pc \in Collected => sample \in SampleKinds
  /\ metrics # None => /\ pc \in {"alert", "send"}
                       /\ metrics.counter \in Nat /\ metrics.read \in Nat
  /\ current # None => current.counter \in Nat /\ current.read \in Nat
  /\ velocity.net.rx.old # None => velocity.net.rx.old \in Nat /\ velocity.read.old \in Nat
  /\ velocity.net.rx.new # None => velocity.net.rx.new \in Nat /\ velocity.read.new \in Nat

(* A counter that showed c at time r cannot have passed d by time t. *)
Reaches(c, r, d, t) == r <= t /\ d <= c + MaxRate * (t - r)

(* The host's counter is within reach of each reading that a later one will
   be compared with, and the cycle's reading is within reach of the last.    *)
CountersOK ==
  /\ pc \in Collected => Reaches(sample.counter, sample.read, counter, settled)
  /\ current # None =>
       /\ Reaches(current.counter, current.read, counter, settled)
       /\ pc \in Collected => Reaches(current.counter, current.read, sample.counter, sample.read)
  /\ metrics # None => metrics.counter = sample.counter /\ metrics.read = sample.read
  /\ velocity.net.rx.new # None =>
       /\ Reaches(velocity.net.rx.new, velocity.read.new, counter, settled)
       /\ pc \in Collected =>
            Reaches(velocity.net.rx.new, velocity.read.new, sample.counter, sample.read)
  /\ velocity.net.rx.old # None /\ velocity.net.rx.new # None =>
       Reaches(velocity.net.rx.old, velocity.read.old, velocity.net.rx.new, velocity.read.new)

(* The extended data of the cycle under way is its own or that before it. *)
CarriesOver ==
  pc \in {"alert", "send"} /\ current # None =>
    \/ metrics.disk_smart = cycle /\ metrics.extended_updated_at = metrics.timestamp
    \/ /\ metrics.disk_smart = current.disk_smart
       /\ metrics.extended_updated_at = current.extended_updated_at

(* Cycles without an extended run since the last number that asked for one. *)
SkipsBounded ==
  IF cycle = 0 THEN skipped = 0
  ELSE skipped <= (cycle - 1) % ExtendedEvery(live.extended_interval_secs)

LoopInv ==
  /\ LoopTypesOK
  /\ CountersOK
  /\ NoSpikeAfterReset
  /\ CarriesOver
  /\ SkipsBounded

(* At time t the queue q holds the newest confirmations of c, and those it
   does not hold are older than the window.                                  *)
KeepsNewest(q, c, t) ==
  LET n == Len(c) - Len(q)
  IN  /\ n \in Nat
      /\ \A i \in 1 .. Len(q) : q[i] = c[n + i]
      /\ \A i \in 1 .. n : t - c[i] > Window

(* Each confirmation of c is one of at most Times in the window it ends. *)
WithinQuota(c) ==
  \A i \in DOMAIN c : Cardinality({j \in 1 .. i : c[i] - c[j] <= Window}) <= Times

(* A push that is being sent found room. *)
QuotaInv ==
  /\ now \in Nat
  /\ records \in [PushNames -> Seq(Nat)] /\ confirmed \in [PushNames -> Seq(Nat)]
  /\ \A p \in PushNames : KeepsNewest(records[p], confirmed[p], now) /\ WithinQuota(confirmed[p])
  /\ pc = "send" /\ Head(todo) \in PushNames => Len(records[Head(todo)]) < Times


LEMMA RateNat == ASSUME NEW n \in Nat PROVE MaxRate * n \in Nat
  BY LoopAssumption

LEMMA ReachesSelf ==
  ASSUME NEW c \in Nat, NEW r \in Nat
  PROVE  Reaches(c, r, c, r)
BY LoopAssumption DEF Reaches

\* A counter that grew no faster than it may is still within reach.
LEMMA ReachesOn ==
  ASSUME NEW c \in Nat, NEW r \in Nat, NEW d \in Nat, NEW t \in Nat, NEW u \in Nat,
         Reaches(c, r, d, t), t <= u, NEW g \in 0 .. MaxRate * (u - t)
  PROVE  d + g \in Nat /\ Reaches(c, r, d + g, u)
<1>1. r <= t /\ d <= c + MaxRate * (t - r)
  BY DEF Reaches
<1>2. MaxRate * (u - t) \in Nat /\ MaxRate * (t - r) \in Nat
  BY <1>1, LoopAssumption
<1>3. MaxRate * (u - r) = MaxRate * (u - t) + MaxRate * (t - r)
  BY LoopAssumption
<1> QED
  BY <1>1, <1>2, <1>3 DEF Reaches

LEMMA ReachesReset ==
  ASSUME NEW c \in Nat, NEW r \in Nat, NEW u \in Nat, r <= u
  PROVE  Reaches(c, r, 0, u)
<1>1. MaxRate * (u - r) \in Nat
  BY LoopAssumption
<1> QED
  BY <1>1 DEF Reaches

LEMMA ReachesIsGrowth ==
  ASSUME NEW c \in Nat, NEW r \in Nat, NEW d \in Nat, NEW t \in Nat,
         Reaches(c, r, d, t), d >= c
  PROVE  d - c \in 0 .. (MaxRate * (t - r))
<1>1. r <= t /\ d <= c + MaxRate * (t - r)
  BY DEF Reaches
<1>2. MaxRate * (t - r) \in Nat
  BY <1>1, LoopAssumption
<1> QED
  BY <1>1, <1>2

\* What reading the counter does.
LEMMA CounterRead ==
  ASSUME LoopTypesOK, ReadCounter
  PROVE  /\ counter' \in Nat /\ settled' = now
         /\ sample' \in SampleKinds /\ sample'.counter = counter' /\ sample'.read = now
         /\ \A c, r \in Nat : Reaches(c, r, counter, settled) => Reaches(c, r, counter', settled')
         /\ UNCHANGED <<back, changes>>
<1>1. now \in Nat /\ counter \in Nat /\ settled \in Nat /\ settled <= now
  BY DEF LoopTypesOK
<1>2. PICK g \in 0 .. MaxRate * (now - settled) : counter' = counter + g
  BY DEF ReadCounter, Growth
<1>3. MaxRate * (now - settled) \in Nat
  BY <1>1, LoopAssumption
<1>4. counter' \in Nat
  BY <1>1, <1>2, <1>3
<1>5. settled' = now /\ sample' = [counter |-> counter', read |-> now] /\ UNCHANGED <<back, changes>>
  BY DEF ReadCounter
<1>6. ASSUME NEW c \in Nat, NEW r \in Nat, Reaches(c, r, counter, settled)
      PROVE  Reaches(c, r, counter', settled')
  BY <1>1, <1>2, <1>5, <1>6, ReachesOn
<1> QED
  BY <1>1, <1>4, <1>5, <1>6 DEF SampleKinds

\* Remainders count up to the next multiple.
LEMMA RemainderStep ==
  ASSUME NEW e \in Nat \ {0}, NEW n \in Nat
  PROVE  /\ n % e \in 0 .. e - 1
         /\ 0 % e = 0
         /\ (n + 1) % e # 0 => (n + 1) % e = (n % e) + 1
<1> DEFINE q == n \div e
           r == n % e
           q1 == (n + 1) \div e
           r1 == (n + 1) % e
<1>1. q \in Int /\ r \in 0 .. e - 1 /\ n = e * q + r
  OBVIOUS
<1>2. q1 \in Int /\ r1 \in 0 .. e - 1 /\ n + 1 = e * q1 + r1
  OBVIOUS
<1>3. 0 % e = 0
  OBVIOUS
<1> HIDE DEF q, r, q1, r1
<1>4. e * (q1 - q) = r + 1 - r1
  BY <1>1, <1>2
<1>5. CASE q1 = q
  BY <1>1, <1>2, <1>4, <1>5, <1>3 DEF r, r1
<1>6. CASE q1 - q >= 1
  <2>1. e * (q1 - q) >= e
    BY <1>1, <1>2, <1>6
  <2>2. r1 = 0
    BY <1>1, <1>2, <1>4, <2>1
  <2> QED
    BY <1>1, <1>3, <2>2 DEF r, r1
<1>7. CASE q - q1 >= 1
  <2>1. e * (q1 - q) <= 0 - e
    BY <1>1, <1>2, <1>7
  <2> QED
    BY <1>1, <1>2, <1>4, <2>1
<1> QED
  BY <1>1, <1>2, <1>5, <1>6, <1>7

LEMMA ExtendedEveryIsNat ==
  ASSUME NEW secs \in Nat
  PROVE  /\ ExtendedEvery(secs) \in Nat \ {0}
         /\ \A k \in Nat : k < ExtendedEvery(secs) => k * Interval < secs \/ k = 0
<1> DEFINE e == secs \div Interval
<1>1. Interval \in Nat \ {0}
  BY LoopAssumption
<1>2. e \in Nat /\ Interval * e <= secs
  BY <1>1
<1>3. ExtendedEvery(secs) = IF e = 0 THEN 1 ELSE e
  BY DEF ExtendedEvery
<1> HIDE DEF e
<1>4. ASSUME NEW k \in Nat, k < ExtendedEvery(secs), k # 0
      PROVE  k * Interval < secs
  <2>1. e # 0 /\ k + 1 <= e
    BY <1>2, <1>3, <1>4
  <2>2. Interval * e >= Interval * (k + 1)
    BY <1>1, <1>2, <2>1
  <2>3. Interval * (k + 1) = k * Interval + Interval
    BY <1>1
  <2> QED
    BY <1>1, <1>2, <2>2, <2>3
<1> QED
  BY <1>2, <1>3, <1>4

\* What an induction over the naturals rests on.
LEMMA LeastNatural ==
  ASSUME NEW T \in SUBSET Nat, T # {}
  PROVE  \E m \in T : \A n \in T : m <= n
<1>1. PICK m \in T : \A n \in T : <<n, m>> \notin OpToRel(<, Nat)
  BY WFMin, NatLessThanWellFounded, Zenon
<1>2. \A n \in T : ~(n < m)
  BY <1>1, Zenon DEF OpToRel
<1> QED
  BY <1>2

\* check pops what is older than the window and stops at what is not.
LEMMA RecentIsSuffix ==
  ASSUME now \in Nat, NEW q \in Seq(Nat)
  PROVE  \E n \in 0 .. Len(q) :
           /\ Recent(q) \in Seq(Nat) /\ Len(Recent(q)) = Len(q) - n
           /\ \A i \in 1 .. Len(q) - n : Recent(q)[i] = q[n + i]
           /\ \A i \in 1 .. n : now - q[i] > Window
<1> DEFINE Stops(n) == n < Len(q) => now - q[n + 1] <= Window
           T == {n \in 0 .. Len(q) : Stops(n)}
           Old(n) == /\ \A i \in 1 .. n : now - q[i] > Window
                     /\ n < Len(q) => now - q[n + 1] <= Window
           old == CHOOSE n \in 0 .. Len(q) : Old(n)
<1>0. Len(q) \in Nat /\ \A i \in 1 .. Len(q) : q[i] \in Nat
  OBVIOUS
<1>1. PICK m \in T : \A n \in T : m <= n
  <2>1. T \in SUBSET Nat /\ Len(q) \in T
    BY <1>0
  <2> QED
    BY <2>1, LeastNatural
<1>2. \A i \in 1 .. m : now - q[i] > Window
  <2> SUFFICES ASSUME NEW i \in 1 .. m PROVE now - q[i] > Window
    OBVIOUS
  <2>1. i - 1 \in 0 .. Len(q) /\ i - 1 < m /\ (i - 1) + 1 = i /\ i - 1 < Len(q)
    BY <1>0, <1>1
  <2>2. i - 1 \notin T
    BY <1>0, <1>1, <2>1
  <2>3. ~(now - q[i] <= Window)
    BY <2>1, <2>2
  <2> QED
    BY <1>0, <2>1, <2>3, LoopAssumption
<1>3. m \in 0 .. Len(q) /\ Old(m)
  BY <1>1, <1>2
<1>4. old \in 0 .. Len(q) /\ Old(old)
  <2> HIDE DEF Old
  <2> QED
    BY <1>3
<1>5. Recent(q) = SubSeq(q, old + 1, Len(q))
  BY DEF Recent
<1> HIDE DEF old
<1>6. /\ Recent(q) \in Seq(Nat) /\ Len(Recent(q)) = Len(q) - old
      /\ \A i \in 1 .. Len(q) - old : Recent(q)[i] = q[old + i]
  BY <1>0, <1>4, <1>5
<1> QED
  BY <1>4, <1>6

LEMMA KeepsPopping ==
  ASSUME now \in Nat, NEW q \in Seq(Nat), NEW c \in Seq(Nat), KeepsNewest(q, c, now)
  PROVE  Recent(q) \in Seq(Nat) /\ KeepsNewest(Recent(q), c, now)
<1> DEFINE k == Len(c) - Len(q)
<1>1. /\ k \in Nat /\ \A i \in 1 .. Len(q) : q[i] = c[k + i]
      /\ \A i \in 1 .. k : now - c[i] > Window
  BY DEF KeepsNewest
<1>2. PICK n \in 0 .. Len(q) :
        /\ Recent(q) \in Seq(Nat) /\ Len(Recent(q)) = Len(q) - n
        /\ \A i \in 1 .. Len(q) - n : Recent(q)[i] = q[n + i]
        /\ \A i \in 1 .. n : now - q[i] > Window
  BY RecentIsSuffix
<1>3. Len(q) \in Nat /\ Len(c) \in Nat /\ n \in Nat /\ n <= Len(q)
  BY <1>2
<1>4. Len(c) - Len(Recent(q)) = k + n
  BY <1>2, <1>3
<1> HIDE DEF k
<1>5. ASSUME NEW i \in 1 .. Len(Recent(q)) PROVE Recent(q)[i] = c[(k + n) + i]
  <2>1. i \in 1 .. Len(q) - n
    BY <1>2
  <2>2. n + i \in 1 .. Len(q) /\ k + (n + i) = (k + n) + i
    BY <1>1, <1>3, <2>1
  <2>3. Recent(q)[i] = q[n + i] /\ q[n + i] = c[k + (n + i)]
    BY <1>1, <1>2, <2>1, <2>2
  <2> QED
    BY <2>2, <2>3
<1>6. ASSUME NEW i \in 1 .. (k + n) PROVE now - c[i] > Window
  <2>1. CASE i <= k
    BY <1>1, <2>1
  <2>2. CASE i > k
    <3>1. i - k \in 1 .. n /\ i - k \in 1 .. Len(q) /\ k + (i - k) = i
      BY <1>1, <1>3, <2>2
    <3>2. q[i - k] = c[k + (i - k)] /\ now - q[i - k] > Window
      BY <1>1, <1>2, <3>1
    <3> QED
      BY <3>1, <3>2
  <2> QED
    BY <1>1, <1>3, <2>1, <2>2
<1>7. k + n \in Nat
  BY <1>1, <1>3
<1> QED
  BY <1>2, <1>4, <1>5, <1>6, <1>7 DEF KeepsNewest

\* What an append does.
LEMMA AppendIs ==
  ASSUME NEW s \in Seq(Nat), NEW t \in Nat
  PROVE  /\ Append(s, t) \in Seq(Nat) /\ Len(s) \in Nat
         /\ Len(Append(s, t)) = Len(s) + 1 /\ DOMAIN Append(s, t) = 1 .. Len(s) + 1
         /\ \A i \in 1 .. Len(s) : Append(s, t)[i] = s[i] /\ s[i] \in Nat
         /\ Append(s, t)[Len(s) + 1] = t
OBVIOUS

LEMMA KeepsAppending ==
  ASSUME NEW t \in Nat, NEW q \in Seq(Nat), NEW c \in Seq(Nat), KeepsNewest(q, c, t)
  PROVE  KeepsNewest(Append(q, t), Append(c, t), t)
<1> DEFINE k == Len(c) - Len(q)
           qq == Append(q, t)
           cc == Append(c, t)
<1>1. /\ k \in Nat /\ \A i \in 1 .. Len(q) : q[i] = c[k + i]
      /\ \A i \in 1 .. k : t - c[i] > Window
  BY DEF KeepsNewest
<1>2. /\ Len(q) \in Nat /\ Len(qq) = Len(q) + 1 /\ qq[Len(q) + 1] = t
      /\ \A i \in 1 .. Len(q) : qq[i] = q[i]
  BY AppendIs
<1>3. /\ Len(c) \in Nat /\ Len(cc) = Len(c) + 1 /\ cc[Len(c) + 1] = t
      /\ \A i \in 1 .. Len(c) : cc[i] = c[i]
  BY AppendIs
<1>4. k \in Nat /\ Len(q) \in Nat /\ Len(c) = k + Len(q)
  BY <1>1, <1>2, <1>3
<1> HIDE DEF k, qq, cc
<1>5. Len(cc) - Len(qq) = k
  BY <1>1, <1>2, <1>3, <1>4
<1>6. ASSUME NEW i \in 1 .. Len(qq) PROVE qq[i] = cc[k + i]
  <2>1. CASE i = Len(q) + 1
    <3>1. k + i = Len(c) + 1
      BY <1>4, <2>1
    <3>2. qq[i] = t
      BY <1>2, <2>1
    <3> QED
      BY <1>3, <3>1, <3>2
  <2>2. CASE i \in 1 .. Len(q)
    <3>1. k + i \in 1 .. Len(c)
      BY <1>4, <2>2
    <3> QED
      BY <1>1, <1>2, <1>3, <2>2, <3>1
  <2>3. Len(qq) = Len(q) + 1
    BY <1>2
  <2>4. i = Len(q) + 1 \/ i \in 1 .. Len(q)
    BY <1>4, <2>3
  <2> QED
    BY <2>1, <2>2, <2>4
<1>7. ASSUME NEW i \in 1 .. k PROVE t - cc[i] > Window
  <2>1. i \in 1 .. Len(c)
    BY <1>1, <1>2, <1>4
  <2> QED
    BY <1>1, <1>3, <2>1
<1> QED
  BY <1>1, <1>5, <1>6, <1>7 DEF KeepsNewest, qq, cc

LEMMA KeepsWaiting ==
  ASSUME NEW t \in Nat, NEW q \in Seq(Nat), NEW c \in Seq(Nat), KeepsNewest(q, c, t)
  PROVE  KeepsNewest(q, c, t + 1)
<1> DEFINE k == Len(c) - Len(q)
<1>1. /\ k \in Nat /\ \A i \in 1 .. Len(q) : q[i] = c[k + i]
      /\ \A i \in 1 .. k : t - c[i] > Window
  BY DEF KeepsNewest
<1>2. ASSUME NEW i \in 1 .. k PROVE (t + 1) - c[i] > Window
  <2>1. i \in 1 .. Len(c)
    BY <1>1
  <2>2. c[i] \in Nat
    BY <2>1
  <2>3. t - c[i] > Window
    BY <1>1
  <2> QED
    BY <2>2, <2>3, LoopAssumption
<1> QED
  BY <1>1, <1>2 DEF KeepsNewest

\* A confirmation that found room in the queue is within the quota.
LEMMA QuotaAppending ==
  ASSUME NEW t \in Nat, NEW q \in Seq(Nat), NEW c \in Seq(Nat),
         KeepsNewest(q, c, t), WithinQuota(c), Len(q) < Times
  PROVE  WithinQuota(Append(c, t))
<1> DEFINE k == Len(c) - Len(q)
           cc == Append(c, t)
<1>1. k \in Nat /\ \A i \in 1 .. k : t - c[i] > Window
  BY DEF KeepsNewest
<1>2. /\ Len(c) \in Nat /\ DOMAIN cc = 1 .. Len(c) + 1 /\ cc[Len(c) + 1] = t
      /\ \A i \in 1 .. Len(c) : cc[i] = c[i] /\ c[i] \in Nat
      /\ DOMAIN c = 1 .. Len(c)
  BY AppendIs
<1>3. Len(q) \in Nat /\ k + Len(q) = Len(c)
  BY <1>2
<1> HIDE DEF k, cc
<1>4. ASSUME NEW i \in 1 .. Len(c)
      PROVE  Cardinality({j \in 1 .. i : cc[i] - cc[j] <= Window}) <= Times
  <2>1. \A j \in 1 .. i : cc[j] = c[j]
    BY <1>2
  <2>2. {j \in 1 .. i : cc[i] - cc[j] <= Window} = {j \in 1 .. i : c[i] - c[j] <= Window}
    BY <1>2, <2>1
  <2>3. Cardinality({j \in 1 .. i : c[i] - c[j] <= Window}) <= Times
    BY <1>2 DEF WithinQuota
  <2> QED
    BY <2>2, <2>3
<1>5. ASSUME NEW i, i = Len(c) + 1
      PROVE  Cardinality({j \in 1 .. i : cc[i] - cc[j] <= Window}) <= Times
  <2> DEFINE S == {j \in 1 .. i : cc[i] - cc[j] <= Window}
  <2>1. ASSUME NEW j \in 1 .. i, j <= k PROVE j \notin S
    <3>1. j \in 1 .. Len(c) /\ j \in 1 .. k
      BY <1>1, <1>2, <1>3, <1>5, <2>1
    <3>2. t - c[j] > Window /\ cc[j] = c[j] /\ cc[i] = t /\ c[j] \in Nat
      BY <1>1, <1>2, <1>5, <3>1
    <3>3. ~(cc[i] - cc[j] <= Window)
      BY <3>2, LoopAssumption
    <3> QED
      BY <3>3
  <2>2. S \subseteq (k + 1) .. i
    <3>1. \A j \in S : j \in 1 .. i /\ ~(j <= k)
      BY <2>1
    <3> HIDE DEF S
    <3> QED
      BY <1>1, <1>2, <1>5, <3>1
  <2>3. IsFiniteSet((k + 1) .. i) /\ Cardinality((k + 1) .. i) = Len(q) + 1
    <3>0. k \in Nat /\ Len(q) \in Nat /\ i = (k + Len(q)) + 1
      BY <1>1, <1>3, <1>5
    <3>1. k + 1 \in Int /\ i \in Int /\ i - (k + 1) + 1 = Len(q) + 1 /\ ~(k + 1 > i)
      BY <3>0
    <3>2. k + 1 \in Int /\ i \in Int
      BY <3>1
    <3>3. /\ IsFiniteSet((k + 1) .. i)
          /\ Cardinality((k + 1) .. i) = IF k + 1 > i THEN 0 ELSE i - (k + 1) + 1
      BY <3>2, FS_Interval
    <3> QED
      BY <3>1, <3>3
  <2> HIDE DEF S
  <2>4. IsFiniteSet(S) /\ Cardinality(S) <= Cardinality((k + 1) .. i)
    BY <2>2, <2>3, FS_Subset
  <2>5. Cardinality(S) \in Nat
    BY <2>4, FS_CardinalityType
  <2>6. Cardinality(S) <= Times
    BY <1>3, <2>3, <2>4, <2>5, LoopAssumption
  <2> QED
    BY <2>6 DEF S
<1>6. \A i \in 1 .. Len(c) + 1 : i = Len(c) + 1 \/ i \in 1 .. Len(c)
  BY <1>2
<1> QED
  BY <1>2, <1>4, <1>5, <1>6 DEF WithinQuota, cc

LEMMA LoopTypesNext == LoopInv /\ [LoopNext]_loopVars => LoopTypesOK'
<1> SUFFICES ASSUME LoopInv, [LoopNext]_loopVars PROVE LoopTypesOK'
  OBVIOUS
<1>0. LoopTypesOK
  BY DEF LoopInv
<1> USE <1>0 DEF LoopTypesOK, Collected
<1>1. CASE Start
  BY <1>1 DEF Start, Goto, host, settings, reading, alerting, published
<1>2. CASE Sample
  <2>1. CASE ReadCounter
    BY <1>2, <2>1, CounterRead DEF Sample, Goto, EndCycle, host, settings, reading, alerting, published
  <2>2. CASE EndCycle /\ UNCHANGED host
    BY <1>2, <2>2 DEF Sample, Goto, EndCycle, host, settings, reading, alerting, published
  <2> QED
    BY <1>2, <2>1, <2>2 DEF Sample
<1>3. CASE Gathered
  BY <1>3 DEF Gathered, Goto, host, settings, reading, alerting, published
<1>4. CASE ExtScript
  BY <1>4 DEF ExtScript, Goto, host, settings, reading, alerting, published
<1>5. CASE StatusScript
  <2>1. CASE ReadCounter
    BY <1>5, <2>1, CounterRead DEF StatusScript, Goto, EndCycle, host, settings, reading, alerting, published
  <2>2. CASE UNCHANGED host /\ (sample' = sample \/ EndCycle)
    BY <1>5, <2>2 DEF StatusScript, Goto, EndCycle, host, settings, reading, alerting, published
  <2> QED
    BY <1>5, <2>1, <2>2 DEF StatusScript, reading
<1>6. CASE ScriptError
  BY <1>6 DEF ScriptError, Goto, EndCycle, host, settings, reading, alerting, published
<1>7. CASE Adapt
  BY <1>7 DEF Adapt, Goto, host, settings, reading, alerting, published, adapt_status, NetworkUpdate, SequenceUpdate, SampleKinds
<1>8. CASE CheckQuota
  BY <1>8 DEF CheckQuota, Goto, host, settings, reading, alerting, published
<1>9. CASE Sent
  BY <1>9 DEF Sent, Goto, host, settings, reading, alerting, published
<1>10. CASE Publish
  BY <1>10 DEF Publish, Goto, EndCycle, host, settings, reading, alerting, published
<1>11. CASE Wake
  BY <1>11 DEF Wake, Goto, host, settings, reading, alerting, published
<1>12. CASE Tick
  BY <1>12 DEF Tick, host, settings, reading, alerting, published
<1>13. CASE Reset
  BY <1>13 DEF Reset, Change, host, settings, reading, alerting, published
<1>14. CASE ClockSetBack
  BY <1>14 DEF ClockSetBack, Change, host, settings, reading, alerting, published
<1>15. CASE SaveSettings
  BY <1>15 DEF SaveSettings, Change, host, settings, reading, alerting, published
<1>16. CASE UNCHANGED loopVars
  BY <1>16 DEF loopVars, host, settings, reading, alerting, published
<1> QED
  BY <1>1, <1>2, <1>3, <1>4, <1>5, <1>6, <1>7, <1>8, <1>9, <1>10, <1>11, <1>12, <1>13, <1>14, <1>15, <1>16
  DEF LoopNext, Loop, Environment

LEMMA CountersNext == LoopInv /\ [LoopNext]_loopVars => CountersOK'
<1> SUFFICES ASSUME LoopInv, [LoopNext]_loopVars PROVE CountersOK'
  OBVIOUS
<1>0. LoopTypesOK /\ CountersOK
  BY DEF LoopInv
<1> USE <1>0 DEF LoopTypesOK, CountersOK, Collected
<1>1. CASE Start
  BY <1>1 DEF Start, Goto, host, settings, reading, alerting, published
<1>2. CASE Sample
  <2>1. CASE ReadCounter /\ pc' \in Collected /\ metrics' = metrics /\ current' = current /\ velocity' = velocity
    <3>1. pc \notin {"alert", "send"}
      BY <1>2 DEF Sample, StatusScript
    <3>2. /\ counter' \in Nat /\ settled' = now
          /\ sample' \in SampleKinds /\ sample'.counter = counter' /\ sample'.read = now
          /\ \A c, r \in Nat : Reaches(c, r, counter, settled) => Reaches(c, r, counter', settled')
      BY <2>1, CounterRead
    <3>3. Reaches(sample'.counter, sample'.read, counter', settled')
      BY <3>2, ReachesSelf
    <3> QED
      BY <2>1, <3>1, <3>2, <3>3
  <2>2. CASE EndCycle /\ UNCHANGED host
    BY <1>2, <2>2 DEF Sample, Goto, EndCycle, host, settings, reading, alerting, published
  <2> QED
    BY <1>2, <2>1, <2>2 DEF Sample, Goto, alerting, published
<1>3. CASE Gathered
  BY <1>3 DEF Gathered, Goto, host, settings, reading, alerting, published
<1>4. CASE ExtScript
  BY <1>4 DEF ExtScript, Goto, host, settings, reading, alerting, published
<1>5. CASE StatusScript
  <2>1. CASE ReadCounter /\ pc' \in Collected /\ metrics' = metrics /\ current' = current /\ velocity' = velocity
    <3>1. pc \notin {"alert", "send"}
      BY <1>5 DEF Sample, StatusScript
    <3>2. /\ counter' \in Nat /\ settled' = now
          /\ sample' \in SampleKinds /\ sample'.counter = counter' /\ sample'.read = now
          /\ \A c, r \in Nat : Reaches(c, r, counter, settled) => Reaches(c, r, counter', settled')
      BY <2>1, CounterRead
    <3>3. Reaches(sample'.counter, sample'.read, counter', settled')
      BY <3>2, ReachesSelf
    <3> QED
      BY <2>1, <3>1, <3>2, <3>3
  <2>2. CASE UNCHANGED host /\ ((sample' = sample /\ pc' \in Collected) \/ EndCycle)
    BY <1>5, <2>2 DEF StatusScript, Goto, EndCycle, host, settings, reading, alerting, published
  <2> QED
    BY <1>5, <2>1, <2>2 DEF StatusScript, Goto, reading, alerting, published
<1>6. CASE ScriptError
  BY <1>6 DEF ScriptError, Goto, EndCycle, host, settings, reading, alerting, published
<1>7. CASE Adapt
  <2>1. /\ sample \in SampleKinds /\ sample' = sample /\ counter' = counter /\ settled' = settled
        /\ pc' = "alert" /\ current' = current
    BY <1>7 DEF Adapt, Goto, host, settings, reading, alerting, published
  <2>2. metrics'.counter = sample.counter /\ metrics'.read = sample.read
    BY <1>7 DEF Adapt, adapt_status
  <2>3. /\ velocity'.net.rx.new = sample.counter /\ velocity'.read.new = sample.read
        /\ velocity'.net.rx.old = velocity.net.rx.new /\ velocity'.read.old = velocity.read.new
    BY <1>7 DEF Adapt, NetworkUpdate, SequenceUpdate
  <2>4. Reaches(sample.counter, sample.read, sample.counter, sample.read)
    BY <2>1, ReachesSelf DEF SampleKinds
  <2> QED
    BY <1>7, <2>1, <2>2, <2>3, <2>4 DEF Adapt
<1>8. CASE CheckQuota
  BY <1>8 DEF CheckQuota, Goto, host, settings, reading, alerting, published
<1>9. CASE Sent
  BY <1>9 DEF Sent, Goto, host, settings, reading, alerting, published
<1>10. CASE Publish
  BY <1>10 DEF Publish, Goto, EndCycle, host, settings, reading, alerting, published
<1>11. CASE Wake
  BY <1>11 DEF Wake, Goto, host, settings, reading, alerting, published
<1>12. CASE Tick
  BY <1>12 DEF Tick, host, settings, reading, alerting, published
<1>13. CASE Reset
  <2>1. /\ counter' = 0 /\ settled' = now /\ settled <= now /\ sample' = sample /\ pc' = pc
        /\ metrics' = metrics /\ current' = current /\ velocity' = velocity
    BY <1>13 DEF Reset, Change, host, settings, reading, alerting, published
  <2>2. ASSUME NEW c \in Nat, NEW r \in Nat, Reaches(c, r, counter, settled)
        PROVE  Reaches(c, r, counter', settled')
    BY <2>1, <2>2, ReachesReset DEF Reaches
  <2> QED
    BY <2>1, <2>2 DEF SampleKinds
<1>14. CASE ClockSetBack
  BY <1>14 DEF ClockSetBack, Change, host, settings, reading, alerting, published
<1>15. CASE SaveSettings
  BY <1>15 DEF SaveSettings, Change, host, settings, reading, alerting, published
<1>16. CASE UNCHANGED loopVars
  BY <1>16 DEF loopVars, host, settings, reading, alerting, published
<1> QED
  BY <1>1, <1>2, <1>3, <1>4, <1>5, <1>6, <1>7, <1>8, <1>9, <1>10, <1>11, <1>12, <1>13, <1>14, <1>15, <1>16
  DEF LoopNext, Loop, Environment

LEMMA SpikeNext == LoopInv /\ [LoopNext]_loopVars => NoSpikeAfterReset'
<1> SUFFICES ASSUME LoopInv, [LoopNext]_loopVars PROVE NoSpikeAfterReset'
  OBVIOUS
<1>0. LoopTypesOK /\ CountersOK /\ NoSpikeAfterReset
  BY DEF LoopInv
<1> USE <1>0
<1>1. CASE Start
  BY <1>1 DEF Start, Goto, host, settings, reading, alerting, published, NoSpikeAfterReset
<1>2. CASE Sample
  BY <1>2 DEF Sample, Goto, EndCycle, host, settings, reading, alerting, published, NoSpikeAfterReset
<1>3. CASE Gathered
  BY <1>3 DEF Gathered, Goto, host, settings, reading, alerting, published, NoSpikeAfterReset
<1>4. CASE ExtScript
  BY <1>4 DEF ExtScript, Goto, host, settings, reading, alerting, published, NoSpikeAfterReset
<1>5. CASE StatusScript
  BY <1>5 DEF StatusScript, Goto, EndCycle, host, settings, reading, alerting, published, NoSpikeAfterReset
<1>6. CASE ScriptError
  BY <1>6 DEF ScriptError, Goto, EndCycle, host, settings, reading, alerting, published, NoSpikeAfterReset
<1>7. CASE Adapt
  <2>1. /\ velocity'.net.rx.new = sample.counter /\ velocity'.read.new = sample.read
        /\ velocity'.net.rx.old = velocity.net.rx.new /\ velocity'.read.old = velocity.read.new
        /\ current' = current /\ sample \in SampleKinds
    BY <1>7 DEF Adapt, NetworkUpdate, SequenceUpdate, LoopTypesOK, Collected
  <2>2. Grown(Speed(velocity'.net.rx, velocity'.net.stamps), velocity'.read)
    <3> DEFINE old == velocity.net.rx.new
               then == velocity.read.new
    <3> SUFFICES ASSUME Speed(velocity'.net.rx, velocity'.net.stamps) # None
                 PROVE  Speed(velocity'.net.rx, velocity'.net.stamps).num
                          \in 0 .. (MaxRate * (sample.read - then))
      BY <2>1 DEF Grown
    <3>1. /\ old # None /\ ~(sample.counter < old)
          /\ Speed(velocity'.net.rx, velocity'.net.stamps).num = sample.counter - old
      BY <2>1 DEF Speed, IsReady, Quotient
    <3>2. old \in Nat /\ then \in Nat /\ Reaches(old, then, sample.counter, sample.read)
      BY <1>7, <3>1 DEF LoopTypesOK, CountersOK, Adapt, Collected
    <3> QED
      BY <2>1, <3>1, <3>2, ReachesIsGrowth DEF SampleKinds
  <2>3. current # None =>
          Grown(metrics'.diskio_rate, [old |-> current.read, new |-> metrics'.read])
    <3> SUFFICES ASSUME current # None, DiskioRate # None
                 PROVE  DiskioRate.num \in 0 .. (MaxRate * (sample.read - current.read))
      BY <1>7 DEF Adapt, adapt_status, Grown
    <3>1. /\ ~(sample.counter < current.counter)
          /\ DiskioRate.num = sample.counter - current.counter
      BY DEF DiskioRate, DiskRate, Quotient
    <3>2. /\ current.counter \in Nat /\ current.read \in Nat
          /\ Reaches(current.counter, current.read, sample.counter, sample.read)
      BY <1>7 DEF LoopTypesOK, CountersOK, Adapt, Collected
    <3> QED
      BY <2>1, <3>1, <3>2, ReachesIsGrowth DEF SampleKinds
  <2> QED
    BY <2>1, <2>2, <2>3 DEF NoSpikeAfterReset
<1>8. CASE CheckQuota
  BY <1>8 DEF CheckQuota, Goto, host, settings, reading, alerting, published, NoSpikeAfterReset
<1>9. CASE Sent
  BY <1>9 DEF Sent, Goto, host, settings, reading, alerting, published, NoSpikeAfterReset
<1>10. CASE Publish
  BY <1>10 DEF Publish, Goto, EndCycle, host, settings, reading, alerting, published, NoSpikeAfterReset
<1>11. CASE Wake
  BY <1>11 DEF Wake, Goto, host, settings, reading, alerting, published, NoSpikeAfterReset
<1>12. CASE Tick
  BY <1>12 DEF Tick, host, settings, reading, alerting, published, NoSpikeAfterReset
<1>13. CASE Reset
  BY <1>13 DEF Reset, Change, host, settings, reading, alerting, published, NoSpikeAfterReset
<1>14. CASE ClockSetBack
  BY <1>14 DEF ClockSetBack, Change, host, settings, reading, alerting, published, NoSpikeAfterReset
<1>15. CASE SaveSettings
  BY <1>15 DEF SaveSettings, Change, host, settings, reading, alerting, published, NoSpikeAfterReset
<1>16. CASE UNCHANGED loopVars
  BY <1>16 DEF loopVars, host, settings, reading, alerting, published, NoSpikeAfterReset
<1> QED
  BY <1>1, <1>2, <1>3, <1>4, <1>5, <1>6, <1>7, <1>8, <1>9, <1>10, <1>11, <1>12, <1>13, <1>14, <1>15, <1>16
  DEF LoopNext, Loop, Environment

LEMMA CarriesNext == LoopInv /\ [LoopNext]_loopVars => CarriesOver'
<1> SUFFICES ASSUME LoopInv, [LoopNext]_loopVars PROVE CarriesOver'
  OBVIOUS
<1>0. LoopTypesOK /\ CarriesOver
  BY DEF LoopInv
<1> USE <1>0
<1>1. CASE Start
  BY <1>1 DEF Start, Goto, host, settings, reading, alerting, published, CarriesOver, LoopTypesOK
<1>2. CASE Sample
  BY <1>2 DEF Sample, Goto, EndCycle, host, settings, reading, alerting, published, CarriesOver
<1>3. CASE Gathered
  BY <1>3 DEF Gathered, Goto, host, settings, reading, alerting, published, CarriesOver
<1>4. CASE ExtScript
  BY <1>4 DEF ExtScript, Goto, host, settings, reading, alerting, published, CarriesOver
<1>5. CASE StatusScript
  BY <1>5 DEF StatusScript, Goto, EndCycle, host, settings, reading, alerting, published, CarriesOver
<1>6. CASE ScriptError
  BY <1>6 DEF ScriptError, Goto, EndCycle, host, settings, reading, alerting, published, CarriesOver
<1>7. CASE Adapt
  <2>1. current' = current /\ cycle' = cycle /\ metrics' = adapt_status
    BY <1>7 DEF Adapt, published
  <2>2. CASE execution.extended
    BY <2>1, <2>2 DEF CarriesOver, adapt_status, Refreshed, RefreshStamp
  <2>3. CASE ~execution.extended
    BY <2>1, <2>3 DEF CarriesOver, adapt_status, Refreshed, RefreshStamp
  <2> QED
    BY <2>2, <2>3
<1>8. CASE CheckQuota
  BY <1>8 DEF CheckQuota, Goto, host, settings, reading, alerting, published, CarriesOver
<1>9. CASE Sent
  BY <1>9 DEF Sent, Goto, host, settings, reading, alerting, published, CarriesOver
<1>10. CASE Publish
  BY <1>10 DEF Publish, Goto, EndCycle, host, settings, reading, alerting, published, CarriesOver
<1>11. CASE Wake
  BY <1>11 DEF Wake, Goto, host, settings, reading, alerting, published, CarriesOver
<1>12. CASE Tick
  BY <1>12 DEF Tick, host, settings, reading, alerting, published, CarriesOver
<1>13. CASE Reset
  BY <1>13 DEF Reset, Change, host, settings, reading, alerting, published, CarriesOver
<1>14. CASE ClockSetBack
  BY <1>14 DEF ClockSetBack, Change, host, settings, reading, alerting, published, CarriesOver
<1>15. CASE SaveSettings
  BY <1>15 DEF SaveSettings, Change, host, settings, reading, alerting, published, CarriesOver
<1>16. CASE UNCHANGED loopVars
  BY <1>16 DEF loopVars, host, settings, reading, alerting, published, CarriesOver
<1> QED
  BY <1>1, <1>2, <1>3, <1>4, <1>5, <1>6, <1>7, <1>8, <1>9, <1>10, <1>11, <1>12, <1>13, <1>14, <1>15, <1>16
  DEF LoopNext, Loop, Environment

LEMMA SkipsNext == LoopInv /\ [LoopNext]_loopVars => SkipsBounded'
<1> SUFFICES ASSUME LoopInv, [LoopNext]_loopVars PROVE SkipsBounded'
  OBVIOUS
<1>0. LoopTypesOK /\ SkipsBounded
  BY DEF LoopInv
<1> USE <1>0
<1>1. CASE Start
  <2> DEFINE e == ExtendedEvery(live.extended_interval_secs)
  <2>1. e \in Nat \ {0}
    BY ExtendedEveryIsNat, LoopAssumption DEF LoopTypesOK
  <2>2. /\ live' = live /\ cycle' = cycle + 1 /\ cycle \in Nat /\ skipped \in Nat
        /\ skipped' = 0 \/ (cycle % e # 0 /\ skipped' = skipped + 1)
    BY <1>1 DEF Start, should_run_extended, is_extended_cycle, settings, LoopTypesOK
  <2>3. cycle' # 0 /\ cycle' - 1 = cycle /\ ExtendedEvery(live'.extended_interval_secs) = e
    BY <2>2
  <2> HIDE DEF e
  <2>4. skipped' <= cycle % e
    <3>1. CASE skipped' = 0
      BY <2>1, <2>2, <3>1, RemainderStep
    <3>2. CASE skipped' # 0
      <4>1. cycle % e # 0 /\ skipped' = skipped + 1
        BY <2>2, <3>2
      <4>2. cycle # 0
        BY <2>1, <4>1, RemainderStep
      <4>3. skipped <= (cycle - 1) % e
        BY <4>2 DEF SkipsBounded, e
      <4>4. cycle - 1 \in Nat /\ (cycle - 1) + 1 = cycle
        BY <2>2, <4>2
      <4>5. cycle % e = ((cycle - 1) % e) + 1 /\ (cycle - 1) % e \in 0 .. e - 1
        BY <2>1, <4>1, <4>4, RemainderStep
      <4> QED
        BY <2>1, <2>2, <4>1, <4>3, <4>5
    <3> QED
      BY <3>1, <3>2
  <2> QED
    BY <2>3, <2>4 DEF SkipsBounded
<1>2. CASE Sample
  BY <1>2 DEF Sample, Goto, EndCycle, host, settings, reading, alerting, published, SkipsBounded
<1>3. CASE Gathered
  BY <1>3 DEF Gathered, Goto, host, settings, reading, alerting, published, SkipsBounded
<1>4. CASE ExtScript
  BY <1>4 DEF ExtScript, Goto, host, settings, reading, alerting, published, SkipsBounded
<1>5. CASE StatusScript
  BY <1>5 DEF StatusScript, Goto, EndCycle, host, settings, reading, alerting, published, SkipsBounded
<1>6. CASE ScriptError
  BY <1>6 DEF ScriptError, Goto, EndCycle, host, settings, reading, alerting, published, SkipsBounded
<1>7. CASE Adapt
  BY <1>7 DEF Adapt, Goto, host, settings, reading, alerting, published, SkipsBounded
<1>8. CASE CheckQuota
  BY <1>8 DEF CheckQuota, Goto, host, settings, reading, alerting, published, SkipsBounded
<1>9. CASE Sent
  BY <1>9 DEF Sent, Goto, host, settings, reading, alerting, published, SkipsBounded
<1>10. CASE Publish
  BY <1>10 DEF Publish, Goto, EndCycle, host, settings, reading, alerting, published, SkipsBounded
<1>11. CASE Wake
  BY <1>11 DEF Wake, Goto, host, settings, reading, alerting, published, SkipsBounded
<1>12. CASE Tick
  BY <1>12 DEF Tick, host, settings, reading, alerting, published, SkipsBounded
<1>13. CASE Reset
  BY <1>13 DEF Reset, Change, host, settings, reading, alerting, published, SkipsBounded
<1>14. CASE ClockSetBack
  BY <1>14 DEF ClockSetBack, Change, host, settings, reading, alerting, published, SkipsBounded
<1>15. CASE SaveSettings
  <2>1. skipped' = 0 /\ cycle' = cycle /\ cycle \in Nat /\ live' \in LiveChoices
    BY <1>15 DEF SaveSettings, LoopTypesOK
  <2>2. ExtendedEvery(live'.extended_interval_secs) \in Nat \ {0}
    BY <2>1, ExtendedEveryIsNat, LoopAssumption
  <2>3. cycle # 0 => cycle - 1 \in Nat
    BY <2>1
  <2>4. cycle # 0 => (cycle - 1) % ExtendedEvery(live'.extended_interval_secs) >= 0
    BY <2>2, <2>3, RemainderStep
  <2> QED
    BY <2>1, <2>4 DEF SkipsBounded
<1>16. CASE UNCHANGED loopVars
  BY <1>16 DEF loopVars, host, settings, reading, alerting, published, SkipsBounded
<1> QED
  BY <1>1, <1>2, <1>3, <1>4, <1>5, <1>6, <1>7, <1>8, <1>9, <1>10, <1>11, <1>12, <1>13, <1>14, <1>15, <1>16
  DEF LoopNext, Loop, Environment

LEMMA QuotaNext == QuotaInv /\ [LoopNext]_loopVars => QuotaInv'
<1> SUFFICES ASSUME QuotaInv, [LoopNext]_loopVars PROVE QuotaInv'
  OBVIOUS
<1>0. /\ now \in Nat
      /\ records \in [PushNames -> Seq(Nat)] /\ confirmed \in [PushNames -> Seq(Nat)]
      /\ \A p \in PushNames : KeepsNewest(records[p], confirmed[p], now) /\ WithinQuota(confirmed[p])
      /\ pc = "send" /\ Head(todo) \in PushNames => Len(records[Head(todo)]) < Times
  BY DEF QuotaInv
<1> USE <1>0
<1>1. CASE Start
  BY <1>1 DEF Start, Goto, host, settings, reading, alerting, published, QuotaInv
<1>2. CASE Sample
  BY <1>2 DEF Sample, Goto, EndCycle, host, settings, reading, alerting, published, QuotaInv
<1>3. CASE Gathered
  BY <1>3 DEF Gathered, Goto, host, settings, reading, alerting, published, QuotaInv
<1>4. CASE ExtScript
  BY <1>4 DEF ExtScript, Goto, host, settings, reading, alerting, published, QuotaInv
<1>5. CASE StatusScript
  BY <1>5 DEF StatusScript, Goto, EndCycle, host, settings, reading, alerting, published, QuotaInv
<1>6. CASE ScriptError
  BY <1>6 DEF ScriptError, Goto, EndCycle, host, settings, reading, alerting, published, QuotaInv
<1>7. CASE Adapt
  BY <1>7 DEF Adapt, Goto, host, settings, reading, alerting, published, QuotaInv
<1>8. CASE CheckQuota
  <2> DEFINE h == Head(todo)
  <2>1. /\ records' = [records EXCEPT ![h] = Recent(records[h])]
        /\ confirmed' = confirmed /\ now' = now
        /\ pc' = "send" => Len(Recent(records[h])) < Times /\ todo' = todo
    BY <1>8 DEF CheckQuota, Goto, Allowed
  <2>2. CASE h \notin PushNames
    <3>1. records' = records
      BY <2>1, <2>2
    <3>2. pc' = "send" => Head(todo') \notin PushNames
      BY <2>1, <2>2
    <3> QED
      BY <2>1, <3>1, <3>2 DEF QuotaInv
  <2>3. CASE h \in PushNames
    <3>1. records[h] \in Seq(Nat) /\ confirmed[h] \in Seq(Nat) /\ KeepsNewest(records[h], confirmed[h], now)
      BY <2>3
    <3>2. Recent(records[h]) \in Seq(Nat) /\ KeepsNewest(Recent(records[h]), confirmed[h], now)
      BY <3>1, KeepsPopping
    <3> HIDE DEF h
    <3>3. records'[h] = Recent(records[h]) /\ \A p \in PushNames \ {h} : records'[p] = records[p]
      BY <2>1, <2>3
    <3>4. records' \in [PushNames -> Seq(Nat)]
      BY <2>1, <2>3, <3>2
    <3>5. \A p \in PushNames : KeepsNewest(records'[p], confirmed[p], now)
      BY <2>3, <3>2, <3>3
    <3>6. pc' = "send" => Len(records'[Head(todo')]) < Times
      BY <2>1, <3>3 DEF h
    <3> QED
      BY <2>1, <3>4, <3>5, <3>6 DEF QuotaInv
  <2> QED
    BY <2>2, <2>3
<1>9. CASE Sent
  <2> DEFINE h == Head(todo)
  <2>1. now' = now /\ pc = "send" /\ pc' = "alert"
    BY <1>9 DEF Sent, Goto
  <2>2. CASE UNCHANGED <<records, confirmed>>
    BY <2>1, <2>2 DEF QuotaInv
  <2>3. CASE /\ records' = [records EXCEPT ![h] = Append(records[h], now)]
             /\ confirmed' = [confirmed EXCEPT ![h] = Append(confirmed[h], now)]
    <3>1. CASE h \notin PushNames
      <4>1. UNCHANGED <<records, confirmed>>
        BY <2>3, <3>1
      <4> QED
        BY <2>2, <4>1
    <3>2. CASE h \in PushNames
      <4>1. /\ records[h] \in Seq(Nat) /\ confirmed[h] \in Seq(Nat)
            /\ KeepsNewest(records[h], confirmed[h], now) /\ WithinQuota(confirmed[h])
            /\ Len(records[h]) < Times
        BY <2>1, <3>2
      <4> HIDE DEF h
      <4>2. /\ records'[h] = Append(records[h], now) /\ confirmed'[h] = Append(confirmed[h], now)
            /\ \A p \in PushNames \ {h} : records'[p] = records[p] /\ confirmed'[p] = confirmed[p]
        BY <2>3, <3>2
      <4>3. KeepsNewest(records'[h], confirmed'[h], now)
        BY <4>1, <4>2, KeepsAppending
      <4>4. WithinQuota(confirmed'[h])
        BY <4>1, <4>2, QuotaAppending
      <4>5. Append(records[h], now) \in Seq(Nat) /\ Append(confirmed[h], now) \in Seq(Nat)
        BY <4>1, AppendIs
      <4>6. records' \in [PushNames -> Seq(Nat)] /\ confirmed' \in [PushNames -> Seq(Nat)]
        BY <2>3, <4>5
      <4>7. \A p \in PushNames :
              KeepsNewest(records'[p], confirmed'[p], now) /\ WithinQuota(confirmed'[p])
        BY <4>2, <4>3, <4>4
      <4> QED
        BY <2>1, <4>6, <4>7 DEF QuotaInv
    <3> QED
      BY <3>1, <3>2
  <2> QED
    BY <1>9, <2>2, <2>3 DEF Sent
<1>10. CASE Publish
  BY <1>10 DEF Publish, Goto, EndCycle, host, settings, reading, alerting, published, QuotaInv
<1>11. CASE Wake
  BY <1>11 DEF Wake, Goto, host, settings, reading, alerting, published, QuotaInv
<1>12. CASE Tick
  <2>1. /\ now' = now + 1 /\ records' = records /\ confirmed' = confirmed
        /\ pc' = pc /\ todo' = todo
    BY <1>12 DEF Tick, alerting
  <2>2. \A p \in PushNames : KeepsNewest(records[p], confirmed[p], now + 1)
    BY KeepsWaiting
  <2>3. now + 1 \in Nat
    OBVIOUS
  <2> QED
    BY <2>1, <2>2, <2>3 DEF QuotaInv
<1>13. CASE Reset
  BY <1>13 DEF Reset, Change, host, settings, reading, alerting, published, QuotaInv
<1>14. CASE ClockSetBack
  BY <1>14 DEF ClockSetBack, Change, host, settings, reading, alerting, published, QuotaInv
<1>15. CASE SaveSettings
  BY <1>15 DEF SaveSettings, Change, host, settings, reading, alerting, published, QuotaInv
<1>16. CASE UNCHANGED loopVars
  BY <1>16 DEF loopVars, host, settings, reading, alerting, published, QuotaInv
<1> QED
  BY <1>1, <1>2, <1>3, <1>4, <1>5, <1>6, <1>7, <1>8, <1>9, <1>10, <1>11, <1>12, <1>13, <1>14, <1>15, <1>16
  DEF LoopNext, Loop, Environment


LEMMA LoopStarts == LoopInit => LoopInv /\ QuotaInv
<1> SUFFICES ASSUME LoopInit PROVE LoopInv /\ QuotaInv
  OBVIOUS
<1>1. LoopTypesOK /\ CarriesOver /\ SkipsBounded
  BY DEF LoopInit, LoopTypesOK, CarriesOver, SkipsBounded, Collected, EmptyNetwork, EmptySequence
<1>2. CountersOK
  BY DEF LoopInit, CountersOK, Collected, EmptyNetwork, EmptySequence
<1>3. NoSpikeAfterReset
  BY DEF LoopInit, NoSpikeAfterReset, Grown, Speed, IsReady, EmptyNetwork, EmptySequence
<1>4. QuotaInv
  <2>1. ASSUME NEW p \in PushNames
        PROVE  KeepsNewest(records[p], confirmed[p], now) /\ WithinQuota(confirmed[p])
    <3>1. records[p] = <<>> /\ confirmed[p] = <<>>
      BY DEF LoopInit
    <3> QED
      BY <3>1 DEF KeepsNewest, WithinQuota
  <2> QED
    BY <2>1 DEF LoopInit, QuotaInv
<1> QED
  BY <1>1, <1>2, <1>3, <1>4 DEF LoopInv

LEMMA LoopSteps == LoopInv /\ [LoopNext]_loopVars => LoopInv'
  BY LoopTypesNext, CountersNext, SpikeNext, CarriesNext, SkipsNext DEF LoopInv

THEOREM LoopInvariant == LoopSpec => []LoopInv
<1>1. LoopInit => LoopInv
  BY LoopStarts
<1> QED
  BY <1>1, LoopSteps, PTL DEF LoopSpec

\* No rate counts more than the counter can have grown between its two
\* readings (NetworkTimeSeries::speed, compute_diskio_rate).
THEOREM RatesHaveNoSpikes == LoopSpec => []NoSpikeAfterReset
<1>1. LoopInv => NoSpikeAfterReset
  BY DEF LoopInv
<1> QED
  BY <1>1, LoopInvariant, PTL

\* A push is confirmed at most Times times in any window
\* (PushRateLimiter::check and record).
THEOREM QuotaIsKept == LoopSpec => []QuotaHolds
<1>1. LoopInit => QuotaInv
  BY LoopStarts
<1>2. QuotaInv => QuotaHolds
  BY DEF QuotaInv, QuotaHolds, WithinQuota
<1> QED
  BY <1>1, <1>2, QuotaNext, PTL DEF LoopSpec

\* Unpaused, the extended data is never skipped for its whole interval, and
\* it changes with its stamp (should_run_extended, adapt_status).
THEOREM ExtendedDataIsFresh == LoopSpec => ExtendedIsFresh
<1> DEFINE Skips == skipped * Interval < live.extended_interval_secs \/ skipped = 0
           Carried == current # None /\ current' # current =>
             \/ /\ current'.disk_smart = cycle
                /\ current'.extended_updated_at = current'.timestamp
             \/ /\ current'.disk_smart = current.disk_smart
                /\ current'.extended_updated_at = current.extended_updated_at
<1>1. LoopInv => Skips
  <2> SUFFICES ASSUME LoopInv PROVE Skips
    OBVIOUS
  <2> DEFINE e == ExtendedEvery(live.extended_interval_secs)
  <2>1. live.extended_interval_secs \in Nat /\ cycle \in Nat /\ skipped \in Nat
    BY LoopAssumption DEF LoopInv, LoopTypesOK
  <2>2. e \in Nat \ {0} /\ \A k \in Nat : k < e => k * Interval < live.extended_interval_secs \/ k = 0
    BY <2>1, ExtendedEveryIsNat
  <2>3. cycle = 0 => skipped = 0
    BY DEF LoopInv, SkipsBounded
  <2>4. cycle # 0 => skipped <= (cycle - 1) % e
    BY DEF LoopInv, SkipsBounded
  <2> HIDE DEF e
  <2>5. cycle # 0 => cycle - 1 \in Nat /\ (cycle - 1) % e \in 0 .. e - 1
    BY <2>1, <2>2, RemainderStep
  <2>6. cycle # 0 => skipped < e
    BY <2>1, <2>2, <2>4, <2>5
  <2> QED
    BY <2>1, <2>2, <2>3, <2>6
<1>2. LoopInv /\ [LoopNext]_loopVars => [Carried]_current
  <2> SUFFICES ASSUME LoopInv, [LoopNext]_loopVars, current' # current PROVE Carried
    OBVIOUS
  <2>1. Publish
    BY DEF LoopNext, Loop, Environment, loopVars, host, settings, reading, alerting, published,
           Start, Sample, Gathered, ExtScript, StatusScript, ScriptError, Adapt, CheckQuota,
           Sent, Wake, Tick, Reset, ClockSetBack, SaveSettings
  <2>2. current' = metrics /\ cycle' = cycle
    BY <2>1 DEF Publish
  <2> QED
    BY <2>1, <2>2 DEF LoopInv, CarriesOver, Publish
<1>3. LoopSpec => []Skips /\ [][Carried]_current
  <2> HIDE DEF Skips, Carried
  <2> QED
    BY <1>1, <1>2, LoopInvariant, PTL DEF LoopSpec
<1> QED
  BY <1>3 DEF ExtendedIsFresh

----------------------------------------------------------------------------
(* Rules *)

(* What the rules may be, and the readings. *)
RulesTypeOK ==
  /\ saved \in RuleLists \cup {{}} /\ rules \in RuleLists \cup {{}}
  /\ readings \in Readings

\* What a unit of the help adds to a number.
Scale(letter) ==
  CASE letter = "k" -> KILO
    [] letter = "m" -> KILO * KILO
    [] letter = "g" -> KILO * KILO * KILO
    [] letter = "t" -> KILO * KILO * KILO * KILO
    [] OTHER -> 1

LEMMA ScalesAreNat ==
  /\ KILO \in Nat /\ KILO * KILO \in Nat /\ KILO * KILO * KILO \in Nat
  /\ KILO * KILO * KILO * KILO \in Nat
<1>1. KILO \in Nat
  BY RulesAssumption
<1>2. KILO * KILO \in Nat
  BY <1>1
<1>3. KILO * KILO * KILO \in Nat
  BY <1>1, <1>2
<1>4. KILO * KILO * KILO * KILO \in Nat
  BY <1>1, <1>3
<1> QED
  BY <1>1, <1>2, <1>3, <1>4

LEMMA SuffixIndices ==
  /\ DOMAIN SUFFIXES = 1 .. 5
  /\ SUFFIXES[1] = "b" /\ SUFFIXES[2] = "k" /\ SUFFIXES[3] = "m" /\ SUFFIXES[4] = "g" /\ SUFFIXES[5] = "t"
  /\ ToSet(SUFFIXES) = {"b", "k", "m", "g", "t"}
  /\ \A i, j \in 1 .. 5 : SUFFIXES[i] = SUFFIXES[j] => i = j
<1>1. DOMAIN SUFFIXES = 1 .. 5
  BY DEF SUFFIXES
<1>2. /\ SUFFIXES[1] = "b" /\ SUFFIXES[2] = "k" /\ SUFFIXES[3] = "m"
      /\ SUFFIXES[4] = "g" /\ SUFFIXES[5] = "t"
  BY DEF SUFFIXES
<1>3. \A i \in 1 .. 5 : i = 1 \/ i = 2 \/ i = 3 \/ i = 4 \/ i = 5
  OBVIOUS
<1>4. ToSet(SUFFIXES) = {"b", "k", "m", "g", "t"}
  BY <1>1, <1>2, <1>3 DEF ToSet
<1>5. \A i, j \in 1 .. 5 : SUFFIXES[i] = SUFFIXES[j] => i = j
  BY <1>2, <1>3
<1> QED
  BY <1>1, <1>2, <1>4, <1>5

(* A unit of one character, and what the parser sees in it. *)
LEMMA OneLetter ==
  ASSUME NEW t \in Thresholds, Len(t.unit) = 1, NEW letter
  PROVE  /\ Has(t, letter) <=> t.unit[1].letter = letter
         /\ Ends(t, letter) <=> ~t.per_second /\ t.unit[1].letter = letter
         /\ ToSet(Letters(t)) = {t.unit[1].letter}
<1>1. DOMAIN t.unit = {1}
  BY DEF Thresholds
<1>2. Letters(t) = [i \in {1} |-> t.unit[i].letter]
  BY <1>1 DEF Letters
<1>3. DOMAIN Letters(t) = {1} /\ Letters(t)[1] = t.unit[1].letter
  BY <1>2
<1>4. ToSet(Letters(t)) = {t.unit[1].letter}
  BY <1>3 DEF ToSet
<1>5. Len(Letters(t)) = 1
  <2>1. Letters(t) = [i \in 1 .. 1 |-> t.unit[i].letter]
    BY <1>2
  <2> QED
    BY <2>1
<1>6. Last(Letters(t)) = t.unit[1].letter
  BY <1>3, <1>5 DEF Last
<1>7. t.unit # <<>>
  OBVIOUS
<1> QED
  BY <1>4, <1>6, <1>7 DEF Has, Ends

(* The sizes that the help shows are read with the scale of their letter. *)
LEMMA SizesAreRead ==
  ASSUME NEW t \in Thresholds, Len(t.unit) = 1, t.unit[1].letter \in ToSet(SUFFIXES)
  PROVE  SizeOf(t) = t.number * Scale(t.unit[1].letter) /\ SizeOf(t) \in Nat
<1> DEFINE letter == t.unit[1].letter
           found == {i \in DOMAIN SUFFIXES : Has(t, SUFFIXES[i])}
           nth == CHOOSE i \in found : \A j \in found : i <= j
<1>1. PICK n \in 1 .. 5 : letter = SUFFIXES[n]
  BY SuffixIndices DEF ToSet
<1>2. found = {n}
  <2>1. \A i \in 1 .. 5 : Has(t, SUFFIXES[i]) <=> letter = SUFFIXES[i]
    BY OneLetter
  <2> QED
    BY <1>1, <2>1, SuffixIndices
<1>3. nth = n
  BY <1>2
<1>4. ToSet(Letters(t)) = {SUFFIXES[n]}
  BY <1>1, OneLetter
<1>5. SizeOf(t) = t.number * SCALES[n]
  BY <1>2, <1>3, <1>4 DEF SizeOf
<1>6. SCALES[n] = Scale(letter) /\ SCALES[n] \in Nat
  <2>1. n = 1 \/ n = 2 \/ n = 3 \/ n = 4 \/ n = 5
    OBVIOUS
  <2> QED
    BY <1>1, <2>1, SuffixIndices, ScalesAreNat DEF SCALES, Scale
<1>7. t.number \in Nat
  BY DEF Thresholds
<1> QED
  BY <1>5, <1>6, <1>7

(* A threshold of the help's forms, read: its kind, and that comparing with *)
(* it is what it says.                                                      *)
LEMMA HelpedIsRead ==
  ASSUME NEW t \in Thresholds, Helped(t)
  PROVE  /\ Parses(t)
         /\ ThresholdTypeOf(t) \in {"Speed", "Size"} <=> t.unit[1].letter \in ToSet(SUFFIXES)
         /\ ThresholdTypeOf(t) \in {"Percent", "Temperature"} <=> t.unit[1].letter \notin ToSet(SUFFIXES)
         /\ \A x \in Nat : is_true(t, x) <=> Says(t, x)
<1> DEFINE letter == t.unit[1].letter
           bound == t.number * Scale(letter)
           asWritten ==
             /\ IF letter \in ToSet(SUFFIXES) THEN ThresholdTypeOf(t) \in {"Speed", "Size"}
                ELSE ThresholdTypeOf(t) \in {"Percent", "Temperature"}
             /\ ValueOf(t) = bound /\ ValueOf(t) \in Nat
<1>1. /\ t.op \in {"<", "<=", "=", ">=", ">"} /\ Len(t.unit) = 1
      /\ letter \in ToSet(SUFFIXES) \/ (letter \in {"%", "c"} /\ ~t.per_second)
      /\ t.number \in Nat /\ t.per_second \in BOOLEAN
  BY DEF Helped, Thresholds
<1>2. OperatorIsRead(t.op)
  <2>1. t.op \in {"<", "<=", "=", ">=", ">"}
    BY <1>1
  <2> QED
    BY <2>1 DEF OperatorIsRead
<1>3. ASSUME letter \in ToSet(SUFFIXES) PROVE asWritten
  <2>1. letter # "%" /\ ~Has(t, "%")
    BY <1>1, <1>3, OneLetter, SuffixIndices
  <2>2. PICK n \in DOMAIN SUFFIXES : letter = SUFFIXES[n]
    BY <1>3 DEF ToSet
  <2>3. ~t.per_second => Ends(t, SUFFIXES[n])
    BY <1>1, <2>2, OneLetter
  <2>4. ThresholdTypeOf(t) \in {"Speed", "Size"}
    <3>1. CASE t.per_second
      BY <2>1, <3>1 DEF ThresholdTypeOf
    <3>2. CASE ~t.per_second
      BY <2>1, <2>3, <3>2 DEF ThresholdTypeOf
    <3> QED
      BY <3>1, <3>2
  <2>5. ValueOf(t) = bound /\ ValueOf(t) \in Nat
    <3>1. SizeOf(t) = bound /\ SizeOf(t) \in Nat
      BY <1>1, <1>3, SizesAreRead
    <3> HIDE DEF bound
    <3> QED
      BY <1>2, <2>4, <3>1 DEF ValueOf
  <2> QED
    BY <1>3, <2>4, <2>5
<1>4. ASSUME letter \in {"%", "c"}, ~t.per_second PROVE asWritten
  <2>1. letter \notin ToSet(SUFFIXES) /\ Scale(letter) = 1
    BY <1>4, SuffixIndices DEF Scale
  <2>2. /\ Has(t, "%") <=> letter = "%"
        /\ Ends(t, "c") <=> letter = "c"
    BY <1>1, <1>4, OneLetter
  <2>3. \A i \in DOMAIN SUFFIXES : ~Ends(t, SUFFIXES[i])
    <3>1. \A i \in DOMAIN SUFFIXES : letter # SUFFIXES[i]
      BY <2>1 DEF ToSet
    <3> QED
      BY <1>1, <3>1, OneLetter
  <2>4. ThresholdTypeOf(t) \in {"Percent", "Temperature"}
    BY <1>4, <2>2, <2>3 DEF ThresholdTypeOf
  <2>5. ValueOf(t) = bound /\ ValueOf(t) \in Nat
    <3>1. ThresholdTypeOf(t) \notin {"Speed", "Size"}
      BY <2>4
    <3>3. ValueOf(t) = t.number
      BY <1>2, <1>1, <1>4, <3>1 DEF ValueOf
    <3>4. bound = t.number
      <4>1. t.number \in Nat /\ bound = t.number * 1
        BY <1>1, <2>1
      <4> QED
        BY <4>1
    <3> HIDE DEF bound
    <3> QED
      BY <1>1, <3>3, <3>4
  <2> QED
    BY <2>1, <2>4, <2>5
<1> HIDE DEF asWritten
<1>5. asWritten
  BY <1>1, <1>3, <1>4
<1> USE DEF asWritten
<1>6. Parses(t) /\ ValueOf(t) = bound /\ bound \in Nat
  <2> HIDE DEF bound
  <2>1. ValueOf(t) = bound /\ bound \in Nat /\ ThresholdTypeOf(t) # "invalid"
    BY <1>5
  <2> QED
    BY <2>1, RulesAssumption DEF Parses
<1>7. \A x : Says(t, x) <=> \/ t.op \in {"<", "<="} /\ x < bound
                            \/ t.op \in {">", ">="} /\ x > bound
                            \/ t.op \in {"<=", "=", ">="} /\ x = bound
  BY DEF Says, Scale
<1>8. ASSUME NEW x \in Nat PROVE is_true(t, x) <=> Says(t, x)
  <2> DEFINE op == t.op
  <2>1. op \in {"<", "<=", "=", ">=", ">"}
    BY <1>1
  <2>2. Says(t, x) <=> \/ op \in {"<", "<="} /\ x < bound
                       \/ op \in {">", ">="} /\ x > bound
                       \/ op \in {"<=", "=", ">="} /\ x = bound
    BY <1>7
  <2>3. CompareTypeOf(op) = IF op = "<" THEN "Less" ELSE IF op = "<=" THEN "LessOrEqual"
                            ELSE IF op = "=" THEN "Equal" ELSE IF op = ">=" THEN "GreaterOrEqual"
                            ELSE "Greater"
    BY <2>1 DEF CompareTypeOf
  <2> HIDE DEF bound
  <2>4. is_true(t, x) <=>
          IF op = "<" THEN x < bound ELSE IF op = "<=" THEN x <= bound
          ELSE IF op = "=" THEN x = bound ELSE IF op = ">=" THEN x >= bound
          ELSE x > bound
    BY <1>6, <2>3 DEF is_true
  <2> QED
    BY <1>6, <2>1, <2>2, <2>4
<1>9. \A x \in {"Percent", "Temperature"} : x \notin {"Speed", "Size"}
  OBVIOUS
<1> QED
  BY <1>5, <1>6, <1>8, <1>9

LEMMA SharesAreJudged ==
  ASSUME NEW t \in Thresholds, Helped(t), NEW x \in Nat
  PROVE  /\ t.unit[1].letter \notin ToSet(SUFFIXES) => (should_trigger_alert(t, x) <=> Says(t, x))
         /\ t.unit[1].letter \in ToSet(SUFFIXES) => (should_trigger_speed_alert(t, x) <=> Says(t, x))
  BY HelpedIsRead DEF should_trigger_alert, should_trigger_speed_alert, should_trigger

LEMMA ReadingsAreTyped ==
  ASSUME RulesTypeOK
  PROVE  /\ readings.cpu \in Nat /\ readings.disk \in Nat
         /\ \A i \in DOMAIN readings.cores : readings.cores[i] \in Nat \cup {NoReading}
         /\ readings.memory \in 0 .. 100 /\ readings.swap \in 0 .. 100
         /\ {readings.rx, readings.tx, readings.temperature} \subseteq Nat \cup {NoReading}
<1>1. readings \in [cpu : Nat, cores : Seq(Optional), memory : 0 .. 100, swap : 0 .. 100,
                   disk : Nat, rx : Optional, tx : Optional, temperature : Optional]
  BY RulesAssumption DEF RulesTypeOK
<1>2. readings.cores \in Seq(Optional)
  BY <1>1
<1>3. \A i \in DOMAIN readings.cores : readings.cores[i] \in Optional
  BY <1>2
<1> QED
  BY <1>1, <1>3 DEF Optional

(* A rule of a helped form is judged as its threshold says, type by type. *)
LEMMA RuleIsJudged ==
  ASSUME RulesTypeOK, NEW r \in rules, Helped(r.threshold),
         r.type = "network" <=> r.threshold.unit[1].letter \in ToSet(SUFFIXES),
         r.type = "network" => NoReading \notin Judged(r)
  PROVE  check_enhanced_rule(r) <=> \E x \in Judged(r) \ {NoReading} : Says(r.threshold, x)
<1> DEFINE t == r.threshold
<1>1. t \in Thresholds /\ r.core \in Nat
  <2>1. r \in [type : STRING, matcher : STRING, core : Nat, threshold : Thresholds]
    BY RulesAssumption DEF RulesTypeOK
  <2> QED
    BY <2>1
<1>2. NoReading \notin Nat
  BY RulesAssumption
<1>3. \A x \in Nat :
        /\ r.type # "network" => (should_trigger_alert(t, x) <=> Says(t, x))
        /\ r.type = "network" => (should_trigger_speed_alert(t, x) <=> Says(t, x))
  BY <1>1, SharesAreJudged
<1> HIDE DEF t
<1>4. CASE r.type = "cpu"
  <2>1. check_enhanced_rule(r) <=> check_cpu_rule(r)
    BY <1>4 DEF check_enhanced_rule
  <2>2. CASE r.matcher = "cpuN"
    <3>1. Judged(r) = {readings.cores[i] : i \in {r.core + 1} \cap DOMAIN readings.cores}
      BY <1>4, <2>2 DEF Judged
    <3>2. check_cpu_rule(r) <=>
            /\ r.core + 1 \in DOMAIN readings.cores /\ readings.cores[r.core + 1] # NoReading
            /\ should_trigger_alert(t, readings.cores[r.core + 1])
      BY <2>2 DEF check_cpu_rule, t
    <3>3. r.core + 1 \in DOMAIN readings.cores /\ readings.cores[r.core + 1] # NoReading =>
            (should_trigger_alert(t, readings.cores[r.core + 1]) <=> Says(t, readings.cores[r.core + 1]))
      BY <1>3, <1>4, ReadingsAreTyped
    <3> QED
      BY <2>1, <3>1, <3>2, <3>3 DEF t
  <2>3. CASE r.matcher # "cpuN"
    <3>1. Judged(r) = {x \in {readings.cpu} : r.matcher \in {"cpu", ""}}
      BY <1>4, <2>3 DEF Judged
    <3>2. check_cpu_rule(r) <=> r.matcher \in {"cpu", ""} /\ should_trigger_alert(t, readings.cpu)
      BY <2>3 DEF check_cpu_rule, t
    <3> QED
      BY <1>2, <1>3, <1>4, <2>1, <3>1, <3>2, ReadingsAreTyped DEF t
  <2> QED
    BY <2>2, <2>3
<1>5. CASE r.type \in {"memory", "swap"}
  <2> DEFINE used == readings[r.type]
  <2>1. used \in Nat /\ 100 - used \in Nat
    <3>1. used \in 0 .. 100
      BY <1>5, ReadingsAreTyped
    <3> QED
      BY <3>1
  <2>2. check_enhanced_rule(r) <=> check_share_rule(r, used)
    BY <1>5 DEF check_enhanced_rule
  <2> HIDE DEF used
  <2>3. Judged(r) = IF CountsFree(r) THEN {100 - used}
                    ELSE {x \in {used} : r.matcher \in {"used", r.type, ""}}
    BY <1>5 DEF Judged, used
  <2>4. CountsFree(r) => r.matcher \notin {"used", r.type, ""}
    BY <1>5 DEF CountsFree
  <2>5. check_share_rule(r, used) <=>
          IF CountsFree(r) THEN should_trigger_alert(t, 100 - used)
          ELSE r.matcher \in {"used", r.type, ""} /\ should_trigger_alert(t, used)
    BY <2>4 DEF check_share_rule, t
  <2>6. r.type # "network"
    BY <1>5
  <2>7. CASE CountsFree(r)
    BY <1>2, <1>3, <2>1, <2>2, <2>3, <2>5, <2>6, <2>7 DEF t
  <2>8. CASE ~CountsFree(r)
    <3>1. Judged(r) \ {NoReading} = {x \in {used} : r.matcher \in {"used", r.type, ""}}
      BY <1>2, <2>1, <2>3, <2>8
    <3>2. should_trigger_alert(t, used) <=> Says(t, used)
      BY <1>3, <2>1, <2>6
    <3>3. check_enhanced_rule(r) <=> r.matcher \in {"used", r.type, ""} /\ should_trigger_alert(t, used)
      BY <2>2, <2>5, <2>8
    <3> QED
      BY <3>1, <3>2, <3>3 DEF t
  <2> QED
    BY <2>7, <2>8
<1>6. CASE r.type = "disk"
  <2>1. check_enhanced_rule(r) <=> should_trigger_alert(t, readings.disk)
    BY <1>6 DEF check_enhanced_rule, t
  <2>2. Judged(r) = {readings.disk}
    BY <1>6 DEF Judged
  <2> QED
    BY <1>2, <1>3, <1>6, <2>1, <2>2, ReadingsAreTyped DEF t
<1>7. CASE r.type = "network"
  <2>1. check_enhanced_rule(r) <=> check_network_rule(r)
    BY <1>7 DEF check_enhanced_rule
  <2>2. CASE r.matcher \in {"rx", "in"}
    <3>1. Judged(r) = {readings.rx}
      BY <1>7, <2>2 DEF Judged
    <3>2. check_network_rule(r) <=> should_trigger_speed_alert(t, KnownSpeed(readings.rx))
      BY <2>2 DEF check_network_rule, t
    <3>3. readings.rx # NoReading /\ KnownSpeed(readings.rx) = readings.rx
      BY <1>7, <3>1 DEF KnownSpeed
    <3> QED
      BY <1>3, <1>7, <2>1, <3>1, <3>2, <3>3, ReadingsAreTyped DEF t
  <2>3. CASE r.matcher \in {"tx", "out"}
    <3>1. Judged(r) = {readings.tx}
      BY <1>7, <2>3 DEF Judged
    <3>2. check_network_rule(r) <=> should_trigger_speed_alert(t, KnownSpeed(readings.tx))
      BY <2>3 DEF check_network_rule, t
    <3>3. readings.tx # NoReading /\ KnownSpeed(readings.tx) = readings.tx
      BY <1>7, <3>1 DEF KnownSpeed
    <3> QED
      BY <1>3, <1>7, <2>1, <3>1, <3>2, <3>3, ReadingsAreTyped DEF t
  <2>4. CASE r.matcher \notin {"rx", "in"} \cup {"tx", "out"}
    <3>1. Judged(r) = {IF readings.rx = NoReading \/ readings.tx = NoReading THEN NoReading
                       ELSE readings.rx + readings.tx}
      BY <1>7, <2>4 DEF Judged
    <3>2. readings.rx # NoReading /\ readings.tx # NoReading
      BY <1>7, <3>1
    <3>3. readings.rx \in Nat /\ readings.tx \in Nat
      BY <3>2, ReadingsAreTyped
    <3>4. check_network_rule(r) <=> should_trigger_speed_alert(t, readings.rx + readings.tx)
      BY <2>4, <3>2 DEF check_network_rule, KnownSpeed, t
    <3>5. readings.rx + readings.tx \in Nat
      BY <3>3
    <3>6. Judged(r) = {readings.rx + readings.tx}
      BY <3>1, <3>2
    <3> QED
      BY <1>2, <1>3, <1>7, <2>1, <3>4, <3>5, <3>6 DEF t
  <2> QED
    BY <2>2, <2>3, <2>4
<1>8. CASE r.type \in {"temperature", "temp"}
  <2>1. check_enhanced_rule(r) <=> check_temperature_rule(r)
    BY <1>8 DEF check_enhanced_rule
  <2>2. Judged(r) = {readings.temperature}
    BY <1>8 DEF Judged
  <2>3. check_temperature_rule(r) <=>
          readings.temperature # NoReading /\ should_trigger_alert(t, readings.temperature)
    BY DEF check_temperature_rule, t
  <2>4. r.type # "network"
    BY <1>8
  <2> QED
    BY <1>2, <1>3, <2>1, <2>2, <2>3, <2>4, ReadingsAreTyped DEF t
<1>9. CASE r.type \notin {"cpu", "memory", "swap", "disk", "network", "temperature", "temp"}
  BY <1>9 DEF check_enhanced_rule, Judged
<1> QED
  BY <1>4, <1>5, <1>6, <1>7, <1>8, <1>9

(* Rules and readings stay among those there may be. *)
LEMMA RulesStayTyped == RulesSpec => []RulesTypeOK
<1>1. RulesInit => RulesTypeOK
  BY DEF RulesInit, RulesTypeOK
<1>2. RulesTypeOK /\ [RulesNext]_rulesVars => RulesTypeOK'
  BY DEF RulesTypeOK, RulesNext, rulesVars, PutsSettings, OperatorWrites, Restarts, Samples
<1> QED
  BY <1>1, <1>2, PTL DEF RulesSpec

(* A rule of a form the help gives, of any type, number and unit, alerts    *)
(* exactly when the number it is about is there and the threshold says so   *)
(* (Threshold::parse, Size::parse, check_enhanced_rule).                    *)
THEOREM AlertsMeanWhatTheySay == RulesSpec => []AlertsAreTrue
<1>1. RulesTypeOK => AlertsAreTrue
  <2> SUFFICES ASSUME RulesTypeOK, NEW r \in rules, Helped(r.threshold),
                      (r.type = "network") = (r.threshold.unit[1].letter \in ToSet(SUFFIXES)),
                      r.type = "network" => NoReading \notin Judged(r)
               PROVE  r \in alerts <=>
                        \E x \in Judged(r) \ {NoReading} : Says(r.threshold, x)
    BY DEF AlertsAreTrue
  <2>1. r \in alerts <=> check_enhanced_rule(r)
    BY DEF alerts
  <2> QED
    BY <2>1, RuleIsJudged
<1> QED
  BY <1>1, RulesStayTyped, PTL
=============================================================================
