-------------------------------- MODULE FileApi --------------------------------
(***************************************************************************)
(* The file API of the agent (src/monitor/src/api/fs.rs) on the files of   *)
(* one directory inside a root: uploads that are staged beside their       *)
(* destination and renamed over it, downloads that stream an open file,    *)
(* and the requests that rename, remove and chmod meanwhile.  Handlers     *)
(* are interleaved at every await; a client may go away, a call may fail   *)
(* and the agent may be killed.                                            *)
(*                                                                         *)
(* Files are numbered inodes, so an open file stays what it was when its   *)
(* name goes.  A chunk of an upload is the upload's number.                *)
(***************************************************************************)
EXTENDS Naturals, Sequences, SequencesExt

CONSTANTS
    Files,          \* names in the directory
    Destinations,   \* those that are uploaded to, a bound
    Uploads,        \* bounds the uploads, numbered from 1
    Readers,        \* downloads at once
    Offsets,        \* where a download may ask to start
    Lengths,        \* how long uploads may be
    Limit,          \* max_write_bytes
    Modes,          \* permission bits; Umask for a new file
    Umask,
    Pids            \* process ids an agent may get: 1 again in a container

ASSUME FilesAssumption ==
    /\ Destinations \subseteq Files
    /\ 0 \notin Uploads
    /\ Umask \in Modes /\ \E mode \in Modes : mode # Umask
    /\ Lengths \subseteq Nat /\ Limit \in Nat /\ Offsets \subseteq Nat

VARIABLES
    inodes,         \* [chunks, mode] of every file there ever was
    directory,      \* the inode of each name, 0 for none
    staged,         \* files a handler staged: [of, pid, seq, inode]
    running,        \* [pid, seq]: the agent's process and SEQ
    upload,         \* where each upload is
    doing,          \* what it does: [of, stage, length, written, mode]
    download,       \* where each download is
    open_inode, skipped,   \* its inode and the chunks it leaves out before it starts
    delivered              \* the chunks it delivered

filesVars == <<inodes, directory, staged, running, upload, doing, download, open_inode, skipped,
              delivered>>

NothingDone == [of |-> CHOOSE f \in Files : TRUE, stage |-> 0, length |-> 0, written |-> 0,
                mode |-> Umask]

\* Upload 0 is what was there before.
FilesInit ==
    /\ \E f \in Files :
        /\ inodes = <<[chunks |-> <<0>>, mode |-> CHOOSE m \in Modes : m # Umask]>>
        /\ directory = [g \in Files |-> IF g = f THEN 1 ELSE 0]
    /\ staged = {}
    /\ \E pid \in Pids : running = [pid |-> pid, seq |-> 0]
    /\ upload = [u \in Uploads |-> "idle"] /\ doing = [u \in Uploads |-> NothingDone]
    /\ download = [r \in Readers |-> "idle"]
    /\ open_inode = [r \in Readers |-> 0] /\ skipped = [r \in Readers |-> 0]
    /\ delivered = [r \in Readers |-> <<>>]

At(u, where) == upload' = [upload EXCEPT ![u] = where]
Reading == <<download, open_inode, skipped, delivered>>

-----------------------------------------------------------------------------
(* write: an upload u.                                                     *)

\* staging_path: the name, the process and a counter.
StagingName(f) == [of |-> f, pid |-> running.pid, seq |-> running.seq]
Taken(name) ==
    \E s \in staged : s.of = name.of /\ s.pid = name.pid /\ s.seq = name.seq

\* Mutant: a file of that name is opened as it is.
Reused(name) == TRUE

\* create_new: a process that died may have left a file of that name.
Creates(name) == ~Taken(name)

NewInode(name) ==
    /\ inodes' = Append(inodes, [chunks |-> <<>>, mode |-> Umask])
    /\ staged' = staged \cup {[of |-> name.of, pid |-> name.pid, seq |-> name.seq,
                               inode |-> Len(inodes) + 1]}

Stages(u) ==
    /\ upload[u] = "idle"
    /\ \E f \in Destinations, length \in Lengths :
        /\ running' = [running EXCEPT !.seq = @ + 1]
        /\ IF Creates(StagingName(f))
           THEN /\ IF Taken(StagingName(f)) THEN UNCHANGED <<inodes, staged>>
                   ELSE NewInode(StagingName(f))
                /\ doing' = [doing EXCEPT ![u] = [of |-> f, length |-> length, written |-> 0, mode |-> Umask,
                     stage |-> (CHOOSE s \in staged' :
                                  s.of = f /\ s.pid = running.pid /\ s.seq = running.seq).inode]]
                /\ At(u, "receiving")
           ELSE At(u, "over") /\ UNCHANGED <<inodes, staged, doing>>
    /\ UNCHANGED <<directory, Reading>>

\* The next chunk, or one too many for the limit.
Receives(u) ==
    /\ upload[u] = "receiving" /\ doing[u].written < doing[u].length
    /\ doing' = [doing EXCEPT ![u].written = @ + 1]
    /\ IF doing[u].written + 1 > Limit
       THEN At(u, "failed") /\ UNCHANGED inodes
       ELSE /\ inodes' = [inodes EXCEPT ![doing[u].stage].chunks = Append(@, u)]
            /\ UNCHANGED upload
    /\ UNCHANGED <<directory, staged, running, Reading>>

\* The body ends and is flushed.
Finishes(u) ==
    /\ upload[u] = "receiving" /\ doing[u].written = doing[u].length
    /\ At(u, "looking")
    /\ UNCHANGED <<inodes, directory, staged, running, doing, Reading>>

\* The body breaks off, or the disk is full.
Breaks(u) ==
    /\ upload[u] = "receiving"
    /\ At(u, "failed")
    /\ UNCHANGED <<inodes, directory, staged, running, doing, Reading>>

Unstaged(u) == {s \in staged : s.inode # doing[u].stage}

\* What was staged is removed, if it can be.
CleansUp(u) ==
    /\ upload[u] = "failed"
    /\ staged' \in {staged, Unstaged(u)}
    /\ At(u, "over")
    /\ UNCHANGED <<inodes, directory, running, doing, Reading>>

\* The permissions of what is there, read ...
LooksAtMode(u) ==
    /\ upload[u] = "looking"
    /\ LET inode == directory[doing[u].of] IN
        IF inode = 0 THEN At(u, "renaming") /\ UNCHANGED doing
        ELSE /\ doing' = [doing EXCEPT ![u].mode = inodes[inode].mode]
             /\ At(u, "carrying")
    /\ UNCHANGED <<inodes, directory, staged, running, Reading>>

\* ... and set, which may fail.
CarriesMode(u) ==
    /\ upload[u] = "carrying"
    /\ inodes' \in {inodes, [inodes EXCEPT ![doing[u].stage].mode = doing[u].mode]}
    /\ At(u, "renaming")
    /\ UNCHANGED <<directory, staged, running, doing, Reading>>

\* Mutant: the bytes are copied into the file that is there.
CopiedOver(u) ==
    LET inode == directory[doing[u].of]
    IN  IF inode = 0 THEN directory' = [directory EXCEPT ![doing[u].of] = doing[u].stage]
                          /\ UNCHANGED inodes
        ELSE inodes' = [inodes EXCEPT ![inode].chunks = inodes[doing[u].stage].chunks]
             /\ UNCHANGED directory

RenamedOver(u) ==
    /\ directory' = [directory EXCEPT ![doing[u].of] = doing[u].stage]
    /\ UNCHANGED inodes

Replaces(u) ==
    /\ upload[u] = "renaming"
    /\ \/ /\ RenamedOver(u)
          /\ staged' = Unstaged(u) /\ At(u, "over")
       \/ At(u, "failed") /\ UNCHANGED <<inodes, directory, staged>>
    /\ UNCHANGED <<running, doing, Reading>>

\* The client goes away and the handler with it: nothing is cleaned up.
UploadIsDropped(u) ==
    /\ upload[u] \notin {"idle", "over"}
    /\ At(u, "over")
    /\ UNCHANGED <<inodes, directory, staged, running, doing, Reading>>

-----------------------------------------------------------------------------
(* read                                                                    *)

\* The file is opened and sought; an offset past its end is no error.
Opens(r) ==
    /\ download[r] = "idle"
    /\ \E f \in Files :
        /\ directory[f] # 0
        /\ open_inode' = [open_inode EXCEPT ![r] = directory[f]]
    /\ \E offset \in Offsets : skipped' = [skipped EXCEPT ![r] = offset]
    /\ download' = [download EXCEPT ![r] = "streaming"]
    /\ UNCHANGED <<inodes, directory, staged, running, upload, doing, delivered>>

StreamsChunk(r) ==
    /\ download[r] = "streaming"
    /\ LET chunks == inodes[open_inode[r]].chunks
           next == skipped[r] + Len(delivered[r]) + 1
       IN  IF next <= Len(chunks)
           THEN delivered' = [delivered EXCEPT ![r] = Append(@, chunks[next])] /\ UNCHANGED download
           ELSE download' = [download EXCEPT ![r] = "whole"] /\ UNCHANGED delivered
    /\ UNCHANGED <<inodes, directory, staged, running, upload, doing, open_inode, skipped>>

-----------------------------------------------------------------------------
(* rename, remove and chmod, each one call on a resolved path.             *)

RenamesFile ==
    /\ \E from, to \in Files :
        /\ from # to /\ directory[from] # 0
        /\ directory' = [directory EXCEPT ![from] = 0, ![to] = directory[from]]
    /\ UNCHANGED <<inodes, staged, running, upload, doing, Reading>>

RemovesFile ==
    /\ \E f \in Files :
        /\ directory[f] # 0
        /\ directory' = [directory EXCEPT ![f] = 0]
    /\ UNCHANGED <<inodes, staged, running, upload, doing, Reading>>

ChangesMode ==
    /\ \E f \in Files, mode \in Modes :
        /\ directory[f] # 0 /\ inodes[directory[f]].mode # mode
        /\ inodes' = [inodes EXCEPT ![directory[f]].mode = mode]
    /\ UNCHANGED <<directory, staged, running, upload, doing, Reading>>

-----------------------------------------------------------------------------

\* The agent is killed and starts again, counting from nought.
Restarts ==
    /\ running.seq > 0
    /\ \E pid \in Pids : running' = [pid |-> pid, seq |-> 0]
    /\ upload' = [u \in Uploads |-> IF upload[u] = "idle" THEN "idle" ELSE "over"]
    /\ download' = [r \in Readers |-> IF download[r] = "streaming" THEN "cut" ELSE download[r]]
    /\ UNCHANGED <<inodes, directory, staged, doing, open_inode, skipped, delivered>>

FilesNext ==
    \/ \E u \in Uploads :
        \/ Stages(u) \/ Receives(u) \/ Finishes(u) \/ Breaks(u) \/ CleansUp(u)
        \/ LooksAtMode(u) \/ CarriesMode(u) \/ Replaces(u) \/ UploadIsDropped(u)
    \/ \E r \in Readers : Opens(r) \/ StreamsChunk(r)
    \/ RenamesFile \/ RemovesFile \/ ChangesMode
    \/ Restarts

FilesSpec == FilesInit /\ [][FilesNext]_filesVars

-----------------------------------------------------------------------------
(* Properties.                                                             *)

\* All the chunks of one upload, as many as its client sent.
Whole(chunks) ==
    \/ chunks = <<0>>
    \/ \E u \in Uploads :
        /\ upload[u] # "idle" /\ Len(chunks) = doing[u].length
        /\ \A i \in DOMAIN chunks : chunks[i] = u

\* A name never leads to half a file: not after a body that broke off, a full disk, a
\* limit, a kill, two uploads of one name, or a staged file that an earlier process with
\* the same id left under the name a new one picks.  What a power loss leaves of a file
\* is not in it (write flushes to the system only), nor a client that renames a staged
\* file itself: the names of Files are not those of staged ones.
FilesAreWhole == \A f \in Files : directory[f] # 0 => Whole(inodes[directory[f]].chunks)

\* What one version, of an upload or from before, has after as many chunks as offset.
EndOfOne(chunks, offset) ==
    \E u \in Uploads \cup {0} :
        LET length == IF u = 0 THEN 1 ELSE doing[u].length
        IN  /\ u # 0 => upload[u] # "idle"
            /\ Len(chunks) = IF offset < length THEN length - offset ELSE 0
            /\ \A i \in DOMAIN chunks : chunks[i] = u

\* A download that ends in order is one version of the file from its offset to its last
\* byte, whatever is uploaded, renamed or removed under its name while it runs.  This is
\* of one response: nothing tells a client that joins a second one, from a later offset,
\* that both are of the same version.
ReadsAreOneVersion ==
    \A r \in Readers : download[r] = "whole" => EndOfOne(delivered[r], skipped[r])
=============================================================================
