---------------------------- MODULE RequestProofs ----------------------------
(* What requests leave behind: proofs about FileApi, SshHosts, AgentConfig
   and FsRoots, each about its own specification and for any value of its
   constants.                                                                *)
EXTENDS FileApi, SshHosts, AgentConfig, FsRoots, SequenceTheorems, NaturalsInduction,
        WellFoundedInduction, TLAPS

----------------------------------------------------------------------------
(* Uploads and downloads *)

UploadStates ==
    {"idle", "receiving", "looking", "carrying", "renaming", "failed", "over"}

\* The handler is at work on its staged file.
Busy(u) == upload[u] \notin {"idle", "over"}

Inodes == [chunks : Seq(Uploads \cup {0}), mode : Modes]

InodesOK == inodes \in Seq(Inodes)
NamesOK ==
    /\ directory \in [Files -> 0 .. Len(inodes)]
    /\ staged \in SUBSET [of : Files, pid : Pids, seq : Nat, inode : 1 .. Len(inodes)]
    /\ running \in [pid : Pids, seq : Nat]
UploadsOK ==
    /\ upload \in [Uploads -> UploadStates]
    /\ doing \in [Uploads -> [of : Files, stage : 0 .. Len(inodes), length : Nat,
                              written : Nat, mode : Modes]]
ReadersOK ==
    /\ download \in [Readers -> {"idle", "streaming", "whole", "cut"}]
    /\ open_inode \in [Readers -> 0 .. Len(inodes)]
    /\ skipped \in [Readers -> Nat]
    /\ delivered \in [Readers -> Seq(Uploads \cup {0})]

\* A staged file belongs to one upload, and nobody has its name or has it open.
StagesArePrivate ==
    \A u \in Uploads : Busy(u) =>
        /\ doing[u].stage # 0
        /\ \A v \in Uploads \ {u} : doing[v].stage # doing[u].stage
        /\ \A f \in Files : directory[f] # doing[u].stage
        /\ \A r \in Readers : open_inode[r] # doing[u].stage

\* It holds the upload's chunks: as many as were counted, all once the body is over.
StagesAreOwn ==
    \A u \in Uploads :
        upload[u] \in {"receiving", "looking", "carrying", "renaming"} =>
            /\ \A i \in 1 .. Len(inodes[doing[u].stage].chunks) :
                 inodes[doing[u].stage].chunks[i] = u
            /\ Len(inodes[doing[u].stage].chunks) = doing[u].written
            /\ upload[u] # "receiving" => doing[u].written = doing[u].length

\* What is open is whole, and what was delivered of it follows what was skipped.
GoesThrough(r) ==
    LET chunks == inodes[open_inode[r]].chunks
    IN  /\ download[r] = "idle" => delivered[r] = <<>>
        /\ download[r] \in {"streaming", "whole"} =>
            /\ open_inode[r] # 0
            /\ Whole(chunks)
            /\ delivered[r] # <<>> => skipped[r] + Len(delivered[r]) <= Len(chunks)
            /\ \A i \in 1 .. Len(delivered[r]) : delivered[r][i] = chunks[skipped[r] + i]
            /\ download[r] = "whole" => skipped[r] + Len(delivered[r]) >= Len(chunks)
ReadersGoThrough == \A r \in Readers : GoesThrough(r)

FilesInv ==
    /\ InodesOK /\ NamesOK /\ UploadsOK /\ ReadersOK
    /\ StagesArePrivate /\ StagesAreOwn /\ FilesAreWhole /\ ReadersGoThrough

----------------------------------------------------------------------------
\* A file that is appended, one whose permissions change and one that grows.
LEMMA AppendedInode ==
  ASSUME InodesOK, FilesAssumption,
         inodes' = Append(inodes, [chunks |-> <<>>, mode |-> Umask])
  PROVE  /\ InodesOK'
         /\ Len(inodes') = Len(inodes) + 1
         /\ \A i \in 1 .. Len(inodes) : inodes'[i] = inodes[i]
         /\ inodes'[Len(inodes) + 1].chunks = <<>>
<1>1. [chunks |-> <<>>, mode |-> Umask] \in Inodes
  BY DEF Inodes, FilesAssumption
<1> DEFINE new == [chunks |-> <<>>, mode |-> Umask]
<1>2. new \in Inodes /\ new.chunks = <<>>
  BY <1>1
<1> HIDE DEF new
<1>3. inodes' = Append(inodes, new)
  BY DEF new
<1>4. inodes \in Seq(Inodes)
  BY DEF InodesOK
<1>5. /\ inodes' \in Seq(Inodes) /\ Len(inodes') = Len(inodes) + 1
      /\ \A i \in 1 .. Len(inodes) : inodes'[i] = inodes[i]
      /\ inodes'[Len(inodes) + 1] = new
  BY <1>2, <1>3, <1>4, AppendProperties
<1> QED
  BY <1>2, <1>5 DEF InodesOK

LEMMA InodeIsTyped ==
  ASSUME InodesOK, NEW k \in 1 .. Len(inodes)
  PROVE  /\ inodes[k] \in Inodes /\ inodes[k].mode \in Modes
         /\ inodes[k].chunks \in Seq(Uploads \cup {0})
<1>1. inodes[k] \in Inodes
  BY ElementOfSeq DEF InodesOK
<1> QED
  BY <1>1 DEF Inodes

LEMMA UpdatedSeq ==
  ASSUME NEW S, NEW seq \in Seq(S), NEW i \in 1 .. Len(seq), NEW e \in S,
         NEW new, new = [seq EXCEPT ![i] = e]
  PROVE  /\ new \in Seq(S) /\ Len(new) = Len(seq) /\ new[i] = e
         /\ \A j \in 1 .. Len(seq) : j # i => new[j] = seq[j]
BY ExceptSeq

LEMMA MarkedInode ==
  ASSUME InodesOK, NEW k \in 1 .. Len(inodes), NEW mode \in Modes,
         inodes' = [inodes EXCEPT ![k].mode = mode]
  PROVE  /\ InodesOK'
         /\ Len(inodes') = Len(inodes)
         /\ \A i \in 1 .. Len(inodes) : inodes'[i].chunks = inodes[i].chunks
<1> DEFINE marked == [inodes[k] EXCEPT !.mode = mode]
<1>1. inodes \in Seq(Inodes)
  BY DEF InodesOK
<1>2. inodes[k] \in Inodes
  BY <1>1, ElementOfSeq
<1>3. marked \in Inodes /\ marked.chunks = inodes[k].chunks
  BY <1>2 DEF Inodes
<1>4. inodes' = [inodes EXCEPT ![k] = marked]
  OBVIOUS
<1> HIDE DEF marked
<1>5. /\ inodes' \in Seq(Inodes) /\ Len(inodes') = Len(inodes) /\ inodes'[k] = marked
      /\ \A j \in 1 .. Len(inodes) : j # k => inodes'[j] = inodes[j]
  BY <1>1, <1>3, <1>4, UpdatedSeq
<1> QED
  BY <1>3, <1>5 DEF InodesOK

LEMMA ExtendedInode ==
  ASSUME InodesOK, NEW k \in 1 .. Len(inodes), NEW u \in Uploads,
         inodes' = [inodes EXCEPT ![k].chunks = Append(@, u)]
  PROVE  /\ InodesOK'
         /\ Len(inodes') = Len(inodes)
         /\ \A i \in 1 .. Len(inodes) : i # k => inodes'[i] = inodes[i]
         /\ inodes'[k].chunks = Append(inodes[k].chunks, u)
<1> DEFINE grown == Append(inodes[k].chunks, u)
           extended == [inodes[k] EXCEPT !.chunks = grown]
<1>1. inodes \in Seq(Inodes)
  BY DEF InodesOK
<1>2. inodes[k] \in Inodes
  BY <1>1, ElementOfSeq
<1>3. inodes[k].chunks \in Seq(Uploads \cup {0}) /\ u \in Uploads \cup {0}
  BY <1>2 DEF Inodes
<1>4. grown \in Seq(Uploads \cup {0})
  BY <1>3, AppendProperties
<1>5. inodes' = [inodes EXCEPT ![k] = extended]
  OBVIOUS
<1> HIDE DEF grown
<1>6. extended \in Inodes /\ extended.chunks = grown
  BY <1>2, <1>4 DEF Inodes
<1> HIDE DEF extended
<1>7. /\ inodes' \in Seq(Inodes) /\ Len(inodes') = Len(inodes) /\ inodes'[k] = extended
      /\ \A j \in 1 .. Len(inodes) : j # k => inodes'[j] = inodes[j]
  BY <1>1, <1>5, <1>6, UpdatedSeq
<1> QED
  BY <1>6, <1>7 DEF InodesOK, grown

\* What was whole stays whole: an upload that began keeps its length.
UploadsGoOn ==
    \A u \in Uploads : upload[u] # "idle" =>
        upload'[u] # "idle" /\ doing'[u].length = doing[u].length

\* Readers are not disturbed by a step that leaves what they have open.
LEMMA ReadersAreLeftAlone ==
  ASSUME NamesOK, ReadersOK, ReadersGoThrough, UploadsGoOn, UNCHANGED Reading,
         \A r \in Readers : open_inode[r] # 0 =>
            inodes'[open_inode[r]].chunks = inodes[open_inode[r]].chunks
  PROVE  ReadersGoThrough'
<1> SUFFICES ASSUME NEW r \in Readers PROVE GoesThrough(r)'
  BY DEF ReadersGoThrough
<1>1. GoesThrough(r)
  BY DEF ReadersGoThrough
<1>2. download' = download /\ open_inode' = open_inode /\ skipped' = skipped /\ delivered' = delivered
  BY DEF Reading
<1>3. CASE open_inode[r] # 0
  <2>1. inodes'[open_inode'[r]].chunks = inodes[open_inode[r]].chunks
    BY <1>2, <1>3
  <2>2. Whole(inodes[open_inode[r]].chunks) => Whole(inodes[open_inode[r]].chunks)'
    BY <2>1 DEF UploadsGoOn, Whole
  <2> QED
    BY <1>1, <1>2, <2>1, <2>2 DEF GoesThrough
<1>4. CASE open_inode[r] = 0
  BY <1>1, <1>2, <1>4 DEF GoesThrough
<1> QED
  BY <1>3, <1>4

\* Nor are names that are kept, moved or removed.
LEMMA NamesAreLeftAlone ==
  ASSUME FilesAreWhole, UploadsGoOn,
         \A f \in Files : directory'[f] # 0 =>
            \E g \in Files :
                /\ directory[g] = directory'[f]
                /\ inodes'[directory[g]].chunks = inodes[directory[g]].chunks
  PROVE  FilesAreWhole'
<1> SUFFICES ASSUME NEW f \in Files, directory'[f] # 0
             PROVE  Whole(inodes[directory[f]].chunks)'
  BY DEF FilesAreWhole
<1>1. PICK g \in Files : /\ directory[g] = directory'[f]
                         /\ inodes'[directory[g]].chunks = inodes[directory[g]].chunks
  OBVIOUS
<1>2. Whole(inodes[directory[g]].chunks)
  BY <1>1 DEF FilesAreWhole
<1> QED
  BY <1>1, <1>2 DEF UploadsGoOn, Whole

LEMMA StagesInv ==
  ASSUME FilesInv, NEW u \in Uploads, Stages(u)
  PROVE  FilesInv'
<1> USE FilesAssumption DEF FilesInv
<1> DEFINE name(f) == StagingName(f)
           next == Len(inodes) + 1
<1>1. PICK f \in Destinations, length \in Lengths :
        /\ running' = [running EXCEPT !.seq = @ + 1]
        /\ IF Creates(StagingName(f))
           THEN /\ IF Taken(StagingName(f)) THEN UNCHANGED <<inodes, staged>>
                   ELSE NewInode(StagingName(f))
                /\ doing' = [doing EXCEPT ![u] = [of |-> f, length |-> length, written |-> 0, mode |-> Umask,
                     stage |-> (CHOOSE s \in staged' :
                                  s.of = f /\ s.pid = running.pid /\ s.seq = running.seq).inode]]
                /\ At(u, "receiving")
           ELSE At(u, "over") /\ UNCHANGED <<inodes, staged, doing>>
  BY Zenon DEF Stages
<1>2. /\ upload[u] = "idle" /\ UNCHANGED <<directory, Reading>>
      /\ download' = download /\ open_inode' = open_inode /\ skipped' = skipped /\ delivered' = delivered
  BY DEF Stages, Reading
<1>3. running' \in [pid : Pids, seq : Nat]
  BY <1>1 DEF NamesOK
<1>4. CASE Taken(StagingName(f))
  <2>1. At(u, "over") /\ UNCHANGED <<inodes, staged, doing>>
    BY <1>1, <1>4 DEF Creates
  <2>2. UploadsGoOn
    BY <1>2, <2>1 DEF At, UploadsGoOn, UploadsOK
  <2>3. InodesOK' /\ NamesOK' /\ ReadersOK'
    BY <1>2, <1>3, <2>1 DEF InodesOK, NamesOK, ReadersOK
  <2>4. UploadsOK'
    BY <2>1 DEF At, UploadsOK, UploadStates
  <2>5. StagesArePrivate'
    BY <1>2, <2>1 DEF At, Busy, UploadsOK, StagesArePrivate
  <2>6. StagesAreOwn'
    BY <1>2, <2>1 DEF At, Busy, UploadsOK, StagesAreOwn
  <2>7. FilesAreWhole'
    BY <1>2, <2>1, <2>2, NamesAreLeftAlone
  <2>8. ReadersGoThrough'
    BY <1>2, <2>1, <2>2, ReadersAreLeftAlone
  <2> QED
    BY <2>3, <2>4, <2>5, <2>6, <2>7, <2>8
<1>5. CASE ~Taken(StagingName(f))
  <2> DEFINE new == [of |-> f, pid |-> running.pid, seq |-> running.seq, inode |-> next]
  <2>1. NewInode(StagingName(f)) /\ At(u, "receiving")
    BY <1>1, <1>5 DEF Creates
  <2>2. inodes' = Append(inodes, [chunks |-> <<>>, mode |-> Umask]) /\ staged' = staged \cup {new}
    BY <2>1 DEF NewInode, StagingName
  <2>3. (CHOOSE s \in staged' : s.of = f /\ s.pid = running.pid /\ s.seq = running.seq) = new
    <3>1. \A s \in staged : ~(s.of = f /\ s.pid = running.pid /\ s.seq = running.seq)
      BY <1>5 DEF Taken, StagingName
    <3>2. new \in staged' /\ new.of = f /\ new.pid = running.pid /\ new.seq = running.seq
      BY <2>2
    <3>3. \A s \in staged' : s.of = f /\ s.pid = running.pid /\ s.seq = running.seq => s = new
      BY <2>2, <3>1
    <3> QED
      BY <3>2, <3>3
  <2>4. new.inode = next
    OBVIOUS
  <2>5. doing' = [doing EXCEPT ![u] = [of |-> f, length |-> length, written |-> 0,
                                       mode |-> Umask, stage |-> next]]
    BY <1>1, <1>5, <2>3, <2>4 DEF Creates
  <2>6. upload' = [upload EXCEPT ![u] = "receiving"]
    BY <2>1 DEF At
  <2>7. /\ InodesOK' /\ Len(inodes') = next
        /\ \A i \in 1 .. Len(inodes) : inodes'[i] = inodes[i]
        /\ inodes'[next].chunks = <<>>
    BY <2>2, AppendedInode
  <2>8. Len(inodes) \in Nat
    BY LenProperties DEF InodesOK
  <2>9. UploadsGoOn
    BY <1>2, <2>5, <2>6 DEF UploadsGoOn, UploadsOK
  <2>10. NamesOK'
    <3>1. new \in [of : Files, pid : Pids, seq : Nat, inode : 1 .. Len(inodes')]
      BY <2>7, <2>8 DEF NamesOK
    <3>2. staged \in SUBSET [of : Files, pid : Pids, seq : Nat, inode : 1 .. Len(inodes')]
      BY <2>7, <2>8 DEF NamesOK
    <3>3. staged' \in SUBSET [of : Files, pid : Pids, seq : Nat, inode : 1 .. Len(inodes')]
      BY <3>1, <3>2, <2>2
    <3>4. directory' \in [Files -> 0 .. Len(inodes')]
      BY <1>2, <2>7, <2>8 DEF NamesOK
    <3> QED
      BY <1>3, <3>3, <3>4 DEF NamesOK
  <2>11. UploadsOK'
    <3>1. upload' \in [Uploads -> UploadStates]
      BY <2>6 DEF UploadsOK, UploadStates
    <3>2. [of |-> f, length |-> length, written |-> 0, mode |-> Umask, stage |-> next] \in
            [of : Files, stage : 0 .. Len(inodes'), length : Nat, written : Nat, mode : Modes]
      BY <2>7, <2>8
    <3>3. doing \in [Uploads -> [of : Files, stage : 0 .. Len(inodes'), length : Nat,
                                 written : Nat, mode : Modes]]
      BY <2>7, <2>8 DEF UploadsOK
    <3> HIDE <2>7
    <3> QED
      BY <2>5, <3>1, <3>2, <3>3 DEF UploadsOK
  <2>12. ReadersOK'
    BY <1>2, <2>7, <2>8 DEF ReadersOK
  <2>13. StagesArePrivate'
    <3>1. \A v \in Uploads : doing[v].stage # next
      BY <2>8 DEF UploadsOK
    <3>2. \A g \in Files : directory[g] # next
      BY <2>8 DEF NamesOK
    <3>3. \A r \in Readers : open_inode[r] # next
      BY <2>8 DEF ReadersOK
    <3>4. doing'[u].stage = next /\ next # 0
      BY <2>5, <2>8 DEF UploadsOK
    <3>5. \A v \in Uploads \ {u} : doing'[v] = doing[v] /\ upload'[v] = upload[v]
      BY <2>5, <2>6 DEF UploadsOK
    <3> HIDE DEF next
    <3> QED
      BY <1>2, <3>1, <3>2, <3>3, <3>4, <3>5 DEF StagesArePrivate, Busy
  <2>14. StagesAreOwn'
    <3> SUFFICES ASSUME NEW v \in Uploads,
                        upload'[v] \in {"receiving", "looking", "carrying", "renaming"}
                 PROVE
                    /\ \A i \in 1 .. Len(inodes'[doing'[v].stage].chunks) :
                         inodes'[doing'[v].stage].chunks[i] = v
                    /\ Len(inodes'[doing'[v].stage].chunks) = doing'[v].written
                    /\ upload'[v] # "receiving" => doing'[v].written = doing'[v].length
      BY Zenon DEF StagesAreOwn
    <3>1. CASE v = u
      BY <3>1, <2>5, <2>6, <2>7, EmptySeq DEF UploadsOK
    <3>2. CASE v # u
      <4>1. doing'[v] = doing[v] /\ upload'[v] = upload[v]
        BY <3>2, <2>5, <2>6 DEF UploadsOK
      <4>2. doing[v].stage \in 1 .. Len(inodes)
        BY SMTT(30), <4>1, <2>8 DEF UploadsOK, StagesArePrivate, Busy
      <4>3. inodes'[doing'[v].stage] = inodes[doing[v].stage]
        BY <4>1, <4>2, <2>7
      <4> QED
        BY <4>1, <4>3 DEF StagesAreOwn
    <3> QED
      BY <3>1, <3>2
  <2>15. FilesAreWhole'
    <3>1. \A g \in Files : directory'[g] # 0 =>
            directory[g] = directory'[g] /\ inodes'[directory[g]].chunks = inodes[directory[g]].chunks
      BY <1>2, <2>7, <2>8 DEF NamesOK
    <3> QED
      BY <2>9, <3>1, NamesAreLeftAlone
  <2>16. ReadersGoThrough'
    <3>1. \A r \in Readers : open_inode[r] # 0 =>
            inodes'[open_inode[r]].chunks = inodes[open_inode[r]].chunks
      BY <1>2, <2>7, <2>8 DEF ReadersOK
    <3>2. UNCHANGED Reading
      BY <1>2
    <3> HIDE DEF FilesInv
    <3>3. NamesOK /\ ReadersOK /\ ReadersGoThrough
      BY DEF FilesInv
    <3> QED
      BY <2>9, <3>1, <3>2, <3>3, ReadersAreLeftAlone
  <2> QED
    BY <2>7, <2>10, <2>11, <2>12, <2>13, <2>14, <2>15, <2>16
<1> QED
  BY <1>4, <1>5

LEMMA ReceivesInv ==
  ASSUME FilesInv, NEW u \in Uploads, Receives(u)
  PROVE  FilesInv'
<1> USE FilesAssumption DEF FilesInv
<1> DEFINE k == doing[u].stage
<1>1. /\ upload[u] = "receiving" /\ doing[u].written < doing[u].length
      /\ doing' = [doing EXCEPT ![u].written = @ + 1]
      /\ UNCHANGED <<directory, staged, running, Reading>>
      /\ download' = download /\ open_inode' = open_inode /\ skipped' = skipped /\ delivered' = delivered
  BY DEF Receives, Reading
<1>2. doing[u] \in [of : Files, stage : 0 .. Len(inodes), length : Nat, written : Nat, mode : Modes]
  BY DEF UploadsOK
<1>3. k \in 1 .. Len(inodes) /\ Len(inodes) \in Nat
  BY <1>1, <1>2, LenProperties DEF StagesArePrivate, Busy, InodesOK
<1>4. /\ doing' \in [Uploads -> [of : Files, stage : 0 .. Len(inodes), length : Nat,
                                 written : Nat, mode : Modes]]
      /\ \A v \in Uploads : doing'[v].stage = doing[v].stage /\ doing'[v].length = doing[v].length
      /\ \A v \in Uploads \ {u} : doing'[v] = doing[v]
      /\ doing'[u].written = doing[u].written + 1
  <2> DEFINE more == [doing[u] EXCEPT !.written = @ + 1]
  <2>1. doing' = [doing EXCEPT ![u] = more]
    BY <1>1
  <2>2. /\ more \in [of : Files, stage : 0 .. Len(inodes), length : Nat, written : Nat, mode : Modes]
        /\ more.stage = doing[u].stage /\ more.length = doing[u].length
        /\ more.written = doing[u].written + 1
    BY <1>2
  <2> HIDE DEF more
  <2> QED
    BY <2>1, <2>2 DEF UploadsOK
<1>5. upload' \in [Uploads -> UploadStates] /\ upload'[u] \in {"failed", "receiving"}
      /\ \A v \in Uploads \ {u} : upload'[v] = upload[v]
  BY <1>1 DEF Receives, At, UploadsOK, UploadStates
<1>6. UploadsGoOn
  BY <1>1, <1>4, <1>5 DEF UploadsGoOn
<1>7. /\ InodesOK' /\ Len(inodes') = Len(inodes)
      /\ \A i \in 1 .. Len(inodes) : i # k => inodes'[i] = inodes[i]
      /\ upload'[u] = "receiving" => inodes'[k].chunks = Append(inodes[k].chunks, u)
  <2>1. CASE doing[u].written + 1 > Limit
    <3>1. inodes' = inodes /\ upload'[u] = "failed"
      BY <2>1 DEF Receives, At, UploadsOK
    <3> QED
      BY <3>1 DEF InodesOK
  <2>2. CASE ~(doing[u].written + 1 > Limit)
    <3>1. inodes' = [inodes EXCEPT ![doing[u].stage].chunks = Append(@, u)]
      BY <2>2 DEF Receives
    <3> QED
      BY <3>1, <1>3, ExtendedInode
  <2> QED
    BY <2>1, <2>2
<1>8. NamesOK' /\ UploadsOK' /\ ReadersOK'
  BY <1>1, <1>4, <1>5, <1>7 DEF NamesOK, UploadsOK, ReadersOK
<1>9. \A v \in Uploads \ {u} : Busy(v) => doing[v].stage # k /\ doing[v].stage \in 1 .. Len(inodes)
  BY <1>1, <1>2, <1>3 DEF StagesArePrivate, Busy, UploadsOK
<1>10. (\A f \in Files : directory[f] # k) /\ (\A r \in Readers : open_inode[r] # k)
  BY <1>1 DEF StagesArePrivate, Busy
<1>11. \A v \in Uploads : Busy(v)' => Busy(v)
  BY <1>1, <1>5 DEF Busy
<1>12. StagesArePrivate'
  BY <1>1, <1>4, <1>11 DEF StagesArePrivate
<1>13. StagesAreOwn'
  <2> SUFFICES ASSUME NEW v \in Uploads,
                      upload'[v] \in {"receiving", "looking", "carrying", "renaming"}
               PROVE
                  /\ \A i \in 1 .. Len(inodes'[doing'[v].stage].chunks) :
                       inodes'[doing'[v].stage].chunks[i] = v
                  /\ Len(inodes'[doing'[v].stage].chunks) = doing'[v].written
                  /\ upload'[v] # "receiving" => doing'[v].written = doing'[v].length
    BY Zenon DEF StagesAreOwn
  <2>1. CASE v = u
    <3> DEFINE was == inodes[k].chunks
    <3>1. was \in Seq(Uploads \cup {0})
      BY <1>3, InodeIsTyped
    <3>2. (\A i \in 1 .. Len(was) : was[i] = u) /\ Len(was) = doing[u].written
      BY <1>1 DEF StagesAreOwn
    <3>3. inodes'[doing'[u].stage].chunks = Append(was, u) /\ upload'[u] = "receiving"
      BY <1>4, <1>5, <1>7, <2>1
    <3> HIDE DEF was
    <3>4. Len(Append(was, u)) = Len(was) + 1
          /\ \A i \in 1 .. Len(Append(was, u)) : Append(was, u)[i] = u
      BY <3>1, <3>2, AppendProperties
    <3> QED
      BY <1>4, <2>1, <3>2, <3>3, <3>4
  <2>2. CASE v # u
    <3>1. doing'[v] = doing[v] /\ upload'[v] = upload[v]
      BY <1>4, <1>5, <2>2
    <3>2. doing[v].stage # k /\ doing[v].stage \in 1 .. Len(inodes)
      BY <1>9, <2>2, <3>1 DEF Busy
    <3>3. inodes'[doing'[v].stage] = inodes[doing[v].stage]
      BY <1>7, <3>1, <3>2
    <3> QED
      BY <3>1, <3>3 DEF StagesAreOwn
  <2> QED
    BY <2>1, <2>2
<1>14. FilesAreWhole'
  <2>1. \A g \in Files : directory'[g] # 0 =>
          directory[g] = directory'[g] /\ inodes'[directory[g]].chunks = inodes[directory[g]].chunks
    BY <1>1, <1>7, <1>10 DEF NamesOK
  <2> QED
    BY <1>6, <2>1, NamesAreLeftAlone
<1>15. ReadersGoThrough'
  <2>1. \A r \in Readers : open_inode[r] # 0 =>
          inodes'[open_inode[r]].chunks = inodes[open_inode[r]].chunks
    BY <1>7, <1>10 DEF ReadersOK
  <2> QED
    BY <1>1, <1>6, <2>1, ReadersAreLeftAlone
<1> QED
  BY <1>7, <1>8, <1>12, <1>13, <1>14, <1>15

LEMMA FilesNextInv == FilesInv /\ [FilesNext]_filesVars => FilesInv'
<1> SUFFICES ASSUME FilesInv, [FilesNext]_filesVars PROVE FilesInv'
  OBVIOUS
<1> USE FilesAssumption DEF At, FilesInv
<1>1. ASSUME NEW u \in Uploads, Stages(u) PROVE FilesInv'
  BY <1>1, StagesInv
<1>2. ASSUME NEW u \in Uploads, Receives(u) PROVE FilesInv'
  BY <1>2, ReceivesInv
<1>3. ASSUME NEW u \in Uploads, Finishes(u) PROVE FilesInv'
  <2>1. UploadsGoOn
    BY <1>3 DEF Finishes, Reading, UploadsGoOn
  <2>2. InodesOK'
    BY <2>1, <1>3 DEF Finishes, Reading, InodesOK
  <2>3. NamesOK'
    BY <2>1, <1>3 DEF Finishes, Reading, NamesOK
  <2>4. UploadsOK'
    BY <2>1, <1>3 DEF Finishes, Reading, UploadsOK, UploadStates
  <2>5. ReadersOK'
    BY <2>1, <1>3 DEF Finishes, Reading, ReadersOK
  <2>6. StagesArePrivate'
    BY <2>1, <1>3 DEF Finishes, Reading, UploadsOK, UploadStates, NamesOK, StagesArePrivate, Busy
  <2>7. StagesAreOwn'
    BY <2>1, <1>3 DEF Finishes, Reading, UploadsOK, UploadStates, StagesArePrivate, Busy, StagesAreOwn
  <2>8. FilesAreWhole'
    <3>1. \A f \in Files : directory'[f] # 0 => \E g \in Files : directory[g] = directory'[f] /\ inodes'[directory[g]].chunks = inodes[directory[g]].chunks
      BY <2>1, <1>3 DEF Finishes, Reading, NamesOK, InodesOK
    <3> QED
      BY <3>1, <2>1, NamesAreLeftAlone
  <2>9. ReadersGoThrough'
    BY <2>1, <2>1, <1>3, ReadersAreLeftAlone DEF Finishes, Reading, ReadersOK
  <2> QED
    BY <2>2, <2>3, <2>4, <2>5, <2>6, <2>7, <2>8, <2>9
<1>4. ASSUME NEW u \in Uploads, Breaks(u) PROVE FilesInv'
  <2>1. UploadsGoOn
    BY <1>4 DEF Breaks, Reading, UploadsGoOn
  <2>2. InodesOK'
    BY <2>1, <1>4 DEF Breaks, Reading, InodesOK
  <2>3. NamesOK'
    BY <2>1, <1>4 DEF Breaks, Reading, NamesOK
  <2>4. UploadsOK'
    BY <2>1, <1>4 DEF Breaks, Reading, UploadsOK, UploadStates
  <2>5. ReadersOK'
    BY <2>1, <1>4 DEF Breaks, Reading, ReadersOK
  <2>6. StagesArePrivate'
    BY <2>1, <1>4 DEF Breaks, Reading, UploadsOK, UploadStates, NamesOK, StagesArePrivate, Busy
  <2>7. StagesAreOwn'
    BY <2>1, <1>4 DEF Breaks, Reading, UploadsOK, UploadStates, StagesArePrivate, Busy, StagesAreOwn
  <2>8. FilesAreWhole'
    <3>1. \A f \in Files : directory'[f] # 0 => \E g \in Files : directory[g] = directory'[f] /\ inodes'[directory[g]].chunks = inodes[directory[g]].chunks
      BY <2>1, <1>4 DEF Breaks, Reading, NamesOK, InodesOK
    <3> QED
      BY <3>1, <2>1, NamesAreLeftAlone
  <2>9. ReadersGoThrough'
    BY <2>1, <2>1, <1>4, ReadersAreLeftAlone DEF Breaks, Reading, ReadersOK
  <2> QED
    BY <2>2, <2>3, <2>4, <2>5, <2>6, <2>7, <2>8, <2>9
<1>5. ASSUME NEW u \in Uploads, CleansUp(u) PROVE FilesInv'
  <2>1. UploadsGoOn
    BY <1>5 DEF CleansUp, Reading, Unstaged, UploadsGoOn
  <2>2. InodesOK'
    BY <2>1, <1>5 DEF CleansUp, Reading, Unstaged, InodesOK
  <2>3. NamesOK'
    BY <2>1, <1>5 DEF CleansUp, Reading, Unstaged, NamesOK
  <2>4. UploadsOK'
    BY <2>1, <1>5 DEF CleansUp, Reading, Unstaged, UploadsOK, UploadStates
  <2>5. ReadersOK'
    BY <2>1, <1>5 DEF CleansUp, Reading, Unstaged, ReadersOK
  <2>6. StagesArePrivate'
    BY <2>1, <1>5 DEF CleansUp, Reading, Unstaged, UploadsOK, UploadStates, NamesOK, StagesArePrivate, Busy
  <2>7. StagesAreOwn'
    BY <2>1, <1>5 DEF CleansUp, Reading, Unstaged, UploadsOK, UploadStates, StagesArePrivate, Busy, StagesAreOwn
  <2>8. FilesAreWhole'
    <3>1. \A f \in Files : directory'[f] # 0 => \E g \in Files : directory[g] = directory'[f] /\ inodes'[directory[g]].chunks = inodes[directory[g]].chunks
      BY <2>1, <1>5 DEF CleansUp, Reading, Unstaged, NamesOK, InodesOK
    <3> QED
      BY <3>1, <2>1, NamesAreLeftAlone
  <2>9. ReadersGoThrough'
    BY <2>1, <2>1, <1>5, ReadersAreLeftAlone DEF CleansUp, Reading, Unstaged, ReadersOK
  <2> QED
    BY <2>2, <2>3, <2>4, <2>5, <2>6, <2>7, <2>8, <2>9
<1>6. ASSUME NEW u \in Uploads, LooksAtMode(u) PROVE FilesInv'
  <2>1. /\ inodes' = inodes /\ directory' = directory /\ staged' = staged /\ running' = running
        /\ upload[u] = "looking" /\ upload' \in [Uploads -> UploadStates]
        /\ upload'[u] \in {"carrying", "renaming"} /\ \A v \in Uploads \ {u} : upload'[v] = upload[v]
    BY <1>6 DEF LooksAtMode, UploadsOK, UploadStates
  <2>2. /\ \A v \in Uploads : /\ doing'[v].stage = doing[v].stage /\ doing'[v].length = doing[v].length
                              /\ doing'[v].written = doing[v].written
        /\ doing' \in [Uploads -> [of : Files, stage : 0 .. Len(inodes), length : Nat,
                                   written : Nat, mode : Modes]]
    <3>1. CASE doing' = doing
      BY <3>1 DEF UploadsOK
    <3>2. CASE doing' # doing
      <4>1. directory[doing[u].of] \in 1 .. Len(inodes)
            /\ doing' = [doing EXCEPT ![u].mode = inodes[directory[doing[u].of]].mode]
        BY <3>2, <1>6 DEF LooksAtMode, NamesOK, UploadsOK
      <4>2. inodes[directory[doing[u].of]].mode \in Modes
        BY <4>1, InodeIsTyped
      <4> QED
        BY <4>1, <4>2 DEF UploadsOK
    <3> QED
      BY <3>1, <3>2
  <2>3. UploadsGoOn
    BY <2>1, <2>2 DEF UploadsGoOn
  <2>4. InodesOK'
    BY <2>3, <1>6 DEF LooksAtMode, Reading, InodesOK
  <2>5. NamesOK'
    BY <2>3, <1>6 DEF LooksAtMode, Reading, NamesOK
  <2>6. UploadsOK'
    BY <2>1, <2>2 DEF UploadsOK
  <2>7. ReadersOK'
    BY <2>3, <1>6 DEF LooksAtMode, Reading, ReadersOK
  <2>8. StagesArePrivate'
    <3>1. UNCHANGED <<directory, open_inode>> /\ \A v \in Uploads : Busy(v)' => Busy(v)
      BY <2>1, <1>6 DEF Busy, LooksAtMode, Reading
    <3> QED
      BY <2>2, <3>1 DEF StagesArePrivate
  <2>9. StagesAreOwn'
    <3>1. \A v \in Uploads :
            upload'[v] \in {"receiving", "looking", "carrying", "renaming"} =>
                /\ upload[v] \in {"receiving", "looking", "carrying", "renaming"}
                /\ upload'[v] = "receiving" <=> upload[v] = "receiving"
      BY <2>1
    <3> QED
      <4> SUFFICES ASSUME NEW v \in Uploads,
                          upload'[v] \in {"receiving", "looking", "carrying", "renaming"}
                   PROVE  (/\ \A i \in 1 .. Len(inodes[doing[v].stage].chunks) :
                                inodes[doing[v].stage].chunks[i] = v
                           /\ Len(inodes[doing[v].stage].chunks) = doing[v].written
                           /\ upload[v] # "receiving" => doing[v].written = doing[v].length)'
        BY DEF StagesAreOwn
      <4>1. /\ \A i \in 1 .. Len(inodes[doing[v].stage].chunks) :
                 inodes[doing[v].stage].chunks[i] = v
            /\ Len(inodes[doing[v].stage].chunks) = doing[v].written
            /\ upload[v] # "receiving" => doing[v].written = doing[v].length
        BY <3>1 DEF StagesAreOwn
      <4>2. inodes'[doing'[v].stage] = inodes[doing[v].stage]
        BY <2>1, <2>2
      <4>3. upload'[v] # "receiving" => upload[v] # "receiving"
        BY <3>1
      <4> QED
        BY <2>2, <4>1, <4>2, <4>3
  <2>10. FilesAreWhole'
    BY <2>1, <2>3, NamesAreLeftAlone
  <2>11. ReadersGoThrough'
    BY <2>1, <2>3, <1>6, ReadersAreLeftAlone DEF LooksAtMode
  <2> QED
    BY <2>4, <2>5, <2>6, <2>7, <2>8, <2>9, <2>10, <2>11
<1>7. ASSUME NEW u \in Uploads, CarriesMode(u) PROVE FilesInv'
  <2>1. UploadsGoOn
    BY <1>7 DEF CarriesMode, Reading, UploadsGoOn
  <2>2. InodesOK' /\ Len(inodes') = Len(inodes)
        /\ \A i \in 1 .. Len(inodes) : inodes'[i].chunks = inodes[i].chunks
    <3>1. CASE inodes' = inodes
      BY <3>1 DEF InodesOK
    <3>2. CASE inodes' # inodes
      <4>1. doing[u].stage \in 1 .. Len(inodes) /\ doing[u].mode \in Modes
        <5>1. Busy(u) /\ doing[u] \in [of : Files, stage : 0 .. Len(inodes), length : Nat,
                                       written : Nat, mode : Modes]
          BY <1>7 DEF CarriesMode, UploadsOK, Busy
        <5> QED
          BY <5>1 DEF StagesArePrivate
      <4>2. inodes' = [inodes EXCEPT ![doing[u].stage].mode = doing[u].mode]
        BY <3>2, <1>7 DEF CarriesMode
      <4> QED
        BY <4>1, <4>2, MarkedInode
    <3> QED
      BY <3>1, <3>2
  <2>3. InodesOK'
    BY <2>2
  <2>4. NamesOK'
    BY <2>2, <1>7 DEF CarriesMode, Reading, NamesOK
  <2>5. UploadsOK'
    BY <2>2, <1>7 DEF CarriesMode, Reading, UploadsOK, UploadStates
  <2>6. ReadersOK'
    BY <2>2, <1>7 DEF CarriesMode, Reading, ReadersOK
  <2>7. StagesArePrivate'
    BY <2>2, <1>7 DEF CarriesMode, Reading, UploadsOK, UploadStates, NamesOK, StagesArePrivate, Busy
  <2>8. StagesAreOwn'
    <3>1. \A v \in Uploads : Busy(v) => doing[v].stage \in 1 .. Len(inodes)
      BY DEF StagesArePrivate, Busy, UploadsOK
    <3>2. doing' = doing
          /\ \A v \in Uploads : upload'[v] # upload[v] => upload'[v] = "renaming" /\ upload[v] = "carrying"
      BY <1>7 DEF CarriesMode, UploadsOK
    <3> QED
      BY <2>2, <3>1, <3>2 DEF StagesAreOwn, Busy
  <2>9. FilesAreWhole'
    <3>1. \A f \in Files : directory'[f] # 0 => \E g \in Files : directory[g] = directory'[f] /\ inodes'[directory[g]].chunks = inodes[directory[g]].chunks
      BY <2>2, <1>7 DEF CarriesMode, Reading, NamesOK, InodesOK
    <3> QED
      BY <3>1, <2>1, NamesAreLeftAlone
  <2>10. ReadersGoThrough'
    BY <2>1, <2>2, <1>7, ReadersAreLeftAlone DEF CarriesMode, Reading, ReadersOK
  <2> QED
    BY <2>3, <2>4, <2>5, <2>6, <2>7, <2>8, <2>9, <2>10
<1>8. ASSUME NEW u \in Uploads, Replaces(u) PROVE FilesInv'
  <2>1. /\ inodes' = inodes /\ doing' = doing /\ running' = running
        /\ upload[u] = "renaming" /\ upload' \in [Uploads -> UploadStates]
        /\ \A v \in Uploads \ {u} : upload'[v] = upload[v]
        /\ \/ upload'[u] = "failed" /\ UNCHANGED <<directory, staged>>
           \/ /\ upload'[u] = "over" /\ staged' = Unstaged(u)
              /\ directory' = [directory EXCEPT ![doing[u].of] = doing[u].stage]
    BY <1>8 DEF Replaces, RenamedOver, UploadsOK, UploadStates
  <2>2. /\ doing[u].stage \in 1 .. Len(inodes) /\ doing[u].of \in Files
        /\ \A v \in Uploads \ {u} : Busy(v) => doing[v].stage # doing[u].stage
    <3>1. Busy(u) /\ doing[u].stage \in 0 .. Len(inodes) /\ doing[u].of \in Files
      BY <2>1 DEF UploadsOK, Busy
    <3> QED
      BY <3>1 DEF StagesArePrivate
  <2>3. UploadsGoOn
    BY <2>1 DEF UploadsGoOn
  <2>4. InodesOK'
    BY <2>3, <1>8 DEF Replaces, Reading, RenamedOver, Unstaged, InodesOK
  <2>5. NamesOK'
    <3>1. directory' \in [Files -> 0 .. Len(inodes)]
      BY <2>1, <2>2 DEF NamesOK
    <3>2. staged' \subseteq staged
      BY <2>1 DEF Unstaged
    <3> QED
      BY <2>1, <3>1, <3>2 DEF NamesOK
  <2>6. UploadsOK'
    BY <2>1 DEF UploadsOK
  <2>7. ReadersOK'
    BY <2>3, <1>8 DEF Replaces, Reading, RenamedOver, Unstaged, ReadersOK
  <2>8. StagesArePrivate'
    <3> SUFFICES ASSUME NEW v \in Uploads, Busy(v)'
                 PROVE  /\ doing[v].stage # 0
                        /\ \A w \in Uploads \ {v} : doing[w].stage # doing[v].stage
                        /\ \A f \in Files : directory'[f] # doing[v].stage
                        /\ \A r \in Readers : open_inode[r] # doing[v].stage
      BY <2>1, <1>8 DEF StagesArePrivate, Replaces, Reading
    <3>1. Busy(v)
      BY <2>1 DEF Busy
    <3>2. CASE UNCHANGED directory
      BY <3>1, <3>2 DEF StagesArePrivate
    <3>3. CASE v # u /\ directory' = [directory EXCEPT ![doing[u].of] = doing[u].stage]
      BY <2>2, <3>1, <3>3 DEF StagesArePrivate, NamesOK
    <3> QED
      BY <2>1, <3>2, <3>3 DEF Busy
  <2>9. StagesAreOwn'
    BY <2>1 DEF StagesAreOwn
  <2>10. FilesAreWhole'
    <3>1. CASE UNCHANGED directory
      BY <3>1, <2>1, <2>3, NamesAreLeftAlone
    <3>2. CASE directory' = [directory EXCEPT ![doing[u].of] = doing[u].stage]
      <4> DEFINE chunks == inodes[doing[u].stage].chunks
      <4>1. /\ \A i \in 1 .. Len(chunks) : chunks[i] = u
            /\ Len(chunks) = doing[u].length
        BY <2>1 DEF StagesAreOwn
      <4>2. DOMAIN chunks = 1 .. Len(chunks)
        BY <2>2, InodeIsTyped, LenProperties
      <4>3. ASSUME NEW f \in Files, directory'[f] # 0 PROVE Whole(inodes[directory[f]].chunks)'
        <5>1. CASE f = doing[u].of
          <6>1. directory'[f] = doing[u].stage
            BY <3>2, <5>1 DEF NamesOK
          <6> QED
            BY <4>1, <4>2, <6>1, <2>1, <2>3 DEF Whole, UploadsGoOn
        <5>2. CASE f # doing[u].of
          <6>1. directory'[f] = directory[f]
            BY <3>2, <5>2 DEF NamesOK
          <6>2. Whole(inodes[directory[f]].chunks)
            BY <4>3, <6>1 DEF FilesAreWhole
          <6> QED
            BY <6>1, <6>2, <2>1, <2>3 DEF Whole, UploadsGoOn
        <5> QED
          BY <5>1, <5>2
      <4> QED
        BY <4>3 DEF FilesAreWhole
    <3> QED
      BY <2>1, <3>1, <3>2
  <2>11. ReadersGoThrough'
    BY <2>1, <2>3, <1>8, ReadersAreLeftAlone DEF Replaces
  <2> QED
    BY <2>4, <2>5, <2>6, <2>7, <2>8, <2>9, <2>10, <2>11
<1>9. ASSUME NEW u \in Uploads, UploadIsDropped(u) PROVE FilesInv'
  <2>1. UploadsGoOn
    BY <1>9 DEF UploadIsDropped, Reading, UploadsGoOn
  <2>2. InodesOK'
    BY <2>1, <1>9 DEF UploadIsDropped, Reading, InodesOK
  <2>3. NamesOK'
    BY <2>1, <1>9 DEF UploadIsDropped, Reading, NamesOK
  <2>4. UploadsOK'
    BY <2>1, <1>9 DEF UploadIsDropped, Reading, UploadsOK, UploadStates
  <2>5. ReadersOK'
    BY <2>1, <1>9 DEF UploadIsDropped, Reading, ReadersOK
  <2>6. StagesArePrivate'
    BY <2>1, <1>9 DEF UploadIsDropped, Reading, UploadsOK, UploadStates, NamesOK, StagesArePrivate, Busy
  <2>7. StagesAreOwn'
    BY <2>1, <1>9 DEF UploadIsDropped, Reading, UploadsOK, UploadStates, StagesArePrivate, Busy, StagesAreOwn
  <2>8. FilesAreWhole'
    <3>1. \A f \in Files : directory'[f] # 0 => \E g \in Files : directory[g] = directory'[f] /\ inodes'[directory[g]].chunks = inodes[directory[g]].chunks
      BY <2>1, <1>9 DEF UploadIsDropped, Reading, NamesOK, InodesOK
    <3> QED
      BY <3>1, <2>1, NamesAreLeftAlone
  <2>9. ReadersGoThrough'
    BY <2>1, <2>1, <1>9, ReadersAreLeftAlone DEF UploadIsDropped, Reading, ReadersOK
  <2> QED
    BY <2>2, <2>3, <2>4, <2>5, <2>6, <2>7, <2>8, <2>9
<1>10. ASSUME NEW r \in Readers, Opens(r) PROVE FilesInv'
  <2>1. UploadsGoOn
    BY <1>10 DEF Opens, Reading, UploadsGoOn
  <2>2. /\ download[r] = "idle" /\ download' = [download EXCEPT ![r] = "streaming"] /\ delivered' = delivered
        /\ UNCHANGED <<inodes, directory, staged, running, upload, doing>>
        /\ \E f \in Files : directory[f] # 0 /\ open_inode' = [open_inode EXCEPT ![r] = directory[f]]
        /\ skipped' \in [Readers -> Nat] /\ \A q \in Readers \ {r} : skipped'[q] = skipped[q]
    BY <1>10, FilesAssumption DEF Opens, ReadersOK
  <2>3. InodesOK'
    BY <2>2, <1>10 DEF Opens, Reading, InodesOK
  <2>4. NamesOK'
    BY <2>2, <1>10 DEF Opens, Reading, NamesOK
  <2>5. UploadsOK'
    BY <2>2, <1>10 DEF Opens, Reading, UploadsOK, UploadStates
  <2>6. ReadersOK'
    <3>1. PICK f \in Files : directory[f] # 0 /\ open_inode' = [open_inode EXCEPT ![r] = directory[f]]
      BY <2>2
    <3> QED
      BY <2>2, <3>1 DEF ReadersOK, NamesOK
  <2>7. StagesArePrivate'
    <3>1. PICK f \in Files : directory[f] # 0 /\ open_inode' = [open_inode EXCEPT ![r] = directory[f]]
      BY <2>2
    <3> QED
      BY <2>2, <3>1 DEF StagesArePrivate, Busy, ReadersOK
  <2>8. StagesAreOwn'
    BY <2>2, <1>10 DEF Opens, Reading, UploadsOK, UploadStates, StagesArePrivate, Busy, StagesAreOwn
  <2>9. FilesAreWhole'
    <3>1. \A f \in Files : directory'[f] # 0 => \E g \in Files : directory[g] = directory'[f] /\ inodes'[directory[g]].chunks = inodes[directory[g]].chunks
      BY <2>2, <1>10 DEF Opens, Reading, NamesOK, InodesOK
    <3> QED
      BY <3>1, <2>1, NamesAreLeftAlone
  <2>10. ReadersGoThrough'
    <3>1. PICK f \in Files : directory[f] # 0 /\ open_inode' = [open_inode EXCEPT ![r] = directory[f]]
      BY <2>2
    <3>2. ASSUME NEW q \in Readers, q # r PROVE GoesThrough(q)'
      <4>1. GoesThrough(q)
        BY DEF ReadersGoThrough
      <4>2. /\ open_inode'[q] = open_inode[q] /\ download'[q] = download[q]
            /\ skipped'[q] = skipped[q] /\ delivered'[q] = delivered[q]
        BY <2>2, <3>1, <3>2 DEF ReadersOK
      <4> QED
        BY <2>2, <4>1, <4>2 DEF GoesThrough, Whole
    <3>3. GoesThrough(r)'
      <4>1. /\ open_inode'[r] = directory[f] /\ download'[r] = "streaming" /\ delivered'[r] = <<>>
        BY <2>2, <3>1 DEF ReadersOK, ReadersGoThrough, GoesThrough
      <4>2. Whole(inodes[directory[f]].chunks)
        BY <3>1 DEF FilesAreWhole
      <4>3. Len(delivered'[r]) = 0
        BY <4>1
      <4> QED
        BY <2>2, <3>1, <4>1, <4>2, <4>3 DEF GoesThrough, Whole
    <3> QED
      BY <3>2, <3>3 DEF ReadersGoThrough
  <2> QED
    BY <2>3, <2>4, <2>5, <2>6, <2>7, <2>8, <2>9, <2>10
<1>11. ASSUME NEW r \in Readers, StreamsChunk(r) PROVE FilesInv'
  <2>1. UploadsGoOn
    BY <1>11 DEF StreamsChunk, Reading, UploadsGoOn
  <2>2. /\ download[r] = "streaming" /\ open_inode' = open_inode /\ skipped' = skipped
        /\ UNCHANGED <<inodes, directory, staged, running, upload, doing>>
        /\ open_inode[r] \in 1 .. Len(inodes) /\ inodes[open_inode[r]].chunks \in Seq(Uploads \cup {0})
        /\ delivered[r] \in Seq(Uploads \cup {0}) /\ skipped[r] \in Nat
    <3>1. download[r] = "streaming" /\ open_inode[r] # 0
      BY <1>11 DEF StreamsChunk, ReadersGoThrough, GoesThrough
    <3>2. open_inode[r] \in 1 .. Len(inodes) /\ delivered[r] \in Seq(Uploads \cup {0}) /\ skipped[r] \in Nat
      BY <3>1 DEF ReadersOK
    <3> QED
      BY <3>1, <3>2, <1>11, InodeIsTyped DEF StreamsChunk
  <2> DEFINE chunks == inodes[open_inode[r]].chunks
             next == skipped[r] + Len(delivered[r]) + 1
  <2>3. \/ /\ next <= Len(chunks) /\ download' = download
           /\ delivered' = [delivered EXCEPT ![r] = Append(@, chunks[next])]
        \/ /\ ~(next <= Len(chunks)) /\ delivered' = delivered
           /\ download' = [download EXCEPT ![r] = "whole"]
    BY <1>11 DEF StreamsChunk
  <2>4. /\ delivered' \in [Readers -> Seq(Uploads \cup {0})]
        /\ download' \in [Readers -> {"idle", "streaming", "whole", "cut"}]
        /\ \A q \in Readers \ {r} : delivered'[q] = delivered[q] /\ download'[q] = download[q]
        /\ \/ /\ next <= Len(chunks) /\ download'[r] = "streaming"
              /\ Len(delivered'[r]) = Len(delivered[r]) + 1
              /\ \A i \in 1 .. Len(delivered[r]) : delivered'[r][i] = delivered[r][i]
              /\ delivered'[r][Len(delivered[r]) + 1] = chunks[next]
           \/ /\ ~(next <= Len(chunks)) /\ delivered'[r] = delivered[r]
              /\ download'[r] = "whole"
    <3>1. CASE next <= Len(chunks)
      <4>1. Len(chunks) \in Nat /\ Len(delivered[r]) \in Nat
        BY <2>2, LenProperties
      <4>2. chunks[next] \in Uploads \cup {0}
        BY <2>2, <3>1, <4>1, ElementOfSeq
      <4> DEFINE e == chunks[next]
      <4>3. delivered' = [delivered EXCEPT ![r] = Append(delivered[r], e)] /\ download' = download
        BY <2>3, <3>1
      <4> HIDE DEF e
      <4>4. /\ Append(delivered[r], e) \in Seq(Uploads \cup {0})
            /\ Len(Append(delivered[r], e)) = Len(delivered[r]) + 1
            /\ \A i \in 1 .. Len(delivered[r]) : Append(delivered[r], e)[i] = delivered[r][i]
            /\ Append(delivered[r], e)[Len(delivered[r]) + 1] = e
        BY <2>2, <4>2, AppendProperties DEF e
      <4>5. delivered'[r] = Append(delivered[r], e)
        BY <4>3 DEF ReadersOK
      <4>6. /\ delivered' \in [Readers -> Seq(Uploads \cup {0})]
            /\ \A q \in Readers \ {r} : delivered'[q] = delivered[q]
        BY <4>3, <4>4 DEF ReadersOK
      <4>7. download'[r] = "streaming" /\ download' \in [Readers -> {"idle", "streaming", "whole", "cut"}]
        BY <2>2, <4>3 DEF ReadersOK
      <4> QED
        BY <3>1, <4>3, <4>4, <4>5, <4>6, <4>7 DEF e
    <3>2. CASE ~(next <= Len(chunks))
      BY <2>3, <3>2 DEF ReadersOK
    <3> QED
      BY <3>1, <3>2
  <2>5. InodesOK'
    BY <2>4, <1>11 DEF StreamsChunk, Reading, InodesOK
  <2>6. NamesOK'
    BY <2>4, <1>11 DEF StreamsChunk, Reading, NamesOK
  <2>7. UploadsOK'
    BY <2>4, <1>11 DEF StreamsChunk, Reading, UploadsOK, UploadStates
  <2>8. ReadersOK'
    BY <2>2, <2>4 DEF ReadersOK
  <2>9. StagesArePrivate'
    BY <2>4, <1>11 DEF StreamsChunk, Reading, UploadsOK, UploadStates, NamesOK, StagesArePrivate, Busy
  <2>10. StagesAreOwn'
    BY <2>4, <1>11 DEF StreamsChunk, Reading, UploadsOK, UploadStates, StagesArePrivate, Busy, StagesAreOwn
  <2>11. FilesAreWhole'
    <3>1. \A f \in Files : directory'[f] # 0 => \E g \in Files : directory[g] = directory'[f] /\ inodes'[directory[g]].chunks = inodes[directory[g]].chunks
      BY <2>4, <1>11 DEF StreamsChunk, Reading, NamesOK, InodesOK
    <3> QED
      BY <3>1, <2>1, NamesAreLeftAlone
  <2>12. ReadersGoThrough'
    <3>1. ASSUME NEW q \in Readers, q # r PROVE GoesThrough(q)'
      <4>1. GoesThrough(q) /\ delivered'[q] = delivered[q] /\ download'[q] = download[q]
        BY <2>4, <3>1 DEF ReadersGoThrough
      <4> QED
        BY <2>2, <4>1 DEF GoesThrough, Whole
    <3>2. GoesThrough(r)'
      <4>1. /\ open_inode[r] # 0 /\ Whole(chunks)
            /\ delivered[r] # <<>> => skipped[r] + Len(delivered[r]) <= Len(chunks)
            /\ \A i \in 1 .. Len(delivered[r]) : delivered[r][i] = chunks[skipped[r] + i]
        BY <2>2 DEF ReadersGoThrough, GoesThrough
      <4>2. Len(chunks) \in Nat /\ Len(delivered[r]) \in Nat /\ skipped[r] \in Nat
        BY <2>2, LenProperties
      <4>3. Whole(inodes[open_inode[r]].chunks)'
        BY <2>2, <4>1 DEF Whole
      <4>4. /\ download'[r] # "idle"
            /\ delivered'[r] # <<>> => skipped[r] + Len(delivered'[r]) <= Len(chunks)
            /\ \A i \in 1 .. Len(delivered'[r]) : delivered'[r][i] = chunks[skipped[r] + i]
            /\ download'[r] = "whole" => skipped[r] + Len(delivered'[r]) >= Len(chunks)
        <5>1. CASE next <= Len(chunks)
          <6>1. /\ download'[r] = "streaming" /\ Len(delivered'[r]) = Len(delivered[r]) + 1
                /\ \A i \in 1 .. Len(delivered[r]) : delivered'[r][i] = delivered[r][i]
                /\ delivered'[r][Len(delivered[r]) + 1] = chunks[next]
            BY <2>4, <5>1
          <6>2. next = skipped[r] + (Len(delivered[r]) + 1)
            BY <4>2
          <6> HIDE DEF chunks, next
          <6>3. \A i \in 1 .. Len(delivered'[r]) : i \in 1 .. Len(delivered[r]) \/ i = Len(delivered[r]) + 1
            BY <4>2, <6>1
          <6>4. skipped[r] + Len(delivered'[r]) <= Len(chunks)
            BY <5>1, <6>1, <6>2
          <6>5. \A i \in 1 .. Len(delivered'[r]) : delivered'[r][i] = chunks[skipped[r] + i]
            BY <4>1, <6>1, <6>2, <6>3
          <6> QED
            BY <6>1, <6>4, <6>5
        <5>2. CASE ~(next <= Len(chunks))
          <6>1. download'[r] = "whole" /\ delivered'[r] = delivered[r]
            BY <2>4, <5>2
          <6>2. skipped[r] + Len(delivered[r]) >= Len(chunks)
            BY <4>2, <5>2
          <6> HIDE DEF chunks, next
          <6> QED
            BY <4>1, <4>2, <6>1, <6>2
        <5> QED
          BY <5>1, <5>2
      <4> QED
        BY <2>2, <4>1, <4>3, <4>4 DEF GoesThrough
    <3> QED
      BY <3>1, <3>2 DEF ReadersGoThrough
  <2> QED
    BY <2>5, <2>6, <2>7, <2>8, <2>9, <2>10, <2>11, <2>12
<1>12. CASE RenamesFile
  <2>1. UploadsGoOn
    BY <1>12 DEF RenamesFile, Reading, UploadsGoOn
  <2>2. InodesOK'
    BY <2>1, <1>12 DEF RenamesFile, Reading, InodesOK
  <2>3. NamesOK'
    BY <2>1, <1>12 DEF RenamesFile, Reading, NamesOK
  <2>4. UploadsOK'
    BY <2>1, <1>12 DEF RenamesFile, Reading, UploadsOK, UploadStates
  <2>5. ReadersOK'
    BY <2>1, <1>12 DEF RenamesFile, Reading, ReadersOK
  <2>6. StagesArePrivate'
    BY <2>1, <1>12 DEF RenamesFile, Reading, UploadsOK, UploadStates, NamesOK, StagesArePrivate, Busy
  <2>7. StagesAreOwn'
    BY <2>1, <1>12 DEF RenamesFile, Reading, UploadsOK, UploadStates, StagesArePrivate, Busy, StagesAreOwn
  <2>8. FilesAreWhole'
    <3>1. \A f \in Files : directory'[f] # 0 => \E g \in Files : directory[g] = directory'[f] /\ inodes'[directory[g]].chunks = inodes[directory[g]].chunks
      BY <2>1, <1>12 DEF RenamesFile, Reading, NamesOK, InodesOK
    <3> QED
      BY <3>1, <2>1, NamesAreLeftAlone
  <2>9. ReadersGoThrough'
    BY <2>1, <2>1, <1>12, ReadersAreLeftAlone DEF RenamesFile, Reading, ReadersOK
  <2> QED
    BY <2>2, <2>3, <2>4, <2>5, <2>6, <2>7, <2>8, <2>9
<1>13. CASE RemovesFile
  <2>1. UploadsGoOn
    BY <1>13 DEF RemovesFile, Reading, UploadsGoOn
  <2>2. InodesOK'
    BY <2>1, <1>13 DEF RemovesFile, Reading, InodesOK
  <2>3. NamesOK'
    BY <2>1, <1>13 DEF RemovesFile, Reading, NamesOK
  <2>4. UploadsOK'
    BY <2>1, <1>13 DEF RemovesFile, Reading, UploadsOK, UploadStates
  <2>5. ReadersOK'
    BY <2>1, <1>13 DEF RemovesFile, Reading, ReadersOK
  <2>6. StagesArePrivate'
    BY <2>1, <1>13 DEF RemovesFile, Reading, UploadsOK, UploadStates, NamesOK, StagesArePrivate, Busy
  <2>7. StagesAreOwn'
    BY <2>1, <1>13 DEF RemovesFile, Reading, UploadsOK, UploadStates, StagesArePrivate, Busy, StagesAreOwn
  <2>8. FilesAreWhole'
    <3>1. \A f \in Files : directory'[f] # 0 => \E g \in Files : directory[g] = directory'[f] /\ inodes'[directory[g]].chunks = inodes[directory[g]].chunks
      BY <2>1, <1>13 DEF RemovesFile, Reading, NamesOK, InodesOK
    <3> QED
      BY <3>1, <2>1, NamesAreLeftAlone
  <2>9. ReadersGoThrough'
    BY <2>1, <2>1, <1>13, ReadersAreLeftAlone DEF RemovesFile, Reading, ReadersOK
  <2> QED
    BY <2>2, <2>3, <2>4, <2>5, <2>6, <2>7, <2>8, <2>9
<1>14. CASE ChangesMode
  <2>1. UploadsGoOn
    BY <1>14 DEF ChangesMode, Reading, UploadsGoOn
  <2>2. InodesOK' /\ Len(inodes') = Len(inodes)
        /\ \A i \in 1 .. Len(inodes) : inodes'[i].chunks = inodes[i].chunks
    <3>1. PICK f \in Files, mode \in Modes :
            directory[f] # 0 /\ inodes' = [inodes EXCEPT ![directory[f]].mode = mode]
      BY <1>14 DEF ChangesMode
    <3>2. directory[f] \in 1 .. Len(inodes)
      BY <3>1 DEF NamesOK
    <3> QED
      BY <3>1, <3>2, MarkedInode
  <2>3. InodesOK'
    BY <2>2
  <2>4. NamesOK'
    BY <2>2, <1>14 DEF ChangesMode, Reading, NamesOK
  <2>5. UploadsOK'
    BY <2>2, <1>14 DEF ChangesMode, Reading, UploadsOK, UploadStates
  <2>6. ReadersOK'
    BY <2>2, <1>14 DEF ChangesMode, Reading, ReadersOK
  <2>7. StagesArePrivate'
    BY <2>2, <1>14 DEF ChangesMode, Reading, UploadsOK, UploadStates, NamesOK, StagesArePrivate, Busy
  <2>8. StagesAreOwn'
    BY <2>2, <1>14 DEF ChangesMode, Reading, UploadsOK, UploadStates, StagesArePrivate, Busy, StagesAreOwn
  <2>9. FilesAreWhole'
    <3>1. \A f \in Files : directory'[f] # 0 => \E g \in Files : directory[g] = directory'[f] /\ inodes'[directory[g]].chunks = inodes[directory[g]].chunks
      BY <2>2, <1>14 DEF ChangesMode, Reading, NamesOK, InodesOK
    <3> QED
      BY <3>1, <2>1, NamesAreLeftAlone
  <2>10. ReadersGoThrough'
    BY <2>1, <2>2, <1>14, ReadersAreLeftAlone DEF ChangesMode, Reading, ReadersOK
  <2> QED
    BY <2>3, <2>4, <2>5, <2>6, <2>7, <2>8, <2>9, <2>10
<1>15. CASE Restarts
  <2>1. UploadsGoOn
    BY <1>15 DEF Restarts, Reading, UploadsGoOn
  <2>2. InodesOK'
    BY <2>1, <1>15 DEF Restarts, Reading, InodesOK
  <2>3. NamesOK'
    BY <2>1, <1>15 DEF Restarts, Reading, NamesOK
  <2>4. UploadsOK'
    BY <2>1, <1>15 DEF Restarts, Reading, UploadsOK, UploadStates
  <2>5. ReadersOK'
    BY <2>1, <1>15 DEF Restarts, Reading, ReadersOK
  <2>6. StagesArePrivate'
    BY <2>1, <1>15 DEF Restarts, Reading, UploadsOK, UploadStates, NamesOK, StagesArePrivate, Busy
  <2>7. StagesAreOwn'
    BY <2>1, <1>15 DEF Restarts, Reading, UploadsOK, UploadStates, StagesArePrivate, Busy, StagesAreOwn
  <2>8. FilesAreWhole'
    <3>1. \A f \in Files : directory'[f] # 0 => \E g \in Files : directory[g] = directory'[f] /\ inodes'[directory[g]].chunks = inodes[directory[g]].chunks
      BY <2>1, <1>15 DEF Restarts, Reading, NamesOK, InodesOK
    <3> QED
      BY <3>1, <2>1, NamesAreLeftAlone
  <2>9. ReadersGoThrough'
    <3> SUFFICES ASSUME NEW r \in Readers PROVE GoesThrough(r)'
      BY DEF ReadersGoThrough
    <3>1. GoesThrough(r)
      BY DEF ReadersGoThrough
    <3>2. /\ UNCHANGED <<inodes, doing, open_inode, skipped, delivered>>
          /\ download'[r] = download[r] \/ download'[r] = "cut"
      BY <1>15 DEF Restarts, ReadersOK
    <3>3. Whole(inodes[open_inode[r]].chunks) => Whole(inodes[open_inode[r]].chunks)'
      BY <2>1, <3>2 DEF Whole, UploadsGoOn
    <3> QED
      BY <3>1, <3>2, <3>3 DEF GoesThrough
  <2> QED
    BY <2>2, <2>3, <2>4, <2>5, <2>6, <2>7, <2>8, <2>9
<1>16. CASE UNCHANGED filesVars
  <2>1. UploadsGoOn
    BY <1>16 DEF filesVars, Reading, UploadsGoOn
  <2>2. InodesOK'
    BY <2>1, <1>16 DEF filesVars, Reading, InodesOK
  <2>3. NamesOK'
    BY <2>1, <1>16 DEF filesVars, Reading, NamesOK
  <2>4. UploadsOK'
    BY <2>1, <1>16 DEF filesVars, Reading, UploadsOK, UploadStates
  <2>5. ReadersOK'
    BY <2>1, <1>16 DEF filesVars, Reading, ReadersOK
  <2>6. StagesArePrivate'
    BY <2>1, <1>16 DEF filesVars, Reading, UploadsOK, UploadStates, NamesOK, StagesArePrivate, Busy
  <2>7. StagesAreOwn'
    BY <2>1, <1>16 DEF filesVars, Reading, UploadsOK, UploadStates, StagesArePrivate, Busy, StagesAreOwn
  <2>8. FilesAreWhole'
    <3>1. \A f \in Files : directory'[f] # 0 => \E g \in Files : directory[g] = directory'[f] /\ inodes'[directory[g]].chunks = inodes[directory[g]].chunks
      BY <2>1, <1>16 DEF filesVars, Reading, NamesOK, InodesOK
    <3> QED
      BY <3>1, <2>1, NamesAreLeftAlone
  <2>9. ReadersGoThrough'
    BY <2>1, <2>1, <1>16, ReadersAreLeftAlone DEF filesVars, Reading, ReadersOK
  <2> QED
    BY <2>2, <2>3, <2>4, <2>5, <2>6, <2>7, <2>8, <2>9
<1> QED
  BY <1>1, <1>2, <1>3, <1>4, <1>5, <1>6, <1>7, <1>8, <1>9, <1>10, <1>11, <1>12, <1>13, <1>14, <1>15, <1>16 DEF FilesNext

LEMMA FilesInitInv == FilesInit => FilesInv
<1> SUFFICES ASSUME FilesInit PROVE FilesInv
  OBVIOUS
<1> USE FilesAssumption
<1> DEFINE m == CHOOSE mode \in Modes : mode # Umask
           first == [chunks |-> <<0>>, mode |-> m]
<1>1. m \in Modes
  BY DEF FilesAssumption
<1>2. PICK f \in Files : /\ inodes = <<first>>
                         /\ directory = [g \in Files |-> IF g = f THEN 1 ELSE 0]
  BY DEF FilesInit
<1>3. <<0>> \in Seq(Uploads \cup {0}) /\ Len(<<0>>) = 1
  OBVIOUS
<1>4. first \in Inodes /\ first.chunks = <<0>>
  BY <1>1, <1>3 DEF Inodes
<1> HIDE DEF first
<1>5. inodes \in Seq(Inodes) /\ Len(inodes) = 1 /\ inodes[1].chunks = <<0>>
  BY <1>2, <1>4
<1>6. (CHOOSE g \in Files : TRUE) \in Files
  BY <1>2
<1>7. NothingDone \in [of : Files, stage : 0 .. 1, length : Nat, written : Nat, mode : Modes]
  BY <1>6 DEF NothingDone, FilesAssumption
<1>8. InodesOK
  BY <1>5 DEF InodesOK
<1>9. NamesOK
  BY <1>2, <1>5 DEF FilesInit, NamesOK
<1>10. UploadsOK
  BY <1>5, <1>7 DEF FilesInit, UploadsOK, UploadStates
<1>11. ReadersOK
  BY <1>5 DEF FilesInit, ReadersOK
<1>12. StagesArePrivate /\ StagesAreOwn
  BY DEF FilesInit, StagesArePrivate, StagesAreOwn, Busy
<1>13. FilesAreWhole
  BY <1>2, <1>5 DEF FilesAreWhole, Whole
<1>14. ReadersGoThrough
  BY DEF FilesInit, ReadersGoThrough, GoesThrough
<1> QED
  BY <1>8, <1>9, <1>10, <1>11, <1>12, <1>13, <1>14 DEF FilesInv

(* A name never leads to part of an upload: it leads to a whole file, the old
   one or a new one, whatever uploads, retries and restarts interleave.      *)
THEOREM NamesLeadToWholeFiles == FilesSpec => []FilesAreWhole
<1>1. FilesInv => FilesAreWhole
  BY DEF FilesInv
<1> QED
  BY <1>1, FilesInitInv, FilesNextInv, PTL DEF FilesSpec

(* A download that ends without an error delivered one version of the file,
   from its offset to its end, although uploads replace the name while it
   streams.                                                                  *)
THEOREM DownloadsAreOneVersion == FilesSpec => []ReadsAreOneVersion
<1>1. FilesInv => ReadsAreOneVersion
  <2> SUFFICES ASSUME FilesInv, NEW r \in Readers, download[r] = "whole"
               PROVE  EndOfOne(delivered[r], skipped[r])
    BY DEF ReadsAreOneVersion
  <2> DEFINE chunks == inodes[open_inode[r]].chunks
             length(u) == IF u = 0 THEN 1 ELSE doing[u].length
  <2>1. /\ open_inode[r] # 0 /\ Whole(chunks)
        /\ delivered[r] # <<>> => skipped[r] + Len(delivered[r]) <= Len(chunks)
        /\ \A i \in 1 .. Len(delivered[r]) : delivered[r][i] = chunks[skipped[r] + i]
        /\ skipped[r] + Len(delivered[r]) >= Len(chunks)
    BY DEF FilesInv, ReadersGoThrough, GoesThrough
  <2>2. /\ open_inode[r] \in 1 .. Len(inodes) /\ delivered[r] \in Seq(Uploads \cup {0})
        /\ skipped[r] \in Nat
    BY <2>1 DEF FilesInv, ReadersOK
  <2>3. chunks \in Seq(Uploads \cup {0})
    BY <2>2, InodeIsTyped DEF FilesInv
  <2>4. /\ Len(chunks) \in Nat /\ Len(delivered[r]) \in Nat
        /\ DOMAIN chunks = 1 .. Len(chunks) /\ DOMAIN delivered[r] = 1 .. Len(delivered[r])
    BY <2>2, <2>3, LenProperties
  <2>5. PICK u \in Uploads \cup {0} :
          /\ u # 0 => upload[u] # "idle"
          /\ Len(chunks) = length(u)
          /\ \A i \in DOMAIN chunks : chunks[i] = u
    <3>1. CASE chunks = <<0>>
      BY <3>1, <2>4
    <3>2. CASE chunks # <<0>>
      <4>1. PICK u \in Uploads : /\ upload[u] # "idle" /\ Len(chunks) = doing[u].length
                                 /\ \A i \in DOMAIN chunks : chunks[i] = u
        BY <2>1, <3>2 DEF Whole
      <4>2. u # 0
        BY FilesAssumption
      <4> QED
        BY <4>1, <4>2
    <3> QED
      BY <3>1, <3>2
  <2> HIDE DEF chunks
  <2>6. Len(delivered[r]) = IF skipped[r] < Len(chunks) THEN Len(chunks) - skipped[r] ELSE 0
    <3>1. CASE delivered[r] = <<>>
      BY <3>1, <2>1, <2>2, <2>4
    <3>2. CASE delivered[r] # <<>>
      <4>1. Len(delivered[r]) > 0
        BY <3>2, <2>2, <2>4, EmptySeq
      <4>2. skipped[r] + Len(delivered[r]) = Len(chunks)
        BY <3>2, <2>1, <2>2, <2>4
      <4> QED
        BY <4>1, <4>2, <2>2, <2>4
    <3> QED
      BY <3>1, <3>2
  <2>7. \A i \in DOMAIN delivered[r] : delivered[r][i] = u
    <3> SUFFICES ASSUME NEW i \in 1 .. Len(delivered[r]) PROVE delivered[r][i] = u
      BY <2>4
    <3>1. skipped[r] + i \in DOMAIN chunks
      BY <2>1, <2>2, <2>4, <2>6
    <3> QED
      BY <2>1, <2>5, <3>1
  <2> QED
    BY <2>5, <2>6, <2>7 DEF EndOfOne
<1> QED
  BY <1>1, FilesInitInv, FilesNextInv, PTL DEF FilesSpec

----------------------------------------------------------------------------
(* Host keys *)

\* What the trust argument needs of the types: a connection past its first
\* step has seen a key, and none was admitted in an era still to come.
HostsTypeOK ==
    /\ pinned \in HostKeys \cup {Unpinned} /\ presented \in HostKeys
    /\ era \in Nat
    /\ dial \in [Dials -> {"idle", "looking", "pinning", "comparing", "connected", "answering",
                           "authenticated", "shell"}]
    /\ seen \in [Dials -> HostKeys \cup {Unpinned}]
    /\ admittedIn \in [Dials -> Nat]

AdmissionsArePast ==
    \A d \in Dials : admittedIn[d] <= era /\ (dial[d] # "idle" => seen[d] \in HostKeys)

HostsInv == HostsTypeOK /\ AdmissionsArePast /\ OneKeyIsTrusted

LEMMA HostsInitInv == HostsInit => HostsInv
  BY HostsAssumption
     DEF HostsInit, HostsInv, HostsTypeOK, AdmissionsArePast, OneKeyIsTrusted, Talks

LEMMA HostsNextInv == HostsInv /\ [HostsNext]_hostsVars => HostsInv'
<1> SUFFICES ASSUME HostsInv, [HostsNext]_hostsVars PROVE HostsInv'
  OBVIOUS
<1> USE HostsAssumption
    DEF HostsInv, HostsTypeOK, AdmissionsArePast, OneKeyIsTrusted, Talks, DialAt, Admitted, Refused
<1>1. ASSUME NEW d \in Dials, Connects(d) PROVE HostsInv'
  BY <1>1 DEF Connects
<1>2. ASSUME NEW d \in Dials, Looks(d) PROVE HostsInv'
  BY <1>2 DEF Looks
<1>3. ASSUME NEW d \in Dials, Pins(d) PROVE HostsInv'
  BY <1>3 DEF Pins, Pinning
<1>4. ASSUME NEW d \in Dials, Compares(d) PROVE HostsInv'
  BY <1>4 DEF Compares, Agrees
<1>5. ASSUME NEW d \in Dials, CheckFails(d) PROVE HostsInv'
  BY <1>5 DEF CheckFails
<1>6. ASSUME NEW d \in Dials, Authenticates(d) \/ OpensShellOn(d) \/ HangsUp(d) PROVE HostsInv'
  BY <1>6 DEF Authenticates, OpensShellOn, HangsUp
<1>7. CASE ServerReplaced
  BY <1>7 DEF ServerReplaced
<1>8. CASE RowDeleted
  BY <1>8 DEF RowDeleted
<1>9. CASE UNCHANGED hostsVars
  BY <1>9 DEF hostsVars
<1> QED
  BY <1>1, <1>2, <1>3, <1>4, <1>5, <1>6, <1>7, <1>8, <1>9 DEF HostsNext

(* Connections that race to be the first trust one key: every server that is
   sent a credential presented the key on record.                            *)
THEOREM OneKeyForAll == HostsSpec => []OneKeyIsTrusted
<1>1. HostsInv => OneKeyIsTrusted
  BY DEF HostsInv
<1> QED
  BY HostsInitInv, HostsNextInv, <1>1, PTL DEF HostsSpec

----------------------------------------------------------------------------
(* The configuration file *)

Steps == {"idle", "waiting", "backup", "prune", "temp", "rename", "sync", "written", "failed"}

AgentTypesOK ==
  /\ file \in Configurations \cup {None} /\ safe \in Configurations \cup {None}
  /\ json \in Configurations \cup {None}
  /\ agent_state \in {"down", "loading", "serving"}
  /\ live \in Int /\ full_access_off \in BOOLEAN
  /\ lock \in Savers \cup {NoHolder}
  /\ step \in [Writers -> Steps]
  /\ copy \in [Writers -> Configurations \cup {None}]
  /\ request \in [Writers -> Asks \cup {None}]
  /\ legit \in [Keys -> SUBSET Optional]
  /\ stale \in SUBSET Keys

\* A saver at work holds the lock, between its read and its answer.
AtWork(w) == step[w] \notin {"idle", "waiting"}
TurnsOK ==
  /\ \A h \in Savers : AtWork(h) <=> lock = h
  /\ \A w \in Writers : AtWork(w) <=> copy[w] # None
  /\ \A h \in Savers : step[h] # "idle" <=> request[h] # None
  /\ ~Serving => lock = NoHolder /\ \A h \in Savers : step[h] = "idle"
  /\ step[Starting] # "idle" => agent_state = "loading"
  /\ copy[CommandLine] \in {None, Default}
  /\ step[CommandLine] # "waiting" /\ step[Starting] # "waiting"

\* The values that a file may have, now or from a write under way.
Legitimate(c) == \A k \in Keys : c[k] \in legit[k]
\* What the agent would write where it finds no file.
FirstFile == IF json # None THEN Normalized(json) ELSE Default
ValuesOK ==
  /\ file # None => Legitimate(file)
  /\ safe # None => Legitimate(safe)
  /\ \A w \in Writers : copy[w] # None => Legitimate(copy[w])
  /\ \A h \in Savers : request[h] # None => request[h].value \in legit[Target(request[h])]
  /\ \A k \in Keys : None \in legit[k] => 0 \in legit[k]
  /\ safe = None => Legitimate(FirstFile)

\* Once there is a file there is one.
FileStays ==
  /\ file = None => safe = None
  /\ Serving => file # None
  /\ \A w \in Writers : step[w] = "sync" => file # None
  /\ \A w \in Writers : step[w] = "written" => safe # None

\* A saver's own file is on disk, or that of a `config init` beside it.
OwnFileOK ==
  \A h \in Savers :
    /\ AtWork(h) => copy[h][Target(request[h])] = request[h].value
    /\ step[h] \in {"sync", "written"} =>
         /\ file \in {copy[h], Default}
         /\ "monitoring" \notin stale => file.monitoring = copy[h].monitoring
    /\ step[h] = "written" =>
         /\ safe \in {copy[h], Default}
         /\ safe = file \/ file = Default

\* The Go agent's keys decide nothing in a file of this agent.
Plain(c) == Sectionless(c) => c.legacy = None
FilesArePlain ==
  /\ file # None => Plain(file)
  /\ safe # None => Plain(safe)
  /\ \A w \in Writers : copy[w] # None => Plain(copy[w])

LiveIsFile == Serving /\ "monitoring" \notin stale => live = FromConfig(file)

AgentInv ==
  /\ AgentTypesOK
  /\ TurnsOK
  /\ ValuesOK
  /\ FileStays
  /\ OwnFileOK
  /\ FilesArePlain
  /\ LiveIsFile

LEMMA ConfigConstants ==
  /\ Starting # CommandLine /\ Starting \notin Savers /\ CommandLine \notin Savers
  /\ Savers \subseteq Writers /\ Starting \in Writers /\ CommandLine \in Writers
  /\ NoHolder \notin Savers
  /\ None \notin Configurations /\ Torn \notin Configurations
  /\ None \notin Int /\ None \notin Asks
BY ConfigAssumption DEF Starting, CommandLine, Writers

LEMMA DefaultIsPlain ==
  /\ Default \in Configurations
  /\ Plain(Default)
  /\ \A k \in Keys : Default[k] \in Int
BY DEF Default, Configurations, Optional, Plain, Sectionless, Keys

\* The keys one by one.
LEMMA KeysOfConfiguration ==
  ASSUME NEW c \in Configurations
  PROVE  /\ \A k \in Keys : c[k] \in Optional
         /\ c["monitoring"] = c.monitoring /\ c["server"] = c.server
         /\ c["rest"] = c.rest /\ c["access"] = c.access
BY DEF Configurations, Keys, Optional

\* An edit sets the key it was asked for, and gives the sections it finds
\* missing their defaults.
LEMMA EditSetsItsKey ==
  ASSUME NEW c \in Configurations, NEW r \in Asks
  PROVE  /\ Edited(c, r) \in Configurations
         /\ Target(r) \in Keys
         /\ Edited(c, r)[Target(r)] = r.value
         /\ \A k \in Keys \ {Target(r)} :
              Edited(c, r)[k] = c[k] \/ (c[k] = None /\ Edited(c, r)[k] = 0)
         /\ Edited(c, r).legacy = None
<1> USE DEF Asks, Configurations, Optional, Keys
<1>1. CASE r.kind = "settings"
  <2>1. Edited(c, r) = [monitoring |-> r.value, server |-> Section(c.server), rest |-> c.rest,
                        access |-> c.access, legacy |-> None]
    BY <1>1 DEF Edited
  <2>2. Target(r) = "monitoring"
    BY <1>1 DEF Target
  <2> QED
    BY <2>1, <2>2 DEF Section
<1>2. CASE r.kind = "cards"
  <2>1. Edited(c, r) = [monitoring |-> c.monitoring, server |-> r.value, rest |-> c.rest,
                        access |-> c.access, legacy |-> None]
    BY <1>2 DEF Edited
  <2>2. Target(r) = "server"
    BY <1>2 DEF Target
  <2> QED
    BY <2>1, <2>2
<1>3. CASE r.kind = "access"
  <2>1. Edited(c, r) = [monitoring |-> c.monitoring, server |-> c.server, rest |-> c.rest,
                        access |-> 0, legacy |-> None]
    BY <1>3 DEF Edited
  <2>2. Target(r) = "access"
    BY <1>3 DEF Target
  <2>3. r.value = 0
    BY <1>3
  <2> QED
    BY <2>1, <2>2, <2>3
<1> QED
  BY <1>1, <1>2, <1>3

LEMMA NormalizedIsPlain ==
  ASSUME NEW c \in Configurations
  PROVE  /\ Normalized(c) \in Configurations
         /\ Plain(Normalized(c))
         /\ Plain(c) => FromConfig(Normalized(c)) = FromConfig(c)
         /\ FromConfig(c) \in Int
<1> USE ConfigAssumption
<1>1. CASE Sectionless(c)
  <2>1. Normalized(c) = [monitoring |-> IF c.legacy = None THEN 0 ELSE c.legacy, server |-> 0,
                         rest |-> 0, access |-> c.access, legacy |-> None]
    BY <1>1 DEF Normalized, Configurations
  <2>2. FromConfig(c) = 0
    BY <1>1 DEF Sectionless, FromConfig, Section
  <2> QED
    BY <1>1, <2>1, <2>2 DEF Sectionless, Configurations, Optional, Plain, FromConfig, Section
<1>2. CASE ~Sectionless(c)
  BY <1>2 DEF Sectionless, Normalized, Configurations, Optional, Plain, FromConfig, Section
<1> QED
  BY <1>1, <1>2

LEMMA FirstFileIsPlain ==
  ASSUME AgentTypesOK
  PROVE  FirstFile \in Configurations /\ Plain(FirstFile)
BY NormalizedIsPlain, DefaultIsPlain DEF AgentTypesOK, FirstFile

\* A kill ends the agent's writers and leaves the file as it is.
LEMMA KilledLeaves ==
  ASSUME AgentTypesOK, Killed
  PROVE  /\ agent_state' = "down" /\ lock' = NoHolder /\ live' = 0 /\ full_access_off' \in BOOLEAN
         /\ \A w \in Writers :
              IF w = CommandLine THEN step'[w] = step[w] /\ copy'[w] = copy[w]
                                 ELSE step'[w] = "idle" /\ copy'[w] = None
         /\ \A w \in Writers : request'[w] = None
         /\ step' \in [Writers -> Steps]
         /\ copy' \in [Writers -> Configurations \cup {None}]
         /\ request' \in [Writers -> Asks \cup {None}]
         /\ file' = file /\ safe' = safe
         /\ json' = json /\ legit' = legit /\ stale' = stale
<1>1. /\ agent_state' = "down" /\ lock' = NoHolder /\ live' = 0
      /\ step' = [w \in Writers |-> IF w \in Writers \ {CommandLine} THEN "idle" ELSE step[w]]
      /\ copy' = [w \in Writers |-> IF w \in Writers \ {CommandLine} THEN None ELSE copy[w]]
      /\ request' = [w \in Writers |-> None]
      /\ file' = file /\ safe' = safe
      /\ json' = json /\ legit' = legit /\ stale' = stale
  BY DEF Killed, Stopped, history
<1>2. full_access_off' \in BOOLEAN
  BY Zenon DEF Killed, Stopped
<1> QED
  BY <1>1, <1>2 DEF AgentTypesOK, Steps

\* A power loss ends every writer and settles which file there is.
LEMMA PowerLossLeaves ==
  ASSUME AgentTypesOK, PowerLoss
  PROVE  /\ agent_state' = "down" /\ lock' = NoHolder /\ live' = 0 /\ full_access_off' \in BOOLEAN
         /\ \A w \in Writers : step'[w] = "idle" /\ copy'[w] = None /\ request'[w] = None
         /\ step' \in [Writers -> Steps]
         /\ copy' \in [Writers -> Configurations \cup {None}]
         /\ request' \in [Writers -> Asks \cup {None}]
         /\ file' \in {file, safe} /\ safe' = file'
         /\ json' = json /\ legit' = legit /\ stale' = stale
<1>1. /\ agent_state' = "down" /\ lock' = NoHolder /\ live' = 0
      /\ step' = [w \in Writers |-> IF w \in Writers THEN "idle" ELSE step[w]]
      /\ copy' = [w \in Writers |-> IF w \in Writers THEN None ELSE copy[w]]
      /\ request' = [w \in Writers |-> None]
      /\ file' \in {file, safe} /\ safe' = file'
      /\ json' = json /\ legit' = legit /\ stale' = stale
  BY DEF PowerLoss, Stopped, Flushed, history
<1>2. full_access_off' \in BOOLEAN
  BY Zenon DEF PowerLoss, Stopped
<1> QED
  BY <1>1, <1>2 DEF AgentTypesOK, Steps


LEMMA AgentTypesNext == AgentInv /\ [AgentNext]_agentVars => AgentTypesOK'
<1> SUFFICES ASSUME AgentInv, [AgentNext]_agentVars PROVE AgentTypesOK'
  OBVIOUS
<1>0. AgentTypesOK /\ TurnsOK /\ FileStays
  BY DEF AgentInv
<1> USE <1>0, ConfigConstants, DefaultIsPlain DEF AgentTypesOK

<1>1. ASSUME NEW w \in Writers, Backup(w) PROVE AgentTypesOK'
  BY <1>1 DEF Backup, MovesTo, Fault, NoFault, disk, agent, writing, history, Steps
<1>2. ASSUME NEW w \in Writers, Prune(w) PROVE AgentTypesOK'
  BY <1>2 DEF Prune, MovesTo, disk, agent, writing, history, Steps
<1>3. ASSUME NEW w \in Writers, Temp(w) PROVE AgentTypesOK'
  BY <1>3 DEF Temp, MovesTo, Fault, NoFault, disk, agent, writing, history, Steps
<1>4. ASSUME NEW w \in Writers, Rename(w) PROVE AgentTypesOK'
  BY <1>4 DEF Rename, MovesTo, Fault, NoFault, disk, agent, writing, history, Steps
<1>5. ASSUME NEW w \in Writers, Sync(w) PROVE AgentTypesOK'
  <2>1. file' = file /\ (safe' = safe \/ safe' = file)
    BY <1>5 DEF Sync, NoFault, Fault
  <2> QED
    BY <1>5, <2>1 DEF Sync, MovesTo, Fault, NoFault, disk, agent, writing, history, Steps
<1>6. ASSUME NEW h \in Savers, Request(h) PROVE AgentTypesOK'
  <2>1. PICK r \in Asks : /\ request' = [request EXCEPT ![h] = r]
                         /\ legit' = [legit EXCEPT ![Target(r)] = legit[Target(r)] \cup {r.value}]
    BY <1>6, ConfigAssumption DEF Request, Asks
  <2>2. Target(r) \in Keys /\ r.value \in Optional
    BY DEF Target, Keys, Asks, Optional
  <2> QED
    BY <1>6, <2>1, <2>2 DEF Request, MovesTo, disk, agent, writing, history, Steps
<1>7. ASSUME NEW h \in Savers, ReadModify(h) PROVE AgentTypesOK'
  <2>1. file # None => Edited(file, request[h]) \in Configurations
    BY <1>7, EditSetsItsKey DEF ReadModify, TurnsOK
  <2> QED
    BY <1>7, <2>1 DEF ReadModify, MovesTo, Idle, LockFree, disk, agent, writing, history, Steps
<1>8. ASSUME NEW h \in Savers, Acknowledge(h) PROVE AgentTypesOK'
  <2>1. request[h] \in Asks
    BY <1>8 DEF Acknowledge, TurnsOK
  <2>2. live' \in Int
    BY <1>8, <2>1 DEF Acknowledge, LiveAfter, Asks
  <2>3. Target(request[h]) \in Keys
    BY <2>1 DEF Target, Keys, Asks
  <2>4. legit' \in [Keys -> SUBSET Optional]
    <3> DEFINE others == {request[o].value : o \in {p \in Savers \ {h} :
                             request[p] # None /\ Target(request[p]) = Target(request[h])}}
    <3>1. others \subseteq Optional
      BY DEF Asks, Optional
    <3>2. request[h].value \in Optional /\ Default[Target(request[h])] \in Optional
      BY <2>1, <2>3 DEF Asks, Optional
    <3> QED
      BY <1>8, <2>3, <3>1, <3>2 DEF Acknowledge
  <2> QED
    BY <1>8, <2>2, <2>4 DEF Acknowledge, Release, Idle, disk, agent, writing, history, Steps
<1>9. ASSUME NEW h \in Savers, Refuse(h) PROVE AgentTypesOK'
  BY <1>9 DEF Refuse, Release, Idle, disk, agent, writing, history, Steps
<1>10. ASSUME NEW h \in Savers, Dropped(h) PROVE AgentTypesOK'
  BY <1>10 DEF Dropped, Release, Idle, disk, agent, writing, history, Steps
<1>11. CASE ConfigInit
  <2>1. \A k \in Keys : Default[k] \in Optional
    BY DEF Optional
  <2> QED
    BY <1>11, <2>1 DEF ConfigInit, MovesTo, disk, agent, writing, history, Steps
<1>12. CASE ConfigInitEnds
  BY <1>12 DEF ConfigInitEnds, Idle, disk, agent, writing, history, Steps
<1>13. CASE Load
  <2>1. FirstFile \in Configurations
    BY FirstFileIsPlain
  <2>2. file # None => FromConfig(Normalized(file)) \in Int
    BY NormalizedIsPlain
  <2> QED
    BY <1>13, <2>1, <2>2 DEF Load, Loaded, MovesTo, disk, agent, writing, history, Steps, FirstFile
<1>14. CASE Installed
  <2>1. copy[Starting] \in Configurations
    BY <1>14 DEF Installed, TurnsOK, AtWork
  <2>2. FromConfig(Normalized(copy[Starting])) \in Int
    BY <2>1, NormalizedIsPlain
  <2> QED
    BY <1>14, <2>2 DEF Installed, Loaded, Idle, Fault, NoFault, disk, agent, writing, history, Steps
<1>15. CASE NotInstalled
  BY <1>15 DEF NotInstalled, Idle, disk, agent, writing, history, Steps
<1>16. CASE Killed
  BY <1>16, KilledLeaves
<1>17. CASE PowerLoss
  BY <1>17, PowerLossLeaves
<1>18. CASE UNCHANGED agentVars
  BY <1>18 DEF agentVars, disk, agent, writing, history, Steps
<1> QED
  BY <1>1, <1>2, <1>3, <1>4, <1>5, <1>6, <1>7, <1>8, <1>9, <1>10, <1>11, <1>12, <1>13, <1>14, <1>15, <1>16, <1>17, <1>18
  DEF AgentNext, Write, Start

LEMMA TurnsNext == AgentInv /\ [AgentNext]_agentVars => TurnsOK'
<1> SUFFICES ASSUME AgentInv, [AgentNext]_agentVars PROVE TurnsOK'
  OBVIOUS
<1>0. AgentTypesOK /\ TurnsOK
  BY DEF AgentInv
<1> USE <1>0, ConfigConstants DEF AgentTypesOK, TurnsOK, AtWork, Serving

<1>1. ASSUME NEW w \in Writers, Backup(w) PROVE TurnsOK'
  BY <1>1 DEF Backup, MovesTo, Fault, NoFault, disk, agent, writing, history, Serving
<1>2. ASSUME NEW w \in Writers, Prune(w) PROVE TurnsOK'
  BY <1>2 DEF Prune, MovesTo, disk, agent, writing, history, Serving
<1>3. ASSUME NEW w \in Writers, Temp(w) PROVE TurnsOK'
  BY <1>3 DEF Temp, MovesTo, Fault, NoFault, disk, agent, writing, history, Serving
<1>4. ASSUME NEW w \in Writers, Rename(w) PROVE TurnsOK'
  BY <1>4 DEF Rename, MovesTo, Fault, NoFault, disk, agent, writing, history, Serving
<1>5. ASSUME NEW w \in Writers, Sync(w) PROVE TurnsOK'
  BY <1>5 DEF Sync, MovesTo, Fault, NoFault, disk, agent, writing, history, Serving
<1>6. ASSUME NEW h \in Savers, Request(h) PROVE TurnsOK'
  <2>1. PICK r \in Asks : request' = [request EXCEPT ![h] = r]
    BY <1>6, ConfigAssumption DEF Request, Asks
  <2> QED
    BY <1>6, <2>1 DEF Request, MovesTo, disk, agent, writing, history, Serving
<1>7. ASSUME NEW h \in Savers, ReadModify(h) PROVE TurnsOK'
  <2>1. file # None => Edited(file, request[h]) \in Configurations
    BY <1>7, EditSetsItsKey DEF ReadModify
  <2>2. CASE file = None
    BY <1>7, <2>2 DEF ReadModify, MovesTo, Idle, LockFree, disk, agent, writing, history, Serving
  <2>3. CASE file # None
    <3>1. lock = NoHolder /\ lock' = h /\ agent_state' = agent_state /\ request' = request
      BY <1>7, <2>3 DEF ReadModify, MovesTo, Idle, LockFree, disk, agent, writing, history, Serving
    <3>2. step[h] = "waiting" /\ step' = [step EXCEPT ![h] = "backup"]
      BY <1>7, <2>3 DEF ReadModify, MovesTo, Idle, LockFree, disk, agent, writing, history, Serving
    <3>3. copy' = [copy EXCEPT ![h] = Edited(file, request[h])]
      BY <1>7, <2>3 DEF ReadModify, MovesTo, Idle, LockFree, disk, agent, writing, history, Serving
    <3>4. agent_state = "serving"
      BY <1>7 DEF ReadModify
    <3> QED
      BY <2>1, <2>3, <3>1, <3>2, <3>3, <3>4
  <2> QED
    BY <2>2, <2>3
<1>8. ASSUME NEW h \in Savers, Acknowledge(h) PROVE TurnsOK'
  BY <1>8 DEF Acknowledge, Release, Idle, disk, agent, writing, history, Serving
<1>9. ASSUME NEW h \in Savers, Refuse(h) PROVE TurnsOK'
  BY <1>9 DEF Refuse, Release, Idle, disk, agent, writing, history, Serving
<1>10. ASSUME NEW h \in Savers, Dropped(h) PROVE TurnsOK'
  BY <1>10 DEF Dropped, Release, Idle, disk, agent, writing, history, Serving
<1>11. CASE ConfigInit
  BY <1>11, DefaultIsPlain DEF ConfigInit, MovesTo, disk, agent, writing, history, Serving
<1>12. CASE ConfigInitEnds
  BY <1>12 DEF ConfigInitEnds, Idle, disk, agent, writing, history, Serving
<1>13. CASE Load
  BY <1>13, FirstFileIsPlain DEF Load, Loaded, MovesTo, disk, agent, writing, history, Serving, FirstFile
<1>14. CASE Installed
  BY <1>14 DEF Installed, Loaded, Idle, Fault, NoFault, disk, agent, writing, history, Serving
<1>15. CASE NotInstalled
  BY <1>15 DEF NotInstalled, Idle, disk, agent, writing, history, Serving
<1>16. CASE Killed
  BY <1>16, KilledLeaves
<1>17. CASE PowerLoss
  BY <1>17, PowerLossLeaves
<1>18. CASE UNCHANGED agentVars
  BY <1>18 DEF agentVars, disk, agent, writing, history, Serving
<1> QED
  BY <1>1, <1>2, <1>3, <1>4, <1>5, <1>6, <1>7, <1>8, <1>9, <1>10, <1>11, <1>12, <1>13, <1>14, <1>15, <1>16, <1>17, <1>18
  DEF AgentNext, Write, Start

LEMMA ValuesNext == AgentInv /\ [AgentNext]_agentVars => ValuesOK'
<1> SUFFICES ASSUME AgentInv, [AgentNext]_agentVars PROVE ValuesOK'
  OBVIOUS
<1>0. AgentTypesOK /\ TurnsOK /\ FileStays /\ ValuesOK /\ OwnFileOK
  BY DEF AgentInv
<1> USE <1>0, ConfigConstants DEF AgentTypesOK, ValuesOK, AtWork, Legitimate, FirstFile

<1>1. ASSUME NEW w \in Writers, Backup(w) PROVE ValuesOK'
  BY <1>1 DEF Backup, MovesTo, Fault, NoFault, disk, agent, writing, history, Serving, Steps
<1>2. ASSUME NEW w \in Writers, Prune(w) PROVE ValuesOK'
  BY <1>2 DEF Prune, MovesTo, disk, agent, writing, history, Serving, Steps
<1>3. ASSUME NEW w \in Writers, Temp(w) PROVE ValuesOK'
  BY <1>3 DEF Temp, MovesTo, Fault, NoFault, disk, agent, writing, history, Serving, Steps
<1>4. ASSUME NEW w \in Writers, Rename(w) PROVE ValuesOK'
  BY <1>4 DEF Rename, MovesTo, Fault, NoFault, disk, agent, writing, history, Serving, Steps
<1>5. ASSUME NEW w \in Writers, Sync(w) PROVE ValuesOK'
  BY <1>5 DEF Sync, MovesTo, Fault, NoFault, disk, agent, writing, history, Serving, Steps, FileStays
<1>6. ASSUME NEW h \in Savers, Request(h) PROVE ValuesOK'
  <2>1. PICK r \in Asks : /\ request' = [request EXCEPT ![h] = r]
                         /\ legit' = [legit EXCEPT ![Target(r)] = legit[Target(r)] \cup {r.value}]
    BY <1>6, ConfigAssumption DEF Request, Asks
  <2>2. Target(r) \in Keys /\ r.value \in Int
    BY DEF Target, Keys, Asks
  <2>3. \A k \in Keys : /\ legit[k] \subseteq legit'[k]
                        /\ None \in legit'[k] => None \in legit[k]
    BY <2>1, <2>2
  <2>4. r.value \in legit'[Target(r)]
    BY <2>1, <2>2
  <2>5. \A o \in Savers : request[o] # None => Target(request[o]) \in Keys
    BY DEF Target, Keys, Asks
  <2>6. file' = file /\ safe' = safe /\ json' = json /\ copy' = copy
    BY <1>6 DEF Request, disk
  <2>7. \A o \in Savers : request'[o] # None => request'[o].value \in legit'[Target(request'[o])]
    BY <2>1, <2>3, <2>4, <2>5
  <2>8. ASSUME NEW c \in Configurations, Legitimate(c) PROVE Legitimate(c)'
    <3> SUFFICES ASSUME NEW k \in Keys PROVE c[k] \in legit'[k]
      OBVIOUS
    <3>1. c[k] \in legit[k]
      BY <2>8
    <3> QED
      BY <2>3, <3>1
  <2>9. ASSUME NEW k \in Keys, None \in legit'[k] PROVE 0 \in legit'[k]
    <3>1. 0 \in legit[k]
      BY <2>3, <2>9
    <3> QED
      BY <2>3, <3>1
  <2>10. FirstFile \in Configurations /\ FirstFile' = FirstFile
    BY <2>6, FirstFileIsPlain
  <2> QED
    BY <2>6, <2>7, <2>8, <2>9, <2>10
<1>7. ASSUME NEW h \in Savers, ReadModify(h) PROVE ValuesOK'
  <2>1. file # None => /\ Edited(file, request[h]) \in Configurations
                       /\ \A k \in Keys : Edited(file, request[h])[k] \in legit[k]
    <3> SUFFICES ASSUME file # None
                 PROVE  /\ Edited(file, request[h]) \in Configurations
                        /\ \A k \in Keys : Edited(file, request[h])[k] \in legit[k]
      OBVIOUS
    <3>1. request[h] \in Asks
      BY <1>7 DEF ReadModify, TurnsOK
    <3> DEFINE e == Edited(file, request[h])
    <3>2. /\ e \in Configurations /\ e[Target(request[h])] = request[h].value
          /\ \A k \in Keys \ {Target(request[h])} : e[k] = file[k] \/ (file[k] = None /\ e[k] = 0)
      BY <3>1, EditSetsItsKey
    <3>3. request[h].value \in legit[Target(request[h])] /\ \A k \in Keys : file[k] \in legit[k]
      BY <3>1
    <3> HIDE DEF e
    <3>4. \A k \in Keys : e[k] \in legit[k]
      BY <3>2, <3>3
    <3> QED
      BY <3>2, <3>4 DEF e
  <2>2. /\ file' = file /\ safe' = safe /\ json' = json /\ legit' = legit
        /\ \A o \in Savers : request'[o] # None => request'[o] = request[o]
        /\ \A w \in Writers : copy'[w] # None =>
             copy'[w] = copy[w] \/ (file # None /\ copy'[w] = Edited(file, request[h]))
    BY <1>7 DEF ReadModify, MovesTo, Idle, LockFree, disk, agent, writing, history, Serving, Steps
  <2>3. \A w \in Writers : copy'[w] # None => \A k \in Keys : copy'[w][k] \in legit[k]
    BY <2>1, <2>2
  <2> QED
    BY <2>2, <2>3
<1>8. ASSUME NEW h \in Savers, Acknowledge(h) PROVE ValuesOK'
  <2> DEFINE r == request[h]
             key == Target(r)
             others == {request[o].value : o \in {p \in Savers \ {h} :
                           request[p] # None /\ Target(request[p]) = key}}
             init == IF step[CommandLine] = "idle" /\ file = copy[h] THEN {} ELSE {Default[key]}
  <2>1. r \in Asks /\ step[h] = "written" /\ agent_state = "serving"
    BY <1>8 DEF Acknowledge, TurnsOK, Serving
  <2>2. key \in Keys /\ r.value \in Int
    BY <2>1 DEF Target, Keys, Asks
  <2>3. legit' = [legit EXCEPT ![key] = {r.value} \cup others \cup init]
    BY <1>8 DEF Acknowledge
  <2>4. \A k \in Keys : k # key => legit'[k] = legit[k]
    BY <2>3
  <2>5. legit'[key] = {r.value} \cup others \cup init
    BY <2>2, <2>3
  <2>6. /\ file' = file /\ safe' = safe /\ json' = json
        /\ copy' = [copy EXCEPT ![h] = None] /\ request' = [request EXCEPT ![h] = None]
    BY <1>8 DEF Acknowledge, Release, disk
  <2>7. /\ copy[h][key] = r.value /\ file \in {copy[h], Default} /\ safe \in {copy[h], Default}
        /\ safe = file \/ file = Default
    BY <2>1 DEF OwnFileOK
  <2>8. safe # None
    BY <2>1 DEF FileStays
  <2>9. file[key] \in legit'[key] /\ safe[key] \in legit'[key]
    <3> HIDE DEF others, key, r
    <3> QED
      BY <2>5, <2>7 DEF r
  <2>10. ASSUME NEW w \in Writers, copy'[w] # None
         PROVE  copy'[w][key] \in legit'[key]
    <3>1. w # h /\ copy[w] # None /\ copy'[w] = copy[w]
      BY <2>6, <2>10
    <3>2. w = CommandLine
      BY <2>1, <3>1 DEF TurnsOK, Writers
    <3>3. copy[w] = Default /\ step[CommandLine] # "idle"
      BY <3>1, <3>2 DEF TurnsOK
    <3> HIDE DEF key
    <3> QED
      BY <2>5, <3>1, <3>3
  <2>11. ASSUME NEW o \in Savers, request'[o] # None
         PROVE  request'[o].value \in legit'[Target(request'[o])]
    <3>1. o # h /\ request[o] # None /\ request'[o] = request[o]
      BY <2>6, <2>11
    <3>2. Target(request[o]) \in Keys
      BY <3>1 DEF Target, Keys, Asks
    <3>3. CASE Target(request[o]) = key
      <4>1. request[o].value \in others
        BY <3>1, <3>3
      <4> QED
        BY <4>1, <2>5, <3>1, <3>3
    <3>4. CASE Target(request[o]) # key
      BY <2>4, <3>1, <3>2, <3>4
    <3> QED
      BY <3>3, <3>4
  <2>12. None \notin legit'[key]
    <3>1. \A x \in others : x \in Int
      BY DEF Asks
    <3>2. Default[key] \in Int
      BY <2>2, DefaultIsPlain
    <3> HIDE DEF others, key, r
    <3> QED
      BY <2>2, <2>5, <3>1, <3>2
  <2> HIDE DEF others, key, r, init
  <2>13. file' # None => \A k \in Keys : file'[k] \in legit'[k]
    BY <2>4, <2>6, <2>9
  <2>14. safe' # None => \A k \in Keys : safe'[k] \in legit'[k]
    BY <2>4, <2>6, <2>9
  <2>15. \A w \in Writers : copy'[w] # None => \A k \in Keys : copy'[w][k] \in legit'[k]
    BY <2>4, <2>6, <2>10
  <2>16. \A k \in Keys : None \in legit'[k] => 0 \in legit'[k]
    BY <2>4, <2>12
  <2> QED
    BY <2>6, <2>8, <2>11, <2>13, <2>14, <2>15, <2>16
<1>9. ASSUME NEW h \in Savers, Refuse(h) PROVE ValuesOK'
  BY <1>9 DEF Refuse, Release, Idle, disk, agent, writing, history, Serving, Steps
<1>10. ASSUME NEW h \in Savers, Dropped(h) PROVE ValuesOK'
  BY <1>10 DEF Dropped, Release, Idle, disk, agent, writing, history, Serving, Steps
<1>11. CASE ConfigInit
  <2>1. /\ file' = file /\ safe' = safe /\ json' = json /\ request' = request
        /\ copy' = [copy EXCEPT ![CommandLine] = Default]
        /\ legit' = [k \in Keys |-> legit[k] \cup {Default[k]}]
    BY <1>11 DEF ConfigInit, disk
  <2>2. \A k \in Keys : /\ legit[k] \subseteq legit'[k] /\ Default[k] \in legit'[k]
                        /\ None \in legit'[k] => None \in legit[k]
    BY <2>1, DefaultIsPlain
  <2>3. \A o \in Savers : request[o] # None => Target(request[o]) \in Keys
    BY DEF Target, Keys, Asks
  <2> QED
    BY <2>1, <2>2, <2>3
<1>12. CASE ConfigInitEnds
  BY <1>12 DEF ConfigInitEnds, Idle, disk, agent, writing, history, Serving, Steps
<1>13. CASE Load
  <2>1. CASE file # None
    BY <1>13, <2>1 DEF Load, Loaded, MovesTo, disk, agent, writing, history, Serving, Steps
  <2>2. CASE file = None
    <3>1. safe = None
      BY <2>2 DEF FileStays
    <3> QED
      BY <1>13, <2>2, <3>1 DEF Load, MovesTo, disk
  <2> QED
    BY <2>1, <2>2
<1>14. CASE Installed
  <2>1. safe # None
    BY <1>14 DEF Installed, FileStays
  <2> QED
    BY <1>14, <2>1 DEF Installed, Loaded, Idle, Fault, NoFault, disk, agent, writing, history, Serving, Steps
<1>15. CASE NotInstalled
  BY <1>15 DEF NotInstalled, Idle, disk, agent, writing, history, Serving, Steps
<1>16. CASE Killed
  BY <1>16, KilledLeaves
<1>17. CASE PowerLoss
  BY <1>17, PowerLossLeaves DEF FileStays
<1>18. CASE UNCHANGED agentVars
  BY <1>18 DEF agentVars, disk, agent, writing, history, Serving, Steps
<1> QED
  BY <1>1, <1>2, <1>3, <1>4, <1>5, <1>6, <1>7, <1>8, <1>9, <1>10, <1>11, <1>12, <1>13, <1>14, <1>15, <1>16, <1>17, <1>18
  DEF AgentNext, Write, Start

LEMMA FileStaysNext == AgentInv /\ [AgentNext]_agentVars => FileStays'
<1> SUFFICES ASSUME AgentInv, [AgentNext]_agentVars PROVE FileStays'
  OBVIOUS
<1>0. AgentTypesOK /\ TurnsOK /\ FileStays
  BY DEF AgentInv
<1> USE <1>0, ConfigConstants DEF AgentTypesOK, FileStays, AtWork, Serving

<1>1. ASSUME NEW w \in Writers, Backup(w) PROVE FileStays'
  BY <1>1 DEF Backup, MovesTo, Fault, NoFault, disk, agent, writing, history, Serving, Steps
<1>2. ASSUME NEW w \in Writers, Prune(w) PROVE FileStays'
  BY <1>2 DEF Prune, MovesTo, disk, agent, writing, history, Serving, Steps
<1>3. ASSUME NEW w \in Writers, Temp(w) PROVE FileStays'
  BY <1>3 DEF Temp, MovesTo, Fault, NoFault, disk, agent, writing, history, Serving, Steps
<1>4. ASSUME NEW w \in Writers, Rename(w) PROVE FileStays'
  BY <1>4 DEF Rename, MovesTo, Fault, NoFault, disk, agent, writing, history, Serving, Steps, TurnsOK
<1>5. ASSUME NEW w \in Writers, Sync(w) PROVE FileStays'
  BY <1>5 DEF Sync, MovesTo, Fault, NoFault, disk, agent, writing, history, Serving, Steps
<1>6. ASSUME NEW h \in Savers, Request(h) PROVE FileStays'
  BY <1>6 DEF Request, MovesTo, disk, agent, writing, history, Serving, Steps
<1>7. ASSUME NEW h \in Savers, ReadModify(h) PROVE FileStays'
  BY <1>7 DEF ReadModify, MovesTo, Idle, LockFree, disk, agent, writing, history, Serving, Steps
<1>8. ASSUME NEW h \in Savers, Acknowledge(h) PROVE FileStays'
  BY <1>8 DEF Acknowledge, Release, Idle, disk, agent, writing, history, Serving, Steps
<1>9. ASSUME NEW h \in Savers, Refuse(h) PROVE FileStays'
  BY <1>9 DEF Refuse, Release, Idle, disk, agent, writing, history, Serving, Steps
<1>10. ASSUME NEW h \in Savers, Dropped(h) PROVE FileStays'
  BY <1>10 DEF Dropped, Release, Idle, disk, agent, writing, history, Serving, Steps
<1>11. CASE ConfigInit
  BY <1>11 DEF ConfigInit, MovesTo, disk, agent, writing, history, Serving, Steps
<1>12. CASE ConfigInitEnds
  BY <1>12 DEF ConfigInitEnds, Idle, disk, agent, writing, history, Serving, Steps
<1>13. CASE Load
  BY <1>13 DEF Load, Loaded, MovesTo, disk, agent, writing, history, Serving, Steps
<1>14. CASE Installed
  BY <1>14 DEF Installed, Loaded, Idle, Fault, NoFault, disk, agent, writing, history, Serving, Steps
<1>15. CASE NotInstalled
  BY <1>15 DEF NotInstalled, Idle, disk, agent, writing, history, Serving, Steps
<1>16. CASE Killed
  BY <1>16, KilledLeaves
<1>17. CASE PowerLoss
  BY <1>17, PowerLossLeaves
<1>18. CASE UNCHANGED agentVars
  BY <1>18 DEF agentVars, disk, agent, writing, history, Serving, Steps
<1> QED
  BY <1>1, <1>2, <1>3, <1>4, <1>5, <1>6, <1>7, <1>8, <1>9, <1>10, <1>11, <1>12, <1>13, <1>14, <1>15, <1>16, <1>17, <1>18
  DEF AgentNext, Write, Start

LEMMA OwnFileNext == AgentInv /\ [AgentNext]_agentVars => OwnFileOK'
<1> SUFFICES ASSUME AgentInv, [AgentNext]_agentVars PROVE OwnFileOK'
  OBVIOUS
<1>0. AgentTypesOK /\ TurnsOK /\ OwnFileOK
  BY DEF AgentInv
<1> USE <1>0, ConfigConstants DEF AgentTypesOK, OwnFileOK, AtWork

<1>1. ASSUME NEW w \in Writers, Backup(w) PROVE OwnFileOK'
  BY <1>1 DEF Backup, MovesTo, Fault, NoFault, disk, agent, writing, history, Serving, Steps
<1>2. ASSUME NEW w \in Writers, Prune(w) PROVE OwnFileOK'
  BY <1>2 DEF Prune, MovesTo, disk, agent, writing, history, Serving, Steps
<1>3. ASSUME NEW w \in Writers, Temp(w) PROVE OwnFileOK'
  BY <1>3 DEF Temp, MovesTo, Fault, NoFault, disk, agent, writing, history, Serving, Steps
<1>4. ASSUME NEW w \in Writers, Rename(w) PROVE OwnFileOK'
  <2>1. CASE UNCHANGED <<file, stale>> /\ step' = [step EXCEPT ![w] = "failed"]
    BY <1>4, <2>1 DEF Rename, MovesTo, Fault, NoFault, disk, agent, writing, history, Serving, Steps
  <2>2. CASE file' = copy[w] /\ step' = [step EXCEPT ![w] = "sync"]
    <3>1. /\ step[w] = "rename" /\ copy' = copy /\ request' = request /\ safe' = safe
          /\ copy[w] \in Configurations
      BY <1>4 DEF Rename, TurnsOK, agent
    <3>2. /\ stale \subseteq stale'
          /\ "monitoring" \notin stale' /\ file # None => file.monitoring = copy[w].monitoring
      BY <1>4, <2>2, <3>1 DEF Rename, MovesTo, Keys
    <3>3. ASSUME NEW h \in Savers, AtWork(h)
          PROVE  w = h \/ copy[w] = Default
      BY <3>1, <3>3 DEF TurnsOK, Serving, Writers
    <3>4. ASSUME NEW h \in Savers, AtWork(h)', step'[h] \in {"sync", "written"}
          PROVE  /\ file' \in {copy'[h], Default}
                 /\ "monitoring" \notin stale' => file'.monitoring = copy'[h].monitoring
      <4>1. CASE w = h
        BY <4>1, <2>2, <3>1
      <4>2. CASE w # h
        <5>1. step[h] = step'[h] /\ copy[w] = Default
          BY <4>2, <2>2, <3>1, <3>3, <3>4
        <5>2. file # None
          BY <5>1, <3>4, DefaultIsPlain DEF TurnsOK
        <5> QED
          BY <5>1, <5>2, <2>2, <3>1, <3>2, <3>4
      <4> QED
        BY <4>1, <4>2
    <3>5. ASSUME NEW h \in Savers, step'[h] = "written"
          PROVE  /\ safe' \in {copy'[h], Default}
                 /\ safe' = file' \/ file' = Default
      <4>1. w # h /\ step[h] = "written"
        BY <2>2, <3>1, <3>5
      <4> QED
        BY <4>1, <2>2, <3>1, <3>3
    <3> QED
      BY <2>2, <3>1, <3>4, <3>5
  <2> QED
    BY <1>4, <2>1, <2>2 DEF Rename, MovesTo
<1>5. ASSUME NEW w \in Writers, Sync(w) PROVE OwnFileOK'
  BY <1>5 DEF Sync, MovesTo, Fault, NoFault, disk, agent, writing, history, Serving, Steps
<1>6. ASSUME NEW h \in Savers, Request(h) PROVE OwnFileOK'
  BY <1>6 DEF Request, MovesTo, disk, agent, writing, history, Serving, Steps
<1>7. ASSUME NEW h \in Savers, ReadModify(h) PROVE OwnFileOK'
  <2>1. CASE file = None
    BY <1>7, <2>1, ConfigConstants DEF ReadModify, MovesTo, Idle, LockFree, disk, agent, writing, history, Serving, Steps
  <2>2. CASE file # None
    <3>1. request[h] \in Asks /\ lock = NoHolder
      BY <1>7 DEF ReadModify, LockFree, TurnsOK
    <3>2. Edited(file, request[h])[Target(request[h])] = request[h].value
      BY <2>2, <3>1, EditSetsItsKey
    <3>3. \A o \in Savers : ~AtWork(o)
      BY <3>1 DEF TurnsOK
    <3> QED
      BY <1>7, <2>2, <3>2, <3>3 DEF ReadModify, MovesTo, Idle, LockFree, disk, agent, writing, history, Serving, Steps
  <2> QED
    BY <2>1, <2>2
<1>8. ASSUME NEW h \in Savers, Acknowledge(h) PROVE OwnFileOK'
  <2>1. /\ step' = [step EXCEPT ![h] = "idle"] /\ step[h] = "written"
        /\ copy' = [copy EXCEPT ![h] = None] /\ request' = [request EXCEPT ![h] = None]
    BY <1>8 DEF Acknowledge, Release, Idle
  <2>2. \A o \in Savers : ~AtWork(o)'
    BY <2>1 DEF TurnsOK
  <2> QED
    BY <2>2
<1>9. ASSUME NEW h \in Savers, Refuse(h) PROVE OwnFileOK'
  BY <1>9 DEF Refuse, Release, Idle, disk, agent, writing, history, Serving, Steps
<1>10. ASSUME NEW h \in Savers, Dropped(h) PROVE OwnFileOK'
  BY <1>10 DEF Dropped, Release, Idle, disk, agent, writing, history, Serving, Steps
<1>11. CASE ConfigInit
  BY <1>11 DEF ConfigInit, MovesTo, disk, agent, writing, history, Serving, Steps
<1>12. CASE ConfigInitEnds
  BY <1>12 DEF ConfigInitEnds, Idle, disk, agent, writing, history, Serving, Steps
<1>13. CASE Load
  <2>1. \A h \in Savers : step'[h] = "idle"
    BY <1>13 DEF Load, MovesTo, TurnsOK, Serving
  <2> QED
    BY <2>1
<1>14. CASE Installed
  <2>1. \A h \in Savers : step'[h] = "idle"
    BY <1>14 DEF Installed, Idle, TurnsOK, Serving
  <2> QED
    BY <2>1
<1>15. CASE NotInstalled
  BY <1>15 DEF NotInstalled, Idle, disk, agent, writing, history, Serving, Steps
<1>16. CASE Killed
  BY <1>16, KilledLeaves
<1>17. CASE PowerLoss
  BY <1>17, PowerLossLeaves
<1>18. CASE UNCHANGED agentVars
  BY <1>18 DEF agentVars, disk, agent, writing, history, Serving, Steps
<1> QED
  BY <1>1, <1>2, <1>3, <1>4, <1>5, <1>6, <1>7, <1>8, <1>9, <1>10, <1>11, <1>12, <1>13, <1>14, <1>15, <1>16, <1>17, <1>18
  DEF AgentNext, Write, Start

LEMMA FilesArePlainNext == AgentInv /\ [AgentNext]_agentVars => FilesArePlain'
<1> SUFFICES ASSUME AgentInv, [AgentNext]_agentVars PROVE FilesArePlain'
  OBVIOUS
<1>0. AgentTypesOK /\ TurnsOK /\ FilesArePlain
  BY DEF AgentInv
<1> USE <1>0, ConfigConstants DEF AgentTypesOK, FilesArePlain

<1>1. ASSUME NEW w \in Writers, Backup(w) PROVE FilesArePlain'
  BY <1>1 DEF Backup, MovesTo, Fault, NoFault, disk, agent, writing, history, Serving, Steps
<1>2. ASSUME NEW w \in Writers, Prune(w) PROVE FilesArePlain'
  BY <1>2 DEF Prune, MovesTo, disk, agent, writing, history, Serving, Steps
<1>3. ASSUME NEW w \in Writers, Temp(w) PROVE FilesArePlain'
  BY <1>3 DEF Temp, MovesTo, Fault, NoFault, disk, agent, writing, history, Serving, Steps
<1>4. ASSUME NEW w \in Writers, Rename(w) PROVE FilesArePlain'
  BY <1>4 DEF Rename, MovesTo, Fault, NoFault, disk, agent, writing, history, Serving, Steps, TurnsOK, AtWork
<1>5. ASSUME NEW w \in Writers, Sync(w) PROVE FilesArePlain'
  BY <1>5 DEF Sync, MovesTo, Fault, NoFault, disk, agent, writing, history, Serving, Steps
<1>6. ASSUME NEW h \in Savers, Request(h) PROVE FilesArePlain'
  BY <1>6 DEF Request, MovesTo, disk, agent, writing, history, Serving, Steps
<1>7. ASSUME NEW h \in Savers, ReadModify(h) PROVE FilesArePlain'
  <2>1. file # None => Plain(Edited(file, request[h]))
    BY <1>7, EditSetsItsKey DEF ReadModify, TurnsOK, Plain
  <2> QED
    BY <1>7, <2>1 DEF ReadModify, MovesTo, Idle, LockFree, disk, agent, writing, history, Serving, Steps
<1>8. ASSUME NEW h \in Savers, Acknowledge(h) PROVE FilesArePlain'
  BY <1>8 DEF Acknowledge, Release, Idle, disk, agent, writing, history, Serving, Steps
<1>9. ASSUME NEW h \in Savers, Refuse(h) PROVE FilesArePlain'
  BY <1>9 DEF Refuse, Release, Idle, disk, agent, writing, history, Serving, Steps
<1>10. ASSUME NEW h \in Savers, Dropped(h) PROVE FilesArePlain'
  BY <1>10 DEF Dropped, Release, Idle, disk, agent, writing, history, Serving, Steps
<1>11. CASE ConfigInit
  BY <1>11, DefaultIsPlain DEF ConfigInit, MovesTo, disk, agent, writing, history, Serving, Steps
<1>12. CASE ConfigInitEnds
  BY <1>12 DEF ConfigInitEnds, Idle, disk, agent, writing, history, Serving, Steps
<1>13. CASE Load
  BY <1>13, FirstFileIsPlain DEF Load, Loaded, MovesTo, disk, agent, writing, history, Serving, Steps, FirstFile
<1>14. CASE Installed
  BY <1>14 DEF Installed, Loaded, Idle, Fault, NoFault, disk, agent, writing, history, Serving, Steps
<1>15. CASE NotInstalled
  BY <1>15 DEF NotInstalled, Idle, disk, agent, writing, history, Serving, Steps
<1>16. CASE Killed
  BY <1>16, KilledLeaves
<1>17. CASE PowerLoss
  BY <1>17, PowerLossLeaves
<1>18. CASE UNCHANGED agentVars
  BY <1>18 DEF agentVars, disk, agent, writing, history, Serving, Steps
<1> QED
  BY <1>1, <1>2, <1>3, <1>4, <1>5, <1>6, <1>7, <1>8, <1>9, <1>10, <1>11, <1>12, <1>13, <1>14, <1>15, <1>16, <1>17, <1>18
  DEF AgentNext, Write, Start

LEMMA LiveIsFileNext == AgentInv /\ [AgentNext]_agentVars => LiveIsFile'
<1> SUFFICES ASSUME AgentInv, [AgentNext]_agentVars PROVE LiveIsFile'
  OBVIOUS
<1>0. AgentTypesOK /\ TurnsOK /\ FileStays /\ FilesArePlain /\ OwnFileOK /\ LiveIsFile
  BY DEF AgentInv
<1> USE <1>0, ConfigConstants DEF AgentTypesOK, LiveIsFile, Serving

<1>1. ASSUME NEW w \in Writers, Backup(w) PROVE LiveIsFile'
  BY <1>1 DEF Backup, MovesTo, Fault, NoFault, disk, agent, writing, history, Serving, Steps
<1>2. ASSUME NEW w \in Writers, Prune(w) PROVE LiveIsFile'
  BY <1>2 DEF Prune, MovesTo, disk, agent, writing, history, Serving, Steps
<1>3. ASSUME NEW w \in Writers, Temp(w) PROVE LiveIsFile'
  BY <1>3 DEF Temp, MovesTo, Fault, NoFault, disk, agent, writing, history, Serving, Steps
<1>4. ASSUME NEW w \in Writers, Rename(w) PROVE LiveIsFile'
  <2> SUFFICES ASSUME Serving', "monitoring" \notin stale' PROVE live' = FromConfig(file')
    OBVIOUS
  <2>1. agent_state = "serving" /\ live' = live /\ stale \subseteq stale' /\ file # None
    BY <1>4 DEF Rename, agent, FileStays
  <2>2. file'.monitoring = file.monitoring
    BY <1>4, <2>1 DEF Rename, Keys
  <2> QED
    BY <2>1, <2>2 DEF FromConfig
<1>5. ASSUME NEW w \in Writers, Sync(w) PROVE LiveIsFile'
  BY <1>5 DEF Sync, MovesTo, Fault, NoFault, disk, agent, writing, history, Serving, Steps
<1>6. ASSUME NEW h \in Savers, Request(h) PROVE LiveIsFile'
  BY <1>6 DEF Request, MovesTo, disk, agent, writing, history, Serving, Steps
<1>7. ASSUME NEW h \in Savers, ReadModify(h) PROVE LiveIsFile'
  BY <1>7 DEF ReadModify, MovesTo, Idle, LockFree, disk, agent, writing, history, Serving, Steps
<1>8. ASSUME NEW h \in Savers, Acknowledge(h) PROVE LiveIsFile'
  <2> SUFFICES ASSUME "monitoring" \notin stale' PROVE live' = FromConfig(file)
    BY <1>8 DEF Acknowledge, disk
  <2>1. /\ agent_state = "serving" /\ step[h] = "written" /\ live' = LiveAfter(request[h])
        /\ stale' = IF copy[h] = file THEN stale \ {Target(request[h])} ELSE stale
    BY <1>8 DEF Acknowledge
  <2>2. request[h] \in Asks
    BY <2>1 DEF TurnsOK
  <2>3. CASE request[h].kind = "settings"
    <3>1. Target(request[h]) = "monitoring" /\ live' = request[h].value
      BY <2>1, <2>3 DEF Target, LiveAfter
    <3>2. copy[h].monitoring = request[h].value
      BY <2>1, <3>1 DEF OwnFileOK, AtWork
    <3>3. file.monitoring = request[h].value
      BY <2>1, <3>2 DEF OwnFileOK
    <3> QED
      BY <2>2, <3>1, <3>3 DEF FromConfig, Section, Asks
  <2>4. CASE request[h].kind # "settings"
    <3>1. Target(request[h]) # "monitoring" /\ live' = live
      BY <2>1, <2>2, <2>4 DEF Target, LiveAfter, Asks
    <3> QED
      BY <2>1, <3>1
  <2> QED
    BY <2>3, <2>4
<1>9. ASSUME NEW h \in Savers, Refuse(h) PROVE LiveIsFile'
  BY <1>9 DEF Refuse, Release, Idle, disk, agent, writing, history, Serving, Steps
<1>10. ASSUME NEW h \in Savers, Dropped(h) PROVE LiveIsFile'
  BY <1>10 DEF Dropped, Release, Idle, disk, agent, writing, history, Serving, Steps
<1>11. CASE ConfigInit
  BY <1>11 DEF ConfigInit, MovesTo, disk, agent, writing, history, Serving, Steps
<1>12. CASE ConfigInitEnds
  BY <1>12 DEF ConfigInitEnds, Idle, disk, agent, writing, history, Serving, Steps
<1>13. CASE Load
  <2>1. CASE file # None
    <3>1. live' = FromConfig(Normalized(file)) /\ file' = file
      BY <1>13, <2>1 DEF Load, Loaded, disk
    <3> QED
      BY <2>1, <3>1, NormalizedIsPlain DEF FilesArePlain
  <2>2. CASE file = None
    BY <1>13, <2>2 DEF Load
  <2> QED
    BY <2>1, <2>2
<1>14. CASE Installed
  <2>1. copy[Starting] \in Configurations /\ Plain(copy[Starting])
    BY <1>14 DEF Installed, TurnsOK, AtWork, FilesArePlain
  <2>2. live' = FromConfig(copy[Starting])
    BY <1>14, <2>1, NormalizedIsPlain DEF Installed, Loaded
  <2>3. "monitoring" \notin stale' => file'.monitoring = copy[Starting].monitoring
    BY <1>14 DEF Installed, disk, Keys
  <2> QED
    BY <2>2, <2>3 DEF FromConfig
<1>15. CASE NotInstalled
  BY <1>15 DEF NotInstalled, Idle, disk, agent, writing, history, Serving, Steps
<1>16. CASE Killed
  BY <1>16, KilledLeaves
<1>17. CASE PowerLoss
  BY <1>17, PowerLossLeaves
<1>18. CASE UNCHANGED agentVars
  BY <1>18 DEF agentVars, disk, agent, writing, history, Serving, Steps
<1> QED
  BY <1>1, <1>2, <1>3, <1>4, <1>5, <1>6, <1>7, <1>8, <1>9, <1>10, <1>11, <1>12, <1>13, <1>14, <1>15, <1>16, <1>17, <1>18
  DEF AgentNext, Write, Start

LEMMA AgentInitInv == AgentInit => AgentInv
<1> SUFFICES ASSUME AgentInit PROVE AgentInv
  OBVIOUS
<1> USE ConfigConstants, DefaultIsPlain
<1>1. /\ file \in InitialFiles \cup {None} /\ safe = file
      /\ json \in {None, OlderAgents}
      /\ agent_state = "down" /\ live = 0 /\ lock = NoHolder
      /\ step = [w \in Writers |-> "idle"]
      /\ copy = [w \in Writers |-> None] /\ request = [w \in Writers |-> None]
      /\ stale = {}
  BY DEF AgentInit
<1>2. full_access_off \in BOOLEAN
  BY Zenon DEF AgentInit
<1>3. file \in Configurations \cup {None} /\ (file # None => Plain(file))
  BY <1>1, ConfigAssumption DEF Plain
<1>4. json \in Configurations \cup {None}
  BY <1>1 DEF OlderAgents, Configurations, Optional
<1> DEFINE first == IF file # None THEN file ELSE FirstFile
<1>5. first \in Configurations
  <2>1. FirstFile \in Configurations
    BY <1>4, NormalizedIsPlain DEF FirstFile
  <2> QED
    BY <1>3, <2>1
<1>6. legit = [k \in Keys |-> {first[k]} \cup (IF first[k] = None THEN {0} ELSE {})]
  BY DEF AgentInit, FirstFile
<1> HIDE DEF first
<1>7. \A k \in Keys : first[k] \in Optional
  BY <1>5, KeysOfConfiguration
<1>8. /\ legit \in [Keys -> SUBSET Optional]
      /\ \A k \in Keys : first[k] \in legit[k] /\ (None \in legit[k] => 0 \in legit[k])
  BY <1>6, <1>7 DEF Optional
<1>9. AgentTypesOK
  BY <1>1, <1>2, <1>3, <1>4, <1>8 DEF AgentTypesOK, Steps
<1>10. TurnsOK /\ FileStays /\ OwnFileOK /\ FilesArePlain /\ LiveIsFile
  BY <1>1, <1>3 DEF TurnsOK, FileStays, OwnFileOK, FilesArePlain, LiveIsFile, AtWork, Serving
<1>11. ValuesOK
  <2>1. /\ file # None => Legitimate(file)
        /\ safe = None => Legitimate(FirstFile)
    BY <1>1, <1>8 DEF first, Legitimate
  <2> QED
    BY <1>1, <1>8, <2>1 DEF ValuesOK
<1> QED
  BY <1>9, <1>10, <1>11 DEF AgentInv

LEMMA AgentNextInv == AgentInv /\ [AgentNext]_agentVars => AgentInv'
  BY AgentTypesNext, TurnsNext, ValuesNext, FileStaysNext, OwnFileNext, FilesArePlainNext,
     LiveIsFileNext
  DEF AgentInv

(* No acknowledged save is lost and config.toml is never torn, however many
   requests, `config init`, kills and power losses there are.                *)
THEOREM SavesAreKept == AgentSpec => []SavesSurvive
<1>1. AgentInv => SavesSurvive
  BY ConfigConstants DEF AgentInv, AgentTypesOK, ValuesOK, Legitimate, SavesSurvive
<1> QED
  BY AgentInitInv, AgentNextInv, <1>1, PTL DEF AgentSpec

(* While nobody saves the agent runs with the settings of its file. *)
THEOREM AgentFollowsItsFile == AgentSpec => []LiveFollowsFile
<1>1. AgentInv => LiveFollowsFile
  BY DEF AgentInv, LiveIsFile, LiveFollowsFile
<1> QED
  BY AgentInitInv, AgentNextInv, <1>1, PTL DEF AgentSpec

----------------------------------------------------------------------------
(* Paths *)

\* The least number of a set, which is all that inductions over numbers need.
LEMMA LeastNumber ==
  ASSUME NEW A \in SUBSET Nat, A # {}
  PROVE  \E n \in A : \A m \in A : n <= m
<1>1. PICK n \in A : \A m \in A : <<m, n>> \notin OpToRel(<, Nat)
  BY WFMin, NatLessThanWellFounded, Zenon
<1>2. \A m \in A : ~(m < n)
  BY <1>1, Zenon DEF OpToRel
<1> QED
  BY <1>2

LEMMA SetInduction ==
  ASSUME NEW A, 0 \in A, \A n \in Nat : n \in A => n + 1 \in A
  PROVE  Nat \subseteq A
<1>1. SUFFICES ASSUME Nat \ A # {} PROVE FALSE
  OBVIOUS
<1>2. PICK n \in Nat \ A : \A m \in Nat \ A : n <= m
  BY <1>1, LeastNumber
<1>3. n # 0 /\ n - 1 \in Nat
  BY <1>2
<1>4. n - 1 \in A
  BY <1>2, <1>3
<1> QED
  BY <1>2, <1>3, <1>4

\* What F makes of a in n steps, one after the other.
IsRun(g, S, a, F, n) ==
  /\ g \in [0 .. n -> S]
  /\ g[0] = a
  /\ \A i \in 1 .. n : g[i] = F[g[i - 1]]

LEMMA RunExists ==
  ASSUME NEW S, NEW a \in S, NEW F \in [S -> S], NEW n \in Nat
  PROVE  \E g : IsRun(g, S, a, F, n)
<1> DEFINE A == {m \in Nat : \E g : IsRun(g, S, a, F, m)}
<1>1. 0 \in A
  <2>1. IsRun([i \in 0 .. 0 |-> a], S, a, F, 0)
    BY DEF IsRun
  <2> QED
    BY <2>1
<1>2. ASSUME NEW m \in Nat, m \in A PROVE m + 1 \in A
  <2>1. PICK g : IsRun(g, S, a, F, m)
    BY <1>2
  <2> DEFINE h == [i \in 0 .. m + 1 |-> IF i = m + 1 THEN F[g[m]] ELSE g[i]]
  <2>2. h \in [0 .. m + 1 -> S]
    BY <2>1 DEF IsRun
  <2>3. h[0] = a /\ \A i \in 1 .. m + 1 : h[i] = F[h[i - 1]]
    BY <2>1 DEF IsRun
  <2>4. IsRun(h, S, a, F, m + 1)
    BY <2>2, <2>3 DEF IsRun
  <2> QED
    BY <2>4
<1>3. Nat \subseteq A
  <2> HIDE DEF A
  <2> QED
    BY <1>1, <1>2, SetInduction
<1> QED
  BY <1>3

----------------------------------------------------------------------------
TreeOK ==
  /\ DOMAIN tree \subseteq Paths
  /\ \A p \in DOMAIN tree : tree[p] \in Nodes

Walkers == [done : Paths \cup {Nowhere}, rest : Paths, links : 0 .. MaxLinks]
StartOf(path) == [done |-> <<>>, rest |-> path, links |-> MaxLinks]

\* A walker that goes on is somewhere.
Sound(w) == w \in Walkers /\ (w.done = Nowhere => w.rest = <<>>)
SoundWalkers == {w \in Walkers : Sound(w)}

LEMMA SoundIs ==
  ASSUME NEW done \in Paths \cup {Nowhere}, NEW rest \in Paths, NEW links \in 0 .. MaxLinks,
         done = Nowhere => rest = <<>>
  PROVE  [done |-> done, rest |-> rest, links |-> links] \in SoundWalkers
<1> DEFINE w == [done |-> done, rest |-> rest, links |-> links]
<1>1. w \in Walkers /\ w.done = done /\ w.rest = rest
  BY DEF Walkers
<1> HIDE DEF w
<1> QED
  BY <1>1 DEF SoundWalkers, Sound, w

\* What is before a walker: the names it has, and those it may still meet.
Ahead(w) == Len(w.rest) + w.links * MaxTarget

LEMMA TimesNat ==
  ASSUME NEW a \in Nat, NEW b \in Nat
  PROVE  a * b \in Nat /\ (a # 0 => (a - 1) * b + b = a * b)
OBVIOUS

LEMMA StepIsSound ==
  ASSUME FsAssumption, TreeOK, NEW w \in SoundWalkers
  PROVE  /\ Stepped(w) \in SoundWalkers
         /\ w.rest # <<>> => Ahead(Stepped(w)) < Ahead(w)
<1> DEFINE next == Append(w.done, Head(w.rest))
<1>1. w \in Walkers /\ w.rest \in Paths /\ w.links \in 0 .. MaxLinks /\ MaxLinks \in Nat /\ MaxTarget \in Nat
  BY DEF SoundWalkers, Walkers, FsAssumption
<1>2. CASE w.rest = <<>>
  BY <1>2 DEF Stepped
<1>3. CASE w.rest # <<>>
  <2>1. w.done \in Paths
    BY <1>3 DEF SoundWalkers, Walkers, Sound
  <2>2. Head(w.rest) \in Name /\ Tail(w.rest) \in Paths /\ Len(Tail(w.rest)) = Len(w.rest) - 1 /\ Len(w.rest) \in Nat
    BY <1>1, <1>3, HeadTailProperties, LenProperties DEF Paths
  <2>3. next \in Paths
    BY <2>1, <2>2, AppendProperties DEF Paths
  <2>4. w.links * MaxTarget \in Nat
    BY <1>1, TimesNat
  <2>5. CASE next \notin DOMAIN tree \/ (tree[next].kind = "link" /\ w.links = 0)
    <3>1. Stepped(w) = [w EXCEPT !.done = Nowhere, !.rest = <<>>]
      BY <1>3, <2>5 DEF Stepped
    <3>2. Stepped(w) = [done |-> Nowhere, rest |-> <<>>, links |-> w.links]
      BY <3>1 DEF SoundWalkers, Walkers
    <3>3. <<>> \in Paths /\ Len(<<>>) = 0 /\ Len(w.rest) # 0
      BY EmptySeq, <1>1, <1>3 DEF Paths
    <3>4. Stepped(w) \in SoundWalkers
      BY <3>2, <3>3, <1>1 DEF SoundWalkers, Walkers, Sound
    <3>5. Ahead(Stepped(w)) = 0 + w.links * MaxTarget
      BY <3>2, <3>3 DEF Ahead
    <3> QED
      BY <3>3, <3>4, <3>5, <2>2, <2>4 DEF Ahead
  <2>6. CASE next \in DOMAIN tree /\ tree[next].kind # "link"
    <3>1. Stepped(w) = [done |-> next, rest |-> Tail(w.rest), links |-> w.links]
      BY <1>3, <2>6 DEF Stepped, SoundWalkers, Walkers
    <3> HIDE DEF next
    <3>2. Stepped(w) \in SoundWalkers
      BY <3>1, <2>2, <2>3, <1>1, SoundIs DEF FsAssumption
    <3> QED
      BY <3>1, <3>2, <2>2, <2>4 DEF Ahead
  <2>7. CASE next \in DOMAIN tree /\ tree[next].kind = "link" /\ w.links # 0
    <3> DEFINE target == tree[next].target
    <3>1. Stepped(w) = [done |-> <<>>, rest |-> target \o Tail(w.rest), links |-> w.links - 1]
      BY <1>3, <2>7 DEF Stepped
    <3>2. target \in Paths /\ Len(target) <= MaxTarget /\ Len(target) \in Nat
      <4>1. tree[next] \in Nodes
        BY <2>7 DEF TreeOK
      <4>2. target \in Paths /\ Len(target) <= MaxTarget
        BY <4>1 DEF Nodes
      <4> QED
        BY <4>2, LenProperties DEF Paths
    <3> HIDE DEF target, next
    <3>3. target \o Tail(w.rest) \in Paths /\ Len(target \o Tail(w.rest)) = Len(target) + Len(w.rest) - 1
      BY <3>2, <2>2, ConcatProperties DEF Paths
    <3>4. <<>> \in Paths /\ <<>> # Nowhere
      BY EmptySeq DEF Paths, FsAssumption
    <3>0. w.links - 1 \in 0 .. MaxLinks /\ w.links \in Nat
      BY <1>1, <2>7
    <3>5. Stepped(w) \in SoundWalkers
      BY <3>0, <3>1, <3>3, <3>4, SoundIs
    <3>6. (w.links - 1) * MaxTarget + MaxTarget = w.links * MaxTarget /\ (w.links - 1) * MaxTarget \in Nat
      <4>1. w.links # 0 => (w.links - 1) * MaxTarget + MaxTarget = w.links * MaxTarget
        BY <3>0, <1>1, TimesNat
      <4>2. w.links - 1 \in Nat
        BY <3>0
      <4>3. (w.links - 1) * MaxTarget \in Nat
        BY <4>2, <1>1, TimesNat
      <4> QED
        BY <4>1, <4>3, <2>7
    <3> DEFINE fewer == (w.links - 1) * MaxTarget
               all == w.links * MaxTarget
    <3>7. Ahead(Stepped(w)) = Len(target) + Len(w.rest) - 1 + fewer /\ Ahead(w) = Len(w.rest) + all
      BY <3>1, <3>3 DEF Ahead
    <3>8. Len(w.rest) \in Nat /\ fewer + MaxTarget = all /\ fewer \in Nat /\ all \in Nat
      BY <2>2, <2>4, <3>6
    <3> HIDE DEF fewer, all
    <3>9. Ahead(Stepped(w)) < Ahead(w)
      BY <3>2, <3>7, <3>8, <1>1
    <3> QED
      BY <3>5, <3>9
  <2>8. CASE next \notin DOMAIN tree
    BY <2>5, <2>8
  <2>9. CASE next \in DOMAIN tree /\ w.links = 0
    BY <2>5, <2>6, <2>9
  <2>10. CASE next \in DOMAIN tree /\ w.links # 0
    BY <2>6, <2>7, <2>10
  <2> QED
    BY <2>8, <2>9, <2>10
<1> QED
  BY <1>2, <1>3

Walks(path, n, g) ==
  /\ g \in [0 .. n -> SoundWalkers]
  /\ g[0] = StartOf(path)
  /\ \A i \in 1 .. n : g[i] = Stepped(g[i - 1])

Leads(path, place) ==
  \E n \in Nat : \E g : Walks(path, n, g) /\ g[n].rest = <<>> /\ g[n].done = place

LEMMA StartIsSound ==
  ASSUME FsAssumption, NEW path \in Paths
  PROVE  StartOf(path) \in SoundWalkers
<1>0. <<>> \in Paths
  BY EmptySeq DEF Paths
<1>1. <<>> # Nowhere /\ MaxLinks \in 0 .. MaxLinks
  BY <1>0 DEF FsAssumption
<1> QED
  BY <1>0, <1>1, SoundIs DEF StartOf

LEMMA StepsAreNat ==
  ASSUME FsAssumption, NEW path \in Paths
  PROVE  StepsOf(path) \in Nat
BY TimesNat, LenProperties DEF FsAssumption, StepsOf, Paths

LEMMA CanonicalizeWalks ==
  ASSUME FsAssumption, TreeOK, NEW path \in Paths
  PROVE  \E g : Walks(path, StepsOf(path), g) /\ g[StepsOf(path)].done = canonicalize(path)
<1> DEFINE n == StepsOf(path)
           IsWalk(g) == g = [i \in 0 .. n |-> IF i = 0 THEN [done |-> <<>>, rest |-> path, links |-> MaxLinks]
                                             ELSE Stepped(g[i - 1])]
           F == [w \in SoundWalkers |-> Stepped(w)]
           walk == CHOOSE g : IsWalk(g)
<1>1. n \in Nat
  BY StepsAreNat
<1>2. F \in [SoundWalkers -> SoundWalkers] /\ \A w \in SoundWalkers : F[w] = Stepped(w)
  BY StepIsSound
<1>3. canonicalize(path) = walk[n].done
  BY DEF canonicalize
<1> HIDE DEF n, F
<1>4. PICK g : IsRun(g, SoundWalkers, StartOf(path), F, n)
  BY <1>1, <1>2, StartIsSound, RunExists
<1>5. IsWalk(g)
  <2>1. \A i \in 1 .. n : g[i] = Stepped(g[i - 1])
    BY <1>1, <1>2, <1>4 DEF IsRun
  <2> QED
    BY <1>1, <1>4, <2>1 DEF StartOf, IsRun
<1>6. IsWalk(walk)
  <2> HIDE DEF IsWalk
  <2> QED
    BY <1>5
<1> HIDE DEF walk
<1>7. walk[0] = StartOf(path) /\ \A i \in 1 .. n : walk[i] = Stepped(walk[i - 1])
  BY <1>1, <1>6 DEF StartOf
<1>8. \A i \in 0 .. n : walk[i] \in SoundWalkers
  <2> DEFINE A == {i \in Nat : i \in 0 .. n => walk[i] \in SoundWalkers}
  <2>1. 0 \in A
    BY <1>7, StartIsSound
  <2>2. ASSUME NEW i \in Nat, i \in A PROVE i + 1 \in A
    BY <1>1, <1>7, <2>2, StepIsSound
  <2>3. Nat \subseteq A
    <3> HIDE DEF A
    <3> QED
      BY <2>1, <2>2, SetInduction
  <2> QED
    BY <2>3, <1>1
<1>9. walk \in [0 .. n -> SoundWalkers]
  BY <1>6, <1>8
<1> HIDE DEF IsWalk
<1> QED
  BY <1>3, <1>7, <1>9 DEF Walks, n

LEMMA CanonicalizeLeads ==
  ASSUME FsAssumption, TreeOK, NEW path \in Paths
  PROVE  Leads(path, canonicalize(path))
<1> DEFINE n == StepsOf(path)
<1>1. n \in Nat
  BY StepsAreNat
<1>2. PICK g : Walks(path, n, g) /\ g[n].done = canonicalize(path)
  BY CanonicalizeWalks
<1>3. \A i \in 0 .. n : g[i] \in SoundWalkers
  BY <1>2 DEF Walks
<1>4. \A w \in SoundWalkers : Ahead(w) \in Nat /\ (Ahead(w) = 0 => w.rest = <<>>)
  <2> TAKE w \in SoundWalkers
  <2>1. w.rest \in Paths /\ w.links \in Nat /\ MaxTarget \in Nat
    BY DEF SoundWalkers, Walkers, FsAssumption
  <2>2. w.links * MaxTarget \in Nat /\ Len(w.rest) \in Nat /\ (Len(w.rest) = 0 => w.rest = <<>>)
    BY <2>1, TimesNat, EmptySeq, LenProperties DEF Paths
  <2> QED
    BY <2>2 DEF Ahead
<1>5. Ahead(g[0]) = n
  BY <1>2 DEF Walks, StartOf, Ahead, StepsOf
<1> DEFINE A == {i \in Nat : i \in 0 .. n => g[i].rest = <<>> \/ Ahead(g[i]) <= n - i}
<1> HIDE DEF n
<1>6. 0 \in A
  BY <1>1, <1>5
<1>7. ASSUME NEW i \in Nat, i \in A PROVE i + 1 \in A
  <2>1. SUFFICES ASSUME i + 1 \in 0 .. n
                 PROVE  g[i + 1].rest = <<>> \/ Ahead(g[i + 1]) <= n - (i + 1)
    OBVIOUS
  <2>2. i \in 0 .. n /\ (g[i].rest = <<>> \/ Ahead(g[i]) <= n - i)
    BY <1>1, <1>7, <2>1
  <2>3. i + 1 \in 1 .. n /\ (i + 1) - 1 = i
    BY <1>1, <2>1
  <2>4. g[i + 1] = Stepped(g[i])
    BY <1>2, <2>3 DEF Walks
  <2>5. CASE g[i].rest = <<>>
    BY <2>4, <2>5 DEF Stepped
  <2>6. CASE g[i].rest # <<>>
    <3>1. Ahead(g[i + 1]) < Ahead(g[i])
      BY <1>3, <2>2, <2>4, <2>6, StepIsSound
    <3>2. Ahead(g[i]) \in Nat /\ Ahead(g[i + 1]) \in Nat
      BY <1>3, <1>4, <2>1, <2>2
    <3> QED
      BY <1>1, <2>2, <2>6, <3>1, <3>2
  <2> QED
    BY <2>5, <2>6
<1>8. Nat \subseteq A
  <2> HIDE DEF A
  <2> QED
    BY <1>6, <1>7, SetInduction
<1>9. g[n].rest = <<>>
  <2>1. g[n].rest = <<>> \/ Ahead(g[n]) <= 0
    BY <1>1, <1>8
  <2>2. g[n] \in SoundWalkers
    BY <1>1, <1>3
  <2> QED
    BY <1>4, <2>1, <2>2
<1> QED
  BY <1>1, <1>2, <1>9 DEF Leads

LEMMA LongerWalk ==
  ASSUME NEW path, NEW n \in Nat, NEW m \in Nat, NEW g, NEW h, n <= m,
         Walks(path, n, g), g[n].rest = <<>>, Walks(path, m, h)
  PROVE  g[n].done = h[m].done
<1> DEFINE A == {i \in Nat : i \in 0 .. m => h[i] = IF i <= n THEN g[i] ELSE g[n]}
<1>2. 0 \in A
  BY DEF Walks
<1>3. ASSUME NEW i \in Nat, i \in A PROVE i + 1 \in A
  <2>1. SUFFICES ASSUME i + 1 \in 0 .. m
                 PROVE  h[i + 1] = IF i + 1 <= n THEN g[i + 1] ELSE g[n]
    OBVIOUS
  <2>2. i + 1 \in 1 .. m /\ (i + 1) - 1 = i /\ i \in 0 .. m
    BY <2>1
  <2>3. h[i + 1] = Stepped(h[i])
    BY <2>2 DEF Walks
  <2>4. CASE i + 1 <= n
    <3>1. i + 1 \in 1 .. n
      BY <2>4
    <3>2. g[i + 1] = Stepped(g[i])
      BY <3>1, <2>2 DEF Walks
    <3> QED
      BY <1>3, <2>2, <2>3, <2>4, <3>2
  <2>5. CASE ~(i + 1 <= n)
    <3>1. h[i] = g[n]
      BY <1>3, <2>2, <2>5
    <3>2. h[i + 1] = g[n]
      BY <2>3, <3>1 DEF Stepped
    <3> QED
      BY <2>5, <3>2
  <2> QED
    BY <2>4, <2>5
<1>4. Nat \subseteq A
  <2> HIDE DEF A
  <2> QED
    BY <1>2, <1>3, SetInduction
<1> QED
  BY <1>4

LEMMA LeadsToOne ==
  ASSUME NEW path, NEW a, NEW b, Leads(path, a), Leads(path, b)
  PROVE  a = b
<1>1. PICK n \in Nat : \E g : Walks(path, n, g) /\ g[n].rest = <<>> /\ g[n].done = a
  BY DEF Leads
<1>2. PICK g : Walks(path, n, g) /\ g[n].rest = <<>> /\ g[n].done = a
  BY <1>1
<1>3. PICK m \in Nat : \E h : Walks(path, m, h) /\ h[m].rest = <<>> /\ h[m].done = b
  BY DEF Leads
<1>4. PICK h : Walks(path, m, h) /\ h[m].rest = <<>> /\ h[m].done = b
  BY <1>3
<1>5. CASE n <= m
  BY <1>2, <1>4, <1>5, LongerWalk
<1>6. CASE m <= n
  BY <1>2, <1>4, <1>6, LongerWalk
<1> QED
  BY <1>5, <1>6

LEMMA CanonicalizeIs ==
  ASSUME FsAssumption, TreeOK, NEW path \in Paths, NEW place, Leads(path, place)
  PROVE  canonicalize(path) = place
BY CanonicalizeLeads, LeadsToOne

----------------------------------------------------------------------------
\* A path without links, all of it there.
Canonical(p) ==
  /\ p \in Paths
  /\ \A i \in 1 .. Len(p) : SubSeq(p, 1, i) \in DOMAIN tree /\ tree[SubSeq(p, 1, i)].kind # "link"

LEMMA PathFacts ==
  ASSUME NEW p \in Paths
  PROVE  /\ Len(p) \in Nat
         /\ \A i \in 0 .. Len(p) : /\ SubSeq(p, 1, i) \in Paths /\ Len(SubSeq(p, 1, i)) = i
                                  /\ \A j \in 1 .. i : SubSeq(p, 1, i)[j] = p[j]
         /\ \A i \in 1 .. Len(p) : p[i] \in Name
         /\ SubSeq(p, 1, Len(p)) = p
         /\ SubSeq(p, 1, 0) = <<>>
<1>1. Len(p) \in Nat /\ \A i \in 1 .. Len(p) : p[i] \in Name
  BY LenProperties, ElementOfSeq DEF Paths
<1>2. ASSUME NEW i \in 0 .. Len(p)
      PROVE  /\ SubSeq(p, 1, i) \in Paths /\ Len(SubSeq(p, 1, i)) = i
             /\ \A j \in 1 .. i : SubSeq(p, 1, i)[j] = p[j]
  <2>1. \A j \in 1 .. i : p[j] \in Name
    BY <1>1
  <2>2. i \in Int /\ 1 \in Int
    BY <1>1
  <2>3. /\ SubSeq(p, 1, i) \in Seq(Name)
        /\ Len(SubSeq(p, 1, i)) = IF 1 <= i THEN i - 1 + 1 ELSE 0
        /\ \A j \in 1 .. i - 1 + 1 : SubSeq(p, 1, i)[j] = p[1 + j - 1]
    BY <2>1, <2>2, SubSeqProperties
  <2>4. i - 1 + 1 = i /\ \A j \in 1 .. i : 1 + j - 1 = j
    BY <1>1
  <2>5. Len(SubSeq(p, 1, i)) = i
    BY <2>3, <2>4, <1>1
  <2>6. \A j \in 1 .. i : SubSeq(p, 1, i)[j] = p[j]
    BY <2>3, <2>4
  <2> QED
    BY <2>3, <2>5, <2>6 DEF Paths
<1>3. SubSeq(p, 1, Len(p)) = p
  BY SubSeqFull DEF Paths
<1>4. SubSeq(p, 1, 0) = <<>>
  BY SubSeqEmpty
<1> QED
  BY <1>1, <1>2, <1>3, <1>4

LEMMA SamePath ==
  ASSUME NEW p \in Paths, NEW q \in Paths, Len(p) = Len(q), \A i \in 1 .. Len(p) : p[i] = q[i]
  PROVE  p = q
BY SeqEqual DEF Paths

LEMMA AppendedPath ==
  ASSUME NEW p \in Paths, NEW x \in Name
  PROVE  /\ Append(p, x) \in Paths /\ Len(Append(p, x)) = Len(p) + 1 /\ Append(p, x) # <<>>
         /\ \A i \in 0 .. Len(p) : SubSeq(Append(p, x), 1, i) = SubSeq(p, 1, i)
         /\ Front(Append(p, x)) = p /\ Last(Append(p, x)) = x
<1> DEFINE q == Append(p, x)
<1>1. /\ q \in Paths /\ Len(q) = Len(p) + 1 /\ q # <<>>
      /\ \A i \in 1 .. Len(p) : q[i] = p[i]
      /\ q[Len(p) + 1] = x
  <2>1. p \in Seq(Name)
    BY DEF Paths
  <2>2. q \in Seq(Name) /\ Len(q) = Len(p) + 1 /\ q # <<>>
    BY <2>1, AppendProperties
  <2>3. (\A i \in 1 .. Len(p) : q[i] = p[i]) /\ q[Len(p) + 1] = x
    BY <2>1, AppendProperties
  <2> QED
    BY <2>2, <2>3 DEF Paths
<1> HIDE DEF q
<1>2. ASSUME NEW i \in 0 .. Len(p) PROVE SubSeq(q, 1, i) = SubSeq(p, 1, i)
  <2>1. i \in 0 .. Len(q) /\ Len(p) \in Nat
    BY <1>1, PathFacts
  <2>2. /\ SubSeq(q, 1, i) \in Paths /\ Len(SubSeq(q, 1, i)) = i
        /\ \A j \in 1 .. i : SubSeq(q, 1, i)[j] = q[j]
    BY <1>1, <2>1, PathFacts
  <2>3. /\ SubSeq(p, 1, i) \in Paths /\ Len(SubSeq(p, 1, i)) = i
        /\ \A j \in 1 .. i : SubSeq(p, 1, i)[j] = p[j]
    BY PathFacts
  <2>4. \A j \in 1 .. i : SubSeq(q, 1, i)[j] = SubSeq(p, 1, i)[j]
    BY <1>1, <2>1, <2>2, <2>3
  <2> QED
    BY <2>2, <2>3, <2>4, SamePath
<1>3. Len(p) \in Nat /\ SubSeq(p, 1, Len(p)) = p
  BY PathFacts
<1>4. Front(q) = p /\ Last(q) = x
  BY <1>1, <1>2, <1>3 DEF Front, Last
<1> QED
  BY <1>1, <1>2, <1>4 DEF q

LEMMA NextName ==
  ASSUME NEW p \in Paths, NEW i \in 0 .. Len(p) - 1
  PROVE  /\ Append(SubSeq(p, 1, i), p[i + 1]) = SubSeq(p, 1, i + 1)
         /\ SubSeq(p, i + 1, Len(p)) \in Paths /\ SubSeq(p, i + 1, Len(p)) # <<>>
         /\ Head(SubSeq(p, i + 1, Len(p))) = p[i + 1]
         /\ Tail(SubSeq(p, i + 1, Len(p))) = SubSeq(p, i + 2, Len(p))
<1>1. Len(p) \in Nat /\ i + 1 \in 1 .. Len(p) /\ i + 1 \in 0 .. Len(p) /\ i \in 0 .. Len(p) /\ p[i + 1] \in Name
  BY PathFacts
<1> DEFINE s == SubSeq(p, 1, i)
           t == SubSeq(p, 1, i + 1)
           a == Append(s, p[i + 1])
<1>2. s \in Paths /\ Len(s) = i /\ \A j \in 1 .. i : s[j] = p[j]
  BY <1>1, PathFacts
<1>3. t \in Paths /\ Len(t) = i + 1 /\ \A j \in 1 .. i + 1 : t[j] = p[j]
  BY <1>1, PathFacts
<1>4. a \in Paths /\ Len(a) = i + 1 /\ (\A j \in 1 .. i : a[j] = s[j]) /\ a[i + 1] = p[i + 1]
  BY <1>1, <1>2, AppendProperties DEF Paths
<1>5. \A j \in 1 .. i + 1 : a[j] = t[j]
  BY <1>1, <1>2, <1>3, <1>4
<1>6. a = t
  <2> HIDE DEF a, t
  <2> QED
    BY <1>3, <1>4, <1>5, SamePath
<1>7. /\ Head(SubSeq(p, i + 1, Len(p))) = p[i + 1]
      /\ Tail(SubSeq(p, i + 1, Len(p))) = SubSeq(p, i + 1 + 1, Len(p))
  BY <1>1, HeadTailOfSubSeq DEF Paths
<1>8. \A j \in i + 1 .. Len(p) : p[j] \in Name
  BY <1>1, PathFacts
<1>9. /\ SubSeq(p, i + 1, Len(p)) \in Paths
      /\ Len(SubSeq(p, i + 1, Len(p))) = IF i + 1 <= Len(p) THEN Len(p) - (i + 1) + 1 ELSE 0
  BY <1>1, <1>8, SubSeqProperties DEF Paths
<1>10. SubSeq(p, i + 1, Len(p)) # <<>>
  <2>1. Len(SubSeq(p, i + 1, Len(p))) # 0
    BY <1>1, <1>9
  <2> QED
    BY <2>1, EmptySeq
<1>11. i + 1 + 1 = i + 2
  BY <1>1
<1> QED
  BY <1>6, <1>7, <1>9, <1>10, <1>11

LEMMA HeadTailConcat ==
  ASSUME NEW p \in Paths, p # <<>>, NEW q \in Paths
  PROVE  /\ p \o q \in Paths /\ p \o q # <<>>
         /\ Head(p \o q) = Head(p) /\ Tail(p \o q) = Tail(p) \o q
<1> DEFINE c == p \o q
           t == Tail(p) \o q
<1>1. /\ Len(p) \in Nat \ {0} /\ Len(q) \in Nat
      /\ Tail(p) \in Paths /\ Len(Tail(p)) = Len(p) - 1
      /\ \A i \in 1 .. Len(Tail(p)) : Tail(p)[i] = p[i + 1]
  BY HeadTailProperties, EmptySeq, PathFacts DEF Paths
<1>2. /\ c \in Paths /\ Len(c) = Len(p) + Len(q)
      /\ \A i \in 1 .. Len(p) + Len(q) : c[i] = IF i <= Len(p) THEN p[i] ELSE q[i - Len(p)]
  BY ConcatProperties DEF Paths
<1>3. /\ t \in Paths /\ Len(t) = Len(p) - 1 + Len(q)
      /\ \A i \in 1 .. Len(p) - 1 + Len(q) : t[i] = IF i <= Len(p) - 1 THEN Tail(p)[i] ELSE q[i - (Len(p) - 1)]
  BY <1>1, ConcatProperties DEF Paths
<1> HIDE DEF c, t
<1>4. c # <<>>
  BY <1>1, <1>2, EmptySeq
<1>5. Head(c) = c[1] /\ Head(p) = p[1]
  OBVIOUS
<1>6. c[1] = p[1]
  BY <1>1, <1>2
<1>7. /\ Tail(c) \in Paths /\ Len(Tail(c)) = Len(c) - 1
      /\ \A i \in 1 .. Len(Tail(c)) : Tail(c)[i] = c[i + 1]
  BY <1>2, <1>4, HeadTailProperties DEF Paths
<1>8. Len(Tail(c)) = Len(t)
  BY <1>1, <1>2, <1>3, <1>7
<1>9. ASSUME NEW i \in 1 .. Len(t) PROVE Tail(c)[i] = t[i]
  <2>1. i + 1 \in 1 .. Len(p) + Len(q) /\ i \in 1 .. Len(p) - 1 + Len(q) /\ i \in 1 .. Len(Tail(c))
    BY <1>1, <1>3, <1>8
  <2>2. Tail(c)[i] = c[i + 1]
    BY <1>7, <2>1
  <2>3. CASE i <= Len(p) - 1
    BY <1>1, <1>2, <1>3, <2>1, <2>2, <2>3
  <2>4. CASE ~(i <= Len(p) - 1)
    <3>1. (i + 1) - Len(p) = i - (Len(p) - 1)
      BY <1>1, <2>1
    <3> QED
      BY <1>1, <1>2, <1>3, <2>1, <2>2, <2>4, <3>1
  <2> QED
    BY <2>3, <2>4
<1>10. Tail(c) = t
  BY <1>3, <1>7, <1>8, <1>9, SamePath
<1> QED
  BY <1>2, <1>4, <1>5, <1>6, <1>10 DEF c, t

LEMMA CanonicalEmpty ==
  <<>> \in Paths /\ Canonical(<<>>)
<1>1. <<>> \in Paths /\ Len(<<>>) = 0
  BY EmptySeq DEF Paths
<1> QED
  BY <1>1 DEF Canonical

LEMMA CanonicalAppend ==
  ASSUME NEW p, Canonical(p), NEW x \in Name,
         Append(p, x) \in DOMAIN tree, tree[Append(p, x)].kind # "link"
  PROVE  Canonical(Append(p, x))
<1> DEFINE q == Append(p, x)
<1>1. p \in Paths /\ Len(p) \in Nat
  BY PathFacts DEF Canonical
<1>2. q \in Paths /\ Len(q) = Len(p) + 1 /\ \A i \in 0 .. Len(p) : SubSeq(q, 1, i) = SubSeq(p, 1, i)
  BY <1>1, AppendedPath
<1>3. SubSeq(q, 1, Len(q)) = q
  BY <1>2, PathFacts
<1> HIDE DEF q
<1>4. ASSUME NEW i \in 1 .. Len(q)
      PROVE  SubSeq(q, 1, i) \in DOMAIN tree /\ tree[SubSeq(q, 1, i)].kind # "link"
  <2>1. CASE i = Len(q)
    BY <1>3, <2>1 DEF q
  <2>2. CASE i # Len(q)
    <3>1. i \in 1 .. Len(p) /\ i \in 0 .. Len(p)
      BY <1>1, <1>2, <2>2
    <3> QED
      BY <1>2, <3>1 DEF Canonical
  <2> QED
    BY <2>1, <2>2
<1> QED
  BY <1>2, <1>4 DEF Canonical, q

LEMMA CanonicalPrefix ==
  ASSUME NEW p, Canonical(p), NEW n \in 0 .. Len(p)
  PROVE  Canonical(SubSeq(p, 1, n))
<1> DEFINE s == SubSeq(p, 1, n)
<1>1. p \in Paths /\ Len(p) \in Nat
  BY PathFacts DEF Canonical
<1>2. s \in Paths /\ Len(s) = n /\ \A j \in 1 .. n : s[j] = p[j]
  BY <1>1, PathFacts
<1> HIDE DEF s
<1>3. ASSUME NEW i \in 1 .. n
      PROVE  SubSeq(s, 1, i) = SubSeq(p, 1, i)
  <2>1. i \in 0 .. Len(p) /\ i \in 0 .. Len(s)
    BY <1>1, <1>2
  <2>2. SubSeq(s, 1, i) \in Paths /\ Len(SubSeq(s, 1, i)) = i /\ \A j \in 1 .. i : SubSeq(s, 1, i)[j] = s[j]
    BY <1>2, <2>1, PathFacts
  <2>3. SubSeq(p, 1, i) \in Paths /\ Len(SubSeq(p, 1, i)) = i /\ \A j \in 1 .. i : SubSeq(p, 1, i)[j] = p[j]
    BY <1>1, <2>1, PathFacts
  <2>4. \A j \in 1 .. i : SubSeq(s, 1, i)[j] = SubSeq(p, 1, i)[j]
    BY <1>1, <1>2, <2>2, <2>3
  <2> QED
    BY <2>2, <2>3, <2>4, SamePath
<1>4. \A i \in 1 .. n : i \in 1 .. Len(p)
  BY <1>1
<1>5. Canonical(s)
  BY <1>2, <1>3, <1>4 DEF Canonical
<1> QED
  BY <1>5 DEF s

\* Wherever a walk leads, there is a way without links.
LEMMA CanonicalResult ==
  ASSUME FsAssumption, TreeOK, NEW path \in Paths
  PROVE  canonicalize(path) = Nowhere \/ Canonical(canonicalize(path))
<1> DEFINE n == StepsOf(path)
<1>0. n \in Nat
  BY StepsAreNat
<1>1. PICK g : Walks(path, n, g) /\ g[n].done = canonicalize(path)
  BY CanonicalizeWalks
<1> HIDE DEF n
<1> DEFINE A == {i \in Nat : i \in 0 .. n => g[i].done = Nowhere \/ Canonical(g[i].done)}
<1>2. 0 \in A
  BY <1>1, CanonicalEmpty DEF Walks, StartOf
<1>3. ASSUME NEW i \in Nat, i \in A PROVE i + 1 \in A
  <2>1. SUFFICES ASSUME i + 1 \in 0 .. n
                 PROVE  g[i + 1].done = Nowhere \/ Canonical(g[i + 1].done)
    OBVIOUS
  <2>2. i + 1 \in 1 .. n /\ (i + 1) - 1 = i /\ i \in 0 .. n
    BY <1>0, <2>1
  <2>3. g[i + 1] = Stepped(g[i]) /\ g[i] \in SoundWalkers
    BY <1>1, <2>2 DEF Walks
  <2>4. g[i].done = Nowhere \/ Canonical(g[i].done)
    BY <1>3, <2>2
  <2> DEFINE w == g[i]
             next == Append(w.done, Head(w.rest))
  <2> HIDE DEF w
  <2>5. w \in Walkers /\ w.rest \in Paths /\ (w.done = Nowhere => w.rest = <<>>)
    BY <2>3 DEF SoundWalkers, Sound, Walkers, w
  <2>6. w.done = Nowhere \/ Canonical(w.done)
    BY <2>4 DEF w
  <2>7. CASE w.rest = <<>>
    BY <2>3, <2>6, <2>7 DEF Stepped, w
  <2>8. CASE w.rest # <<>>
    <3>1. Head(w.rest) \in Name /\ Canonical(w.done)
      BY <2>5, <2>6, <2>8, HeadTailProperties DEF Paths
    <3>2. CASE next \in DOMAIN tree /\ tree[next].kind # "link"
      <4>1. Canonical(next)
        BY <3>1, <3>2, CanonicalAppend
      <4> HIDE DEF next
      <4>2. Stepped(w).done = next
        BY <2>5, <2>8, <3>2 DEF Stepped, Walkers, next
      <4> QED
        BY <4>1, <4>2, <2>3 DEF w
    <3>3. CASE ~(next \in DOMAIN tree /\ tree[next].kind # "link")
      <4>1. Stepped(w).done = Nowhere \/ Stepped(w).done = <<>>
        BY <2>5, <2>8, <3>3 DEF Stepped, Walkers
      <4> QED
        BY <4>1, <2>3, CanonicalEmpty DEF w
    <3> QED
      BY <3>2, <3>3
  <2> QED
    BY <2>7, <2>8
<1>4. Nat \subseteq A
  <2> HIDE DEF A
  <2> QED
    BY <1>2, <1>3, SetInduction
<1> QED
  BY <1>0, <1>1, <1>4

\* And there the walk stays where it is.
LEMMA CanonicalStays ==
  ASSUME FsAssumption, TreeOK, NEW p, Canonical(p)
  PROVE  canonicalize(p) = p
<1>1. p \in Paths /\ Len(p) \in Nat /\ MaxLinks \in 0 .. MaxLinks
  BY PathFacts DEF Canonical, FsAssumption
<1> DEFINE n == Len(p)
           g == [i \in 0 .. n |-> [done |-> SubSeq(p, 1, i), rest |-> SubSeq(p, i + 1, n), links |-> MaxLinks]]
<1>2. SubSeq(p, 1, 0) = <<>> /\ SubSeq(p, 0 + 1, n) = p /\ SubSeq(p, 1, n) = p
  BY <1>1, PathFacts
<1>3. SubSeq(p, n + 1, n) = <<>>
  BY <1>1, SubSeqEmpty
<1>4. ASSUME NEW i \in 0 .. n PROVE g[i] \in SoundWalkers
  <2>1. SubSeq(p, 1, i) \in Paths
    BY <1>1, PathFacts
  <2>2. SubSeq(p, i + 1, n) \in Paths
    <3>1. CASE i = n
      BY <1>3, <3>1, CanonicalEmpty
    <3>2. CASE i # n
      <4>1. i \in 0 .. Len(p) - 1
        BY <1>1, <3>2
      <4> QED
        BY <1>1, <4>1, NextName
    <3> QED
      BY <3>1, <3>2
  <2>3. SubSeq(p, 1, i) # Nowhere
    BY <2>1 DEF FsAssumption
  <2> QED
    BY <1>1, <2>1, <2>2, <2>3, SoundIs
<1>5. ASSUME NEW i \in 1 .. n PROVE g[i] = Stepped(g[i - 1])
  <2>1. i - 1 \in 0 .. Len(p) - 1 /\ (i - 1) + 1 = i /\ (i - 1) + 2 = i + 1 /\ i - 1 \in 0 .. n /\ i \in 0 .. n
    BY <1>1
  <2>2. /\ Append(SubSeq(p, 1, i - 1), p[i]) = SubSeq(p, 1, i)
        /\ SubSeq(p, i, n) # <<>>
        /\ Head(SubSeq(p, i, n)) = p[i]
        /\ Tail(SubSeq(p, i, n)) = SubSeq(p, i + 1, n)
    BY <1>1, <2>1, NextName
  <2>3. SubSeq(p, 1, i) \in DOMAIN tree /\ tree[SubSeq(p, 1, i)].kind # "link"
    BY DEF Canonical
  <2>4. g[i - 1] = [done |-> SubSeq(p, 1, i - 1), rest |-> SubSeq(p, i, n), links |-> MaxLinks]
    BY <2>1
  <2>5. g[i] = [done |-> SubSeq(p, 1, i), rest |-> SubSeq(p, i + 1, n), links |-> MaxLinks]
    BY <2>1
  <2> HIDE DEF g
  <2> QED
    <3> DEFINE before == SubSeq(p, 1, i - 1)
               after == SubSeq(p, 1, i)
               rest == SubSeq(p, i, n)
    <3>1. rest # <<>> /\ after = Append(before, Head(rest)) /\ after \in DOMAIN tree /\ tree[after].kind # "link"
      BY <2>2, <2>3
    <3> HIDE DEF before, after, rest
    <3>2. Stepped([done |-> before, rest |-> rest, links |-> MaxLinks])
            = [done |-> after, rest |-> Tail(rest), links |-> MaxLinks]
      BY <3>1 DEF Stepped
    <3> QED
      BY <2>2, <2>4, <2>5, <3>2 DEF before, after, rest
<1>6. g[0] = StartOf(p)
  BY <1>1, <1>2 DEF StartOf
<1>7. g[n].rest = <<>> /\ g[n].done = p
  BY <1>1, <1>2, <1>3
<1>8. g \in [0 .. n -> SoundWalkers]
  BY <1>4
<1> HIDE DEF g
<1>9. Leads(p, p)
  BY <1>1, <1>5, <1>6, <1>7, <1>8 DEF Leads, Walks
<1> QED
  BY <1>1, <1>9, CanonicalizeIs

\* What has led nowhere leads nowhere with more names at the end.
LEMMA LostStays ==
  ASSUME FsAssumption, TreeOK, NEW p \in Paths, NEW q \in Paths, canonicalize(p) = Nowhere
  PROVE  canonicalize(p \o q) = Nowhere
<1>1. PICK n \in Nat : \E g : Walks(p, n, g) /\ g[n].rest = <<>> /\ g[n].done = Nowhere
  BY CanonicalizeLeads DEF Leads
<1>2. PICK g : Walks(p, n, g) /\ g[n].rest = <<>> /\ g[n].done = Nowhere
  BY <1>1
<1>3. ASSUME NEW i \in 0 .. n PROVE g[i].rest = <<>> => g[i].done = Nowhere
  <2>1. SUFFICES ASSUME g[i].rest = <<>> PROVE g[i].done = Nowhere
    OBVIOUS
  <2> DEFINE A == {j \in Nat : i + j \in 0 .. n => g[i + j] = g[i]}
  <2>2. 0 \in A
    OBVIOUS
  <2>3. ASSUME NEW j \in Nat, j \in A PROVE j + 1 \in A
    <3>1. SUFFICES ASSUME i + (j + 1) \in 0 .. n PROVE g[i + (j + 1)] = g[i]
      OBVIOUS
    <3>2. i + (j + 1) \in 1 .. n /\ (i + (j + 1)) - 1 = i + j /\ i + j \in 0 .. n
      BY <3>1
    <3>3. g[i + (j + 1)] = Stepped(g[i + j])
      BY <1>2, <3>2 DEF Walks
    <3> QED
      BY <2>1, <2>3, <3>2, <3>3 DEF Stepped
  <2>4. Nat \subseteq A
    <3> HIDE DEF A
    <3> QED
      BY <2>2, <2>3, SetInduction
  <2>5. n - i \in Nat /\ i + (n - i) = n /\ n \in 0 .. n
    OBVIOUS
  <2>6. n - i \in A
    BY <2>4, <2>5
  <2> QED
    BY <1>2, <2>5, <2>6
<1>4. \A i \in 0 .. n : g[i] \in SoundWalkers
  BY <1>2 DEF Walks
<1> DEFINE On(w) == [done |-> w.done, rest |-> w.rest \o q, links |-> w.links]
           h == [i \in 0 .. n |-> IF g[i].done = Nowhere THEN g[i] ELSE On(g[i])]
<1>5. ASSUME NEW i \in 0 .. n PROVE h[i] \in SoundWalkers
  <2> DEFINE w == g[i]
  <2>1. w \in SoundWalkers /\ h[i] = IF w.done = Nowhere THEN w ELSE On(w)
    BY <1>4
  <2> HIDE DEF w
  <2>2. w.done \in Paths \cup {Nowhere} /\ w.rest \in Paths /\ w.links \in 0 .. MaxLinks
    BY <2>1 DEF SoundWalkers, Walkers
  <2>3. w.rest \o q \in Paths
    BY <2>2, ConcatProperties DEF Paths
  <2>4. w.done # Nowhere => On(w) \in SoundWalkers
    BY <2>2, <2>3, SoundIs
  <2> HIDE DEF On, h
  <2> QED
    BY <2>1, <2>4
<1>6. h[0] = StartOf(p \o q)
  <2>1. g[0] = StartOf(p) /\ <<>> # Nowhere /\ 0 \in 0 .. n
    BY <1>2, CanonicalEmpty DEF Walks, FsAssumption
  <2>2. g[0].done = <<>> /\ On(g[0]) = StartOf(p \o q)
    BY <2>1 DEF StartOf
  <2> QED
    BY <2>1, <2>2
<1>7. ASSUME NEW i \in 1 .. n PROVE h[i] = Stepped(h[i - 1])
  <2> DEFINE w == g[i - 1]
             next == Append(w.done, Head(w.rest))
  <2>1. i - 1 \in 0 .. n /\ i \in 0 .. n
    OBVIOUS
  <2>2. /\ g[i] = Stepped(w) /\ w \in SoundWalkers
        /\ h[i] = IF Stepped(w).done = Nowhere THEN Stepped(w) ELSE On(Stepped(w))
        /\ h[i - 1] = IF w.done = Nowhere THEN w ELSE On(w)
        /\ w.rest = <<>> => w.done = Nowhere
    BY <1>2, <1>3, <1>4, <2>1 DEF Walks
  <2> HIDE DEF w, h
  <2>3. /\ w.done \in Paths \cup {Nowhere} /\ w.rest \in Paths /\ w.links \in 0 .. MaxLinks
        /\ w.done = Nowhere => w.rest = <<>>
        /\ w = [done |-> w.done, rest |-> w.rest, links |-> w.links]
    BY <2>2 DEF SoundWalkers, Sound, Walkers
  <2>4. CASE w.done = Nowhere
    <3>1. Stepped(w) = w
      BY <2>3, <2>4 DEF Stepped
    <3> QED
      BY <2>2, <2>4, <3>1
  <2>5. CASE w.done # Nowhere
    <3>1. w.rest # <<>>
      BY <2>2, <2>5
    <3>2. Tail(w.rest) \in Paths /\ Head(w.rest) \in Name
      BY <2>3, <3>1, HeadTailProperties DEF Paths
    <3>3. w.rest \o q \in Paths /\ w.rest \o q # <<>> /\ Head(w.rest \o q) = Head(w.rest) /\ Tail(w.rest \o q) = Tail(w.rest) \o q
      BY <2>3, <3>1, HeadTailConcat
    <3>4. next \in Paths /\ next # Nowhere
      <4>1. next \in Paths
        BY <2>3, <2>5, <3>2, AppendProperties DEF Paths
      <4> QED
        BY <4>1 DEF FsAssumption
    <3>5. h[i - 1] = On(w)
      BY <2>2, <2>5
    <3>6. CASE next \notin DOMAIN tree \/ (tree[next].kind = "link" /\ w.links = 0)
      <4>1. Stepped(w) = [done |-> Nowhere, rest |-> <<>>, links |-> w.links]
        BY <2>3, <3>1, <3>6 DEF Stepped
      <4>2. Stepped(On(w)) = [done |-> Nowhere, rest |-> <<>>, links |-> w.links]
        BY <3>3, <3>6 DEF Stepped
      <4> QED
        BY <2>2, <3>5, <4>1, <4>2
    <3>7. CASE next \in DOMAIN tree /\ tree[next].kind # "link"
      <4>1. Stepped(w) = [done |-> next, rest |-> Tail(w.rest), links |-> w.links]
        BY <2>3, <3>1, <3>7 DEF Stepped
      <4>2. Stepped(On(w)) = [done |-> next, rest |-> Tail(w.rest) \o q, links |-> w.links]
        BY <3>3, <3>7 DEF Stepped
      <4> HIDE DEF next
      <4> QED
        BY <2>2, <3>4, <3>5, <4>1, <4>2
    <3>8. CASE next \in DOMAIN tree /\ tree[next].kind = "link" /\ w.links # 0
      <4> DEFINE target == tree[next].target
      <4>1. Stepped(w) = [done |-> <<>>, rest |-> target \o Tail(w.rest), links |-> w.links - 1]
        BY <2>3, <3>1, <3>8 DEF Stepped
      <4>2. Stepped(On(w)) = [done |-> <<>>, rest |-> target \o (Tail(w.rest) \o q), links |-> w.links - 1]
        BY <3>3, <3>8 DEF Stepped
      <4>3. target \in Paths
        BY <3>8 DEF TreeOK, Nodes
      <4> HIDE DEF target
      <4> DEFINE tail == Tail(w.rest)
      <4>4. tail \in Paths
        BY <3>2
      <4> HIDE DEF tail
      <4>6. (target \o tail) \o q = target \o (tail \o q)
        BY SMTT(30), <4>3, <4>4, ConcatAssociative DEF Paths
      <4>5. <<>> # Nowhere
        BY CanonicalEmpty DEF FsAssumption
      <4>7. On(Stepped(w)) = [done |-> <<>>, rest |-> (target \o tail) \o q, links |-> w.links - 1]
        BY <4>1 DEF tail
      <4>8. Stepped(w).done # Nowhere
        BY <4>1, <4>5
      <4>9. h[i] = On(Stepped(w))
        BY <2>2, <4>8
      <4>10. On(Stepped(w)) = Stepped(On(w))
        BY <4>2, <4>6, <4>7 DEF tail
      <4> QED
        BY <3>5, <4>9, <4>10
    <3> QED
      BY <3>6, <3>7, <3>8
  <2> QED
    BY <2>4, <2>5
<1>8. h[n].rest = <<>> /\ h[n].done = Nowhere
  BY <1>2
<1>9. h \in [0 .. n -> SoundWalkers]
  BY <1>5
<1> HIDE DEF h
<1>10. Leads(p \o q, Nowhere) /\ p \o q \in Paths
  BY <1>6, <1>7, <1>8, <1>9, ConcatProperties DEF Leads, Walks, Paths
<1> QED
  BY <1>10, CanonicalizeIs

----------------------------------------------------------------------------
(* What a call may be about *)

Within(p) == \E root \in fs_roots : IsPrefix(root, p)

\* Where a call that follows the last name may go.
Resolved(p) == Canonical(p) /\ Within(p)

\* An entry of a directory within the roots, and a path of which a part leads
\* within the roots and no more of it anywhere.
EntryOf(p) == p \in Paths /\ (p = <<>> \/ Resolved(Front(p)))
NewOf(p) ==
  /\ p \in Paths
  /\ \E n \in 0 .. Len(p) :
       /\ Resolved(SubSeq(p, 1, n))
       /\ n < Len(p) => canonicalize(SubSeq(p, 1, n + 1)) = Nowhere

RootsOK == fs_roots \subseteq Paths

LEMMA PrefixIs ==
  ASSUME NEW p \in Paths, NEW q \in Paths
  PROVE  IsPrefix(p, q) <=> Len(p) <= Len(q) /\ \A i \in 1 .. Len(p) : p[i] = q[i]
<1>1. Len(p) \in Nat /\ Len(q) \in Nat /\ SubSeq(p, 1, Len(p)) = p
  BY PathFacts
<1>2. CASE ~(Len(p) <= Len(q))
  BY <1>2 DEF IsPrefix
<1>3. CASE Len(p) <= Len(q)
  <2> DEFINE s == SubSeq(q, 1, Len(p))
  <2>1. s \in Paths /\ Len(s) = Len(p) /\ \A i \in 1 .. Len(p) : s[i] = q[i]
    <3>1. Len(p) \in 0 .. Len(q)
      BY <1>1, <1>3
    <3> QED
      BY <3>1, PathFacts
  <2>2. IsPrefix(p, q) <=> p = s
    BY <1>1, <1>3 DEF IsPrefix
  <2> HIDE DEF s
  <2>3. (\A i \in 1 .. Len(p) : p[i] = q[i]) => p = s
    BY <2>1, SamePath
  <2> QED
    BY <1>3, <2>1, <2>2, <2>3
<1> QED
  BY <1>2, <1>3

LEMMA WithinGrows ==
  ASSUME RootsOK, NEW p \in Paths, NEW q \in Paths, Within(p), IsPrefix(p, q)
  PROVE  Within(q)
<1>1. PICK root \in fs_roots : IsPrefix(root, p)
  BY DEF Within
<1>2. root \in Paths /\ Len(root) \in Nat /\ Len(p) \in Nat /\ Len(q) \in Nat
  BY PathFacts DEF RootsOK
<1>3. Len(root) <= Len(p) /\ \A i \in 1 .. Len(root) : root[i] = p[i]
  BY <1>1, <1>2, PrefixIs
<1>4. Len(p) <= Len(q) /\ \A i \in 1 .. Len(p) : p[i] = q[i]
  BY PrefixIs
<1>5. Len(root) <= Len(q) /\ \A i \in 1 .. Len(root) : root[i] = q[i]
  BY <1>2, <1>3, <1>4
<1>6. IsPrefix(root, q)
  BY <1>2, <1>5, PrefixIs
<1> QED
  BY <1>6 DEF Within

LEMMA FrontIs ==
  ASSUME NEW p \in Paths, p # <<>>
  PROVE  /\ Len(p) \in Nat \ {0} /\ Len(p) - 1 \in 0 .. Len(p)
         /\ Front(p) = SubSeq(p, 1, Len(p) - 1) /\ Front(p) \in Paths /\ Len(Front(p)) = Len(p) - 1
         /\ Last(p) \in Name /\ Append(Front(p), Last(p)) = p
<1>1. Len(p) \in Nat \ {0}
  BY EmptySeq DEF Paths
<1>2. Len(p) - 1 \in 0 .. Len(p) /\ Len(p) - 1 \in 0 .. Len(p) - 1 /\ (Len(p) - 1) + 1 = Len(p) /\ Len(p) \in 1 .. Len(p)
  BY <1>1
<1>3. Front(p) = SubSeq(p, 1, Len(p) - 1) /\ Last(p) = p[Len(p)]
  BY DEF Front, Last
<1>4. Front(p) \in Paths /\ Len(Front(p)) = Len(p) - 1 /\ p[Len(p)] \in Name
  BY <1>2, <1>3, PathFacts
<1>5. Append(SubSeq(p, 1, Len(p) - 1), p[Len(p)]) = SubSeq(p, 1, Len(p))
  BY <1>2, NextName
<1>6. SubSeq(p, 1, Len(p)) = p
  BY PathFacts
<1> QED
  BY <1>1, <1>2, <1>3, <1>4, <1>5, <1>6

LEMMA AppendGrows ==
  ASSUME RootsOK, NEW p \in Paths, NEW x \in Name, Within(p)
  PROVE  Append(p, x) \in Paths /\ Within(Append(p, x))
<1>1. /\ Append(p, x) \in Paths /\ Len(Append(p, x)) = Len(p) + 1 /\ Len(p) \in Nat
      /\ SubSeq(Append(p, x), 1, Len(p)) = SubSeq(p, 1, Len(p))
  BY AppendedPath, PathFacts
<1>2. IsPrefix(p, Append(p, x))
  BY <1>1 DEF IsPrefix
<1> QED
  BY <1>1, <1>2, WithinGrows

LEMMA ConcatGrows ==
  ASSUME RootsOK, NEW p \in Paths, NEW q \in Paths
  PROVE  p \o q \in Paths /\ IsPrefix(p, p \o q) /\ (Within(p) => Within(p \o q))
<1>1. /\ p \o q \in Paths /\ Len(p \o q) = Len(p) + Len(q)
      /\ \A i \in 1 .. Len(p) + Len(q) : (p \o q)[i] = IF i <= Len(p) THEN p[i] ELSE q[i - Len(p)]
  BY ConcatProperties DEF Paths
<1>2. Len(p) \in Nat /\ Len(q) \in Nat
  BY PathFacts
<1> DEFINE c == p \o q
<1> HIDE DEF c
<1>3. Len(p) <= Len(c) /\ \A i \in 1 .. Len(p) : p[i] = c[i]
  BY <1>1, <1>2 DEF c
<1>4. IsPrefix(p, c) /\ c \in Paths
  BY <1>1, <1>3, PrefixIs DEF c
<1> QED
  BY <1>4, WithinGrows DEF c

\* The rest of a path, from a name on.
LEMMA RestIs ==
  ASSUME NEW p \in Paths, NEW n \in 0 .. Len(p), NEW m \in n .. Len(p)
  PROVE  /\ SubSeq(p, n + 1, m) \in Paths /\ Len(SubSeq(p, n + 1, m)) = m - n
         /\ SubSeq(p, 1, n) \o SubSeq(p, n + 1, m) = SubSeq(p, 1, m)
<1>1. Len(p) \in Nat /\ \A i \in 1 .. Len(p) : p[i] \in Name
  BY PathFacts
<1>2. /\ 1 \in 1 .. Len(p) + 1 /\ n \in 1 - 1 .. Len(p) /\ m \in n .. Len(p)
      /\ n + 1 \in Int /\ m \in Int
      /\ \A i \in n + 1 .. m : p[i] \in Name
  BY <1>1
<1>3. SubSeq(p, 1, n) \o SubSeq(p, n + 1, m) = SubSeq(p, 1, m)
  BY <1>2, ConcatAdjacentSubSeq DEF Paths
<1>4. /\ SubSeq(p, n + 1, m) \in Seq(Name)
      /\ Len(SubSeq(p, n + 1, m)) = IF n + 1 <= m THEN m - (n + 1) + 1 ELSE 0
  BY <1>2, SubSeqProperties
<1>5. Len(SubSeq(p, n + 1, m)) = m - n
  BY <1>1, <1>4
<1> QED
  BY <1>3, <1>4, <1>5 DEF Paths

LEMMA PlaceIs ==
  ASSUME FsAssumption, TreeOK, NEW p \in Paths, canonicalize(p) # Nowhere
  PROVE  Canonical(canonicalize(p)) /\ canonicalize(p) \in Paths
BY CanonicalResult DEF Canonical

LEMMA EmptyLeads ==
  ASSUME FsAssumption, TreeOK
  PROVE  canonicalize(<<>>) = <<>> /\ <<>> # Nowhere
BY CanonicalEmpty, CanonicalStays DEF FsAssumption

\* As much of a path as leads somewhere.
LEMMA ExistingIs ==
  ASSUME FsAssumption, TreeOK, NEW p \in Paths
  PROVE  /\ Existing(p) \in 0 .. Len(p)
         /\ canonicalize(SubSeq(p, 1, Existing(p))) # Nowhere
         /\ \A m \in Existing(p) + 1 .. Len(p) : canonicalize(SubSeq(p, 1, m)) = Nowhere
<1> DEFINE Leads0(n) == canonicalize(SubSeq(p, 1, n)) # Nowhere
           A == {k \in Nat : k <= Len(p) /\ Leads0(Len(p) - k)}
<1>1. Len(p) \in Nat /\ SubSeq(p, 1, 0) = <<>>
  BY PathFacts
<1>2. Leads0(0)
  BY <1>1, EmptyLeads
<1> HIDE DEF Leads0
<1>3. Len(p) - Len(p) = 0 /\ Len(p) \in A
  BY <1>1, <1>2
<1>4. PICK k \in A : \A j \in A : k <= j
  BY <1>3, LeastNumber
<1> DEFINE n == Len(p) - k
<1>5. n \in 0 .. Len(p) /\ Leads0(n)
  BY <1>1, <1>4
<1>6. ASSUME NEW m \in n + 1 .. Len(p) PROVE ~Leads0(m)
  <2>1. Len(p) - m \in Nat /\ Len(p) - m <= Len(p) /\ Len(p) - (Len(p) - m) = m /\ ~(k <= Len(p) - m)
    BY <1>1, <1>4, <1>5
  <2>2. Len(p) - m \notin A
    BY <1>4, <2>1
  <2> QED
    BY <2>1, <2>2
<1> QED
  BY <1>5, <1>6, Zenon DEF Existing, Leads0

\* No link is met that was not before: a name that leads nowhere from the root
\* leads nowhere from where the names before it lead.  A walk that goes on from
\* there may follow MaxLinks links again.
LinksSuffice ==
  \A q \in Requested : \A n \in 0 .. Len(q) - 1 :
    LET anchor == canonicalize(SubSeq(q, 1, n))
    IN anchor # Nowhere /\ canonicalize(SubSeq(q, 1, n + 1)) = Nowhere
         => canonicalize(Append(anchor, q[n + 1])) = Nowhere

LEMMA ExistingIsResolved ==
  ASSUME FsAssumption, TreeOK, NEW q \in Paths, resolve_existing(q) # Nowhere
  PROVE  Resolved(resolve_existing(q)) /\ resolve_existing(q) \in Paths
<1>1. /\ resolve_existing(q) = canonicalize(q) /\ canonicalize(q) # Nowhere
      /\ Within(canonicalize(q))
  BY DEF resolve_existing, check_within, Within
<1> QED
  BY <1>1, PlaceIs DEF Resolved

LEMMA EntryIsResolved ==
  ASSUME FsAssumption, TreeOK, NEW q \in Paths, resolve_entry(q) # Nowhere
  PROVE  EntryOf(resolve_entry(q))
<1>1. CASE q = <<>>
  <2>1. resolve_entry(q) = canonicalize(<<>>)
    BY <1>1 DEF resolve_entry, resolve_existing, check_within
  <2> QED
    BY <2>1, EmptyLeads, CanonicalEmpty DEF EntryOf
<1>2. CASE q # <<>>
  <2> DEFINE place == canonicalize(Front(q))
  <2>1. resolve_entry(q) = Append(place, Last(q)) /\ place # Nowhere /\ Within(place)
    BY <1>2 DEF resolve_entry, check_within, Within
  <2>2. Front(q) \in Paths /\ Last(q) \in Name
    BY <1>2, FrontIs
  <2>3. Canonical(place) /\ place \in Paths
    BY <2>1, <2>2, PlaceIs
  <2> HIDE DEF place
  <2>4. Append(place, Last(q)) \in Paths /\ Front(Append(place, Last(q))) = place
    BY <2>2, <2>3, AppendedPath
  <2> QED
    BY <2>1, <2>3, <2>4 DEF EntryOf, Resolved
<1> QED
  BY <1>1, <1>2

LEMMA NewIsResolved ==
  ASSUME FsAssumption, TreeOK, LinksSuffice, RootsOK, NEW q \in Requested, resolve_new(q) # Nowhere
  PROVE  NewOf(resolve_new(q))
<1> DEFINE n == Existing(q)
           anchor == canonicalize(SubSeq(q, 1, n))
           rest == SubSeq(q, n + 1, Len(q))
           p == anchor \o rest
<1>1. q \in Paths /\ Len(q) \in Nat
  BY PathFacts DEF FsAssumption
<1>2. n \in 0 .. Len(q) /\ anchor # Nowhere /\ \A m \in n + 1 .. Len(q) : canonicalize(SubSeq(q, 1, m)) = Nowhere
  BY <1>1, ExistingIs
<1>3. resolve_new(q) = p /\ Within(anchor)
  BY <1>2 DEF resolve_new, check_within, Within
<1> HIDE DEF n
<1>4. Canonical(anchor) /\ anchor \in Paths
  BY <1>1, <1>2, PathFacts, PlaceIs
<1>5. rest \in Paths /\ Len(rest) = Len(q) - n
  BY <1>1, <1>2, RestIs
<1>6. n < Len(q) => canonicalize(Append(anchor, q[n + 1])) = Nowhere
  <2>1. SUFFICES ASSUME n < Len(q) PROVE canonicalize(Append(anchor, q[n + 1])) = Nowhere
    OBVIOUS
  <2>2. n \in 0 .. Len(q) - 1 /\ n + 1 \in n + 1 .. Len(q)
    BY <1>1, <1>2, <2>1
  <2> QED
    BY <1>2, <2>2 DEF LinksSuffice
<1>7. n < Len(q) => rest # <<>> /\ Head(rest) = q[n + 1]
  <2>1. n < Len(q) => n \in 0 .. Len(q) - 1
    BY <1>1, <1>2
  <2> QED
    BY <1>1, <2>1, NextName
<1> HIDE DEF anchor, rest
<1>8. /\ p \in Paths /\ Len(p) = Len(anchor) + Len(rest)
      /\ \A i \in 1 .. Len(anchor) + Len(rest) : p[i] = IF i <= Len(anchor) THEN anchor[i] ELSE rest[i - Len(anchor)]
  BY <1>4, <1>5, ConcatProperties DEF Paths
<1>9. IsPrefix(anchor, p) /\ Len(anchor) \in Nat /\ Len(rest) \in Nat /\ SubSeq(anchor, 1, Len(anchor)) = anchor
  BY <1>4, <1>5, ConcatGrows, PathFacts
<1> HIDE DEF p
<1>10. SubSeq(p, 1, Len(anchor)) = anchor /\ Len(anchor) \in 0 .. Len(p)
  BY <1>8, <1>9 DEF IsPrefix
<1>11. Len(anchor) < Len(p) => canonicalize(SubSeq(p, 1, Len(anchor) + 1)) = Nowhere
  <2>1. SUFFICES ASSUME Len(anchor) < Len(p) PROVE canonicalize(SubSeq(p, 1, Len(anchor) + 1)) = Nowhere
    OBVIOUS
  <2>2. n < Len(q) /\ Len(anchor) \in 0 .. Len(p) - 1 /\ Len(anchor) + 1 \in 1 .. Len(anchor) + Len(rest)
    BY <1>1, <1>2, <1>5, <1>8, <1>9, <2>1
  <2>3. (Len(anchor) + 1) - Len(anchor) = 1 /\ ~(Len(anchor) + 1 <= Len(anchor))
    BY <1>9
  <2>4. p[Len(anchor) + 1] = rest[1]
    BY <1>8, <2>2, <2>3
  <2>5. rest[1] = q[n + 1]
    BY <1>7, <2>2
  <2>6. Append(SubSeq(p, 1, Len(anchor)), p[Len(anchor) + 1]) = SubSeq(p, 1, Len(anchor) + 1)
    BY <1>8, <2>2, NextName
  <2> QED
    BY <1>6, <1>10, <2>2, <2>4, <2>5, <2>6
<1>12. Resolved(anchor)
  BY <1>3, <1>4 DEF Resolved
<1> QED
  BY <1>3, <1>8, <1>10, <1>11, <1>12 DEF NewOf

\* Where an entry is when it is used.
LEMMA EntryAtIs ==
  ASSUME FsAssumption, TreeOK, NEW p \in Paths, EntryAt(p) # Nowhere
  PROVE  /\ p # <<>> /\ Canonical(canonicalize(Front(p))) /\ canonicalize(Front(p)) \in Paths
         /\ EntryAt(p) = Append(canonicalize(Front(p)), Last(p)) /\ EntryAt(p) \in Paths /\ EntryAt(p) # <<>>
<1>1. p # <<>> /\ canonicalize(Front(p)) # Nowhere /\ EntryAt(p) = Append(canonicalize(Front(p)), Last(p))
  BY DEF EntryAt
<1>2. Front(p) \in Paths /\ Last(p) \in Name
  BY <1>1, FrontIs
<1>3. Canonical(canonicalize(Front(p))) /\ canonicalize(Front(p)) \in Paths
  BY <1>1, <1>2, PlaceIs
<1> QED
  BY <1>1, <1>2, <1>3, AppendedPath

LEMMA EntryStays ==
  ASSUME FsAssumption, TreeOK, RootsOK, NEW p, EntryOf(p), EntryAt(p) # Nowhere
  PROVE  EntryAt(p) = p /\ p \in Paths /\ Within(p)
<1>1. p \in Paths
  BY DEF EntryOf
<1>2. p # <<>> /\ EntryAt(p) = Append(canonicalize(Front(p)), Last(p))
  BY <1>1, EntryAtIs
<1>3. Canonical(Front(p)) /\ Within(Front(p))
  BY <1>2 DEF EntryOf, Resolved
<1>4. canonicalize(Front(p)) = Front(p)
  BY <1>3, CanonicalStays
<1>5. Front(p) \in Paths /\ Last(p) \in Name /\ Append(Front(p), Last(p)) = p
  BY <1>1, <1>2, FrontIs
<1>6. Within(p)
  BY <1>3, <1>5, AppendGrows
<1> QED
  BY <1>1, <1>2, <1>4, <1>5, <1>6

\* Of a new path, all leads within the roots or nothing after the beginning.
LEMMA NewLeads ==
  ASSUME FsAssumption, TreeOK, NEW p, NewOf(p)
  PROVE  \E n \in 0 .. Len(p) :
           /\ Resolved(SubSeq(p, 1, n)) /\ canonicalize(SubSeq(p, 1, n)) = SubSeq(p, 1, n)
           /\ SubSeq(p, 1, n) # Nowhere
           /\ \A m \in n + 1 .. Len(p) : canonicalize(SubSeq(p, 1, m)) = Nowhere
<1>1. PICK n \in 0 .. Len(p) : /\ Resolved(SubSeq(p, 1, n))
                               /\ n < Len(p) => canonicalize(SubSeq(p, 1, n + 1)) = Nowhere
  BY DEF NewOf
<1>2. p \in Paths /\ Len(p) \in Nat
  BY PathFacts DEF NewOf
<1>3. canonicalize(SubSeq(p, 1, n)) = SubSeq(p, 1, n) /\ SubSeq(p, 1, n) # Nowhere
  BY <1>1, CanonicalStays DEF Resolved, Canonical, FsAssumption
<1>4. ASSUME NEW m \in n + 1 .. Len(p) PROVE canonicalize(SubSeq(p, 1, m)) = Nowhere
  <2>1. n + 1 \in 0 .. Len(p) /\ m \in n + 1 .. Len(p) /\ n < Len(p)
    BY <1>2
  <2>2. /\ SubSeq(p, 1, n + 1) \in Paths /\ SubSeq(p, (n + 1) + 1, m) \in Paths
        /\ SubSeq(p, 1, n + 1) \o SubSeq(p, (n + 1) + 1, m) = SubSeq(p, 1, m)
    BY <1>2, <2>1, PathFacts, RestIs
  <2>3. canonicalize(SubSeq(p, 1, n + 1)) = Nowhere
    BY <1>1, <2>1
  <2> DEFINE before == SubSeq(p, 1, n + 1)
             after == SubSeq(p, (n + 1) + 1, m)
  <2> HIDE DEF before, after
  <2>4. before \in Paths /\ after \in Paths /\ canonicalize(before) = Nowhere
    BY <2>2, <2>3 DEF before, after
  <2>5. canonicalize(before \o after) = Nowhere
    BY <2>4, LostStays
  <2> QED
    BY <2>2, <2>5 DEF before, after
<1> QED
  BY <1>1, <1>3, <1>4

LEMMA NewEntryStays ==
  ASSUME FsAssumption, TreeOK, RootsOK, NEW p, NewOf(p), EntryAt(p) # Nowhere
  PROVE  EntryAt(p) = p /\ p \in Paths /\ Within(p)
<1>1. PICK n \in 0 .. Len(p) :
           /\ Resolved(SubSeq(p, 1, n))
           /\ \A m \in n + 1 .. Len(p) : canonicalize(SubSeq(p, 1, m)) = Nowhere
  BY NewLeads
<1>2. p \in Paths /\ Len(p) \in Nat
  BY PathFacts DEF NewOf
<1>3. p # <<>> /\ EntryAt(p) = Append(canonicalize(Front(p)), Last(p)) /\ canonicalize(Front(p)) # Nowhere
  BY <1>2, EntryAtIs, CanonicalEmpty DEF EntryAt
<1>4. /\ Len(p) \in Nat \ {0} /\ Front(p) = SubSeq(p, 1, Len(p) - 1) /\ Front(p) \in Paths
      /\ Last(p) \in Name /\ Append(Front(p), Last(p)) = p
  BY <1>2, <1>3, FrontIs
<1>5. Len(p) - 1 \notin n + 1 .. Len(p)
  BY <1>1, <1>3, <1>4
<1>6. n = Len(p) \/ n = Len(p) - 1
  <2>1. n \in 0 .. Len(p) /\ Len(p) \in Nat \ {0}
    BY <1>4
  <2> QED
    BY ONLY <1>5, <2>1
<1>7. Canonical(Front(p)) /\ Within(p)
  <2>1. CASE n = Len(p)
    <3>1. SubSeq(p, 1, Len(p)) = p
      BY <1>2, PathFacts
    <3>2. Canonical(p) /\ Within(p)
      BY <1>1, <2>1, <3>1 DEF Resolved
    <3>3. Len(p) - 1 \in 0 .. Len(p)
      BY <1>4
    <3>4. Canonical(SubSeq(p, 1, Len(p) - 1))
      BY <3>2, <3>3, CanonicalPrefix
    <3> QED
      BY <1>4, <3>2, <3>4
  <2>2. CASE n = Len(p) - 1
    <3>1. Canonical(Front(p)) /\ Within(Front(p))
      BY <1>1, <1>4, <2>2 DEF Resolved
    <3> QED
      BY <1>4, <3>1, AppendGrows
  <2> QED
    BY <1>6, <2>1, <2>2
<1>8. canonicalize(Front(p)) = Front(p)
  BY <1>7, CanonicalStays
<1> QED
  BY <1>2, <1>3, <1>4, <1>7, <1>8

\* The directories that are made, of a path that leads somewhere in part.
MadeOf(p) ==
  LET n == Existing(p)
  IN {canonicalize(SubSeq(p, 1, n)) \o SubSeq(p, n + 1, m) : m \in n + 1 .. Len(p)}

LEMMA MadeArePaths ==
  ASSUME FsAssumption, TreeOK, NEW p \in Paths
  PROVE  MadeOf(p) \subseteq Paths
<1> DEFINE n == Existing(p)
           anchor == canonicalize(SubSeq(p, 1, n))
<1>1. n \in 0 .. Len(p) /\ anchor # Nowhere
  BY ExistingIs
<1>2. anchor \in Paths
  BY <1>1, PathFacts, PlaceIs
<1>3. ASSUME NEW m \in n + 1 .. Len(p) PROVE anchor \o SubSeq(p, n + 1, m) \in Paths
  <2>1. m \in n .. Len(p)
    BY <1>1
  <2>2. SubSeq(p, n + 1, m) \in Paths
    BY <1>1, <2>1, RestIs
  <2> QED
    BY <1>2, <2>2, ConcatProperties DEF Paths
<1> QED
  BY <1>3 DEF MadeOf

LEMMA MadeAreWithin ==
  ASSUME FsAssumption, TreeOK, RootsOK, NEW p, NewOf(p)
  PROVE  \A q \in MadeOf(p) : Within(q)
<1>1. PICK n \in 0 .. Len(p) :
           /\ Resolved(SubSeq(p, 1, n)) /\ canonicalize(SubSeq(p, 1, n)) = SubSeq(p, 1, n)
           /\ SubSeq(p, 1, n) # Nowhere
           /\ \A m \in n + 1 .. Len(p) : canonicalize(SubSeq(p, 1, m)) = Nowhere
  BY NewLeads
<1>2. p \in Paths /\ Len(p) \in Nat
  BY PathFacts DEF NewOf
<1> DEFINE k == Existing(p)
<1>3. /\ k \in 0 .. Len(p) /\ canonicalize(SubSeq(p, 1, k)) # Nowhere
      /\ \A m \in k + 1 .. Len(p) : canonicalize(SubSeq(p, 1, m)) = Nowhere
  BY <1>2, ExistingIs
<1>4. MadeOf(p) = {canonicalize(SubSeq(p, 1, k)) \o SubSeq(p, k + 1, m) : m \in k + 1 .. Len(p)}
  BY DEF MadeOf
<1> HIDE DEF k
<1>5. k \notin n + 1 .. Len(p) /\ n \notin k + 1 .. Len(p)
  BY <1>1, <1>3
<1>6. k = n
  BY <1>1, <1>2, <1>3, <1>5
<1>7. ASSUME NEW m \in n + 1 .. Len(p) PROVE Within(SubSeq(p, 1, n) \o SubSeq(p, n + 1, m))
  <2>1. m \in n .. Len(p)
    BY <1>2
  <2>2. SubSeq(p, n + 1, m) \in Paths /\ SubSeq(p, 1, n) \in Paths
    BY <1>2, <2>1, RestIs, PathFacts
  <2> QED
    BY <1>1, <2>2, ConcatGrows DEF Resolved
<1> QED
  BY <1>1, <1>4, <1>6, <1>7

----------------------------------------------------------------------------
(* The invariant *)

Lookups == {"stat", "list", "read", "chmod"}
Removals == {"remove", "remove_all"}
Calls ==
  [op : {"none", "write", "mkdir", "rename"} \cup Lookups \cup Removals, path : Paths, to : Paths,
   fresh : BOOLEAN]

\* What is known of a call that no change of the tree has overtaken.
FreshOK(call) ==
  call.fresh =>
    /\ call.op \in Lookups => Resolved(call.path)
    /\ call.op \in {"write", "mkdir"} => NewOf(call.path)
    /\ call.op \in Removals \cup {"rename"} => EntryOf(call.path)
    /\ call.op = "rename" => NewOf(call.to)

CallsOK == calls \in [Callers -> Calls] /\ \A c \in Callers : FreshOK(calls[c])

FsInv == TreeOK /\ RootsOK /\ CallsOK /\ StaysInRoots

LEMMA SameTree ==
  ASSUME tree' = tree, NEW p PROVE canonicalize(p)' = canonicalize(p)
BY DEF canonicalize, Stepped, StepsOf

LEMMA FreshStays ==
  ASSUME tree' = tree, fs_roots' = fs_roots, NEW call, FreshOK(call)
  PROVE  FreshOK(call)'
<1>1. \A p : Resolved(p)' = Resolved(p)
  BY DEF Resolved, Canonical, Within
<1>2. \A p : NewOf(p)' = NewOf(p)
  BY <1>1, SameTree DEF NewOf
<1>3. \A p : EntryOf(p)' = EntryOf(p)
  BY <1>1 DEF EntryOf
<1> QED
  BY <1>1, <1>2, <1>3 DEF FreshOK

LEMMA CallInv ==
  ASSUME FsInv, NEW c \in Callers, NEW op, NEW path, NEW to, Call(c, op, path, to),
         LET call == [op |-> op, path |-> path, to |-> to, fresh |-> TRUE]
         IN call \in Calls /\ FreshOK(call)
  PROVE  FsInv'
<1> DEFINE call == [op |-> op, path |-> path, to |-> to, fresh |-> TRUE]
<1>1. /\ calls' = [calls EXCEPT ![c] = call] /\ touched' = {}
      /\ tree' = tree /\ fs_roots' = fs_roots
  BY DEF Call
<1>2. call \in Calls /\ FreshOK(call)
  OBVIOUS
<1> HIDE DEF call
<1>3. calls \in [Callers -> Calls] /\ \A d \in Callers : FreshOK(calls[d])
  BY DEF FsInv, CallsOK
<1>4. calls' \in [Callers -> Calls]
  BY <1>1, <1>2, <1>3
<1>5. ASSUME NEW d \in Callers PROVE FreshOK(calls[d])'
  <2> DEFINE it == calls'[d]
  <2>1. FreshOK(it)
    BY <1>1, <1>2, <1>3
  <2> HIDE DEF it
  <2>2. ASSUME NEW any, FreshOK(any) PROVE FreshOK(any)'
    BY <1>1, <2>2, FreshStays
  <2>3. \A any : FreshOK(any) => FreshOK(any)'
    BY <2>2
  <2>4. FreshOK(calls'[d]) => FreshOK(calls[d])'
    BY <2>3 DEF FreshOK
  <2> QED
    BY <2>1, <2>4 DEF it
<1>6. TreeOK' /\ RootsOK' /\ StaysInRoots'
  BY <1>1 DEF FsInv, TreeOK, RootsOK, StaysInRoots
<1> QED
  BY <1>4, <1>5, <1>6 DEF FsInv, CallsOK

IsTree(t) == DOMAIN t \subseteq Paths /\ \A p \in DOMAIN t : t[p] \in Nodes

LEMMA NoCallIs == NoCall \in Calls /\ NoCall.fresh = FALSE
BY CanonicalEmpty DEF NoCall, Calls

LEMMA EndsInv ==
  ASSUME FsInv, NEW c \in Callers, NEW tree_after, NEW what, Ends(c, tree_after, what),
         IsTree(tree_after), calls[c].fresh => \A p \in what : Within(p)
  PROVE  FsInv'
<1>1. /\ tree' = tree_after /\ fs_roots' = fs_roots
      /\ touched' = IF calls[c].fresh THEN what ELSE {}
      /\ calls' = [d \in Callers |-> IF d = c THEN NoCall
                                 ELSE [calls[d] EXCEPT !.fresh = @ /\ tree_after = tree]]
  BY DEF Ends
<1>2. calls \in [Callers -> Calls] /\ \A d \in Callers : FreshOK(calls[d])
  BY DEF FsInv, CallsOK
<1>3. ASSUME NEW d \in Callers PROVE calls'[d] \in Calls
  <2>1. CASE d = c
    BY <1>1, <2>1, NoCallIs
  <2>2. CASE d # c
    <3>1. calls'[d] = [calls[d] EXCEPT !.fresh = @ /\ tree_after = tree]
      BY <1>1, <2>2
    <3>2. calls[d] \in Calls
      BY <1>2
    <3> QED
      BY <3>1, <3>2 DEF Calls
  <2> QED
    BY <2>1, <2>2
<1>4. calls' \in [Callers -> Calls]
  BY <1>1, <1>3
<1>5. ASSUME NEW d \in Callers PROVE FreshOK(calls[d])'
  <2>1. CASE d = c
    BY <1>1, <2>1, NoCallIs DEF FreshOK
  <2>2. CASE d # c /\ tree_after # tree
    <3>1. calls'[d] = [calls[d] EXCEPT !.fresh = @ /\ tree_after = tree] /\ calls[d] \in Calls
      BY <1>1, <1>2, <2>2
    <3>2. calls'[d].fresh = FALSE
      BY <3>1, <2>2 DEF Calls
    <3> QED
      BY <3>2 DEF FreshOK
  <2>3. CASE d # c /\ tree_after = tree
    <3>1. calls'[d] = [calls[d] EXCEPT !.fresh = @ /\ tree_after = tree] /\ calls[d] \in Calls
      BY <1>1, <1>2, <2>3
    <3>2. /\ calls'[d].fresh = calls[d].fresh /\ calls'[d].op = calls[d].op
          /\ calls'[d].path = calls[d].path /\ calls'[d].to = calls[d].to
      BY <3>1, <2>3 DEF Calls
    <3>3. FreshOK(calls'[d])
      BY <1>2, <3>2 DEF FreshOK
    <3>4. ASSUME NEW any, FreshOK(any) PROVE FreshOK(any)'
      BY <1>1, <2>3, <3>4, FreshStays
    <3>5. FreshOK(calls'[d]) => FreshOK(calls[d])'
      BY <3>4 DEF FreshOK
    <3> QED
      BY <3>3, <3>5
  <2> QED
    BY <2>1, <2>2, <2>3
<1>6. TreeOK' /\ RootsOK'
  BY <1>1 DEF FsInv, TreeOK, RootsOK, IsTree
<1>7. StaysInRoots'
  BY <1>1 DEF StaysInRoots, Within
<1> QED
  BY <1>4, <1>5, <1>6, <1>7 DEF FsInv, CallsOK

LEMMA FsInitInv == FsAssumption /\ FsInit => FsInv
<1> SUFFICES ASSUME FsAssumption, FsInit PROVE FsInv
  OBVIOUS
<1>1. TreeOK
  BY DEF FsInit, TreeOK, FsAssumption
<1>2. RootsOK
  <2>1. ASSUME NEW root \in fs_roots PROVE root \in Paths
    <3>1. PICK q \in Configured : root = canonicalize(q) /\ root # Nowhere
      BY DEF FsInit
    <3>2. q \in Paths
      BY DEF FsAssumption
    <3> QED
      BY <1>1, <3>1, <3>2, PlaceIs
  <2> QED
    BY <2>1 DEF RootsOK
<1>3. CallsOK
  BY NoCallIs DEF FsInit, CallsOK, FreshOK
<1>4. StaysInRoots
  BY DEF FsInit, StaysInRoots
<1> QED
  BY <1>1, <1>2, <1>3, <1>4 DEF FsInv

LEMMA ResolvesPathInv ==
  ASSUME FsAssumption, LinksSuffice, FsInv, NEW c \in Callers, ResolvesPath(c)
  PROVE  FsInv'
<1>1. TreeOK /\ RootsOK
  BY DEF FsInv
<1>2. PICK path \in Requested :
    \/ \E op \in Lookups : Call(c, op, resolve_existing(path), <<>>)
    \/ \E op \in {"write", "mkdir"} : Call(c, op, resolve_new(path), <<>>)
    \/ \E op \in Removals : Call(c, op, resolve_entry(path), <<>>)
    \/ \E to \in Requested : Call(c, "rename", resolve_entry(path), resolve_new(to))
  BY DEF ResolvesPath, Lookups, Removals
<1>3. path \in Paths /\ <<>> \in Paths
  BY CanonicalEmpty DEF FsAssumption
<1>4. CASE \E op \in Lookups : Call(c, op, resolve_existing(path), <<>>)
  <2>1. PICK op \in Lookups : Call(c, op, resolve_existing(path), <<>>)
    BY <1>4
  <2>2. resolve_existing(path) # Nowhere
    BY <2>1 DEF Call
  <2> DEFINE p == resolve_existing(path)
             call == [op |-> op, path |-> p, to |-> <<>>, fresh |-> TRUE]
  <2>3. Resolved(p) /\ p \in Paths
    BY <1>1, <1>3, <2>2, ExistingIsResolved
  <2> HIDE DEF p
  <2>4. call \in Calls /\ FreshOK(call)
    BY <1>3, <2>3 DEF Calls, FreshOK, Lookups, Removals
  <2>5. Call(c, op, p, <<>>)
    BY <2>1 DEF p
  <2> QED
    BY <2>4, <2>5, CallInv
<1>5. CASE \E op \in {"write", "mkdir"} : Call(c, op, resolve_new(path), <<>>)
  <2>1. PICK op \in {"write", "mkdir"} : Call(c, op, resolve_new(path), <<>>)
    BY <1>5
  <2>2. resolve_new(path) # Nowhere
    BY <2>1 DEF Call
  <2> DEFINE p == resolve_new(path)
             call == [op |-> op, path |-> p, to |-> <<>>, fresh |-> TRUE]
  <2>3. NewOf(p) /\ p \in Paths
    BY <1>1, <2>2, NewIsResolved DEF NewOf
  <2> HIDE DEF p
  <2>4. call \in Calls /\ FreshOK(call)
    BY <1>3, <2>3 DEF Calls, FreshOK, Lookups, Removals
  <2>5. Call(c, op, p, <<>>)
    BY <2>1 DEF p
  <2> QED
    BY <2>4, <2>5, CallInv
<1>6. CASE \E op \in Removals : Call(c, op, resolve_entry(path), <<>>)
  <2>1. PICK op \in Removals : Call(c, op, resolve_entry(path), <<>>)
    BY <1>6
  <2>2. resolve_entry(path) # Nowhere
    BY <2>1 DEF Call
  <2> DEFINE p == resolve_entry(path)
             call == [op |-> op, path |-> p, to |-> <<>>, fresh |-> TRUE]
  <2>3. EntryOf(p) /\ p \in Paths
    BY <1>1, <1>3, <2>2, EntryIsResolved DEF EntryOf
  <2> HIDE DEF p
  <2>4. call \in Calls /\ FreshOK(call)
    BY <1>3, <2>3 DEF Calls, FreshOK, Lookups, Removals
  <2>5. Call(c, op, p, <<>>)
    BY <2>1 DEF p
  <2> QED
    BY <2>4, <2>5, CallInv
<1>7. CASE \E to \in Requested : Call(c, "rename", resolve_entry(path), resolve_new(to))
  <2>1. PICK to \in Requested : Call(c, "rename", resolve_entry(path), resolve_new(to))
    BY <1>7
  <2>2. resolve_entry(path) # Nowhere /\ resolve_new(to) # Nowhere
    BY <2>1 DEF Call
  <2> DEFINE p == resolve_entry(path)
             q == resolve_new(to)
             call == [op |-> "rename", path |-> p, to |-> q, fresh |-> TRUE]
  <2>3. EntryOf(p) /\ p \in Paths
    BY <1>1, <1>3, <2>2, EntryIsResolved DEF EntryOf
  <2>4. NewOf(q) /\ q \in Paths
    BY <1>1, <2>2, NewIsResolved DEF NewOf
  <2> HIDE DEF p, q
  <2>5. call \in Calls /\ FreshOK(call)
    BY <2>3, <2>4 DEF Calls, FreshOK, Lookups, Removals
  <2>6. Call(c, "rename", p, q)
    BY <2>1 DEF p, q
  <2> QED
    BY <2>5, <2>6, CallInv
<1> QED
  BY <1>2, <1>4, <1>5, <1>6, <1>7

LEMMA CallIs ==
  ASSUME FsInv, NEW c \in Callers
  PROVE  calls[c] \in Calls /\ calls[c].path \in Paths /\ calls[c].to \in Paths /\ FreshOK(calls[c])
<1>1. calls[c] \in Calls /\ FreshOK(calls[c])
  BY DEF FsInv, CallsOK
<1> QED
  BY <1>1 DEF Calls

LEMMA CallFailsInv ==
  ASSUME FsInv, NEW c \in Callers, CallFails(c)
  PROVE  FsInv'
<1>1. Ends(c, tree, {}) /\ IsTree(tree) /\ \A p \in {} : Within(p)
  BY DEF CallFails, FsInv, TreeOK, IsTree
<1> QED
  BY <1>1, EndsInv

LEMMA LooksUpInv ==
  ASSUME FsAssumption, FsInv, NEW c \in Callers, LooksUp(c)
  PROVE  FsInv'
<1> DEFINE at == canonicalize(calls[c].path)
           found == {at} \cup (IF calls[c].op = "list" THEN {p \in Below(at) : Len(p) = Len(at) + 1} ELSE {})
<1>1. calls[c].op \in Lookups /\ at # Nowhere /\ Ends(c, tree, found)
  BY DEF LooksUp, Lookups
<1>2. TreeOK /\ RootsOK /\ IsTree(tree)
  BY DEF FsInv, TreeOK, IsTree
<1>3. calls[c].path \in Paths /\ FreshOK(calls[c])
  BY CallIs
<1>4. ASSUME calls[c].fresh, NEW p \in found PROVE Within(p)
  <2>1. Canonical(calls[c].path) /\ Within(calls[c].path)
    BY <1>1, <1>3, <1>4 DEF FreshOK, Resolved
  <2>2. at = calls[c].path
    BY <1>2, <2>1, CanonicalStays
  <2> HIDE DEF at
  <2>3. at \in Paths /\ Within(at)
    BY <1>3, <2>1, <2>2
  <2>4. CASE p = at
    BY <2>3, <2>4
  <2>5. CASE p # at
    <3>1. p \in DOMAIN tree /\ IsPrefix(at, p)
      BY <1>4, <2>5 DEF Below, IsStrictPrefix
    <3>2. p \in Paths
      BY <1>2, <3>1 DEF TreeOK
    <3> QED
      BY <1>2, <2>3, <3>1, <3>2, WithinGrows
  <2> QED
    BY <2>4, <2>5
<1> HIDE DEF found
<1> QED
  BY <1>1, <1>2, <1>4, EndsInv

LEMMA WithIsTree ==
  ASSUME TreeOK, NEW paths \in SUBSET Paths, NEW node \in Nodes
  PROVE  IsTree(With(paths, node))
BY DEF TreeOK, IsTree, With

LEMMA PlainNodes ==
  ASSUME FsAssumption
  PROVE  File \in Nodes /\ Dir \in Nodes
<1>1. <<>> \in Paths /\ Len(<<>>) = 0 /\ MaxTarget \in Nat
  BY EmptySeq DEF Paths, FsAssumption
<1> QED
  BY <1>1 DEF File, Dir, Nodes

LEMMA ReplacesFileInv ==
  ASSUME FsAssumption, FsInv, NEW c \in Callers, ReplacesFile(c)
  PROVE  FsInv'
<1> DEFINE at == EntryAt(calls[c].path)
<1>1. calls[c].op = "write" /\ at # Nowhere /\ Ends(c, With({at}, File), {at})
  BY DEF ReplacesFile
<1>2. TreeOK /\ RootsOK
  BY DEF FsInv
<1>3. calls[c].path \in Paths /\ FreshOK(calls[c])
  BY CallIs
<1>4. at \in Paths
  BY <1>1, <1>2, <1>3, EntryAtIs
<1>5. IsTree(With({at}, File))
  BY <1>2, <1>4, WithIsTree, PlainNodes
<1>6. calls[c].fresh => Within(at)
  <2>1. calls[c].fresh => NewOf(calls[c].path)
    BY <1>1, <1>3 DEF FreshOK
  <2> QED
    BY <1>1, <1>2, <2>1, NewEntryStays
<1> HIDE DEF at
<1>7. calls[c].fresh => \A p \in {at} : Within(p)
  BY <1>6
<1> QED
  BY <1>1, <1>5, <1>7, EndsInv

LEMMA MakesDirsInv ==
  ASSUME FsAssumption, FsInv, NEW c \in Callers, MakesDirs(c)
  PROVE  FsInv'
<1> DEFINE created == MadeOf(calls[c].path)
<1>1. calls[c].op = "mkdir" /\ Ends(c, With(created, Dir), created)
  BY DEF MakesDirs, MadeOf
<1>2. TreeOK /\ RootsOK
  BY DEF FsInv
<1>3. calls[c].path \in Paths /\ FreshOK(calls[c])
  BY CallIs
<1>4. IsTree(With(created, Dir))
  BY <1>2, <1>3, MadeArePaths, WithIsTree, PlainNodes
<1>5. calls[c].fresh => \A p \in created : Within(p)
  <2>1. calls[c].fresh => NewOf(calls[c].path)
    BY <1>1, <1>3 DEF FreshOK
  <2> QED
    BY <1>2, <2>1, MadeAreWithin
<1> HIDE DEF created
<1> QED
  BY <1>1, <1>4, <1>5, EndsInv

LEMMA BelowIsWithin ==
  ASSUME TreeOK, RootsOK, NEW at \in Paths, Within(at)
  PROVE  \A p \in {at} \cup Below(at) : Within(p)
<1>1. ASSUME NEW p \in Below(at) PROVE Within(p)
  <2>1. p \in DOMAIN tree /\ IsPrefix(at, p)
    BY DEF Below, IsStrictPrefix
  <2>2. p \in Paths
    BY <2>1 DEF TreeOK
  <2> QED
    BY <2>1, <2>2, WithinGrows
<1> QED
  BY <1>1

LEMMA RemovesInv ==
  ASSUME FsAssumption, FsInv, NEW c \in Callers, Removes(c)
  PROVE  FsInv'
<1> DEFINE at == EntryAt(calls[c].path)
           gone == {at} \cup Below(at)
<1>1. calls[c].op \in Removals /\ at \in DOMAIN tree /\ Ends(c, Without(gone), gone)
  BY DEF Removes, Removals
<1>2. TreeOK /\ RootsOK
  BY DEF FsInv
<1>3. calls[c].path \in Paths /\ FreshOK(calls[c])
  BY CallIs
<1>4. at \in Paths /\ at # Nowhere
  BY <1>1, <1>2 DEF TreeOK, FsAssumption
<1>5. IsTree(Without(gone))
  BY <1>2 DEF IsTree, TreeOK, Without
<1>6. calls[c].fresh => Within(at)
  <2>1. calls[c].fresh => EntryOf(calls[c].path)
    BY <1>1, <1>3 DEF FreshOK
  <2> QED
    BY <1>2, <1>4, <2>1, EntryStays
<1> HIDE DEF at
<1>7. calls[c].fresh => \A p \in gone : Within(p)
  BY <1>2, <1>4, <1>6, BelowIsWithin
<1> HIDE DEF gone
<1> QED
  BY <1>1, <1>5, <1>7, EndsInv

LEMMA MeddlesInv ==
  ASSUME FsAssumption, FsInv, Meddles
  PROVE  FsInv'
<1>1. PICK l \in Planted : tree' = With({l.path}, Link(l.target))
  BY DEF Meddles
<1>2. /\ calls' = [c \in Callers |-> [calls[c] EXCEPT !.fresh = FALSE]]
      /\ touched' = {} /\ fs_roots' = fs_roots
  BY DEF Meddles
<1>3. l.path \in Paths /\ Link(l.target) \in Nodes
  BY DEF FsAssumption
<1>4. IsTree(With({l.path}, Link(l.target)))
  BY <1>3, WithIsTree DEF FsInv
<1>5. TreeOK' /\ RootsOK' /\ StaysInRoots'
  BY <1>1, <1>2, <1>4 DEF IsTree, TreeOK, RootsOK, StaysInRoots, FsInv
<1>6. ASSUME NEW c \in Callers PROVE calls'[c] \in Calls /\ calls'[c].fresh = FALSE
  <2>1. calls'[c] = [calls[c] EXCEPT !.fresh = FALSE] /\ calls[c] \in Calls
    BY <1>2, CallIs
  <2> QED
    BY <2>1 DEF Calls
<1>7. CallsOK'
  BY <1>2, <1>6 DEF CallsOK, FreshOK
<1> QED
  BY <1>5, <1>7 DEF FsInv

\* A name below what is moved has one new place, which tells the old one.
LEMMA MovedBack ==
  ASSUME NEW from \in Paths, NEW to \in Paths, NEW q \in Paths, IsPrefix(from, q)
  PROVE  LET now == to \o SubSeq(q, Len(from) + 1, Len(q))
         IN
         /\ now \in Paths /\ IsPrefix(to, now)
         /\ from \o SubSeq(now, Len(to) + 1, Len(now)) = q
<1> DEFINE rest == SubSeq(q, Len(from) + 1, Len(q))
           now == to \o rest
<1>1. /\ Len(from) \in Nat /\ Len(to) \in Nat /\ Len(q) \in Nat
      /\ SubSeq(from, 1, Len(from)) = from /\ SubSeq(to, 1, Len(to)) = to /\ SubSeq(q, 1, Len(q)) = q
  BY PathFacts
<1>2. Len(from) \in 0 .. Len(q) /\ SubSeq(q, 1, Len(from)) = from /\ Len(q) \in Len(from) .. Len(q)
  BY <1>1 DEF IsPrefix
<1>3. rest \in Paths /\ Len(rest) = Len(q) - Len(from) /\ from \o rest = q
  BY ZenonT(30), <1>1, <1>2, RestIs
<1> HIDE DEF rest
<1>4. /\ now \in Paths /\ Len(now) = Len(to) + Len(rest)
      /\ \A i \in 1 .. Len(to) + Len(rest) : now[i] = IF i <= Len(to) THEN to[i] ELSE rest[i - Len(to)]
  BY <1>3, ConcatProperties DEF Paths
<1> HIDE DEF now
<1>5. IsPrefix(to, now)
  <2>1. Len(rest) \in Nat
    BY <1>3, PathFacts
  <2>2. Len(to) <= Len(now) /\ \A i \in 1 .. Len(to) : to[i] = now[i]
    BY <1>1, <1>4, <2>1
  <2> QED
    BY <1>4, <2>2, PrefixIs
<1> DEFINE back == SubSeq(now, Len(to) + 1, Len(now))
<1>6. Len(to) \in 0 .. Len(now) /\ Len(now) \in Len(to) .. Len(now) /\ Len(rest) \in Nat
  BY <1>1, <1>2, <1>3, <1>4
<1>7. back \in Paths /\ Len(back) = Len(rest)
  <2>1. back \in Paths /\ Len(back) = Len(now) - Len(to)
    BY <1>4, <1>6, RestIs
  <2> QED
    BY <2>1, <1>1, <1>4, <1>6
<1>8. ASSUME NEW i \in 1 .. Len(rest) PROVE back[i] = rest[i]
  <2>1. \A j \in Len(to) + 1 .. Len(now) : now[j] \in Name
    <3>1. \A j \in 1 .. Len(now) : now[j] \in Name
      BY <1>4, PathFacts
    <3> QED
      BY <1>1, <3>1
  <2>2. \A j \in 1 .. Len(now) - (Len(to) + 1) + 1 : back[j] = now[(Len(to) + 1) + j - 1]
    BY <1>1, <1>6, <2>1, SubSeqProperties
  <2>3. i \in 1 .. Len(now) - (Len(to) + 1) + 1 /\ (Len(to) + 1) + i - 1 = Len(to) + i
    BY <1>1, <1>4
  <2>4. Len(to) + i \in 1 .. Len(to) + Len(rest) /\ ~(Len(to) + i <= Len(to)) /\ (Len(to) + i) - Len(to) = i
    BY <1>1, <1>6
  <2>5. back[i] = now[Len(to) + i]
    BY <2>2, <2>3
  <2>6. now[Len(to) + i] = rest[i]
    BY <1>4, <2>4
  <2> QED
    BY <2>5, <2>6
<1> HIDE DEF back
<1>9. back = rest
  BY <1>3, <1>7, <1>8, SamePath
<1> QED
  BY <1>3, <1>4, <1>5, <1>9 DEF back, now, rest

LEMMA MovesInv ==
  ASSUME FsAssumption, FsInv, NEW c \in Callers, Moves(c)
  PROVE  FsInv'
<1> DEFINE from == EntryAt(calls[c].path)
           to == EntryAt(calls[c].to)
           moved == {from} \cup Below(from)
           Now(p) == to \o SubSeq(p, Len(from) + 1, Len(p))
           Was(p) == from \o SubSeq(p, Len(to) + 1, Len(p))
           created == {Now(p) : p \in moved}
           after == [p \in (DOMAIN tree \ moved) \cup created |-> IF p \in created THEN tree[Was(p)] ELSE tree[p]]
<1>1. calls[c].op = "rename" /\ from \in DOMAIN tree /\ to # Nowhere /\ Ends(c, after, moved \cup created)
  BY DEF Moves
<1>2. TreeOK /\ RootsOK
  BY DEF FsInv
<1>3. calls[c].path \in Paths /\ calls[c].to \in Paths /\ FreshOK(calls[c])
  BY CallIs
<1>4. from \in Paths /\ from # Nowhere
  BY <1>1, <1>2 DEF TreeOK, FsAssumption
<1>5. to \in Paths
  BY <1>1, <1>2, <1>3, EntryAtIs
<1>6. calls[c].fresh => Within(from) /\ Within(to)
  <2>1. calls[c].fresh => EntryOf(calls[c].path) /\ NewOf(calls[c].to)
    BY <1>1, <1>3 DEF FreshOK
  <2> QED
    BY <1>1, <1>2, <1>4, <2>1, EntryStays, NewEntryStays
<1> HIDE DEF from, to
<1>7. ASSUME NEW p \in moved PROVE p \in Paths /\ p \in DOMAIN tree /\ IsPrefix(from, p)
  <2>1. CASE p = from
    <3>1. Len(from) \in Nat
      BY <1>4, PathFacts
    <3> QED
      BY <1>1, <1>4, <2>1, <3>1 DEF IsPrefix
  <2>2. CASE p \in Below(from)
    BY <1>2, <2>2 DEF Below, IsStrictPrefix, TreeOK
  <2> QED
    BY <2>1, <2>2
<1>8. ASSUME NEW p \in moved PROVE Now(p) \in Paths /\ IsPrefix(to, Now(p)) /\ Was(Now(p)) = p
  <2> DEFINE now == Now(p)
  <2>1. p \in Paths /\ IsPrefix(from, p)
    BY <1>7
  <2>2. now \in Paths /\ IsPrefix(to, now) /\ from \o SubSeq(now, Len(to) + 1, Len(now)) = p
    BY <1>4, <1>5, <2>1, MovedBack
  <2> QED
    BY <2>2
<1>9. IsTree(after)
  <2>1. ASSUME NEW p \in DOMAIN after PROVE p \in Paths /\ after[p] \in Nodes
    <3>1. CASE p \in created
      <4>1. PICK q \in moved : p = Now(q)
        BY <3>1
      <4>2. p \in Paths /\ Was(p) = q /\ q \in DOMAIN tree
        BY <1>7, <1>8, <4>1
      <4>3. after[p] = tree[Was(p)]
        BY <3>1
      <4> QED
        BY <1>2, <4>2, <4>3 DEF TreeOK
    <3>2. CASE p \notin created
      BY <1>2, <3>2 DEF TreeOK
    <3> QED
      BY <3>1, <3>2
  <2> HIDE DEF after
  <2> QED
    BY <2>1 DEF IsTree
<1>10. calls[c].fresh => \A p \in moved \cup created : Within(p)
  <2> SUFFICES ASSUME calls[c].fresh, NEW p \in moved \cup created PROVE Within(p)
    OBVIOUS
  <2>1. CASE p \in moved
    BY <1>2, <1>4, <1>6, <2>1, BelowIsWithin
  <2>2. CASE p \in created
    <3>1. PICK q \in moved : p = Now(q)
      BY <2>2
    <3>2. p \in Paths /\ IsPrefix(to, p)
      BY <1>8, <3>1
    <3> QED
      BY <1>2, <1>5, <1>6, <3>2, WithinGrows
  <2> QED
    BY <2>1, <2>2
<1> DEFINE what == moved \cup created
<1>11. Ends(c, after, what) /\ (calls[c].fresh => \A p \in what : Within(p))
  BY <1>1, <1>10
<1> HIDE DEF after, what
<1> QED
  BY <1>9, <1>11, EndsInv

LEMMA FsNextInv ==
  FsAssumption /\ LinksSuffice /\ FsInv /\ [FsNext]_fsVars => FsInv'
<1> SUFFICES ASSUME FsAssumption, LinksSuffice, FsInv, [FsNext]_fsVars PROVE FsInv'
  OBVIOUS
<1>1. ASSUME NEW c \in Callers, ResolvesPath(c) PROVE FsInv'
  BY <1>1, ResolvesPathInv
<1>2. ASSUME NEW c \in Callers, CallFails(c) PROVE FsInv'
  BY <1>2, CallFailsInv
<1>3. ASSUME NEW c \in Callers, LooksUp(c) PROVE FsInv'
  BY <1>3, LooksUpInv
<1>4. ASSUME NEW c \in Callers, ReplacesFile(c) PROVE FsInv'
  BY <1>4, ReplacesFileInv
<1>5. ASSUME NEW c \in Callers, MakesDirs(c) PROVE FsInv'
  BY <1>5, MakesDirsInv
<1>6. ASSUME NEW c \in Callers, Removes(c) PROVE FsInv'
  BY <1>6, RemovesInv
<1>7. ASSUME NEW c \in Callers, Moves(c) PROVE FsInv'
  BY <1>7, MovesInv
<1>8. CASE Meddles
  BY <1>8, MeddlesInv
<1>9. CASE UNCHANGED fsVars
  <2>1. tree' = tree /\ fs_roots' = fs_roots /\ calls' = calls /\ touched' = touched
    BY <1>9 DEF fsVars
  <2>2. ASSUME NEW any, FreshOK(any) PROVE FreshOK(any)'
    BY <2>1, <2>2, FreshStays
  <2>3. ASSUME NEW c \in Callers PROVE FreshOK(calls[c])'
    <3>1. FreshOK(calls[c]) /\ calls'[c] = calls[c]
      BY <2>1 DEF FsInv, CallsOK
    <3>2. FreshOK(calls'[c]) => FreshOK(calls[c])'
      BY <2>2 DEF FreshOK
    <3> QED
      BY <3>1, <3>2
  <2> QED
    BY <2>1, <2>3 DEF FsInv, CallsOK, TreeOK, RootsOK, StaysInRoots
<1> QED
  BY <1>1, <1>2, <1>3, <1>4, <1>5, <1>6, <1>7, <1>8, <1>9 DEF FsNext

(* Whatever is asked for, in whatever tree and however others change it, a   *)
(* call that no change overtakes stays within the roots (resolve_existing,   *)
(* resolve_entry and resolve_new in core/fs_roots.rs).  That no resolution   *)
(* fails only for the number of its links is what has to be supposed.        *)
THEOREM CallsStayInRoots == FsSpec /\ []LinksSuffice => []StaysInRoots
<1>1. FsInit => FsInv
  BY FsInitInv, FsAssumption
<1>2. LinksSuffice /\ FsInv /\ [FsNext]_fsVars => FsInv'
  BY FsNextInv, FsAssumption
<1>3. FsInv => StaysInRoots
  BY DEF FsInv
<1> QED
  BY <1>1, <1>2, <1>3, PTL DEF FsSpec
====
