-------------------------------- MODULE DiskTotals --------------------------------
(***************************************************************************)
(* The disks of a host: what `df -k` and `lsblk --json` list, how the      *)
(* lists are read (src/crates/sbm_parser/src/linux.rs, types.rs) and what  *)
(* the agent makes of them (flatten_disks and aggregate_disks in           *)
(* src/monitor/src/monitoring/monitoring.rs), on Linux.                    *)
(*                                                                         *)
(* One device may be mounted at many places, appear under several parents  *)
(* and be written to while df goes from mount to mount, and df breaks the  *)
(* line after a name that is too long.  A path is [name, kind], where kind *)
(* is what disk_should_calc tells apart: "dev" for /dev..., "share" for    *)
(* //..., "virtual" for tmpfs and the like; a place is [name, kind], where *)
(* kind is "kernel" for /dev, /proc and /sys, "mnt" for /mnt...  APFS      *)
(* pools (/dev/diskN), which Linux does not have, are left out.            *)
(***************************************************************************)
EXTENDS Integers, FiniteSetsExt, SequencesExt

CONSTANTS
  Mounts,     \* mounts there may be: [path, at, long]
  sizes,      \* path -> size of its filesystem
  MaxMounts,  \* bound on the mounts at a time
  Ids,        \* nodes of lsblk's trees
  Forests,    \* [roots, node], node[id] = [path, at, fs, size, used, children];
              \* fs is NoFs without a filesystem
  NoFs

Paths == {m.path : m \in Mounts}

(* A device has one size, however it is listed; a node is not below itself. *)
ASSUME DisksAssumption ==
  /\ \A m \in Mounts : m.long \in BOOLEAN
  /\ sizes \in [Paths -> Nat] /\ IsFiniteSet(Ids)
  /\ \A f \in Forests :
       /\ f.roots \in Seq(Ids) /\ DOMAIN f.node = Ids
       /\ \A d \in Ids :
            /\ f.node[d].size \in Nat /\ f.node[d].used \in 0 .. f.node[d].size
            /\ f.node[d].children \in Seq(Ids)
            /\ f.node[d].path \in Paths => f.node[d].size = sizes[f.node[d].path]
            /\ \A e \in Ids : f.node[d].path = f.node[e].path => f.node[d].size = f.node[e].size
       /\ \E level \in [Ids -> 0 .. Cardinality(Ids)] :
            \A d \in Ids : \A c \in ToSet(f.node[d].children) : level[c] < level[d]

VARIABLES
  mounted,  \* the mount table, in order
  used,     \* path -> what is used of it
  forest,   \* what lsblk knows
  pending,  \* mounts df has still to print
  lines,    \* lines of its table: sequences of fields
  disks     \* ServerStatus.disks, in the order a walk visits them

diskVars == <<mounted, used, forest, pending, lines, disks>>

-------------------------------------------------------------------------------
(* Both lists *)

disk_should_calc(fs, at) ==
  /\ at.kind # "kernel"
  /\ fs.kind \in {"dev", "share"} \/ at.kind = "mnt" \/ fs.kind # "virtual"

(* df: the line is broken after a long name. *)
RowsOf(m) ==
  LET numbers == <<sizes[m.path], used[m.path], sizes[m.path] - used[m.path], "%", m.at>>
  IN IF m.long THEN <<<<m.path>>, numbers>> ELSE <<<<m.path>> \o numbers>>

(* A line of one field is kept and takes the first field's place in the    *)
(* next one; a row has six fields.  Of bind mounts, with the same source   *)
(* and the same numbers, the first is kept.                                *)
ParsedRow(p, line) ==
  LET fields == IF p.cache = <<>> THEN line ELSE p.cache \o Tail(line)
      row == [path |-> fields[1], at |-> fields[Len(fields)], size |-> fields[2], used |-> fields[3]]
  IN IF Len(line) = 1 THEN [p EXCEPT !.cache = line]
     ELSE IF /\ Len(fields) >= 6 /\ disk_should_calc(row.path, row.at)
             /\ ~\E i \in DOMAIN p.rows : [p.rows[i] EXCEPT !.at = row.at] = row
     THEN [cache |-> <<>>, rows |-> Append(p.rows, row)]
     ELSE [p EXCEPT !.cache = <<>>]

parse_df(table) ==
  LET parsed[n \in 0 .. Len(table)] ==
        IF n = 0 THEN [cache |-> <<>>, rows |-> <<>>] ELSE ParsedRow(parsed[n - 1], table[n])
  IN parsed[Len(table)].rows

-------------------------------------------------------------------------------
(* lsblk: trees, as the walk over them goes *)

RowOf(n) == [path |-> n.path, at |-> n.at, size |-> n.size, used |-> n.used]
HasOwnFs(n) == n.fs # NoFs /\ n.at.kind # "kernel"

(* lsblk_device: a node with a filesystem, or with a child that is kept. *)
lsblk_device(node) ==
  LET rows[d \in Ids] ==
        LET below == FlattenSeq([i \in DOMAIN node[d].children |-> rows[node[d].children[i]]])
        IN IF HasOwnFs(node[d]) \/ below # <<>> THEN <<RowOf(node[d])>> \o below ELSE <<>>
  IN rows

(* A container without a filesystem gives its children only; a btrfs child *)
(* is appended once more.                                                  *)
parse_lsblk(f) ==
  LET Rows(d) == lsblk_device(f.node)[d]
      Again(d) == IF f.node[d].fs = "btrfs" /\ HasOwnFs(f.node[d]) THEN <<RowOf(f.node[d])>> ELSE <<>>
      Container(n) == n.size = 0 /\ n.used = 0 /\ ~HasOwnFs(n) /\ n.children # <<>>
      Each(Of(_), ids) == FlattenSeq([i \in DOMAIN ids |-> Of(ids[i])])
      Top(d) == LET n == f.node[d]
                IN IF Container(n) THEN Each(Rows, n.children) ELSE Rows(d) \o Each(Again, n.children)
  IN Each(Top, f.roots)

-------------------------------------------------------------------------------
(* The agent's totals *)

is_real_disk(d) == d.size > 0 /\ d.path.kind = "dev"

RealDisks == {i \in DOMAIN disks : is_real_disk(disks[i])}

(* Of the rows with one key, the first one in the walk. *)
FirstOfEach(key) == {i \in DOMAIN key : \A j \in DOMAIN key : key[j] = key[i] => i <= j}

(* Mutant: every row counts. *)
AllRows(real) == real

OncePerPath(real) == FirstOfEach([i \in real |-> disks[i].path])

(* In the order of the walk. *)
flatten_disks ==
  {disks[i] : i \in FirstOfEach([i \in RealDisks |-> <<disks[i].path, disks[i].at>>])}

aggregate_disks ==
  LET counted == OncePerPath(RealDisks)
  IN [total |-> SumFunction([i \in counted |-> disks[i].size]),
      used |-> SumFunction([i \in counted |-> disks[i].used])]

-------------------------------------------------------------------------------
DisksInit ==
  /\ mounted = <<>>
  /\ used = [p \in Paths |-> 0]
  /\ forest \in Forests
  /\ pending = <<>>
  /\ lines = <<>>
  /\ disks = <<>>

(* A list does not depend on the one before: nothing moves after the       *)
(* first.                                                                  *)
Unread == disks = <<>>

MountsOne ==
  /\ Unread
  /\ Len(mounted) < MaxMounts
  /\ \E m \in Mounts \ ToSet(mounted) : mounted' = Append(mounted, m)
  /\ UNCHANGED <<used, forest, pending, lines, disks>>

UnmountsOne ==
  /\ Unread
  /\ \E i \in DOMAIN mounted : mounted' = RemoveAt(mounted, i)
  /\ UNCHANGED <<used, forest, pending, lines, disks>>

WritesTo(p) ==
  /\ Unread
  /\ used[p] < sizes[p]
  /\ used' = [used EXCEPT ![p] = @ + 1]
  /\ UNCHANGED <<mounted, forest, pending, lines, disks>>

(* df reads the mount table, and then asks for one mount after the other. *)
DfStarts ==
  /\ Unread
  /\ pending = <<>> /\ lines = <<>>
  /\ mounted # <<>>
  /\ pending' = mounted
  /\ UNCHANGED <<mounted, used, forest, lines, disks>>

DfPrints ==
  /\ pending # <<>>
  /\ lines' = lines \o RowsOf(Head(pending))
  /\ pending' = Tail(pending)
  /\ UNCHANGED <<mounted, used, forest, disks>>

DfEnds ==
  /\ pending = <<>> /\ lines # <<>>
  /\ disks' = parse_df(lines)
  /\ lines' = <<>>
  /\ UNCHANGED <<mounted, used, forest, pending>>

(* parse_disk prefers lsblk's list when there is one with disks in it. *)
Lsblk ==
  /\ Unread
  /\ parse_lsblk(forest) # <<>>
  /\ disks' = parse_lsblk(forest)
  /\ UNCHANGED <<mounted, used, forest, pending, lines>>

DisksNext ==
  \/ MountsOne
  \/ UnmountsOne
  \/ \E p \in Paths : WritesTo(p)
  \/ DfStarts
  \/ DfPrints
  \/ DfEnds
  \/ Lsblk

DisksSpec == DisksInit /\ [][DisksNext]_diskVars

-------------------------------------------------------------------------------
(* Properties *)

CapacityOf(p) ==
  IF p \in Paths THEN sizes[p] ELSE forest.node[CHOOSE d \in Ids : forest.node[d].path = p].size

(* However often the host lists a device, mounted at many places, below    *)
(* several parents or written to in between, its capacity counts once, no  *)
(* more is used than there is, and every device that counts has a row      *)
(* (aggregate_disks, flatten_disks).                                       *)
DisksCountOnce ==
  LET devices == {disks[i].path : i \in {j \in DOMAIN disks : is_real_disk(disks[j])}}
  IN /\ aggregate_disks.total = SumFunction([p \in devices |-> CapacityOf(p)])
     /\ aggregate_disks.used <= aggregate_disks.total
     /\ {d.path : d \in flatten_disks} = devices

(* "Handles wrapped lines caused by overlong filesystem names (a           *)
(* single-field line is buffered onto the next)" (linux.rs:202): the list  *)
(* that df ends has every device it was asked about that is to be counted. *)
WrappedLinesAreRead ==
  [][DfEnds =>
       \A i \in DOMAIN lines :
         LET path == lines[i][1]
             at == Last(IF Len(lines[i]) = 1 THEN lines[i + 1] ELSE lines[i])
         IN Len(lines[i]) # 5 /\ disk_should_calc(path, at)
              => \E j \in DOMAIN disks' : disks'[j].path = path]_diskVars
=============================================================================
