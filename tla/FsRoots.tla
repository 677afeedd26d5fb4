-------------------------------- MODULE FsRoots --------------------------------
(***************************************************************************)
(* Where the file API may go: src/monitor/src/core/fs_roots.rs and the     *)
(* calls of src/monitor/src/api/fs.rs that resolve a path and then use it. *)
(* What an upload does between is in FileApi.                              *)
(*                                                                         *)
(* A path is a sequence of names from "/".  A link's target is such a path *)
(* too, and may lead through other links.  A request whose path is         *)
(* relative or has a ".." is refused before anything is looked at and      *)
(* leaves nothing behind.  Others change the tree as well, at any moment.  *)
(***************************************************************************)
EXTENDS Naturals, Sequences, FiniteSets, SequencesExt

CONSTANTS
  Requested,   \* paths of requests
  Configured,  \* paths of the configured roots
  Trees,       \* trees to start with: path -> [kind, target]
  Planted,     \* links that others may make: [path, target]
  Callers,     \* requests at once
  MaxLinks,    \* links that are followed before ELOOP
  MaxTarget,   \* names in the target of a link, at most
  MaxDepth,    \* bound on the depth of a tree
  MaxMeddling, \* bound on changes by others
  Nowhere      \* no path

VARIABLES
  tree,      \* what is where
  fs_roots,  \* FsRoots.roots
  calls,     \* Callers -> the call under way: [op, path, to, fresh]
  touched,   \* what the last call read, changed, made or removed
  meddling   \* changes by others so far

fsVars == <<tree, fs_roots, calls, touched, meddling>>

Dir == [kind |-> "dir", target |-> <<>>]
File == [kind |-> "file", target |-> <<>>]
Link(target) == [kind |-> "link", target |-> target]

Name == STRING
Paths == Seq(Name)
Nodes == [kind : {"dir", "file", "link"}, target : {t \in Paths : Len(t) <= MaxTarget}]

ASSUME FsAssumption ==
  /\ MaxLinks \in Nat /\ MaxTarget \in Nat
  /\ Requested \subseteq Paths /\ Configured \subseteq Paths /\ Nowhere \notin Paths
  /\ \A t \in Trees : \A p \in DOMAIN t : p \in Paths /\ t[p] \in Nodes
  /\ \A l \in Planted : l.path \in Paths \ {<<>>} /\ Link(l.target) \in Nodes

IsDir(path) == path = <<>> \/ (path \in DOMAIN tree /\ tree[path].kind = "dir")
Below(path) == {p \in DOMAIN tree : IsStrictPrefix(path, p)}
With(paths, node) == [p \in DOMAIN tree \cup paths |-> IF p \in paths THEN node ELSE tree[p]]
Without(paths) == [p \in DOMAIN tree \ paths |-> tree[p]]

-------------------------------------------------------------------------------
(* Resolution *)

(* One step: by a name that is there, or to where a link leads. *)
Stepped(walk) ==
  LET next == Append(walk.done, Head(walk.rest))
      lost == [walk EXCEPT !.done = Nowhere, !.rest = <<>>]
  IN IF walk.rest = <<>> THEN walk
     ELSE IF next \notin DOMAIN tree THEN lost
     ELSE IF tree[next].kind # "link" THEN [walk EXCEPT !.done = next, !.rest = Tail(@)]
     ELSE IF walk.links = 0 THEN lost
     ELSE [done |-> <<>>, rest |-> tree[next].target \o Tail(walk.rest),
           links |-> walk.links - 1]

(* No walk has more steps than there are names on the way. *)
StepsOf(path) == Len(path) + MaxLinks * MaxTarget

canonicalize(path) ==
  LET walk[n \in 0 .. StepsOf(path)] ==
        IF n = 0 THEN [done |-> <<>>, rest |-> path, links |-> MaxLinks]
        ELSE Stepped(walk[n - 1])
  IN walk[StepsOf(path)].done

(* Component by component. *)
check_within(path) ==
  IF path # Nowhere /\ \E root \in fs_roots : IsPrefix(root, path) THEN path ELSE Nowhere

(* Mutant: the path is checked as it was sent. *)
AsItWasSent(path) == IF check_within(path) = Nowhere THEN Nowhere ELSE canonicalize(path)

resolve_existing(path) == check_within(canonicalize(path))

(* The last component is not followed, and has to be there. *)
resolve_entry(path) ==
  IF path = <<>> THEN resolve_existing(path)
  ELSE LET parent == check_within(canonicalize(Front(path)))
       IN IF parent # Nowhere /\ Append(parent, Last(path)) \in DOMAIN tree
          THEN Append(parent, Last(path)) ELSE Nowhere

(* How much of a path leads somewhere. *)
Existing(path) ==
  CHOOSE n \in 0 .. Len(path) :
    /\ canonicalize(SubSeq(path, 1, n)) # Nowhere
    /\ \A m \in n + 1 .. Len(path) : canonicalize(SubSeq(path, 1, m)) = Nowhere

(* The deepest ancestor that exists, and the rest as it is. *)
resolve_new(path) ==
  LET n == Existing(path)
      anchor == check_within(canonicalize(SubSeq(path, 1, n)))
  IN IF anchor = Nowhere THEN Nowhere ELSE anchor \o SubSeq(path, n + 1, Len(path))

-------------------------------------------------------------------------------
NoCall == [op |-> "none", path |-> <<>>, to |-> <<>>, fresh |-> FALSE]

FsInit ==
  /\ tree \in Trees
  /\ fs_roots = {canonicalize(c) : c \in Configured} \ {Nowhere}
  /\ calls = [c \in Callers |-> NoCall]
  /\ touched = {}
  /\ meddling = 0

Call(c, op, path, to) ==
  /\ calls[c].op = "none"
  /\ path # Nowhere /\ to # Nowhere
  /\ calls' = [calls EXCEPT ![c] = [op |-> op, path |-> path, to |-> to, fresh |-> TRUE]]
  /\ touched' = {}
  /\ UNCHANGED <<tree, fs_roots, meddling>>

(* A path that resolves nowhere is refused. *)
ResolvesPath(c) ==
  \E path \in Requested :
    \/ \E op \in {"stat", "list", "read", "chmod"} : Call(c, op, resolve_existing(path), <<>>)
    \/ \E op \in {"write", "mkdir"} : Call(c, op, resolve_new(path), <<>>)
    \/ \E op \in {"remove", "remove_all"} :
         resolve_entry(path) \notin fs_roots /\ Call(c, op, resolve_entry(path), <<>>)
    \/ \E to \in Requested :
         /\ resolve_entry(path) \notin fs_roots
         /\ Call(c, "rename", resolve_entry(path), resolve_new(to))

(* Where a resolved path leads when it is used: the system follows what it *)
(* meets on the way, but not the last component of an entry.               *)
EntryAt(path) ==
  IF path = <<>> \/ canonicalize(Front(path)) = Nowhere THEN Nowhere
  ELSE Append(canonicalize(Front(path)), Last(path))

(* The call ends; those under way have resolved in another tree. *)
Ends(c, tree_after, what) ==
  /\ tree' = tree_after
  /\ touched' = IF calls[c].fresh THEN what ELSE {}
  /\ calls' = [d \in Callers |-> IF d = c THEN NoCall
                                 ELSE [calls[d] EXCEPT !.fresh = @ /\ tree_after = tree]]
  /\ UNCHANGED <<fs_roots, meddling>>

CallFails(c) == calls[c].op # "none" /\ Ends(c, tree, {})

(* stat, list, read, chmod: the place, and in a list what is in it. *)
LooksUp(c) ==
  LET at == canonicalize(calls[c].path)
  IN /\ calls[c].op \in {"stat", "list", "read", "chmod"}
     /\ at # Nowhere
     /\ calls[c].op = "list" => IsDir(at)
     /\ calls[c].op = "read" => at # <<>> /\ tree[at].kind = "file"
     /\ Ends(c, tree, {at} \cup (IF calls[c].op = "list"
                                 THEN {p \in Below(at) : Len(p) = Len(at) + 1} ELSE {}))

(* The staged file is renamed over whatever is no directory. *)
ReplacesFile(c) ==
  LET at == EntryAt(calls[c].path)
  IN /\ calls[c].op = "write"
     /\ at # Nowhere /\ IsDir(Front(at)) /\ ~IsDir(at)
     /\ Ends(c, With({at}, File), {at})

(* create_dir_all; a link that leads nowhere is in the way. *)
MakesDirs(c) ==
  LET path == calls[c].path
      n == Existing(path)
      anchor == canonicalize(SubSeq(path, 1, n))
      made == {anchor \o SubSeq(path, n + 1, m) : m \in n + 1 .. Len(path)}
  IN /\ calls[c].op = "mkdir"
     /\ IsDir(anchor)
     /\ made \cap DOMAIN tree = {}
     /\ Ends(c, With(made, Dir), made)

(* A link is removed itself. *)
Removes(c) ==
  LET at == EntryAt(calls[c].path)
      gone == {at} \cup Below(at)
  IN /\ calls[c].op \in {"remove", "remove_all"}
     /\ at \in DOMAIN tree
     /\ calls[c].op = "remove" => gone = {at}
     /\ Ends(c, Without(gone), gone)

(* rename(2): an empty directory may be replaced by one, a file or a link  *)
(* by either of them.                                                      *)
Moves(c) ==
  LET from == EntryAt(calls[c].path)
      to == EntryAt(calls[c].to)
      moved == {from} \cup Below(from)
      Now(p) == to \o SubSeq(p, Len(from) + 1, Len(p))
      Was(p) == from \o SubSeq(p, Len(to) + 1, Len(p))
      made == {Now(p) : p \in moved}
  IN /\ calls[c].op = "rename"
     /\ from \in DOMAIN tree /\ to # Nowhere
     /\ IsDir(Front(to)) /\ ~IsStrictPrefix(from, to) /\ from # to
     /\ to \in DOMAIN tree => IsDir(to) = IsDir(from) /\ Below(to) = {}
     /\ \A p \in made : Len(p) <= MaxDepth
     /\ Ends(c, [p \in (DOMAIN tree \ moved) \cup made |-> IF p \in made THEN tree[Was(p)] ELSE tree[p]],
             moved \cup made)

(* Another program plants a link, where nothing is or instead of a file. *)
Meddles ==
  /\ meddling < MaxMeddling
  /\ meddling' = meddling + 1
  /\ \E l \in Planted :
       /\ IsDir(Front(l.path)) /\ ~IsDir(l.path)
       /\ tree' = With({l.path}, Link(l.target))
  /\ calls' = [c \in Callers |-> [calls[c] EXCEPT !.fresh = FALSE]]
  /\ touched' = {}
  /\ UNCHANGED fs_roots

FsNext ==
  \/ \E c \in Callers : \/ ResolvesPath(c) \/ CallFails(c) \/ LooksUp(c) \/ ReplacesFile(c)
                        \/ MakesDirs(c) \/ Removes(c) \/ Moves(c)
  \/ Meddles

FsSpec == FsInit /\ [][FsNext]_fsVars

-------------------------------------------------------------------------------
(* Properties *)

(* Whatever is asked for, through whatever links and however the tree was  *)
(* changed by earlier calls, a call that no change overtakes reads,        *)
(* changes, makes and removes nothing outside the roots; a change between  *)
(* resolution and use is the one case fs_roots.rs says it does not defend  *)
(* against.  It holds while no path needs more than MaxLinks links (a      *)
(* name that only their number put out of reach may be in reach from where *)
(* the names before it lead): LinksSuffice, which the theorem supposes.    *)
StaysInRoots ==
  \A p \in touched : \E root \in fs_roots : IsPrefix(root, p)
=============================================================================
