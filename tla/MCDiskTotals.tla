---------------------------- MODULE MCDiskTotals ----------------------------
(* DiskTotals alone, for a run that ends in a counterexample: one device of *)
(* a name that leaves room in its line and one of a name that does not.     *)
EXTENDS DiskTotals

Mount(name, dir, long) ==
  [path |-> [name |-> name, kind |-> "dev"], at |-> [name |-> dir, kind |-> "plain"], long |-> long]
MCMounts == {Mount("sda1", "/", FALSE), Mount("vg-long", "/home", TRUE)}
MCSizes == [p \in Paths |-> 1]
MCForests == {[roots |-> <<>>, node |-> <<>>]}
=============================================================================
