--------------------------- MODULE OutputViewProofs ---------------------------
(***************************************************************************)
(* What OutputView is worth: whatever implements it never shows a screen   *)
(* with a hole, for any number of clients and any amount of output.        *)
(***************************************************************************)
EXTENDS OutputView, TLAPS

IInv ==
  /\ produced \in Nat
  /\ shown \in [Clients -> SUBSET Nat]
  /\ UnbrokenScreens

(* Output that touches the end of a run, or overlaps it, lengthens the run. *)
LEMMA RunsJoin ==
  ASSUME NEW S \in SUBSET Nat, NEW lo \in Nat, NEW hi \in Nat, lo <= hi,
         \A p, q \in S : p..q \subseteq S,
         S = {} \/ {lo, lo + 1} \cap S # {}
  PROVE  \A p, q \in S \cup (lo + 1)..hi : p..q \subseteq S \cup (lo + 1)..hi
<1> SUFFICES ASSUME NEW p \in S \cup (lo + 1)..hi, NEW q \in S \cup (lo + 1)..hi,
                    NEW r \in p..q, r \notin (lo + 1)..hi
             PROVE  r \in S
  OBVIOUS
<1>1. p \in Nat /\ q \in Nat /\ r \in Nat /\ p <= r /\ r <= q
  OBVIOUS
<1>2. r <= lo \/ r > hi
  BY <1>1
<1>3. CASE p \in S /\ q \in S
  BY <1>3
<1>4. CASE p \in (lo + 1)..hi /\ q \in (lo + 1)..hi
  BY <1>1, <1>4
<1>5. CASE p \in S /\ q \in (lo + 1)..hi
  <2>1. r <= lo
    BY <1>1, <1>2, <1>5
  <2>2. PICK s \in S : s = lo \/ s = lo + 1
    BY <1>5
  <2>3. r \in p..s
    BY <1>1, <2>1, <2>2
  <2> QED BY <1>5, <2>2, <2>3
<1>6. CASE p \in (lo + 1)..hi /\ q \in S
  <2>1. r > hi
    BY <1>1, <1>2, <1>6
  <2>2. PICK s \in S : s = lo \/ s = lo + 1
    BY <1>6
  <2>3. r \in s..q
    BY <1>1, <1>6, <2>1, <2>2
  <2> QED BY <1>6, <2>2, <2>3
<1> QED BY <1>3, <1>4, <1>5, <1>6

LEMMA Step == IInv /\ [Next]_vars => IInv'
<1> SUFFICES ASSUME IInv, [Next]_vars
             PROVE  IInv'
  OBVIOUS
<1>1. CASE Produce
  <2>1. \A c \in Clients : shown[c] \subseteq 1..produced'
    BY <1>1 DEF Produce, IInv, UnbrokenScreens
  <2> QED BY <1>1, <2>1 DEF Produce, IInv, UnbrokenScreens
<1>2. ASSUME NEW c \in Clients, Extend(c) PROVE IInv'
  <2>0. PICK lo \in 0..produced : \E hi \in lo..produced :
          /\ shown[c] = {} \/ {lo, lo + 1} \cap shown[c] # {}
          /\ shown' = [shown EXCEPT ![c] = @ \cup (lo + 1)..hi]
          /\ UNCHANGED produced
    BY <1>2 DEF Extend
  <2>1. PICK hi \in lo..produced :
          /\ shown[c] = {} \/ {lo, lo + 1} \cap shown[c] # {}
          /\ shown' = [shown EXCEPT ![c] = @ \cup (lo + 1)..hi]
          /\ UNCHANGED produced
    BY <2>0
  <2> DEFINE now == shown[c] \cup (lo + 1)..hi
  <2>2. lo \in Nat /\ hi \in Nat /\ lo <= hi /\ hi <= produced /\ produced \in Nat
    BY <2>1 DEF IInv
  <2>3. shown[c] \in SUBSET Nat /\ \A p, q \in shown[c] : p..q \subseteq shown[c]
    BY DEF IInv, UnbrokenScreens
  <2>4. \A p, q \in now : p..q \subseteq now
    BY <2>1, <2>2, <2>3, RunsJoin
  <2>5. now \subseteq 1..produced /\ now \in SUBSET Nat
    BY <2>2 DEF IInv, UnbrokenScreens
  <2> HIDE DEF now
  <2>6. shown' = [shown EXCEPT ![c] = now]
    BY <2>1 DEF now
  <2>7. \A d \in Clients : shown'[d] = IF d = c THEN now ELSE shown[d]
    BY <2>6 DEF IInv
  <2>8. shown' \in [Clients -> SUBSET Nat]
    BY <2>5, <2>6 DEF IInv
  <2>9. UnbrokenScreens'
    BY <2>1, <2>4, <2>5, <2>7 DEF IInv, UnbrokenScreens
  <2> QED BY <2>1, <2>8, <2>9 DEF IInv
<1>3. ASSUME NEW c \in Clients, Wipe(c) PROVE IInv'
  <2>1. \A d \in Clients : shown'[d] = IF d = c THEN {} ELSE shown[d]
    BY <1>3 DEF Wipe, IInv
  <2>2. shown' \in [Clients -> SUBSET Nat]
    BY <1>3 DEF Wipe, IInv
  <2> QED BY <1>3, <2>1, <2>2 DEF Wipe, IInv, UnbrokenScreens
<1>4. CASE UNCHANGED vars
  BY <1>4 DEF vars, IInv, UnbrokenScreens
<1> QED BY <1>1, <1>2, <1>3, <1>4 DEF Next

(* No screen shows what was not produced, or skips a byte between two it   *)
(* shows (terminal.svelte.ts, module comment; session.rs, Scrollback).     *)
THEOREM ScreensAreUnbroken == Spec => []UnbrokenScreens
<1>1. Init => IInv
  BY DEF Init, IInv, UnbrokenScreens
<1>2. IInv => UnbrokenScreens
  BY DEF IInv
<1> QED BY <1>1, <1>2, Step, PTL DEF Spec
=============================================================================
