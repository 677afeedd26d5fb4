------------------------------ MODULE OutputView ------------------------------
(***************************************************************************)
(* What a terminal promises the people looking at it: a screen shows one   *)
(* unbroken run of the shell's output.  It grows at its end, possibly      *)
(* repeating some of what it shows already, or is wiped and starts again   *)
(* further on.  TerminalStream is shown to implement this.                 *)
(***************************************************************************)
EXTENDS Integers

CONSTANT Clients

VARIABLES
  produced,   \* how many bytes the shell has written
  shown       \* the positions on each client's screen

vars == <<produced, shown>>

Init ==
  /\ produced = 0
  /\ shown = [c \in Clients |-> {}]

Produce ==
  /\ produced' \in Nat
  /\ produced' > produced
  /\ UNCHANGED shown

(* New output joins the screen where it ends, or overlaps its end; a blank *)
(* screen may begin anywhere.  Only what was produced is ever shown.       *)
Extend(c) ==
  \E lo \in 0..produced : \E hi \in lo..produced :
    /\ shown[c] = {} \/ {lo, lo + 1} \cap shown[c] # {}
    /\ shown' = [shown EXCEPT ![c] = @ \cup (lo + 1)..hi]
    /\ UNCHANGED produced

Wipe(c) ==
  /\ shown' = [shown EXCEPT ![c] = {}]
  /\ UNCHANGED produced

Next ==
  \/ Produce
  \/ \E c \in Clients : Extend(c) \/ Wipe(c)

Spec == Init /\ [][Next]_vars

-------------------------------------------------------------------------------

(* No screen shows a byte that was not produced, or skips one between two  *)
(* it shows.                                                               *)
UnbrokenScreens ==
  \A c \in Clients :
    /\ shown[c] \subseteq 1..produced
    /\ \A p, q \in shown[c] : p..q \subseteq shown[c]
=============================================================================
