------------------------------ MODULE TicketStore ------------------------------
(***************************************************************************)
(* Tickets that authorise one WebSocket upgrade each: `TicketStore` in     *)
(* src/monitor/src/api/ws/ticket.rs and the requests that use it,          *)
(* `terminal_ws` in src/monitor/src/api/ws/terminal.rs.                    *)
(*                                                                         *)
(* A ticket is its random id, never drawn twice.  A deadline is the time   *)
(* left until it.  A request suspends between reserving and the outcome of *)
(* the handshake; there it may be dropped, and does neither then.          *)
(***************************************************************************)
EXTENDS Integers, FiniteSets

CONSTANTS
  Subjects,
  Tickets,
  Requests,        \* upgrade requests in progress at once
  Ttl,             \* TTL
  MaxLive,         \* MAX_LIVE
  MaxPerSubject    \* MAX_PER_SUBJECT

NoTicket == "none"

ASSUME TicketsAssumption == NoTicket \notin Tickets
ASSUME LimitsAssumption ==
  /\ Ttl \in Nat
  /\ MaxLive \in Nat
  /\ MaxPerSubject \in Nat

VARIABLES
  issued,     \* ids ever drawn
  live,       \* the ids that have an entry
  subject,
  left,       \* time until expires_at
  reserved,
  holds,      \* the reservation of a request whose handshake is under way
  opened      \* WebSockets opened with a ticket; the code keeps no such count

ticketVars == <<issued, live, subject, left, reserved, holds, opened>>

-------------------------------------------------------------------------------

TicketInit ==
  /\ issued = {}
  /\ live = {}
  /\ \E s \in Subjects : subject = [t \in Tickets |-> s]
  /\ left = [t \in Tickets |-> 0]
  /\ reserved = [t \in Tickets |-> FALSE]
  /\ holds = [r \in Requests |-> NoTicket]
  /\ opened = [t \in Tickets |-> 0]

Unexpired == {t \in live : left[t] > 0}

OwnedBy(s, among) == {t \in among : subject[t] = s}

HasTicketRoom(s) ==
  /\ Cardinality(Unexpired) < MaxLive
  /\ Cardinality(OwnedBy(s, Unexpired)) < MaxPerSubject

(* issue_at: expired entries go first, whether or not there is room then. *)
Issues(t, s) ==
  /\ t \notin issued
  /\ IF HasTicketRoom(s)
       THEN /\ issued' = issued \cup {t}
            /\ live' = Unexpired \cup {t}
            /\ subject' = [subject EXCEPT ![t] = s]
            /\ left' = [left EXCEPT ![t] = Ttl]
            /\ reserved' = [reserved EXCEPT ![t] = FALSE]
       ELSE /\ live' = Unexpired
            /\ UNCHANGED <<issued, subject, left, reserved>>
  /\ UNCHANGED <<holds, opened>>

(* reserve_at, refused: the ticket has expired or the secret is wrong, and *)
(* the entry is gone.  An entry that is reserved is left as it is.         *)
Burns(t) ==
  /\ t \in live
  /\ ~reserved[t]
  /\ live' = live \ {t}
  /\ UNCHANGED <<issued, subject, left, reserved, holds, opened>>

(* Mutant: an entry under reservation is handed out again. *)
ReservesAgain(r, t) ==
  /\ holds[r] = NoTicket
  /\ t \in live
  /\ left[t] > 0
  /\ reserved' = [reserved EXCEPT ![t] = TRUE]
  /\ holds' = [holds EXCEPT ![r] = t]
  /\ UNCHANGED <<issued, live, subject, left, opened>>

Reserves(r, t) ==
  /\ holds[r] = NoTicket
  /\ t \in live
  /\ ~reserved[t]
  /\ left[t] > 0
  /\ reserved' = [reserved EXCEPT ![t] = TRUE]
  /\ holds' = [holds EXCEPT ![r] = t]
  /\ UNCHANGED <<issued, live, subject, left, opened>>

(* The handshake succeeded: commit.  The entry may have expired and been   *)
(* swept meanwhile.                                                        *)
Commits(r) ==
  /\ holds[r] # NoTicket
  /\ live' = live \ {holds[r]}
  /\ opened' = [opened EXCEPT ![holds[r]] = @ + 1]
  /\ holds' = [holds EXCEPT ![r] = NoTicket]
  /\ UNCHANGED <<issued, subject, left, reserved>>

(* The handshake failed: rollback, if there still is an entry. *)
RollsBack(r) ==
  /\ holds[r] # NoTicket
  /\ reserved' = [reserved EXCEPT ![holds[r]] = @ /\ holds[r] \notin live]
  /\ holds' = [holds EXCEPT ![r] = NoTicket]
  /\ UNCHANGED <<issued, live, subject, left, opened>>

(* The request is dropped in mid-handshake: its entry stays reserved until *)
(* it expires.                                                             *)
ReservationIsDropped(r) ==
  /\ holds[r] # NoTicket
  /\ holds' = [holds EXCEPT ![r] = NoTicket]
  /\ UNCHANGED <<issued, live, subject, left, reserved, opened>>

TicketTick ==
  /\ \E t \in Tickets : left[t] > 0
  /\ left' = [t \in Tickets |-> IF left[t] > 0 THEN left[t] - 1 ELSE 0]
  /\ UNCHANGED <<issued, live, subject, reserved, holds, opened>>

TicketNext ==
  \/ \E t \in Tickets :
       \/ \E s \in Subjects : Issues(t, s)
       \/ \E r \in Requests : Reserves(r, t)
       \/ Burns(t)
  \/ \E r \in Requests : Commits(r) \/ RollsBack(r) \/ ReservationIsDropped(r)
  \/ TicketTick

TicketSpec == TicketInit /\ [][TicketNext]_ticketVars

-------------------------------------------------------------------------------

TicketTypeOK ==
  /\ issued \subseteq Tickets
  /\ live \subseteq Tickets
  /\ subject \in [Tickets -> Subjects]
  /\ left \in [Tickets -> Nat]
  /\ reserved \in [Tickets -> BOOLEAN]
  /\ holds \in [Requests -> Tickets \cup {NoTicket}]
  /\ opened \in [Tickets -> Nat]

TicketHolders(t) == {r \in Requests : holds[r] = t}

(* A ticket is good for one WebSocket: at any time one request at most is  *)
(* about to open one with it, and none once one was opened, however        *)
(* failed, dropped and repeated requests follow each other (ticket.rs,     *)
(* reserve_at, commit and rollback).                                       *)
SingleUse ==
  \A t \in Tickets :
    /\ opened[t] <= 1
    /\ opened[t] = 1 => TicketHolders(t) = {}
    /\ \A q, r \in TicketHolders(t) : q = r

(* Neither another request nor the sweep takes a ticket away from a        *)
(* handshake under way: if that fails in time, the client can try again    *)
(* (ticket.rs, reserve_at and rollback).                                   *)
ReservationsAreKept ==
  \A r \in Requests : \A t \in Tickets :
    (holds[r] = t /\ left[t] > 0) => t \in live /\ reserved[t]

(* The store never holds more than its two limits allow, tickets being     *)
(* given back and those of dropped requests included (ticket.rs, issue_at). *)
CapsHold ==
  /\ Cardinality(live) <= MaxLive
  /\ \A s \in Subjects : Cardinality(OwnedBy(s, live)) <= MaxPerSubject
=============================================================================
