---------------------------- MODULE AccountProofs ----------------------------
(* Who gets in: proofs about TicketStore, LoginThrottle, Access and FirstStart,
   each about its own specification and for any value of its constants.      *)
EXTENDS TicketStore, LoginThrottle, Access, FirstStart, FiniteSetTheorems, TLAPS

----------------------------------------------------------------------------
(* WebSocket tickets *)

(* What a reservation rests on: a ticket that a request holds has an entry *)
(* under reservation or none at all, one that was used has none, and ids   *)
(* are not drawn twice.                                                    *)
HoldingInv ==
  /\ live \subseteq issued
  /\ \A r \in Requests : holds[r] # NoTicket => holds[r] \in issued
  /\ \A t \in Tickets : opened[t] > 0 => t \in issued /\ t \notin live
  /\ \A r \in Requests : holds[r] \in live => reserved[holds[r]]

TicketsInv ==
  /\ TicketTypeOK
  /\ HoldingInv
  /\ SingleUse
  /\ ReservationsAreKept

(* The same, ticket by ticket, without the sets that SingleUse speaks of.  *)
LEMMA SingleUseUnfolded ==
  SingleUse <=>
    \A t \in Tickets :
      /\ opened[t] <= 1
      /\ opened[t] = 1 => \A r \in Requests : holds[r] # t
      /\ \A q, r \in Requests : (holds[q] = t /\ holds[r] = t) => q = r
BY DEF SingleUse, TicketHolders

LEMMA SingleUseUnfoldedNext ==
  SingleUse' <=>
    \A t \in Tickets :
      /\ opened'[t] <= 1
      /\ opened'[t] = 1 => \A r \in Requests : holds'[r] # t
      /\ \A q, r \in Requests : (holds'[q] = t /\ holds'[r] = t) => q = r
BY DEF SingleUse, TicketHolders

LEMMA InitialTickets == TicketInit => TicketsInv
<1> SUFFICES ASSUME TicketInit PROVE TicketsInv
  OBVIOUS
<1>1. TicketTypeOK
  BY DEF TicketInit, TicketTypeOK
<1>2. HoldingInv
  BY TicketsAssumption DEF TicketInit, HoldingInv
<1>3. SingleUse
  BY TicketsAssumption, SingleUseUnfolded DEF TicketInit
<1>4. ReservationsAreKept
  BY TicketsAssumption DEF TicketInit, ReservationsAreKept
<1> QED
  BY <1>1, <1>2, <1>3, <1>4 DEF TicketsInv

LEMMA NextTickets == TicketsInv /\ [TicketNext]_ticketVars => TicketsInv'
<1> SUFFICES ASSUME TicketsInv, [TicketNext]_ticketVars PROVE TicketsInv'
  OBVIOUS
<1>0. /\ TicketTypeOK
      /\ HoldingInv
      /\ SingleUse
      /\ ReservationsAreKept
  BY DEF TicketsInv
<1>0a. \A t \in Tickets : opened[t] \in Nat /\ left[t] \in Nat
  BY <1>0 DEF TicketTypeOK
<1>1. ASSUME NEW t \in Tickets, NEW s \in Subjects, Issues(t, s)
      PROVE  TicketsInv'
  <2>1. TicketTypeOK'
    BY <1>0, <1>1, LimitsAssumption DEF TicketTypeOK, Issues, Unexpired
  <2>2. HoldingInv'
    <3>1. /\ t \notin issued
          /\ opened[t] = 0
          /\ \A r \in Requests : holds[r] # t
      BY <1>0, <1>0a, <1>1, TicketsAssumption DEF HoldingInv, Issues
    <3>2. CASE HasTicketRoom(s)
      BY <1>0, <1>1, <3>1, <3>2 DEF TicketTypeOK, HoldingInv, Issues, Unexpired
    <3>3. CASE ~HasTicketRoom(s)
      BY <1>0, <1>1, <3>3 DEF HoldingInv, Issues, Unexpired
    <3> QED
      BY <3>2, <3>3
  <2>3. SingleUse'
    BY <1>0, <1>1, SingleUseUnfolded, SingleUseUnfoldedNext DEF Issues
  <2>4. ReservationsAreKept'
    BY <1>0, <1>1, TicketsAssumption
    DEF TicketTypeOK, HoldingInv, ReservationsAreKept, Issues, Unexpired
  <2> QED
    BY <2>1, <2>2, <2>3, <2>4 DEF TicketsInv
<1>2. ASSUME NEW t \in Tickets, NEW r \in Requests, Reserves(r, t)
      PROVE  TicketsInv'
  <2>1. TicketTypeOK'
    BY <1>0, <1>2 DEF TicketTypeOK, Reserves
  <2>2. HoldingInv'
    BY <1>0, <1>2 DEF TicketTypeOK, HoldingInv, Reserves
  <2>3. SingleUse'
    <3>1. opened[t] = 0 /\ \A q \in Requests : holds[q] # t
      BY <1>0, <1>0a, <1>2 DEF HoldingInv, Reserves
    <3> QED
      BY <1>0, <1>2, <3>1, SingleUseUnfolded, SingleUseUnfoldedNext
      DEF TicketTypeOK, Reserves
  <2>4. ReservationsAreKept'
    BY <1>0, <1>2 DEF TicketTypeOK, ReservationsAreKept, Reserves
  <2> QED
    BY <2>1, <2>2, <2>3, <2>4 DEF TicketsInv
<1>3. ASSUME NEW t \in Tickets, Burns(t)
      PROVE  TicketsInv'
  <2>1. TicketTypeOK'
    BY <1>0, <1>3 DEF TicketTypeOK, Burns
  <2>2. HoldingInv'
    BY <1>0, <1>3 DEF HoldingInv, Burns
  <2>3. SingleUse'
    BY <1>0, <1>3, SingleUseUnfolded, SingleUseUnfoldedNext DEF Burns
  <2>4. ReservationsAreKept'
    BY <1>0, <1>3 DEF ReservationsAreKept, Burns
  <2> QED
    BY <2>1, <2>2, <2>3, <2>4 DEF TicketsInv
<1>4. ASSUME NEW r \in Requests, Commits(r)
      PROVE  TicketsInv'
  <2>0. holds[r] \in Tickets /\ opened[holds[r]] = 0
    BY <1>0, <1>0a, <1>4, SingleUseUnfolded DEF TicketTypeOK, Commits
  <2>1. TicketTypeOK'
    BY <1>0, <1>4 DEF TicketTypeOK, Commits
  <2>2. HoldingInv'
    BY <1>0, <1>0a, <1>4, <2>0, TicketsAssumption DEF TicketTypeOK, HoldingInv, Commits
  <2>3. SingleUse'
    BY <1>0, <1>4, <2>0, TicketsAssumption, SingleUseUnfolded, SingleUseUnfoldedNext
    DEF TicketTypeOK, Commits
  <2>4. ReservationsAreKept'
    BY <1>0, <1>4, <2>0, TicketsAssumption, SingleUseUnfolded
    DEF TicketTypeOK, ReservationsAreKept, Commits
  <2> QED
    BY <2>1, <2>2, <2>3, <2>4 DEF TicketsInv
<1>5. ASSUME NEW r \in Requests, RollsBack(r)
      PROVE  TicketsInv'
  <2>0. holds[r] \in Tickets /\ \A q \in Requests : holds[q] = holds[r] => q = r
    BY <1>0, <1>5, SingleUseUnfolded DEF TicketTypeOK, RollsBack
  <2>1. TicketTypeOK'
    BY <1>0, <1>5 DEF TicketTypeOK, RollsBack
  <2>2. HoldingInv'
    BY <1>0, <1>5, <2>0, TicketsAssumption DEF TicketTypeOK, HoldingInv, RollsBack
  <2>3. SingleUse'
    BY <1>0, <1>5, TicketsAssumption, SingleUseUnfolded, SingleUseUnfoldedNext
    DEF TicketTypeOK, RollsBack
  <2>4. ReservationsAreKept'
    BY <1>0, <1>5, <2>0, TicketsAssumption DEF TicketTypeOK, ReservationsAreKept, RollsBack
  <2> QED
    BY <2>1, <2>2, <2>3, <2>4 DEF TicketsInv
<1>6. ASSUME NEW r \in Requests, ReservationIsDropped(r)
      PROVE  TicketsInv'
  <2>1. TicketTypeOK'
    BY <1>0, <1>6 DEF TicketTypeOK, ReservationIsDropped
  <2>2. HoldingInv'
    BY <1>0, <1>6, TicketsAssumption DEF TicketTypeOK, HoldingInv, ReservationIsDropped
  <2>3. SingleUse'
    BY <1>0, <1>6, TicketsAssumption, SingleUseUnfolded, SingleUseUnfoldedNext
    DEF TicketTypeOK, ReservationIsDropped
  <2>4. ReservationsAreKept'
    BY <1>0, <1>6, TicketsAssumption DEF TicketTypeOK, ReservationsAreKept, ReservationIsDropped
  <2> QED
    BY <2>1, <2>2, <2>3, <2>4 DEF TicketsInv
<1>7. CASE TicketTick
  <2>1. TicketTypeOK'
    BY <1>0, <1>7 DEF TicketTypeOK, TicketTick
  <2>2. HoldingInv'
    BY <1>0, <1>7 DEF HoldingInv, TicketTick
  <2>3. SingleUse'
    BY <1>0, <1>7, SingleUseUnfolded, SingleUseUnfoldedNext DEF TicketTick
  <2>4. ReservationsAreKept'
    BY <1>0, <1>0a, <1>7 DEF ReservationsAreKept, TicketTick
  <2> QED
    BY <2>1, <2>2, <2>3, <2>4 DEF TicketsInv
<1>8. CASE UNCHANGED ticketVars
  <2>1. SingleUse'
    BY <1>0, <1>8, SingleUseUnfolded, SingleUseUnfoldedNext DEF ticketVars
  <2> QED
    BY <1>0, <1>8, <2>1 DEF ticketVars, TicketsInv, TicketTypeOK, HoldingInv, ReservationsAreKept
<1> QED
  BY <1>1, <1>2, <1>3, <1>4, <1>5, <1>6, <1>7, <1>8 DEF TicketNext

THEOREM TicketsInvariance == TicketSpec => []TicketsInv
BY InitialTickets, NextTickets, PTL DEF TicketSpec

(* The store, its reservations and its deadlines keep their types.         *)
THEOREM TicketsAreTyped == TicketSpec => []TicketTypeOK
<1>1. TicketsInv => TicketTypeOK
  BY DEF TicketsInv
<1> QED
  BY <1>1, TicketsInvariance, PTL

(* One ticket opens one WebSocket at most (ticket.rs, reserve_at).         *)
THEOREM TicketsAreSingleUse == TicketSpec => []SingleUse
<1>1. TicketsInv => SingleUse
  BY DEF TicketsInv
<1> QED
  BY <1>1, TicketsInvariance, PTL

(* A handshake under way keeps its ticket until that expires (ticket.rs,   *)
(* reserve_at and rollback).                                               *)
THEOREM HandshakesKeepTickets == TicketSpec => []ReservationsAreKept
<1>1. TicketsInv => ReservationsAreKept
  BY DEF TicketsInv
<1> QED
  BY <1>1, TicketsInvariance, PTL

-------------------------------------------------------------------------------
(* The limits *)

(* A part of the store is no larger than the store.                        *)
LEMMA FewerEntries ==
  ASSUME IsFiniteSet(live), NEW kept \in SUBSET live, NEW s
  PROVE  /\ IsFiniteSet(kept)
         /\ Cardinality(kept) <= Cardinality(live)
         /\ IsFiniteSet(OwnedBy(s, kept))
         /\ Cardinality(OwnedBy(s, kept)) <= Cardinality(OwnedBy(s, live))
<1>1. OwnedBy(s, kept) \subseteq OwnedBy(s, live) /\ OwnedBy(s, live) \subseteq live
  BY DEF OwnedBy
<1>2. IsFiniteSet(OwnedBy(s, live))
  BY <1>1, FS_Subset
<1> QED
  BY <1>1, <1>2, FS_Subset

CapInv == IsFiniteSet(live) /\ CapsHold

(* Removing entries, or none, keeps both limits. *)
LEMMA CapsSurviveRemoval ==
  ASSUME CapInv, live' \in SUBSET live, UNCHANGED subject
  PROVE  CapInv'
<1>1. IsFiniteSet(live') /\ Cardinality(live') <= Cardinality(live)
  BY FewerEntries DEF CapInv
<1>2. \A s \in Subjects : Cardinality(OwnedBy(s, live)') <= Cardinality(OwnedBy(s, live))
  <2> TAKE s \in Subjects
  <2>1. OwnedBy(s, live)' = OwnedBy(s, live')
    BY DEF OwnedBy
  <2> QED
    BY <2>1, FewerEntries DEF CapInv
<1>3. /\ Cardinality(live) \in Nat /\ Cardinality(live') \in Nat
      /\ \A s \in Subjects :
           /\ Cardinality(OwnedBy(s, live)) \in Nat
           /\ Cardinality(OwnedBy(s, live)') \in Nat
  <2>1. \A s \in Subjects :
          /\ OwnedBy(s, live) \subseteq live
          /\ OwnedBy(s, live)' \subseteq live'
    BY DEF OwnedBy
  <2> QED
    BY <1>1, <2>1, FS_Subset, FS_CardinalityType DEF CapInv
<1> QED
  BY <1>1, <1>2, <1>3, LimitsAssumption DEF CapInv, CapsHold

(* Neither limit is ever exceeded (ticket.rs, issue_at).                   *)
THEOREM LimitsHold == TicketSpec => []CapsHold
<1>1. TicketInit => CapInv
  <2> SUFFICES ASSUME TicketInit PROVE CapInv
    OBVIOUS
  <2>1. live = {} /\ \A s \in Subjects : OwnedBy(s, live) = {}
    BY DEF TicketInit, OwnedBy
  <2> QED
    BY <2>1, FS_EmptySet, LimitsAssumption DEF CapInv, CapsHold
<1>2. TicketTypeOK /\ CapInv /\ live \subseteq issued /\ [TicketNext]_ticketVars => CapInv'
  <2> SUFFICES ASSUME TicketTypeOK, CapInv, live \subseteq issued, [TicketNext]_ticketVars
               PROVE  CapInv'
    OBVIOUS
  <2>1. ASSUME NEW t \in Tickets, NEW s \in Subjects, Issues(t, s), HasTicketRoom(s)
        PROVE  CapInv'
    <3>0. Unexpired \subseteq live /\ t \notin live
      BY <2>1 DEF Unexpired, Issues
    <3>1. /\ IsFiniteSet(Unexpired)
          /\ \A u \in Subjects : IsFiniteSet(OwnedBy(u, Unexpired))
          /\ \A u \in Subjects :
               Cardinality(OwnedBy(u, Unexpired)) <= Cardinality(OwnedBy(u, live))
      BY <3>0, FewerEntries DEF CapInv
    <3>2. /\ live' = Unexpired \cup {t}
          /\ t \notin Unexpired
          /\ subject' = [subject EXCEPT ![t] = s]
      BY <2>1, <3>0 DEF Issues
    <3>3. /\ IsFiniteSet(live')
          /\ Cardinality(live') = Cardinality(Unexpired) + 1
          /\ Cardinality(Unexpired) \in Nat
      BY <3>1, <3>2, FS_AddElement, FS_CardinalityType
    <3>4. Cardinality(live') <= MaxLive
      BY <2>1, <3>3, LimitsAssumption DEF HasTicketRoom
    <3>5. ASSUME NEW u \in Subjects
          PROVE  Cardinality(OwnedBy(u, live)') <= MaxPerSubject
      <4>1. CASE u = s
        <5>1. OwnedBy(u, live)' = OwnedBy(u, Unexpired) \cup {t}
          BY <3>0, <3>2, <4>1 DEF OwnedBy, TicketTypeOK
        <5>2. t \notin OwnedBy(u, Unexpired)
          BY <3>2 DEF OwnedBy
        <5>3. Cardinality(OwnedBy(u, live)') = Cardinality(OwnedBy(u, Unexpired)) + 1
          BY <3>1, <5>1, <5>2, FS_AddElement
        <5>4. Cardinality(OwnedBy(u, Unexpired)) < MaxPerSubject
          BY <2>1, <4>1 DEF HasTicketRoom
        <5> QED
          BY <3>1, <5>3, <5>4, LimitsAssumption, FS_CardinalityType
      <4>2. CASE u # s
        <5>1. OwnedBy(u, live)' = OwnedBy(u, Unexpired)
          BY <3>0, <3>2, <4>2 DEF OwnedBy, TicketTypeOK
        <5>2. Cardinality(OwnedBy(u, live)) <= MaxPerSubject
          BY DEF CapInv, CapsHold
        <5>3. /\ Cardinality(OwnedBy(u, Unexpired)) \in Nat
              /\ Cardinality(OwnedBy(u, live)) \in Nat
          <6>1. OwnedBy(u, live) \subseteq live
            BY DEF OwnedBy
          <6> QED
            BY <3>1, <6>1, FS_Subset, FS_CardinalityType DEF CapInv
        <5> QED
          BY <3>1, <5>1, <5>2, <5>3, LimitsAssumption
      <4> QED
        BY <4>1, <4>2
    <3> QED
      BY <3>3, <3>4, <3>5 DEF CapInv, CapsHold
  <2>2. ASSUME NEW t \in Tickets, NEW s \in Subjects, Issues(t, s), ~HasTicketRoom(s)
        PROVE  CapInv'
    BY <2>2, CapsSurviveRemoval DEF Issues, Unexpired
  <2>3. ASSUME NEW t \in Tickets, NEW r \in Requests, Reserves(r, t)
        PROVE  CapInv'
    BY <2>3, CapsSurviveRemoval DEF Reserves
  <2>4. ASSUME NEW t \in Tickets, Burns(t)
        PROVE  CapInv'
    BY <2>4, CapsSurviveRemoval DEF Burns
  <2>5. ASSUME NEW r \in Requests, Commits(r)
        PROVE  CapInv'
    BY <2>5, CapsSurviveRemoval DEF Commits
  <2>6. ASSUME NEW r \in Requests, RollsBack(r) \/ ReservationIsDropped(r)
        PROVE  CapInv'
    BY <2>6, CapsSurviveRemoval DEF RollsBack, ReservationIsDropped
  <2>7. CASE TicketTick
    BY <2>7, CapsSurviveRemoval DEF TicketTick
  <2>8. CASE UNCHANGED ticketVars
    BY <2>8, CapsSurviveRemoval DEF ticketVars
  <2> QED
    BY <2>1, <2>2, <2>3, <2>4, <2>5, <2>6, <2>7, <2>8 DEF TicketNext
<1>3. TicketsInv => TicketTypeOK /\ live \subseteq issued
  BY DEF TicketsInv, HoldingInv
<1>4. CapInv => CapsHold
  BY DEF CapInv
<1> QED
  BY <1>1, <1>2, <1>3, <1>4, TicketsInvariance, PTL DEF TicketSpec

----------------------------------------------------------------------------
(* The login throttle *)

Entry == [failures : Nat, in_flight : Nat, age : Nat]

(* What is done to one entry keeps it one. *)
LEMMA EntriesStayEntries ==
  ASSUME NEW e \in Entry
  PROVE  /\ WithReservation(e) \in Entry
         /\ WithReservation(e).in_flight = e.in_flight + 1
         /\ WithFailure(e) \in Entry
         /\ WithFailure(e).in_flight = OneLess(e.in_flight)
         /\ Released(e) \in Entry
         /\ Released(e).in_flight = OneLess(e.in_flight)
         /\ Older(e) \in Entry
         /\ Older(e).in_flight = e.in_flight
         /\ Absent \in Entry
<1>1. OneLess(e.in_flight) \in Nat
  BY DEF Entry, OneLess
<1>2. LesserOf(e.age + 1, EntryTtl) \in Nat
  BY ThrottleAssumption DEF Entry, LesserOf
<1> HIDE DEF OneLess, LesserOf
<1>3. Absent \in Entry
  BY DEF Entry, Absent
<1>4. WithReservation(e) \in Entry /\ WithReservation(e).in_flight = e.in_flight + 1
  BY DEF Entry, WithReservation
<1>5. WithFailure(e) \in Entry /\ WithFailure(e).in_flight = OneLess(e.in_flight)
  BY <1>1 DEF Entry, WithFailure
<1>6. Released(e) \in Entry /\ Released(e).in_flight = OneLess(e.in_flight)
  BY <1>1 DEF Entry, Released, Absent
<1>7. Older(e) \in Entry /\ Older(e).in_flight = e.in_flight
  BY <1>2, <1>3 DEF Entry, Older
<1> QED
  BY <1>3, <1>4, <1>5, <1>6, <1>7

(* Pruning keeps every reservation. *)
LEMMA PruningKeepsReservations ==
  ASSUME LoginTypeOK
  PROVE  /\ Pruned \in [Keys -> Entry]
         /\ \A k \in Keys : Pruned[k].in_flight = entry[k].in_flight
<1>1. entry \in [Keys -> Entry]
  BY DEF LoginTypeOK, Entry
<1>2. Absent \in Entry /\ Absent.in_flight = 0
  BY DEF Absent, Entry
<1>3. \A k \in Keys : entry[k].in_flight \in Nat
  BY <1>1 DEF Entry
<1> QED
  BY <1>1, <1>2, <1>3 DEF Pruned

LEMMA KeySetsAreKeys == KeySets \subseteq SUBSET Keys
  BY DEF KeySets, AtMostOne, Keys

(* The throttle's map, the logins and their keys keep their types.         *)
THEOREM ThrottleIsTyped == LoginSpec => []LoginTypeOK
<1>1. LoginInit => LoginTypeOK
  BY DEF LoginInit, LoginTypeOK, Absent
<1>2. LoginTypeOK /\ [LoginNext]_loginVars => LoginTypeOK'
  <2> SUFFICES ASSUME LoginTypeOK, [LoginNext]_loginVars PROVE LoginTypeOK'
    OBVIOUS
  <2>0. entry \in [Keys -> Entry]
    BY DEF LoginTypeOK, Entry
  <2>0a. Pruned \in [Keys -> Entry]
    BY PruningKeepsReservations
  <2>1. ASSUME NEW ks \in KeySets, NEW a \in Logins, Begins(a, ks)
        PROVE  LoginTypeOK'
    <3>1. entry' \in [Keys -> Entry]
      BY <2>1, <2>0a, EntriesStayEntries DEF Begins
    <3>2. ks \subseteq Keys
      BY KeySetsAreKeys
    <3> QED
      BY <2>1, <3>1, <3>2 DEF Begins, LoginTypeOK, Entry
  <2>2. ASSUME NEW ks \in KeySets, IsTurnedAway(ks)
        PROVE  LoginTypeOK'
    BY <2>2, <2>0a DEF IsTurnedAway, LoginTypeOK, Entry
  <2>3. ASSUME NEW a \in Logins, Queries(a) \/ GetsPermit(a) \/ Verifies(a)
        PROVE  LoginTypeOK'
    BY <2>3 DEF Queries, GetsPermit, Verifies, LoginTypeOK
  <2>4. ASSUME NEW a \in Logins, Fails(a)
        PROVE  LoginTypeOK'
    <3>1. entry' \in [Keys -> Entry]
      BY <2>4, <2>0, EntriesStayEntries DEF Fails, Resolves
    <3> QED
      BY <2>4, <3>1 DEF Fails, Resolves, LoginTypeOK, StillForgotten, Entry
  <2>5. ASSUME NEW a \in Logins, Succeeds(a)
        PROVE  LoginTypeOK'
    <3>1. entry' \in [Keys -> Entry]
      BY <2>5, <2>0, EntriesStayEntries DEF Succeeds, Resolves
    <3> QED
      BY <2>5, <3>1 DEF Succeeds, Resolves, LoginTypeOK, StillForgotten, Entry
  <2>6. ASSUME NEW a \in Logins, Errs(a)
        PROVE  LoginTypeOK'
    <3>1. entry' \in [Keys -> Entry]
      BY <2>6, <2>0, EntriesStayEntries DEF Errs, Resolves
    <3> QED
      BY <2>6, <3>1 DEF Errs, Resolves, LoginTypeOK, StillForgotten, Entry
  <2>7. ASSUME NEW a \in Logins, AttemptIsDropped(a)
        PROVE  LoginTypeOK'
    <3>1. entry' \in [Keys -> Entry]
      BY <2>7, <2>0, EntriesStayEntries DEF AttemptIsDropped, Resolves
    <3> QED
      BY <2>7, <3>1 DEF AttemptIsDropped, Resolves, LoginTypeOK, StillForgotten, Entry
  <2>8. CASE AbandonedCheckEnds
    BY <2>8 DEF AbandonedCheckEnds, LoginTypeOK
  <2>9. CASE LoginTick
    <3>1. entry' \in [Keys -> Entry]
      BY <2>9, <2>0, EntriesStayEntries DEF LoginTick
    <3> QED
      BY <2>9, <3>1 DEF LoginTick, LoginTypeOK, Entry
  <2>10. CASE UNCHANGED loginVars
    BY <2>10 DEF loginVars, LoginTypeOK
  <2> QED
    BY <2>1, <2>2, <2>3, <2>4, <2>5, <2>6, <2>7, <2>8, <2>9, <2>10 DEF LoginNext
<1> QED
  BY <1>1, <1>2, PTL DEF LoginSpec

-------------------------------------------------------------------------------
(* Reservations *)

LEMMA HoldersAreFinite ==
  ASSUME NEW k
  PROVE  /\ IsFiniteSet(PermitHolders(k))
         /\ Cardinality(PermitHolders(k)) \in Nat
<1>1. PermitHolders(k) \subseteq Logins
  BY DEF PermitHolders, InProgress
<1> QED
  BY <1>1, LoginsAssumption, FS_Subset, FS_CardinalityType

(* A login that is over holds nothing any more, and nobody else is touched. *)
LEMMA HoldersShrink ==
  ASSUME LoginTypeOK, NEW a \in Logins, at[a] # "none",
         at' = [at EXCEPT ![a] = "none"],
         keys' = [keys EXCEPT ![a] = {}],
         NEW k \in Keys
  PROVE  /\ PermitHolders(k)' = PermitHolders(k) \ {a}
         /\ OtherHolders(a, k) = PermitHolders(k) \ {a}
         /\ k \in keys[a] <=> a \in PermitHolders(k)
         /\ k \in keys[a] =>
              Cardinality(PermitHolders(k)') = Cardinality(PermitHolders(k)) - 1
         /\ k \notin keys[a] =>
              Cardinality(PermitHolders(k)') = Cardinality(PermitHolders(k))
<1>1. PermitHolders(k)' = PermitHolders(k) \ {a} /\ OtherHolders(a, k) = PermitHolders(k) \ {a}
  BY DEF PermitHolders, OtherHolders, InProgress, LoginTypeOK
<1>2. k \in keys[a] <=> a \in PermitHolders(k)
  BY DEF PermitHolders, InProgress
<1>3. a \in PermitHolders(k) => Cardinality(PermitHolders(k) \ {a}) = Cardinality(PermitHolders(k)) - 1
  BY HoldersAreFinite, FS_RemoveElement
<1>4. a \notin PermitHolders(k) => PermitHolders(k) \ {a} = PermitHolders(k)
  OBVIOUS
<1> QED
  BY <1>1, <1>2, <1>3, <1>4

(* Every way to resolve a login but success takes one reservation off each *)
(* of its keys.                                                            *)
LEMMA ResolvingKeepsCount ==
  ASSUME LoginTypeOK, ReservationsAreExact, NEW a \in Logins, at[a] # "none",
         at' = [at EXCEPT ![a] = "none"],
         keys' = [keys EXCEPT ![a] = {}],
         forgotten' = StillForgotten(a),
         \A k \in Keys : entry'[k].in_flight =
           IF k \in keys[a] THEN OneLess(entry[k].in_flight) ELSE entry[k].in_flight
  PROVE  ReservationsAreExact'
<1> SUFFICES ASSUME NEW k \in Keys
             PROVE  /\ entry'[k].in_flight <= Cardinality(PermitHolders(k)')
                    /\ k \notin forgotten' =>
                         entry'[k].in_flight = Cardinality(PermitHolders(k)')
  BY DEF ReservationsAreExact
<1> DEFINE n == entry[k].in_flight
           held == Cardinality(PermitHolders(k))
           held2 == Cardinality(PermitHolders(k)')
<1>1. n \in Nat
  BY DEF LoginTypeOK
<1>2. held \in Nat
  BY HoldersAreFinite
<1>3. n <= held /\ (k \notin forgotten => n = held)
  BY DEF ReservationsAreExact
<1>4. k \notin forgotten' => k \notin forgotten \/ PermitHolders(k)' = {}
  BY HoldersShrink DEF StillForgotten
<1>5. held2 = 0 \/ PermitHolders(k)' # {}
  BY FS_EmptySet
<1>6. CASE k \in keys[a]
  <2>1. held2 = held - 1 /\ held > 0
    <3>1. held2 = held - 1 /\ a \in PermitHolders(k)
      BY <1>6, HoldersShrink
    <3>2. held # 0
      BY <3>1, HoldersAreFinite, FS_EmptySet
    <3> QED
      BY <3>1, <3>2, <1>2
  <2>2. entry'[k].in_flight = OneLess(n)
    BY <1>6
  <2> HIDE DEF n, held, held2
  <2>3. entry'[k].in_flight = IF n > 0 THEN n - 1 ELSE 0
    BY <2>2 DEF OneLess
  <2>4. entry'[k].in_flight <= held2
    BY <2>1, <2>3, <1>1, <1>2, <1>3
  <2>5. k \notin forgotten' => entry'[k].in_flight = held2
    BY <2>1, <2>3, <1>1, <1>2, <1>3, <1>4, <1>5
  <2> QED
    BY <2>4, <2>5 DEF held2
<1>7. CASE k \notin keys[a]
  <2>1. held2 = held
    BY <1>7, HoldersShrink
  <2>2. entry'[k].in_flight = n
    BY <1>7
  <2> HIDE DEF n, held, held2
  <2>4. entry'[k].in_flight <= held2
    BY <2>1, <2>2, <1>3
  <2>5. k \notin forgotten' => entry'[k].in_flight = held2
    BY <2>1, <2>2, <1>1, <1>2, <1>3, <1>4, <1>5
  <2> QED
    BY <2>4, <2>5 DEF held2
<1> QED
  BY <1>6, <1>7

(* A login that waits holds its keys: what follows depends on nothing else. *)
LEMMA WaitingKeepsCount ==
  ASSUME LoginTypeOK, ReservationsAreExact,
         UNCHANGED <<keys, forgotten>>,
         \A k \in Keys : entry'[k].in_flight = entry[k].in_flight,
         \A a \in Logins : (at[a] = "none") <=> (at'[a] = "none")
  PROVE  ReservationsAreExact'
<1>1. \A k \in Keys : PermitHolders(k)' = PermitHolders(k)
  BY DEF PermitHolders, InProgress
<1> QED
  BY <1>1 DEF ReservationsAreExact

(* For every key of the throttle the attempts in flight are counted        *)
(* exactly, whatever becomes of the logins (ratelimit.rs).                 *)
THEOREM AttemptsAreCounted == LoginSpec => []ReservationsAreExact
<1>1. LoginInit => ReservationsAreExact
  <2> SUFFICES ASSUME LoginInit, NEW k \in Keys
               PROVE  entry[k].in_flight = 0 /\ Cardinality(PermitHolders(k)) = 0
    BY DEF ReservationsAreExact
  <2>1. entry[k].in_flight = 0
    BY DEF LoginInit, Absent
  <2>2. PermitHolders(k) = {}
    BY DEF LoginInit, PermitHolders, InProgress
  <2> QED
    BY <2>1, <2>2, FS_EmptySet
<1>2. LoginTypeOK /\ ReservationsAreExact /\ [LoginNext]_loginVars => ReservationsAreExact'
  <2> SUFFICES ASSUME LoginTypeOK, ReservationsAreExact, [LoginNext]_loginVars
               PROVE  ReservationsAreExact'
    OBVIOUS
  <2>0. \A k \in Keys : entry[k] \in Entry
    BY DEF LoginTypeOK, Entry
  <2>1. ASSUME NEW ks \in KeySets, NEW a \in Logins, Begins(a, ks)
        PROVE  ReservationsAreExact'
    <3> SUFFICES ASSUME NEW k \in Keys
                 PROVE  /\ entry'[k].in_flight <= Cardinality(PermitHolders(k)')
                        /\ k \notin forgotten' =>
                             entry'[k].in_flight = Cardinality(PermitHolders(k)')
      BY DEF ReservationsAreExact
    <3>1. /\ Pruned \in [Keys -> Entry]
          /\ Pruned[k].in_flight = entry[k].in_flight
      BY PruningKeepsReservations
    <3>2. entry[k].in_flight \in Nat
      BY <2>0 DEF Entry
    <3>3. /\ entry[k].in_flight <= Cardinality(PermitHolders(k))
          /\ k \notin forgotten => entry[k].in_flight = Cardinality(PermitHolders(k))
      BY DEF ReservationsAreExact
    <3>4. forgotten' = forgotten
      BY <2>1 DEF Begins
    <3>5. CASE k \in ks
      <4>1. entry'[k].in_flight = entry[k].in_flight + 1
        <5>1. entry'[k] = WithReservation(Pruned[k])
          BY <2>1, <3>5 DEF Begins
        <5> QED
          BY <5>1, <3>1, EntriesStayEntries
      <4>2. PermitHolders(k)' = PermitHolders(k) \cup {a} /\ a \notin PermitHolders(k)
        BY <2>1, <3>5 DEF Begins, PermitHolders, InProgress, LoginTypeOK
      <4>3. Cardinality(PermitHolders(k)') = Cardinality(PermitHolders(k)) + 1
        BY <4>2, HoldersAreFinite, FS_AddElement
      <4> QED
        BY <4>1, <4>3, <3>2, <3>3, <3>4, HoldersAreFinite
    <3>6. CASE k \notin ks
      <4>1. entry'[k].in_flight = entry[k].in_flight
        <5>1. entry'[k] = Pruned[k]
          BY <2>1, <3>6 DEF Begins
        <5> QED
          BY <5>1, <3>1
      <4>2. PermitHolders(k)' = PermitHolders(k)
        <5>1. k \notin keys'[a] /\ a \notin PermitHolders(k)
          BY <2>1, <3>6 DEF Begins, PermitHolders, InProgress, LoginTypeOK
        <5> QED
          BY <2>1, <5>1 DEF Begins, PermitHolders, InProgress, LoginTypeOK
      <4> QED
        BY <4>1, <4>2, <3>3, <3>4
    <3> QED
      BY <3>5, <3>6
  <2>2. ASSUME NEW ks \in KeySets, IsTurnedAway(ks)
        PROVE  ReservationsAreExact'
    <3>1. \A k \in Keys : entry'[k].in_flight = entry[k].in_flight
      BY <2>2, PruningKeepsReservations DEF IsTurnedAway
    <3> QED
      BY <2>2, <3>1, WaitingKeepsCount DEF IsTurnedAway
  <2>3. ASSUME NEW a \in Logins, Queries(a) \/ GetsPermit(a) \/ Verifies(a)
        PROVE  ReservationsAreExact'
    <3>1. \A b \in Logins : (at[b] = "none") <=> (at'[b] = "none")
      BY <2>3 DEF Queries, GetsPermit, Verifies, LoginTypeOK
    <3>2. UNCHANGED <<entry, keys, forgotten>>
      BY <2>3 DEF Queries, GetsPermit, Verifies
    <3> QED
      BY <3>1, <3>2, WaitingKeepsCount
  <2>4. ASSUME NEW a \in Logins, Fails(a)
        PROVE  ReservationsAreExact'
    <3>1. \A k \in Keys : entry'[k].in_flight =
            IF k \in keys[a] THEN OneLess(entry[k].in_flight) ELSE entry[k].in_flight
      BY <2>4, <2>0, EntriesStayEntries DEF Fails, Resolves
    <3> QED
      BY <2>4, <3>1, ResolvingKeepsCount DEF Fails, Resolves
  <2>5. ASSUME NEW a \in Logins, Succeeds(a)
        PROVE  ReservationsAreExact'
    <3> SUFFICES ASSUME NEW k \in Keys
                 PROVE  /\ entry'[k].in_flight <= Cardinality(PermitHolders(k)')
                        /\ k \notin forgotten' =>
                             entry'[k].in_flight = Cardinality(PermitHolders(k)')
      BY DEF ReservationsAreExact
    <3>0. /\ at[a] # "none"
          /\ at' = [at EXCEPT ![a] = "none"]
          /\ keys' = [keys EXCEPT ![a] = {}]
      BY <2>5 DEF Succeeds, Resolves
    <3>1. CASE k \in keys[a]
      <4>1. entry'[k].in_flight = 0
        BY <2>5, <3>1 DEF Succeeds, Resolves, Absent
      <4>2. IsFiniteSet(PermitHolders(k)') /\ Cardinality(PermitHolders(k)') \in Nat
        <5>1. PermitHolders(k)' \subseteq Logins
          BY DEF PermitHolders, InProgress
        <5> QED
          BY <5>1, LoginsAssumption, FS_Subset, FS_CardinalityType
      <4>3. k \notin forgotten' => PermitHolders(k)' = {}
        BY <2>5, <3>0, <3>1, HoldersShrink DEF Succeeds
      <4> QED
        BY <4>1, <4>2, <4>3, FS_EmptySet
    <3>2. CASE k \notin keys[a]
      <4>1. entry'[k] = entry[k]
        BY <2>5, <3>2 DEF Succeeds, Resolves
      <4>2. PermitHolders(k)' = PermitHolders(k) /\ OtherHolders(a, k) = PermitHolders(k)
        BY <3>0, <3>2, HoldersShrink
      <4>3. k \notin forgotten' => k \notin forgotten \/ PermitHolders(k) = {}
        BY <2>5, <4>2 DEF Succeeds, StillForgotten
      <4>4. entry[k].in_flight \in Nat
        BY <2>0 DEF Entry
      <4>5. /\ entry[k].in_flight <= Cardinality(PermitHolders(k))
            /\ k \notin forgotten => entry[k].in_flight = Cardinality(PermitHolders(k))
        BY DEF ReservationsAreExact
      <4> QED
        BY <4>1, <4>2, <4>3, <4>4, <4>5, FS_EmptySet
    <3> QED
      BY <3>1, <3>2
  <2>6. ASSUME NEW a \in Logins, Errs(a) \/ AttemptIsDropped(a)
        PROVE  ReservationsAreExact'
    <3>1. \A k \in Keys : entry'[k].in_flight =
            IF k \in keys[a] THEN OneLess(entry[k].in_flight) ELSE entry[k].in_flight
      BY <2>6, <2>0, EntriesStayEntries DEF Errs, AttemptIsDropped, Resolves
    <3> QED
      BY <2>6, <3>1, ResolvingKeepsCount DEF Errs, AttemptIsDropped, Resolves
  <2>7. CASE AbandonedCheckEnds
    BY <2>7, WaitingKeepsCount DEF AbandonedCheckEnds
  <2>8. CASE LoginTick
    <3>1. \A k \in Keys : entry'[k].in_flight = entry[k].in_flight
      BY <2>8, <2>0, EntriesStayEntries DEF LoginTick
    <3> QED
      BY <2>8, <3>1, WaitingKeepsCount DEF LoginTick
  <2>9. CASE UNCHANGED loginVars
    BY <2>9, WaitingKeepsCount DEF loginVars
  <2> QED
    BY <2>1, <2>2, <2>3, <2>4, <2>5, <2>6, <2>7, <2>8, <2>9 DEF LoginNext
<1> QED
  BY <1>1, <1>2, ThrottleIsTyped, PTL DEF LoginSpec

-------------------------------------------------------------------------------
(* Failures *)

(* Pruning forgets only what was idle for EntryTtl. *)
LEMMA PruningForgetsTheIdle ==
  ASSUME LoginTypeOK, NEW k \in Keys
  PROVE  \/ Pruned[k] = entry[k]
         \/ entry[k].in_flight = 0 /\ entry[k].age >= EntryTtl
<1>1. entry[k].in_flight \in Nat /\ entry[k].age \in Nat
  BY DEF LoginTypeOK
<1>2. Pruned[k] = entry[k] \/ ~(entry[k].in_flight > 0 \/ entry[k].age < EntryTtl)
  BY DEF Pruned, LoginTypeOK
<1> QED
  BY <1>1, <1>2, ThrottleAssumption

LEMMA FailuresOfAnEntry ==
  ASSUME NEW e \in Entry
  PROVE  /\ \/ WithReservation(e).failures = e.failures
            \/ e.in_flight = 0 /\ e.age >= EntryTtl
         /\ WithFailure(e).failures = e.failures + 1
         /\ Released(e).failures = e.failures
         /\ Older(e).failures = e.failures
<1>1. \/ WithReservation(e).failures = e.failures
      \/ e.in_flight = 0 /\ e.age >= EntryTtl
  BY DEF WithReservation
<1>2. WithFailure(e).failures = e.failures + 1
  BY DEF WithFailure
<1>3. Released(e).failures = e.failures
  BY DEF Released, Absent, Entry
<1>4. Older(e).failures = e.failures
  BY DEF Older, Absent, Entry
<1> QED
  BY <1>1, <1>2, <1>3, <1>4

(* Only a success, or an hour of silence, washes failures off a key        *)
(* (ratelimit.rs, begin and release_reservation).                          *)
THEOREM FailuresStay == LoginSpec => FailuresAreRemembered
<1> DEFINE Forgiven(k) ==
             \/ \E a \in Logins : at[a] = "verified" /\ k \in keys[a] /\ at'[a] = "none"
             \/ entry[k].in_flight = 0 /\ entry[k].age >= EntryTtl
<1>1. LoginTypeOK /\ [LoginNext]_loginVars
        => [\A k \in Keys :
              entry'[k].failures < entry[k].failures =>
                \/ \E a \in Logins :
                     at[a] = "verified" /\ k \in keys[a] /\ at'[a] = "none"
                \/ entry[k].in_flight = 0 /\ entry[k].age >= EntryTtl]_loginVars
  <2> SUFFICES ASSUME LoginTypeOK, LoginNext, NEW k \in Keys,
                      entry'[k].failures < entry[k].failures
               PROVE  Forgiven(k)
    OBVIOUS
  <2>0. entry[k] \in Entry /\ entry[k].failures \in Nat
    BY DEF LoginTypeOK, Entry
  <2>1. ASSUME NEW ks \in KeySets, NEW a \in Logins, Begins(a, ks)
        PROVE  Forgiven(k)
    <3>1. entry'[k] = WithReservation(Pruned[k]) \/ entry'[k] = Pruned[k]
      BY <2>1 DEF Begins
    <3>2. CASE Pruned[k] = entry[k]
      <4>1. entry'[k].failures # entry[k].failures
        BY <2>0
      <4> QED
        BY <3>1, <3>2, <4>1, <2>0, FailuresOfAnEntry
    <3> QED
      BY <3>2, PruningForgetsTheIdle
  <2>2. ASSUME NEW ks \in KeySets, IsTurnedAway(ks)
        PROVE  Forgiven(k)
    <3>1. entry'[k] # entry[k]
      BY <2>0
    <3> QED
      BY <2>2, <3>1, PruningForgetsTheIdle DEF IsTurnedAway
  <2>3. ASSUME NEW a \in Logins, Queries(a) \/ GetsPermit(a) \/ Verifies(a)
        PROVE  Forgiven(k)
    BY <2>3, <2>0 DEF Queries, GetsPermit, Verifies
  <2>4. ASSUME NEW a \in Logins, Fails(a)
        PROVE  Forgiven(k)
    <3>1. entry'[k] = WithFailure(entry[k]) \/ entry'[k] = entry[k]
      BY <2>4 DEF Fails, Resolves
    <3>2. entry'[k].failures >= entry[k].failures
      BY <3>1, <2>0, FailuresOfAnEntry
    <3> QED
      BY <3>2, <2>0, <3>1, FailuresOfAnEntry
  <2>5. ASSUME NEW a \in Logins, Succeeds(a)
        PROVE  Forgiven(k)
    <3>1. k \in keys[a]
      BY <2>5, <2>0 DEF Succeeds, Resolves
    <3>2. at[a] = "verified" /\ at'[a] = "none"
      BY <2>5 DEF Succeeds, Resolves, LoginTypeOK
    <3> QED
      BY <3>1, <3>2
  <2>6. ASSUME NEW a \in Logins, Errs(a) \/ AttemptIsDropped(a)
        PROVE  Forgiven(k)
    <3>1. entry'[k] = Released(entry[k]) \/ entry'[k] = entry[k]
      BY <2>6 DEF Errs, AttemptIsDropped, Resolves
    <3> QED
      BY <3>1, <2>0, FailuresOfAnEntry
  <2>7. CASE AbandonedCheckEnds
    BY <2>7, <2>0 DEF AbandonedCheckEnds
  <2>8. CASE LoginTick
    <3>1. entry'[k] = Older(entry[k])
      BY <2>8 DEF LoginTick
    <3> QED
      BY <3>1, <2>0, FailuresOfAnEntry
  <2> QED
    BY <2>1, <2>2, <2>3, <2>4, <2>5, <2>6, <2>7, <2>8 DEF LoginNext
<1> QED
  BY <1>1, ThrottleIsTyped, PTL DEF LoginSpec, FailuresAreRemembered

-------------------------------------------------------------------------------
(* Password checks *)

LEMMA CheckingIsFinite ==
  /\ IsFiniteSet(Checking)
  /\ Cardinality(Checking) \in Nat
<1>1. Checking \subseteq Logins
  BY DEF Checking
<1> QED
  BY <1>1, LoginsAssumption, FS_Subset, FS_CardinalityType

(* No more password checks run than there are permits, those included      *)
(* whose request is gone (server.rs, verify_login_password_off_worker).    *)
THEOREM ChecksWithinPermits == LoginSpec => []ChecksAreBounded
<1>1. LoginInit => ChecksAreBounded
  <2> SUFFICES ASSUME LoginInit PROVE ChecksAreBounded
    OBVIOUS
  <2>1. Checking = {} /\ abandoned = 0
    BY DEF LoginInit, Checking
  <2> QED
    BY <2>1, FS_EmptySet, ThrottleAssumption DEF ChecksAreBounded
<1>2. LoginTypeOK /\ ChecksAreBounded /\ [LoginNext]_loginVars => ChecksAreBounded'
  <2> SUFFICES ASSUME LoginTypeOK, ChecksAreBounded, [LoginNext]_loginVars
               PROVE  ChecksAreBounded'
    OBVIOUS
  <2>0. abandoned \in Nat /\ Permits \in Nat
    BY ThrottleAssumption DEF LoginTypeOK
  <2>1. CASE UNCHANGED <<at, abandoned>>
    <3>1. Checking' = Checking
      BY <2>1 DEF Checking
    <3> QED
      BY <2>1, <3>1 DEF ChecksAreBounded
  <2>2. ASSUME NEW a \in Logins, NEW where,
               at' = [at EXCEPT ![a] = where],
               where # "checking", UNCHANGED abandoned
        PROVE  ChecksAreBounded'
    <3>1. Checking' = Checking \ {a}
      BY <2>2 DEF Checking, LoginTypeOK
    <3>2. Cardinality(Checking') <= Cardinality(Checking) /\ Cardinality(Checking') \in Nat
      BY <3>1, CheckingIsFinite, FS_Subset, FS_CardinalityType
    <3> QED
      BY <2>2, <3>2, <2>0, CheckingIsFinite DEF ChecksAreBounded
  <2>3. ASSUME NEW a \in Logins, GetsPermit(a)
        PROVE  ChecksAreBounded'
    <3>1. Checking' = Checking \cup {a} /\ a \notin Checking
      BY <2>3 DEF GetsPermit, Checking, LoginTypeOK
    <3>2. Cardinality(Checking') = Cardinality(Checking) + 1
      BY <3>1, CheckingIsFinite, FS_AddElement
    <3>3. Cardinality(Checking) + abandoned < Permits /\ abandoned' = abandoned
      BY <2>3 DEF GetsPermit, PermitsTaken
    <3> QED
      BY <3>2, <3>3, <2>0, CheckingIsFinite DEF ChecksAreBounded
  <2>4. ASSUME NEW a \in Logins, AttemptIsDropped(a)
        PROVE  ChecksAreBounded'
    <3>1. Checking' = Checking \ {a}
      BY <2>4 DEF AttemptIsDropped, Resolves, Checking, LoginTypeOK
    <3>2. CASE at[a] = "checking"
      <4>1. Cardinality(Checking') = Cardinality(Checking) - 1
        <5>1. a \in Checking
          BY <3>2 DEF Checking
        <5> QED
          BY <3>1, <5>1, CheckingIsFinite, FS_RemoveElement
      <4>2. abandoned' = abandoned + 1
        BY <2>4, <3>2 DEF AttemptIsDropped
      <4> QED
        BY <4>1, <4>2, <2>0, CheckingIsFinite DEF ChecksAreBounded
    <3>3. CASE at[a] # "checking"
      <4>1. Checking' = Checking /\ abandoned' = abandoned
        BY <2>4, <2>0, <3>1, <3>3 DEF AttemptIsDropped, Checking
      <4> QED
        BY <4>1 DEF ChecksAreBounded
    <3> QED
      BY <3>2, <3>3
  <2>5. CASE AbandonedCheckEnds
    <3>1. Checking' = Checking /\ abandoned' = abandoned - 1
      BY <2>5 DEF AbandonedCheckEnds, Checking
    <3> QED
      BY <3>1, <2>0, CheckingIsFinite DEF ChecksAreBounded
  <2>6. ASSUME NEW ks \in KeySets, NEW a \in Logins, Begins(a, ks)
        PROVE  ChecksAreBounded'
    BY <2>6, <2>2 DEF Begins
  <2>7. ASSUME NEW a \in Logins,
               Queries(a) \/ Verifies(a) \/ Fails(a) \/ Succeeds(a) \/ Errs(a)
        PROVE  ChecksAreBounded'
    <3>1. CASE Queries(a)
      BY <3>1, <2>2 DEF Queries
    <3>2. CASE Verifies(a)
      BY <3>2, <2>2 DEF Verifies
    <3>3. CASE Fails(a) \/ Succeeds(a) \/ Errs(a)
      <4>1. at' = [at EXCEPT ![a] = "none"] /\ UNCHANGED abandoned
        BY <3>3 DEF Fails, Succeeds, Errs, Resolves
      <4> QED
        BY <4>1, <2>2
    <3> QED
      BY <2>7, <3>1, <3>2, <3>3
  <2>8. ASSUME NEW ks \in KeySets, IsTurnedAway(ks)
        PROVE  ChecksAreBounded'
    BY <2>8, <2>1 DEF IsTurnedAway
  <2>9. CASE LoginTick
    BY <2>9, <2>1 DEF LoginTick
  <2>10. CASE UNCHANGED loginVars
    BY <2>10, <2>1 DEF loginVars
  <2> QED
    BY <2>3, <2>4, <2>5, <2>6, <2>7, <2>8, <2>9, <2>10 DEF LoginNext
<1> QED
  BY <1>1, <1>2, ThrottleIsTyped, PTL DEF LoginSpec

----------------------------------------------------------------------------
(* The full-access switch and watch tokens *)

\* [remote_access] with full_access as one of the given values.
RemoteAccess(values) ==
  [full_access : values, terminal : BOOLEAN, terminal_insecure : BOOLEAN, fs : BOOLEAN,
   roots : BOOLEAN, fs_insecure : BOOLEAN]

AccessTypeOK ==
  /\ file \in RemoteAccess({"unset", "on", "off"})
  /\ remote_access \in RemoteAccess(BOOLEAN)
  /\ full_access_off \in BOOLEAN /\ up \in BOOLEAN /\ closed \in BOOLEAN
  /\ disabling \in {"no", "written", "stored"}
  /\ requests \in [Slots -> [phase : {"none", "admitted", "running"}, route : Routes, late : BOOLEAN]]

\* The handler of the switch belongs to a running agent, and what it stored
\* stays until that agent is gone.
SwitchIsThere ==
  /\ disabling # "no" => up
  /\ disabling = "stored" => full_access_off

\* While nobody edits the file after the switch has answered, neither it nor
\* the running agent allows anything.
ClosedIsClosed ==
  closed => /\ file.full_access = "off"
            /\ up => full_access_off \/ ~remote_access.full_access

LateRequestsAreHarmless ==
  \A r \in Slots : requests[r].late => requests[r].route \notin FullAccessRoutes

SwitchInv == AccessTypeOK /\ SwitchIsThere /\ ClosedIsClosed /\ LateRequestsAreHarmless

LEMMA ResolvedAsWritten ==
  ASSUME NEW settings \in RemoteAccess({"unset", "on", "off"}), NEW env
  PROVE  /\ resolve(settings, env) \in RemoteAccess(BOOLEAN)
         /\ settings.full_access = "off" => ~resolve(settings, env).full_access
<1> DEFINE full == resolve_full_access(settings.full_access, full_access_from_env(env))
<1>1. full \in BOOLEAN /\ (settings.full_access = "off" => ~full)
  BY AccessAssumption DEF resolve_full_access
<1>2. resolve(settings, env) = [settings EXCEPT !.full_access = full]
  BY DEF resolve
<1>3. ASSUME NEW b \in BOOLEAN
      PROVE  /\ [settings EXCEPT !.full_access = b] \in RemoteAccess(BOOLEAN)
             /\ ~b => ~[settings EXCEPT !.full_access = b].full_access
  BY DEF RemoteAccess
<1>4. /\ [settings EXCEPT !.full_access = full] \in RemoteAccess(BOOLEAN)
      /\ ~full => ~[settings EXCEPT !.full_access = full].full_access
  <2> HIDE DEF full
  <2> QED
    BY <1>1, <1>3, Zenon
<1>5. resolve(settings, env) \in RemoteAccess(BOOLEAN)
  BY <1>2, <1>4, Zenon
<1>6. settings.full_access = "off" => ~resolve(settings, env).full_access
  BY <1>1, <1>2, <1>4
<1> QED
  BY <1>5, <1>6

LEMMA SwitchInitInv == AccessInit => SwitchInv
<1> SUFFICES ASSUME AccessInit PROVE SwitchInv
  OBVIOUS
<1>1. file \in RemoteAccess({"unset", "on", "off"})
  BY AccessAssumption DEF AccessInit, RemoteAccess
<1>2. remote_access \in RemoteAccess(BOOLEAN)
  BY <1>1, ResolvedAsWritten DEF AccessInit
<1>3. NoRequest \in [phase : {"none", "admitted", "running"}, route : Routes, late : BOOLEAN]
      /\ ~NoRequest.late
  BY DEF NoRequest, Routes
<1> QED
  BY <1>1, <1>2, <1>3
     DEF AccessInit, SwitchInv, AccessTypeOK, SwitchIsThere, ClosedIsClosed, LateRequestsAreHarmless

LEMMA SwitchNextInv == SwitchInv /\ [AccessNext]_accessVars => SwitchInv'
<1> SUFFICES ASSUME SwitchInv, [AccessNext]_accessVars PROVE SwitchInv'
  OBVIOUS
<1> USE AccessAssumption
    DEF SwitchInv, AccessTypeOK, SwitchIsThere, ClosedIsClosed, LateRequestsAreHarmless
<1>1. CASE AgentStarts
  <2>1. /\ remote_access' \in RemoteAccess(BOOLEAN)
        /\ file.full_access = "off" => ~remote_access'.full_access
    BY <1>1, ResolvedAsWritten DEF AgentStarts
  <2> QED
    BY <1>1, <2>1 DEF AgentStarts
<1>2. CASE AgentStops
  BY <1>2 DEF AgentStops, tokenVars, NoRequest, Routes, FullAccessRoutes
<1>3. CASE OperatorEdits
  BY <1>3 DEF OperatorEdits, agentVars, RemoteAccess
<1>4. ASSUME NEW r \in Slots, Admits(r) PROVE SwitchInv'
  <2>1. PICK route \in Routes, who \in Bearers, loopback \in BOOLEAN :
          /\ Grants(route, is_secure_transport(loopback))
          /\ requests' = [requests EXCEPT ![r] =
               [phase |-> "admitted", route |-> route, late |-> closed]]
    BY <1>4 DEF Admits
  <2>2. route \in FullAccessRoutes => remote_access.full_access /\ ~full_access_off
    BY <2>1 DEF Grants, full_access_allowed, full_access_available, FullAccessRoutes
  <2> QED
    BY <1>4, <2>1, <2>2 DEF Admits, agentVars, RemoteAccess
<1>5. ASSUME NEW r \in Slots, Runs(r) \/ Answers(r) PROVE SwitchInv'
  <2>1. requests' = [requests EXCEPT ![r].phase = "running"] \/ requests' = [requests EXCEPT ![r] = NoRequest]
    BY <1>5 DEF Runs, Answers
  <2>2. NoRequest.route \notin FullAccessRoutes
        /\ NoRequest \in [phase : {"none", "admitted", "running"}, route : Routes, late : BOOLEAN]
    BY DEF NoRequest, Routes, FullAccessRoutes
  <2>3. requests' \in [Slots -> [phase : {"none", "admitted", "running"}, route : Routes, late : BOOLEAN]]
    BY <2>1, <2>2
  <2>4. LateRequestsAreHarmless'
    BY <2>1, <2>2
  <2> QED
    BY <1>5, <2>3, <2>4 DEF Runs, Answers, agentVars
<1>6. CASE DisableWrites
  BY <1>6 DEF DisableWrites, TurnedOff, agentVars, RemoteAccess
<1>7. CASE DisableStores
  BY <1>7 DEF DisableStores
<1>8. CASE DisableAnswers
  BY <1>8 DEF DisableAnswers, agentVars
<1>9. CASE SecondPasses \/ \E c \in Clients : IssuesWatchToken(c) \/ RevokesWatchToken(c)
  BY <1>9 DEF SecondPasses, IssuesWatchToken, RevokesWatchToken, agentVars
<1>10. CASE UNCHANGED accessVars
  BY <1>10 DEF accessVars, agentVars
<1> QED
  BY <1>1, <1>2, <1>3, <1>4, <1>5, <1>6, <1>7, <1>8, <1>9, <1>10 DEF AccessNext

(* Once the switch has answered that full access is off, no request that needs
   it runs any more, in this agent or in a later one, whatever the
   environment says, until somebody edits the file.                          *)
THEOREM SwitchIsFinal == AccessSpec => []AccessStaysOff
<1>1. SwitchInv => AccessStaysOff
  BY DEF SwitchInv, LateRequestsAreHarmless, AccessStaysOff
<1> QED
  BY SwitchInitInv, SwitchNextInv, <1>1, PTL DEF AccessSpec

-------------------------------------------------------------------------------
\* One row for each client that has a token: the token it was handed last.
TokensOK ==
  /\ watch_tokens \in SUBSET [client : Clients, token : Nat \ {0}, expires_at : Nat]
  /\ tokens_issued \in Nat /\ now \in Nat
  /\ newest \in [Clients -> Nat]

RowsAreNewest ==
  /\ \A row \in watch_tokens : row.token = newest[row.client]
  /\ \A c \in Clients : newest[c] # 0 => \E row \in watch_tokens : row.client = c

TokenInv == TokensOK /\ RowsAreNewest

LEMMA TokenInitInv == AccessInit => TokenInv
  BY DEF AccessInit, TokenInv, TokensOK, RowsAreNewest

LEMMA TokenNextInv == TokenInv /\ [AccessNext]_accessVars => TokenInv'
<1> SUFFICES ASSUME TokenInv, [AccessNext]_accessVars PROVE TokenInv'
  OBVIOUS
<1> USE AccessAssumption DEF TokenInv, TokensOK, RowsAreNewest
<1>1. ASSUME NEW c \in Clients, IssuesWatchToken(c) PROVE TokenInv'
  <2> DEFINE added == [client |-> c, token |-> tokens_issued + 1, expires_at |-> now + Lifetime]
  <2>1. watch_tokens' = ReplacingRow(c) \cup {added} /\ newest' = [newest EXCEPT ![c] = tokens_issued + 1]
    BY <1>1 DEF IssuesWatchToken
  <2>2. TokensOK'
    BY <1>1, <2>1 DEF IssuesWatchToken, ReplacingRow
  <2>3. \A row \in watch_tokens' : row.token = newest'[row.client]
    BY <2>1 DEF ReplacingRow
  <2>4. ASSUME NEW d \in Clients, newest'[d] # 0 PROVE \E row \in watch_tokens' : row.client = d
    <3>1. CASE d = c
      <4>1. added \in watch_tokens' /\ added.client = d
        BY <2>1, <3>1
      <4> QED
        BY <4>1
    <3>2. CASE d # c
      <4>1. PICK row \in watch_tokens : row.client = d
        BY <2>1, <2>4, <3>2
      <4>2. row \in watch_tokens'
        BY <2>1, <3>2, <4>1 DEF ReplacingRow
      <4> QED
        BY <4>1, <4>2
    <3> QED
      BY <3>1, <3>2
  <2> QED
    BY <2>2, <2>3, <2>4
<1>2. ASSUME NEW c \in Clients, RevokesWatchToken(c) PROVE TokenInv'
  BY <1>2 DEF RevokesWatchToken
<1>3. CASE SecondPasses
  BY <1>3 DEF SecondPasses
<1>4. CASE UNCHANGED tokenVars
  BY <1>4 DEF tokenVars
<1>5. ASSUME ~ SecondPasses, ~ \E c \in Clients : IssuesWatchToken(c) \/ RevokesWatchToken(c)
      PROVE  UNCHANGED tokenVars
  BY <1>5 DEF AccessNext, accessVars, tokenVars, AgentStarts, AgentStops, OperatorEdits, Admits,
              Runs, Answers, DisableWrites, DisableStores, DisableAnswers
<1> QED
  BY <1>1, <1>2, <1>3, <1>4, <1>5

(* A watch reads with the token it was handed last and with no other, until
   that one expires, however its requests for tokens are ordered.            *)
THEOREM WatchesReadWithTheirToken == AccessSpec => []NewestTokenReads
<1>1. TokenInv => NewestTokenReads
  BY DEF TokenInv, TokensOK, RowsAreNewest, NewestTokenReads, verify_watch_token
<1> QED
  BY TokenInitInv, TokenNextInv, <1>1, PTL DEF AccessSpec

----------------------------------------------------------------------------
(* Start-up secrets *)

\* Which phases of a start have an effect on the secret file behind them.
Generated == {"closing", "counting", "announcing", "recording", "inserting", "serving", "ended"}

StartTypeOK ==
    /\ agent \in [Agents -> Generated \cup {"unstarted", "generating", "writing"}]
    /\ signs_with \in [Agents -> Agents \cup {NoFile}]
    /\ secret \in [by : Agents \cup {Unreadable}, private : BOOLEAN] \cup {NoFile}
    /\ credentials \in Agents \cup {Unreadable, NoFile}
    /\ admin \in Agents \cup {Chosen, NoFile}
    /\ others \in BOOLEAN

\* One start at a time writes the credentials, and nobody takes them meanwhile.
CredentialsAreExclusive ==
    \A a \in Agents :
        /\ agent[a] = "recording" => credentials = Unreadable
        /\ agent[a] = "inserting" => credentials = a
        /\ agent[a] \in {"recording", "inserting"} =>
             \A b \in Agents \ {a} : agent[b] \notin {"recording", "inserting"}
        /\ admin = a => agent[a] \in {"serving", "ended"}

\* What is being written is not deleted.
SecretStaysThere ==
    \A a \in Agents : agent[a] \in {"writing", "closing"} => secret # NoFile

ServersSign ==
    \A a \in Agents : agent[a] \in Generated \ {"closing", "ended"} => signs_with[a] # NoFile

\* A secret that is whole was written by an agent that is past writing it.
SecretIsWritten ==
    \A a \in Agents : secret # NoFile /\ secret.by = a => agent[a] \in Generated

\* Whoever signs with a secret does so after its author wrote it, and found
\* it closed to others or closed it.
SignersAreLate ==
    \A a \in Agents : signs_with[a] # NoFile =>
        /\ agent[signs_with[a]] \in Generated
        /\ secret # NoFile /\ secret.by = signs_with[a] => secret.private

StartInv ==
    /\ StartTypeOK /\ CredentialsAreExclusive /\ AdminPasswordIsKnown
    /\ SecretStaysThere /\ ServersSign /\ SecretIsWritten /\ SignersAreLate

LEMMA StartInitInv == StartInit => StartInv
  BY StartAssumption
     DEF StartInit, StartInv, StartTypeOK, CredentialsAreExclusive, AdminPasswordIsKnown,
         SecretStaysThere, ServersSign, SecretIsWritten, SignersAreLate, Generated

LEMMA StartNextInv == StartInv /\ [StartNext]_startVars => StartInv'
<1> SUFFICES ASSUME StartInv, [StartNext]_startVars PROVE StartInv'
  OBVIOUS
<1> USE StartAssumption DEF StartInv, StartTypeOK, Generated, AgentAt, Unreadable
<1>1. ASSUME NEW a \in Agents, ResolvesSecret(a) PROVE StartInv'
  <2>1. StartTypeOK'
    BY <1>1 DEF ResolvesSecret, Narrowed, Private, SecretStaysThere
  <2>2. CredentialsAreExclusive'
    BY <1>1 DEF ResolvesSecret, Narrowed, Private, CredentialsAreExclusive
  <2>3. AdminPasswordIsKnown'
    BY <1>1 DEF ResolvesSecret, Narrowed, Private, CredentialsAreExclusive, AdminPasswordIsKnown
  <2>4. SecretStaysThere'
    <3>1. secret # NoFile => secret' \in [by : Agents \cup {Unreadable}, private : BOOLEAN]
      BY <1>1 DEF ResolvesSecret, Narrowed, Private
    <3> QED
      BY <3>1, <1>1 DEF ResolvesSecret, SecretStaysThere
  <2>5. ServersSign'
    BY <1>1 DEF ResolvesSecret, Narrowed, Private, ServersSign
  <2>6. SecretIsWritten'
    BY <1>1 DEF ResolvesSecret, Narrowed, Private, SecretStaysThere, SecretIsWritten
  <2>7. SignersAreLate'
    BY <1>1 DEF ResolvesSecret, Narrowed, Private, SecretStaysThere, SecretIsWritten, SignersAreLate
  <2> QED
    BY <2>1, <2>2, <2>3, <2>4, <2>5, <2>6, <2>7 DEF StartInv
<1>2. ASSUME NEW a \in Agents, TruncatesSecret(a) PROVE StartInv'
  <2>1. StartTypeOK'
    BY <1>2 DEF TruncatesSecret, SecretStaysThere
  <2>2. CredentialsAreExclusive'
    BY <1>2 DEF TruncatesSecret, CredentialsAreExclusive
  <2>3. AdminPasswordIsKnown'
    BY <1>2 DEF TruncatesSecret, CredentialsAreExclusive, AdminPasswordIsKnown
  <2>4. SecretStaysThere'
    <3>1. secret' \in [by : Agents \cup {Unreadable}, private : BOOLEAN]
      BY <1>2 DEF TruncatesSecret
    <3> QED
      BY <3>1 DEF SecretStaysThere
  <2>5. ServersSign'
    BY <1>2 DEF TruncatesSecret, ServersSign
  <2>6. SecretIsWritten'
    BY <1>2 DEF TruncatesSecret, SecretStaysThere, SecretIsWritten
  <2>7. SignersAreLate'
    <3>1. secret'.by = Unreadable /\ signs_with' = signs_with
      BY <1>2 DEF TruncatesSecret
    <3>2. \A b \in Agents : agent[b] \in Generated => agent'[b] \in Generated
      BY <1>2 DEF TruncatesSecret
    <3>3. ASSUME NEW b \in Agents, signs_with[b] # NoFile
          PROVE  signs_with[b] \in Agents /\ agent'[signs_with[b]] \in Generated
      BY <3>2, <3>3 DEF SignersAreLate
    <3> QED
      BY <3>1, <3>3 DEF SignersAreLate
  <2> QED
    BY <2>1, <2>2, <2>3, <2>4, <2>5, <2>6, <2>7 DEF StartInv
<1>3. ASSUME NEW a \in Agents, WritesSecret(a) PROVE StartInv'
  <2>1. StartTypeOK'
    BY <1>3 DEF WritesSecret, SecretStaysThere
  <2>2. CredentialsAreExclusive'
    BY <1>3 DEF WritesSecret, CredentialsAreExclusive
  <2>3. AdminPasswordIsKnown'
    BY <1>3 DEF WritesSecret, CredentialsAreExclusive, AdminPasswordIsKnown
  <2>4. SecretStaysThere'
    BY <1>3 DEF WritesSecret, SecretStaysThere
  <2>5. ServersSign'
    BY <1>3 DEF WritesSecret, ServersSign
  <2>6. SecretIsWritten'
    BY <1>3 DEF WritesSecret, SecretStaysThere, SecretIsWritten
  <2>7. SignersAreLate'
    BY <1>3 DEF WritesSecret, SecretStaysThere, SecretIsWritten, SignersAreLate
  <2> QED
    BY <2>1, <2>2, <2>3, <2>4, <2>5, <2>6, <2>7 DEF StartInv
<1>4. ASSUME NEW a \in Agents, ClosesSecret(a) PROVE StartInv'
  <2>1. StartTypeOK'
    BY <1>4 DEF ClosesSecret, Private, SecretStaysThere
  <2>2. CredentialsAreExclusive'
    BY <1>4 DEF ClosesSecret, Private, CredentialsAreExclusive
  <2>3. AdminPasswordIsKnown'
    BY <1>4 DEF ClosesSecret, Private, CredentialsAreExclusive, AdminPasswordIsKnown
  <2>4. SecretStaysThere'
    BY <1>4 DEF ClosesSecret, Private, SecretStaysThere
  <2>5. ServersSign'
    BY <1>4 DEF ClosesSecret, Private, ServersSign
  <2>6. SecretIsWritten'
    BY <1>4 DEF ClosesSecret, Private, SecretStaysThere, SecretIsWritten
  <2>7. SignersAreLate'
    BY <1>4 DEF ClosesSecret, Private, SecretStaysThere, SecretIsWritten, SignersAreLate
  <2> QED
    BY <2>1, <2>2, <2>3, <2>4, <2>5, <2>6, <2>7 DEF StartInv
<1>5. ASSUME NEW a \in Agents, CountsUsers(a) PROVE StartInv'
  <2>1. StartTypeOK'
    BY <1>5 DEF CountsUsers, NoUsers, SecretStaysThere
  <2>2. CredentialsAreExclusive'
    BY <1>5 DEF CountsUsers, NoUsers, CredentialsAreExclusive
  <2>3. AdminPasswordIsKnown'
    BY <1>5 DEF CountsUsers, NoUsers, CredentialsAreExclusive, AdminPasswordIsKnown
  <2>4. SecretStaysThere'
    BY <1>5 DEF CountsUsers, NoUsers, SecretStaysThere
  <2>5. ServersSign'
    BY <1>5 DEF CountsUsers, NoUsers, ServersSign
  <2>6. SecretIsWritten'
    BY <1>5 DEF CountsUsers, NoUsers, SecretStaysThere, SecretIsWritten
  <2>7. SignersAreLate'
    BY <1>5 DEF CountsUsers, NoUsers, SecretStaysThere, SecretIsWritten, SignersAreLate
  <2> QED
    BY <2>1, <2>2, <2>3, <2>4, <2>5, <2>6, <2>7 DEF StartInv
<1>6. ASSUME NEW a \in Agents, CreatesCredentials(a) PROVE StartInv'
  <2>1. StartTypeOK'
    BY <1>6 DEF CreatesCredentials, Creatable, SecretStaysThere
  <2>2. CredentialsAreExclusive'
    BY <1>6 DEF CreatesCredentials, Creatable, CredentialsAreExclusive
  <2>3. AdminPasswordIsKnown'
    BY <1>6 DEF CreatesCredentials, Creatable, CredentialsAreExclusive, AdminPasswordIsKnown
  <2>4. SecretStaysThere'
    BY <1>6 DEF CreatesCredentials, Creatable, SecretStaysThere
  <2>5. ServersSign'
    BY <1>6 DEF CreatesCredentials, Creatable, ServersSign
  <2>6. SecretIsWritten'
    BY <1>6 DEF CreatesCredentials, Creatable, SecretStaysThere, SecretIsWritten
  <2>7. SignersAreLate'
    BY <1>6 DEF CreatesCredentials, Creatable, SecretStaysThere, SecretIsWritten, SignersAreLate
  <2> QED
    BY <2>1, <2>2, <2>3, <2>4, <2>5, <2>6, <2>7 DEF StartInv
<1>7. ASSUME NEW a \in Agents, WritesCredentials(a) PROVE StartInv'
  <2>1. StartTypeOK'
    BY <1>7 DEF WritesCredentials, SecretStaysThere
  <2>2. CredentialsAreExclusive'
    BY <1>7 DEF WritesCredentials, CredentialsAreExclusive
  <2>3. AdminPasswordIsKnown'
    BY <1>7 DEF WritesCredentials, CredentialsAreExclusive, AdminPasswordIsKnown
  <2>4. SecretStaysThere'
    BY <1>7 DEF WritesCredentials, SecretStaysThere
  <2>5. ServersSign'
    BY <1>7 DEF WritesCredentials, ServersSign
  <2>6. SecretIsWritten'
    BY <1>7 DEF WritesCredentials, SecretStaysThere, SecretIsWritten
  <2>7. SignersAreLate'
    BY <1>7 DEF WritesCredentials, SecretStaysThere, SecretIsWritten, SignersAreLate
  <2> QED
    BY <2>1, <2>2, <2>3, <2>4, <2>5, <2>6, <2>7 DEF StartInv
<1>8. ASSUME NEW a \in Agents, InsertsAdmin(a) PROVE StartInv'
  <2>1. StartTypeOK'
    BY <1>8 DEF InsertsAdmin, SecretStaysThere
  <2>2. CredentialsAreExclusive'
    BY <1>8 DEF InsertsAdmin, CredentialsAreExclusive
  <2>3. AdminPasswordIsKnown'
    BY <1>8 DEF InsertsAdmin, CredentialsAreExclusive, AdminPasswordIsKnown
  <2>4. SecretStaysThere'
    BY <1>8 DEF InsertsAdmin, SecretStaysThere
  <2>5. ServersSign'
    BY <1>8 DEF InsertsAdmin, ServersSign
  <2>6. SecretIsWritten'
    BY <1>8 DEF InsertsAdmin, SecretStaysThere, SecretIsWritten
  <2>7. SignersAreLate'
    BY <1>8 DEF InsertsAdmin, SecretStaysThere, SecretIsWritten, SignersAreLate
  <2> QED
    BY <2>1, <2>2, <2>3, <2>4, <2>5, <2>6, <2>7 DEF StartInv
<1>9. ASSUME NEW a \in Agents, EndsStart(a) PROVE StartInv'
  <2>1. StartTypeOK'
    BY <1>9 DEF EndsStart, SecretStaysThere
  <2>2. CredentialsAreExclusive'
    BY <1>9 DEF EndsStart, CredentialsAreExclusive
  <2>3. AdminPasswordIsKnown'
    BY <1>9 DEF EndsStart, CredentialsAreExclusive, AdminPasswordIsKnown
  <2>4. SecretStaysThere'
    BY <1>9 DEF EndsStart, SecretStaysThere
  <2>5. ServersSign'
    BY <1>9 DEF EndsStart, ServersSign
  <2>6. SecretIsWritten'
    BY <1>9 DEF EndsStart, SecretStaysThere, SecretIsWritten
  <2>7. SignersAreLate'
    BY <1>9 DEF EndsStart, SecretStaysThere, SecretIsWritten, SignersAreLate
  <2> QED
    BY <2>1, <2>2, <2>3, <2>4, <2>5, <2>6, <2>7 DEF StartInv
<1>10. CASE SetsPassword
  <2>1. StartTypeOK'
    BY <1>10 DEF SetsPassword, SecretStaysThere
  <2>2. CredentialsAreExclusive'
    BY <1>10 DEF SetsPassword, CredentialsAreExclusive
  <2>3. AdminPasswordIsKnown'
    BY <1>10 DEF SetsPassword, CredentialsAreExclusive, AdminPasswordIsKnown
  <2>4. SecretStaysThere'
    BY <1>10 DEF SetsPassword, SecretStaysThere
  <2>5. ServersSign'
    BY <1>10 DEF SetsPassword, ServersSign
  <2>6. SecretIsWritten'
    BY <1>10 DEF SetsPassword, SecretStaysThere, SecretIsWritten
  <2>7. SignersAreLate'
    BY <1>10 DEF SetsPassword, SecretStaysThere, SecretIsWritten, SignersAreLate
  <2> QED
    BY <2>1, <2>2, <2>3, <2>4, <2>5, <2>6, <2>7 DEF StartInv
<1>11. CASE TakesCredentials
  <2>1. StartTypeOK'
    BY <1>11 DEF TakesCredentials, Starting, SecretStaysThere
  <2>2. CredentialsAreExclusive'
    BY <1>11 DEF TakesCredentials, Starting, CredentialsAreExclusive
  <2>3. AdminPasswordIsKnown'
    BY <1>11 DEF TakesCredentials, Starting, CredentialsAreExclusive, AdminPasswordIsKnown
  <2>4. SecretStaysThere'
    BY <1>11 DEF TakesCredentials, Starting, SecretStaysThere
  <2>5. ServersSign'
    BY <1>11 DEF TakesCredentials, Starting, ServersSign
  <2>6. SecretIsWritten'
    BY <1>11 DEF TakesCredentials, Starting, SecretStaysThere, SecretIsWritten
  <2>7. SignersAreLate'
    BY <1>11 DEF TakesCredentials, Starting, SecretStaysThere, SecretIsWritten, SignersAreLate
  <2> QED
    BY <2>1, <2>2, <2>3, <2>4, <2>5, <2>6, <2>7 DEF StartInv
<1>12. CASE DeletesSecret
  <2>1. StartTypeOK'
    BY <1>12 DEF DeletesSecret, Starting, SecretStaysThere
  <2>2. CredentialsAreExclusive'
    BY <1>12 DEF DeletesSecret, Starting, CredentialsAreExclusive
  <2>3. AdminPasswordIsKnown'
    BY <1>12 DEF DeletesSecret, Starting, CredentialsAreExclusive, AdminPasswordIsKnown
  <2>4. SecretStaysThere'
    BY <1>12 DEF DeletesSecret, Starting, SecretStaysThere
  <2>5. ServersSign'
    BY <1>12 DEF DeletesSecret, Starting, ServersSign
  <2>6. SecretIsWritten'
    BY <1>12 DEF DeletesSecret, Starting, SecretStaysThere, SecretIsWritten
  <2>7. SignersAreLate'
    BY <1>12 DEF DeletesSecret, Starting, SecretStaysThere, SecretIsWritten, SignersAreLate
  <2> QED
    BY <2>1, <2>2, <2>3, <2>4, <2>5, <2>6, <2>7 DEF StartInv
<1>13. CASE UNCHANGED startVars
  <2>1. StartTypeOK'
    BY <1>13 DEF startVars, SecretStaysThere
  <2>2. CredentialsAreExclusive'
    BY <1>13 DEF startVars, CredentialsAreExclusive
  <2>3. AdminPasswordIsKnown'
    BY <1>13 DEF startVars, CredentialsAreExclusive, AdminPasswordIsKnown
  <2>4. SecretStaysThere'
    BY <1>13 DEF startVars, SecretStaysThere
  <2>5. ServersSign'
    BY <1>13 DEF startVars, ServersSign
  <2>6. SecretIsWritten'
    BY <1>13 DEF startVars, SecretStaysThere, SecretIsWritten
  <2>7. SignersAreLate'
    BY <1>13 DEF startVars, SecretStaysThere, SecretIsWritten, SignersAreLate
  <2> QED
    BY <2>1, <2>2, <2>3, <2>4, <2>5, <2>6, <2>7 DEF StartInv
<1> QED
  BY <1>1, <1>2, <1>3, <1>4, <1>5, <1>6, <1>7, <1>8, <1>9, <1>10, <1>11, <1>12, <1>13 DEF StartNext

(* However starts overlap, fail and are repeated: the administrator's password
   is announced, recorded or chosen, and an agent that serves signs with a
   secret that is whole and closed to others.                                *)
THEOREM SecretsOutliveStarts == StartSpec => []SecretsAreSound
<1>1. StartInv => SecretsAreSound
  BY StartAssumption
     DEF StartInv, StartTypeOK, ServersSign, SignersAreLate, SecretsAreSound, ServedSecretIsPrivate, Generated
<1> QED
  BY StartInitInv, StartNextInv, <1>1, PTL DEF StartSpec
=============================================================================
