----------------------------- MODULE LoginThrottle -----------------------------
(***************************************************************************)
(* Logins and what slows them down: `LoginThrottle` in                     *)
(* src/monitor/src/api/ratelimit.rs, and the `login` handler with its      *)
(* bounded password checks in src/monitor/src/api/server.rs.               *)
(*                                                                         *)
(* A login suspends at the database, at the semaphore and at the check,    *)
(* and may be dropped at each.  last_seen is modelled by its age, counted  *)
(* up to EntryTtl.  A name stands for all its spellings: the throttle      *)
(* folds case, so whether one spelling is an account's is left open.       *)
(***************************************************************************)
EXTENDS Integers, FiniteSets

CONSTANTS
  Addrs,            \* source addresses
  Names,            \* usernames
  Accounts,         \* the names that some account has
  Logins,           \* logins in progress at once
  FreeAttempts,     \* FREE_ATTEMPTS
  BaseDelay,        \* BASE_DELAY
  MaxDelay,         \* MAX_DELAY
  EntryTtl,         \* ENTRY_TTL
  PruneThreshold,   \* PRUNE_THRESHOLD
  Permits,          \* permits of password_check_limit
  MaxCount          \* bound: failures and reservations counted for one key

Keys == Addrs \cup Names

ASSUME NamesAssumption == Accounts \subseteq Names /\ Addrs \cap Names = {}
ASSUME ThrottleAssumption ==
  /\ FreeAttempts \in Nat
  /\ BaseDelay \in Nat
  /\ MaxDelay \in Nat
  /\ EntryTtl \in Nat
  /\ PruneThreshold \in Nat
  /\ Permits \in Nat
  /\ MaxCount \in Nat
ASSUME LoginsAssumption == IsFiniteSet(Logins)

VARIABLES
  entry,        \* the throttle's map
  at,           \* where a login is
  keys,         \* the keys it reserved
  abandoned,    \* password checks that outlived their request
  forgotten     \* keys cleared while others held reservations; history

loginVars == <<entry, at, keys, abandoned, forgotten>>

-------------------------------------------------------------------------------

(* A key the map does not hold.  No entry in it looks like this one:       *)
(* whatever changes an entry leaves one of its counters positive, or       *)
(* removes it.                                                             *)
Absent == [failures |-> 0, in_flight |-> 0, age |-> 0]

AtMostOne(S) == {{}} \cup {{x} : x \in S}

(* keys: the address unless unknown, the name unless empty. *)
KeySets == {i \cup n : i \in AtMostOne(Addrs), n \in AtMostOne(Names)}

InProgress == {a \in Logins : at[a] # "none"}

LoginInit ==
  /\ entry = [k \in Keys |-> Absent]
  /\ at = [a \in Logins |-> "none"]
  /\ keys = [a \in Logins |-> {}]
  /\ abandoned = 0
  /\ forgotten = {}

-------------------------------------------------------------------------------
(* Entries *)

LesserOf(m, n) == IF m < n THEN m ELSE n

(* saturating_sub(1) *)
OneLess(n) == IF n > 0 THEN n - 1 ELSE 0

(* Entry::penalty.  The cap on its exponent takes effect far beyond        *)
(* MaxDelay.                                                               *)
Penalty(e) ==
  LET excess == e.failures + e.in_flight - FreeAttempts
  IN  IF excess <= 0 THEN 0 ELSE LesserOf(BaseDelay * 2^(excess - 1), MaxDelay)

Blocked(e) == Penalty(e) > e.age

Pruned ==
  IF Cardinality({k \in Keys : entry[k] # Absent}) > PruneThreshold
    THEN [k \in Keys |->
            IF entry[k].in_flight > 0 \/ entry[k].age < EntryTtl
              THEN entry[k] ELSE Absent]
    ELSE entry

(* One more attempt; failures long ago no longer count. *)
WithReservation(e) ==
  [failures  |-> IF e.in_flight = 0 /\ e.age >= EntryTtl THEN 0 ELSE e.failures,
   in_flight |-> e.in_flight + 1,
   age       |-> 0]

WithFailure(e) ==
  [failures |-> e.failures + 1, in_flight |-> OneLess(e.in_flight), age |-> 0]

(* Mutant: the last reservation takes the failures with it. *)
DroppingFailures(e) ==
  IF OneLess(e.in_flight) = 0 THEN Absent ELSE [e EXCEPT !.in_flight = OneLess(@)]

(* release_reservation, on one entry *)
Released(e) ==
  IF e.failures = 0 /\ OneLess(e.in_flight) = 0
    THEN Absent
    ELSE [e EXCEPT !.in_flight = OneLess(@)]

-------------------------------------------------------------------------------
(* The login handler *)

(* LoginThrottle::begin admits the login. *)
Begins(a, ks) ==
  /\ at[a] = "none"
  /\ \A k \in ks : ~Blocked(Pruned[k])
  /\ \A k \in ks : entry[k].failures + entry[k].in_flight < MaxCount
  /\ entry' = [k \in Keys |->
                 IF k \in ks THEN WithReservation(Pruned[k]) ELSE Pruned[k]]
  /\ at' = [at EXCEPT ![a] = "querying"]
  /\ keys' = [keys EXCEPT ![a] = ks]
  /\ UNCHANGED <<abandoned, forgotten>>

(* begin turns it away: 429. *)
IsTurnedAway(ks) ==
  /\ \E k \in ks : Blocked(Pruned[k])
  /\ entry' = Pruned
  /\ UNCHANGED <<at, keys, abandoned, forgotten>>

Queries(a) ==
  /\ at[a] = "querying"
  /\ at' = [at EXCEPT ![a] = "waiting"]
  /\ UNCHANGED <<entry, keys, abandoned, forgotten>>

Checking == {a \in Logins : at[a] = "checking"}

PermitsTaken == Cardinality(Checking) + abandoned

GetsPermit(a) ==
  /\ at[a] = "waiting"
  /\ PermitsTaken < Permits
  /\ at' = [at EXCEPT ![a] = "checking"]
  /\ UNCHANGED <<entry, keys, abandoned, forgotten>>

(* The blocking task is over and its permit back. *)
Verifies(a) ==
  /\ at[a] = "checking"
  /\ at' = [at EXCEPT ![a] = "verified"]
  /\ UNCHANGED <<entry, keys, abandoned, forgotten>>

OtherHolders(a, k) == {b \in InProgress \ {a} : k \in keys[b]}

(* The login is over: its reservation is resolved in one way or another. *)
Resolves(a, changed) ==
  /\ entry' = [k \in Keys |-> IF k \in keys[a] THEN changed[k] ELSE entry[k]]
  /\ at' = [at EXCEPT ![a] = "none"]
  /\ keys' = [keys EXCEPT ![a] = {}]

(* Nothing is left to be forgotten of a key without reservations. *)
StillForgotten(a) == {k \in forgotten : OtherHolders(a, k) # {}}

(* record_failure *)
Fails(a) ==
  /\ at[a] = "verified"
  /\ Resolves(a, [k \in Keys |-> WithFailure(entry[k])])
  /\ forgotten' = StillForgotten(a)
  /\ UNCHANGED abandoned

(* record_success: the keys are cleared, reservations of others included. *)
Succeeds(a) ==
  /\ at[a] = "verified"
  /\ keys[a] \cap Accounts # {}
  /\ Resolves(a, [k \in Keys |-> Absent])
  /\ forgotten' = StillForgotten(a) \cup {k \in keys[a] : OtherHolders(a, k) # {}}
  /\ UNCHANGED abandoned

(* The query failed, or the check did: cancel. *)
Errs(a) ==
  /\ at[a] \in {"querying", "verified"}
  /\ Resolves(a, [k \in Keys |-> Released(entry[k])])
  /\ forgotten' = StillForgotten(a)
  /\ UNCHANGED abandoned

(* Mutant: the reservation of a dropped request stays. *)
LeaksReservation(a) ==
  /\ at[a] # "none"
  /\ at' = [at EXCEPT ![a] = "none"]
  /\ keys' = [keys EXCEPT ![a] = {}]
  /\ abandoned' = abandoned + (IF at[a] = "checking" THEN 1 ELSE 0)
  /\ forgotten' = StillForgotten(a)
  /\ UNCHANGED entry

(* The request is dropped: LoginAttempt::drop.  A check under way goes on. *)
AttemptIsDropped(a) ==
  /\ at[a] # "none"
  /\ Resolves(a, [k \in Keys |-> Released(entry[k])])
  /\ abandoned' = abandoned + (IF at[a] = "checking" THEN 1 ELSE 0)
  /\ forgotten' = StillForgotten(a)

AbandonedCheckEnds ==
  /\ abandoned > 0
  /\ abandoned' = abandoned - 1
  /\ UNCHANGED <<entry, at, keys, forgotten>>

Older(e) ==
  IF e = Absent THEN Absent ELSE [e EXCEPT !.age = LesserOf(@ + 1, EntryTtl)]

LoginTick ==
  /\ entry' = [k \in Keys |-> Older(entry[k])]
  /\ UNCHANGED <<at, keys, abandoned, forgotten>>

LoginNext ==
  \/ \E ks \in KeySets :
       \/ \E a \in Logins : Begins(a, ks)
       \/ IsTurnedAway(ks)
  \/ \E a \in Logins :
       \/ Queries(a)
       \/ GetsPermit(a)
       \/ Verifies(a)
       \/ Fails(a)
       \/ Succeeds(a)
       \/ Errs(a)
       \/ AttemptIsDropped(a)
  \/ AbandonedCheckEnds
  \/ LoginTick

LoginSpec == LoginInit /\ [][LoginNext]_loginVars

-------------------------------------------------------------------------------

LoginTypeOK ==
  /\ entry \in [Keys -> [failures : Nat, in_flight : Nat, age : Nat]]
  /\ at \in [Logins -> {"none", "querying", "waiting", "checking", "verified"}]
  /\ keys \in [Logins -> SUBSET Keys]
  /\ abandoned \in Nat
  /\ forgotten \subseteq Keys

PermitHolders(k) == {a \in InProgress : k \in keys[a]}

(* Attempts in flight are counted exactly, so that concurrent guesses      *)
(* cannot all pass the same check and nobody is held up for an attempt     *)
(* that is over.  After a success cleared a key that others had reserved,  *)
(* they may be counted for less, never for more (ratelimit.rs, begin,      *)
(* release_reservation and finish_failure_at).                             *)
ReservationsAreExact ==
  \A k \in Keys :
    /\ entry[k].in_flight <= Cardinality(PermitHolders(k))
    /\ k \notin forgotten => entry[k].in_flight = Cardinality(PermitHolders(k))

(* Failures are forgotten for one of two reasons: a login with that key    *)
(* succeeded, or the key was idle for EntryTtl; requests that end in       *)
(* another way do not wash them off (ratelimit.rs, begin and               *)
(* release_reservation).                                                   *)
FailuresAreRemembered ==
  [][\A k \in Keys :
       entry'[k].failures < entry[k].failures =>
         \/ \E a \in Logins : at[a] = "verified" /\ k \in keys[a] /\ at'[a] = "none"
         \/ entry[k].in_flight = 0 /\ entry[k].age >= EntryTtl]_loginVars

(* No more password checks run at once than there are permits, however     *)
(* many requests are dropped while theirs runs (server.rs,                 *)
(* verify_login_password_off_worker).                                      *)
ChecksAreBounded == Cardinality(Checking) + abandoned <= Permits
=============================================================================
