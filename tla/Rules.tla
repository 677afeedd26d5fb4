---------------------------------- MODULE Rules ----------------------------------
(***************************************************************************)
(* The rules that raise alerts: how a threshold is read                    *)
(* (src/monitor/src/monitoring/threshold.rs, size.rs), which thresholds    *)
(* the settings page may save (validate_threshold_format, update_settings  *)
(* in api/server.rs), and how a rule is judged against the readings of a   *)
(* cycle (rules.rs).                                                       *)
(*                                                                         *)
(* A threshold is [op, number, unit, per_second]: what precedes the        *)
(* number, the number, the characters after it as a sequence of            *)
(* [letter, upper], and whether "/s" ends it.  The agent judges the rules  *)
(* it read when it started.                                                *)
(***************************************************************************)
EXTENDS Naturals, Sequences, SequencesExt

CONSTANTS
  RuleLists,   \* sets of rules the file may hold: [type, matcher, core, threshold]
  Readings,    \* what a cycle may sample: [cpu, cores, memory, swap, disk,
               \* rx, tx, temperature]; speeds come from the velocity manager
  KILO,        \* size.rs: the base of the units
  NoReading    \* Rust's None

Optional == Nat \cup {NoReading}
Thresholds == [op : STRING, number : Nat, unit : Seq([letter : STRING, upper : BOOLEAN]),
               per_second : BOOLEAN]

ASSUME RulesAssumption ==
  /\ KILO \in Nat /\ NoReading \notin Nat
  /\ RuleLists \subseteq SUBSET [type : STRING, matcher : STRING, core : Nat, threshold : Thresholds]
  /\ Readings \subseteq [cpu : Nat, cores : Seq(Optional), memory : 0 .. 100, swap : 0 .. 100,
                        disk : Nat, rx : Optional, tx : Optional, temperature : Optional]

VARIABLES
  saved,    \* the rules of config.toml
  rules,    \* the rules of the running agent's configuration
  readings  \* SystemMetrics, and the velocity manager's speeds

rulesVars == <<saved, rules, readings>>

-------------------------------------------------------------------------------
(* Reading a threshold *)

Letters(t) == [i \in DOMAIN t.unit |-> t.unit[i].letter]
Ends(t, letter) == ~t.per_second /\ t.unit # <<>> /\ Last(Letters(t)) = letter
Has(t, letter) == letter \in ToSet(Letters(t))

SUFFIXES == <<"b", "k", "m", "g", "t">>
SCALES == <<1, KILO, KILO * KILO, KILO * KILO * KILO, KILO * KILO * KILO * KILO>>

(* The type is decided in this order, whatever else the text holds. *)
ThresholdTypeOf(t) ==
  IF Has(t, "%") THEN "Percent"
  ELSE IF t.per_second THEN "Speed"
  ELSE IF \E i \in DOMAIN SUFFIXES : Ends(t, SUFFIXES[i]) THEN "Size"
  ELSE IF Ends(t, "c") THEN "Temperature" ELSE "invalid"

(* Mutant: the operator is one character long. *)
FirstCharacter(op) ==
  IF op \in {"<", "<="} THEN "Less" ELSE IF op \in {">", ">="} THEN "Greater" ELSE "Equal"

CompareTypeOf(op) ==
  CASE op = "<=" -> "LessOrEqual"
    [] op = ">=" -> "GreaterOrEqual"
    [] op = ">" -> "Greater"
    [] op \in {"=", "=="} -> "Equal"
    [] OTHER -> "Less"

(* What is left of the operator goes to the number, which then is none. *)
OperatorIsRead(op) == op \notin {"==", "!="}

(* Size::parse: the first suffix in the order b, k, m, g, t that occurs     *)
(* anywhere; all its occurrences go, and a number has to remain.            *)
SizeOf(t) ==
  LET found == {i \in DOMAIN SUFFIXES : Has(t, SUFFIXES[i])}
      nth == CHOOSE i \in found : \A j \in found : i <= j
  IN IF found = {} THEN IF t.unit = <<>> /\ t.number = 0 THEN 0 ELSE NoReading
     ELSE IF ToSet(Letters(t)) # {SUFFIXES[nth]} THEN NoReading
     ELSE t.number * SCALES[nth]

ValueOf(t) ==
  IF ~OperatorIsRead(t.op) THEN NoReading
  ELSE IF ThresholdTypeOf(t) \in {"Speed", "Size"} THEN SizeOf(t)
  ELSE IF Len(t.unit) = 1 /\ ~t.per_second THEN t.number ELSE NoReading

Parses(t) == ThresholdTypeOf(t) # "invalid" /\ ValueOf(t) # NoReading

is_true(t, now) ==
  CASE CompareTypeOf(t.op) = "Less" -> now < ValueOf(t)
    [] CompareTypeOf(t.op) = "LessOrEqual" -> now <= ValueOf(t)
    [] CompareTypeOf(t.op) = "Equal" -> now = ValueOf(t)
    [] CompareTypeOf(t.op) = "GreaterOrEqual" -> now >= ValueOf(t)
    [] CompareTypeOf(t.op) = "Greater" -> now > ValueOf(t)

(* A comparison, digits, any of %KMGTB (upper case), and /s if at all.     *)
validate_threshold_format(t) ==
  /\ t.op \in {">=", "<=", ">", "<", "==", "!="}
  /\ \A i \in DOMAIN t.unit :
       \/ t.unit[i].letter = "%"
       \/ t.unit[i].upper /\ t.unit[i].letter \in ToSet(SUFFIXES)

-------------------------------------------------------------------------------
(* Judging a rule *)

should_trigger(t, types, now) == Parses(t) /\ ThresholdTypeOf(t) \in types /\ is_true(t, now)
should_trigger_alert(t, now) == should_trigger(t, {"Percent", "Temperature"}, now)
should_trigger_speed_alert(t, now) == should_trigger(t, {"Speed", "Size"}, now)

check_cpu_rule(r) ==
  \/ /\ r.matcher \in {"cpu", ""}
     /\ should_trigger_alert(r.threshold, readings.cpu)
  \/ /\ r.matcher = "cpuN"
     /\ r.core + 1 \in DOMAIN readings.cores
     /\ readings.cores[r.core + 1] # NoReading
     /\ should_trigger_alert(r.threshold, readings.cores[r.core + 1])

(* Memory and swap. What is available counts as free. *)
CountsFree(r) == r.matcher = "free" \/ (r.matcher = "avail" /\ r.type = "memory")

check_share_rule(r, used) ==
  \/ r.matcher \in {"used", r.type, ""} /\ should_trigger_alert(r.threshold, used)
  \/ CountsFree(r) /\ should_trigger_alert(r.threshold, 100 - used)

(* A speed that is not known counts as 0. *)
KnownSpeed(speed) == IF speed = NoReading THEN 0 ELSE speed

check_network_rule(r) ==
  should_trigger_speed_alert(r.threshold,
    CASE r.matcher \in {"rx", "in"} -> KnownSpeed(readings.rx)
      [] r.matcher \in {"tx", "out"} -> KnownSpeed(readings.tx)
      [] OTHER -> KnownSpeed(readings.rx) + KnownSpeed(readings.tx))

check_temperature_rule(r) ==
  readings.temperature # NoReading /\ should_trigger_alert(r.threshold, readings.temperature)

(* A rule of another type alerts nobody. *)
check_enhanced_rule(r) ==
  CASE r.type = "cpu" -> check_cpu_rule(r)
    [] r.type = "memory" -> check_share_rule(r, readings.memory)
    [] r.type = "swap" -> check_share_rule(r, readings.swap)
    [] r.type = "disk" -> should_trigger_alert(r.threshold, readings.disk)
    [] r.type = "network" -> check_network_rule(r)
    [] r.type \in {"temperature", "temp"} -> check_temperature_rule(r)
    [] OTHER -> FALSE

-------------------------------------------------------------------------------
RulesInit ==
  /\ saved = {}
  /\ rules = {}
  /\ readings \in Readings

(* update_settings: one threshold that does not match refuses them all. *)
PutsSettings ==
  /\ saved' \in {s \in RuleLists : \A r \in s : validate_threshold_format(r.threshold)}
  /\ UNCHANGED <<rules, readings>>

(* The operator writes the file, which nobody validates. *)
OperatorWrites ==
  /\ saved' \in RuleLists
  /\ UNCHANGED <<rules, readings>>

Restarts ==
  /\ rules' = saved
  /\ UNCHANGED <<saved, readings>>

(* A cycle samples; check_rules_with_velocity then judges every rule. *)
Samples ==
  /\ readings' \in Readings
  /\ UNCHANGED <<saved, rules>>

alerts == {r \in rules : check_enhanced_rule(r)}

RulesNext ==
  \/ PutsSettings
  \/ OperatorWrites
  \/ Restarts
  \/ Samples

RulesSpec == RulesInit /\ [][RulesNext]_rulesVars

-------------------------------------------------------------------------------
(* Properties *)

(* The forms of the settings page's help. *)
Helped(t) ==
  /\ t.op \in {"<", "<=", "=", ">=", ">"}
  /\ Len(t.unit) = 1
  /\ t.unit[1].letter \in ToSet(SUFFIXES) \/ (t.unit[1].letter \in {"%", "c"} /\ ~t.per_second)

(* What such a threshold says of a number. *)
Says(t, now) ==
  LET letter == t.unit[1].letter
      bound == t.number * (CASE letter = "k" -> KILO
                             [] letter = "m" -> KILO * KILO
                             [] letter = "g" -> KILO * KILO * KILO
                             [] letter = "t" -> KILO * KILO * KILO * KILO
                             [] OTHER -> 1)
  IN \/ t.op \in {"<", "<="} /\ now < bound
     \/ t.op \in {">", ">="} /\ now > bound
     \/ t.op \in {"<=", "=", ">="} /\ now = bound

(* The readings a rule is about, none when its matcher is none of its type's. *)
Judged(r) ==
  CASE r.type = "cpu" -> IF r.matcher = "cpuN"
                         THEN {readings.cores[i] : i \in {r.core + 1} \cap DOMAIN readings.cores}
                         ELSE {x \in {readings.cpu} : r.matcher \in {"cpu", ""}}
    [] r.type \in {"memory", "swap"} ->
         IF CountsFree(r) THEN {100 - readings[r.type]}
         ELSE {x \in {readings[r.type]} : r.matcher \in {"used", r.type, ""}}
    [] r.type = "disk" -> {readings.disk}
    [] r.type = "network" ->
         IF r.matcher \in {"rx", "in"} THEN {readings.rx}
         ELSE IF r.matcher \in {"tx", "out"} THEN {readings.tx}
         ELSE {IF readings.rx = NoReading \/ readings.tx = NoReading THEN NoReading
               ELSE readings.rx + readings.tx}
    [] r.type \in {"temperature", "temp"} -> {readings.temperature}
    [] OTHER -> {}

(* A rule of a form the help gives, with a unit that fits its reading,     *)
(* alerts when the number it is about is there and the threshold says so,  *)
(* and only then; a network speed that is not known is left open           *)
(* (Threshold::parse, Size::parse, check_enhanced_rule).                   *)
AlertsAreTrue ==
  \A r \in rules :
    LET t == r.threshold
    IN /\ Helped(t)
       /\ (r.type = "network") = (t.unit[1].letter \in ToSet(SUFFIXES))
       /\ r.type = "network" => NoReading \notin Judged(r)
       => (r \in alerts <=> \E now \in Judged(r) \ {NoReading} : Says(t, now))
=============================================================================
