------------------------------ MODULE Retention ------------------------------
(***************************************************************************)
(* The cleanup of the agent's database, src/monitor/src/db/cleanup.rs,     *)
(* statement by statement beside those who insert: rows past their days,   *)
(* then the oldest rows of every table until the file fits its cap.  Rows  *)
(* carry the hour they were written; a day has HoursPerDay of them.        *)
(***************************************************************************)
EXTENDS Integers, Sequences, FiniteSets, SequencesExt

CONSTANTS
    Tables,         \* SIZE_CAPPED_TABLES, in the order they are trimmed
    Iso,            \* those whose rows are stamped by the agent, not by SQLite
    Floors,         \* the audit tables, of which MinAudit rows are kept
    Days,           \* how long rows are kept: of the configuration or the policy
    HoursPerDay,
    MinAudit,       \* MIN_AUDIT_ROWS
    PageRows,       \* rows of one table that share a page
    MaxPages,       \* max_db_size_mb, 0 for no cap
    MaxHour, MaxRows \* bound the clock and the rows ever written

Names == ToSet(Tables)

ASSUME RetentionAssumption ==
    /\ Tables \in Seq(Names) \ {<<>>}
    /\ Days \in [Names -> Nat] /\ HoursPerDay \in Nat \ {0}
    /\ MinAudit \in Nat /\ PageRows \in Nat \ {0} /\ MaxPages \in Nat

VARIABLES
    hour,
    rows,           \* per table, the hours of its rows, oldest first
    rowsWritten,    \* their number, ever
    cleaning,       \* step of the cleanup under way
    table_at,       \* the table it is at
    round,          \* rows deleted in this round
    undisturbed     \* history: nobody inserted during this round

retentionVars == <<hour, rows, rowsWritten, cleaning, table_at, round, undisturbed>>

RetentionInit ==
    /\ hour = 0 /\ rows = [t \in Names |-> <<>>] /\ rowsWritten = 0
    /\ cleaning = "idle" /\ table_at = 1 /\ round = 0 /\ undisturbed = TRUE

-----------------------------------------------------------------------------
(* The database.                                                           *)

\* live_db_bytes: pages in use, whether or not the file was compacted.
Pages(n) == (n + PageRows - 1) \div PageRows
LivePages == FoldSet(LAMBDA t, sum : sum + Pages(Len(rows[t])), 0, Names)
Fits == LivePages <= MaxPages

Day(h) == h \div HoursPerDay
Cutoff(t) == hour - Days[t] * HoursPerDay

\* The cutoff is text with a T between day and hour. Rows stamped by SQLite have a blank
\* there, which sorts before it: on the day of the cutoff every one of them is older.
Expired(t, h) ==
    IF t \in Iso THEN h < Cutoff(t) ELSE Cutoff(t) >= 0 /\ Day(h) <= Day(Cutoff(t))

\* trim_oldest: a tenth and one more, but never below the floor.
Floor(t) == IF t \in Floors THEN MinAudit ELSE 0
Trimmed(t) ==
    LET n == Len(rows[t])
        spare == IF n > Floor(t) THEN n - Floor(t) ELSE 0
    IN  IF n \div 10 + 1 < spare THEN n \div 10 + 1 ELSE spare

-----------------------------------------------------------------------------
(* Rows are written by the monitoring loop and by every audited request,   *)
(* until there were MaxRows of them.                                       *)

AddsRow(t) ==
    /\ rowsWritten < MaxRows
    /\ rows' = [rows EXCEPT ![t] = Append(@, hour)]
    /\ rowsWritten' = rowsWritten + 1
    /\ undisturbed' = FALSE
    /\ UNCHANGED <<hour, cleaning, table_at, round>>

HourPasses ==
    /\ hour < MaxHour
    /\ hour' = hour + 1
    /\ UNCHANGED <<rows, rowsWritten, cleaning, table_at, round, undisturbed>>

-----------------------------------------------------------------------------
(* The scheduler runs a cleanup; the next one waits until it is over.      *)

StartsCleanup ==
    /\ cleaning = "idle"
    /\ cleaning' = "expiring" /\ table_at' = 1
    /\ UNCHANGED <<hour, rows, rowsWritten, round, undisturbed>>

\* What is left of a table when its first n rows go.
Without(t, n) == [rows EXCEPT ![t] = SubSeq(@, n + 1, Len(@))]

Old(t) == {i \in DOMAIN rows[t] : Expired(t, rows[t][i])}

\* cleanup_old_metrics, cleanup_old_alerts and the policies: one DELETE for each table.
\* Rows are in the order they were written, so the old ones are the first.
Expires ==
    /\ cleaning = "expiring"
    /\ LET t == Tables[table_at] IN rows' = Without(t, Cardinality(Old(t)))
    /\ IF table_at < Len(Tables)
       THEN table_at' = table_at + 1 /\ UNCHANGED cleaning
       ELSE table_at' = 1 /\ cleaning' = IF MaxPages = 0 THEN "idle" ELSE "measuring"
    /\ UNCHANGED <<hour, rowsWritten, round, undisturbed>>

\* The top of the loop of enforce_db_size_limit.
Measures ==
    /\ cleaning = "measuring"
    /\ cleaning' = IF Fits THEN "idle" ELSE "trimming"
    /\ table_at' = 1 /\ round' = 0 /\ undisturbed' = TRUE
    /\ UNCHANGED <<hour, rows, rowsWritten>>

Trims ==
    /\ cleaning = "trimming"
    /\ LET t == Tables[table_at] IN
        /\ rows' = Without(t, Trimmed(t))
        /\ round' = round + Trimmed(t)
    /\ cleaning' = "checking"
    /\ UNCHANGED <<hour, rowsWritten, table_at, undisturbed>>

\* Mutant: a round that deleted no more rows than there are tables is the last.
FewAreNone(n) == n <= Len(Tables)

\* Mutant: rounds go on although nothing is left to delete.
GoesOn(n) == FALSE

NothingLeft(n) == n = 0

\* After each table, whether the file fits; after the last, whether to go on.
ChecksSize ==
    /\ cleaning = "checking"
    /\ IF ~Fits /\ table_at < Len(Tables)
       THEN table_at' = table_at + 1 /\ cleaning' = "trimming"
       ELSE table_at' = 1 /\ cleaning' = IF NothingLeft(round) THEN "idle" ELSE "measuring"
    /\ UNCHANGED <<hour, rows, rowsWritten, round, undisturbed>>

CleanupNext == StartsCleanup \/ Expires \/ Measures \/ Trims \/ ChecksSize

RetentionNext ==
    \/ \E t \in Names : AddsRow(t)
    \/ HourPasses
    \/ CleanupNext

\* A cleanup under way goes on.
RetentionFairness == WF_retentionVars(CleanupNext /\ cleaning # "idle")

RetentionSpec == RetentionInit /\ [][RetentionNext]_retentionVars /\ RetentionFairness

-----------------------------------------------------------------------------
(* Properties.                                                             *)

\* A cleanup that ends while nobody writes leaves a file that fits, or one where nothing
\* is left but what is kept for audits - however few rows each round could delete.
CapIsMet ==
    [][cleaning = "checking" /\ cleaning' = "idle" /\ undisturbed
        => Fits \/ \A t \in Names : Len(rows[t]) <= Floor(t)]_retentionVars

\* A cleanup ends, although tables at their floor keep the file above the cap and rows
\* are inserted while it deletes - MaxRows of them at most: against inserters who put
\* back in every round what the round before deleted, cleanup.rs has no bound.
CleanupEnds == cleaning # "idle" ~> cleaning = "idle"

\* cleanup.rs:169, rows are deleted for being "older than {} days": a row that leaves
\* before a table is trimmed is past its days.
RowsKeepTheirDays ==
    [][cleaning = "expiring" =>
        \A t \in Names : \A h \in ToSet(rows[t]) \ ToSet(rows'[t]) : h < Cutoff(t)]_retentionVars
=============================================================================
