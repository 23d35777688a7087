------------------------------- MODULE Upkeep -------------------------------
(***************************************************************************)
(* What the portal does for its database: it migrates an old schema when   *)
(* it starts, and its scheduler adds up the calls of the day before        *)
(* (BAT-CDP-01) and creates partitions of cdp.audit_log for the next two   *)
(* months (BAT-CDP-06). The scheduler keeps its jobs in memory: the hour   *)
(* of a job that comes while the portal is down is not made up for. A job's*)
(* lock (1 h) is over by its next hour, and refuses no run.                *)
(***************************************************************************)
EXTENDS Naturals, FiniteSets

CONSTANTS
  LastDay,         \* bound: the days explored, from the day of the set-up, 0
  MonthOf,         \* MonthOf[d]: the month of day d
  FirstPartitions, \* the months that have a partition from the start
  Paths,           \* the path patterns, of one API and method
  Relative,        \* Relative[p]: what the migration makes of p
  MaxRows,         \* bound: audit rows of a day
  MaxFaults        \* bound: crashes and failed statements

Days    == 0..LastDay
Offsets == {1, 2}
Runs    == {MonthOf[d] : d \in Days} \X Offsets

ASSUME UpkeepAssumption ==
  /\ LastDay \in Nat /\ MaxRows \in Nat /\ MaxFaults \in Nat
  /\ MonthOf \in [Days -> Nat]
  /\ \A d \in Days \ {0} : MonthOf[d] \in {MonthOf[d - 1], MonthOf[d - 1] + 1}
  /\ MonthOf[0] \in FirstPartitions /\ FirstPartitions \subseteq Nat
  /\ Relative \in [Paths -> Paths]
  /\ \A p \in Paths : Relative[Relative[p]] = Relative[p]

VARIABLES
  portal,     \* "down", the stages of a start, or "up"
  tables,     \* which of api_scope and api_endpoint exist
  upstreams,  \* which of api_scope and api_catalog have a column upstream_url
  seeds,      \* the endpoints of the seed APIs, "old" or "new"; "gone" without one of the APIs
  paths,      \* the path patterns of another API's endpoints
  blank,      \* those of them without an upstream
  day,
  due,        \* the jobs whose hour has yet to come today
  offset,     \* the partition BAT-CDP-06 creates next, or 0
  partitions, \* months that have a partition
  strays,     \* months with rows in the DEFAULT partition
  rows,       \* the audit rows of each day
  stats,      \* those of them that usage_stat_daily has counted
  faults,
  missed,     \* history: <<m, o>>, if the run of month m did not get to month m + o
  uncounted,  \* history: days BAT-CDP-01 did not count
  refused,    \* history: the database refused the last start
  raced       \* history: the .sql file was applied between its look and its move

database == <<tables, upstreams, seeds, paths, blank>>
jobs     == <<due, offset, partitions, stats, missed, uncounted>>
audit    == <<strays, rows>>
starts   == <<refused, raced>>
vars     == <<portal, database, day, jobs, audit, faults, starts>>

\* The type invariant; in particular only months after the current one are
\* created, two at most (bat_cdp_06), and no day's statistics exceed its rows' bound.
TypeOK ==
  /\ portal \in {"down", "migrating", "moving", "renaming", "up"}
  /\ tables \subseteq {"api_scope", "api_endpoint"}
  /\ upstreams \subseteq {"api_scope", "api_catalog"}
  /\ seeds \in {"old", "new", "gone"}
  /\ paths \subseteq Paths /\ blank \subseteq paths
  /\ day \in Days
  /\ due \subseteq {"BAT-CDP-01", "BAT-CDP-06"}
  /\ offset \in {0} \cup Offsets
  /\ partitions \subseteq Nat
  /\ strays \subseteq Nat
  /\ rows \in [Days -> 0..MaxRows]
  /\ stats \in [Days -> 0..MaxRows]
  /\ faults \in 0..MaxFaults
  /\ missed \subseteq Runs
  /\ uncounted \subseteq Days
  /\ refused \in BOOLEAN /\ raced \in BOOLEAN

Month == MonthOf[day]
Fault == faults < MaxFaults /\ faults' = faults + 1
Sound == faults' = faults

\* A pattern without the API's public path, which is what the migration leaves.
IsNew(P) == \A p \in P : Relative[p] = p

\* Two patterns that become one break UNIQUE (api_id, http_method, path_pattern).
Collide(P) == \E p, q \in P : p # q /\ Relative[p] = Relative[q]

\* The schema of today, one whose upstreams have moved, or an older one, in
\* which someone may have added or dropped a column, or created the new table.
Init ==
  /\ portal = "down"
  /\ tables \in SUBSET {"api_scope", "api_endpoint"}
  /\ upstreams \in SUBSET {"api_scope", "api_catalog"}
  /\ seeds \in {"old", "new", "gone"}
  /\ paths \in SUBSET Paths /\ blank \in SUBSET paths
  /\ \/ /\ tables = {"api_endpoint"} /\ upstreams = {}
        /\ seeds # "old" /\ IsNew(paths) /\ blank = {}
     \/ /\ "api_scope" \in tables /\ upstreams = {"api_scope"}
        /\ seeds # "old" /\ IsNew(paths) /\ blank = {}
     \/ /\ "api_scope" \in tables /\ upstreams # {"api_scope"}
        /\ seeds # "new"
        /\ "api_scope" \notin upstreams => blank = paths
  /\ day = 0 /\ due = {} /\ offset = 0
  /\ partitions = FirstPartitions /\ strays = {}
  /\ rows = [d \in Days |-> 0] /\ stats = rows
  /\ faults = 0
  /\ missed = {} /\ uncounted = {} /\ refused = FALSE /\ raced = FALSE

-----------------------------------------------------------------------------
(* Startup.                                                                *)

Start ==
  /\ portal = "down"
  /\ portal' = "migrating"
  /\ refused' = FALSE /\ raced' = FALSE
  /\ UNCHANGED <<database, day, jobs, audit, faults>>

\* Mutant of Unmoved: the column of the endpoints is taken for the whole move.
UnmovedIfNoColumn == "api_scope" \in tables /\ "api_scope" \notin upstreams

\* The old table, and not just its own column.
Unmoved == "api_scope" \in tables /\ upstreams # {"api_scope"}

\* run_all looks at the columns before it opens the transaction.
Look ==
  /\ portal = "migrating"
  /\ portal' = IF Unmoved THEN "moving" ELSE "renaming"
  /\ UNCHANGED <<database, day, jobs, audit, faults, starts>>

\* The database refuses: the endpoints of a seed API that is gone, two patterns
\* that become one, and NOT NULL for an endpoint no upstream was found for.
MoveRefused ==
  \/ seeds = "gone"
  \/ "api_catalog" \in upstreams /\ Collide(paths)
  \/ "api_catalog" \notin upstreams /\ blank # {}

\* One transaction: the seed endpoints are replaced, the others' upstreams and
\* patterns derived from the API's, and its column dropped.
MoveUpstreams ==
  /\ Unmoved /\ ~MoveRefused
  /\ upstreams' = {"api_scope"}
  /\ seeds' = "new"
  /\ paths' = IF "api_catalog" \in upstreams THEN {Relative[p] : p \in paths} ELSE paths
  /\ blank' = {}
  /\ UNCHANGED tables

Refuse ==
  /\ portal' = "down" /\ refused' = TRUE
  /\ UNCHANGED <<database, raced>>

\* What was looked at may have changed: ADD COLUMN is then refused, or the
\* UPDATE for the dropped column. Every refusal ends the start.
Migrate ==
  /\ portal = "moving"
  /\ \/ MoveUpstreams /\ portal' = "renaming" /\ UNCHANGED starts
     \/ ~Unmoved /\ Refuse
     \/ Unmoved /\ MoveRefused /\ Refuse
  /\ UNCHANGED <<day, jobs, audit, faults>>

\* The .sql file, one transaction as well, which reads the API's column.
MigrateByHand ==
  /\ "api_catalog" \in upstreams
  /\ MoveUpstreams
  /\ raced' = (raced \/ portal = "moving")
  /\ UNCHANGED <<portal, day, jobs, audit, faults, refused>>

RenameTable ==
  /\ portal' = "up"
  /\ tables' = {"api_endpoint"} /\ upstreams' = upstreams \ {"api_scope"}
  /\ UNCHANGED <<seeds, paths, blank, starts>>

\* Mutant of Rename: the table is renamed without a look.
RenameAlways ==
  /\ portal = "renaming"
  /\ IF tables = {"api_scope"} THEN RenameTable ELSE Refuse
  /\ UNCHANGED <<day, jobs, audit, faults>>

\* The scheduler starts once there is the table of today. One that was created
\* beside the old is in the way.
Rename ==
  /\ portal = "renaming"
  /\ \/ "api_scope" \notin tables /\ portal' = "up" /\ UNCHANGED <<database, starts>>
     \/ tables = {"api_scope"} /\ RenameTable
     \/ "api_scope" \in tables /\ "api_endpoint" \in tables /\ Refuse
  /\ UNCHANGED <<day, jobs, audit, faults>>

\* The process ends, in order or not; what BAT-CDP-06 had still to do is lost.
Stop ==
  /\ portal # "down"
  /\ Fault
  /\ portal' = "down"
  /\ offset' = 0
  /\ missed' = missed \cup {<<Month, o>> : o \in {p \in Offsets : 0 < offset /\ offset <= p}}
  /\ UNCHANGED <<database, day, due, partitions, stats, uncounted, audit, starts>>

-----------------------------------------------------------------------------
(* Rows, and the jobs.                                                     *)

\* occurred_at is the time of the INSERT: a row is one of today.
Record ==
  /\ portal = "up" /\ rows[day] < MaxRows
  /\ rows' = [rows EXCEPT ![day] = @ + 1]
  /\ strays' = IF Month \in partitions THEN strays ELSE strays \cup {Month}
  /\ UNCHANGED <<portal, database, day, jobs, faults, starts>>

\* Mutant of Counted: the calls of the current day.
CountedToday == day

\* The day whose calls a run adds up.
Counted == day - 1

\* 00:05. A run fails as a whole, or does not come about: its one statement,
\* the lock, or the scheduler, which drops a run it is a second late for.
CountCalls ==
  /\ "BAT-CDP-01" \in due
  /\ due' = due \ {"BAT-CDP-01"}
  /\ \/ /\ portal = "up" /\ Sound
        /\ stats' = [stats EXCEPT ![Counted] = rows[Counted]]
        /\ UNCHANGED uncounted
     \/ /\ IF portal = "up" THEN Fault ELSE Sound
        /\ uncounted' = uncounted \cup {day - 1}
        /\ UNCHANGED stats
  /\ UNCHANGED <<portal, database, day, offset, partitions, missed, audit, starts>>

\* 01:00 of the first day of a month.
BeginPartitions ==
  /\ due = {"BAT-CDP-06"}
  /\ due' = {}
  /\ \/ portal = "up" /\ Sound /\ offset' = 1 /\ UNCHANGED missed
     \/ /\ IF portal = "up" THEN Fault ELSE Sound
        /\ missed' = missed \cup ({Month} \X Offsets)
        /\ UNCHANGED offset
  /\ UNCHANGED <<portal, database, day, partitions, stats, uncounted, audit, starts>>

\* Mutant of NextOffset: a failure ends the loop.
NextOffsetIfDone(done) == IF done /\ offset = 1 THEN 2 ELSE 0

\* Mutant of NextOffset: the loop has no end.
NextOffsetEndless(done) == offset + 1

\* A month that failed does not keep the job from the next.
NextOffset(done) == IF offset = 1 THEN 2 ELSE 0

\* CREATE TABLE IF NOT EXISTS ... PARTITION OF is refused for a month with rows
\* in DEFAULT, and may fail.
CreatePartition ==
  /\ portal = "up" /\ offset # 0
  /\ LET m == Month + offset IN
     \/ /\ Sound
        /\ partitions' = IF m \in strays THEN partitions ELSE partitions \cup {m}
        /\ offset' = NextOffset(m \notin strays)
        /\ UNCHANGED missed
     \/ /\ Fault
        /\ missed' = missed \cup {<<Month, offset>>}
        /\ offset' = NextOffset(FALSE)
        /\ UNCHANGED partitions
  /\ UNCHANGED <<portal, database, day, due, stats, uncounted, audit, starts>>

NextDay ==
  /\ day < LastDay /\ due = {} /\ offset = 0
  /\ day' = day + 1
  /\ due' = {"BAT-CDP-01"} \cup (IF MonthOf[day + 1] # Month THEN {"BAT-CDP-06"} ELSE {})
  /\ UNCHANGED <<portal, database, offset, partitions, stats, missed, uncounted, audit,
                 faults, starts>>

Next ==
  \/ Start \/ Look \/ Migrate \/ MigrateByHand \/ Rename \/ Stop
  \/ Record \/ CountCalls \/ BeginPartitions \/ CreatePartition \/ NextDay

Spec == Init /\ [][Next]_vars

-----------------------------------------------------------------------------

\* One missed run is harmless: a month has rows in the DEFAULT partition only
\* if both runs that were to create its partition failed to, or would have been
\* before the set-up. No CREATE is ever refused for such rows (bat_cdp_06).
StraysMissedTwice ==
  \A m \in strays : \A o \in Offsets :
    m <= MonthOf[0] + o \/ <<m - o, o>> \in missed

\* usage_stat_daily has every call of a day that is over (a row of a token, with
\* a status), and once it has been counted no row is added to it, unless the run
\* of the day after was missed or failed: no later run makes up for it, although
\* three retries and an alert are specified (bat_cdp_01).
StatsComplete ==
  \A d \in Days : d < day =>
    \/ stats[d] = rows[d]
    \/ d \in uncounted
    \/ d = day - 1 /\ "BAT-CDP-01" \in due

\* A portal that is up has the schema of today, all of it: wherever crashes, the
\* script or a hand left the columns, no endpoint lacks its upstream, or keeps
\* a pattern with the API's path in it, and the API's own upstream is gone (run_all).
UpIsMigrated ==
  portal = "up" =>
    /\ tables = {"api_endpoint"} /\ upstreams = {}
    /\ seeds # "old" /\ IsNew(paths) /\ blank = {}

\* No migration gets past such a database.
Stuck ==
  /\ "api_scope" \in tables
  /\ "api_endpoint" \in tables \/ (Unmoved /\ MoveRefused)

\* A start that is cut short costs no later one: the database refuses the last
\* start only if no start can succeed, until someone repairs it, or if the
\* script was applied in the middle of it (run_all).
RefusedOnlyIfStuck == refused => Stuck \/ raced
=============================================================================
