---------------------------- MODULE UpkeepProofs ----------------------------
(***************************************************************************)
(* What Upkeep promises holds for any calendar, any partitions and path    *)
(* patterns to begin with, and any number of days, rows and failures.      *)
(***************************************************************************)
EXTENDS Upkeep, TLAPS

LEMMA Calendar ==
  /\ \A d \in Days : MonthOf[d] \in Nat
  /\ 0 \in Days /\ Days \subseteq Nat
  /\ \A d \in Days : d < LastDay => /\ d + 1 \in Days
                                    /\ MonthOf[d + 1] \in {MonthOf[d], MonthOf[d] + 1}
  /\ \A d \in Days : d # 0 => d - 1 \in Days
  <1>1. \A d \in Days : d < LastDay => d + 1 \in Days \ {0} /\ (d + 1) - 1 = d
    BY UpkeepAssumption DEF Days
  <1> QED
    BY <1>1, UpkeepAssumption DEF Days

-----------------------------------------------------------------------------
(* The types, the stages of a start and what the migrations leave.         *)

\* With nothing left to move a database is of the new shape throughout; without
\* the new column no endpoint of the old table has an upstream of its own.
Shaped ==
  /\ "api_scope" \notin tables => tables = {"api_endpoint"} /\ upstreams = {}
  /\ "api_scope" \in tables /\ "api_scope" \notin upstreams => blank = paths
  /\ ~Unmoved => seeds # "old" /\ IsNew(paths) /\ blank = {}

\* A portal that moves had something to move when it looked, one that renames has
\* nothing left to, and one that is up has no old table.
Staged ==
  /\ portal = "moving" => Unmoved \/ raced
  /\ portal = "renaming" => ~Unmoved
  /\ portal = "up" => "api_scope" \notin tables

StartInv == Shaped /\ Staged /\ RefusedOnlyIfStuck

\* Jobs are due only after the first day.
DueLater == due # {} => day # 0

TypeInv == TypeOK /\ DueLater /\ StartInv

LEMMA InitTypes == Init => TypeInv
  <1> SUFFICES ASSUME Init PROVE TypeInv
    OBVIOUS
  <1>1. rows \in [Days -> 0..MaxRows] /\ stats \in [Days -> 0..MaxRows] /\ 0 \in 0..MaxFaults
    BY UpkeepAssumption DEF Init
  <1>2. TypeOK
    BY <1>1, Calendar, UpkeepAssumption DEF Init, TypeOK
  <1>3. Shaped
    BY DEF Init, Shaped, Unmoved
  <1> QED
    BY <1>2, <1>3 DEF Init, TypeInv, DueLater, StartInv, Staged, RefusedOnlyIfStuck

\* What the database is does not depend on the portal.
LEMMA SameDatabase ==
  ASSUME UNCHANGED database
  PROVE  (Shaped => Shaped') /\ (Unmoved' <=> Unmoved) /\ (Stuck' <=> Stuck)
  BY DEF database, Shaped, Unmoved, Stuck, MoveRefused, Collide, IsNew

\* What a move does.
LEMMA MoveTyped ==
  ASSUME TypeOK, StartInv, MoveUpstreams
  PROVE  /\ upstreams' = {"api_scope"} /\ seeds' = "new" /\ blank' = {}
         /\ tables' = tables /\ "api_scope" \in tables
         /\ paths' \subseteq Paths /\ IsNew(paths)'
  <1>1. CASE "api_catalog" \in upstreams
    BY <1>1, UpkeepAssumption DEF TypeOK, MoveUpstreams, Unmoved, IsNew
  <1>2. CASE "api_catalog" \notin upstreams
    <2>1. paths = {} /\ paths' = paths
      BY <1>2 DEF TypeOK, StartInv, Shaped, MoveUpstreams, Unmoved, MoveRefused
    <2> QED
      BY <2>1, <1>2 DEF MoveUpstreams, Unmoved, IsNew
  <1> QED
    BY <1>1, <1>2

LEMMA MoveShaped ==
  ASSUME TypeOK, StartInv, MoveUpstreams
  PROVE  /\ Shaped' /\ ~Unmoved' /\ (refused => Stuck' \/ raced)
  <1>1. Shaped' /\ ~Unmoved'
    BY MoveTyped DEF Shaped, Unmoved
  <1>2. Stuck => "api_endpoint" \in tables
    BY DEF Stuck, MoveUpstreams
  <1> QED
    BY <1>1, <1>2, MoveTyped DEF Stuck, StartInv, RefusedOnlyIfStuck

LEMMA StartupTyped ==
  ASSUME TypeOK, StartInv, Start \/ Look \/ Migrate \/ MigrateByHand \/ Rename
  PROVE  TypeOK' /\ StartInv'
  <1> USE DEF database, jobs, audit, starts
  <1>1. CASE Start \/ Look
    <2>1. UNCHANGED <<database, day, jobs, audit, faults>>
      BY <1>1 DEF Start, Look
    <2>2. /\ portal' \in {"migrating", "moving", "renaming"}
          /\ portal' = "moving" => Unmoved
          /\ portal' = "renaming" => ~Unmoved
          /\ refused' \in BOOLEAN /\ raced' \in BOOLEAN
          /\ refused' = FALSE \/ UNCHANGED starts
      BY <1>1 DEF Start, Look, TypeOK
    <2>3. TypeOK'
      BY <2>1, <2>2 DEF TypeOK
    <2>4. StartInv'
      BY <2>1, <2>2, SameDatabase DEF StartInv, Staged, RefusedOnlyIfStuck
    <2> QED
      BY <2>3, <2>4
  <1>2. CASE Migrate
    <2>1. CASE MoveUpstreams /\ portal' = "renaming" /\ UNCHANGED starts
      <3>1. TypeOK'
        BY <1>2, <2>1, MoveTyped DEF Migrate, TypeOK
      <3> QED
        BY <2>1, <3>1, MoveShaped DEF StartInv, Staged, RefusedOnlyIfStuck
    <2>2. CASE ~Unmoved /\ Refuse
      <3>1. raced
        BY <1>2, <2>2 DEF Migrate, StartInv, Staged
      <3> QED
        BY <1>2, <2>2, <3>1 DEF Migrate, Refuse, TypeOK, StartInv, Shaped, Staged,
              RefusedOnlyIfStuck, Unmoved, IsNew
    <2>3. CASE Unmoved /\ MoveRefused /\ Refuse
      BY <1>2, <2>3 DEF Migrate, Refuse, TypeOK, StartInv, Shaped, Staged, RefusedOnlyIfStuck,
            Stuck, Unmoved, MoveRefused, Collide, IsNew
    <2> QED
      BY <1>2, <2>1, <2>2, <2>3 DEF Migrate
  <1>3. CASE MigrateByHand
    <2>1. UNCHANGED <<portal, day, jobs, audit, faults, refused>> /\ MoveUpstreams
          /\ raced' \in BOOLEAN /\ (raced => raced') /\ (portal = "moving" => raced')
      BY <1>3 DEF MigrateByHand, TypeOK
    <2>2. TypeOK'
      BY <2>1, MoveTyped DEF TypeOK
    <2>3. portal # "up"
      BY <2>1 DEF StartInv, Staged, MoveUpstreams, Unmoved
    <2> QED
      BY <2>1, <2>2, <2>3, MoveShaped DEF StartInv, Staged, RefusedOnlyIfStuck
  <1>4. CASE Rename
    <2>1. CASE "api_scope" \notin tables /\ portal' = "up" /\ UNCHANGED <<database, starts>>
      BY <1>4, <2>1 DEF Rename, TypeOK, StartInv, Shaped, Staged, RefusedOnlyIfStuck, Stuck,
            Unmoved, MoveRefused, Collide, IsNew
    <2>2. CASE tables = {"api_scope"} /\ RenameTable
      <3>1. upstreams = {"api_scope"} /\ seeds # "old" /\ IsNew(paths) /\ blank = {}
        BY <1>4, <2>2 DEF Rename, StartInv, Shaped, Staged, Unmoved
      <3>2. refused => raced
        BY <2>2, <3>1 DEF StartInv, RefusedOnlyIfStuck, Stuck, Unmoved
      <3> QED
        BY <1>4, <2>2, <3>1, <3>2 DEF Rename, RenameTable, TypeOK, StartInv, Shaped, Staged,
              RefusedOnlyIfStuck, Unmoved, IsNew
    <2>3. CASE "api_scope" \in tables /\ "api_endpoint" \in tables /\ Refuse
      BY <1>4, <2>3 DEF Rename, Refuse, TypeOK, StartInv, Shaped, Staged, RefusedOnlyIfStuck,
            Stuck, Unmoved, IsNew
    <2> QED
      BY <1>4, <2>1, <2>2, <2>3 DEF Rename
  <1> QED
    BY <1>1, <1>2, <1>3, <1>4

\* Work leaves the schema alone.
LEMMA WorkStarts ==
  ASSUME StartInv, UNCHANGED <<database, starts>>, portal' \in {portal, "down"}
  PROVE  StartInv'
  BY SameDatabase DEF StartInv, Staged, RefusedOnlyIfStuck, database, starts

LEMMA MonthTyped ==
  ASSUME TypeOK
  PROVE  Month \in Nat /\ {Month} \X Offsets \subseteq Runs
  BY Calendar DEF TypeOK, Month, Runs

LEMMA WorkTyped ==
  ASSUME TypeOK, DueLater,
         Stop \/ Record \/ CountCalls \/ BeginPartitions \/ CreatePartition \/ NextDay
  PROVE  /\ TypeOK' /\ DueLater'
         /\ UNCHANGED <<database, starts>> /\ portal' \in {portal, "down"}
  <1> USE DEF TypeOK, DueLater, database, jobs, audit, starts
  <1>0. Fault \/ Sound => faults' \in 0..MaxFaults
    BY UpkeepAssumption DEF Fault, Sound
  <1>1. CASE Stop
    <2>1. missed' \subseteq Runs
      BY <1>1, MonthTyped DEF Stop
    <2> QED
      BY <1>0, <1>1, <2>1 DEF Stop
  <1>2. CASE Record
    <2>1. rows[day] + 1 \in 0..MaxRows
      BY <1>2, UpkeepAssumption DEF Record
    <2>2. rows' \in [Days -> 0..MaxRows]
      BY <1>2, <2>1 DEF Record
    <2>3. strays' \subseteq Nat
      BY <1>2, MonthTyped DEF Record
    <2> QED
      BY <1>2, <2>2, <2>3 DEF Record
  <1>3. CASE CountCalls
    <2>1. Counted \in Days
      BY <1>3, Calendar DEF CountCalls, Counted
    <2>2. stats' \in [Days -> 0..MaxRows] /\ uncounted' \subseteq Days
      BY <1>3, <2>1 DEF CountCalls, Counted
    <2> QED
      BY <1>0, <1>3, <2>2 DEF CountCalls
  <1>4. CASE BeginPartitions
    <2>1. missed' \subseteq Runs /\ offset' \in {0} \cup Offsets
      BY <1>4, MonthTyped DEF BeginPartitions, Offsets
    <2> QED
      BY <1>0, <1>4, <2>1 DEF BeginPartitions
  <1>5. CASE CreatePartition
    <2>1. offset \in Offsets /\ offset' \in {0} \cup Offsets
      BY <1>5 DEF CreatePartition, NextOffset, Offsets
    <2>2. Month + offset \in Nat
      BY <2>1, MonthTyped DEF Offsets
    <2>3. partitions' \subseteq Nat
      BY <1>5, <2>2 DEF CreatePartition
    <2>4. missed' \subseteq missed \cup {<<Month, offset>>} /\ <<Month, offset>> \in Runs
      BY <1>5, <2>1, MonthTyped DEF CreatePartition
    <2> QED
      BY <1>0, <1>5, <2>1, <2>3, <2>4 DEF CreatePartition
  <1>6. CASE NextDay
    BY <1>6, Calendar DEF NextDay
  <1> QED
    BY <1>1, <1>2, <1>3, <1>4, <1>5, <1>6

LEMMA StepTypes == TypeInv /\ [Next]_vars => TypeInv'
  <1> SUFFICES ASSUME TypeInv, [Next]_vars PROVE TypeInv'
    OBVIOUS
  <1>1. CASE Start \/ Look \/ Migrate \/ MigrateByHand \/ Rename
    <2>1. UNCHANGED <<due, day>>
      BY <1>1 DEF Start, Look, Migrate, MigrateByHand, Rename, jobs
    <2> QED
      BY <1>1, <2>1, StartupTyped DEF TypeInv, DueLater
  <1>2. CASE Stop \/ Record \/ CountCalls \/ BeginPartitions \/ CreatePartition \/ NextDay
    BY <1>2, WorkTyped, WorkStarts DEF TypeInv
  <1>3. CASE UNCHANGED vars
    <2>1. TypeOK' /\ DueLater' /\ UNCHANGED <<database, starts, portal>>
      BY <1>3 DEF vars, database, jobs, audit, starts, TypeInv, TypeOK, DueLater
    <2> QED
      BY <2>1, WorkStarts DEF TypeInv
  <1> QED
    BY <1>1, <1>2, <1>3 DEF Next

LEMMA AlwaysTyped == Spec => []TypeInv
  BY InitTypes, StepTypes, PTL DEF Spec

\* The variables keep their types: a run of BAT-CDP-06 reaches two months ahead
\* at most, and what BAT-CDP-01 counts is a day that there was (Upkeep).
THEOREM UpkeepTypes == Spec => []TypeOK
  BY AlwaysTyped, PTL DEF TypeInv

\* Wherever a crash, the script or a hand left the columns, a portal that is up
\* has the whole schema of today (run_all).
THEOREM UpMeansMigrated == Spec => []UpIsMigrated
  <1>1. TypeInv => UpIsMigrated
    BY DEF TypeInv, StartInv, Shaped, Staged, UpIsMigrated, Unmoved
  <1> QED
    BY <1>1, AlwaysTyped, PTL

\* A start cut short costs no later one: the database refuses a start only if no
\* start can succeed, or if the script was applied in the middle of it (run_all).
THEOREM StartsUnlessStuck == Spec => []RefusedOnlyIfStuck
  BY AlwaysTyped, PTL DEF TypeInv, StartInv

-----------------------------------------------------------------------------
(* Partitions.                                                             *)

\* The run of the current month has still to create the partition o months on.
Pending(o) == "BAT-CDP-06" \in due \/ (0 < offset /\ offset <= o)

\* Every run, since the first day, has created each of its partitions, missed
\* it, or will come to it.
RunsDone ==
  \A m \in Nat, o \in Offsets :
    MonthOf[0] < m /\ m <= Month =>
      m + o \in partitions \/ <<m, o>> \in missed \/ (m = Month /\ Pending(o))

\* No month to come has rows, so that no partition is refused.
NoneAhead == \A m \in strays : m <= Month

PartitionInv == TypeInv /\ RunsDone /\ NoneAhead /\ StraysMissedTwice

LEMMA InitPartitions == Init => PartitionInv
  BY InitTypes, Calendar
  DEF Init, PartitionInv, RunsDone, NoneAhead, StraysMissedTwice, Month

\* What has been done or missed stays so.
LEMMA RunsStay ==
  ASSUME PartitionInv,
         UNCHANGED <<day, strays>>,
         partitions \subseteq partitions', missed \subseteq missed',
         \A o \in Offsets :
           Pending(o) => Pending(o)' \/ Month + o \in partitions' \/ <<Month, o>> \in missed'
  PROVE  RunsDone' /\ NoneAhead' /\ StraysMissedTwice'
  BY DEF PartitionInv, RunsDone, NoneAhead, StraysMissedTwice, Month

LEMMA StepPartitions == PartitionInv /\ [Next]_vars => PartitionInv'
  <1> SUFFICES ASSUME PartitionInv, [Next]_vars
               PROVE  RunsDone' /\ NoneAhead' /\ StraysMissedTwice'
    BY StepTypes DEF PartitionInv
  <1>0. TypeOK /\ Month \in Nat
    BY MonthTyped DEF PartitionInv, TypeInv
  <1>1. CASE \/ Start \/ Look \/ Migrate \/ MigrateByHand \/ Rename \/ CountCalls \/ UNCHANGED vars
    <2>1. UNCHANGED <<day, strays, partitions, missed, offset>>
      BY <1>1 DEF Start, Look, Migrate, MigrateByHand, Rename, CountCalls, vars, jobs, audit
    <2>2. "BAT-CDP-06" \in due => "BAT-CDP-06" \in due'
      BY <1>1 DEF Start, Look, Migrate, MigrateByHand, Rename, CountCalls, vars, jobs, audit
    <2> QED
      BY <2>1, <2>2, RunsStay DEF Pending
  <1>2. CASE Stop
    <2>1. \A o \in Offsets : 0 < offset /\ offset <= o => <<Month, o>> \in missed'
      BY <1>2 DEF Stop
    <2> QED
      BY <1>2, <2>1, RunsStay DEF Stop, Pending, audit
  <1>3. CASE Record
    <2>1. UNCHANGED <<day, due, offset, partitions, missed>>
      BY <1>3 DEF Record, jobs
    <2>2. strays' = strays \/ (strays' = strays \cup {Month} /\ Month \notin partitions)
      BY <1>3 DEF Record
    <2>3. ASSUME NEW o \in Offsets, Month \notin partitions, ~(Month <= MonthOf[0] + o)
          PROVE  <<Month - o, o>> \in missed
      <3>1. /\ Month - o \in Nat /\ MonthOf[0] < Month - o
            /\ Month - o < Month /\ (Month - o) + o = Month
        BY <1>0, <2>3, Calendar DEF Offsets
      <3> QED
        BY <1>0, <2>3, <3>1 DEF PartitionInv, RunsDone
    <2> QED
      BY <1>0, <2>1, <2>2, <2>3
      DEF PartitionInv, RunsDone, NoneAhead, StraysMissedTwice, Month, Pending
  <1>4. CASE BeginPartitions
    <2>1. offset' = 1 \/ {Month} \X Offsets \subseteq missed'
      BY <1>4 DEF BeginPartitions
    <2>2. UNCHANGED <<day, strays, partitions>> /\ missed \subseteq missed'
      BY <1>4 DEF BeginPartitions, audit
    <2> QED
      BY <2>1, <2>2, RunsStay DEF Pending, Offsets
  <1>5. CASE CreatePartition
    <2>1. offset \in Offsets /\ due' = due
      BY <1>0, <1>5 DEF CreatePartition, TypeOK
    <2>2. Month + offset \notin strays
      BY <1>0, <2>1 DEF PartitionInv, NoneAhead, TypeOK, Offsets
    <2>3. /\ UNCHANGED <<day, strays>>
          /\ partitions \subseteq partitions' /\ missed \subseteq missed'
          /\ Month + offset \in partitions' \/ <<Month, offset>> \in missed'
          /\ offset' = IF offset = 1 THEN 2 ELSE 0
      BY <1>5, <2>2 DEF CreatePartition, NextOffset, audit
    <2>4. \A o \in Offsets : offset <= o => o = offset \/ (0 < offset' /\ offset' <= o)
      BY <2>1, <2>3 DEF Offsets
    <2> QED
      BY <2>1, <2>3, <2>4, RunsStay DEF Pending
  <1>6. CASE NextDay
    <2>1. /\ UNCHANGED <<partitions, missed, strays>> /\ due = {} /\ offset = 0
          /\ Month' \in {Month, Month + 1}
          /\ Month' # Month => "BAT-CDP-06" \in due'
      BY <1>0, <1>6, Calendar DEF NextDay, Month, TypeOK, audit
    <2> QED
      BY <1>0, <2>1 DEF PartitionInv, RunsDone, NoneAhead, StraysMissedTwice, Pending, TypeOK
  <1> QED
    BY <1>1, <1>2, <1>3, <1>4, <1>5, <1>6 DEF Next

\* A month has rows in the DEFAULT partition only if both runs that were to create
\* its partition missed it, or would have been before the set-up (bat_cdp_06).
THEOREM OneMissIsHarmless == Spec => []StraysMissedTwice
  BY InitPartitions, StepPartitions, PTL DEF Spec, PartitionInv

-----------------------------------------------------------------------------
(* Statistics.                                                             *)

LEMMA StepStats == TypeInv /\ StatsComplete /\ [Next]_vars => StatsComplete'
  <1> SUFFICES ASSUME TypeInv, StatsComplete, [Next]_vars, NEW d \in Days, d < day'
               PROVE  \/ stats'[d] = rows'[d]
                      \/ d \in uncounted'
                      \/ d = day' - 1 /\ "BAT-CDP-01" \in due'
    BY DEF StatsComplete
  <1>0. day \in Days /\ day \in Nat /\ d \in Nat
    BY Calendar DEF TypeInv, TypeOK
  <1>1. CASE Record
    <2>1. d # day
      BY <1>0, <1>1 DEF Record
    <2> QED
      BY <1>0, <1>1, <2>1 DEF Record, jobs, StatsComplete, TypeInv, TypeOK
  <1>2. CASE CountCalls
    BY <1>0, <1>2 DEF CountCalls, Counted, audit, StatsComplete, TypeInv, TypeOK
  <1>3. CASE NextDay
    <2>1. day' = day + 1 /\ due = {} /\ "BAT-CDP-01" \in due'
      BY <1>3 DEF NextDay
    <2>2. UNCHANGED <<stats, rows, uncounted>>
      BY <1>3 DEF NextDay, audit
    <2>3. CASE d = day
      BY <1>0, <2>1, <2>3
    <2>4. CASE d # day
      BY <1>0, <2>1, <2>2, <2>4 DEF StatsComplete
    <2> QED
      BY <2>3, <2>4
  <1>4. CASE BeginPartitions
    BY <1>4 DEF BeginPartitions, audit, StatsComplete
  <1>5. CASE \/ Start \/ Look \/ Migrate \/ MigrateByHand \/ Rename \/ Stop \/ CreatePartition
             \/ UNCHANGED vars
    BY <1>5 DEF Start, Look, Migrate, MigrateByHand, Rename, Stop, CreatePartition, vars, jobs,
                audit, StatsComplete
  <1> QED
    BY <1>1, <1>2, <1>3, <1>4, <1>5 DEF Next

\* usage_stat_daily has all calls of every day that is over, unless the run of the
\* day after was missed, failed or is to come (bat_cdp_01).
THEOREM DaysAreCounted == Spec => []StatsComplete
  <1>1. Init => StatsComplete
    BY Calendar DEF Init, StatsComplete
  <1> QED
    BY <1>1, AlwaysTyped, StepStats, PTL DEF Spec
=============================================================================
