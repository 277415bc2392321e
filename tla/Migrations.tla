----------------------------- MODULE Migrations -----------------------------
(***************************************************************************)
(* bss-init brings the tables of Postgres to a migration step.  It may be  *)
(* stopped at any statement and run again, and two of it may run at once.  *)
(* golang-migrate, which is external, keeps a version and a dirty flag in  *)
(* schema_migrations, marks the version dirty before each SQL file and     *)
(* clean after it, and holds an advisory lock meanwhile.  The SQL files    *)
(* are those of migrations/postgres: each is one transaction.              *)
(***************************************************************************)
EXTENDS Integers

CONSTANTS
  Job,          \* as many of bss-init as may run at once
  Options,      \* how it may be called: fresh, force (-1 for none), step
  SchemaSteps,  \* SCHEMA_STEPS, the step that bss-init goes to by default
  RetryCount,   \* attempts at a connection
  MaxRuns,      \* bound: runs of bss-init
  MaxStops      \* bound: runs that are stopped or have a statement fail

Nil == -1       \* migrate's NilVersion: no row in schema_migrations
Last == 3       \* migrations there are files for
Version == Nil .. Last
Option == [fresh : BOOLEAN, force : Int, step : 0 .. Last]

ASSUME OptionAssumption == Options \subseteq Option /\ SchemaSteps \in 0 .. Last
ASSUME BoundAssumption == RetryCount \in Nat /\ MaxRuns \in Nat /\ MaxStops \in Nat
ASSUME FreeLockAssumption == "free" \notin Job

VARIABLES
  db,      \* schema_migrations: version and dirty
  tables,  \* the tables there are
  data,    \* the tables that BSS has put rows in
  lock,    \* migrate's advisory lock
  forced,  \* history: a version was set with Force
  job,     \* the runs there are, or the last ones
  runs, stops

dbVars == <<db, tables, data, forced>>
vars == <<dbVars, lock, job, runs, stops>>

-----------------------------------------------------------------------------
(* What the SQL file of step s creates, and drops on the way down.         *)
Creates(s) ==
  CASE s = 1 -> {}
    [] s = 2 -> {"nodes", "boot_group_assignments", "boot_groups", "boot_configs"}
    [] s = 3 -> {"endpoint_access"}
    [] OTHER -> {}
(* Mutant: a down file forgets a table.                                    *)
DropsMost(s) == Creates(s) \ {"boot_groups"}

Drops(s) == Creates(s)
Table == UNION {Creates(s) : s \in 1 .. Last}
TablesAt(v) == UNION {Creates(s) : s \in 1 .. v}

Idle == [pc |-> "idle", opt |-> [fresh |-> FALSE, force |-> -1, step |-> 0],
         tries |-> 0, seen |-> Nil, op |-> "none", target |-> Nil, file |-> 1, up |-> TRUE,
         alone |-> FALSE]
Ended == {"ok", "failed"}
Running(j) == job[j].pc \notin Ended \union {"idle"}

Init ==
  /\ db = [version |-> Nil, dirty |-> FALSE]
  /\ tables = {} /\ data = {}
  /\ lock = "free" /\ forced = FALSE
  /\ job = [j \in Job |-> Idle]
  /\ runs = 0 /\ stops = 0

To(j, pc) == job' = [job EXCEPT ![j].pc = pc]
End(j, pc) == job' = [job EXCEPT ![j] = [Idle EXCEPT !.pc = pc]]

-----------------------------------------------------------------------------
(* parseEnvVars, parseCmdLine and the check of the step to force.  alone   *)
(* is history: no other run has been at work since this one began.         *)
Launch(j) ==
  /\ ~Running(j) /\ runs < MaxRuns /\ runs' = runs + 1
  /\ \E o \in Options :
       job' = [i \in Job |->
         IF i = j
         THEN [Idle EXCEPT !.opt = o, !.alone = \A k \in Job : ~Running(k),
                           !.pc = IF o.force \in -1 .. SchemaSteps THEN "connect" ELSE "failed"]
         ELSE [job[i] EXCEPT !.alone = FALSE]]
  /\ UNCHANGED <<dbVars, lock, stops>>

AfterDown(o) == IF o.force >= 0 THEN "force" ELSE "read"
AfterConnect(o) == IF o.fresh THEN "down" ELSE AfterDown(o)

(* Mutant: the attempts are never given up.                                *)
ConnectOnly(j) ==
  /\ job[j].pc = "connect" /\ job[j].tries < RetryCount
  /\ To(j, "driver")
  /\ UNCHANGED <<dbVars, lock, runs, stops>>

(* sqlOpen: Open makes no connection, Ping is tried RetryCount times.      *)
Connect(j) ==
  LET m == job[j] IN
  /\ m.pc = "connect"
  /\ IF m.tries = RetryCount THEN End(j, "failed") ELSE To(j, "driver")
  /\ UNCHANGED <<dbVars, lock, runs, stops>>

(* Mutant: one attempt too many.                                           *)
PingFailsOver(j) ==
  /\ job[j].pc = "connect" /\ job[j].tries <= RetryCount
  /\ job' = [job EXCEPT ![j].tries = @ + 1]
  /\ UNCHANGED <<dbVars, lock, runs, stops>>

PingFails(j) ==
  /\ job[j].pc = "connect" /\ job[j].tries < RetryCount
  /\ job' = [job EXCEPT ![j].tries = @ + 1]
  /\ UNCHANGED <<dbVars, lock, runs, stops>>

(* pg.WithInstance makes schema_migrations, if it is not there, under the  *)
(* advisory lock, for which it waits without a timeout.                    *)
LockDriver(j) ==
  /\ job[j].pc = "driver" /\ lock = "free"
  /\ To(j, "create") /\ lock' = j
  /\ UNCHANGED <<dbVars, runs, stops>>

(* NewWithDatabaseInstance, which comes next, opens the directory of files. *)
CreateVersions(j) ==
  /\ job[j].pc = "create"
  /\ To(j, AfterConnect(job[j].opt)) /\ lock' = "free"
  /\ UNCHANGED <<dbVars, runs, stops>>

-----------------------------------------------------------------------------
(* Down, Up and Migrate take the lock and refuse a dirty version; Down has *)
(* nothing to do without a version, which bss-init takes for an error.     *)
(* Migrate also refuses a version or a step that no file is for.           *)
Target(m) == CASE m.pc = "down" -> Nil [] m.pc = "up" -> Last [] OTHER -> m.opt.step

Refused(m) ==
  \/ db.dirty \/ db.version = 0
  \/ m.pc = "down" /\ db.version = Nil
  \/ m.pc = "to" /\ m.opt.step = 0

StartMigration(j) ==
  LET m == job[j] IN
  /\ m.pc \in {"down", "up", "to"} /\ lock = "free"
  /\ IF Refused(m)
     THEN End(j, "failed") /\ UNCHANGED lock
     ELSE /\ job' = [job EXCEPT ![j] = [m EXCEPT !.pc = "mark", !.op = m.pc,
                                                 !.target = Target(m)]]
          /\ lock' = j
  /\ UNCHANGED <<dbVars, runs, stops>>

(* The lock was not had in time.                                           *)
LockTimeout(j) ==
  /\ job[j].pc \in {"down", "up", "to", "force", "autoforce"} /\ lock # "free"
  /\ End(j, "failed")
  /\ UNCHANGED <<dbVars, lock, runs, stops>>

Above(v) == IF v = Nil THEN 1 ELSE v + 1
Below(v) == IF v = 1 THEN Nil ELSE v - 1

(* SetVersion(TargetVersion, dirty) of the next file; or there is none.    *)
MarkDirty(j) ==
  LET m == job[j]
      up == db.version < m.target
  IN  /\ m.pc = "mark" /\ db.version # m.target
      /\ db' = [version |-> IF up THEN Above(db.version) ELSE Below(db.version), dirty |-> TRUE]
      /\ job' = [job EXCEPT ![j] = [m EXCEPT !.pc = "run", !.up = up,
                                             !.file = IF up THEN Above(db.version) ELSE db.version]]
      /\ UNCHANGED <<tables, data, lock, forced, runs, stops>>

MigrationDone(j) ==
  /\ job[j].pc = "mark" /\ db.version = job[j].target
  /\ To(j, IF job[j].op = "down" THEN AfterDown(job[j].opt) ELSE "report")
  /\ lock' = "free"
  /\ UNCHANGED <<dbVars, runs, stops>>

(* Mutant: an up file creates its tables anew.                             *)
RunFileAnew(j) ==
  LET m == job[j] IN
  /\ m.pc = "run"
  /\ tables' = IF m.up THEN tables \union Creates(m.file) ELSE tables \ Drops(m.file)
  /\ data' = data \ Creates(m.file)
  /\ To(j, "clean")
  /\ UNCHANGED <<db, lock, forced, runs, stops>>

(* The file's transaction: CREATE TABLE IF NOT EXISTS or DROP TABLE.       *)
RunFile(j) ==
  LET m == job[j] IN
  /\ m.pc = "run"
  /\ tables' = IF m.up THEN tables \union Creates(m.file) ELSE tables \ Drops(m.file)
  /\ data' = IF m.up THEN data ELSE data \ Drops(m.file)
  /\ To(j, "clean")
  /\ UNCHANGED <<db, lock, forced, runs, stops>>

MarkClean(j) ==
  /\ job[j].pc = "clean"
  /\ db' = [db EXCEPT !.dirty = FALSE]
  /\ To(j, "mark")
  /\ UNCHANGED <<tables, data, lock, forced, runs, stops>>

-----------------------------------------------------------------------------
(* Force(v) sets the version, whatever the tables are.                     *)
ForceTo(j, v, pc) ==
  /\ lock = "free"
  /\ db' = [version |-> v, dirty |-> FALSE]
  /\ forced' = TRUE
  /\ To(j, pc)
  /\ UNCHANGED <<tables, data, lock, runs, stops>>

(* Mutant: only the dirty flag is cleared.                                 *)
ForceClears(j) == job[j].pc = "force" /\ ForceTo(j, db.version, "read")

ForceStep(j) == job[j].pc = "force" /\ ForceTo(j, job[j].opt.force, "read")

(* Mutant: a version above the step is left alone.                         *)
DecideUp(o, v) ==
  CASE v = Nil -> "up"
    [] v # Nil /\ v < o.step -> "to"
    [] OTHER -> "report"

(* Version() shows no version when it is Nil, dirty or not.                *)
Decide(o, v) ==
  CASE v = Nil -> "up"
    [] v # Nil /\ v # o.step -> "to"
    [] OTHER -> "report"

(* Version() takes no lock.                                                *)
ReadVersion(j) ==
  LET m == job[j] IN
  /\ m.pc = "read"
  /\ job' = [job EXCEPT ![j] =
       [m EXCEPT !.seen = db.version,
                 !.pc = IF db.dirty /\ db.version # Nil /\ m.opt.force < 0 THEN "autoforce"
                        ELSE Decide(m.opt, db.version)]]
  /\ UNCHANGED <<dbVars, lock, runs, stops>>

(* A dirty version is forced as it was seen, which clears the flag.        *)
AutoForce(j) ==
  job[j].pc = "autoforce" /\ ForceTo(j, job[j].seen, Decide(job[j].opt, job[j].seen))

(* Version() once more, for the log.                                       *)
Report(j) == job[j].pc = "report" /\ End(j, "ok") /\ UNCHANGED <<dbVars, lock, runs, stops>>

(* A run is killed, or a statement or a call of it fails: what is not      *)
(* committed is rolled back, and the lock goes with the connection.        *)
Stop(j) ==
  /\ Running(j) /\ stops < MaxStops
  /\ End(j, "failed")
  /\ lock' = IF lock = j THEN "free" ELSE lock
  /\ stops' = stops + 1
  /\ UNCHANGED <<dbVars, runs>>

(* BSS stores rows in a table.                                             *)
Fill ==
  /\ data # tables /\ data' = tables
  /\ UNCHANGED <<db, tables, forced, lock, job, runs, stops>>

-----------------------------------------------------------------------------
JobStep(j) ==
  \/ Connect(j) \/ PingFails(j) \/ LockDriver(j) \/ CreateVersions(j)
  \/ StartMigration(j) \/ LockTimeout(j)
  \/ MarkDirty(j) \/ RunFile(j) \/ MarkClean(j) \/ MigrationDone(j)
  \/ ForceStep(j) \/ ReadVersion(j) \/ AutoForce(j) \/ Report(j)

Next == Fill \/ \E j \in Job : Launch(j) \/ JobStep(j) \/ Stop(j)

Spec == Init /\ [][Next]_vars

(* A run that has been launched goes on, and Postgres gives the lock to    *)
(* those that wait for it at the driver in the order they came: however    *)
(* many runs there are, each has its turn.                                 *)
FairSpec ==
  Spec /\ \A j \in Job : WF_vars(JobStep(j)) /\ SF_vars(LockDriver(j))

-----------------------------------------------------------------------------
Pc == {"idle", "connect", "driver", "create", "down", "force", "read", "autoforce", "up", "to",
       "mark", "run", "clean", "report"} \union Ended
Run == [pc : Pc, opt : Option, tries : 0 .. RetryCount, seen : Version,
        op : {"none", "down", "up", "to"}, target : Version, file : 1 .. Last, up : BOOLEAN,
        alone : BOOLEAN]

TypeOK ==
  /\ db \in [version : Version, dirty : BOOLEAN]
  /\ tables \in SUBSET Table /\ data \in SUBSET tables
  /\ lock \in Job \union {"free"}
  /\ forced \in BOOLEAN
  /\ job \in [Job -> Run]
  /\ runs \in 0 .. MaxRuns /\ stops \in 0 .. MaxStops

(* As long as no version was forced, a version that is not dirty stands    *)
(* for its tables, all of them and no other, wherever runs were stopped.   *)
CleanMeansBuilt == ~forced /\ ~db.dirty => tables = TablesAt(db.version)

(* A run that succeeds with no other beside it leaves no dirty flag and    *)
(* the step that it was to go to - the latest, whatever it was told, if it *)
(* found no version - and, unless a version was ever forced, by it or by a *)
(* run before it, all the tables of that step and no other.                *)
Succeeds(j) == job[j].pc = "report" /\ job'[j].pc = "ok"

SuccessReachesTarget ==
  [][\A j \in Job : Succeeds(j) /\ job[j].alone =>
       /\ db' = [version |-> IF job[j].seen = Nil THEN Last ELSE job[j].opt.step,
                 dirty |-> FALSE]
       /\ ~forced' => tables' = TablesAt(db'.version)]_vars

(* With no other run beside it, a run makes rows go only if it was told to *)
(* start afresh, or to go to a step below the version it found.            *)
DataKept ==
  [][\A j \in Job : job[j].pc = "run" /\ job'[j].pc = "clean" /\ job[j].alone =>
       \/ data' = data
       \/ job[j].opt.fresh
       \/ job[j].opt.step < job[j].seen]_vars

(* A run that forces step 1 and goes to the last one with no other beside  *)
(* it has every table when it succeeds, whatever runs before it were       *)
(* stopped at: this is the way out of a dirty version.                     *)
ForceOneRebuilds ==
  [][\A j \in Job :
       Succeeds(j) /\ job[j].alone /\ job[j].opt.force = 1 /\ job[j].opt.step = Last
       => tables' = Table]_vars

(* Every run ends, though Postgres may refuse connections and others may   *)
(* have the lock, which a run waits for at the driver for as long as they  *)
(* migrate, and at a migration until a timeout.                            *)
RunsEnd == \A j \in Job : Running(j) ~> job[j].pc \in Ended

(* The log's "Migration at version", of a run with no other beside it: the *)
(* tables of that version are there.                                       *)
SuccessMeansBuilt ==
  [][\A j \in Job : Succeeds(j) /\ job[j].alone => tables' = TablesAt(db'.version)]_vars

(* The help of -step, "Migration step number to migrate to", of a run with *)
(* no other beside it.                                                     *)
StepIsObeyed ==
  [][\A j \in Job : Succeeds(j) /\ job[j].alone => db'.version = job[j].opt.step]_vars

(* A run with the default options loses no rows.                           *)
DefaultKeepsData ==
  [][\A j \in Job :
       /\ job[j].pc = "run" /\ job'[j].pc = "clean"
       /\ job[j].opt = [fresh |-> FALSE, force |-> -1, step |-> SchemaSteps]
       => data' = data]_vars
=============================================================================
