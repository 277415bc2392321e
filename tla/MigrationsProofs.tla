-------------------------- MODULE MigrationsProofs --------------------------
(***************************************************************************)
(* Safety of Migrations for any number of runs of bss-init, any options,   *)
(* default step and bounds: as long as no version is forced, a version     *)
(* that is not dirty stands for exactly its tables, and a run that has     *)
(* Postgres to itself ends where it was told to go.                        *)
(***************************************************************************)
EXTENDS Migrations, TLAPS

Locked == {"mark", "run", "clean"}
Holding == Locked \union {"create"}

(* The lock is with the run that makes schema_migrations or is migrating,  *)
(* from a version or from none but never from version 0, which has no file. *)
LockInv ==
  \A j \in Job : /\ job[j].pc \in Holding <=> lock = j
                 /\ job[j].pc \in Locked => db.version # 0
                 /\ Running(j) => job[j].opt.force \in -1 .. SchemaSteps

(* How far the one who has the lock is with its file.                      *)
Half(m) ==
  /\ m.pc = "mark" => ~db.dirty
  /\ m.pc = "run" => /\ db.dirty
                     /\ db.version = IF m.up THEN m.file ELSE Below(m.file)
                     /\ tables = IF m.up THEN TablesAt(m.file - 1) ELSE TablesAt(m.file)
  /\ m.pc = "clean" => db.dirty /\ tables = TablesAt(db.version)

FileInv == ~forced => CleanMeansBuilt /\ \A j \in Job : Half(job[j])

-----------------------------------------------------------------------------
(* The files.                                                              *)
LEMMA FilesDisjoint ==
  /\ Creates(1) = {}
  /\ Creates(2) = {"nodes", "boot_group_assignments", "boot_groups", "boot_configs"}
  /\ Creates(3) = {"endpoint_access"}
BY DEF Creates

LEMMA TablesOf ==
  /\ TablesAt(Nil) = {} /\ TablesAt(0) = {} /\ TablesAt(1) = {}
  /\ TablesAt(2) = Creates(2)
  /\ TablesAt(3) = Creates(2) \union Creates(3)
  /\ Table = Creates(2) \union Creates(3)
<1>1. 1 .. Nil = {} /\ 1 .. 0 = {} /\ 1 .. 1 = {1} /\ 1 .. 2 = {1, 2} /\ 1 .. 3 = {1, 2, 3}
  BY DEF Nil
<1>2. TablesAt(Nil) = {} /\ TablesAt(0) = {}
  BY <1>1, Zenon DEF TablesAt
<1>3. TablesAt(1) = {}
  <2>1. TablesAt(1) = UNION {Creates(s) : s \in {1}}
    BY <1>1, Zenon DEF TablesAt
  <2>2. QED
    BY <2>1, FilesDisjoint
<1>4. TablesAt(2) = Creates(2)
  <2>1. TablesAt(2) = UNION {Creates(s) : s \in {1, 2}}
    BY <1>1, Zenon DEF TablesAt
  <2>2. QED
    BY <2>1, FilesDisjoint
<1>5. UNION {Creates(s) : s \in {1, 2, 3}} = Creates(2) \union Creates(3)
  BY FilesDisjoint
<1>6. TablesAt(3) = Creates(2) \union Creates(3) /\ Table = Creates(2) \union Creates(3)
  BY <1>1, <1>5, Zenon DEF TablesAt, Table, Last
<1>7. QED
  BY <1>2, <1>3, <1>4, <1>6

(* The up file of a step makes the step's tables of those before it, and   *)
(* its down file those before it of the step's.                            *)
LEMMA FileSteps ==
  ASSUME NEW s \in 1 .. Last
  PROVE  /\ TablesAt(s - 1) \union Creates(s) = TablesAt(s)
         /\ TablesAt(s) \ Drops(s) = TablesAt(Below(s))
         /\ Creates(s) \subseteq Table
<1>1. CASE s = 1
  BY <1>1, TablesOf, FilesDisjoint DEF Drops, Below
<1>2. CASE s = 2
  BY <1>2, TablesOf, FilesDisjoint DEF Drops, Below
<1>3. CASE s = 3
  BY <1>3, TablesOf, FilesDisjoint DEF Drops, Below
<1>4. QED
  BY <1>1, <1>2, <1>3 DEF Last
-----------------------------------------------------------------------------
(* Types.                                                                  *)
LEMMA IdleTyped == Idle \in Run /\ \A pc \in Pc : [Idle EXCEPT !.pc = pc] \in Run
<1>1. /\ -1 \in Int /\ 0 \in 0 .. Last /\ 0 \in 0 .. RetryCount
      /\ Nil \in Version /\ 1 \in 1 .. Last
      /\ "none" \in {"none", "down", "up", "to"} /\ "idle" \in Pc
  BY BoundAssumption DEF Version, Nil, Last, Pc
<1>2. FALSE \in BOOLEAN /\ TRUE \in BOOLEAN
  OBVIOUS
<1>3. [fresh |-> FALSE, force |-> -1, step |-> 0] \in Option
  BY <1>1, <1>2, Zenon DEF Option
<1>4. Idle \in Run
  BY <1>1, <1>2, <1>3, Zenon DEF Idle, Run
<1>5. QED
  BY <1>4 DEF Run

(* A step changes one run, which goes to another place or ends there.      *)
LEMMA RunTyped ==
  ASSUME TypeOK, NEW j \in Job, NEW m \in Run, job' = [job EXCEPT ![j] = m]
  PROVE  job' \in [Job -> Run]
BY DEF TypeOK

LEMMA PlaceTyped ==
  ASSUME TypeOK, NEW j \in Job, NEW pc \in Pc, To(j, pc) \/ End(j, pc)
  PROVE  job' \in [Job -> Run]
<1>1. job[j] \in Run
  BY DEF TypeOK
<1>2. [job[j] EXCEPT !.pc = pc] \in Run
  BY <1>1 DEF Run
<1>3. CASE To(j, pc)
  BY <1>2, <1>3, RunTyped DEF To
<1>4. CASE End(j, pc)
  BY <1>4, IdleTyped, RunTyped DEF End
<1>5. QED
  BY <1>3, <1>4

LEMMA PlacesKnown ==
  ASSUME TypeOK, NEW j \in Job, NEW v
  PROVE  /\ AfterDown(job[j].opt) \in Pc /\ AfterConnect(job[j].opt) \in Pc
         /\ Decide(job[j].opt, v) \in {"up", "to", "report"}
BY DEF AfterDown, AfterConnect, Decide, Pc

(* The part of TypeOK about the one Postgres, and the part about the runs. *)
DbTyped ==
  /\ db \in [version : Version, dirty : BOOLEAN]
  /\ tables \in SUBSET Table /\ data \in SUBSET tables
  /\ forced \in BOOLEAN

LEMMA SameDb == ASSUME TypeOK, UNCHANGED dbVars PROVE DbTyped'
BY DEF TypeOK, dbVars, DbTyped

LEMMA InitTypeOK == Init => TypeOK /\ LockInv /\ FileInv
<1> SUFFICES ASSUME Init PROVE TypeOK /\ LockInv /\ FileInv
  OBVIOUS
<1>1. job \in [Job -> Run]
  BY IdleTyped DEF Init
<1>2. DbTyped
  <2>1. db \in [version : Version, dirty : BOOLEAN]
    BY DEF Init, Version, Nil, Last
  <2>2. forced \in BOOLEAN
    BY Zenon DEF Init
  <2>3. QED
    BY <2>1, <2>2 DEF Init, DbTyped
<1>3. TypeOK
  BY <1>1, <1>2, BoundAssumption DEF Init, TypeOK, DbTyped
<1>4. \A j \in Job : job[j].pc = "idle"
  BY DEF Init, Idle
<1>5. LockInv
  BY <1>4, FreeLockAssumption DEF Init, LockInv, Holding, Locked, Running, Ended
<1>6. FileInv
  BY <1>4, TablesOf DEF Init, FileInv, Half, CleanMeansBuilt
<1>7. QED
  BY <1>3, <1>5, <1>6

-----------------------------------------------------------------------------
(* TypeOK.                                                                 *)
LEMMA LaunchTyped == ASSUME TypeOK, NEW j \in Job, Launch(j) PROVE job' \in [Job -> Run]
<1> PICK o \in Options :
      job' = [i \in Job |->
         IF i = j
         THEN [Idle EXCEPT !.opt = o, !.alone = \A k \in Job : ~Running(k),
                           !.pc = IF o.force \in -1 .. SchemaSteps THEN "connect" ELSE "failed"]
         ELSE [job[i] EXCEPT !.alone = FALSE]]
  BY DEF Launch
<1> DEFINE b == \A k \in Job : ~Running(k)
           pc == IF o.force \in -1 .. SchemaSteps THEN "connect" ELSE "failed"
<1>1. o \in Option /\ pc \in Pc /\ b \in BOOLEAN
  BY OptionAssumption DEF Pc, Ended
<1>2. [Idle EXCEPT !.opt = o, !.alone = b, !.pc = pc] \in Run
  <2> HIDE DEF b, pc
  <2>1. ASSUME NEW m \in Run PROVE [m EXCEPT !.opt = o, !.alone = b, !.pc = pc] \in Run
    BY <1>1 DEF Run
  <2>2. QED
    BY <2>1, IdleTyped
<1>3. ASSUME NEW i \in Job PROVE [job[i] EXCEPT !.alone = FALSE] \in Run
  <2>1. ASSUME NEW m \in Run, NEW c \in BOOLEAN PROVE [m EXCEPT !.alone = c] \in Run
    BY DEF Run
  <2>2. FALSE \in BOOLEAN
    OBVIOUS
  <2>3. job[i] \in Run
    BY DEF TypeOK
  <2>4. QED
    BY <2>1, <2>2, <2>3, Zenon
<1>4. QED
  BY <1>2, <1>3, Zenon

LEMMA MigrationTyped ==
  ASSUME TypeOK, LockInv, NEW j \in Job,
         StartMigration(j) \/ MarkDirty(j) \/ RunFile(j) \/ MarkClean(j) \/ MigrationDone(j)
  PROVE  TypeOK'
<1> USE DEF TypeOK, dbVars
<1> job[j] \in Run
  OBVIOUS
<1>1. CASE StartMigration(j)
  <2>1. CASE Refused(job[j])
    BY <1>1, <2>1, PlaceTyped DEF StartMigration, Pc, Ended
  <2>2. CASE ~Refused(job[j])
    <3>1. job[j].pc \in {"none", "down", "up", "to"} /\ Target(job[j]) \in Version
      BY <1>1 DEF StartMigration, Target, Run, Option, Version, Nil, Last
    <3>2. [job[j] EXCEPT !.pc = "mark", !.op = job[j].pc, !.target = Target(job[j])] \in Run
      BY <3>1 DEF Run, Pc
    <3>3. job' \in [Job -> Run]
      BY <1>1, <2>2, <3>2, RunTyped DEF StartMigration
    <3>4. QED
      BY <1>1, <2>2, <3>3 DEF StartMigration
  <2>3. QED
    BY <2>1, <2>2
<1>2. CASE MarkDirty(j)
  <2> DEFINE up == db.version < job[j].target
             v == IF up THEN Above(db.version) ELSE Below(db.version)
             f == IF up THEN Above(db.version) ELSE db.version
  <2>1. v \in Version /\ f \in 1 .. Last /\ up \in BOOLEAN
    BY <1>2 DEF MarkDirty, LockInv, Locked, Above, Below, Version, Nil, Last, Run
  <2>2. [job[j] EXCEPT !.pc = "run", !.up = up, !.file = f] \in Run
    <3> HIDE DEF up, f
    <3>1. QED
      BY <2>1 DEF Run, Pc
  <2>3. job' \in [Job -> Run]
    BY <1>2, <2>2, RunTyped DEF MarkDirty
  <2>4. db' \in [version : Version, dirty : BOOLEAN]
    <3>1. TRUE \in BOOLEAN
      OBVIOUS
    <3>2. db' = [version |-> v, dirty |-> TRUE]
      BY <1>2 DEF MarkDirty
    <3>3. QED
      BY <2>1, <3>1, <3>2, Zenon
  <2>5. QED
    BY <1>2, <2>3, <2>4 DEF MarkDirty
<1>3. CASE RunFile(j)
  <2>1. job[j].file \in 1 .. Last
    BY DEF Run
  <2>2. Creates(job[j].file) \subseteq Table
    BY <2>1, FileSteps
  <2>3. tables' \in SUBSET Table /\ data' \in SUBSET tables'
    BY <1>3, <2>2 DEF RunFile, Drops
  <2>4. QED
    BY <1>3, <2>3, PlaceTyped DEF RunFile, Pc
<1>4. CASE MarkClean(j)
  <2>1. db' \in [version : Version, dirty : BOOLEAN]
    <3>1. FALSE \in BOOLEAN
      OBVIOUS
    <3>2. ASSUME NEW b \in BOOLEAN
          PROVE  [db EXCEPT !.dirty = b] \in [version : Version, dirty : BOOLEAN]
      OBVIOUS
    <3>3. QED
      BY <1>4, <3>1, <3>2, Zenon DEF MarkClean
  <2>2. QED
    BY <1>4, <2>1, PlaceTyped DEF MarkClean, Pc
<1>5. CASE MigrationDone(j)
  <2>1. job' \in [Job -> Run]
    BY <1>5, PlaceTyped, PlacesKnown DEF MigrationDone, Pc
  <2>2. QED
    BY <1>5, <2>1 DEF MigrationDone
<1>6. QED
  BY <1>1, <1>2, <1>3, <1>4, <1>5

LEMMA ForceTyped ==
  ASSUME TypeOK, NEW j \in Job, NEW v \in Version, NEW pc \in Pc, ForceTo(j, v, pc)
  PROVE  TypeOK'
<1>1. FALSE \in BOOLEAN /\ TRUE \in BOOLEAN
  OBVIOUS
<1>2. db' \in [version : Version, dirty : BOOLEAN] /\ forced' \in BOOLEAN
  BY <1>1, Zenon DEF ForceTo
<1>3. job' \in [Job -> Run]
  BY PlaceTyped DEF ForceTo
<1>4. QED
  BY <1>2, <1>3 DEF ForceTo, TypeOK

LEMMA OthersTyped ==
  ASSUME TypeOK, LockInv, NEW j \in Job,
         \/ Connect(j) \/ PingFails(j) \/ LockDriver(j) \/ CreateVersions(j) \/ LockTimeout(j)
         \/ ForceStep(j) \/ ReadVersion(j) \/ AutoForce(j) \/ Report(j) \/ Stop(j)
  PROVE  TypeOK'
<1> USE DEF dbVars
<1> job[j] \in Run
  BY DEF TypeOK
<1>1. CASE Connect(j)
  <2>1. job' \in [Job -> Run]
    BY <1>1, PlaceTyped, PlacesKnown DEF Connect, Pc, Ended
  <2>2. QED
    BY <1>1, <2>1 DEF Connect, TypeOK
<1>2. CASE PingFails(j)
  <2>1. job[j].tries + 1 \in 0 .. RetryCount
    BY <1>2, BoundAssumption DEF PingFails, Run
  <2>2. [job[j] EXCEPT !.tries = @ + 1] \in Run
    BY <2>1 DEF Run
  <2>3. job' \in [Job -> Run]
    BY <1>2, <2>2, RunTyped DEF PingFails
  <2>4. QED
    BY <1>2, <2>3 DEF PingFails, TypeOK
<1>3. CASE LockTimeout(j)
  <2>1. job' \in [Job -> Run]
    BY <1>3, PlaceTyped DEF LockTimeout, Pc, Ended
  <2>2. QED
    BY <1>3, <2>1 DEF LockTimeout, TypeOK
<1>4. CASE ForceStep(j)
  <2>1. job[j].opt.force \in Int /\ SchemaSteps \in 0 .. Last
    BY OptionAssumption DEF Run, Option
  <2>2. job[j].opt.force \in Version
    BY <1>4, <2>1 DEF ForceStep, LockInv, Running, Ended, Version, Nil, Last
  <2>3. QED
    BY <1>4, <2>2, ForceTyped DEF ForceStep, Pc
<1>5. CASE ReadVersion(j)
  <2> DEFINE pc == IF db.dirty /\ db.version # Nil /\ job[j].opt.force < 0 THEN "autoforce"
                   ELSE Decide(job[j].opt, db.version)
  <2>1. pc \in Pc
    BY PlacesKnown DEF Pc
  <2>2. [job[j] EXCEPT !.seen = db.version, !.pc = pc] \in Run
    <3> HIDE DEF pc
    <3>1. QED
      BY <2>1 DEF Run, TypeOK
  <2>3. job' \in [Job -> Run]
    BY <1>5, <2>2, RunTyped DEF ReadVersion
  <2>4. QED
    BY <1>5, <2>3 DEF ReadVersion, TypeOK
<1>6. CASE AutoForce(j)
  <2>1. job[j].seen \in Version /\ Decide(job[j].opt, job[j].seen) \in Pc
    BY PlacesKnown DEF Run, Pc
  <2>2. QED
    BY <1>6, <2>1, ForceTyped DEF AutoForce
<1>7. CASE Report(j)
  <2>1. job' \in [Job -> Run]
    BY <1>7, PlaceTyped DEF Report, Pc, Ended
  <2>2. QED
    BY <1>7, <2>1 DEF Report, TypeOK
<1>8. CASE Stop(j)
  <2>1. job' \in [Job -> Run]
    BY <1>8, PlaceTyped DEF Stop, Pc, Ended
  <2>2. QED
    BY <1>8, <2>1, BoundAssumption DEF Stop, TypeOK
<1>9. CASE LockDriver(j)
  <2>1. job' \in [Job -> Run]
    BY <1>9, PlaceTyped DEF LockDriver, Pc
  <2>2. QED
    BY <1>9, <2>1 DEF LockDriver, TypeOK
<1>10. CASE CreateVersions(j)
  <2>1. job' \in [Job -> Run]
    BY <1>10, PlaceTyped, PlacesKnown DEF CreateVersions
  <2>2. QED
    BY <1>10, <2>1 DEF CreateVersions, TypeOK
<1>11. QED
  BY <1>1, <1>2, <1>3, <1>4, <1>5, <1>6, <1>7, <1>8, <1>9, <1>10

LEMMA StepTypeOK ==
  ASSUME TypeOK, LockInv, Next
  PROVE  TypeOK'
<1>1. CASE Fill
  BY <1>1 DEF Fill, TypeOK
<1>2. ASSUME NEW j \in Job, Launch(j) PROVE TypeOK'
  <2>1. runs < MaxRuns /\ runs' = runs + 1 /\ UNCHANGED <<dbVars, lock, stops>>
    BY <1>2, Zenon DEF Launch
  <2>2. job' \in [Job -> Run]
    BY <1>2, LaunchTyped
  <2>3. QED
    BY <2>1, <2>2, BoundAssumption DEF TypeOK, dbVars
<1>3. ASSUME NEW j \in Job, JobStep(j) \/ Stop(j) PROVE TypeOK'
  BY <1>3, MigrationTyped, OthersTyped DEF JobStep
<1>4. QED
  BY <1>1, <1>2, <1>3 DEF Next

-----------------------------------------------------------------------------
(* LockInv.                                                                *)
(* What a step that goes to another place, or ends, changes of the runs.   *)
LEMMA Placed ==
  ASSUME TypeOK, NEW j \in Job, NEW pc, To(j, pc)
  PROVE  /\ \A i \in Job : i # j => job'[i] = job[i]
         /\ job'[j].pc = pc /\ job'[j].opt = job[j].opt
         /\ job'[j].file = job[j].file /\ job'[j].up = job[j].up
<1>1. job \in [Job -> Run]
  BY DEF TypeOK
<1>2. \A i \in Job : job'[i] = IF i = j THEN [job[j] EXCEPT !.pc = pc] ELSE job[i]
  BY <1>1 DEF To
<1>3. job[j] \in Run
  BY <1>1
<1>4. QED
  BY <1>2, <1>3 DEF Run

LEMMA Finished ==
  ASSUME TypeOK, NEW j \in Job, NEW pc, End(j, pc)
  PROVE  /\ \A i \in Job : i # j => job'[i] = job[i]
         /\ job'[j].pc = pc
<1>1. job \in [Job -> Run]
  BY DEF TypeOK
<1>2. \A i \in Job : job'[i] = IF i = j THEN [Idle EXCEPT !.pc = pc] ELSE job[i]
  BY <1>1 DEF End
<1>3. QED
  BY <1>2, IdleTyped DEF Run

(* Only the place of one run, its lock and the version matter to LockInv.  *)
LEMMA LockKept ==
  ASSUME LockInv, NEW j \in Job,
         \A i \in Job : i # j => job'[i] = job[i] /\ (lock = i <=> lock' = i),
         job'[j].pc \in Holding <=> lock' = j,
         job'[j].pc \in Locked => db'.version # 0,
         job'[j].pc \in Ended \/ (Running(j) /\ job'[j].opt = job[j].opt),
         lock \in Job \ {j} => db' = db
  PROVE  LockInv'
<1> USE DEF LockInv, Holding, Locked, Running, Ended
<1> SUFFICES ASSUME NEW i \in Job
             PROVE  /\ job'[i].pc \in Holding <=> lock' = i
                    /\ job'[i].pc \in Locked => db'.version # 0
                    /\ Running(i)' => job'[i].opt.force \in -1 .. SchemaSteps
  OBVIOUS
<1>1. CASE i = j
  BY <1>1
<1>2. CASE i # j
  BY <1>2
<1>3. QED
  BY <1>1, <1>2

LEMMA LockSteps ==
  ASSUME TypeOK, LockInv, NEW j \in Job,
         \/ LockDriver(j) \/ CreateVersions(j) \/ StartMigration(j) \/ LockTimeout(j)
         \/ MigrationDone(j) \/ Stop(j)
  PROVE  LockInv'
<1> USE FreeLockAssumption, LockKept, Placed, Finished DEF LockInv, Holding, Locked, Running, Ended, dbVars
<1>1. CASE StartMigration(j)
  <2>1. CASE Refused(job[j])
    BY <1>1, <2>1 DEF StartMigration
  <2>2. CASE ~Refused(job[j])
    <3>1. job' = [job EXCEPT ![j] = [job[j] EXCEPT !.pc = "mark", !.op = job[j].pc,
                                                   !.target = Target(job[j])]]
      BY <1>1, <2>2 DEF StartMigration
    <3>2. /\ \A i \in Job : i # j => job'[i] = job[i]
          /\ job'[j].pc = "mark" /\ job'[j].opt = job[j].opt
      BY <3>1 DEF TypeOK, Run
    <3>3. QED
      BY <1>1, <2>2, <3>2 DEF StartMigration, Refused
  <2>3. QED
    BY <2>1, <2>2
<1>2. CASE LockTimeout(j)
  BY <1>2 DEF LockTimeout
<1>3. CASE MigrationDone(j)
  BY <1>3 DEF MigrationDone, AfterDown
<1>4. CASE Stop(j)
  BY <1>4 DEF Stop
<1>5. CASE LockDriver(j)
  BY <1>5 DEF LockDriver
<1>6. CASE CreateVersions(j)
  BY <1>6 DEF CreateVersions, AfterConnect, AfterDown
<1>7. QED
  BY <1>1, <1>2, <1>3, <1>4, <1>5, <1>6

LEMMA OwnSteps ==
  ASSUME TypeOK, LockInv, NEW j \in Job,
         MarkDirty(j) \/ RunFile(j) \/ MarkClean(j)
  PROVE  LockInv'
<1> USE LockKept, Placed DEF LockInv, Holding, Locked, Running, Ended
<1>1. CASE MarkDirty(j)
  <2>1. db'.version # 0
    BY <1>1 DEF MarkDirty, Above, Below, Version, Nil, Last, TypeOK, Run
  <2>2. /\ \A i \in Job : i # j => job'[i] = job[i]
        /\ job'[j].pc = "run" /\ job'[j].opt = job[j].opt
    BY <1>1 DEF MarkDirty, TypeOK, Run
  <2>3. lock' = lock
    BY <1>1 DEF MarkDirty
  <2>4. QED
    BY <1>1, <2>1, <2>2, <2>3 DEF MarkDirty
<1>2. CASE RunFile(j)
  BY <1>2 DEF RunFile
<1>3. CASE MarkClean(j)
  <2>1. db'.version = db.version
    BY <1>3 DEF MarkClean, TypeOK
  <2>2. QED
    BY <1>3, <2>1 DEF MarkClean
<1>4. QED
  BY <1>1, <1>2, <1>3

LEMMA FreeSteps ==
  ASSUME TypeOK, LockInv, NEW j \in Job,
         \/ Connect(j) \/ PingFails(j) \/ ForceStep(j) \/ ReadVersion(j)
         \/ AutoForce(j) \/ Report(j)
  PROVE  LockInv'
<1> USE FreeLockAssumption, LockKept, Placed, Finished DEF LockInv, Holding, Locked, Running, Ended, dbVars
<1>1. CASE Connect(j)
  BY <1>1 DEF Connect
<1>2. CASE PingFails(j)
  <2>1. /\ \A i \in Job : i # j => job'[i] = job[i]
        /\ job'[j].pc = job[j].pc /\ job'[j].opt = job[j].opt
    BY <1>2 DEF PingFails, TypeOK, Run
  <2>2. QED
    BY <1>2, <2>1 DEF PingFails
<1>3. CASE ForceStep(j) \/ AutoForce(j)
  BY <1>3, PlacesKnown DEF ForceStep, AutoForce, ForceTo
<1>4. CASE ReadVersion(j)
  <2> DEFINE pc == IF db.dirty /\ db.version # Nil /\ job[j].opt.force < 0 THEN "autoforce"
                   ELSE Decide(job[j].opt, db.version)
  <2>1. pc \in {"autoforce", "up", "to", "report"}
    BY PlacesKnown
  <2>2. job' = [job EXCEPT ![j] = [job[j] EXCEPT !.seen = db.version, !.pc = pc]]
    BY <1>4 DEF ReadVersion
  <2> HIDE DEF pc
  <2>3. /\ \A i \in Job : i # j => job'[i] = job[i]
        /\ job'[j].pc = pc /\ job'[j].opt = job[j].opt
    BY <2>2 DEF TypeOK, Run
  <2>4. QED
    BY <1>4, <2>1, <2>3 DEF ReadVersion
<1>5. CASE Report(j)
  BY <1>5 DEF Report
<1>6. QED
  BY <1>1, <1>2, <1>3, <1>4, <1>5

LEMMA LaunchLock == ASSUME TypeOK, LockInv, NEW j \in Job, Launch(j) PROVE LockInv'
<1>1. PICK o \in Options :
      job' = [i \in Job |->
         IF i = j
         THEN [Idle EXCEPT !.opt = o, !.alone = \A k \in Job : ~Running(k),
                           !.pc = IF o.force \in -1 .. SchemaSteps THEN "connect" ELSE "failed"]
         ELSE [job[i] EXCEPT !.alone = FALSE]]
  BY DEF Launch
<1> DEFINE b == \A k \in Job : ~Running(k)
<1>2. /\ job'[j].opt = o
      /\ job'[j].pc = IF o.force \in -1 .. SchemaSteps THEN "connect" ELSE "failed"
  <2> DEFINE pc == IF o.force \in -1 .. SchemaSteps THEN "connect" ELSE "failed"
  <2>1. job'[j] = [Idle EXCEPT !.opt = o, !.alone = b, !.pc = pc]
    BY <1>1, Zenon
  <2> HIDE DEF b, pc
  <2>2. ASSUME NEW m \in Run
        PROVE  /\ [m EXCEPT !.opt = o, !.alone = b, !.pc = pc].opt = o
               /\ [m EXCEPT !.opt = o, !.alone = b, !.pc = pc].pc = pc
    BY DEF Run
  <2>3. job'[j].opt = o /\ job'[j].pc = pc
    BY <2>1, <2>2, IdleTyped, Zenon
  <2>4. QED
    BY <2>3 DEF pc
<1>3. ASSUME NEW i \in Job, i # j PROVE job'[i].pc = job[i].pc /\ job'[i].opt = job[i].opt
  <2>1. ASSUME NEW m \in Run, NEW c
        PROVE  [m EXCEPT !.alone = c].pc = m.pc /\ [m EXCEPT !.alone = c].opt = m.opt
    BY DEF Run
  <2>2. job[i] \in Run
    BY DEF TypeOK
  <2>3. QED
    BY <1>1, <1>3, <2>1, <2>2, Zenon
<1>4. lock' = lock /\ db' = db /\ ~Running(j)
  BY DEF Launch, dbVars
<1>5. QED
  BY <1>2, <1>3, <1>4 DEF LockInv, Holding, Locked, Running, Ended

LEMMA StepLock == ASSUME TypeOK, LockInv, Next PROVE LockInv'
<1>1. CASE Fill
  BY <1>1 DEF Fill, LockInv, Running
<1>2. ASSUME NEW j \in Job, Launch(j) \/ JobStep(j) \/ Stop(j) PROVE LockInv'
  BY <1>2, LaunchLock, LockSteps, OwnSteps, FreeSteps DEF JobStep
<1>3. QED
  BY <1>1, <1>2 DEF Next

-----------------------------------------------------------------------------
(* FileInv.                                                                *)
(* A step of a run leaves FileInv alone if it leaves Postgres alone and    *)
(* does not take the run to a file.                                        *)
LEMMA FileKept ==
  ASSUME FileInv, UNCHANGED <<db, tables, forced>>, NEW j \in Job,
         \A i \in Job : i # j => job'[i] = job[i],
         job'[j].pc \notin Locked \/ (job'[j].pc = "mark" /\ (~forced => ~db.dirty))
  PROVE  FileInv'
<1>1. SUFFICES ASSUME ~forced PROVE CleanMeansBuilt' /\ \A i \in Job : Half(job[i])'
  BY DEF FileInv
<1>2. CleanMeansBuilt'
  BY <1>1 DEF FileInv, CleanMeansBuilt
<1>3. ASSUME NEW i \in Job, i # j PROVE Half(job[i])'
  <2>1. Half(job[i]) /\ job'[i] = job[i]
    BY <1>1, <1>3 DEF FileInv
  <2>2. QED
    BY <2>1 DEF Half
<1>4. Half(job[j])'
  BY <1>1 DEF Half, Locked
<1>5. QED
  BY <1>2, <1>3, <1>4

(* A run that works on a file is alone with it.                            *)
LEMMA FileMoved ==
  ASSUME LockInv, NEW j \in Job, lock = j,
         \A i \in Job : i # j => job'[i] = job[i],
         ~forced => CleanMeansBuilt' /\ Half(job[j])',
         forced' = forced
  PROVE  FileInv'
<1>1. SUFFICES ASSUME ~forced PROVE CleanMeansBuilt' /\ \A i \in Job : Half(job[i])'
  BY DEF FileInv
<1>2. ASSUME NEW i \in Job, i # j PROVE Half(job[i])'
  <2>1. job'[i].pc \notin Locked
    BY <1>2 DEF LockInv, Holding
  <2>2. QED
    BY <2>1 DEF Half, Locked
<1>3. QED
  BY <1>1, <1>2

LEMMA DirtySteps ==
  ASSUME TypeOK, LockInv, FileInv, NEW j \in Job, MarkDirty(j) \/ RunFile(j) \/ MarkClean(j)
  PROVE  FileInv'
<1> USE DEF LockInv, Holding, Locked
<1>1. lock = j /\ forced' = forced
  BY DEF MarkDirty, RunFile, MarkClean
<1>2. ~forced => CleanMeansBuilt /\ Half(job[j])
  BY DEF FileInv
<1>3. CASE MarkDirty(j)
  <2> DEFINE up == db.version < job[j].target
             v == IF up THEN Above(db.version) ELSE Below(db.version)
             f == IF up THEN Above(db.version) ELSE db.version
  <2>1. db' = [version |-> v, dirty |-> TRUE] /\ tables' = tables
    BY <1>3, Zenon DEF MarkDirty
  <2>2. db'.version = v /\ db'.dirty
    BY <2>1, Zenon
  <2>3. job' = [job EXCEPT ![j] = [job[j] EXCEPT !.pc = "run", !.up = up, !.file = f]]
    BY <1>3 DEF MarkDirty
  <2>4. /\ \A i \in Job : i # j => job'[i] = job[i]
        /\ job'[j].pc = "run" /\ job'[j].file = f /\ job'[j].up = up
    <3> HIDE DEF up, f
    <3>1. QED
      BY <2>3 DEF TypeOK, Run
  <2>5. job[j].target \in Version /\ db.version \in Version /\ db.version # 0
    BY <1>3 DEF TypeOK, Run, MarkDirty
  <2>6. ASSUME ~forced PROVE CleanMeansBuilt' /\ Half(job[j])'
    <3>1. ~db.dirty
      BY <1>2, <1>3, <2>6 DEF MarkDirty, Half
    <3>2. tables = TablesAt(db.version)
      BY <1>2, <2>6, <3>1 DEF CleanMeansBuilt
    <3>3. CASE up
      <4>1. f = Above(db.version) /\ v = f
        BY <3>3
      <4>2. TablesAt(f - 1) = TablesAt(db.version)
        <5>1. CASE db.version = Nil
          <6>1. f - 1 = 0
            BY <4>1, <5>1 DEF Above
          <6>2. QED
            BY <5>1, <6>1, TablesOf
        <5>2. CASE db.version # Nil
          <6>1. f - 1 = db.version
            BY <4>1, <2>5, <5>2 DEF Above, Version, Nil, Last
          <6>2. QED
            BY <6>1
        <5>3. QED
          BY <5>1, <5>2
      <4>3. /\ job'[j].pc = "run" /\ db'.dirty /\ job'[j].up /\ db'.version = job'[j].file
            /\ tables' = TablesAt(job'[j].file - 1)
        <5> HIDE DEF up, v, f
        <5>1. job'[j].up
          BY <2>4, <3>3, Zenon
        <5>2. QED
          BY <2>1, <2>2, <2>4, <3>2, <4>1, <4>2, <5>1
      <4>4. QED
        BY <4>3 DEF Half, CleanMeansBuilt
    <3>4. CASE ~up
      BY <2>1, <2>2, <2>4, <3>2, <3>4 DEF Half, CleanMeansBuilt
    <3>5. QED
      BY <3>3, <3>4
  <2>7. QED
    BY <1>1, <2>4, <2>6, FileMoved
<1>4. CASE RunFile(j)
  <2>1. /\ \A i \in Job : i # j => job'[i] = job[i]
        /\ job'[j].pc = "clean"
    BY <1>4, Placed DEF RunFile
  <2>2. job[j].file \in 1 .. Last
    BY DEF TypeOK, Run
  <2>3. ASSUME ~forced PROVE CleanMeansBuilt' /\ Half(job[j])'
    <3>1. /\ db.dirty
          /\ db.version = IF job[j].up THEN job[j].file ELSE Below(job[j].file)
          /\ tables = IF job[j].up THEN TablesAt(job[j].file - 1) ELSE TablesAt(job[j].file)
      BY <1>2, <1>4, <2>3 DEF RunFile, Half
    <3>2. tables' = TablesAt(db.version)
      BY <1>4, <2>2, <3>1, FileSteps DEF RunFile
    <3>3. db' = db
      BY <1>4 DEF RunFile
    <3>4. QED
      BY <2>1, <3>1, <3>2, <3>3 DEF Half, CleanMeansBuilt
  <2>4. QED
    BY <1>1, <2>1, <2>3, FileMoved
<1>5. CASE MarkClean(j)
  <2>1. /\ \A i \in Job : i # j => job'[i] = job[i]
        /\ job'[j].pc = "mark"
    BY <1>5, Placed DEF MarkClean
  <2>2. db'.version = db.version /\ ~db'.dirty /\ tables' = tables
    <3>1. ASSUME NEW b PROVE [db EXCEPT !.dirty = b].version = db.version /\ [db EXCEPT !.dirty = b].dirty = b
      BY DEF TypeOK
    <3>2. db' = [db EXCEPT !.dirty = FALSE] /\ tables' = tables
      BY <1>5, Zenon DEF MarkClean
    <3>3. QED
      BY <3>1, <3>2, Zenon
  <2>3. ~forced => tables = TablesAt(db.version)
    BY <1>2, <1>5 DEF MarkClean, Half
  <2>4. ~forced => CleanMeansBuilt' /\ Half(job[j])'
    BY <2>1, <2>2, <2>3 DEF Half, CleanMeansBuilt
  <2>5. QED
    BY <1>1, <2>1, <2>4, FileMoved
<1>6. QED
  BY <1>3, <1>4, <1>5

LEMMA OtherSteps ==
  ASSUME TypeOK, LockInv, FileInv, NEW j \in Job,
         \/ StartMigration(j) \/ LockTimeout(j) \/ MigrationDone(j) \/ Stop(j)
         \/ Connect(j) \/ PingFails(j) \/ LockDriver(j) \/ CreateVersions(j) \/ ReadVersion(j)
         \/ Report(j)
  PROVE  FileInv'
<1> USE FileKept, Placed, Finished DEF Locked, dbVars
<1>1. CASE StartMigration(j)
  <2>1. CASE Refused(job[j])
    BY <1>1, <2>1 DEF StartMigration
  <2>2. CASE ~Refused(job[j])
    <3>1. job' = [job EXCEPT ![j] = [job[j] EXCEPT !.pc = "mark", !.op = job[j].pc,
                                                   !.target = Target(job[j])]]
      BY <1>1, <2>2 DEF StartMigration
    <3>2. (\A i \in Job : i # j => job'[i] = job[i]) /\ job'[j].pc = "mark"
      BY <3>1 DEF TypeOK, Run
    <3>3. ~db.dirty
      BY <2>2 DEF Refused
    <3>4. QED
      BY <1>1, <3>2, <3>3 DEF StartMigration
  <2>3. QED
    BY <2>1, <2>2
<1>2. CASE LockTimeout(j) \/ Stop(j) \/ Report(j)
  BY <1>2 DEF LockTimeout, Stop, Report
<1>3. CASE MigrationDone(j)
  BY <1>3 DEF MigrationDone, AfterDown
<1>4. CASE Connect(j) \/ LockDriver(j) \/ CreateVersions(j)
  BY <1>4 DEF Connect, LockDriver, CreateVersions, AfterConnect, AfterDown
<1>5. CASE PingFails(j)
  <2>1. (\A i \in Job : i # j => job'[i] = job[i]) /\ job'[j].pc = job[j].pc
    BY <1>5 DEF PingFails, TypeOK, Run
  <2>2. QED
    BY <1>5, <2>1 DEF PingFails
<1>6. CASE ReadVersion(j)
  <2> DEFINE pc == IF db.dirty /\ db.version # Nil /\ job[j].opt.force < 0 THEN "autoforce"
                   ELSE Decide(job[j].opt, db.version)
  <2>1. pc \in {"autoforce", "up", "to", "report"}
    BY PlacesKnown
  <2>2. job' = [job EXCEPT ![j] = [job[j] EXCEPT !.seen = db.version, !.pc = pc]]
    BY <1>6 DEF ReadVersion
  <2> HIDE DEF pc
  <2>3. (\A i \in Job : i # j => job'[i] = job[i]) /\ job'[j].pc = pc
    BY <2>2 DEF TypeOK, Run
  <2>4. QED
    BY <1>6, <2>1, <2>3 DEF ReadVersion
<1>7. QED
  BY <1>1, <1>2, <1>3, <1>4, <1>5, <1>6

LEMMA LaunchFile ==
  ASSUME TypeOK, LockInv, FileInv, NEW j \in Job, Launch(j)
  PROVE  FileInv'
<1>1. SUFFICES ASSUME ~forced PROVE CleanMeansBuilt' /\ \A i \in Job : Half(job[i])'
  <2>1. forced' = forced
    BY Zenon DEF Launch, dbVars
  <2>2. QED
    BY <1>1, <2>1 DEF FileInv
<1>2. db' = db /\ tables' = tables /\ forced' = forced
  BY Zenon DEF Launch, dbVars
<1>3. CleanMeansBuilt'
  BY <1>1, <1>2 DEF FileInv, CleanMeansBuilt
<1>4. ASSUME NEW i \in Job PROVE Half(job[i])'
  <2>1. LockInv' /\ lock' = lock
    <3>1. lock' = lock
      BY Zenon DEF Launch
    <3>2. QED
      BY <3>1, LaunchLock
  <2>3. CASE lock # i
    BY <2>1, <2>3 DEF LockInv, Half, Holding, Locked
  <2>4. CASE lock = i
    <3>1. i # j
      BY <2>4 DEF Launch, LockInv, Running, Holding, Locked, Ended
    <3>2. job'[i] = [job[i] EXCEPT !.alone = FALSE]
      BY <3>1, Zenon DEF Launch
    <3>3. PICK c : job'[i] = [job[i] EXCEPT !.alone = c]
      BY <3>2, Zenon
    <3>4. job'[i].pc = job[i].pc /\ job'[i].file = job[i].file /\ job'[i].up = job[i].up
      BY <3>3 DEF TypeOK, Run
    <3>5. Half(job[i])
      BY <1>1 DEF FileInv
    <3>6. QED
      BY <1>2, <3>4, <3>5 DEF Half
  <2>5. QED
    BY <2>3, <2>4
<1>5. QED
  BY <1>3, <1>4

LEMMA StepFile == ASSUME TypeOK, LockInv, FileInv, Next PROVE FileInv'
<1>1. CASE Fill
  BY <1>1 DEF Fill, FileInv, CleanMeansBuilt, Half
<1>2. ASSUME NEW j \in Job, ForceStep(j) \/ AutoForce(j) PROVE FileInv'
  <2>1. forced'
    BY <1>2, Zenon DEF ForceStep, AutoForce, ForceTo
  <2>2. QED
    BY <2>1 DEF FileInv
<1>3. ASSUME NEW j \in Job, Launch(j) \/ JobStep(j) \/ Stop(j) PROVE FileInv'
  BY <1>2, <1>3, LaunchFile, DirtySteps, OtherSteps DEF JobStep
<1>4. QED
  BY <1>1, <1>3 DEF Next

-----------------------------------------------------------------------------
IInv == TypeOK /\ LockInv /\ FileInv

LEMMA StepIInv == IInv /\ [Next]_vars => IInv'
<1> USE DEF IInv
<1>1. ASSUME IInv, Next PROVE IInv'
  BY <1>1, StepTypeOK, StepLock, StepFile
<1>2. CASE UNCHANGED vars
  BY <1>2 DEF vars, dbVars, TypeOK, LockInv, FileInv, Half, CleanMeansBuilt, Running
<1>3. QED
  BY <1>1, <1>2

(* TypeOK: no run of bss-init sets a version there is no migration for,    *)
(* pings more often than it may, or leaves rows in a table that is gone.   *)
THEOREM TypeCorrect == Spec => []TypeOK
<1>1. IInv => TypeOK
  BY DEF IInv
<1>2. QED
  BY <1>1, InitTypeOK, StepIInv, PTL DEF Spec, IInv

(* CleanMeansBuilt: however many runs of bss-init are at work, and         *)
(* wherever they are stopped, a version that is not dirty and was not      *)
(* forced has all of its tables and no others.                             *)
THEOREM CleanIsBuilt == Spec => []CleanMeansBuilt
<1>1. IInv => CleanMeansBuilt
  BY DEF IInv, FileInv, CleanMeansBuilt
<1>2. QED
  BY <1>1, InitTypeOK, StepIInv, PTL DEF Spec, IInv

(* One run at a time changes tables or the version with its dirty flag,    *)
(* but for one that forces a version.                                      *)
THEOREM OneAtATime ==
  Spec => [](\A i, j \in Job : job[i].pc \in Locked /\ job[j].pc \in Locked => i = j)
<1>1. IInv => \A i, j \in Job : job[i].pc \in Locked /\ job[j].pc \in Locked => i = j
  BY DEF IInv, LockInv, Holding
<1>2. QED
  BY <1>1, InitTypeOK, StepIInv, PTL DEF Spec, IInv

-----------------------------------------------------------------------------
(* A run with no other beside it: nobody else works on Postgres, so what   *)
(* it saw of the version is what it finds, and each file takes the version *)
(* towards its target.                                                     *)
Reached(m) ==
  db = [version |-> IF m.seen = Nil THEN Last ELSE m.opt.step, dirty |-> FALSE]

(* What it is to migrate, and whether that is upwards.                     *)
Errand(m) ==
  \/ m.op = "down" /\ m.target = Nil /\ m.opt.fresh
  \/ m.op = "up" /\ m.target = Last /\ m.seen = Nil
  \/ /\ m.op = "to" /\ m.target = m.opt.step /\ m.opt.step # 0
     /\ m.seen # Nil /\ m.seen # m.opt.step
     /\ m.seen < m.opt.step => db.version <= m.opt.step

Course(m) ==
  /\ m.pc = "down" => m.opt.fresh
  /\ m.pc = "read" /\ m.opt.force >= 0 => db = [version |-> m.opt.force, dirty |-> FALSE]
  /\ m.pc = "autoforce" => m.opt.force < 0 /\ m.seen = db.version /\ m.seen # Nil
  /\ m.pc = "up" => m.seen = Nil
  /\ m.pc = "to" => m.seen = db.version /\ m.seen # Nil /\ m.seen # m.opt.step
  /\ m.pc \in Locked => Errand(m)
  /\ m.pc = "mark" => ~db.dirty
  /\ m.pc = "run" => m.up \/ m.op = "down" \/ (m.op = "to" /\ m.opt.step < m.seen)
  /\ m.pc = "report" => Reached(m)

(* It has forced step 1, which has no tables, and goes up from there.      *)
Rebuild(m) ==
  m.opt.force = 1 /\ m.opt.step = Last =>
    /\ m.pc \notin {"up", "autoforce"} /\ (m.pc \in Locked => m.op # "up")
    /\ m.pc = "to" => m.seen = 1
    /\ m.pc \in Locked /\ m.op = "to" => m.seen = 1 /\ db.version >= 1
    /\ m.pc \in {"mark", "clean"} /\ m.op = "to" => TablesAt(db.version) \subseteq tables
    /\ m.pc = "run" /\ m.op = "to" =>
         m.up /\ m.file = db.version /\ TablesAt(m.file - 1) \subseteq tables
    /\ m.pc = "report" => tables = Table

Lone(j) == Running(j) /\ job[j].alone

LoneInv ==
  \A j \in Job : Lone(j) => /\ \A k \in Job : Running(k) => k = j
                            /\ Course(job[j]) /\ Rebuild(job[j])

LEMMA PlacedWhole ==
  ASSUME TypeOK, NEW j \in Job, NEW pc, To(j, pc)
  PROVE  LET e == job'[j] IN
         /\ \A i \in Job : i # j => job'[i] = job[i]
         /\ e.pc = pc /\ e.opt = job[j].opt /\ e.seen = job[j].seen /\ e.op = job[j].op
         /\ e.target = job[j].target /\ e.file = job[j].file /\ e.up = job[j].up
         /\ e.alone = job[j].alone
<1>1. job \in [Job -> Run] /\ job[j] \in Run
  BY DEF TypeOK
<1>2. \A i \in Job : job'[i] = IF i = j THEN [job[j] EXCEPT !.pc = pc] ELSE job[i]
  BY <1>1 DEF To
<1>3. QED
  BY <1>1, <1>2 DEF Run

(* A run that ends is Idle but for its place.                              *)
LEMMA EndedNotLone ==
  ASSUME TypeOK, NEW j \in Job, NEW pc \in Ended, End(j, pc)
  PROVE  (\A i \in Job : i # j => job'[i] = job[i]) /\ ~Running(j)'
BY Finished DEF Running

LEMMA LoneMoved ==
  ASSUME LoneInv, NEW j \in Job, Running(j), \A i \in Job : i # j => job'[i] = job[i],
         Lone(j)' => job[j].alone /\ Course(job[j])' /\ Rebuild(job[j])'
  PROVE  LoneInv'
<1> SUFFICES ASSUME NEW i \in Job, Lone(i)'
             PROVE  /\ \A k \in Job : Running(k)' => k = i
                    /\ Course(job[i])' /\ Rebuild(job[i])'
  BY DEF LoneInv
<1>1. CASE i = j
  <2>1. Lone(j)
    BY <1>1 DEF Lone
  <2>2. QED
    BY <1>1, <2>1 DEF LoneInv, Running
<1>2. CASE i # j
  <2>1. Lone(i)
    BY <1>2 DEF Lone, Running
  <2>2. QED
    BY <1>2, <2>1 DEF LoneInv
<1>3. QED
  BY <1>1, <1>2

LEMMA EndLone ==
  ASSUME TypeOK, LoneInv, NEW j \in Job,
         \/ Stop(j) \/ Report(j) \/ LockTimeout(j)
         \/ Connect(j) /\ job[j].tries = RetryCount
         \/ StartMigration(j) /\ Refused(job[j])
  PROVE  LoneInv'
<1>1. \E pc \in Ended : End(j, pc)
  BY DEF Stop, Report, LockTimeout, Connect, StartMigration, Ended
<1>2. (\A i \in Job : i # j => job'[i] = job[i]) /\ ~Running(j)'
  BY <1>1, EndedNotLone
<1>3. Running(j)
  BY DEF Stop, Report, LockTimeout, Connect, StartMigration, Running, Ended
<1>4. QED
  BY <1>2, <1>3, LoneMoved DEF Lone

(* To the database and the decision.                                       *)
LEMMA ArriveLone ==
  ASSUME TypeOK, LoneInv, NEW j \in Job,
         \/ Connect(j) /\ job[j].tries # RetryCount
         \/ PingFails(j) \/ LockDriver(j) \/ CreateVersions(j)
         \/ ForceStep(j)
  PROVE  LoneInv'
<1>0. Running(j) /\ job[j].opt.force \in Int
  BY DEF Connect, PingFails, LockDriver, CreateVersions, ForceStep, Running, Ended, TypeOK, Run,
         Option
<1>1. CASE CreateVersions(j)
  <2> DEFINE pc == AfterConnect(job[j].opt)
  <2>1. To(j, pc)
    BY <1>1 DEF CreateVersions
  <2>2. /\ pc \in {"down", "force", "read"} /\ (pc = "down" => job[j].opt.fresh)
        /\ pc = "read" => ~(job[j].opt.force >= 0)
    BY DEF AfterConnect, AfterDown
  <2> HIDE DEF pc
  <2>3. Course(job[j])' /\ Rebuild(job[j])'
    BY <2>1, <2>2, PlacedWhole DEF Course, Rebuild, Locked
  <2>4. QED
    BY <1>0, <2>1, <2>3, PlacedWhole, LoneMoved DEF Lone
<1>2. CASE PingFails(j)
  <2>1. (\A i \in Job : i # j => job'[i] = job[i]) /\ job'[j].pc = "connect"
        /\ job'[j].alone = job[j].alone
    BY <1>2 DEF PingFails, TypeOK, Run
  <2>2. QED
    BY <1>0, <2>1, LoneMoved DEF Lone, Course, Rebuild, Locked
<1>3. CASE ForceStep(j)
  <2>1. To(j, "read") /\ db' = [version |-> job[j].opt.force, dirty |-> FALSE]
    BY <1>3, Zenon DEF ForceStep, ForceTo
  <2>2. job'[j].pc = "read" /\ job'[j].opt = job[j].opt
    BY <2>1, PlacedWhole
  <2>3. Course(job[j])'
    <3>1. db' = [version |-> job'[j].opt.force, dirty |-> FALSE]
      BY <2>1, <2>2
    <3>2. QED
      BY <2>2, <3>1, Zenon DEF Course, Locked
  <2>4. Rebuild(job[j])'
    BY <2>2 DEF Rebuild, Locked
  <2>5. QED
    BY <1>0, <2>1, <2>3, <2>4, PlacedWhole, LoneMoved DEF Lone
<1>4. CASE (Connect(j) /\ job[j].tries # RetryCount) \/ LockDriver(j)
  <2>1. \E pc \in {"driver", "create"} : To(j, pc)
    BY <1>4 DEF Connect, LockDriver
  <2>2. Course(job[j])' /\ Rebuild(job[j])'
    BY <2>1, PlacedWhole DEF Course, Rebuild, Locked
  <2>3. QED
    BY <1>0, <2>1, <2>2, PlacedWhole, LoneMoved DEF Lone
<1>5. QED
  BY <1>1, <1>2, <1>3, <1>4

LEMMA DecideLone ==
  ASSUME TypeOK, LoneInv, NEW j \in Job, ReadVersion(j) \/ AutoForce(j)
  PROVE  LoneInv'
<1> DEFINE m == job[j]
<1>0. /\ Running(j) /\ m \in Run /\ m.opt.force \in Int /\ m.opt.step \in 0 .. Last
      /\ db \in [version : Version, dirty : BOOLEAN]
  BY DEF ReadVersion, AutoForce, Running, Ended, TypeOK, Run, Option
<1>1. ASSUME m.alone PROVE Course(m)
  BY <1>0, <1>1 DEF LoneInv, Lone
<1>2. CASE ReadVersion(j)
  <2> DEFINE pc == IF db.dirty /\ db.version # Nil /\ m.opt.force < 0 THEN "autoforce"
                   ELSE Decide(m.opt, db.version)
             e == [m EXCEPT !.seen = db.version, !.pc = pc]
  <2>1. job' = [job EXCEPT ![j] = e] /\ db' = db
    BY <1>2 DEF ReadVersion, dbVars
  <2>2. \/ pc = "autoforce" /\ db.version # Nil /\ m.opt.force < 0
        \/ /\ ~(db.dirty /\ db.version # Nil /\ m.opt.force < 0)
           /\ \/ pc = "up" /\ db.version = Nil
              \/ pc = "to" /\ db.version # Nil /\ db.version # m.opt.step
              \/ pc = "report" /\ db.version # Nil /\ db.version = m.opt.step
    BY DEF Decide
  <2> HIDE DEF pc
  <2>3. e.seen = db.version /\ e.pc = pc /\ e.opt = m.opt /\ e.alone = m.alone
    BY <1>0 DEF Run
  <2> HIDE DEF e
  <2>4. (\A i \in Job : i # j => job'[i] = job[i]) /\ job'[j] = e
    BY <2>1 DEF TypeOK
  <2>5. ASSUME m.alone PROVE Course(job[j])' /\ Rebuild(job[j])'
    <3>1. m.opt.force >= 0 => db = [version |-> m.opt.force, dirty |-> FALSE]
      BY <1>1, <1>2, <2>5 DEF ReadVersion, Course
    <3>2. pc = "report" => db = [version |-> m.opt.step, dirty |-> FALSE] /\ db.version # Nil
      <4>1. m.opt.force >= 0 => ~db.dirty
        BY <3>1
      <4>2. pc = "report" => ~db.dirty /\ db.version = m.opt.step /\ db.version # Nil
        BY <1>0, <2>2, <4>1
      <4>3. QED
        BY <1>0, <4>2
    <3>3. Course(job[j])'
      BY <2>1, <2>2, <2>3, <2>4, <3>2 DEF Course, Reached, Locked
    <3>4. Rebuild(job[j])'
      <4>1. m.opt.force = 1 /\ m.opt.step = Last => pc = "to" /\ db.version = 1
        BY <2>2, <3>1 DEF Nil, Last
      <4>2. QED
        BY <2>1, <2>3, <2>4, <4>1 DEF Rebuild, Locked
    <3>5. QED
      BY <3>3, <3>4
  <2>6. QED
    BY <1>0, <2>3, <2>4, <2>5, LoneMoved DEF Lone
<1>3. CASE AutoForce(j)
  <2> DEFINE pc == Decide(m.opt, m.seen)
  <2>1. To(j, pc) /\ db' = [version |-> m.seen, dirty |-> FALSE]
    BY <1>3, Zenon DEF AutoForce, ForceTo
  <2>2. ASSUME m.alone PROVE m.opt.force < 0 /\ m.seen # Nil
    BY <1>1, <1>3, <2>2 DEF AutoForce, Course
  <2>3. \/ pc = "up" /\ m.seen = Nil
        \/ pc = "to" /\ m.seen # Nil /\ m.seen # m.opt.step
        \/ pc = "report" /\ m.seen # Nil /\ m.seen = m.opt.step
    BY DEF Decide
  <2> HIDE DEF pc
  <2>4. /\ db'.version = m.seen
        /\ job'[j].pc = pc /\ job'[j].opt = m.opt /\ job'[j].seen = m.seen
    BY <2>1, PlacedWhole
  <2>5. ASSUME m.alone PROVE Course(job[j])' /\ Rebuild(job[j])'
    <3>1. pc = "report" => db' = [version |-> m.opt.step, dirty |-> FALSE] /\ m.seen # Nil
      BY <2>1, <2>3
    <3>2. Course(job[j])'
      BY <2>2, <2>3, <2>4, <2>5, <3>1 DEF Course, Reached, Locked
    <3>3. Rebuild(job[j])'
      BY <1>0, <2>2, <2>3, <2>4, <2>5 DEF Rebuild, Locked
    <3>4. QED
      BY <3>2, <3>3
  <2>6. QED
    BY <1>0, <2>1, <2>5, PlacedWhole, LoneMoved DEF Lone
<1>4. QED
  BY <1>2, <1>3

(* A migration: what the run is at is seen from its record, and it alone   *)
(* changes the version and the tables.                                     *)
LEMMA MigratorWhole ==
  ASSUME TypeOK, NEW j \in Job,
         \/ StartMigration(j) /\ ~Refused(job[j])
         \/ MarkDirty(j) \/ RunFile(j) \/ MarkClean(j) \/ MigrationDone(j)
  PROVE  LET e == job'[j] IN
         /\ \A i \in Job : i # j => job'[i] = job[i]
         /\ Running(j)
         /\ e.opt = job[j].opt /\ e.seen = job[j].seen /\ e.alone = job[j].alone
<1> USE PlacedWhole DEF Running, Ended
<1>1. job \in [Job -> Run] /\ job[j] \in Run
  BY DEF TypeOK
<1>2. CASE StartMigration(j) /\ ~Refused(job[j])
  <2>1. job' = [job EXCEPT ![j] = [job[j] EXCEPT !.pc = "mark", !.op = job[j].pc,
                                                 !.target = Target(job[j])]]
    BY <1>2 DEF StartMigration
  <2>2. QED
    BY <1>1, <1>2, <2>1 DEF StartMigration, Run
<1>3. CASE MarkDirty(j)
  <2> DEFINE up == db.version < job[j].target
             f == IF up THEN Above(db.version) ELSE db.version
  <2>1. job[j].pc = "mark" /\ job' = [job EXCEPT ![j] = [job[j] EXCEPT !.pc = "run", !.up = up,
                                                                       !.file = f]]
    BY <1>3 DEF MarkDirty
  <2> HIDE DEF up, f
  <2>2. QED
    BY <1>1, <2>1 DEF Run
<1>4. CASE RunFile(j)
  BY <1>4 DEF RunFile
<1>5. CASE MarkClean(j)
  BY <1>5 DEF MarkClean
<1>6. CASE MigrationDone(j)
  BY <1>6 DEF MigrationDone
<1>7. QED
  BY <1>2, <1>3, <1>4, <1>5, <1>6

LEMMA StartLone ==
  ASSUME TypeOK, LoneInv, NEW j \in Job, StartMigration(j), ~Refused(job[j])
  PROVE  LoneInv'
<1> DEFINE m == job[j]
           e == job'[j]
<1>1. /\ m \in Run /\ m.pc \in {"down", "up", "to"} /\ db' = db /\ tables' = tables
      /\ ~db.dirty /\ (m.pc = "to" => m.opt.step # 0)
  BY DEF StartMigration, Refused, dbVars, TypeOK
<1>2. e.pc = "mark" /\ e.op = m.pc /\ e.target = Target(m)
  <2>1. job' = [job EXCEPT ![j] = [m EXCEPT !.pc = "mark", !.op = m.pc, !.target = Target(m)]]
    BY DEF StartMigration
  <2>2. QED
    BY <1>1, <2>1 DEF TypeOK, Run
<1>3. /\ \A i \in Job : i # j => job'[i] = job[i]
      /\ Running(j) /\ e.opt = m.opt /\ e.seen = m.seen /\ e.alone = m.alone
  BY MigratorWhole
<1>4. m.opt.step \in 0 .. Last /\ m.seen \in Version
  BY <1>1 DEF Run, Option
<1>5. ASSUME m.alone PROVE Course(m)' /\ Rebuild(m)'
  <2>1. Course(m) /\ Rebuild(m)
    BY <1>3, <1>5 DEF LoneInv, Lone
  <2>2. Errand(m)'
    BY <1>1, <1>2, <1>3, <1>4, <2>1 DEF Errand, Course, Target, Version, Nil, Last
  <2>3. Course(m)'
    BY <1>1, <1>2, <2>2 DEF Course
  <2>4. Rebuild(m)'
    BY <1>1, <1>2, <1>3, <2>1, TablesOf DEF Rebuild, Course, Locked
  <2>5. QED
    BY <2>3, <2>4
<1>6. QED
  BY <1>3, <1>5, LoneMoved DEF Lone

LEMMA DirtyLone ==
  ASSUME TypeOK, LoneInv, NEW j \in Job, MarkDirty(j)
  PROVE  LoneInv'
<1> DEFINE m == job[j]
           e == job'[j]
           up == db.version < m.target
           v == IF up THEN Above(db.version) ELSE Below(db.version)
           f == IF up THEN Above(db.version) ELSE db.version
<1>1. /\ m \in Run /\ m.pc = "mark" /\ tables' = tables
      /\ db \in [version : Version, dirty : BOOLEAN] /\ db.version # m.target
  BY DEF MarkDirty, TypeOK
<1>2. e.pc = "run" /\ e.op = m.op /\ e.target = m.target /\ e.up = up /\ e.file = f
  <2>1. job' = [job EXCEPT ![j] = [m EXCEPT !.pc = "run", !.up = up, !.file = f]]
    BY DEF MarkDirty
  <2> HIDE DEF up, f
  <2>2. QED
    BY <1>1, <2>1 DEF TypeOK, Run
<1>3. db' = [version |-> v, dirty |-> TRUE]
  BY DEF MarkDirty
<1>4. /\ \A i \in Job : i # j => job'[i] = job[i]
      /\ Running(j) /\ e.opt = m.opt /\ e.seen = m.seen /\ e.alone = m.alone
  BY MigratorWhole
<1>5. m.opt.step \in 0 .. Last /\ m.seen \in Version /\ m.target \in Version
      /\ db.version \in Version /\ db'.version = v
  BY <1>1, <1>3 DEF Run, Option
<1>6. ASSUME m.alone PROVE Course(m)' /\ Rebuild(m)'
  <2>1. Course(m) /\ Rebuild(m) /\ Errand(m)
    BY <1>1, <1>4, <1>6 DEF LoneInv, Lone, Course, Locked
  <2>2. m.op = "to" /\ m.seen < m.opt.step => up /\ v <= m.opt.step
    BY <1>1, <1>5, <2>1 DEF Errand, Above, Version, Nil, Last
  <2>3. Errand(m)'
    <3>1. CASE m.op = "to"
      BY <1>2, <1>4, <1>5, <2>1, <2>2, <3>1 DEF Errand
    <3>2. CASE m.op # "to"
      BY <1>2, <1>4, <2>1, <3>2, Zenon DEF Errand
    <3>3. QED
      BY <3>1, <3>2
  <2>4. e.up \/ e.op = "down" \/ (e.op = "to" /\ e.opt.step < e.seen)
    <3>1. up \/ m.op = "down" \/ (m.op = "to" /\ m.opt.step < m.seen)
      <4>1. CASE m.op = "up"
        BY <1>1, <1>5, <2>1, <4>1 DEF Errand, Version, Nil, Last
      <4>2. CASE m.op = "to"
        BY <1>5, <2>1, <2>2, <4>2 DEF Errand, Version, Nil, Last
      <4>3. QED
        BY <2>1, <4>1, <4>2 DEF Errand
    <3>2. QED
      BY <1>2, <1>4, <3>1, Zenon
  <2>5. Course(m)'
    BY <1>2, <2>3, <2>4 DEF Course
  <2>6. Rebuild(m)'
    <3>1. m.opt.force = 1 /\ m.opt.step = Last /\ m.op = "to" =>
            /\ m.seen = 1 /\ db.version >= 1 /\ up
            /\ v = db.version + 1 /\ f = v /\ TablesAt(db.version) \subseteq tables
      BY <1>1, <1>5, <2>1, <2>2 DEF Rebuild, Locked, Above, Version, Nil, Last
    <3>2. m.opt.force = 1 /\ m.opt.step = Last => m.op # "up"
      BY <1>1, <2>1 DEF Rebuild, Locked
    <3>3. v \in Int /\ (v = db.version + 1 => v - 1 = db.version /\ (db.version >= 1 => v >= 1))
      BY <1>5 DEF Above, Below, Version, Nil, Last
    <3> HIDE DEF v, f, up
    <3>4. QED
      BY <1>1, <1>2, <1>4, <1>5, <3>1, <3>2, <3>3 DEF Rebuild, Locked
  <2>7. QED
    BY <2>5, <2>6
<1>7. QED
  BY <1>4, <1>6, LoneMoved DEF Lone

LEMMA FileLone ==
  ASSUME TypeOK, LoneInv, NEW j \in Job, RunFile(j) \/ MarkClean(j)
  PROVE  LoneInv'
<1> DEFINE m == job[j]
           e == job'[j]
<1>1. /\ m \in Run /\ m.pc \in {"run", "clean"} /\ m.file \in 1 .. Last
      /\ db \in [version : Version, dirty : BOOLEAN]
  BY DEF RunFile, MarkClean, TypeOK, Run
<1>2. e.op = m.op /\ e.target = m.target
  BY PlacedWhole DEF RunFile, MarkClean
<1>3. /\ \A i \in Job : i # j => job'[i] = job[i]
      /\ Running(j) /\ e.opt = m.opt /\ e.seen = m.seen /\ e.alone = m.alone
  BY MigratorWhole
<1>4. db'.version = db.version /\ (MarkClean(j) => ~db'.dirty)
  BY <1>1 DEF RunFile, MarkClean
<1>5. /\ RunFile(j) => e.pc = "clean" /\ (m.up => tables' = tables \union Creates(m.file))
      /\ MarkClean(j) => e.pc = "mark" /\ tables' = tables
      /\ RunFile(j) \/ m.pc = "clean"
  BY PlacedWhole DEF RunFile, MarkClean
<1>6. ASSUME m.alone PROVE Course(m)' /\ Rebuild(m)'
  <2>1. Course(m) /\ Rebuild(m) /\ Errand(m)
    BY <1>1, <1>3, <1>6 DEF LoneInv, Lone, Course, Locked
  <2>2. Errand(m)'
    BY <1>2, <1>3, <1>4, <2>1 DEF Errand
  <2>3. Course(m)'
    BY <1>4, <1>5, <2>2 DEF Course
  <2>4. Rebuild(m)'
    <3> SUFFICES ASSUME m.opt.force = 1, m.opt.step = Last PROVE Rebuild(m)'
      BY <1>3 DEF Rebuild
    <3>1. m.op # "up" /\ (m.op = "to" => m.seen = 1 /\ db.version >= 1)
      BY <1>1, <2>1 DEF Rebuild, Locked
    <3>2. m.op = "to" => TablesAt(db.version) \subseteq tables'
      <4>1. CASE RunFile(j)
        BY <1>1, <1>5, <2>1, <4>1, FileSteps DEF Rebuild, RunFile
      <4>2. CASE MarkClean(j)
        BY <1>5, <2>1, <4>2 DEF Rebuild, MarkClean
      <4>3. QED
        BY <4>1, <4>2
    <3>3. QED
      BY <1>2, <1>3, <1>4, <1>5, <3>1, <3>2 DEF Rebuild
  <2>5. QED
    BY <2>3, <2>4
<1>7. QED
  BY <1>3, <1>6, LoneMoved DEF Lone

LEMMA DoneLone ==
  ASSUME TypeOK, LoneInv, NEW j \in Job, MigrationDone(j)
  PROVE  LoneInv'
<1> DEFINE m == job[j]
           e == job'[j]
           pc == IF m.op = "down" THEN AfterDown(m.opt) ELSE "report"
<1>1. /\ m \in Run /\ m.pc = "mark" /\ db.version = m.target /\ To(j, pc)
      /\ db \in [version : Version, dirty : BOOLEAN] /\ db' = db /\ tables' = tables
      /\ tables \subseteq Table
  BY DEF MigrationDone, TypeOK, dbVars
<1>2. /\ \/ pc = "force" /\ m.op = "down"
         \/ pc = "read" /\ m.op = "down" /\ ~(m.opt.force >= 0)
         \/ pc = "report" /\ m.op # "down"
  BY DEF AfterDown
<1> HIDE DEF pc
<1>3. /\ \A i \in Job : i # j => job'[i] = job[i]
      /\ Running(j) /\ e.opt = m.opt /\ e.seen = m.seen /\ e.alone = m.alone /\ e.pc = pc
  BY <1>1, MigratorWhole, PlacedWhole
<1>4. ASSUME m.alone PROVE Course(m)' /\ Rebuild(m)'
  <2>1. Course(m) /\ Rebuild(m) /\ Errand(m) /\ ~db.dirty
    BY <1>1, <1>3, <1>4 DEF LoneInv, Lone, Course, Locked
  <2>2. pc = "report" => db.version = IF m.seen = Nil THEN Last ELSE m.opt.step
    BY <1>1, <1>2, <2>1 DEF Errand
  <2>3. pc = "report" => Reached(m)'
    BY <1>1, <1>3, <2>1, <2>2 DEF Reached
  <2>4. Course(m)'
    BY <1>1, <1>2, <1>3, <2>3 DEF Course, Locked
  <2>5. Rebuild(m)'
    <3>1. m.opt.force = 1 /\ m.opt.step = Last /\ pc = "report" => tables = Table
      BY <1>1, <1>2, <2>1, TablesOf DEF Rebuild, Errand, Locked, Last
    <3>2. QED
      BY <1>1, <1>2, <1>3, <3>1 DEF Rebuild, Locked
  <2>6. QED
    BY <2>4, <2>5
<1>5. QED
  BY <1>3, <1>4, LoneMoved DEF Lone

-----------------------------------------------------------------------------
(* A run that begins beside another is not alone, and takes that from the  *)
(* other.                                                                  *)
LEMMA LaunchLone == ASSUME TypeOK, LoneInv, NEW j \in Job, Launch(j) PROVE LoneInv'
<1> PICK o \in Options :
      job' = [i \in Job |->
         IF i = j
         THEN [Idle EXCEPT !.opt = o, !.alone = \A k \in Job : ~Running(k),
                           !.pc = IF o.force \in -1 .. SchemaSteps THEN "connect" ELSE "failed"]
         ELSE [job[i] EXCEPT !.alone = FALSE]]
  BY DEF Launch
<1> DEFINE b == \A k \in Job : ~Running(k)
           pc == IF o.force \in -1 .. SchemaSteps THEN "connect" ELSE "failed"
<1>1. pc \in {"connect", "failed"}
  OBVIOUS
<1>2. job'[j] = [Idle EXCEPT !.opt = o, !.alone = b, !.pc = pc]
  BY Zenon
<1>3. \A i \in Job : i # j => job'[i] = [job[i] EXCEPT !.alone = FALSE]
  OBVIOUS
<1> HIDE DEF b, pc
<1>4. job'[j].alone = b /\ job'[j].pc = pc
  <2>1. [Idle EXCEPT !.opt = o, !.alone = b, !.pc = pc].alone = b
    BY Zenon DEF Idle
  <2>2. [Idle EXCEPT !.opt = o, !.alone = b, !.pc = pc].pc = pc
    BY DEF Idle
  <2>3. QED
    BY <1>2, <2>1, <2>2, Zenon
<1>5. \A i \in Job : i # j => ~job'[i].alone /\ job'[i].pc = job[i].pc
  <2> SUFFICES ASSUME NEW i \in Job, i # j
               PROVE  ~job'[i].alone /\ job'[i].pc = job[i].pc
    OBVIOUS
  <2>1. job[i] \in Run /\ job'[i] = [job[i] EXCEPT !.alone = FALSE]
    BY <1>3 DEF TypeOK
  <2>2. QED
    BY <2>1 DEF Run
<1> SUFFICES ASSUME NEW i \in Job, Lone(i)'
             PROVE  /\ \A k \in Job : Running(k)' => k = i
                    /\ Course(job[i])' /\ Rebuild(job[i])'
  BY DEF LoneInv
<1>6. i = j /\ b
  BY <1>4, <1>5 DEF Lone
<1>7. pc = "connect"
  BY <1>1, <1>4, <1>6 DEF Lone, Running, Ended
<1>8. \A k \in Job : Running(k)' => k = i
  BY <1>5, <1>6 DEF Running, b
<1>9. QED
  BY <1>4, <1>6, <1>7, <1>8 DEF Course, Rebuild, Locked

LEMMA SameLone ==
  ASSUME LoneInv, UNCHANGED <<db, tables, job>>
  PROVE  LoneInv'
BY DEF LoneInv, Lone, Running, Course, Rebuild, Reached, Errand

LEMMA StepLone == IInv /\ LoneInv /\ [Next]_vars => LoneInv'
<1> SUFFICES ASSUME IInv, LoneInv, [Next]_vars PROVE LoneInv'
  OBVIOUS
<1>1. CASE UNCHANGED vars \/ Fill
  BY <1>1, SameLone DEF vars, dbVars, Fill
<1>2. ASSUME NEW j \in Job, Launch(j) PROVE LoneInv'
  BY <1>2, LaunchLone DEF IInv
<1>3. ASSUME NEW j \in Job, JobStep(j) \/ Stop(j) PROVE LoneInv'
  BY <1>3, EndLone, ArriveLone, DecideLone, StartLone, DirtyLone, FileLone, DoneLone
     DEF IInv, JobStep
<1>4. QED
  BY <1>1, <1>2, <1>3 DEF Next

LEMMA LoneAlways == Spec => [](IInv /\ LoneInv)
<1>1. Init => LoneInv
  BY DEF Init, Idle, LoneInv, Lone, Running
<1>2. QED
  BY <1>1, InitTypeOK, StepIInv, StepLone, PTL DEF Spec, IInv

(* Only Report succeeds, and it comes after the errand is done.            *)
LEMMA OnlyReportSucceeds ==
  ASSUME IInv, LoneInv, [Next]_vars, NEW j \in Job, Succeeds(j), job[j].alone
  PROVE  Reached(job[j]) /\ Rebuild(job[j]) /\ db' = db /\ tables' = tables
<1>1. job[j].pc = "report" /\ job'[j].pc = "ok" /\ Course(job[j]) /\ Rebuild(job[j])
  BY DEF Succeeds, LoneInv, Lone, Running, Ended
<1>2. Reached(job[j])
  BY <1>1 DEF Course
<1>3. CASE UNCHANGED vars \/ Fill
  BY <1>1, <1>2, <1>3 DEF vars, dbVars, Fill
<1>4. CASE \E k \in Job : Launch(k) \/ Stop(k) \/ Connect(k) \/ PingFails(k)
                          \/ LockDriver(k) \/ CreateVersions(k) \/ StartMigration(k)
                          \/ LockTimeout(k) \/ ReadVersion(k) \/ Report(k)
  BY <1>1, <1>2, <1>4
     DEF Launch, Stop, Connect, PingFails, LockDriver, CreateVersions, StartMigration, LockTimeout, ReadVersion, Report, dbVars
<1>5. CASE \E k \in Job : MarkDirty(k) \/ RunFile(k) \/ MarkClean(k) \/ MigrationDone(k)
                          \/ ForceStep(k) \/ AutoForce(k)
  <2> PICK k \in Job : MarkDirty(k) \/ RunFile(k) \/ MarkClean(k) \/ MigrationDone(k)
                       \/ ForceStep(k) \/ AutoForce(k)
    BY <1>5
  <2>1. job[k].pc \in {"mark", "run", "clean", "force", "autoforce"}
    BY DEF MarkDirty, RunFile, MarkClean, MigrationDone, ForceStep, AutoForce
  <2>2. Running(k) /\ k # j
    BY <1>1, <2>1 DEF Running, Ended
  <2>3. Lone(j)
    BY <1>1 DEF Lone, Running, Ended
  <2>4. QED
    BY <2>2, <2>3 DEF LoneInv
<1>6. QED
  BY <1>3, <1>4, <1>5 DEF Next, JobStep

(* SuccessReachesTarget: a run that reports success with no other beside   *)
(* it leaves a clean version, the step it was to go to or the latest where *)
(* there was none, and all the tables of it and no other if no version was *)
(* forced, whatever the runs before it left and BSS stored meanwhile.      *)
THEOREM SuccessTarget == Spec => SuccessReachesTarget
<1> DEFINE T(j) == [version |-> IF job[j].seen = Nil THEN Last ELSE job[j].opt.step,
                    dirty |-> FALSE]
<1>1. ASSUME IInv, LoneInv, [Next]_vars, NEW j \in Job, Succeeds(j), job[j].alone
      PROVE  db' = T(j) /\ (~forced' => tables' = TablesAt(db'.version))
  <2>1. db' = T(j)
    BY <1>1, OnlyReportSucceeds, Zenon DEF Reached
  <2>2. CleanMeansBuilt'
    BY <1>1, StepIInv DEF IInv, FileInv, CleanMeansBuilt
  <2>3. ~db'.dirty
    BY <2>1
  <2>4. QED
    BY <2>1, <2>2, <2>3 DEF CleanMeansBuilt
<1>2. IInv /\ LoneInv /\ [Next]_vars =>
      [\A j \in Job : Succeeds(j) /\ job[j].alone =>
         /\ db' = [version |-> IF job[j].seen = Nil THEN Last ELSE job[j].opt.step,
                   dirty |-> FALSE]
         /\ ~forced' => tables' = TablesAt(db'.version)]_vars
  BY <1>1
<1>3. QED
  BY <1>2, LoneAlways, PTL DEF Spec, SuccessReachesTarget

(* ForceOneRebuilds: forcing step 1 and going to the last one brings every *)
(* table back, whatever the version and the tables were.                   *)
THEOREM ForceOneBuilds == Spec => ForceOneRebuilds
<1>1. ASSUME IInv, LoneInv, [Next]_vars, NEW j \in Job, Succeeds(j), job[j].alone,
             job[j].opt.force = 1, job[j].opt.step = Last
      PROVE  tables' = Table
  BY <1>1, OnlyReportSucceeds DEF Rebuild, Succeeds
<1>2. IInv /\ LoneInv /\ [Next]_vars =>
      [\A j \in Job :
         Succeeds(j) /\ job[j].alone /\ job[j].opt.force = 1 /\ job[j].opt.step = Last
         => tables' = Table]_vars
  BY <1>1
<1>3. QED
  BY <1>2, LoneAlways, PTL DEF Spec, ForceOneRebuilds

(* DataKept: with no other run beside it, a run drops a table with rows    *)
(* only on the way down, which is Down of a fresh start or Migrate to a    *)
(* step below the version it found.                                        *)
THEOREM RowsKept == Spec => DataKept
<1>1. ASSUME IInv, LoneInv, [Next]_vars, NEW j \in Job,
             job[j].pc = "run", job'[j].pc = "clean", job[j].alone
      PROVE  data' = data \/ job[j].opt.fresh \/ job[j].opt.step < job[j].seen
  <2>1. Course(job[j]) /\ Errand(job[j])
    BY <1>1 DEF LoneInv, Lone, Running, Ended, Course, Locked
  <2>2. CASE job[j].up
    <3>1. job' # job
      BY <1>1
    <3>2. PICK k \in Job : Launch(k) \/ JobStep(k) \/ Stop(k)
      BY <1>1, <3>1 DEF Next, vars, Fill
    <3>3. CASE RunFile(k)
      <4>1. Running(k)
        BY <3>3 DEF RunFile, Running, Ended
      <4>2. Lone(j)
        BY <1>1 DEF Running, Lone, Ended
      <4>3. k = j
        BY <1>1, <4>1, <4>2 DEF LoneInv
      <4>4. QED
        BY <2>2, <3>3, <4>3 DEF RunFile
    <3>4. CASE ~RunFile(k)
      BY <3>2, <3>4 DEF Launch, JobStep, Stop, Connect, PingFails, LockDriver, CreateVersions,
           StartMigration, LockTimeout,
           MarkDirty, MarkClean, MigrationDone, ForceStep, AutoForce, ForceTo, ReadVersion,
           Report, dbVars
    <3>5. QED
      BY <3>3, <3>4
  <2>3. CASE ~job[j].up
    BY <1>1, <2>1, <2>3 DEF Course, Errand
  <2>4. QED
    BY <2>2, <2>3
<1> DEFINE A == \A j \in Job : job[j].pc = "run" /\ job'[j].pc = "clean" /\ job[j].alone =>
                  \/ data' = data
                  \/ job[j].opt.fresh
                  \/ job[j].opt.step < job[j].seen
<1>2. IInv /\ LoneInv /\ [Next]_vars => A
  BY <1>1
<1>3. Spec => [][A]_vars
  BY <1>2, LoneAlways, PTL DEF Spec
<1>4. QED
  BY <1>3 DEF DataKept

=============================================================================
