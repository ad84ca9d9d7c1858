-------------------------- MODULE OrchestratorProofs --------------------------
(***************************************************************************)
(* Machine-checked facts about the orchestrator as a process: start-up,    *)
(* migrations and the life of a run (Lifecycle), its release watcher       *)
(* (Watcher) and its table of runners (Registry), for any number of        *)
(* migrations, configuration entries, runs, packages, faults and crashes   *)
(* and for any durations.  The three specifications share no variable.     *)
(***************************************************************************)
EXTENDS Lifecycle, Watcher, Registry, WellFoundedInduction, TLAPS

\* A set of naturals that is not empty has a least element.
LEMMA Smallest ==
    ASSUME NEW S \in SUBSET Nat, S # {}
    PROVE  \E v \in S : \A w \in S : v <= w
<1> DEFINE R == {ss \in Nat \X Nat : ss[1] < ss[2]}
<1>1. IsWellFoundedOn(R, Nat)
  BY NatLessThanWellFounded DEF OpToRel
<1>2. \A v, w \in Nat : w < v => <<w, v>> \in R
  OBVIOUS
<1> HIDE DEF R
<1>3. PICK v \in S : \A w \in S : <<w, v>> \notin R
  BY <1>1, WFMin
<1>4. \A w \in S : ~(w < v)
  BY <1>2, <1>3
<1>5. \A w \in S : v <= w
  BY <1>4
<1>6. QED
  BY <1>5

\* ApplyMigrations goes on with the first file it does not know of: all
\* earlier ones are known.
LEMMA NextVersionIsFirst ==
    ASSUME NEW p \in Procs, known[p] \subseteq Versions, known[p] # Versions
    PROVE  /\ NextVersion(p) \in Versions \ known[p]
           /\ \A w \in Versions : w < NextVersion(p) => w \in known[p]
<1> DEFINE S == Versions \ known[p]
<1>1. S \in SUBSET Nat /\ S # {}
  <2>1. Versions \subseteq Nat
    BY DEF Versions
  <2>2. QED
    BY <2>1
<1>2. \E v \in S : \A w \in S : v <= w
  BY <1>1, Smallest
<1>3. NextVersion(p) \in S /\ \A w \in S : NextVersion(p) <= w
  BY <1>2 DEF NextVersion
<1>4. \A w \in Versions : w < NextVersion(p) => w \in known[p]
  BY <1>1, <1>3
<1>5. QED
  BY <1>3, <1>4

-------------------------------------------------------------------------------
(* Migrations                                                              *)

\* What a process takes for applied is applied.
KnownIsApplied ==
    /\ schema \subseteq Versions
    /\ known \in [Procs -> SUBSET Versions]
    /\ \A p \in Procs : known[p] \subseteq schema

MigrationInv == KnownIsApplied /\ MigrationsAtomic

\* The variables that migrations are about.
migration == <<schema, recorded, phase, cli, known>>

\* One file more is applied: no gap, and version and effect together.
LEMMA ApplyOneStep ==
    ASSUME MigrationInv, NEW p \in Procs, ApplyOne(p)
    PROVE  MigrationInv'
<1> USE DEF MigrationInv, KnownIsApplied
<1> DEFINE v == NextVersion(p)
<1>1. Migrating(p) /\ known[p] # Versions
  BY DEF ApplyOne
<1>2. v \in Versions \ known[p] /\ \A w \in Versions : w < v => w \in known[p]
  BY <1>1, NextVersionIsFirst
<1>3. CASE v \notin schema /\ schema' = schema \cup {v} /\ recorded' = recorded \cup {v}
           /\ known' = [known EXCEPT ![p] = @ \cup {v}] /\ UNCHANGED <<phase, cli>>
  <2> HIDE DEF v
  <2>1. schema # Versions
    BY <1>2, <1>3
  <2>2. KnownIsApplied'
    BY <1>2, <1>3
  <2>3. \A u \in schema' : 1..u \subseteq schema'
    <3>1. 1..v \subseteq schema'
      <4> SUFFICES ASSUME NEW w \in 1..v PROVE w \in schema'
        OBVIOUS
      <4>1. v \in Nat /\ v <= LastVersion /\ LastVersion \in Nat
        BY <1>2, BoundsAssumption DEF Versions
      <4>2. w \in Versions
        BY <4>1 DEF Versions
      <4>3. CASE w = v
        BY <1>3, <4>3
      <4>4. CASE w # v
        <5>1. w < v
          BY <4>1, <4>4
        <5>2. w \in known[p]
          BY <1>2, <4>2, <5>1
        <5>3. QED
          BY <1>3, <5>2
      <4>5. QED
        BY <4>3, <4>4
    <3>2. QED
      BY <1>3, <3>1 DEF MigrationsAtomic
  <2>4. QED
    BY <1>3, <2>1, <2>2, <2>3 DEF MigrationsAtomic
<1>4. CASE MigrateFailed(p)
  BY <1>4 DEF MigrateFailed, MigrationsAtomic
<1>5. QED
  BY <1>3, <1>4 DEF ApplyOne

\* Every other step of the two processes that touches these variables.
LEMMA MigrationStep ==
    ASSUME MigrationInv, [Next]_vars
    PROVE  MigrationInv'
<1> USE DEF MigrationInv, KnownIsApplied, MigrationsAtomic, Procs
<1>1. CASE UNCHANGED migration
  BY <1>1 DEF migration
<1>2. CASE Start
  BY <1>2 DEF Start, tables
<1>3. CASE CliStart
  BY <1>3 DEF CliStart, tables
<1>4. ASSUME NEW p \in Procs, ApplyOne(p) PROVE MigrationInv'
  BY <1>4, ApplyOneStep
<1>5. ASSUME NEW p \in Procs, Migrated(p) PROVE MigrationInv'
  <2>1. schema = Versions
    BY <1>5 DEF Migrated
  <2>2. UNCHANGED <<schema, recorded>> /\ known' = [known EXCEPT ![p] = {}]
    BY <1>5 DEF Migrated, tables
  <2>3. KnownIsApplied'
    BY <2>2
  <2>4. QED
    BY <2>1, <2>2, <2>3
<1>6. CASE AllowlistApplied
  BY <1>6 DEF AllowlistApplied, tables
<1>7. CASE LoadFromFile
  BY <1>7 DEF LoadFromFile
<1>8. CASE ServeWith
  BY <1>8 DEF ServeWith, tables
<1>9. ASSUME NEW e, CliRemove(e) PROVE MigrationInv'
  BY <1>9 DEF CliRemove
<1>10. CASE Crash
  BY <1>10 DEF Crash, tables
<1>11. ASSUME NEW r \in Runs, SubmitScan(r) PROVE MigrationInv'
  BY <1>11 DEF SubmitScan, tables
<1>12. CASE ApplyAllowlist \/ Register \/ Evict \/ RunnerDies \/ RunnerStarts
  BY <1>12, <1>1 DEF ApplyAllowlist, Register, Evict, RunnerDies, RunnerStarts, tables, boot, migration
<1>13. ASSUME NEW r \in Runs, Post(r) \/ GiveUp(r) \/ Progress(r) PROVE MigrationInv'
  BY <1>13, <1>1 DEF Post, GiveUp, Progress, CreateRun, QueueJob, PollJob, Answered, handleEvents,
     handleScanResult, tables, boot, migration
<1>14. CASE UNCHANGED vars
  BY <1>1, <1>14 DEF vars, tables, boot, migration
<1>15. QED
  BY <1>2, <1>3, <1>4, <1>5, <1>6, <1>7, <1>8, <1>9, <1>10, <1>11, <1>12, <1>13, <1>14
     DEF Next, Boot, Console

\* What a process takes for applied is applied, from the start.
LEMMA MigrationInvHolds == Spec => []MigrationInv
<1>1. Init => MigrationInv
  BY DEF Init, MigrationInv, KnownIsApplied, MigrationsAtomic, Procs
<1>2. MigrationInv /\ [Next]_vars => MigrationInv'
  BY MigrationStep
<1>3. QED
  BY <1>1, <1>2, PTL DEF Spec

\* Two processes may apply the migrations at once and die anywhere: the schema
\* is what schema_migrations says, without gaps, and complete when the server
\* or a command starts to work (ApplyMigrations).
THEOREM Migrations == Spec => []MigrationsAtomic
<1>1. MigrationInv => MigrationsAtomic
  BY DEF MigrationInv
<1>2. QED
  BY <1>1, MigrationInvHolds, PTL

-------------------------------------------------------------------------------
(* Configuration                                                           *)

\* What the current phase still has to write, what failed unnoticed and what
\* the operator removed is all that is missing.
ConfigInv ==
    /\ phase = "allow" => CfgAllow \ (excused \cup todo) \subseteq config
    /\ phase = "file" => (CfgAllow \cup FileTargets) \ (excused \cup todo) \subseteq config
    /\ ConfigInForce

\* The variables that the configuration is about.
configuration == <<config, phase, todo, excused>>

\* No step takes an entry out without excusing it, or ends a phase too early.
LEMMA ConfigStep ==
    ASSUME ConfigInv, [Next]_vars
    PROVE  ConfigInv'
<1> USE DEF ConfigInv, ConfigInForce, Serving
<1>1. CASE UNCHANGED configuration
  BY <1>1 DEF configuration
<1>2. CASE Start
  BY <1>2 DEF Start, tables, history
<1>3. ASSUME NEW p \in Procs, ApplyOne(p) PROVE ConfigInv'
  <2>1. UNCHANGED <<config, todo, excused>> /\ (phase' = phase \/ phase' = "down")
    BY <1>3 DEF ApplyOne, MigrateFailed, history
  <2>2. QED
    BY <2>1
<1>4. ASSUME NEW p \in Procs, Migrated(p) PROVE ConfigInv'
  BY <1>4 DEF Migrated, tables, history
<1>5. CASE ApplyAllowlist
  BY <1>5 DEF ApplyAllowlist
<1>6. CASE AllowlistApplied
  BY <1>6 DEF AllowlistApplied, tables, history
<1>7. CASE LoadFromFile
  BY <1>7 DEF LoadFromFile
<1>8. CASE ServeWith
  BY <1>8 DEF ServeWith, tables, history
<1>9. ASSUME NEW e, CliRemove(e) PROVE ConfigInv'
  BY <1>9 DEF CliRemove
<1>10. CASE Crash
  BY <1>10 DEF Crash
<1>11. CASE CliStart \/ Register \/ Evict \/ RunnerDies \/ RunnerStarts
  BY <1>1, <1>11 DEF CliStart, Register, Evict, RunnerDies, RunnerStarts, tables, boot, history,
     configuration
<1>12. ASSUME NEW r \in Runs, SubmitScan(r) \/ Post(r) \/ GiveUp(r) \/ Progress(r) PROVE ConfigInv'
  BY <1>1, <1>12 DEF SubmitScan, Post, GiveUp, Progress, CreateRun, QueueJob, PollJob, Answered,
     handleEvents, handleScanResult, tables, boot, history, configuration
<1>13. CASE UNCHANGED vars
  BY <1>1, <1>13 DEF vars, tables, boot, history, configuration
<1>14. QED
  BY <1>2, <1>3, <1>4, <1>5, <1>6, <1>7, <1>8, <1>9, <1>10, <1>11, <1>12, <1>13
     DEF Next, Boot, Console, Procs

\* When the server listens, both configuration files are in force, but for the
\* entries whose insertion failed unnoticed or that the operator removed
\* (ApplyAllowlist, LoadFromFile), after any number of restarts.
THEOREM Configuration == Spec => []ConfigInForce
<1>1. Init => ConfigInv
  BY DEF Init, ConfigInv, ConfigInForce, Serving
<1>2. ConfigInv /\ [Next]_vars => ConfigInv'
  BY ConfigStep
<1>3. ConfigInv => ConfigInForce
  BY DEF ConfigInv
<1>4. QED
  BY <1>1, <1>2, <1>3, PTL DEF Spec

-------------------------------------------------------------------------------
(* The life of a run                                                       *)

RunTypes ==
    /\ row \in [Runs -> {None, "pending", "done", "failed"}]
    /\ where \in [Runs -> Places]
    /\ attended \subseteq Runs
    /\ orphans \in [Runs -> Nat]
    /\ settled \in [Runs -> {None, "done", "failed"}]

\* A POST that its client waits for belongs to a job on the runner.
AttendedRuns == \A r \in attended : where[r] = "runner"

\* When a result has settled a run, no POST of it is under way any more.
SettledIsQuiet ==
    \A r \in Runs : settled[r] # None => where[r] = "over" /\ orphans[r] = 0 /\ row[r] = settled[r]

RunInv == RunTypes /\ AttendedRuns /\ SettledIsQuiet /\ PendingHasJob

\* The variables that the life of a run is about.
life == <<row, where, attended, orphans, settled, lost>>

\* The runner or the orchestrator dies: jobs in memory are lost with it.
LEMMA DeathStep ==
    ASSUME RunInv, Crash \/ RunnerDies
    PROVE  RunInv'
<1> USE DEF RunInv, RunTypes, AttendedRuns, SettledIsQuiet, PendingHasJob
<1>1. CASE Crash
  <2>1. /\ UNCHANGED <<row, settled>>
        /\ where' = [r \in Runs |-> IF InMemory(r) THEN "over" ELSE where[r]]
        /\ lost' = lost \cup {r \in Runs : InMemory(r)}
        /\ attended' = {} /\ orphans' = [r \in Runs |-> 0]
    BY <1>1 DEF Crash, tables
  <2>2. RunTypes' /\ AttendedRuns'
    BY <2>1 DEF Places
  <2>3. SettledIsQuiet'
    BY <2>1 DEF InMemory
  <2>4. PendingHasJob'
    BY <2>1 DEF InMemory
  <2>5. QED
    BY <2>2, <2>3, <2>4
<1>2. CASE RunnerDies
  <2>1. /\ UNCHANGED <<row, settled>>
        /\ where' = [r \in Runs |-> IF where[r] = "runner" THEN "over" ELSE where[r]]
        /\ lost' = lost \cup {r \in Runs : where[r] = "runner"}
        /\ attended' = {}
        /\ orphans' = [r \in Runs |-> IF r \in attended THEN orphans[r] + 1 ELSE orphans[r]]
    BY <1>2 DEF RunnerDies, tables
  <2>2. RunTypes' /\ AttendedRuns'
    BY <2>1 DEF Places
  <2>3. SettledIsQuiet'
    BY <2>1
  <2>4. PendingHasJob'
    BY <2>1
  <2>5. QED
    BY <2>2, <2>3, <2>4
<1>3. QED
  BY <1>1, <1>2

\* A job moves on, from the submission to the runner.
LEMMA JobStep ==
    ASSUME RunInv, NEW r \in Runs,
           SubmitScan(r) \/ CreateRun(r) \/ QueueJob(r) \/ PollJob(r) \/ Answered(r)
    PROVE  RunInv'
<1> USE DEF RunInv, RunTypes, AttendedRuns, SettledIsQuiet, PendingHasJob
<1>1. UNCHANGED <<attended, orphans, settled>>
  BY DEF SubmitScan, CreateRun, QueueJob, PollJob, Answered, history
<1>2. CASE SubmitScan(r)
  <2>1. where[r] = "new" /\ where' = [where EXCEPT ![r] = "create"] /\ UNCHANGED <<row, lost>>
    BY <1>2 DEF SubmitScan, Go, tables, history
  <2>2. QED
    BY <1>1, <2>1 DEF Places
<1>3. CASE CreateRun(r)
  <2>1. /\ where[r] = "create" /\ where' = [where EXCEPT ![r] = "enqueue"] /\ UNCHANGED lost
        /\ row' = [row EXCEPT ![r] = "pending"] \/ row' = row
    BY <1>3 DEF CreateRun, Go, history
  <2>2. QED
    BY <1>1, <2>1 DEF Places
<1>4. CASE QueueJob(r)
  <2>1. where[r] = "enqueue" /\ where' = [where EXCEPT ![r] = "queued"] /\ UNCHANGED <<row, lost>>
    BY <1>4 DEF QueueJob, Go, tables, history
  <2>2. QED
    BY <1>1, <2>1 DEF Places
<1>5. CASE PollJob(r)
  <2>1. where[r] = "queued" /\ where' = [where EXCEPT ![r] = "answer"] /\ UNCHANGED <<row, lost>>
    BY <1>5 DEF PollJob, Go, tables, history
  <2>2. QED
    BY <1>1, <2>1 DEF Places
<1>6. CASE Answered(r)
  <2>1. /\ where[r] = "answer" /\ UNCHANGED row
        /\ \/ where' = [where EXCEPT ![r] = "runner"] /\ UNCHANGED lost
           \/ where' = [where EXCEPT ![r] = "over"] /\ lost' = lost \cup {r}
    BY <1>6 DEF Answered, Go, tables
  <2>2. QED
    BY <1>1, <2>1 DEF Places
<1>7. QED
  BY <1>2, <1>3, <1>4, <1>5, <1>6

\* Event POSTs and the result.
LEMMA PostStep ==
    ASSUME RunInv, NEW r \in Runs,
           \/ Post(r) \/ GiveUp(r) \/ handleEvents(r)
           \/ \E status \in {"ok", "failed", "timeout"} : handleScanResult(r, status)
    PROVE  RunInv'
<1> USE NoneAssumption DEF RunInv, RunTypes, AttendedRuns, SettledIsQuiet, PendingHasJob
<1>1. CASE Post(r)
  BY <1>1 DEF Post, tables, history
<1>2. CASE GiveUp(r)
  BY <1>2 DEF GiveUp, tables, history
<1>3. CASE handleEvents(r)
  <2>1. /\ UNCHANGED <<where, settled, lost>>
        /\ row' = row \/ row' = [row EXCEPT ![r] = "done"]
        /\ \/ r \in attended /\ attended' = attended \ {r} /\ UNCHANGED orphans
           \/ orphans[r] > 0 /\ orphans' = [orphans EXCEPT ![r] = @ - 1] /\ UNCHANGED attended
    BY <1>3 DEF handleEvents, UpdateRunState, history
  <2>2. settled[r] = None
    BY <2>1
  <2>3. RunTypes' /\ AttendedRuns' /\ PendingHasJob'
    BY <2>1
  <2>4. SettledIsQuiet'
    BY <2>1, <2>2
  <2>5. QED
    BY <2>3, <2>4
<1>4. ASSUME NEW status \in {"ok", "failed", "timeout"}, handleScanResult(r, status)
      PROVE  RunInv'
  <2>1. /\ where[r] = "runner" /\ r \notin attended
        /\ where' = [where EXCEPT ![r] = "over"] /\ UNCHANGED <<attended, orphans>>
    BY <1>4 DEF handleScanResult, Go
  <2>2. StateOf(status) \in {"done", "failed"}
    BY DEF StateOf
  <2>3. CASE UNCHANGED <<row, settled>> /\ lost' = lost \cup {r}
    BY <2>1, <2>3 DEF Places
  <2>4. CASE /\ UpdateRunState(r, StateOf(status)) /\ UNCHANGED lost
             /\ settled' = [settled EXCEPT ![r] = IF row[r] # None /\ orphans[r] = 0
                                                  THEN StateOf(status) ELSE None]
    <3>1. row' = IF row[r] = None THEN row ELSE [row EXCEPT ![r] = StateOf(status)]
      BY <2>4 DEF UpdateRunState
    <3>2. RunTypes' /\ AttendedRuns'
      BY <2>1, <2>2, <2>4, <3>1 DEF Places
    <3>3. PendingHasJob'
      BY <2>1, <2>2, <2>4, <3>1
    <3>4. SettledIsQuiet'
      BY <2>1, <2>2, <2>4, <3>1
    <3>5. QED
      BY <3>2, <3>3, <3>4
  <2>5. QED
    BY <1>4, <2>3, <2>4 DEF handleScanResult
<1>5. QED
  BY <1>1, <1>2, <1>3, <1>4

\* Every step keeps the order of a run's life.
LEMMA RunStep ==
    ASSUME RunInv, [Next]_vars
    PROVE  RunInv'
<1>1. CASE UNCHANGED life
  BY <1>1 DEF life, RunInv, RunTypes, AttendedRuns, SettledIsQuiet, PendingHasJob
<1>2. CASE Boot
  <2>1. UNCHANGED life
    BY <1>2 DEF Boot, Start, ApplyOne, Migrated, ApplyAllowlist, AllowlistApplied, LoadFromFile,
       ServeWith, tables, jobs, history, life
  <2>2. QED
    BY <1>1, <2>1
<1>3. CASE Console
  <2>1. UNCHANGED life
    BY <1>3 DEF Console, CliStart, ApplyOne, Migrated, CliRemove, tables, jobs, history, life
  <2>2. QED
    BY <1>1, <2>1
<1>4. CASE Crash \/ RunnerDies
  BY <1>4, DeathStep
<1>5. CASE Register \/ Evict \/ RunnerStarts
  BY <1>1, <1>5 DEF Register, Evict, RunnerStarts, tables, history, life
<1>6. ASSUME NEW r \in Runs, SubmitScan(r) \/ Progress(r) \/ Post(r) \/ GiveUp(r) PROVE RunInv'
  BY <1>6, JobStep, PostStep DEF Progress
<1>7. CASE UNCHANGED vars
  BY <1>1, <1>7 DEF vars, tables, jobs, history, life
<1>8. QED
  BY <1>2, <1>3, <1>4, <1>5, <1>6, <1>7 DEF Next

\* The order of a run's life is kept from the start.
LEMMA RunsInOrder == Spec => []RunInv
<1>1. Init => RunInv
  BY NoneAssumption
     DEF Init, RunInv, RunTypes, AttendedRuns, SettledIsQuiet, PendingHasJob, Places
<1>2. RunInv /\ [Next]_vars => RunInv'
  BY RunStep
<1>3. QED
  BY <1>1, <1>2, PTL DEF Spec

\* A run is pending only as long as its job is somewhere, or because a crash, a
\* lost answer or a dead runner took it: SubmitScan writes the row before it
\* queues the job.
THEOREM PendingRuns == Spec => []PendingHasJob
<1>1. RunInv => PendingHasJob
  BY DEF RunInv
<1>2. QED
  BY <1>1, RunsInOrder, PTL

\* A result that finds no POST of its run under way is never overwritten
\* (handleEvents writes "done" unconditionally).
THEOREM FinalResults == Spec => []ResultIsFinal
<1>1. RunInv => ResultIsFinal
  BY DEF RunInv, SettledIsQuiet, ResultIsFinal
<1>2. QED
  BY <1>1, RunsInOrder, PTL

-------------------------------------------------------------------------------
(* Types of the rest                                                       *)

\* The files' entries, the two processes, the runner and the history.
ProcessTypes ==
    /\ config \subseteq CfgAllow \cup FileTargets
    /\ todo \subseteq CfgAllow \cup FileTargets
    /\ excused \subseteq CfgAllow \cup FileTargets
    /\ phase \in {"down", "migrate", "allow", "file", "serve"}
    /\ cli \in {"off", "migrate", "ready"}
    /\ runner \in {"up", "dead"} /\ registered \in BOOLEAN
    /\ lost \subseteq Runs

BoundTypes == faults \in 0..MaxFaults /\ crashes \in 0..MaxCrashes /\ clis \in 0..MaxCli

\* Every POST that is under way, waited for or given up, was counted.
PostsCounted ==
    /\ orphans \in [Runs -> Nat]
    /\ posts \in [Runs -> 0..MaxPosts]
    /\ \A r \in Runs : orphans[r] + (IF r \in attended THEN 1 ELSE 0) <= posts[r]

\* Every action of Next keeps them in range.
LEMMA ProcessTypesStep ==
    ASSUME ProcessTypes, [Next]_vars
    PROVE  ProcessTypes'
<1> USE DEF ProcessTypes, tables, boot, jobs, history
<1>1. CASE UNCHANGED vars
  BY <1>1 DEF vars
<1>2. CASE Start \/ CliStart
  BY <1>2 DEF Start, CliStart
<1>3. ASSUME NEW p \in Procs, ApplyOne(p) PROVE ProcessTypes'
  <2>1. /\ UNCHANGED <<config, todo, excused, runner, registered, lost>>
        /\ phase' \in {phase, "down"} /\ cli' \in {cli, "off"}
    BY <1>3 DEF ApplyOne, MigrateFailed
  <2>2. QED
    BY <2>1
<1>4. ASSUME NEW p \in Procs, Migrated(p) PROVE ProcessTypes'
  BY <1>4 DEF Migrated
<1>5. CASE ApplyAllowlist \/ AllowlistApplied \/ LoadFromFile \/ ServeWith
  BY <1>5 DEF ApplyAllowlist, AllowlistApplied, LoadFromFile, ServeWith
<1>6. ASSUME NEW e \in CfgAllow \cup FileTargets, CliRemove(e) PROVE ProcessTypes'
  BY <1>6 DEF CliRemove
<1>7. CASE Crash
  BY <1>7 DEF Crash
<1>8. CASE Register \/ Evict \/ RunnerDies \/ RunnerStarts
  BY <1>8 DEF Register, Evict, RunnerDies, RunnerStarts
<1>9. ASSUME NEW r \in Runs, SubmitScan(r) \/ Progress(r) \/ Post(r) \/ GiveUp(r)
      PROVE  ProcessTypes'
  <2>1. /\ UNCHANGED <<config, todo, excused, phase, runner, registered>>
        /\ cli' \in {cli, "off"}
        /\ lost' \in {lost, lost \cup {r}}
    BY <1>9 DEF SubmitScan, Progress, Post, GiveUp, CreateRun, QueueJob, PollJob, Answered,
                handleEvents, handleScanResult
  <2>2. QED
    BY <2>1
<1>10. QED
  BY <1>1, <1>2, <1>3, <1>4, <1>5, <1>6, <1>7, <1>8, <1>9 DEF Next, Boot, Console, Procs

\* A step succeeds, or uses up one fault, one crash or one command.
LEMMA BoundsStep ==
    ASSUME BoundTypes, [Next]_vars
    PROVE  BoundTypes'
<1>1. CASE UNCHANGED bounds
  BY <1>1 DEF BoundTypes, bounds
<1>2. CASE Fails
  BY <1>2, BoundsAssumption DEF BoundTypes, Fails
<1>3. CASE Crash
  BY <1>3, BoundsAssumption DEF BoundTypes, Crash
<1>4. CASE CliStart
  BY <1>4, BoundsAssumption DEF BoundTypes, CliStart
<1>5. CASE UNCHANGED vars
  BY <1>1, <1>5 DEF vars
<1>6. ASSUME Next, ~Crash, ~CliStart PROVE Fails \/ UNCHANGED bounds
  <2>1. CASE Boot \/ Console
    BY <1>6, <2>1 DEF Boot, Console, Start, ApplyOne, Migrated, ApplyAllowlist, AllowlistApplied,
       LoadFromFile, ServeWith, CliRemove, Succeeds
  <2>2. CASE Register \/ Evict \/ RunnerDies \/ RunnerStarts
    BY <2>2 DEF Register, Evict, RunnerDies, RunnerStarts, Succeeds
  <2>3. ASSUME NEW r \in Runs, SubmitScan(r) \/ Progress(r) \/ Post(r) \/ GiveUp(r)
        PROVE  Fails \/ UNCHANGED bounds
    BY <2>3 DEF SubmitScan, Progress, Post, GiveUp, CreateRun, QueueJob, PollJob, Answered,
                handleEvents, handleScanResult, Succeeds
  <2>4. QED
    BY <1>6, <2>1, <2>2, <2>3 DEF Next
<1>7. QED
  BY <1>1, <1>2, <1>3, <1>4, <1>5, <1>6

\* A POST is counted once, whether the runner waits for it, gives it up or dies.
LEMMA PostsStep ==
    ASSUME PostsCounted, attended \subseteq Runs, [Next]_vars
    PROVE  PostsCounted'
<1> USE DEF PostsCounted
<1>0. MaxPosts \in Nat
  BY BoundsAssumption
<1>1. CASE UNCHANGED <<attended, orphans, posts>>
  BY <1>1
<1>2. ASSUME NEW r \in Runs, Post(r) PROVE PostsCounted'
  <2>1. /\ r \notin attended /\ posts[r] < MaxPosts /\ UNCHANGED orphans
        /\ posts' = [posts EXCEPT ![r] = @ + 1] /\ attended' = attended \cup {r}
    BY <1>2 DEF Post
  <2>2. posts' \in [Runs -> 0..MaxPosts]
    BY <1>0, <2>1
  <2>3. SUFFICES ASSUME NEW q \in Runs
                 PROVE  orphans'[q] + (IF q \in attended' THEN 1 ELSE 0) <= posts'[q]
    BY <2>1, <2>2
  <2>4. QED
    BY <2>1
<1>3. ASSUME NEW r \in Runs, GiveUp(r) PROVE PostsCounted'
  <2>1. /\ r \in attended /\ UNCHANGED posts
        /\ attended' = attended \ {r} /\ orphans' = [orphans EXCEPT ![r] = @ + 1]
    BY <1>3 DEF GiveUp
  <2>2. QED
    BY <2>1
<1>4. ASSUME NEW r \in Runs, handleEvents(r) PROVE PostsCounted'
  <2>1. /\ UNCHANGED posts
        /\ \/ attended' = attended \ {r} /\ UNCHANGED orphans
           \/ /\ orphans[r] > 0 /\ orphans' = [orphans EXCEPT ![r] = @ - 1]
              /\ UNCHANGED attended
    BY <1>4 DEF handleEvents
  <2>2. CASE attended' = attended \ {r} /\ UNCHANGED orphans
    BY <2>1, <2>2
  <2>3. CASE /\ orphans[r] > 0 /\ orphans' = [orphans EXCEPT ![r] = @ - 1]
             /\ UNCHANGED attended
    BY <2>1, <2>3
  <2>4. QED
    BY <2>1, <2>2, <2>3
<1>5. CASE Crash
  <2>1. attended' = {} /\ orphans' = [r \in Runs |-> 0] /\ UNCHANGED posts
    BY <1>5 DEF Crash
  <2>2. QED
    BY <2>1
<1>6. CASE RunnerDies
  <2>1. /\ attended' = {} /\ UNCHANGED posts
        /\ orphans' = [r \in Runs |-> IF r \in attended THEN orphans[r] + 1 ELSE orphans[r]]
    BY <1>6 DEF RunnerDies
  <2>2. QED
    BY <2>1
<1>7. CASE UNCHANGED vars
  BY <1>1, <1>7 DEF vars, jobs
<1>8. CASE Boot \/ Console
  BY <1>1, <1>8 DEF Boot, Console, Start, CliStart, ApplyOne, Migrated, ApplyAllowlist,
     AllowlistApplied, LoadFromFile, ServeWith, CliRemove, jobs
<1>9. CASE Register \/ Evict \/ RunnerStarts
  BY <1>1, <1>9 DEF Register, Evict, RunnerStarts
<1>10. ASSUME NEW r \in Runs,
              \/ SubmitScan(r) \/ CreateRun(r) \/ QueueJob(r) \/ PollJob(r) \/ Answered(r)
              \/ \E status \in {"ok", "failed", "timeout"} : handleScanResult(r, status)
       PROVE  PostsCounted'
  BY <1>1, <1>10 DEF SubmitScan, CreateRun, QueueJob, PollJob, Answered, handleScanResult
<1>11. QED
  BY <1>2, <1>3, <1>4, <1>5, <1>6, <1>7, <1>8, <1>9, <1>10 DEF Next, Progress

\* Types and bounds of the orchestrator's process model hold in every state: no
\* run has more POSTs under way, given up or not, than its runner has sent.
THEOREM LifecycleTypes == Spec => []TypeOK
<1> DEFINE Inv == ProcessTypes /\ BoundTypes /\ PostsCounted
<1>1. Init => Inv
  <2> SUFFICES ASSUME Init PROVE Inv
    OBVIOUS
  <2>1. ProcessTypes
    BY DEF Init, ProcessTypes
  <2>2. BoundTypes
    BY BoundsAssumption DEF Init, BoundTypes
  <2>3. PostsCounted
    BY BoundsAssumption DEF Init, PostsCounted
  <2>4. QED
    BY <2>1, <2>2, <2>3
<1>2. RunInv /\ Inv /\ [Next]_vars => Inv'
  BY ProcessTypesStep, BoundsStep, PostsStep DEF RunInv, RunTypes
<1>3. MigrationInv /\ RunInv /\ Inv => TypeOK
  <2> SUFFICES ASSUME MigrationInv, RunInv, Inv PROVE TypeOK
    OBVIOUS
  <2>1. /\ schema \subseteq Versions /\ recorded \subseteq Versions
        /\ known \in [Procs -> SUBSET Versions]
    BY DEF MigrationInv, KnownIsApplied, MigrationsAtomic
  <2>2. orphans \in [Runs -> 0..MaxPosts]
    <3> SUFFICES ASSUME NEW r \in Runs PROVE orphans[r] \in 0..MaxPosts
      BY DEF PostsCounted
    <3>1. orphans[r] \in Nat /\ orphans[r] <= posts[r] /\ posts[r] \in 0..MaxPosts
      BY DEF PostsCounted
    <3>2. QED
      BY <3>1, BoundsAssumption
  <2>3. QED
    BY <2>1, <2>2 DEF TypeOK, RunInv, RunTypes, ProcessTypes, BoundTypes, PostsCounted
<1> HIDE DEF Inv
<1>4. Spec => []MigrationInv
  BY MigrationInvHolds
<1>5. QED
  BY <1>1, <1>2, <1>3, <1>4, RunsInOrder, PTL DEF Spec

-------------------------------------------------------------------------------
(* The release watcher                                                     *)

\* One more scan of a version is counted, up to the bound and for that version only.
LEMMA CountedScan ==
    ASSUME NEW count \in [Packages -> [ReleaseVersions -> 0..(MaxTurns + 1)]],
           NEW p \in Packages, NEW v \in ReleaseVersions
    PROVE  /\ CountScan(count, p, v) \in [Packages -> [ReleaseVersions -> 0..(MaxTurns + 1)]]
           /\ \A q \in Packages, w \in ReleaseVersions :
                  <<q, w>> # <<p, v>> => CountScan(count, p, v)[q][w] = count[q][w]
           /\ CountScan(count, p, v)[p][v] # 0
           /\ count[p][v] <= MaxTurns => CountScan(count, p, v)[p][v] = count[p][v] + 1
BY TurnsAssumption DEF CountScan

\* UPDATE packages leaves every other row alone, and stamps the row it is for
\* unless it is gone or the call fails.
LEMMA RowUpdate ==
    ASSUME NEW p \in Packages, NEW v \in 0..MaxVersion,
           watched \in [Packages -> 0..MaxVersion \cup {Unwatched}],
           UpdatePackageCheck(p, v)
    PROVE  /\ watched' \in [Packages -> 0..MaxVersion \cup {Unwatched}]
           /\ \A q \in Packages : q # p => watched'[q] = watched[q]
           /\ watched'[p] = watched[p] \/ (watched[p] # Unwatched /\ watched'[p] = v)
           /\ \A q \in Packages : watched'[q] = Unwatched <=> watched[q] = Unwatched
BY VersionAssumption DEF UpdatePackageCheck

\* The versions that can be released are those a row can hold, but for "unseen".
LEMMA VersionRange ==
    /\ ReleaseVersions = {v \in 0..MaxVersion : v # Unseen}
    /\ \A v \in 0..MaxVersion : v # Unwatched
BY VersionAssumption DEF ReleaseVersions, Unseen

\* The parts of the type invariant that the steps below rest on.
LEMMA WatcherHas ==
    ASSUME WatcherTypeOK
    PROVE  /\ watched \in [Packages -> 0..MaxVersion \cup {Unwatched}]
           /\ wcur \in Packages /\ wver \in 0..MaxVersion /\ wver # Unwatched
           /\ apkg \in Packages /\ aver \in 0..MaxVersion
           /\ latest \in [Packages -> ReleaseVersions]
           /\ turns \in [Packages -> [ReleaseVersions -> 0..MaxTurns]]
           /\ wscans \in [Packages -> [ReleaseVersions -> 0..(MaxTurns + 1)]]
           /\ kscans \in [Packages -> [ReleaseVersions -> 0..(MaxTurns + 1)]]
           /\ wpc \in {"stamp", "record", "submit"} => wver \in ReleaseVersions
           /\ apc \in {"stamp", "kickoff"} => aver \in ReleaseVersions
<1>1. /\ watched \in [Packages -> 0..MaxVersion \cup {Unwatched}]
      /\ wcur \in Packages /\ wver \in 0..MaxVersion
      /\ apkg \in Packages /\ aver \in 0..MaxVersion
  BY DEF WatcherTypeOK
<1>2. /\ latest \in [Packages -> ReleaseVersions]
      /\ turns \in [Packages -> [ReleaseVersions -> 0..MaxTurns]]
      /\ wscans \in [Packages -> [ReleaseVersions -> 0..(MaxTurns + 1)]]
      /\ kscans \in [Packages -> [ReleaseVersions -> 0..(MaxTurns + 1)]]
  BY DEF WatcherTypeOK
<1>3. /\ wpc \in {"stamp", "record", "submit"} => wver # Unseen
      /\ apc \in {"stamp", "kickoff"} => aver # Unseen
  BY DEF WatcherTypeOK
<1>4. QED
  BY <1>1, <1>2, <1>3, VersionRange

\* The watcher's steps keep the types; a version is in hand before it is used.
LEMMA PollTypes ==
    ASSUME WatcherTypeOK, \/ PollStep
           \/ \E p \in Packages : PollFetch(p) \/ PollFetchFails(p)
    PROVE  WatcherTypeOK'
<1> USE DEF WatcherTypeOK, database, environment, registry, adder, scans, scanHistory, Unseen
<1>1. CASE PollStart
  BY <1>1 DEF PollStart
<1>2. CASE PollEnd
  BY <1>2 DEF PollEnd
<1>3. ASSUME NEW p \in Packages, PollFetch(p) PROVE WatcherTypeOK'
  <2>1. wver' \in 0..MaxVersion /\ wver' # Unseen
    BY <1>3, WatcherHas, VersionRange DEF PollFetch
  <2>2. QED
    BY <1>3, <2>1 DEF PollFetch
<1>4. ASSUME NEW p \in Packages, PollFetchFails(p) PROVE WatcherTypeOK'
  BY <1>4 DEF PollFetchFails
<1>5. CASE PollStamp
  <2>1. watched' \in [Packages -> 0..MaxVersion \cup {Unwatched}]
    BY <1>5, RowUpdate DEF PollStamp
  <2>2. QED
    BY <1>5, <2>1 DEF PollStamp
<1>6. CASE PollRecord
  <2>1. wver \in ReleaseVersions
    BY <1>6, VersionAssumption DEF PollRecord, ReleaseVersions
  <2>2. releases' \subseteq Packages \X ReleaseVersions
    BY <1>6, <2>1 DEF PollRecord
  <2>3. QED
    BY <1>6, <2>2 DEF PollRecord
<1>7. CASE PollSubmit
  <2>1. wver \in ReleaseVersions
    BY <1>7, VersionAssumption DEF PollSubmit, ReleaseVersions
  <2>2. wscans' \in [Packages -> [ReleaseVersions -> 0..(MaxTurns + 1)]]
    BY <1>7, <2>1, CountedScan DEF PollSubmit
  <2>3. refused' \subseteq Packages \X ReleaseVersions
    BY <1>7, <2>1 DEF PollSubmit, Refuse
  <2>4. QED
    BY <1>7, <2>2, <2>3 DEF PollSubmit
<1>8. QED
  BY <1>1, <1>2, <1>3, <1>4, <1>5, <1>6, <1>7 DEF PollStep

\* So do the operator's `package add` and `package remove`.
LEMMA OperatorTypes ==
    ASSUME WatcherTypeOK, \/ AddStep
           \/ \E p \in Packages : AddStart(p) \/ PackageRemove(p)
    PROVE  WatcherTypeOK'
<1> USE DEF WatcherTypeOK, database, environment, registry, watcher, adder, scans, scanHistory, Unseen
<1>1. ASSUME NEW p \in Packages, AddStart(p) PROVE WatcherTypeOK'
  <2>1. aver' \in 0..MaxVersion
    <3>1. aver' \in {latest[p], Unseen} /\ latest[p] \in 0..MaxVersion
      BY <1>1, WatcherHas, VersionRange DEF AddStart
    <3>2. QED
      BY <3>1, VersionAssumption
  <2>2. adds' \in 0..MaxAdds
    BY <1>1, EditsAssumption DEF AddStart
  <2>3. QED
    BY <1>1, <2>1, <2>2 DEF AddStart
<1>2. CASE AddInsert
  <2>1. watched' \in [Packages -> 0..MaxVersion \cup {Unwatched}]
    BY <1>2, VersionAssumption DEF AddInsert
  <2>2. QED
    BY <1>2, <2>1 DEF AddInsert
<1>3. CASE AddStamp
  <2>1. watched' \in [Packages -> 0..MaxVersion \cup {Unwatched}]
    BY <1>3, RowUpdate DEF AddStamp
  <2>2. QED
    BY <1>3, <2>1 DEF AddStamp, Touch
<1>4. CASE AddKickoff
  <2>1. aver \in ReleaseVersions
    BY <1>4, VersionAssumption DEF AddKickoff, ReleaseVersions
  <2>2. kscans' \in [Packages -> [ReleaseVersions -> 0..(MaxTurns + 1)]]
    <3>1. CountScan(kscans, apkg, aver) \in [Packages -> [ReleaseVersions -> 0..(MaxTurns + 1)]]
      BY <2>1, CountedScan
    <3>2. QED
      BY <1>4, <3>1 DEF AddKickoff
  <2>3. /\ refused' \subseteq Packages \X ReleaseVersions
        /\ waived' \subseteq Packages \X ReleaseVersions
    BY <1>4, <2>1 DEF AddKickoff, Refuse
  <2>4. QED
    BY <1>4, <2>2, <2>3 DEF AddKickoff
<1>5. ASSUME NEW p \in Packages, PackageRemove(p) PROVE WatcherTypeOK'
  BY <1>5 DEF PackageRemove, Touch
<1>6. QED
  BY <1>1, <1>2, <1>3, <1>4, <1>5 DEF AddStep

\* And so do the registry, the runner fleet and a restart.
LEMMA SurroundingsTypes ==
    ASSUME WatcherTypeOK, \/ RunnersGone \/ RunnerBack \/ Restart
           \/ \E p \in Packages, v \in ReleaseVersions : Publish(p, v)
    PROVE  WatcherTypeOK'
<1> USE DEF WatcherTypeOK, database, environment, registry, watcher, adder, scans, scanHistory, Unseen
<1>1. ASSUME NEW p \in Packages, NEW v \in ReleaseVersions, Publish(p, v) PROVE WatcherTypeOK'
  <2>1. latest' \in [Packages -> ReleaseVersions]
    BY <1>1 DEF Publish
  <2>2. turns' \in [Packages -> [ReleaseVersions -> 0..MaxTurns]] /\ moves' \in 0..MaxMoves
    BY <1>1, TurnsAssumption DEF Publish
  <2>3. QED
    BY <1>1, <2>1, <2>2 DEF Publish
<1>2. CASE RunnersGone
  <2>1. outages' \in 0..MaxOutages
    BY <1>2, EditsAssumption DEF RunnersGone
  <2>2. QED
    BY <1>2, <2>1 DEF RunnersGone
<1>3. CASE RunnerBack
  BY <1>3 DEF RunnerBack
<1>4. CASE Restart
  <2>1. wpc \in {"record", "submit"} => wver \in ReleaseVersions
    BY VersionAssumption DEF ReleaseVersions
  <2>2. refused' \subseteq Packages \X ReleaseVersions
    BY <1>4, <2>1 DEF Restart
  <2>3. outages' \in 0..MaxOutages
    BY <1>4, EditsAssumption DEF Restart
  <2>4. QED
    BY <1>4, <2>2, <2>3 DEF Restart
<1>5. QED
  BY <1>1, <1>2, <1>3, <1>4

\* The watcher starts with rows of the right kind and nothing queued.
LEMMA WatcherTypesInit ==
    ASSUME WatcherInit
    PROVE  WatcherTypeOK
<1> USE DEF WatcherInit
<1>1. /\ watched \in [Packages -> 0..MaxVersion \cup {Unwatched}]
      /\ wrows \in [Packages -> 0..MaxVersion \cup {Unwatched}]
  BY RowsAssumption
<1>2. /\ latest \in [Packages -> ReleaseVersions]
      /\ {wver, aver} \subseteq 0..MaxVersion
      /\ outages \in 0..MaxOutages /\ adds \in 0..MaxAdds
  BY VersionAssumption, EditsAssumption DEF ReleaseVersions, Unseen
<1>3. /\ turns \in [Packages -> [ReleaseVersions -> 0..MaxTurns]]
      /\ moves \in 0..MaxMoves
  BY TurnsAssumption
<1>4. /\ wscans \in [Packages -> [ReleaseVersions -> 0..(MaxTurns + 1)]]
      /\ kscans \in [Packages -> [ReleaseVersions -> 0..(MaxTurns + 1)]]
  BY TurnsAssumption DEF NoScans
<1>5. QED
  BY <1>1, <1>2, <1>3, <1>4 DEF WatcherTypeOK, Unseen

\* Every step of Watcher keeps its types.
LEMMA WatcherTypesStep ==
    ASSUME WatcherTypeOK, [WatcherNext]_watcherVars
    PROVE  WatcherTypeOK'
<1>1. CASE UNCHANGED watcherVars
  BY <1>1 DEF WatcherTypeOK, watcherVars, database, environment, registry, watcher, adder,
              scans, scanHistory, Unseen
<1>2. CASE WatcherNext
  BY <1>2, PollTypes, OperatorTypes, SurroundingsTypes DEF WatcherNext
<1>3. QED
  BY <1>1, <1>2

\* Types of the watcher hold in every state; in particular PollStamp, RecordRelease,
\* the submission and `package add` never use a version that no registry call has
\* returned.
THEOREM WatcherTypes == WatcherSpec => []WatcherTypeOK
<1>1. WatcherInit => WatcherTypeOK
  BY WatcherTypesInit
<1>2. WatcherTypeOK /\ [WatcherNext]_watcherVars => WatcherTypeOK'
  BY WatcherTypesStep
<1>3. QED
  BY <1>1, <1>2, PTL DEF WatcherSpec

\* Every step keeps the release rows of watched packages only: a stamp never
\* revives or drops a row, the insert needs one and the delete cascades.
LEMMA ReleasesWatchedStep ==
    ASSUME WatcherTypeOK, ReleasesAreWatched, [WatcherNext]_watcherVars
    PROVE  ReleasesAreWatched'
<1> USE DEF ReleasesAreWatched
<1>0. /\ watched \in [Packages -> 0..MaxVersion \cup {Unwatched}]
      /\ wcur \in Packages /\ wver \in 0..MaxVersion
      /\ apkg \in Packages /\ aver \in 0..MaxVersion
      /\ \A x \in releases : x[1] \in Packages
  BY DEF WatcherTypeOK
<1>1. ASSUME UNCHANGED <<watched, releases>> PROVE ReleasesAreWatched'
  BY <1>1
<1>2. CASE PollStamp
  <2>1. \A q \in Packages : watched'[q] = Unwatched <=> watched[q] = Unwatched
    BY <1>0, <1>2, RowUpdate DEF PollStamp
  <2>2. QED
    BY <1>0, <1>2, <2>1 DEF PollStamp
<1>3. CASE PollRecord
  BY <1>0, <1>3 DEF PollRecord
<1>4. CASE AddInsert
  <2>1. \A q \in Packages : watched[q] # Unwatched => watched'[q] # Unwatched
    BY <1>0, <1>4, VersionAssumption DEF AddInsert, Unseen
  <2>2. QED
    BY <1>0, <1>4, <2>1 DEF AddInsert
<1>5. CASE AddStamp
  <2>1. \A q \in Packages : watched'[q] = Unwatched <=> watched[q] = Unwatched
    BY <1>0, <1>5, RowUpdate DEF AddStamp
  <2>2. QED
    BY <1>0, <1>5, <2>1 DEF AddStamp
<1>6. ASSUME NEW p \in Packages, PackageRemove(p) PROVE ReleasesAreWatched'
  <2>1. \A x \in releases' : x \in releases /\ x[1] # p
    BY <1>6 DEF PackageRemove
  <2>2. \A q \in Packages : q # p => watched'[q] = watched[q]
    BY <1>0, <1>6 DEF PackageRemove
  <2>3. QED
    BY <1>0, <2>1, <2>2
<1>7. CASE UNCHANGED watcherVars
  BY <1>1, <1>7 DEF watcherVars, database
<1>8. ASSUME WatcherNext,
             ~PollStamp, ~PollRecord, ~AddInsert, ~AddStamp,
             ~\E p \in Packages : PackageRemove(p)
      PROVE  UNCHANGED <<watched, releases>>
  BY <1>8 DEF WatcherNext, PollStep, AddStep, PollStart, PollEnd, PollSubmit,
              PollFetch, PollFetchFails, AddStart, AddKickoff, Publish,
              RunnersGone, RunnerBack, Restart, database
<1>9. QED
  BY <1>1, <1>2, <1>3, <1>4, <1>5, <1>6, <1>7, <1>8

\* No release row outlives its package, or is recorded for one that is gone,
\* however `package remove` falls between the steps of a poll.
THEOREM ReleasesWatched == WatcherSpec => []ReleasesAreWatched
<1>1. WatcherInit => ReleasesAreWatched
  BY DEF WatcherInit, ReleasesAreWatched
<1>2. WatcherTypeOK /\ ReleasesAreWatched /\ [WatcherNext]_watcherVars => ReleasesAreWatched'
  BY ReleasesWatchedStep
<1>3. WatcherSpec => []WatcherTypeOK
  BY WatcherTypes
<1>4. QED
  BY <1>1, <1>2, <1>3, PTL DEF WatcherSpec

\* The package being polled has left the cycle's list.
OffTheList == wpc \in {"stamp", "record", "submit"} => wcur \notin wtodo

\* A row still to be polled is as the cycle read it.
CopyIsCurrent(p) == p \in wtodo => wrows[p] = watched[p] /\ watched[p] # Unwatched

\* The registry has made v the latest version more often than the watcher has
\* queued it.
Due(p, v) == wscans[p][v] < turns[p][v]

\* Nothing was queued too often, and a tag that differs from the row is due.
QueuedInTurn(p) ==
    /\ \A v \in ReleaseVersions : wscans[p][v] <= turns[p][v]
    /\ latest[p] # watched[p] => Due(p, latest[p])

\* The version fetched is due unless the row, which it is going to be compared
\* with, has it already; so is a version that the tag has moved to since.
FetchedIsDue(p) ==
    wpc = "stamp" /\ wcur = p =>
        /\ wrows[p] = watched[p] /\ watched[p] # Unwatched
        /\ wver # watched[p] => Due(p, wver)
        /\ wver # latest[p] => Due(p, latest[p])

\* Between the stamp and the submission the row holds the version, and it is
\* still due.
StampedIsDue(p) ==
    wpc \in {"record", "submit"} /\ wcur = p => watched[p] = wver /\ Due(p, wver)

ScanInv(p) ==
    CopyIsCurrent(p) /\ QueuedInTurn(p) /\ FetchedIsDue(p) /\ StampedIsDue(p)

OnceInv == OffTheList /\ \A p \in Packages \ touched : ScanInv(p)

\* Every step keeps the package being polled off the list.
LEMMA OffTheListStep ==
    ASSUME WatcherTypeOK, OffTheList, [WatcherNext]_watcherVars
    PROVE  OffTheList'
<1>1. CASE UNCHANGED <<wpc, wcur, wtodo>>
  BY <1>1 DEF OffTheList
<1>2. CASE wpc' \in {"idle", "next"}
  BY <1>2 DEF OffTheList
<1>3. ASSUME NEW p \in Packages, PollFetch(p) PROVE OffTheList'
  BY <1>3 DEF PollFetch, OffTheList
<1>4. CASE PollStamp
  BY <1>4 DEF PollStamp, OffTheList
<1>5. CASE PollRecord
  BY <1>5 DEF PollRecord, OffTheList
<1>6. CASE UNCHANGED watcherVars
  BY <1>1, <1>6 DEF watcherVars, watcher
<1>7. ASSUME WatcherNext, ~PollStamp, ~PollRecord, ~\E p \in Packages : PollFetch(p)
      PROVE  wpc' \in {"idle", "next"} \/ UNCHANGED <<wpc, wcur, wtodo>>
  BY <1>7 DEF WatcherNext, PollStep, AddStep, PollStart, PollEnd, PollSubmit,
              PollFetchFails, AddStart, AddInsert, AddStamp, AddKickoff,
              PackageRemove, Publish, RunnersGone, RunnerBack, Restart, watcher
<1>8. QED
  BY <1>1, <1>2, <1>3, <1>4, <1>5, <1>6, <1>7

\* A row the operator has touched stays touched.
LEMMA TouchedStays ==
    ASSUME [WatcherNext]_watcherVars
    PROVE  touched \subseteq touched'
BY DEF WatcherNext, PollStep, AddStep, PollStart, PollEnd, PollStamp, PollRecord,
       PollSubmit, PollFetch, PollFetchFails, AddStart, AddInsert, AddStamp,
       AddKickoff, PackageRemove, Publish, RunnersGone, RunnerBack, Restart,
       Touch, watcherVars, scans, scanHistory

\* A cycle starts from the rows as they are, and fetches a version that is due
\* or in the row already.
LEMMA ScanInvFetch ==
    ASSUME WatcherTypeOK, OffTheList,
           NEW p \in Packages, ScanInv(p),
           \/ PollStart \/ PollEnd
           \/ \E q \in Packages : PollFetch(q) \/ PollFetchFails(q)
    PROVE  ScanInv(p)'
<1> USE DEF database, environment, registry, scans
<1>0. UNCHANGED <<watched, latest, turns, wscans>>
  BY DEF PollStart, PollEnd, PollFetch, PollFetchFails
<1>1. QueuedInTurn(p)'
  BY <1>0 DEF QueuedInTurn, Due, ScanInv
<1>2. CopyIsCurrent(p)'
  BY <1>0 DEF PollStart, PollEnd, PollFetch, PollFetchFails, CopyIsCurrent, ScanInv
<1>3. wpc' \notin {"record", "submit"}
  BY DEF PollStart, PollEnd, PollFetch, PollFetchFails
<1>4. FetchedIsDue(p)'
  <2>1. CASE wpc' # "stamp"
    BY <2>1 DEF FetchedIsDue
  <2>2. ASSUME PollFetch(p) PROVE FetchedIsDue(p)'
    <3>1. /\ wrows'[p] = watched[p] /\ watched[p] # Unwatched
          /\ wver' = latest[p]
      BY <2>2 DEF PollFetch, CopyIsCurrent, ScanInv
    <3>2. wver' # watched[p] => Due(p, wver')
      BY <3>1 DEF QueuedInTurn, ScanInv
    <3>3. QED
      BY <1>0, <3>1, <3>2 DEF FetchedIsDue, Due
  <2>3. ASSUME NEW q \in Packages, PollFetch(q), q # p PROVE FetchedIsDue(p)'
    BY <2>3 DEF PollFetch, FetchedIsDue
  <2>4. wpc' = "stamp" => \E q \in Packages : PollFetch(q)
    BY DEF PollStart, PollEnd, PollFetchFails
  <2>5. QED
    BY <2>1, <2>2, <2>3, <2>4
<1>5. QED
  BY <1>1, <1>2, <1>3, <1>4 DEF ScanInv, StampedIsDue

\* The stamp: a version that differs from the row it was compared with is due,
\* and so is one that the tag has moved to in the meantime.
LEMMA ScanInvStamp ==
    ASSUME WatcherTypeOK, OffTheList,
           NEW p \in Packages, p \notin touched', ScanInv(p), PollStamp
    PROVE  ScanInv(p)'
<1>0. /\ wpc = "stamp" /\ wpc' \in {"next", "record"}
      /\ UNCHANGED <<wrows, wtodo, wcur, wver, latest, turns, wscans>>
      /\ wpc' = "record" => wver # wrows[wcur]
      /\ wcur = p => watched'[p] = wver
  BY DEF PollStamp, environment, registry
<1>1. /\ watched \in [Packages -> 0..MaxVersion \cup {Unwatched}]
      /\ wver \in ReleaseVersions /\ wcur \in Packages
  BY <1>0, WatcherHas
<1>2. wcur # p => watched'[p] = watched[p]
  BY <1>1, RowUpdate DEF PollStamp, ReleaseVersions
<1>3. CASE wcur # p
  BY <1>0, <1>2, <1>3 DEF ScanInv, CopyIsCurrent, QueuedInTurn, FetchedIsDue, StampedIsDue, Due
<1>4. CASE wcur = p
  <2>1. /\ wrows[p] = watched[p]
        /\ wver # watched[p] => Due(p, wver)
        /\ wver # latest[p] => Due(p, latest[p])
    BY <1>0, <1>4 DEF FetchedIsDue, ScanInv
  <2>2. QueuedInTurn(p)'
    BY <1>0, <1>4, <2>1 DEF ScanInv, QueuedInTurn, Due
  <2>3. CopyIsCurrent(p)'
    BY <1>0, <1>4 DEF CopyIsCurrent, OffTheList
  <2>4. StampedIsDue(p)'
    BY <1>0, <1>4, <2>1 DEF StampedIsDue, Due
  <2>5. QED
    BY <1>0, <2>2, <2>3, <2>4 DEF ScanInv, FetchedIsDue
<1>5. QED
  BY <1>3, <1>4

\* The submission queues the stamped version, which was due.
LEMMA ScanInvSubmit ==
    ASSUME WatcherTypeOK, OffTheList,
           NEW p \in Packages, ScanInv(p), PollRecord \/ PollSubmit
    PROVE  ScanInv(p)'
<1> USE DEF database, environment, registry, scans
<1>0. /\ wpc \in {"record", "submit"} /\ wpc' \in {"submit", "next"}
      /\ UNCHANGED <<watched, wrows, wtodo, wcur, wver, latest, turns>>
  BY DEF PollRecord, PollSubmit
<1>1. /\ wver \in ReleaseVersions /\ wcur \in Packages
      /\ wscans \in [Packages -> [ReleaseVersions -> 0..(MaxTurns + 1)]]
      /\ turns \in [Packages -> [ReleaseVersions -> 0..MaxTurns]]
      /\ latest[p] \in ReleaseVersions
  BY <1>0, WatcherHas
<1>2. CopyIsCurrent(p)' /\ FetchedIsDue(p)'
  BY <1>0 DEF ScanInv, CopyIsCurrent, FetchedIsDue
<1>3. CASE wscans' = wscans
  BY <1>0, <1>2, <1>3 DEF ScanInv, QueuedInTurn, StampedIsDue, Due
<1>4. CASE PollSubmit /\ wscans' = CountScan(wscans, wcur, wver)
  <2>1. StampedIsDue(p)'
    BY <1>4 DEF PollSubmit, StampedIsDue
  <2>2. CASE wcur # p
    <3>1. \A v \in ReleaseVersions : wscans'[p][v] = wscans[p][v]
      BY <1>1, <1>4, <2>2, CountedScan
    <3>2. QueuedInTurn(p)'
      BY <1>0, <1>1, <3>1 DEF ScanInv, QueuedInTurn, Due
    <3>3. QED
      BY <1>2, <2>1, <3>2 DEF ScanInv
  <2>3. CASE wcur = p
    <3>1. watched[p] = wver /\ Due(p, wver)
      BY <1>0, <2>3 DEF ScanInv, StampedIsDue
    <3>2. wscans'[p][wver] = wscans[p][wver] + 1 /\ wscans'[p][wver] <= turns[p][wver]
      <4>1. wscans[p][wver] <= MaxTurns /\ wscans[p][wver] + 1 <= turns[p][wver]
        BY <1>1, <3>1, TurnsAssumption DEF Due
      <4>2. QED
        BY <1>1, <1>4, <2>3, <4>1, CountedScan
    <3>3. ASSUME NEW v \in ReleaseVersions, v # wver PROVE wscans'[p][v] = wscans[p][v]
      <4>1. <<p, v>> # <<wcur, wver>>
        BY <3>3
      <4>2. QED
        BY <1>1, <1>4, <4>1, CountedScan
    <3>4. \A v \in ReleaseVersions : wscans'[p][v] <= turns[p][v]
      <4>1. SUFFICES ASSUME NEW v \in ReleaseVersions PROVE wscans'[p][v] <= turns[p][v]
        OBVIOUS
      <4>2. CASE v = wver
        BY <3>2, <4>2
      <4>3. CASE v # wver
        BY <3>3, <4>3 DEF ScanInv, QueuedInTurn
      <4>4. QED
        BY <4>2, <4>3
    <3>5. latest[p] # watched[p] => wscans'[p][latest[p]] < turns[p][latest[p]]
      BY <1>1, <3>1, <3>3 DEF ScanInv, QueuedInTurn, Due
    <3>6. QueuedInTurn(p)'
      BY <1>0, <3>4, <3>5 DEF QueuedInTurn, Due
    <3>7. QED
      BY <1>2, <2>1, <3>6 DEF ScanInv
  <2>4. QED
    BY <2>2, <2>3
<1>5. QED
  BY <1>3, <1>4 DEF PollRecord, PollSubmit

\* The operator touches the rows of the packages whose scans it may repeat, and
\* a row that it adds was not there to be polled.
LEMMA ScanInvOperator ==
    ASSUME WatcherTypeOK, NEW p \in Packages, p \notin touched', ScanInv(p),
           AddStep \/ \E q \in Packages : AddStart(q) \/ PackageRemove(q)
    PROVE  ScanInv(p)'
<1> USE DEF environment, registry, watcher, scans, AddStep
<1>0. UNCHANGED <<wpc, wrows, wtodo, wcur, wver, latest, turns, wscans>>
  BY DEF AddStart, AddInsert, AddStamp, AddKickoff, PackageRemove
<1>1. /\ watched \in [Packages -> 0..MaxVersion \cup {Unwatched}]
      /\ apkg \in Packages /\ aver \in 0..MaxVersion
      /\ wver # Unwatched /\ latest[p] # Unwatched
  BY WatcherHas, VersionRange
<1>2. ASSUME watched'[p] = watched[p] PROVE ScanInv(p)'
  BY <1>0, <1>2 DEF ScanInv, CopyIsCurrent, QueuedInTurn, FetchedIsDue, StampedIsDue, Due
<1>3. CASE watched[p] = Unwatched
  <2>1. p \notin wtodo
    BY <1>3 DEF ScanInv, CopyIsCurrent
  <2>2. Due(p, latest[p])
    BY <1>1, <1>3 DEF ScanInv, QueuedInTurn
  <2>3. ~(wpc = "stamp" /\ wcur = p)
    BY <1>3 DEF ScanInv, FetchedIsDue
  <2>4. ~(wpc \in {"record", "submit"} /\ wcur = p)
    BY <1>1, <1>3 DEF ScanInv, StampedIsDue
  <2>5. QED
    BY <1>0, <2>1, <2>2, <2>3, <2>4
       DEF ScanInv, CopyIsCurrent, QueuedInTurn, FetchedIsDue, StampedIsDue, Due
<1>4. CASE watched[p] # Unwatched
  <2>1. CASE AddStamp
    <3>1. apkg # p
      BY <2>1 DEF AddStamp, Touch
    <3>2. QED
      BY <1>1, <1>2, <2>1, <3>1, RowUpdate DEF AddStamp
  <2>2. CASE AddInsert
    BY <1>1, <1>2, <1>4, <2>2 DEF AddInsert
  <2>3. ASSUME NEW q \in Packages, PackageRemove(q) PROVE ScanInv(p)'
    <3>1. q # p
      BY <2>3 DEF PackageRemove, Touch
    <3>2. QED
      BY <1>1, <1>2, <2>3, <3>1 DEF PackageRemove
  <2>4. CASE UNCHANGED watched
    BY <1>2, <2>4
  <2>5. QED
    BY <2>1, <2>2, <2>3, <2>4 DEF AddStart, AddKickoff, database
<1>5. QED
  BY <1>3, <1>4

\* A version that the tag moves to is due, and a restart forgets the cycle.
LEMMA ScanInvSurroundings ==
    ASSUME WatcherTypeOK, NEW p \in Packages, ScanInv(p),
           \/ RunnersGone \/ RunnerBack \/ Restart
           \/ \E q \in Packages, v \in ReleaseVersions : Publish(q, v)
    PROVE  ScanInv(p)'
<1> USE DEF database, watcher, scans, registry
<1>1. CASE RunnersGone \/ RunnerBack
  BY <1>1 DEF RunnersGone, RunnerBack, ScanInv, CopyIsCurrent, QueuedInTurn, FetchedIsDue,
              StampedIsDue, Due
<1>2. CASE Restart
  BY <1>2 DEF Restart, ScanInv, CopyIsCurrent, QueuedInTurn, FetchedIsDue, StampedIsDue, Due
<1>3. ASSUME NEW q \in Packages, NEW v \in ReleaseVersions, Publish(q, v) PROVE ScanInv(p)'
  <2>0. UNCHANGED <<watched, wpc, wrows, wtodo, wcur, wver, wscans>>
    BY <1>3 DEF Publish
  <2>1. /\ latest \in [Packages -> ReleaseVersions]
        /\ turns \in [Packages -> [ReleaseVersions -> 0..MaxTurns]]
        /\ wscans \in [Packages -> [ReleaseVersions -> 0..(MaxTurns + 1)]]
        /\ wver \in 0..MaxVersion
        /\ wpc \in {"stamp", "record", "submit"} => wver \in ReleaseVersions
    BY WatcherHas
  <2>2. \A w \in ReleaseVersions :
            turns'[p][w] = turns[p][w] \/ (q = p /\ w = v /\ turns'[p][w] = turns[p][w] + 1)
    BY <1>3, <2>1 DEF Publish
  <2>3. latest'[p] = latest[p] \/ (q = p /\ latest'[p] = v /\ turns'[p][v] = turns[p][v] + 1)
    BY <1>3, <2>1 DEF Publish
  <2>4. \A w \in ReleaseVersions : wscans[p][w] <= turns[p][w]
    BY DEF ScanInv, QueuedInTurn
  <2>5. \A w \in ReleaseVersions : Due(p, w) => Due(p, w)'
    BY <2>0, <2>1, <2>2, TurnsAssumption DEF Due
  <2>6. \A w \in ReleaseVersions : wscans'[p][w] <= turns'[p][w]
    BY <2>0, <2>1, <2>2, <2>4, TurnsAssumption
  <2>7. latest'[p] = latest[p] \/ Due(p, latest[p])'
    BY <2>0, <2>1, <2>3, <2>4, TurnsAssumption DEF Due
  <2>8. latest[p] \in ReleaseVersions /\ latest'[p] \in ReleaseVersions
    BY <2>1, <2>3
  <2>9. QueuedInTurn(p)'
    <3>1. latest'[p] # watched'[p] => Due(p, latest[p])'
      BY <2>0, <2>5, <2>7, <2>8 DEF ScanInv, QueuedInTurn, Due
    <3>2. QED
      BY <2>6, <3>1 DEF QueuedInTurn
  <2>10. FetchedIsDue(p)'
    BY <2>0, <2>1, <2>5, <2>7, <2>8 DEF ScanInv, FetchedIsDue, Due
  <2>11. CopyIsCurrent(p)' /\ StampedIsDue(p)'
    BY <2>0, <2>1, <2>5 DEF ScanInv, CopyIsCurrent, StampedIsDue, Due
  <2>12. QED
    BY <2>9, <2>10, <2>11 DEF ScanInv
<1>4. QED
  BY <1>1, <1>2, <1>3

\* The watcher by itself queues a version at most once for each time the registry
\* makes it the latest one, across polls, failing registry calls, outages and
\* restarts, and however the tag moves between the steps of a poll.
THEOREM ScannedOnce == WatcherSpec => []OneScanPerRelease
<1>1. WatcherInit => OnceInv
  <2> SUFFICES ASSUME WatcherInit PROVE OnceInv
    OBVIOUS
  <2>1. 1 \in ReleaseVersions
    BY VersionAssumption DEF ReleaseVersions
  <2>2. ASSUME NEW p \in Packages PROVE QueuedInTurn(p)
    BY <2>1 DEF WatcherInit, NoScans, QueuedInTurn, Due
  <2>3. QED
    BY <2>2 DEF WatcherInit, OnceInv, OffTheList, ScanInv, CopyIsCurrent, FetchedIsDue, StampedIsDue
<1>2. WatcherTypeOK /\ OnceInv /\ [WatcherNext]_watcherVars => OnceInv'
  <2> SUFFICES ASSUME WatcherTypeOK, OnceInv, [WatcherNext]_watcherVars PROVE OnceInv'
    OBVIOUS
  <2>1. OffTheList /\ OffTheList'
    BY OffTheListStep DEF OnceInv
  <2>2. SUFFICES ASSUME NEW p \in Packages, p \notin touched' PROVE ScanInv(p)'
    BY <2>1 DEF OnceInv
  <2>3. ScanInv(p)
    BY <2>2, TouchedStays DEF OnceInv
  <2>4. CASE UNCHANGED watcherVars
    BY <2>3, <2>4 DEF watcherVars, database, environment, registry, watcher, scans,
                      ScanInv, CopyIsCurrent, QueuedInTurn, FetchedIsDue, StampedIsDue, Due
  <2>5. CASE WatcherNext
    BY <2>1, <2>2, <2>3, <2>5, ScanInvFetch, ScanInvStamp, ScanInvSubmit, ScanInvOperator,
       ScanInvSurroundings DEF WatcherNext, PollStep
  <2>6. QED
    BY <2>4, <2>5
<1>3. OnceInv => OneScanPerRelease
  BY DEF OnceInv, ScanInv, QueuedInTurn, OneScanPerRelease
<1>4. WatcherSpec => []WatcherTypeOK
  BY WatcherTypes
<1>5. QED
  BY <1>1, <1>2, <1>3, <1>4, PTL DEF WatcherSpec

\* A version is accounted for when it was scanned or its submission refused, when
\* its kickoff was waived, or when the watcher or `package add` is about to submit it.
Accounted(p, v) ==
    \/ Scanned(p, v) \/ <<p, v>> \in refused
    \/ wpc \in {"record", "submit"} /\ wcur = p /\ wver = v
    \/ apc = "kickoff" /\ apkg = p /\ aver = v

\* last_seen_version never names a version that is not accounted for.
NothingForgotten ==
    \A p \in Packages, v \in ReleaseVersions : watched[p] = v => Accounted(p, v)

\* Neither does the watcher's copy of the rows, which it skips unchanged versions by.
CopyAccounted ==
    \A p \in Packages, v \in ReleaseVersions : wrows[p] = v => Accounted(p, v)

\* What a submission counts, it counts on top of what was counted before.
LEMMA ScannedStays ==
    ASSUME WatcherTypeOK, [WatcherNext]_watcherVars,
           NEW p \in Packages, NEW v \in ReleaseVersions, Scanned(p, v)
    PROVE  Scanned(p, v)'
<1>0. /\ wscans \in [Packages -> [ReleaseVersions -> 0..(MaxTurns + 1)]]
      /\ kscans \in [Packages -> [ReleaseVersions -> 0..(MaxTurns + 1)]]
      /\ wcur \in Packages /\ apkg \in Packages
  BY DEF WatcherTypeOK
<1>1. CASE UNCHANGED <<wscans, kscans>> /\ waived \subseteq waived'
  BY <1>1 DEF Scanned
<1>2. CASE PollSubmit /\ wscans' = CountScan(wscans, wcur, wver)
  <2>1. wver \in ReleaseVersions
    BY <1>2, VersionAssumption DEF PollSubmit, WatcherTypeOK, ReleaseVersions, Unseen
  <2>2. wscans[p][v] > 0 => wscans'[p][v] > 0
    <3>1. wscans' \in [Packages -> [ReleaseVersions -> 0..(MaxTurns + 1)]]
      BY <1>0, <1>2, <2>1, CountedScan
    <3>2. wscans'[p][v] # 0 \/ wscans'[p][v] = wscans[p][v]
      <4>1. wscans' = CountScan(wscans, wcur, wver)
        BY <1>2
      <4>2. \/ CountScan(wscans, wcur, wver)[p][v] # 0
            \/ CountScan(wscans, wcur, wver)[p][v] = wscans[p][v]
        BY <1>0, <2>1 DEF CountScan
      <4>3. QED
        BY <4>1, <4>2
    <3>3. QED
      BY <3>1, <3>2
  <2>3. QED
    BY <1>2, <2>2 DEF PollSubmit, Scanned
<1>3. CASE AddKickoff /\ kscans' = CountScan(kscans, apkg, aver) /\ UNCHANGED waived
  <2>1. aver \in ReleaseVersions
    BY <1>3, VersionAssumption DEF AddKickoff, WatcherTypeOK, ReleaseVersions, Unseen
  <2>2. kscans[p][v] > 0 => kscans'[p][v] > 0
    <3>1. kscans' \in [Packages -> [ReleaseVersions -> 0..(MaxTurns + 1)]]
      BY <1>0, <1>3, <2>1, CountedScan
    <3>2. kscans'[p][v] # 0 \/ kscans'[p][v] = kscans[p][v]
      <4>1. kscans' = CountScan(kscans, apkg, aver)
        BY <1>3
      <4>2. \/ CountScan(kscans, apkg, aver)[p][v] # 0
            \/ CountScan(kscans, apkg, aver)[p][v] = kscans[p][v]
        BY <1>0, <2>1 DEF CountScan
      <4>3. QED
        BY <4>1, <4>2
    <3>3. QED
      BY <3>1, <3>2
  <2>3. QED
    BY <1>3, <2>2 DEF AddKickoff, Scanned
<1>4. CASE PollSubmit
  BY <1>1, <1>2, <1>4 DEF PollSubmit
<1>5. CASE AddKickoff
  BY <1>1, <1>3, <1>5 DEF AddKickoff
<1>6. CASE UNCHANGED watcherVars
  BY <1>1, <1>6 DEF watcherVars, scans
<1>7. ASSUME WatcherNext, ~PollSubmit, ~AddKickoff PROVE UNCHANGED <<wscans, kscans, waived>>
  BY <1>7 DEF WatcherNext, PollStep, AddStep, PollStart, PollEnd, PollStamp, PollRecord,
     PollFetch, PollFetchFails, AddStart, AddInsert, AddStamp, PackageRemove,
     Publish, RunnersGone, RunnerBack, Restart, scans
<1>8. QED
  BY <1>1, <1>4, <1>5, <1>6, <1>7

\* A refusal is remembered.
LEMMA RefusedStays ==
    ASSUME [WatcherNext]_watcherVars
    PROVE  refused \subseteq refused'
BY DEF WatcherNext, PollStep, AddStep, PollStart, PollEnd, PollStamp, PollRecord,
       PollSubmit, PollFetch, PollFetchFails, AddStart, AddInsert, AddStamp,
       AddKickoff, PackageRemove, Publish, RunnersGone, RunnerBack, Restart,
       Refuse, watcherVars, scans, scanHistory

\* What the watcher is about to submit stays so until it is submitted, refused, or
\* lost with the process, which counts as refused.
LEMMA WatcherSubmits ==
    ASSUME WatcherTypeOK, [WatcherNext]_watcherVars,
           NEW p \in Packages, NEW v \in ReleaseVersions,
           wpc \in {"record", "submit"}, wcur = p, wver = v
    PROVE  Accounted(p, v)'
<1>1. CASE PollSubmit
  <2>1. CASE runnersUp
    <3>1. wscans' = CountScan(wscans, p, v)
      BY <1>1, <2>1 DEF PollSubmit
    <3>2. wscans \in [Packages -> [ReleaseVersions -> 0..(MaxTurns + 1)]]
      BY DEF WatcherTypeOK
    <3>3. wscans'[p][v] # 0 /\ wscans'[p][v] \in 0..(MaxTurns + 1)
      BY <3>1, <3>2, CountedScan
    <3>4. wscans'[p][v] > 0
      BY <3>3
    <3>5. QED
      BY <3>4 DEF Accounted, Scanned
  <2>2. CASE ~runnersUp
    BY <1>1, <2>2 DEF PollSubmit, Refuse, Accounted
  <2>3. QED
    BY <2>1, <2>2
<1>2. CASE Restart
  BY <1>2 DEF Restart, Accounted
<1>3. CASE PollRecord
  BY <1>3 DEF PollRecord, Accounted
<1>4. CASE UNCHANGED <<wpc, wcur, wver>>
  BY <1>4 DEF Accounted
<1>5. CASE UNCHANGED watcherVars
  BY <1>4, <1>5 DEF watcherVars, watcher
<1>6. ASSUME WatcherNext, ~PollSubmit, ~Restart, ~PollRecord PROVE UNCHANGED <<wpc, wcur, wver>>
  BY <1>6 DEF WatcherNext, PollStep, AddStep, PollStart, PollEnd, PollStamp,
     PollFetch, PollFetchFails, AddStart, AddInsert, AddStamp, AddKickoff,
     PackageRemove, Publish, RunnersGone, RunnerBack, watcher
<1>7. QED
  BY <1>1, <1>2, <1>3, <1>4, <1>5, <1>6

\* So does the kickoff scan of `package add`, unless the operator waives it.
LEMMA KickoffSubmits ==
    ASSUME WatcherTypeOK, [WatcherNext]_watcherVars,
           NEW p \in Packages, NEW v \in ReleaseVersions,
           apc = "kickoff", apkg = p, aver = v
    PROVE  Accounted(p, v)'
<1>1. CASE AddKickoff
  <2>1. CASE kscans' = (IF runnersUp THEN CountScan(kscans, apkg, aver) ELSE kscans)
             /\ Refuse(apkg, aver)
    <3>1. CASE runnersUp
      <4>1. kscans' = CountScan(kscans, p, v)
        BY <2>1, <3>1
      <4>2. kscans \in [Packages -> [ReleaseVersions -> 0..(MaxTurns + 1)]]
        BY DEF WatcherTypeOK
      <4>3. kscans'[p][v] # 0 /\ kscans'[p][v] \in 0..(MaxTurns + 1)
        BY <4>1, <4>2, CountedScan
      <4>4. kscans'[p][v] > 0
        BY <4>3
      <4>5. QED
        BY <4>4 DEF Accounted, Scanned
    <3>2. CASE ~runnersUp
      BY <2>1, <3>2 DEF Refuse, Accounted
    <3>3. QED
      BY <3>1, <3>2
  <2>2. CASE waived' = waived \cup {<<apkg, aver>>}
    BY <2>2 DEF Accounted, Scanned
  <2>3. QED
    BY <1>1, <2>1, <2>2 DEF AddKickoff
<1>2. CASE UNCHANGED <<apc, apkg, aver>>
  BY <1>2 DEF Accounted
<1>3. CASE UNCHANGED watcherVars
  BY <1>2, <1>3 DEF watcherVars, adder
<1>4. ASSUME WatcherNext, ~AddKickoff PROVE UNCHANGED <<apc, apkg, aver>>
  BY <1>4 DEF WatcherNext, PollStep, AddStep, PollStart, PollEnd, PollStamp, PollRecord,
     PollSubmit, PollFetch, PollFetchFails, AddStart, AddInsert, AddStamp,
     PackageRemove, Publish, RunnersGone, RunnerBack, Restart, adder
<1>5. QED
  BY <1>1, <1>2, <1>3, <1>4

\* Nothing that is accounted for is forgotten later.
LEMMA AccountedStays ==
    ASSUME WatcherTypeOK, [WatcherNext]_watcherVars,
           NEW p \in Packages, NEW v \in ReleaseVersions, Accounted(p, v)
    PROVE  Accounted(p, v)'
<1>1. CASE Scanned(p, v)
  BY <1>1, ScannedStays DEF Accounted
<1>2. CASE <<p, v>> \in refused
  BY <1>2, RefusedStays DEF Accounted
<1>3. CASE wpc \in {"record", "submit"} /\ wcur = p /\ wver = v
  BY <1>3, WatcherSubmits
<1>4. CASE apc = "kickoff" /\ apkg = p /\ aver = v
  BY <1>4, KickoffSubmits
<1>5. QED
  BY <1>1, <1>2, <1>3, <1>4 DEF Accounted

\* Only the two stamps write a version into a row: the watcher's when it is about to
\* submit it or already had it in its copy, the operator's before the kickoff.
LEMMA StampIsAccounted ==
    ASSUME WatcherTypeOK, CopyAccounted, [WatcherNext]_watcherVars,
           NEW p \in Packages, NEW v \in ReleaseVersions, watched'[p] = v
    PROVE  watched[p] = v \/ Accounted(p, v)'
<1>0. /\ watched \in [Packages -> 0..MaxVersion \cup {Unwatched}]
      /\ wcur \in Packages /\ wver \in 0..MaxVersion
      /\ apkg \in Packages /\ aver \in 0..MaxVersion
      /\ v # Unseen /\ v # Unwatched
  BY WatcherHas, VersionRange
<1>1. SUFFICES ASSUME watched[p] # v PROVE Accounted(p, v)'
  OBVIOUS
<1>2. CASE PollStamp
  <2>1. wcur = p /\ wver = v
    BY <1>0, <1>1, <1>2, RowUpdate DEF PollStamp
  <2>2. CASE wver = wrows[wcur]
    BY <2>1, <2>2, AccountedStays DEF CopyAccounted
  <2>3. CASE wver # wrows[wcur]
    BY <1>2, <2>1, <2>3 DEF PollStamp, Accounted
  <2>4. QED
    BY <2>2, <2>3
<1>3. CASE AddStamp
  <2>1. apkg = p /\ aver = v
    BY <1>0, <1>1, <1>3, RowUpdate DEF AddStamp
  <2>2. QED
    BY <1>3, <2>1 DEF AddStamp, Accounted
<1>4. CASE AddInsert
  BY <1>0, <1>1, <1>4 DEF AddInsert
<1>5. ASSUME NEW q \in Packages, PackageRemove(q) PROVE FALSE
  BY <1>0, <1>1, <1>5 DEF PackageRemove
<1>6. CASE UNCHANGED watched
  BY <1>1, <1>6
<1>7. CASE UNCHANGED watcherVars
  BY <1>6, <1>7 DEF watcherVars, database
<1>8. ASSUME WatcherNext, ~PollStamp, ~AddStamp, ~AddInsert,
             ~\E q \in Packages : PackageRemove(q)
      PROVE  UNCHANGED watched
  BY <1>8 DEF WatcherNext, PollStep, AddStep, PollStart, PollEnd, PollRecord, PollSubmit,
     PollFetch, PollFetchFails, AddStart, AddKickoff, Publish, RunnersGone,
     RunnerBack, Restart, database
<1>9. QED
  BY <1>2, <1>3, <1>4, <1>5, <1>6, <1>7, <1>8

\* The safety half of "every release is scanned or refused": a version that stands in
\* last_seen_version, and that no later poll will therefore report, was scanned, or
\* refused, or waived, or its submission is under way - for every row, whatever the
\* operator edits, and whichever call fails or process dies in between.
THEOREM NoneForgotten == WatcherSpec => []NothingForgotten
<1> DEFINE Inv == NothingForgotten /\ CopyAccounted
<1>1. WatcherInit => Inv
  <2> SUFFICES ASSUME WatcherInit PROVE Inv
    OBVIOUS
  <2>1. NothingForgotten
    <3> SUFFICES ASSUME NEW p \in Packages, NEW v \in ReleaseVersions, watched[p] = v
                 PROVE  Accounted(p, v)
      BY DEF NothingForgotten
    <3>1. <<p, v>> \in waived
      BY DEF WatcherInit
    <3>2. QED
      BY <3>1 DEF Accounted, Scanned
  <2>2. CopyAccounted
    BY VersionAssumption DEF WatcherInit, CopyAccounted, ReleaseVersions
  <2>3. QED
    BY <2>1, <2>2
<1>2. WatcherTypeOK /\ Inv /\ [WatcherNext]_watcherVars => Inv'
  <2> SUFFICES ASSUME WatcherTypeOK, Inv, [WatcherNext]_watcherVars PROVE Inv'
    OBVIOUS
  <2>1. NothingForgotten'
    <3> SUFFICES ASSUME NEW p \in Packages, NEW v \in ReleaseVersions, watched'[p] = v
                 PROVE  Accounted(p, v)'
      BY DEF NothingForgotten
    <3>1. CASE watched[p] = v
      BY <3>1, AccountedStays DEF NothingForgotten
    <3>2. QED
      BY <3>1, StampIsAccounted
  <2>2. CopyAccounted'
    <3> SUFFICES ASSUME NEW p \in Packages, NEW v \in ReleaseVersions, wrows'[p] = v
                 PROVE  Accounted(p, v)'
      BY DEF CopyAccounted
    <3>1. wrows' = wrows \/ wrows' = watched
      BY DEF WatcherNext, PollStep, AddStep, PollStart, PollEnd, PollStamp, PollRecord,
         PollSubmit, PollFetch, PollFetchFails, AddStart, AddInsert, AddStamp,
         AddKickoff, PackageRemove, Publish, RunnersGone, RunnerBack, Restart,
         watcherVars, watcher
    <3>2. Accounted(p, v)
      BY <3>1 DEF NothingForgotten, CopyAccounted
    <3>3. QED
      BY <3>2, AccountedStays
  <2>3. QED
    BY <2>1, <2>2
<1>3. WatcherSpec => []WatcherTypeOK
  BY WatcherTypes
<1>4. QED
  BY <1>1, <1>2, <1>3, PTL DEF WatcherSpec

-------------------------------------------------------------------------------
(* The table of runners                                                    *)

\* The larger of two durations.
Longest(a, b) == IF a >= b THEN a ELSE b

\* A lost heartbeat costs a timeout and the wait for the tick after it.
Gap == Longest(Interval, BeatTimeout)
LossCost(n) == n * Gap

\* The time to the next call, and what the losses still possible add to it.
Wait == IF ticked THEN left ELSE Longest(left, due)
LossesAfterCall == IF call = "none" THEN MaxLosses - losses ELSE MaxLosses - losses - 1

\* The durations: a heartbeat that is answered at the last moment, MaxLosses lost
\* calls after the one that succeeded before, still comes within the cutoff.  With
\* the code's 30 s, 10 s and 90 s this is so for one lost call, not for two.
LossesFit == Interval + LossCost(MaxLosses) + BeatTimeout <= Cutoff

\* A registration whose answer is lost holds up the heartbeats no longer than one
\* lost heartbeat does (30 s in the code, like the interval).
RegistrationFits == RegTimeout <= Interval + Gap

\* Arithmetic of the losses: each one more costs one gap more.
LEMMA LossCosts ==
    /\ Gap \in Nat /\ Interval <= Gap /\ BeatTimeout <= Gap
    /\ LossCost(0) = 0
    /\ \A n \in Nat : LossCost(n) \in Nat
    /\ \A n \in Nat \ {0} : LossCost(n) = LossCost(n - 1) + Gap
    /\ \A n, m \in Nat : n <= m => LossCost(n) <= LossCost(m)
<1>1. Gap \in Nat /\ Interval <= Gap /\ BeatTimeout <= Gap
  BY DurationAssumption DEF Gap, Longest
<1> HIDE DEF Gap
<1>2. LossCost(0) = 0
  BY <1>1 DEF LossCost
<1>3. \A n \in Nat : LossCost(n) \in Nat
  BY <1>1 DEF LossCost
<1>4. \A n \in Nat \ {0} : LossCost(n) = LossCost(n - 1) + Gap
  BY <1>1 DEF LossCost
<1>5. \A n, m \in Nat : n <= m => LossCost(n) <= LossCost(m)
  BY <1>1 DEF LossCost
<1>6. QED
  BY <1>1, <1>2, <1>3, <1>4, <1>5

\* The types of Registry, as facts about single variables.
RegistryVariables ==
    /\ up \in BOOLEAN /\ enlisted \in BOOLEAN /\ alive \in BOOLEAN /\ ticked \in BOOLEAN
    /\ age \in 0..Cutoff + 1
    /\ prune \in 0..PruneTick
    /\ call \in {"none", "heartbeat", "register", "unanswered"}
    /\ left \in 0..Longest(BeatTimeout, RegTimeout)
    /\ due \in 1..Interval
    /\ losses \in 0..MaxLosses
    /\ ~alive => call = "none"

\* They are what Registry's type invariant says.
LEMMA RegistryVariablesAreTypes ==
    RegistryVariables <=> RegistryTypeOK
<1>1. Longest(BeatTimeout, RegTimeout) =
          IF BeatTimeout > RegTimeout THEN BeatTimeout ELSE RegTimeout
  BY DurationAssumption DEF Longest
<1>2. {up, enlisted, alive, ticked} \subseteq BOOLEAN
        <=> up \in BOOLEAN /\ enlisted \in BOOLEAN /\ alive \in BOOLEAN /\ ticked \in BOOLEAN
  BY Zenon
<1>3. QED
  BY <1>1, <1>2 DEF RegistryVariables, RegistryTypeOK

\* Every step of the runner and of the server keeps them.
LEMMA RegistryTypesStep ==
    ASSUME RegistryVariables, [RegistryNext]_registryVars
    PROVE  RegistryVariables'
<1> DEFINE Limit == Longest(BeatTimeout, RegTimeout)
<1>0. /\ Interval \in Nat \ {0} /\ PruneTick \in Nat /\ Cutoff \in Nat /\ MaxLosses \in Nat
      /\ BeatTimeout \in 0..Limit /\ RegTimeout \in 0..Limit /\ 0 \in 0..Limit /\ Limit \in Nat
  BY DurationAssumption, LossAssumption DEF Longest
<1> HIDE DEF Limit
<1> USE DEF RegistryVariables, server, heartbeats
<1>1. CASE UNCHANGED registryVars
  BY <1>1 DEF registryVars
<1>2. CASE Pass
  <2>1. age' \in 0..Cutoff + 1
    BY <1>0, <1>2 DEF Pass
  <2>2. prune' \in 0..PruneTick
    BY <1>0, <1>2 DEF Pass
  <2>3. left' \in 0..Limit
    BY <1>0, <1>2 DEF Pass, Limit
  <2>4. due' \in 1..Interval
    BY <1>0, <1>2 DEF Pass
  <2>5. ticked' \in BOOLEAN
    BY <1>2 DEF Pass
  <2>6. QED
    BY <1>2, <2>1, <2>2, <2>3, <2>4, <2>5 DEF Pass, Limit
<1>3. CASE Beat
  BY <1>0, <1>3 DEF Beat, Limit
<1>4. CASE HeartbeatServed
  BY <1>0, <1>4 DEF HeartbeatServed, Done, Limit
<1>5. CASE RegisterServed
  BY <1>0, <1>5 DEF RegisterServed, Done, Limit
<1>6. CASE AnswerLost
  <2>1. age' \in 0..Cutoff + 1 /\ enlisted' \in BOOLEAN
    BY <1>0, <1>6 DEF AnswerLost
  <2>2. QED
    BY <1>6, <2>1 DEF AnswerLost
<1>7. CASE CallFails
  <2>1. losses' \in 0..MaxLosses
    BY <1>0, <1>7 DEF CallFails
  <2>2. QED
    BY <1>0, <1>7, <2>1 DEF CallFails, Limit
<1>8. CASE Prune
  <2>1. enlisted' \in BOOLEAN
    BY <1>8 DEF Prune
  <2>2. QED
    BY <1>0, <1>8, <2>1 DEF Prune
<1>9. CASE ServerStops
  BY <1>9 DEF ServerStops
<1>10. CASE ServerStarts
  BY <1>0, <1>10 DEF ServerStarts
<1>11. CASE Die
  BY <1>0, <1>11 DEF Die, Limit
<1>12. QED
  BY <1>1, <1>2, <1>3, <1>4, <1>5, <1>6, <1>7, <1>8, <1>9, <1>10, <1>11 DEF RegistryNext

\* The runner has just registered.
LEMMA RegistryTypesInit ==
    ASSUME RegistryInit
    PROVE  RegistryVariables
<1>1. /\ Longest(BeatTimeout, RegTimeout) \in Nat
      /\ Interval \in 1..Interval /\ Cutoff \in Nat
      /\ 1..PruneTick \subseteq 0..PruneTick
      /\ 0 \in 0..MaxLosses
  BY DurationAssumption, LossAssumption DEF Longest
<1>2. 0 \in 0..Cutoff + 1 /\ 0 \in 0..Longest(BeatTimeout, RegTimeout)
  BY <1>1
<1>3. QED
  BY <1>1, <1>2 DEF RegistryInit, RegistryVariables

\* The ranges of the runner table's clocks hold in every state: no call outlives
\* its timeout, and no pass of prunerLoop is missed.
THEOREM RegistryTypes == RegistrySpec => []RegistryTypeOK
<1>1. RegistryInit => RegistryVariables
  BY RegistryTypesInit
<1>2. RegistryVariables /\ [RegistryNext]_registryVars => RegistryVariables'
  BY RegistryTypesStep
<1>3. RegistryVariables => RegistryTypeOK
  BY RegistryVariablesAreTypes
<1>4. QED
  BY <1>1, <1>2, <1>3, PTL DEF RegistrySpec

\* A runner that is in the table has nothing to register for, and the server is
\* up; an idle heartbeat goroutine has no deadline; a heartbeat has its own; an
\* answer is only lost while one more loss is allowed.
CallInv ==
    /\ enlisted => up /\ call # "register"
    /\ call = "none" => left = 0
    /\ call = "heartbeat" => left <= BeatTimeout
    /\ call = "unanswered" => losses < MaxLosses

\* The entry of a living runner will be refreshed before it is too old, whatever
\* is still lost: by the call under way if it may not get lost any more, by the one
\* after the losses still allowed otherwise.
InTime ==
    alive /\ enlisted =>
        IF call = "heartbeat" /\ losses = MaxLosses
        THEN age + left <= Cutoff
        ELSE age + Wait + LossCost(LossesAfterCall) + BeatTimeout <= Cutoff

\* Every step keeps the runner's call and the table in agreement: only a runner
\* that is told that it is unknown registers.
LEMMA CallStep ==
    ASSUME RegistryVariables, CallInv,
           [RegistryNext]_registryVars
    PROVE  CallInv'
<1>0. BeatTimeout \in Nat /\ left \in Nat /\ losses \in Nat /\ MaxLosses \in Nat
  BY DurationAssumption, LossAssumption DEF RegistryVariables, Longest
<1> USE DEF CallInv, server, heartbeats
<1>1. CASE UNCHANGED registryVars
  BY <1>1 DEF registryVars
<1>2. CASE Pass
  BY <1>0, <1>2 DEF Pass
<1>3. CASE Beat
  BY <1>0, <1>3 DEF Beat
<1>4. CASE HeartbeatServed
  BY <1>4 DEF HeartbeatServed, Done
<1>5. CASE RegisterServed
  BY <1>5 DEF RegisterServed, Done
<1>6. CASE AnswerLost
  BY <1>6 DEF AnswerLost
<1>7. CASE CallFails
  BY <1>7 DEF CallFails
<1>8. CASE Prune
  BY <1>8 DEF Prune
<1>9. CASE ServerStops
  BY <1>9 DEF ServerStops
<1>10. CASE ServerStarts
  BY <1>10 DEF ServerStarts
<1>11. CASE Die
  BY <1>11 DEF Die
<1>12. QED
  BY <1>1, <1>2, <1>3, <1>4, <1>5, <1>6, <1>7, <1>8, <1>9, <1>10, <1>11 DEF RegistryNext

\* An entry that a heartbeat or a registration has just refreshed is in time,
\* whether the answer arrives or gets lost.
LEMMA FreshIsInTime ==
    ASSUME LossesFit, RegistrationFits,
           RegistryVariables', CallInv',
           age' = 0,
           call' = "none" \/ call' = "unanswered"
    PROVE  InTime'
<1>0. /\ Interval \in Nat /\ BeatTimeout \in Nat /\ RegTimeout \in Nat /\ Cutoff \in Nat
      /\ MaxLosses \in Nat
      /\ left' \in Nat /\ (left' <= BeatTimeout \/ left' <= RegTimeout)
      /\ due' \in Nat /\ due' <= Interval
      /\ losses' \in Nat /\ losses' <= MaxLosses
  BY DurationAssumption, LossAssumption DEF RegistryVariables, Longest
<1>1. Gap \in Nat /\ Interval <= Gap /\ BeatTimeout <= Gap
  BY LossCosts
<1>2. CASE call' = "none"
  <2>1. Wait' \in Nat /\ Wait' <= Interval
    BY <1>0, <1>2 DEF Wait, Longest, CallInv
  <2>2. LossesAfterCall' \in Nat /\ LossesAfterCall' <= MaxLosses
    <3>1. PICK l \in Nat, m \in Nat : l = losses' /\ m = MaxLosses
      BY <1>0
    <3>2. LossesAfterCall' = m - l
      BY <1>2, <3>1 DEF LossesAfterCall
    <3>3. l <= m
      BY <1>0, <3>1
    <3>4. m - l \in Nat /\ m - l <= m
      BY <3>3
    <3>5. QED
      BY <3>1, <3>2, <3>4
  <2>3. PICK n \in Nat : n = LossesAfterCall'
    BY <2>2
  <2>4. LossCost(n) \in Nat /\ LossCost(MaxLosses) \in Nat /\ LossCost(n) <= LossCost(MaxLosses)
    BY <1>0, <2>2, <2>3, LossCosts
  <2>5. 0 + Wait' + LossCost(n) + BeatTimeout <= Cutoff
    BY <1>0, <2>1, <2>4 DEF LossesFit
  <2>6. LossCost(LossesAfterCall)' = LossCost(n)
    BY <2>3 DEF LossCost, Gap
  <2>7. QED
    BY <1>2, <2>5, <2>6 DEF InTime
<1>3. CASE call' = "unanswered"
  <2>1. Wait' \in Nat /\ Wait' <= Interval + Gap
    BY <1>0, <1>1 DEF Wait, Longest, RegistrationFits
  <2>2. /\ LossesAfterCall' \in Nat
        /\ LossesAfterCall' + 1 <= MaxLosses
    <3>1. PICK l \in Nat, m \in Nat : l = losses' /\ m = MaxLosses
      BY <1>0
    <3>2. LossesAfterCall' = m - l - 1
      BY <1>3, <3>1 DEF LossesAfterCall
    <3>3. l < m
      BY <1>3, <3>1 DEF CallInv
    <3>4. m - l - 1 \in Nat /\ m - l - 1 + 1 <= m
      BY <3>3
    <3>5. QED
      BY <3>1, <3>2, <3>4
  <2>3. PICK n \in Nat : n = LossesAfterCall'
    BY <2>2
  <2>4. n + 1 \in Nat \ {0} /\ (n + 1) - 1 = n
    OBVIOUS
  <2>5. LossCost(n + 1) = LossCost(n) + Gap
    BY <2>4, LossCosts
  <2>6. /\ LossCost(n) \in Nat /\ LossCost(MaxLosses) \in Nat
        /\ LossCost(n + 1) <= LossCost(MaxLosses)
    BY <1>0, <2>2, <2>3, <2>4, LossCosts
  <2>7. 0 + Wait' + LossCost(n) + BeatTimeout <= Cutoff
    BY <1>0, <1>1, <2>1, <2>5, <2>6 DEF LossesFit
  <2>8. LossCost(LossesAfterCall)' = LossCost(n)
    BY <2>3 DEF LossCost, Gap
  <2>9. QED
    BY <1>3, <2>7, <2>8 DEF InTime
<1>4. QED
  BY <1>2, <1>3

\* Every step keeps the entry of a living runner in time: as it ages the next call
\* comes nearer, and a call that gets lost uses up one of the losses reckoned with.
LEMMA InTimeStep ==
    ASSUME LossesFit, RegistrationFits,
           RegistryVariables, RegistryVariables', CallInv, CallInv', InTime,
           [RegistryNext]_registryVars
    PROVE  InTime'
<1>0. /\ Interval \in Nat /\ BeatTimeout \in Nat /\ RegTimeout \in Nat /\ Cutoff \in Nat
      /\ MaxLosses \in Nat
      /\ left \in Nat /\ due \in Nat /\ 1 <= due /\ due <= Interval /\ age \in Nat
      /\ losses \in Nat /\ losses <= MaxLosses
  BY DurationAssumption, LossAssumption DEF RegistryVariables, Longest
<1>1. Gap \in Nat /\ Interval <= Gap /\ BeatTimeout <= Gap
  BY LossCosts
<1>2. \A n \in Nat : LossCost(n) \in Nat
  BY LossCosts
<1> USE DEF server, heartbeats
<1>3. CASE UNCHANGED registryVars
  BY <1>3 DEF registryVars, InTime, Wait, Longest, LossesAfterCall, LossCost, Gap
<1>4. SUFFICES ASSUME RegistryNext, alive', enlisted' PROVE InTime'
  BY <1>3 DEF InTime
<1>5. CASE Pass
  <2>0. alive /\ enlisted /\ UNCHANGED <<call, losses>>
    BY <1>4, <1>5 DEF Pass
  <2>1. PICK a \in Nat, b \in Nat : a = age /\ b = age'
    BY <1>0, <1>5 DEF Pass
  <2>2. b <= a + 1
    BY <1>5, <2>1 DEF Pass
  <2>3. CASE call = "heartbeat" /\ losses = MaxLosses
    <3>1. PICK l \in Nat, m \in Nat : l = left /\ m = left'
      BY <1>0, <1>5, <2>3 DEF Pass
    <3>2. a + l <= Cutoff
      BY <2>0, <2>1, <2>3, <3>1 DEF InTime
    <3>3. m + 1 = l
      BY <1>5, <2>3, <3>1 DEF Pass
    <3>4. b + m <= Cutoff
      BY <1>0, <2>2, <3>2, <3>3
    <3>5. QED
      BY <2>0, <2>1, <2>3, <3>1, <3>4 DEF InTime
  <2>4. CASE ~(call = "heartbeat" /\ losses = MaxLosses)
    <3>1. LossesAfterCall \in Nat /\ LossesAfterCall' = LossesAfterCall
      <4>1. call \in {"none", "heartbeat", "unanswered"}
        BY <2>0 DEF RegistryVariables, CallInv
      <4>2. QED
        BY <1>0, <2>0, <2>4, <4>1 DEF LossesAfterCall, CallInv
    <3>2. PICK n \in Nat : n = LossesAfterCall
      BY <3>1
    <3>3. /\ LossCost(LossesAfterCall) = LossCost(n)
          /\ LossCost(LossesAfterCall)' = LossCost(n)
      BY <3>1, <3>2 DEF LossCost, Gap
    <3>4. Wait \in Nat /\ Wait' \in Nat /\ Wait' + 1 <= Wait
      <4>1. CASE call = "none"
        <5>1. /\ ~ticked /\ left = 0 /\ left' = left
              /\ due' = IF due = 1 THEN Interval ELSE due - 1
              /\ ticked' <=> due = 1
          BY <1>5, <2>0, <4>1 DEF Pass, CallInv
        <5>2. Wait = due
          BY <1>0, <5>1 DEF Wait, Longest
        <5>3. Wait' = due - 1
          BY <1>0, <5>1 DEF Wait, Longest
        <5>4. QED
          BY <1>0, <5>2, <5>3
      <4>2. CASE call # "none"
        <5>1. /\ left # 0 /\ left' = left - 1
              /\ due' = IF due = 1 THEN Interval ELSE due - 1
              /\ ticked' <=> ticked \/ due = 1
          BY <1>5, <2>0, <4>2 DEF Pass
        <5>2. QED
          BY <1>0, <5>1 DEF Wait, Longest
      <4>3. QED
        BY <4>1, <4>2
    <3>5. PICK w \in Nat, x \in Nat, c \in Nat : w = Wait /\ x = Wait' /\ c = LossCost(n)
      BY <1>2, <3>4
    <3>6. a + w + c + BeatTimeout <= Cutoff
      BY <2>0, <2>1, <2>4, <3>3, <3>5 DEF InTime
    <3>7. x + 1 <= w
      BY <3>4, <3>5
    <3>8. b + x + c + BeatTimeout <= Cutoff
      BY <1>0, <2>2, <3>6, <3>7
    <3>9. QED
      BY <2>0, <2>1, <2>4, <3>3, <3>5, <3>8 DEF InTime
  <2>5. QED
    BY <2>3, <2>4
<1>6. CASE Beat
  <2>0. /\ alive /\ enlisted /\ call = "none" /\ ticked /\ left = 0
        /\ UNCHANGED <<age, due, losses>>
        /\ ~ticked' /\ call' = "heartbeat" /\ left' = BeatTimeout
    BY <1>4, <1>6 DEF Beat, CallInv
  <2>1. PICK n \in Nat : n = MaxLosses - losses
    BY <1>0
  <2>2. LossCost(LossesAfterCall) = LossCost(n)
    BY <2>0, <2>1 DEF LossesAfterCall
  <2>3. age + LossCost(n) + BeatTimeout <= Cutoff
    <3>1. Wait = 0
      BY <2>0 DEF Wait
    <3>2. QED
      BY <1>0, <1>2, <2>0, <2>2, <3>1 DEF InTime
  <2>4. CASE n = 0
    <3>1. losses' = MaxLosses
      BY <1>0, <2>0, <2>1, <2>4
    <3>2. age' + left' <= Cutoff
      BY <1>0, <1>2, <2>0, <2>3
    <3>3. QED
      BY <2>0, <3>1, <3>2 DEF InTime
  <2>5. CASE n # 0
    <3>1. n - 1 \in Nat /\ losses' # MaxLosses /\ LossesAfterCall' = n - 1
      BY <1>0, <2>0, <2>1, <2>5 DEF LossesAfterCall
    <3>2. LossCost(LossesAfterCall)' = LossCost(n - 1)
      BY <3>1 DEF LossCost, Gap
    <3>3. Wait' \in Nat /\ Wait' <= Gap
      BY <1>0, <1>1, <2>0 DEF Wait, Longest
    <3>4. LossCost(n) = LossCost(n - 1) + Gap
      BY <2>5, LossCosts
    <3>5. age' + Wait' + LossCost(n - 1) + BeatTimeout <= Cutoff
      BY <1>0, <1>1, <1>2, <2>0, <2>3, <3>1, <3>3, <3>4
    <3>6. QED
      BY <2>0, <3>1, <3>2, <3>5 DEF InTime
  <2>6. QED
    BY <2>4, <2>5
<1>7. CASE HeartbeatServed
  <2>1. age' = 0 /\ call' = "none"
    BY <1>4, <1>7 DEF HeartbeatServed, Done
  <2>2. QED
    BY <2>1, FreshIsInTime
<1>8. CASE RegisterServed
  <2>1. age' = 0 /\ call' = "none"
    BY <1>8 DEF RegisterServed, Done
  <2>2. QED
    BY <2>1, FreshIsInTime
<1>9. CASE AnswerLost
  <2>1. age' = 0 /\ call' = "unanswered"
    BY <1>4, <1>9 DEF AnswerLost
  <2>2. QED
    BY <2>1, FreshIsInTime
<1>10. CASE CallFails
  <2>1. /\ alive /\ enlisted /\ up /\ call \in {"heartbeat", "unanswered"}
        /\ left = 0 /\ losses < MaxLosses /\ losses' = losses + 1
        /\ call' = "none" /\ left' = 0 /\ UNCHANGED <<age, due, ticked>>
    BY <1>4, <1>10 DEF CallFails, CallInv, RegistryVariables
  <2>2. age + Wait + LossCost(LossesAfterCall) + BeatTimeout <= Cutoff
    BY <1>0, <2>1 DEF InTime
  <2>3. LossesAfterCall' = LossesAfterCall
    BY <1>0, <2>1 DEF LossesAfterCall
  <2>4. LossCost(LossesAfterCall)' = LossCost(LossesAfterCall)
    BY <2>3 DEF LossCost, Gap
  <2>5. Wait' = Wait
    BY <2>1 DEF Wait, Longest
  <2>6. QED
    BY <2>1, <2>2, <2>4, <2>5 DEF InTime
<1>11. CASE Prune
  <2>1. enlisted /\ UNCHANGED <<age, alive, call, left, due, ticked, losses>>
    BY <1>4, <1>11 DEF Prune
  <2>2. QED
    BY <1>4, <2>1 DEF InTime, Wait, Longest, LossesAfterCall, LossCost, Gap
<1>12. CASE ServerStops
  BY <1>4, <1>12 DEF ServerStops
<1>13. CASE ServerStarts
  BY <1>4, <1>13 DEF ServerStarts, CallInv
<1>14. CASE Die
  BY <1>4, <1>14 DEF Die
<1>15. QED
  BY <1>4, <1>5, <1>6, <1>7, <1>8, <1>9, <1>10, <1>11, <1>12, <1>13, <1>14 DEF RegistryNext

\* prunerLoop evicts no living runner, across restarts of the orchestrator and up to
\* MaxLosses calls in a row that get lost, the last one slow, whatever the phase of
\* the two tickers: for all durations that satisfy the two conditions.
THEOREM HealthyKept ==
    ASSUME LossesFit, RegistrationFits
    PROVE  RegistrySpec => HealthyIsKept
<1> DEFINE Inv == RegistryVariables /\ CallInv /\ InTime
           Kept == alive /\ enlisted /\ up' => enlisted'
<1>1. RegistryInit => Inv
  <2> SUFFICES ASSUME RegistryInit PROVE Inv
    OBVIOUS
  <2>1. RegistryVariables
    BY RegistryTypesInit
  <2>2. CallInv
    BY DEF RegistryInit, CallInv
  <2>3. InTime
    <3>1. Wait = Interval /\ LossesAfterCall = MaxLosses
      BY DurationAssumption, LossAssumption DEF RegistryInit, Wait, Longest, LossesAfterCall
    <3>2. Interval \in Nat /\ LossCost(MaxLosses) \in Nat /\ BeatTimeout \in Nat /\ Cutoff \in Nat
      BY LossCosts, DurationAssumption, LossAssumption
    <3>3. 0 + Interval + LossCost(MaxLosses) + BeatTimeout <= Cutoff
      BY <3>2 DEF LossesFit
    <3>4. QED
      BY <3>1, <3>3 DEF RegistryInit, InTime
  <2>4. QED
    BY <2>1, <2>2, <2>3
<1>2. Inv /\ [RegistryNext]_registryVars => Inv'
  <2> SUFFICES ASSUME Inv, [RegistryNext]_registryVars PROVE Inv'
    OBVIOUS
  <2>1. RegistryVariables'
    BY RegistryTypesStep
  <2>2. CallInv'
    BY CallStep
  <2>3. InTime'
    BY <2>1, <2>2, InTimeStep
  <2>4. QED
    BY <2>1, <2>2, <2>3
<1>3. Inv /\ [RegistryNext]_registryVars => [Kept]_registryVars
  <2> SUFFICES ASSUME Inv, RegistryNext, alive, enlisted, up' PROVE enlisted'
    OBVIOUS
  <2>1. age <= Cutoff
    <3>1. /\ age \in Nat /\ left \in Nat /\ due \in Nat /\ losses \in Nat /\ losses <= MaxLosses
          /\ MaxLosses \in Nat /\ BeatTimeout \in Nat /\ Cutoff \in Nat
      BY DurationAssumption, LossAssumption DEF RegistryVariables, Longest
    <3>2. CASE call = "heartbeat" /\ losses = MaxLosses
      BY <3>1, <3>2 DEF InTime
    <3>3. CASE ~(call = "heartbeat" /\ losses = MaxLosses)
      <4>1. call \in {"none", "heartbeat", "unanswered"}
        BY DEF RegistryVariables, CallInv
      <4>2. LossesAfterCall \in Nat
        BY <3>1, <3>3, <4>1 DEF LossesAfterCall, CallInv
      <4>3. LossCost(LossesAfterCall) \in Nat
        BY <4>2, LossCosts
      <4>4. Wait \in Nat
        BY <3>1 DEF Wait, Longest
      <4>5. age + Wait + LossCost(LossesAfterCall) + BeatTimeout <= Cutoff
        BY <3>3 DEF InTime
      <4>6. QED
        BY <3>1, <4>3, <4>4, <4>5
    <3>4. QED
      BY <3>2, <3>3
  <2>2. CASE Prune
    BY <2>1, <2>2 DEF Prune
  <2>3. CASE ServerStops
    BY <2>3 DEF ServerStops
  <2>4. ASSUME ~Prune, ~ServerStops PROVE enlisted'
    BY <2>4 DEF RegistryNext, Pass, Beat, HeartbeatServed, RegisterServed,
                AnswerLost, CallFails, ServerStarts, Die, server
  <2>5. QED
    BY <2>2, <2>3, <2>4
<1> SUFFICES RegistrySpec => [][Kept]_registryVars
  BY DEF HealthyIsKept
<1> HIDE DEF Inv, Kept
<1>4. QED
  BY <1>1, <1>2, <1>3, PTL DEF RegistrySpec
===============================================================================
