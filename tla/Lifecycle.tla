------------------------------ MODULE Lifecycle ------------------------------
(***************************************************************************)
(* The orchestrator as a process that is started, crashes and is started   *)
(* again, beside the operator console, which opens the same database: the  *)
(* migrations both apply, what the configuration puts into the tables      *)
(* before the server listens, and the life of a run, from SubmitScan over  *)
(* the queue, the runner and its POSTs to the recorded result.             *)
(*                                                                         *)
(* Rows survive a crash; queue, handlers and the table of runners do not.  *)
(* There is one runner.  Of the dispatcher only the place of a job is kept *)
(* (Dispatcher has the queue), of the runner's job its POSTs (RunnerJob).  *)
(***************************************************************************)
EXTENDS Naturals, FiniteSets

CONSTANTS
    LastVersion,    \* migrations are 1..LastVersion, in the order of their names
    CfgAllow,       \* allow entries of the configuration file
    FileTargets,    \* notifiers of -notifiers-file
    Runs,           \* run ids; SyntheticRunID is taken to give a new one each time
    MaxPosts,       \* bound on the event POSTs of a job
    MaxFaults,      \* bound on failing storage calls, lost messages and runner deaths
    MaxCrashes,     \* bound on crashes of the orchestrator
    MaxCli,         \* bound on invocations of the console
    None

ASSUME BoundsAssumption == {LastVersion, MaxPosts, MaxFaults, MaxCrashes, MaxCli} \subseteq Nat
ASSUME EntriesAssumption == CfgAllow \cap FileTargets = {}
ASSUME NoneAssumption == None \notin {"pending", "done", "failed"}

VARIABLES
    schema,     \* versions whose statements took effect
    recorded,   \* versions in schema_migrations
    config,     \* rows of allowlists and notifiers that come from the files
    row,        \* per run, the state in its runs row, or None
    phase,      \* of the orchestrator: "down", "migrate", "allow", "file", "serve"
    todo,       \* entries the current phase still has to write
    cli,        \* of the console: "off", "migrate", "ready"
    known,      \* per process, the versions ApplyMigrations takes for applied
    where,      \* per run, the place of its job
    attended,   \* runs with a POST that the runner waits for
    orphans,    \* per run, POSTs that the runner has given up
    posts,      \* per run, POSTs so far
    runner,     \* "up" or "dead"
    registered, \* the runner is in the table
    (* history *)
    lost,       \* runs whose job or result went missing
    excused,    \* entries that a failed call or the operator kept out
    settled,    \* per run, the state its result stands for, or None
    faults, crashes, clis

tables == <<schema, recorded, config, row>>
boot == <<phase, todo, cli, known>>
jobs == <<where, attended, orphans, posts, runner, registered>>
history == <<lost, excused, settled>>
bounds == <<faults, crashes, clis>>
vars == <<tables, boot, jobs, history, bounds>>

Versions == 1..LastVersion
Procs == {"orchestrator", "cli"}
Places == {"new", "create", "enqueue", "queued", "answer", "runner", "over"}

\* Types and bounds.
TypeOK ==
    /\ schema \subseteq Versions /\ recorded \subseteq Versions
    /\ config \subseteq CfgAllow \cup FileTargets
    /\ row \in [Runs -> {None, "pending", "done", "failed"}]
    /\ phase \in {"down", "migrate", "allow", "file", "serve"}
    /\ todo \subseteq CfgAllow \cup FileTargets
    /\ cli \in {"off", "migrate", "ready"}
    /\ known \in [Procs -> SUBSET Versions]
    /\ where \in [Runs -> Places]
    /\ attended \subseteq Runs
    /\ orphans \in [Runs -> 0..MaxPosts] /\ posts \in [Runs -> 0..MaxPosts]
    /\ runner \in {"up", "dead"} /\ registered \in BOOLEAN
    /\ lost \subseteq Runs /\ excused \subseteq CfgAllow \cup FileTargets
    /\ settled \in [Runs -> {None, "done", "failed"}]
    /\ faults \in 0..MaxFaults /\ crashes \in 0..MaxCrashes /\ clis \in 0..MaxCli

Init ==
    /\ schema = {} /\ recorded = {} /\ config = {} /\ row = [r \in Runs |-> None]
    /\ phase = "down" /\ todo = {} /\ cli = "off" /\ known = [p \in Procs |-> {}]
    /\ where = [r \in Runs |-> "new"] /\ attended = {} /\ orphans = [r \in Runs |-> 0]
    /\ posts = [r \in Runs |-> 0] /\ runner = "up" /\ registered = FALSE
    /\ lost = {} /\ excused = {} /\ settled = [r \in Runs |-> None]
    /\ faults = 0 /\ crashes = 0 /\ clis = 0

Fails == faults < MaxFaults /\ faults' = faults + 1 /\ UNCHANGED <<crashes, clis>>
Succeeds == UNCHANGED bounds

-------------------------------------------------------------------------------
(* Start of the orchestrator and of the console                            *)

\* Faulty variant: the list of applied versions is not read again.
Start_keepList ==
    /\ phase = "down" /\ Succeeds /\ phase' = "migrate"
    /\ UNCHANGED <<tables, todo, cli, known, jobs, history>>

\* main: the configuration is read, the database opened and the list of
\* applied versions read.
Start ==
    /\ phase = "down"
    /\ \/ /\ Succeeds /\ phase' = "migrate"
          /\ known' = [known EXCEPT !["orchestrator"] = recorded]
       \/ Fails /\ UNCHANGED <<phase, known>>
    /\ UNCHANGED <<tables, todo, cli, jobs, history>>

\* The console's openStore does the same, whatever the command is.
CliStart ==
    /\ cli = "off" /\ clis < MaxCli
    /\ clis' = clis + 1 /\ UNCHANGED <<faults, crashes>>
    /\ cli' = "migrate" /\ known' = [known EXCEPT !["cli"] = recorded]
    /\ UNCHANGED <<tables, phase, todo, jobs, history>>

Migrating(p) == IF p = "cli" THEN cli = "migrate" ELSE phase = "migrate"
NextVersion(p) == CHOOSE v \in Versions \ known[p] : \A w \in Versions \ known[p] : v <= w

\* Migrate returned an error: both programs exit.
MigrateFailed(p) ==
    /\ IF p = "cli" THEN cli' = "off" /\ UNCHANGED phase ELSE phase' = "down" /\ UNCHANGED cli
    /\ UNCHANGED <<schema, recorded, known>>

\* Faulty variant: the version is recorded after the commit.
ApplyOne_afterCommit(p) ==
    /\ Migrating(p) /\ known[p] # Versions
    /\ LET v == NextVersion(p) IN
       /\ v \notin schema /\ schema' = schema \cup {v}
       /\ \/ /\ Succeeds /\ recorded' = recorded \cup {v}
             /\ known' = [known EXCEPT ![p] = @ \cup {v}] /\ UNCHANGED <<phase, cli>>
          \/ /\ Fails /\ UNCHANGED <<recorded, known>>
             /\ IF p = "cli" THEN cli' = "off" /\ UNCHANGED phase ELSE phase' = "down" /\ UNCHANGED cli
    /\ UNCHANGED <<config, row, todo, jobs, history>>

\* ApplyMigrations, one file: its statements and the version in one
\* transaction.  What the other process has applied in the meantime cannot
\* be applied again (CREATE TABLE, ADD COLUMN, the key of schema_migrations).
ApplyOne(p) ==
    /\ Migrating(p) /\ known[p] # Versions
    /\ LET v == NextVersion(p) IN
       \/ /\ Succeeds /\ v \notin schema
          /\ schema' = schema \cup {v} /\ recorded' = recorded \cup {v}
          /\ known' = [known EXCEPT ![p] = @ \cup {v}] /\ UNCHANGED <<phase, cli>>
       \/ (Fails \/ (v \in schema /\ Succeeds)) /\ MigrateFailed(p)
    /\ UNCHANGED <<config, row, todo, jobs, history>>

Migrated(p) ==
    /\ Migrating(p) /\ known[p] = Versions
    /\ IF p = "cli" THEN cli' = "ready" /\ UNCHANGED <<phase, todo>>
       ELSE phase' = "allow" /\ todo' = CfgAllow /\ UNCHANGED cli
    /\ known' = [known EXCEPT ![p] = {}]
    /\ UNCHANGED <<tables, jobs, history, bounds>>

\* ApplyAllowlist, one entry: every error is taken for "already exists".
ApplyAllowlist ==
    /\ phase = "allow"
    /\ \E e \in todo :
       /\ todo' = todo \ {e}
       /\ \/ Succeeds /\ config' = config \cup {e} /\ excused' = excused \ {e}
          \/ Fails /\ excused' = (IF e \in config THEN excused ELSE excused \cup {e}) /\ UNCHANGED config
    /\ UNCHANGED <<schema, recorded, row, phase, cli, known, jobs, lost, settled>>

AllowlistApplied ==
    /\ phase = "allow" /\ todo = {}
    /\ phase' = "file" /\ todo' = FileTargets
    /\ UNCHANGED <<tables, cli, known, jobs, history, bounds>>

\* Faulty variant: an error ends the loading, not the process.
LoadFromFile_warn ==
    /\ phase = "file"
    /\ \E e \in todo :
       \/ Succeeds /\ config' = config \cup {e} /\ todo' = todo \ {e}
       \/ Fails /\ todo' = {} /\ UNCHANGED config
    /\ UNCHANGED <<schema, recorded, row, phase, cli, known, jobs, history>>

\* LoadFromFile, one target: an error ends the process.
LoadFromFile ==
    /\ phase = "file"
    /\ \E e \in todo :
       \/ /\ Succeeds /\ config' = config \cup {e} /\ excused' = excused \ {e}
          /\ todo' = todo \ {e} /\ UNCHANGED phase
       \/ Fails /\ phase' = "down" /\ todo' = {} /\ UNCHANGED <<config, excused>>
    /\ UNCHANGED <<schema, recorded, row, cli, known, jobs, lost, settled>>

ServeWith ==
    /\ phase = "file" /\ todo = {}
    /\ phase' = "serve"
    /\ UNCHANGED <<tables, todo, cli, known, jobs, history, bounds>>

\* fangs allow remove, fangs notifier remove.
CliRemove(e) ==
    /\ cli = "ready" /\ e \in config
    /\ cli' = "off"
    /\ config' = config \ {e} /\ excused' = excused \cup {e}
    /\ UNCHANGED <<schema, recorded, row, phase, todo, known, jobs, lost, settled, bounds>>

InMemory(r) == where[r] \in {"create", "enqueue", "queued", "answer"}

Crash ==
    /\ phase # "down" /\ crashes < MaxCrashes
    /\ crashes' = crashes + 1 /\ UNCHANGED <<faults, clis>>
    /\ phase' = "down" /\ todo' = {}
    /\ known' = [known EXCEPT !["orchestrator"] = {}]
    /\ where' = [r \in Runs |-> IF InMemory(r) THEN "over" ELSE where[r]]
    /\ lost' = lost \cup {r \in Runs : InMemory(r)}
    /\ attended' = {} /\ orphans' = [r \in Runs |-> 0] /\ registered' = FALSE
    /\ UNCHANGED <<tables, cli, posts, runner, excused, settled>>

-------------------------------------------------------------------------------
(* The life of a run                                                       *)

Serving == phase = "serve"
Go(r, place) == where' = [where EXCEPT ![r] = place]

\* handleRegister, at the start of the runner or after a heartbeat that told
\* it to.
Register ==
    /\ Serving /\ runner = "up" /\ ~registered
    /\ registered' = TRUE
    /\ UNCHANGED <<tables, boot, where, attended, orphans, posts, runner, history, bounds>>

\* handleQueueScan of the console, or the watcher: SubmitScan wants a runner
\* that is registered.
SubmitScan(r) ==
    /\ Serving /\ registered /\ where[r] = "new"
    /\ \/ cli = "ready" /\ cli' = "off"
       \/ UNCHANGED cli
    /\ Go(r, "create")
    /\ UNCHANGED <<tables, phase, todo, known, attended, orphans, posts, runner, registered,
                   history, bounds>>

\* Faulty variant: the row is written after the job is queued.
CreateRun_late(r) ==
    /\ Serving /\ where[r] \in {"create", "queued", "runner", "over"} /\ row[r] = None /\ Succeeds
    /\ IF where[r] = "create" THEN Go(r, "queued") /\ UNCHANGED row
       ELSE row' = [row EXCEPT ![r] = "pending"] /\ UNCHANGED where
    /\ UNCHANGED <<schema, recorded, config, boot, attended, orphans, posts, runner, registered, history>>

\* CreateRun: an error is logged and the job is queued all the same.
CreateRun(r) ==
    /\ Serving /\ where[r] = "create"
    /\ \/ Succeeds /\ row' = [row EXCEPT ![r] = "pending"]
       \/ Fails /\ UNCHANGED row
    /\ Go(r, "enqueue")
    /\ UNCHANGED <<schema, recorded, config, boot, attended, orphans, posts, runner, registered, history>>

QueueJob(r) ==
    /\ Serving /\ where[r] = "enqueue"
    /\ Go(r, "queued")
    /\ UNCHANGED <<tables, boot, attended, orphans, posts, runner, registered, history, bounds>>

Idle == runner = "up" /\ \A r \in Runs : where[r] \notin {"runner", "answer"}

\* Faulty variant: not before the run that was handed out last has ended.
PollJob_oneByOne(r) ==
    /\ Serving /\ registered /\ Idle /\ where[r] = "queued"
    /\ \A q \in Runs : where[q] = "over" => row[q] # "pending"
    /\ Go(r, "answer")
    /\ UNCHANGED <<tables, boot, attended, orphans, posts, runner, registered, history, bounds>>

\* handlePollJob hands out a job ...
PollJob(r) ==
    /\ Serving /\ registered /\ Idle /\ where[r] = "queued"
    /\ Go(r, "answer")
    /\ UNCHANGED <<tables, boot, attended, orphans, posts, runner, registered, history, bounds>>

\* ... and its answer arrives, or nobody reads it.
Answered(r) ==
    /\ where[r] = "answer"
    /\ \/ Succeeds /\ runner = "up" /\ Go(r, "runner") /\ UNCHANGED lost
       \/ (Fails \/ (runner = "dead" /\ Succeeds)) /\ Go(r, "over") /\ lost' = lost \cup {r}
    /\ UNCHANGED <<tables, boot, attended, orphans, posts, runner, registered, excused, settled>>

\* The runner posts a batch of events.
Post(r) ==
    /\ Serving /\ where[r] = "runner" /\ runner = "up"
    /\ r \notin attended /\ posts[r] < MaxPosts
    /\ posts' = [posts EXCEPT ![r] = @ + 1]
    /\ attended' = attended \cup {r}
    /\ UNCHANGED <<tables, boot, where, orphans, runner, registered, history, bounds>>

\* Its context ends, or it waits no longer.
GiveUp(r) ==
    /\ r \in attended
    /\ attended' = attended \ {r} /\ orphans' = [orphans EXCEPT ![r] = @ + 1]
    /\ UNCHANGED <<tables, boot, where, posts, runner, registered, history, bounds>>

\* UpdateRunState; a run without a row is ignored.
UpdateRunState(r, state) == row' = IF row[r] = None THEN row ELSE [row EXCEPT ![r] = state]

\* The end of handleEvents.  The context of an abandoned request may be
\* cancelled before the update.
handleEvents(r) ==
    /\ Serving
    /\ \/ /\ r \in attended /\ attended' = attended \ {r} /\ UNCHANGED orphans
          /\ (UpdateRunState(r, "done") /\ Succeeds) \/ (UNCHANGED row /\ Fails)
       \/ /\ orphans[r] > 0 /\ orphans' = [orphans EXCEPT ![r] = @ - 1] /\ UNCHANGED attended
          /\ (UpdateRunState(r, "done") \/ UNCHANGED row) /\ Succeeds
    /\ UNCHANGED <<schema, recorded, config, boot, where, posts, runner, registered, history>>

\* RecordScanResult: "timeout" counts as failed.
StateOf(status) == IF status = "ok" THEN "done" ELSE "failed"

\* Faulty variant: the result does not wait for the streamer.
handleScanResult_noWait(r, status) ==
    /\ where[r] = "runner" /\ runner = "up"
    /\ Serving /\ Succeeds /\ UpdateRunState(r, StateOf(status))
    /\ settled' = [settled EXCEPT ![r] = IF row[r] # None /\ orphans[r] = 0 THEN StateOf(status) ELSE None]
    /\ Go(r, "over")
    /\ UNCHANGED <<schema, recorded, config, boot, attended, orphans, posts, runner, registered, excused, lost>>

\* The job is over, its streamer closed: the result is posted once.
handleScanResult(r, status) ==
    /\ where[r] = "runner" /\ runner = "up" /\ r \notin attended
    /\ \/ /\ Serving /\ Succeeds /\ UpdateRunState(r, StateOf(status))
          /\ settled' = [settled EXCEPT ![r] = IF row[r] # None /\ orphans[r] = 0
                                               THEN StateOf(status) ELSE None]
          /\ UNCHANGED lost
       \/ /\ Fails \/ (~Serving /\ Succeeds)
          /\ lost' = lost \cup {r} /\ UNCHANGED <<row, settled>>
    /\ Go(r, "over")
    /\ UNCHANGED <<schema, recorded, config, boot, attended, orphans, posts, runner, registered, excused>>

RunnerDies ==
    /\ runner = "up" /\ Fails /\ runner' = "dead"
    /\ where' = [r \in Runs |-> IF where[r] = "runner" THEN "over" ELSE where[r]]
    /\ lost' = lost \cup {r \in Runs : where[r] = "runner"}
    /\ attended' = {}
    /\ orphans' = [r \in Runs |-> IF r \in attended THEN orphans[r] + 1 ELSE orphans[r]]
    /\ UNCHANGED <<tables, boot, posts, registered, excused, settled>>

\* prunerLoop: a dead runner is forgotten, a silent one too.
Evict ==
    /\ registered /\ registered' = FALSE
    /\ (runner = "dead" /\ Succeeds) \/ Fails
    /\ UNCHANGED <<tables, boot, where, attended, orphans, posts, runner, history>>

RunnerStarts ==
    /\ runner = "dead" /\ runner' = "up"
    /\ UNCHANGED <<tables, boot, where, attended, orphans, posts, registered, history, bounds>>

-------------------------------------------------------------------------------

Boot ==
    \/ Start \/ ApplyOne("orchestrator") \/ Migrated("orchestrator")
    \/ ApplyAllowlist \/ AllowlistApplied \/ LoadFromFile \/ ServeWith

Console ==
    \/ CliStart \/ ApplyOne("cli") \/ Migrated("cli")
    \/ \E e \in CfgAllow \cup FileTargets : CliRemove(e)

\* The steps of a run that somebody is about to take.
Progress(r) ==
    \/ CreateRun(r) \/ QueueJob(r) \/ PollJob(r) \/ Answered(r) \/ handleEvents(r)
    \/ \E status \in {"ok", "failed", "timeout"} : handleScanResult(r, status)

Next ==
    \/ Boot
    \/ Console
    \/ Crash
    \/ Register \/ Evict \/ RunnerDies \/ RunnerStarts
    \/ \E r \in Runs : SubmitScan(r) \/ Progress(r) \/ Post(r) \/ GiveUp(r)

Spec == Init /\ [][Next]_vars

\* A supervisor starts orchestrator and runner again; processes, handlers and
\* the runner's loops go on.  Nobody has to submit, post or use the console.
FairSpec ==
    /\ Spec
    /\ WF_vars(Boot) /\ WF_vars(Register) /\ WF_vars(RunnerStarts)
    /\ \A r \in Runs : WF_vars(Progress(r))

-------------------------------------------------------------------------------
(* Properties                                                              *)

\* Two processes may migrate at once, and either may die at any statement:
\* what is recorded is what took effect, nothing is skipped, and the server
\* listens on a complete schema only.
MigrationsAtomic ==
    /\ schema = recorded
    /\ \A v \in schema : 1..v \subseteq schema
    /\ phase \in {"allow", "file", "serve"} \/ cli = "ready" => schema = Versions

\* When the server listens, every entry of the two configuration files is in
\* the database, but for those whose insertion failed unnoticed and those the
\* operator has removed since ("re-applies on every startup").
ConfigInForce == Serving => (CfgAllow \cup FileTargets) \ excused \subseteq config

\* A run is pending only as long as its job is somewhere, or because a crash,
\* a lost answer or a dead runner took it, or its result could not be posted or
\* written: SubmitScan writes the row before it queues the job, so no result
\* can come too early.
PendingHasJob ==
    \A r \in Runs \ lost : row[r] = "pending" => where[r] \in {"enqueue", "queued", "answer", "runner"}

\* A result that is recorded when no event POST of the run is under way is the
\* last word: handleEvents, which writes "done" unconditionally, cannot turn
\* a failed run into a done one any more.
ResultIsFinal == \A r \in Runs : settled[r] # None => row[r] = settled[r]

\* The orchestrator comes up again after every exit: a migration that loses a
\* race against the console is not in its way at the next start.
ComesUp == phase = "down" ~> Serving

\* A submitted scan comes to an end, across restarts of both programs, unless
\* its job or its result went missing.
EveryScanEnds ==
    \A r \in Runs : row[r] = "pending" ~> row[r] \in {"done", "failed"} \/ r \in lost
===============================================================================
