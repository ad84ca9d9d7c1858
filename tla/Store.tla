-------------------------------- MODULE Store ---------------------------------
(***************************************************************************)
(* What storage.Backend promises (internal/orchestrator/storage/           *)
(* storage.go): every method that writes is one indivisible change of the  *)
(* tables, whoever else is calling: a method that writes several rows      *)
(* writes all of them at once, and a method that returns an error has      *)
(* changed nothing.                                                        *)
(*                                                                         *)
(* Every other module of this project that calls the store relies on this  *)
(* specification; Postgres shows that the transactions of the PostgreSQL   *)
(* backend, statement by statement, implement it.                          *)
(***************************************************************************)
EXTENDS Naturals, Sequences, FiniteSets

CONSTANTS
    Runs,       \* run ids
    FPs,        \* keys of baseline_fingerprints: (package, category, value)
    MaxEvent,   \* bound on events.id
    DevIds,     \* deviation ids
    Packages,   \* watchable packages
    Versions,   \* their versions
    AllowIds,   \* allowlist ids
    Targets,    \* notifier names
    Callers,    \* goroutines that call a method of several rows
    None        \* no row, no run

\* The states of storage.RunState that some caller sets.
RunState == {"pending", "done", "failed"}

ASSUME NoneAssumption == None \notin Runs \cup RunState
ASSUME CallersAssumption == None \notin Callers \cup FPs
ASSUME MaxEventAssumption == MaxEvent \in Nat

VARIABLES
    state,         \* runs.state, None: no such row
    isBaseline,    \* runs.is_baseline
    event,         \* events.run_id by id, None: no such row
    baseline,      \* baseline_fingerprints rows, NoRow: no such row
    deviations,    \* deviations rows
    watched,       \* packages rows
    releases,      \* releases rows: <<package, version>>
    allow,         \* allowlists rows
    notifiers,     \* notifiers rows
    notifications, \* notifications rows: <<target, run>>
    request,       \* per caller, the call that has not returned yet
    (* history *)
    used,          \* ids that events rows ever had
    merges         \* per baseline key, the runs merged so far, in commit order

catalog == <<watched, releases, allow, notifiers, notifications>>
tables == <<state, isBaseline, event, baseline, deviations, catalog, used, merges>>
storeVars == <<tables, request>>

EventIds == 1..MaxEvent
DeviationRow == [id : DevIds, run : Runs, evidence : EventIds]
NoRow == [first |-> None, last |-> None, count |-> 0]
BaselineRow == [first : Runs \cup {None}, last : Runs \cup {None}, count : Nat]

\* The arguments of MergeBaseline (fps), AppendEvents (n events) and
\* WriteDeviations (devs).
Request == [m : {"none", "append", "merge", "write"}, run : Runs \cup {None},
            fps : SUBSET FPs, n : Nat, devs : SUBSET DeviationRow]
NoRequest == [m |-> "none", run |-> None, fps |-> {}, n |-> 0, devs |-> {}]

StoreTypeOK ==
    /\ state \in [Runs -> RunState \cup {None}]
    /\ isBaseline \in [Runs -> BOOLEAN]
    /\ event \in [EventIds -> Runs \cup {None}]
    /\ baseline \in [FPs -> BaselineRow]
    /\ deviations \subseteq DeviationRow
    /\ watched \subseteq Packages
    /\ releases \subseteq Packages \X Versions
    /\ allow \subseteq AllowIds
    /\ notifiers \subseteq Targets
    /\ notifications \subseteq Targets \X Runs
    /\ used \subseteq EventIds
    /\ merges \in [FPs -> Seq(Runs)]
    /\ request \in [Callers -> Request]

StoreInit ==
    /\ state = [r \in Runs |-> None]
    /\ isBaseline = [r \in Runs |-> FALSE]
    /\ event = [i \in EventIds |-> None]
    /\ baseline = [fp \in FPs |-> NoRow]
    /\ deviations = {}
    /\ watched = {}
    /\ releases = {}
    /\ allow = {}
    /\ notifiers = {}
    /\ notifications = {}
    /\ used = {}
    /\ merges = [fp \in FPs |-> <<>>]
    /\ request = [c \in Callers |-> NoRequest]

-------------------------------------------------------------------------------
(* runs                                                                    *)

\* ErrConflict when the id exists.
CreateRun(r) ==
    /\ state[r] = None
    /\ state' = [state EXCEPT ![r] = "pending"]
    /\ UNCHANGED <<isBaseline, event, baseline, deviations, catalog, used, merges>>

\* ErrNotFound when it does not; any state replaces any other.
UpdateRunState(r, s) ==
    /\ state[r] # None
    /\ state' = [state EXCEPT ![r] = s]
    /\ UNCHANGED <<isBaseline, event, baseline, deviations, catalog, used, merges>>

\* "ok" and everything unknown ends in done, "failed" and "timeout" in failed.
RecordScanResult(r, status) ==
    /\ state[r] # None
    /\ state' = [state EXCEPT ![r] =
                    IF status \in {"failed", "timeout"} THEN "failed" ELSE "done"]
    /\ UNCHANGED <<isBaseline, event, baseline, deviations, catalog, used, merges>>

MarkRunBaseline(r) ==
    /\ state[r] # None
    /\ isBaseline' = [isBaseline EXCEPT ![r] = TRUE]
    /\ UNCHANGED <<state, event, baseline, deviations, catalog, used, merges>>

-------------------------------------------------------------------------------
(* events, baseline_fingerprints, deviations                               *)

Call(c) ==
    /\ request[c] = NoRequest
    /\ request'[c] \in Request /\ request'[c].run \in Runs
    /\ request' = [request EXCEPT ![c] = request'[c]]
    /\ UNCHANGED tables

Return(c) == request' = [request EXCEPT ![c] = NoRequest]

\* An error: nothing was written.
Fail(c) ==
    /\ request[c] # NoRequest
    /\ Return(c)
    /\ UNCHANGED tables

\* The whole batch, under ids no row ever had.
AppendEvents(c, ids) ==
    /\ request[c].m = "append"
    /\ state[request[c].run] # None
    /\ ids \subseteq EventIds \ used
    /\ Cardinality(ids) = request[c].n
    /\ event' = [i \in EventIds |-> IF i \in ids THEN request[c].run ELSE event[i]]
    /\ used' = used \cup ids
    /\ Return(c)
    /\ UNCHANGED <<state, isBaseline, baseline, deviations, catalog, merges>>

\* INSERT, or ON CONFLICT DO UPDATE of last_seen_run_id and occurrence_count.
Upsert(row, r) ==
    [first |-> IF row.count = 0 THEN r ELSE row.first,
     last |-> r,
     count |-> row.count + 1]

\* Every row of the call.
MergeBaseline(c) ==
    LET r == request[c].run
        fps == request[c].fps
    IN
    /\ request[c].m = "merge"
    /\ baseline' = [fp \in FPs |-> IF fp \in fps THEN Upsert(baseline[fp], r) ELSE baseline[fp]]
    /\ merges' = [fp \in FPs |-> IF fp \in fps THEN Append(merges[fp], r) ELSE merges[fp]]
    /\ Return(c)
    /\ UNCHANGED <<state, isBaseline, event, deviations, catalog, used>>

Evidence(rows) == {d.evidence : d \in rows}

\* The foreign keys to runs and events reject a row whose parent is gone.
WriteDeviations(c) ==
    /\ request[c].m = "write"
    /\ \A d \in request[c].devs : state[d.run] # None /\ event[d.evidence] # None
    /\ deviations' = deviations \cup request[c].devs
    /\ Return(c)
    /\ UNCHANGED <<state, isBaseline, event, baseline, catalog, used, merges>>

DeleteDeviationsForRun(r) ==
    /\ deviations' = {d \in deviations : d.run # r}
    /\ UNCHANGED <<state, isBaseline, event, baseline, catalog, used, merges>>

\* Faulty variant: evidence is not pinned, the cascade is off.
PruneEvents_unpinned(old) ==
    /\ event' = [i \in EventIds |-> IF i \in old THEN None ELSE event[i]]
    /\ UNCHANGED <<state, isBaseline, baseline, deviations, catalog, used, merges>>

\* Events past the cutoff go, except the evidence of a deviation.
PruneEvents(old) ==
    /\ event' = [i \in EventIds |->
                    IF i \in old \ Evidence(deviations) THEN None ELSE event[i]]
    /\ UNCHANGED <<state, isBaseline, baseline, deviations, catalog, used, merges>>

-------------------------------------------------------------------------------
(* packages and releases, allowlists, notifiers and their log              *)

\* ON CONFLICT DO NOTHING.
AddWatchedPackage(p) ==
    /\ watched' = watched \cup {p}
    /\ UNCHANGED <<state, isBaseline, event, baseline, deviations, used, merges,
                   releases, allow, notifiers, notifications>>

\* The rows of releases go with their package.
RemoveWatchedPackage(p) ==
    /\ p \in watched
    /\ watched' = watched \ {p}
    /\ releases' = {x \in releases : x[1] # p}
    /\ UNCHANGED <<state, isBaseline, event, baseline, deviations, used, merges,
                   allow, notifiers, notifications>>

\* An error for a package that is no longer watched, a no-op for a known release.
RecordRelease(p, v) ==
    /\ p \in watched
    /\ releases' = releases \cup {<<p, v>>}
    /\ UNCHANGED <<state, isBaseline, event, baseline, deviations, used, merges,
                   watched, allow, notifiers, notifications>>

AddAllowEntry(a) ==
    /\ a \notin allow
    /\ allow' = allow \cup {a}
    /\ UNCHANGED <<state, isBaseline, event, baseline, deviations, used, merges,
                   watched, releases, notifiers, notifications>>

DeleteAllowEntry(a) ==
    /\ allow' = allow \ {a}
    /\ UNCHANGED <<state, isBaseline, event, baseline, deviations, used, merges,
                   watched, releases, notifiers, notifications>>

UpsertNotifier(n) ==
    /\ notifiers' = notifiers \cup {n}
    /\ UNCHANGED <<state, isBaseline, event, baseline, deviations, used, merges,
                   watched, releases, allow, notifications>>

\* The delivery log of a target goes with it.
DeleteNotifier(n) ==
    /\ notifiers' = notifiers \ {n}
    /\ notifications' = {x \in notifications : x[1] # n}
    /\ UNCHANGED <<state, isBaseline, event, baseline, deviations, used, merges,
                   watched, releases, allow>>

\* An error when the target or the run is gone.
RecordNotification(n, r) ==
    /\ n \in notifiers
    /\ state[r] # None
    /\ notifications' = notifications \cup {<<n, r>>}
    /\ UNCHANGED <<state, isBaseline, event, baseline, deviations, used, merges,
                   watched, releases, allow, notifiers>>

CatalogNext ==
    \/ \E p \in Packages :
        \/ AddWatchedPackage(p)
        \/ RemoveWatchedPackage(p)
        \/ \E v \in Versions : RecordRelease(p, v)
    \/ \E a \in AllowIds : AddAllowEntry(a) \/ DeleteAllowEntry(a)
    \/ \E n \in Targets :
        \/ UpsertNotifier(n)
        \/ DeleteNotifier(n)
        \/ \E r \in Runs : RecordNotification(n, r)

\* The methods that are one statement in either backend.
OneStatement ==
    \/ \E r \in Runs :
        \/ CreateRun(r)
        \/ UpdateRunState(r, "done")
        \/ \E status \in {"ok", "failed", "timeout"} : RecordScanResult(r, status)
        \/ MarkRunBaseline(r)
        \/ DeleteDeviationsForRun(r)
    \/ CatalogNext

StoreNext ==
    \/ OneStatement /\ UNCHANGED request
    \/ \E old \in SUBSET EventIds : PruneEvents(old) /\ UNCHANGED request
    \/ \E c \in Callers :
        \/ Call(c)
        \/ Fail(c)
        \/ \E ids \in SUBSET EventIds : AppendEvents(c, ids)
        \/ MergeBaseline(c)
        \/ WriteDeviations(c)

StoreSpec == StoreInit /\ [][StoreNext]_storeVars

-------------------------------------------------------------------------------
(* What the tables say, whoever wrote them.                                *)

\* A baseline row is the summary of the merges that committed: the first run,
\* the last one and how many (MergeBaseline's ON CONFLICT arm).  No merge is
\* lost, counted twice or counted although its call failed.
CountsAddUp ==
    \A fp \in FPs :
        baseline[fp] = IF merges[fp] = <<>> THEN NoRow
                       ELSE [first |-> Head(merges[fp]),
                             last |-> merges[fp][Len(merges[fp])],
                             count |-> Len(merges[fp])]

\* Every child row has its parent: events and notifications their run,
\* deviations their run and evidence, releases their package, log rows their
\* target, through every delete and its cascade.
ReferencesHold ==
    /\ \A i \in EventIds : event[i] # None => state[event[i]] # None
    /\ \A d \in deviations : state[d.run] # None /\ event[d.evidence] # None
    /\ \A x \in releases : x[1] \in watched
    /\ \A x \in notifications : x[1] \in notifiers /\ state[x[2]] # None

\* The tables agree with each other and with the calls that returned.
TablesAgree == CountsAddUp /\ ReferencesHold

\* An event id names one event for ever: the row behind a deviation's evidence
\* link may be pruned, but the id never comes back for another event.
IdsAreForever ==
    [][\A i \in EventIds : i \in used => event'[i] \in {event[i], None}]_tables
===============================================================================
