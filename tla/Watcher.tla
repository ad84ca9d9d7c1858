-------------------------------- MODULE Watcher --------------------------------
(***************************************************************************)
(* The release watcher (internal/orchestrator/watcher/watcher.go), the     *)
(* submit closure it is given by cmd/fangs-orchestrator, and the CLI's     *)
(* `package add` and `package remove`, which edit the same rows from       *)
(* another process.                                                        *)
(***************************************************************************)
EXTENDS Naturals

CONSTANTS
    Packages,
    MaxVersion,   \* bound: releases 1..MaxVersion may be published
    MaxTurns,     \* bound: times the registry names one version the latest
    MaxMoves,     \* bound: moves of the registry's latest tags
    Unwatched,    \* "no packages row"
    InitialRows,  \* what a packages row may hold when the watcher starts
    MaxAdds,      \* bound: `package add` invocations
    Removals,     \* may the operator remove packages?
    RegistryFails,\* may the npm registry fail to answer?
    StoreFaults,  \* may a storage call fail?
    MaxOutages    \* bound: times the last runner disappears or the process dies

ReleaseVersions == 1..MaxVersion
Unseen == 0       \* last_seen_version IS NULL

ASSUME VersionAssumption == MaxVersion \in Nat \ {0} /\ Unwatched \notin 0..MaxVersion
ASSUME RowsAssumption == InitialRows \subseteq 0..MaxVersion \cup {Unwatched}
ASSUME TurnsAssumption == MaxTurns \in Nat \ {0} /\ MaxMoves \in Nat
ASSUME EditsAssumption == MaxAdds \in Nat /\ MaxOutages \in Nat
ASSUME WatcherFlags == {Removals, RegistryFails, StoreFaults} \subseteq BOOLEAN

VARIABLES
    watched,    \* packages: last_seen_version per package, or Unwatched
    releases,   \* releases rows: <<package, version>>
    latest,     \* the npm registry's dist-tag latest
    turns,      \* history: times a version became the latest one
    moves,
    runnersUp,  \* is some runner registered with the server?
    outages,
    wpc, wrows, wtodo, wcur, wver,   \* the watcher goroutine
    apc, apkg, aver, adds,           \* the operator's `package add`
    wscans,     \* scans the watcher queued, saturating at MaxTurns + 1
    kscans,     \* kickoff scans `package add` queued, saturating likewise
    waived,     \* <<package, version>> whose kickoff the operator skipped, or
                \* already seen when the watcher started
    refused,    \* history: <<package, version>> whose submission found no runner,
                \* or died with the process
    touched     \* history: packages whose row the operator changed, or a failed
                \* stamp left behind the registry

database == <<watched, releases>>
registry == <<latest, turns, moves>>
environment == <<registry, runnersUp, outages>>
watcher == <<wpc, wrows, wtodo, wcur, wver>>
adder == <<apc, apkg, aver, adds>>
scanHistory == <<refused, touched>>
scans == <<wscans, kscans, waived, scanHistory>>
watcherVars == <<database, environment, watcher, adder, scans>>

NoScans == [p \in Packages |-> [v \in ReleaseVersions |-> 0]]

WatcherInit ==
    /\ watched \in [Packages -> InitialRows]
    /\ latest = [p \in Packages |-> 1]
    /\ turns = [p \in Packages |-> [v \in ReleaseVersions |-> IF v = 1 THEN 1 ELSE 0]]
    /\ moves = 0
    /\ releases = {}
    /\ runnersUp = TRUE
    /\ outages = 0
    /\ wpc = "idle"
    /\ wrows = [p \in Packages |-> Unwatched]
    /\ wtodo = {}
    /\ wcur \in Packages
    /\ wver = Unseen
    /\ apc = "idle"
    /\ apkg \in Packages
    /\ aver = Unseen
    /\ adds = 0
    /\ wscans = NoScans
    /\ kscans = NoScans
    /\ waived = {x \in Packages \X ReleaseVersions : watched[x[1]] = x[2]}
    /\ refused = {}
    /\ touched = {}

\* SubmitScan queued one more run of version v of package p.
CountScan(count, p, v) ==
    [count EXCEPT ![p][v] = IF @ <= MaxTurns THEN @ + 1 ELSE @]

\* UPDATE packages ... WHERE name = p: a row that is gone stays gone.  Both
\* callers go on when the update fails.
UpdatePackageCheck(p, v) ==
    \/ watched' = [watched EXCEPT ![p] = IF @ = Unwatched THEN @ ELSE v]
    \/ StoreFaults /\ UNCHANGED watched

\* The packages rows changed, or stayed, behind the watcher's back.
Touch(p) == touched' = touched \cup {p}

\* The submit closure: "no runners registered" when there is none.
Refuse(p, v) == refused' = IF runnersUp THEN refused ELSE refused \cup {<<p, v>>}

-------------------------------------------------------------------------------
(* PollOnce and pollPackage                                                *)

\* ListWatchedPackages: the cycle works on this copy of the rows.
PollStart ==
    /\ wpc = "idle"
    /\ wpc' = "next"
    /\ wrows' = watched
    /\ wtodo' = {p \in Packages : watched[p] # Unwatched}
    /\ UNCHANGED <<wcur, wver, database, environment, adder, scans>>

PollEnd ==
    /\ wpc = "next" /\ wtodo = {}
    /\ wpc' = "idle"
    /\ UNCHANGED <<wrows, wtodo, wcur, wver, database, environment, adder, scans>>

\* registry.LatestVersion
PollFetch(p) ==
    /\ wpc = "next" /\ p \in wtodo
    /\ wtodo' = wtodo \ {p}
    /\ wcur' = p
    /\ wver' = latest[p]
    /\ wpc' = "stamp"
    /\ UNCHANGED <<wrows, database, environment, adder, scans>>

PollFetchFails(p) ==
    /\ RegistryFails
    /\ wpc = "next" /\ p \in wtodo
    /\ wtodo' = wtodo \ {p}
    /\ UNCHANGED <<wpc, wrows, wcur, wver, database, environment, adder, scans>>

\* Faulty variant: the row is only stamped when nothing changed.
PollStamp_unchangedOnly ==
    /\ wpc = "stamp"
    /\ IF wver = wrows[wcur] THEN UpdatePackageCheck(wcur, wver) ELSE UNCHANGED watched
    /\ wpc' = IF wver = wrows[wcur] THEN "next" ELSE "record"
    /\ UNCHANGED <<releases, wrows, wtodo, wcur, wver, environment, adder, scans>>

\* Faulty variant: the first poll of a package only takes note of its version.
PollStamp_firstPollSilent ==
    /\ wpc = "stamp"
    /\ UpdatePackageCheck(wcur, wver)
    /\ wpc' = IF wrows[wcur] \in {wver, Unseen} THEN "next" ELSE "record"
    /\ UNCHANGED <<releases, wrows, wtodo, wcur, wver, environment, adder, scans>>

\* last_seen_version is stamped before the comparison, and whether or not the
\* scan will be accepted.  The comparison uses the cycle's copy of the row.
PollStamp ==
    /\ wpc = "stamp"
    /\ UpdatePackageCheck(wcur, wver)
    /\ touched' = IF watched'[wcur] = wver THEN touched ELSE touched \cup {wcur}
    /\ wpc' = IF wver = wrows[wcur] THEN "next" ELSE "record"
    /\ UNCHANGED <<releases, wrows, wtodo, wcur, wver, environment, adder,
                   wscans, kscans, waived, refused>>

\* Faulty variant: releases are inserted without the foreign key to packages.
PollRecord_noForeignKey ==
    /\ wpc = "record"
    /\ releases' = releases \cup {<<wcur, wver>>}
    /\ wpc' = "submit"
    /\ UNCHANGED <<watched, wrows, wtodo, wcur, wver, environment, adder, scans>>

\* RecordRelease, rejected by the foreign key once the package is removed.
PollRecord ==
    /\ wpc = "record"
    /\ \/ watched[wcur] # Unwatched /\ releases' = releases \cup {<<wcur, wver>>}
       \/ (StoreFaults \/ watched[wcur] = Unwatched) /\ UNCHANGED releases
    /\ wpc' = "submit"
    /\ UNCHANGED <<watched, wrows, wtodo, wcur, wver, environment, adder, scans>>

\* A refused submission is logged and the cycle moves on.
PollSubmit ==
    /\ wpc = "submit"
    /\ wscans' = IF runnersUp THEN CountScan(wscans, wcur, wver) ELSE wscans
    /\ Refuse(wcur, wver)
    /\ wpc' = "next"
    /\ UNCHANGED <<wrows, wtodo, wcur, wver, database, environment, adder,
                   kscans, waived, touched>>

-------------------------------------------------------------------------------
(* packageAdd and packageRemove                                            *)

\* Refused if already watched; the registry lookup names the current version
\* unless -skip-registry-validate.
AddStart(p) ==
    /\ apc = "idle" /\ adds < MaxAdds
    /\ watched[p] = Unwatched
    /\ adds' = adds + 1
    /\ apkg' = p
    /\ aver' \in {latest[p], Unseen}
    /\ apc' = "insert"
    /\ UNCHANGED <<database, environment, watcher, scans>>

\* INSERT ... ON CONFLICT DO NOTHING.  The command ends here if no version was
\* looked up, or if the insert fails.
AddInsert ==
    /\ apc = "insert"
    /\ \/ /\ watched' = [watched EXCEPT ![apkg] = IF @ = Unwatched THEN Unseen ELSE @]
          /\ apc' = IF aver = Unseen THEN "idle" ELSE "stamp"
       \/ /\ StoreFaults
          /\ UNCHANGED watched
          /\ apc' = "idle"
    /\ UNCHANGED <<releases, apkg, aver, adds, environment, watcher, scans>>

AddStamp ==
    /\ apc = "stamp"
    /\ UpdatePackageCheck(apkg, aver)
    /\ Touch(apkg)
    /\ apc' = "kickoff"
    /\ UNCHANGED <<releases, apkg, aver, adds, environment, watcher,
                   wscans, kscans, waived, refused>>

\* The kickoff scan; -skip-initial-scan leaves it out.
AddKickoff ==
    /\ apc = "kickoff"
    /\ \/ /\ kscans' = IF runnersUp THEN CountScan(kscans, apkg, aver) ELSE kscans
          /\ Refuse(apkg, aver)
          /\ UNCHANGED waived
       \/ /\ waived' = waived \cup {<<apkg, aver>>}
          /\ UNCHANGED <<kscans, refused>>
    /\ apc' = "idle"
    /\ UNCHANGED <<apkg, aver, adds, database, environment, watcher, wscans, touched>>

\* DELETE FROM packages; releases go with it (ON DELETE CASCADE).
PackageRemove(p) ==
    /\ Removals
    /\ watched[p] # Unwatched
    /\ watched' = [watched EXCEPT ![p] = Unwatched]
    /\ releases' = {x \in releases : x[1] # p}
    /\ Touch(p)
    /\ UNCHANGED <<environment, watcher, adder, wscans, kscans, waived, refused>>

-------------------------------------------------------------------------------
(* Environment: the npm registry and the runner fleet.                     *)

\* The tag moves to another version: a new release, or an earlier one again
\* (`npm dist-tag add`, an unpublished release).
Publish(p, v) ==
    /\ v # latest[p] /\ turns[p][v] < MaxTurns /\ moves < MaxMoves
    /\ latest' = [latest EXCEPT ![p] = v]
    /\ turns' = [turns EXCEPT ![p][v] = @ + 1]
    /\ moves' = moves + 1
    /\ UNCHANGED <<runnersUp, outages, database, watcher, adder, scans>>

RunnersGone ==
    /\ runnersUp /\ outages < MaxOutages
    /\ runnersUp' = FALSE
    /\ outages' = outages + 1
    /\ UNCHANGED <<registry, database, watcher, adder, scans>>

RunnerBack ==
    /\ ~runnersUp
    /\ runnersUp' = TRUE
    /\ UNCHANGED <<registry, outages, database, watcher, adder, scans>>

\* The orchestrator is killed and started again: the cycle is forgotten.
Restart ==
    /\ wpc # "idle" /\ outages < MaxOutages
    /\ outages' = outages + 1
    /\ wpc' = "idle" /\ wtodo' = {}
    /\ refused' = IF wpc \in {"record", "submit"} THEN refused \cup {<<wcur, wver>>} ELSE refused
    /\ UNCHANGED <<wrows, wcur, wver, registry, runnersUp, database, adder,
                   wscans, kscans, waived, touched>>

PollStep == \/ PollStart \/ PollEnd \/ PollStamp \/ PollRecord \/ PollSubmit

AddStep == AddInsert \/ AddStamp \/ AddKickoff

WatcherNext ==
    \/ PollStep
    \/ AddStep
    \/ \E p \in Packages : \/ PollFetch(p) \/ PollFetchFails(p)
                           \/ AddStart(p) \/ PackageRemove(p)
    \/ \E p \in Packages, v \in ReleaseVersions : Publish(p, v)
    \/ RunnersGone \/ RunnerBack \/ Restart

WatcherSpec == WatcherInit /\ [][WatcherNext]_watcherVars

\* The ticker keeps firing, the registry answers again and again (strong
\* fairness: a fetch may also fail in between), and an outage ends.
FairWatcherSpec ==
    /\ WatcherSpec
    /\ WF_watcherVars(PollStep) /\ WF_watcherVars(AddStep) /\ WF_watcherVars(RunnerBack)
    /\ \A p \in Packages : SF_watcherVars(PollFetch(p))

-------------------------------------------------------------------------------
(* Properties                                                              *)

\* Types; and a version is only stamped, recorded or submitted once the registry
\* has named one (PollStamp onwards, AddStamp onwards).
WatcherTypeOK ==
    /\ watched \in [Packages -> 0..MaxVersion \cup {Unwatched}]
    /\ releases \subseteq Packages \X ReleaseVersions
    /\ latest \in [Packages -> ReleaseVersions]
    /\ turns \in [Packages -> [ReleaseVersions -> 0..MaxTurns]]
    /\ moves \in 0..MaxMoves
    /\ runnersUp \in BOOLEAN
    /\ outages \in 0..MaxOutages
    /\ wpc \in {"idle", "next", "stamp", "record", "submit"}
    /\ wrows \in [Packages -> 0..MaxVersion \cup {Unwatched}]
    /\ wtodo \subseteq Packages
    /\ wcur \in Packages
    /\ wver \in 0..MaxVersion
    /\ apc \in {"idle", "insert", "stamp", "kickoff"}
    /\ apkg \in Packages
    /\ aver \in 0..MaxVersion
    /\ adds \in 0..MaxAdds
    /\ wscans \in [Packages -> [ReleaseVersions -> 0..(MaxTurns + 1)]]
    /\ kscans \in [Packages -> [ReleaseVersions -> 0..(MaxTurns + 1)]]
    /\ waived \subseteq Packages \X ReleaseVersions
    /\ refused \subseteq Packages \X ReleaseVersions
    /\ touched \subseteq Packages
    /\ wpc \in {"stamp", "record", "submit"} => wver # Unseen
    /\ apc \in {"stamp", "kickoff"} => aver # Unseen

\* The watcher by itself queues at most one scan of a version for each time the
\* registry makes it the latest one, across polls, registry failures, runner
\* outages and restarts: the stamp precedes the submission.  (pollPackage
\* compares by inequality: a tag that moves back and forth has a version scanned
\* again.)  One more needs an edit by the operator or a stamp that failed.
OneScanPerRelease ==
    \A p \in Packages \ touched, v \in ReleaseVersions : wscans[p][v] <= turns[p][v]

\* No release row survives, or is created for, a package that is not watched:
\* `package remove` may fall between any two steps of a poll.
ReleasesAreWatched == \A x \in releases : watched[x[1]] # Unwatched

Scanned(p, v) == wscans[p][v] > 0 \/ kscans[p][v] > 0 \/ <<p, v>> \in waived

\* A version that stays the latest one of a package that stays watched is
\* scanned, by the kickoff or by the watcher, or its submission was refused:
\* adds, removals and failing calls between any two steps of a poll lose none.
ScannedOrRefused ==
    \A p \in Packages, v \in ReleaseVersions :
        <>[](watched[p] # Unwatched /\ latest[p] = v)
            => <>(Scanned(p, v) \/ <<p, v>> \in refused)

===============================================================================
