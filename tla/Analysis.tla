------------------------------- MODULE Analysis -------------------------------
(***************************************************************************)
(* From a runner's event POSTs to baselines and deviations: the ingest     *)
(* handler and its debounced analysis (internal/orchestrator/api/          *)
(* server.go), Differ.AnalyzeRun (internal/orchestrator/differ/analyze.go),*)
(* the storage calls they make (internal/orchestrator/storage/sqlite), the *)
(* operator's `baseline promote` and allowlist edits (cmd/fangs-cli), and  *)
(* the retention pruner.                                                   *)
(*                                                                         *)
(* Each storage call is one transaction and one action, and everything     *)
(* between two calls may interleave with every other goroutine and with    *)
(* the CLI, which works on the same database.                              *)
(***************************************************************************)
EXTENDS Naturals, Sequences, FiniteSets

CONSTANTS
    Runs,           \* scan runs whose rows SubmitScan persisted
    Packages,       \* package names
    PkgOf,          \* runs.package_name; NoPkg for a run without one
    NoPkg,
    FPs,            \* distinct (category, normalized value) fingerprints
    NoFP,           \* "this event yields no fingerprint"
    NoRun,          \* no run: no baseline row, or a goroutine that is not running
    Batches,        \* event batches a POST may carry: sequences over FPs, NoFP
    AllowEntries,   \* allowlist rows an operator may add: <<scope, fingerprint>>
    Global,         \* the scope of a global allowlist row
    Callers,        \* timer-callback goroutines (bounds concurrency)
    EventLimit,     \* ListEventsByRun's cap, 10000 in the code
    Results,        \* final states runners report: subset of {"done", "failed"}
    MaxPosts,       \* per run, how many POSTs its event stream has
    Overlap,        \* may a timer fire while the run is still being analysed?
    Promotable,     \* runs the operator may promote
    PromoteAnytime, \* may the operator promote a run that is still streaming?
    Retention,      \* does the modelled period reach the retention window?
    StoreFaults,    \* may a storage call fail?
    Crashes         \* may the orchestrator be killed and restarted?

ASSUME PkgOfAssumption == PkgOf \in [Runs -> Packages \cup {NoPkg}]
ASSUME NullsAssumption == NoFP \notin FPs /\ NoRun \notin Runs /\ NoPkg \notin Packages
ASSUME BatchAssumption == Batches \subseteq Seq(FPs \cup {NoFP})
ASSUME AllowAssumption == AllowEntries \subseteq (Packages \cup {Global}) \X FPs
ASSUME LimitAssumption == EventLimit \in Nat /\ MaxPosts \in [Runs -> Nat]
ASSUME PromotableAssumption == Promotable \subseteq Runs
ASSUME ResultsAssumption == Results \subseteq {"done", "failed"}
ASSUME FlagAssumption ==
    {Overlap, PromoteAnytime, Retention, StoreFaults, Crashes} \subseteq BOOLEAN

VARIABLES
    (* the database *)
    events,     \* events rows: [id, run, fp]
    nextId,     \* the next autoincrement id
    baseline,   \* per package and fingerprint, first_seen_run_id or NoRun
    deviations, \* deviations rows: [id, run, fp, evidence]
    isBaseline, \* runs.is_baseline
    state,      \* runs.state
    allow,      \* allowlists rows
    retired,    \* runs whose events are past the retention window
    (* handleEvents and scheduleDiffer *)
    posts,      \* per run, POSTs accepted so far
    posting,    \* runs whose POST handler has not yet scheduled the Differ
    inMap,      \* runs with an entry in differTimers
    armed,      \* runs whose mapped timer is armed
    orphans,    \* per run, armed timers that are no longer in the map
    (* Differ.AnalyzeRun, one per timer callback *)
    cpc, crun, cevs, callow, cbase,
    (* baselinePromote, run by the operator *)
    opc, orun, oevs, oallow,
    (* history *)
    alerted,    \* runs for which notifier.Trigger found deviations to send
    allowedEver,\* allowlist rows that ever existed
    written     \* number of WriteDeviations transactions, to tell rows apart

db == <<events, nextId, baseline, deviations, isBaseline, state, allow, retired>>
server == <<posts, posting, inMap, armed, orphans>>
differ == <<cpc, crun, cevs, callow, cbase>>
operator == <<opc, orun, oevs, oallow>>
history == <<alerted, allowedEver, written>>
vars == <<db, server, differ, operator, history>>

RunStates == {"pending", "done", "failed"}
CallerPC == {"idle", "list", "allow", "base", "seed", "seedmark", "delete",
             "write", "bump", "mark", "finish", "found", "notify"}
OperatorPC == {"idle", "allow", "merge", "mark", "clear"}

-------------------------------------------------------------------------------
(* Reading the rows                                                        *)

EventsOf(r) == {e \in events : e.run = r}

\* ORDER BY ts_ns, id LIMIT EventLimit: the oldest rows win.
ListEventsByRun(r) ==
    {e \in EventsOf(r) :
        Cardinality({f.id : f \in {g \in EventsOf(r) : g.id < e.id}}) < EventLimit}

\* What NewFilter(EntriesForPackage(...)) suppresses for package p.
Suppressed(entries, p) == {fp \in FPs : <<Global, fp>> \in entries \/ <<p, fp>> \in entries}

ExtractFingerprintsWith(evs, suppressed) ==
    ({e.fp : e \in evs} \ {NoFP}) \ suppressed

\* Faulty variant: the first event of the run, not of the fingerprint's bucket.
FirstEvtID_ofRun(evs, fp) ==
    CHOOSE i \in {e.id : e \in evs} : \A e \in evs : i <= e.id

\* FirstEvtID of the fingerprint's bucket.
FirstEvtID(evs, fp) ==
    CHOOSE i \in {e.id : e \in {e \in evs : e.fp = fp}} :
        \A e \in evs : e.fp = fp => i <= e.id

LoadBaseline(p) == {fp \in FPs : baseline[p][fp] # NoRun}

\* INSERT ... ON CONFLICT DO UPDATE: an existing row keeps first_seen_run_id.
MergeBaseline(r, fps) ==
    baseline' = [baseline EXCEPT ![PkgOf[r]] =
        [fp \in FPs |-> IF fp \in fps /\ @[fp] = NoRun THEN r ELSE @[fp]]]

\* ListDeviations
RowsOf(r) == {d \in deviations : d.run = r}

DeleteDeviationsForRun(r) == deviations' = deviations \ RowsOf(r)

Idle(r) == \A c \in Callers : crun[c] # r
TimerPending(r) == r \in armed \/ orphans[r] > 0

StreamOver(r) == posts[r] = MaxPosts[r]

\* Nothing is in flight for run r.
Quiet(r) ==
    /\ r \notin posting
    /\ ~TimerPending(r)
    /\ Idle(r)
    /\ orun # r

-------------------------------------------------------------------------------
Init ==
    /\ events = {}
    /\ nextId = 1
    /\ baseline = [p \in Packages |-> [fp \in FPs |-> NoRun]]
    /\ deviations = {}
    /\ isBaseline = [r \in Runs |-> FALSE]
    /\ state = [r \in Runs |-> "pending"]
    /\ allow = {}
    /\ retired = {}
    /\ posts = [r \in Runs |-> 0]
    /\ posting = {}
    /\ inMap = {}
    /\ armed = {}
    /\ orphans = [r \in Runs |-> 0]
    /\ cpc = [c \in Callers |-> "idle"]
    /\ crun = [c \in Callers |-> NoRun]
    /\ cevs = [c \in Callers |-> {}]
    /\ callow = [c \in Callers |-> {}]
    /\ cbase = [c \in Callers |-> {}]
    /\ opc = "idle"
    /\ orun = NoRun
    /\ oevs = {}
    /\ oallow = {}
    /\ alerted = {}
    /\ allowedEver = {}
    /\ written = 0

-------------------------------------------------------------------------------
(* handleEvents: append the batch, then mark the run done and schedule.    *)

\* The runner's streamer sends one batch per POST, one POST at a time, and is
\* closed before the final result is reported.  A failed AppendEvents is only
\* logged: the handler goes on and answers 200.
PostEvents(r, batch) ==
    /\ ~StreamOver(r)
    /\ r \notin posting
    /\ state[r] # "failed"
    /\ posts' = [posts EXCEPT ![r] = @ + 1]
    /\ posting' = posting \cup {r}
    /\ \/ /\ events' = events \cup
               {[id |-> nextId + i - 1, run |-> r, fp |-> batch[i]] : i \in DOMAIN batch}
          /\ nextId' = nextId + Len(batch)
       \/ StoreFaults /\ UNCHANGED <<events, nextId>>
    /\ UNCHANGED <<baseline, deviations, isBaseline, state, allow, retired,
                   inMap, armed, orphans, differ, operator, history>>

\* Faulty variant: an existing map entry is trusted to be armed, no Reset.
ScheduleDiffer_noReset(r) ==
    /\ armed' = IF r \in inMap THEN armed ELSE armed \cup {r}
    /\ inMap' = inMap \cup {r}
    /\ UNCHANGED orphans

\* differTimers[r].Reset if there is an entry, a new timer otherwise.
ScheduleDiffer(r) ==
    /\ armed' = armed \cup {r}
    /\ inMap' = inMap \cup {r}
    /\ UNCHANGED orphans

FinishPost(r) ==
    /\ r \in posting
    /\ posting' = posting \ {r}
    /\ \/ state' = [state EXCEPT ![r] = "done"]
       \/ StoreFaults /\ UNCHANGED state
    /\ ScheduleDiffer(r)
    /\ UNCHANGED <<events, nextId, baseline, deviations, isBaseline, allow, retired,
                   posts, differ, operator, history>>

\* RecordScanResult: ok -> done, failed | timeout -> failed, whatever was there.
\* A runner reports once per run, so a failed run reports no more.
ScanResult(r, final) ==
    /\ state[r] # "failed" /\ state[r] # final
    /\ state' = [state EXCEPT ![r] = final]
    /\ UNCHANGED <<events, nextId, baseline, deviations, isBaseline, allow, retired,
                   server, differ, operator, history>>

-------------------------------------------------------------------------------
(* The debounce timer and its callback.                                    *)

\* time.AfterFunc runs the callback in a goroutine of its own.  The map entry
\* stays until the callback removes it, so a Reset in between re-arms the
\* same timer and its callback can run a second time, concurrently.
Fire(r, c) ==
    /\ cpc[c] = "idle"
    /\ Overlap \/ Idle(r)
    /\ \/ /\ r \in armed
          /\ armed' = armed \ {r}
          /\ UNCHANGED orphans
       \/ /\ orphans[r] > 0
          /\ orphans' = [orphans EXCEPT ![r] = @ - 1]
          /\ UNCHANGED armed
    /\ cpc' = [cpc EXCEPT ![c] = "list"]
    /\ crun' = [crun EXCEPT ![c] = r]
    /\ UNCHANGED <<db, posts, posting, inMap, cevs, callow, cbase, operator, history>>

Goto(c, next) == cpc' = [cpc EXCEPT ![c] = next]

\* The fingerprints caller c extracted, and those its baseline copy lacks.
RunFPs(c) == ExtractFingerprintsWith(cevs[c], callow[c])
Novel(c) == RunFPs(c) \ cbase[c]

\* GetRun and ListEventsByRun; a run without a package is not diffed.
AnalyzeList(c) ==
    /\ cpc[c] = "list"
    /\ \/ /\ PkgOf[crun[c]] # NoPkg
          /\ cevs' = [cevs EXCEPT ![c] = ListEventsByRun(crun[c])]
          /\ Goto(c, "allow")
       \/ /\ PkgOf[crun[c]] = NoPkg \/ StoreFaults
          /\ Goto(c, "finish")
          /\ UNCHANGED cevs
    /\ UNCHANGED <<db, server, crun, callow, cbase, operator, history>>

\* ListAllowEntries; on failure the analysis goes on without operator rules.
AnalyzeAllow(c) ==
    /\ cpc[c] = "allow"
    /\ \/ callow' = [callow EXCEPT ![c] = Suppressed(allow, PkgOf[crun[c]])]
       \/ StoreFaults /\ callow' = [callow EXCEPT ![c] = {}]
    /\ Goto(c, "base")
    /\ UNCHANGED <<db, server, crun, cevs, cbase, operator, history>>

\* LoadBaseline; an empty result is taken to mean "first-ever run".
AnalyzeBase(c) ==
    LET known == LoadBaseline(PkgOf[crun[c]]) IN
    /\ cpc[c] = "base"
    /\ \/ /\ cbase' = [cbase EXCEPT ![c] = known]
          /\ Goto(c, IF known = {} THEN "seed" ELSE "delete")
       \/ /\ StoreFaults
          /\ Goto(c, "finish")
          /\ UNCHANGED cbase
    /\ UNCHANGED <<db, server, crun, cevs, callow, operator, history>>

SeedBaseline(c) ==
    LET r == crun[c] IN
    /\ cpc[c] = "seed"
    /\ \/ /\ MergeBaseline(r, RunFPs(c))
          /\ Goto(c, "seedmark")
       \/ /\ StoreFaults
          /\ Goto(c, "finish")
          /\ UNCHANGED baseline
    /\ UNCHANGED <<events, nextId, deviations, isBaseline, state, allow, retired,
                   server, crun, cevs, callow, cbase, operator, history>>

SeedMark(c) ==
    /\ cpc[c] = "seedmark"
    /\ \/ isBaseline' = [isBaseline EXCEPT ![crun[c]] = TRUE]
       \/ StoreFaults /\ UNCHANGED isBaseline
    /\ Goto(c, "finish")
    /\ UNCHANGED <<events, nextId, baseline, deviations, state, allow, retired,
                   server, crun, cevs, callow, cbase, operator, history>>

\* Faulty variant: a re-analysis only adds rows.
ClearOld_keep(c) ==
    /\ cpc[c] = "delete"
    /\ Goto(c, "write")
    /\ UNCHANGED <<db, server, crun, cevs, callow, cbase, operator, history>>

\* A failed delete is logged and the analysis continues.
ClearOld(c) ==
    /\ cpc[c] = "delete"
    /\ \/ DeleteDeviationsForRun(crun[c])
       \/ StoreFaults /\ UNCHANGED deviations
    /\ Goto(c, "write")
    /\ UNCHANGED <<events, nextId, baseline, isBaseline, state, allow, retired,
                   server, crun, cevs, callow, cbase, operator, history>>

\* One transaction; the foreign key to events rolls it back if evidence is gone.
WriteDeviations(c) ==
    LET rows == {[id |-> written + 1, run |-> crun[c], fp |-> fp,
                  evidence |-> FirstEvtID(cevs[c], fp)] : fp \in Novel(c)}
        referenced == {d.evidence : d \in rows} \subseteq {e.id : e \in events}
    IN
    /\ cpc[c] = "write"
    /\ \/ /\ referenced
          /\ deviations' = deviations \cup rows
          /\ written' = written + 1
          /\ Goto(c, "bump")
       \/ /\ StoreFaults \/ ~referenced
          /\ Goto(c, "finish")
          /\ UNCHANGED <<deviations, written>>
    /\ UNCHANGED <<events, nextId, baseline, isBaseline, state, allow, retired,
                   server, crun, cevs, callow, cbase, operator,
                   alerted, allowedEver>>

\* Faulty variant: the bump merges every fingerprint of the run, new ones too.
BumpBaseline_all(c) ==
    /\ cpc[c] = "bump"
    /\ MergeBaseline(crun[c], RunFPs(c))
    /\ Goto(c, IF Novel(c) = {} THEN "mark" ELSE "found")
    /\ UNCHANGED <<events, nextId, deviations, isBaseline, state, allow, retired,
                   server, crun, cevs, callow, cbase, operator, history>>

\* Occurrence bump of the baseline rows that fired again; errors are logged.
BumpBaseline(c) ==
    /\ cpc[c] = "bump"
    /\ \/ MergeBaseline(crun[c], RunFPs(c) \cap cbase[c])
       \/ StoreFaults /\ UNCHANGED baseline
    /\ Goto(c, IF Novel(c) = {} THEN "mark" ELSE "found")
    /\ UNCHANGED <<events, nextId, deviations, isBaseline, state, allow, retired,
                   server, crun, cevs, callow, cbase, operator, history>>

\* Zero deviations: the run joins the baseline.  Nothing ever clears the flag.
AutoPromote(c) ==
    /\ cpc[c] = "mark"
    /\ \/ isBaseline' = [isBaseline EXCEPT ![crun[c]] = TRUE]
       \/ StoreFaults /\ UNCHANGED isBaseline
    /\ Goto(c, "finish")
    /\ UNCHANGED <<events, nextId, baseline, deviations, state, allow, retired,
                   server, crun, cevs, callow, cbase, operator, history>>

\* After AnalyzeRun the callback removes whatever timer the map holds for the
\* run, armed or not.
UnmapTimer(r) ==
    /\ inMap' = inMap \ {r}
    /\ armed' = armed \ {r}
    /\ orphans' = [orphans EXCEPT ![r] = @ + IF r \in armed THEN 1 ELSE 0]

CallbackReturns(c) ==
    /\ Goto(c, "idle")
    /\ crun' = [crun EXCEPT ![c] = NoRun]
    /\ cevs' = [cevs EXCEPT ![c] = {}]
    /\ callow' = [callow EXCEPT ![c] = {}]
    /\ cbase' = [cbase EXCEPT ![c] = {}]

\* n = 0, or AnalyzeRun failed: that was all.
Finish(c) ==
    /\ cpc[c] = "finish"
    /\ UnmapTimer(crun[c])
    /\ CallbackReturns(c)
    /\ UNCHANGED <<db, posts, posting, operator, history>>

\* n > 0: the notifier comes next.
FinishFound(c) ==
    /\ cpc[c] = "found"
    /\ UnmapTimer(crun[c])
    /\ Goto(c, "notify")
    /\ UNCHANGED <<db, posts, posting, crun, cevs, callow, cbase, operator, history>>

\* Faulty variant: no alert for a run that is flagged as baseline.
Notify_quietBaseline(c) ==
    /\ cpc[c] = "notify"
    /\ alerted' = IF isBaseline[crun[c]] \/ RowsOf(crun[c]) = {}
                  THEN alerted ELSE alerted \cup {crun[c]}
    /\ CallbackReturns(c)
    /\ UNCHANGED <<db, server, operator, allowedEver, written>>

\* notifier.Trigger reads the deviations again and does nothing without any.
Notify(c) ==
    /\ cpc[c] = "notify"
    /\ \/ alerted' = IF RowsOf(crun[c]) = {} THEN alerted ELSE alerted \cup {crun[c]}
       \/ StoreFaults /\ UNCHANGED alerted
    /\ CallbackReturns(c)
    /\ UNCHANGED <<db, server, operator, allowedEver, written>>

AnalyzeStep(c) ==
    \/ AnalyzeList(c) \/ AnalyzeAllow(c) \/ AnalyzeBase(c)
    \/ SeedBaseline(c) \/ SeedMark(c)
    \/ ClearOld(c) \/ WriteDeviations(c) \/ BumpBaseline(c) \/ AutoPromote(c)
    \/ Finish(c) \/ FinishFound(c) \/ Notify(c)

-------------------------------------------------------------------------------
(* baselinePromote: `fangs baseline promote <run>`.                        *)

PromoteStart(r) ==
    /\ opc = "idle"
    /\ PkgOf[r] # NoPkg
    /\ PromoteAnytime \/ (StreamOver(r) /\ Quiet(r))
    /\ orun' = r
    /\ oevs' = ListEventsByRun(r)
    /\ opc' = "allow"
    /\ UNCHANGED <<db, server, differ, oallow, history>>

\* The error of ListAllowEntries is ignored.
PromoteAllow ==
    /\ opc = "allow"
    /\ \/ oallow' = Suppressed(allow, PkgOf[orun])
       \/ StoreFaults /\ oallow' = {}
    /\ opc' = "merge"
    /\ UNCHANGED <<db, server, differ, orun, oevs, history>>

PromoteReset(next) ==
    /\ opc' = next
    /\ oevs' = IF next = "idle" THEN {} ELSE oevs
    /\ oallow' = IF next = "idle" THEN {} ELSE oallow
    /\ orun' = IF next = "idle" THEN NoRun ELSE orun

\* Faulty variant: a run that already counts as baseline is not merged again.
PromoteMerge_once ==
    /\ opc = "merge"
    /\ IF isBaseline[orun] THEN UNCHANGED baseline
       ELSE MergeBaseline(orun, ExtractFingerprintsWith(oevs, oallow))
    /\ PromoteReset("mark")
    /\ UNCHANGED <<events, nextId, deviations, isBaseline, state, allow, retired,
                   server, differ, history>>

PromoteMerge ==
    /\ opc = "merge"
    /\ \/ /\ MergeBaseline(orun, ExtractFingerprintsWith(oevs, oallow))
          /\ PromoteReset("mark")
       \/ /\ StoreFaults
          /\ PromoteReset("idle")
          /\ UNCHANGED baseline
    /\ UNCHANGED <<events, nextId, deviations, isBaseline, state, allow, retired,
                   server, differ, history>>

PromoteMark ==
    /\ opc = "mark"
    /\ \/ /\ isBaseline' = [isBaseline EXCEPT ![orun] = TRUE]
          /\ PromoteReset("clear")
       \/ /\ StoreFaults
          /\ PromoteReset("idle")
          /\ UNCHANGED isBaseline
    /\ UNCHANGED <<events, nextId, baseline, deviations, state, allow, retired,
                   server, differ, history>>

PromoteClear ==
    /\ opc = "clear"
    /\ \/ DeleteDeviationsForRun(orun)
       \/ StoreFaults /\ UNCHANGED deviations
    /\ PromoteReset("idle")
    /\ UNCHANGED <<events, nextId, baseline, isBaseline, state, allow, retired,
                   server, differ, history>>

PromoteStep == PromoteAllow \/ PromoteMerge \/ PromoteMark \/ PromoteClear

-------------------------------------------------------------------------------
(* Allowlist edits, retention, restart.                                    *)

AllowAdd(entry) ==
    /\ entry \notin allow
    /\ allow' = allow \cup {entry}
    /\ allowedEver' = allowedEver \cup {entry}
    /\ UNCHANGED <<events, nextId, baseline, deviations, isBaseline, state, retired,
                   server, differ, operator, alerted, written>>

AllowRemove(entry) ==
    /\ entry \in allow
    /\ allow' = allow \ {entry}
    /\ UNCHANGED <<events, nextId, baseline, deviations, isBaseline, state, retired,
                   server, differ, operator, history>>

\* Environment: the retention window passes over a run that is long finished.
Retire(r) ==
    /\ Retention
    /\ r \notin retired
    /\ StreamOver(r) /\ Quiet(r)
    /\ retired' = retired \cup {r}
    /\ UNCHANGED <<events, nextId, baseline, deviations, isBaseline, state, allow,
                   server, differ, operator, history>>

\* Faulty variant: evidence is not pinned, so the cascade takes findings along.
PruneEvents_unpinned(cutoff) ==
    LET gone == {e \in events : e.id < cutoff} IN
    /\ \A e \in gone : e.run \in retired
    /\ gone # {}
    /\ events' = events \ gone
    /\ deviations' = {d \in deviations : d.evidence \notin {e.id : e \in gone}}
    /\ UNCHANGED <<nextId, baseline, isBaseline, state, allow, retired,
                   server, differ, operator, history>>

\* DELETE ... WHERE ts_ns < cutoff AND id NOT IN (evidence).  Deviations whose
\* evidence row disappears would go with it (ON DELETE CASCADE).
PruneEvents(cutoff) ==
    LET old == {e \in events : e.id < cutoff}
        pinned == {d.evidence : d \in deviations}
        gone == {e \in old : e.id \notin pinned}
    IN
    /\ \A e \in old : e.run \in retired
    /\ gone # {}
    /\ events' = events \ gone
    /\ deviations' = {d \in deviations : d.evidence \notin {e.id : e \in gone}}
    /\ UNCHANGED <<nextId, baseline, isBaseline, state, allow, retired,
                   server, differ, operator, history>>

\* The process dies: timers, callbacks and request handlers are gone, the
\* database stays, and nothing re-creates the timers.
Restart ==
    /\ Crashes
    /\ \/ posting \cup inMap \cup armed # {}
       \/ \E r \in Runs : orphans[r] > 0
       \/ \E c \in Callers : cpc[c] # "idle"
    /\ posting' = {} /\ inMap' = {} /\ armed' = {}
    /\ orphans' = [r \in Runs |-> 0]
    /\ cpc' = [c \in Callers |-> "idle"]
    /\ cevs' = [c \in Callers |-> {}]
    /\ callow' = [c \in Callers |-> {}]
    /\ cbase' = [c \in Callers |-> {}]
    /\ crun' = [c \in Callers |-> NoRun]
    /\ UNCHANGED <<db, posts, operator, history>>

Next ==
    \/ \E r \in Runs : \/ \E b \in Batches : PostEvents(r, b)
                       \/ FinishPost(r)
                       \/ \E final \in Results : ScanResult(r, final)
                       \/ \E c \in Callers : Fire(r, c)
                       \/ Retire(r)
    \/ \E c \in Callers : AnalyzeStep(c)
    \/ \E r \in Promotable : PromoteStart(r)
    \/ PromoteStep
    \/ \E entry \in AllowEntries : AllowAdd(entry) \/ AllowRemove(entry)
    \/ \E cutoff \in 1..nextId : PruneEvents(cutoff)
    \/ Restart

Spec == Init /\ [][Next]_vars

\* Goroutines and timers make progress; so does a promote once started.  No
\* fairness on the runner (it may stop posting), the operator's decisions,
\* retention or restarts.
Fairness ==
    /\ \A r \in Runs : WF_vars(FinishPost(r)) /\ WF_vars(\E c \in Callers : Fire(r, c))
    /\ \A c \in Callers : WF_vars(AnalyzeStep(c))
    /\ WF_vars(PromoteStep)

FairSpec == Spec /\ Fairness

-------------------------------------------------------------------------------
(* Properties                                                              *)

EventRow == [id : Nat \ {0}, run : Runs, fp : FPs \cup {NoFP}]
DeviationRow == [id : Nat, run : Runs, fp : FPs, evidence : Nat]

DbTypes ==
    /\ events \subseteq EventRow
    /\ nextId \in Nat \ {0}
    /\ baseline \in [Packages -> [FPs -> Runs \cup {NoRun}]]
    /\ deviations \subseteq DeviationRow
    /\ isBaseline \in [Runs -> BOOLEAN]
    /\ state \in [Runs -> RunStates]
    /\ allow \subseteq AllowEntries
    /\ retired \subseteq Runs

ServerTypes ==
    /\ posts \in [Runs -> Nat]
    /\ posting \subseteq Runs
    /\ inMap \subseteq Runs
    /\ armed \subseteq Runs
    /\ orphans \in [Runs -> Nat]

\* Only a run with a package gets past the first read of an analysis.
DifferTypes ==
    /\ cpc \in [Callers -> CallerPC]
    /\ crun \in [Callers -> Runs \cup {NoRun}]
    /\ cevs \in [Callers -> SUBSET EventRow]
    /\ callow \in [Callers -> SUBSET FPs]
    /\ cbase \in [Callers -> SUBSET FPs]
    /\ \A c \in Callers :
        /\ cpc[c] = "idle" <=> crun[c] = NoRun
        /\ cpc[c] \notin {"idle", "list", "finish"} => PkgOf[crun[c]] # NoPkg

OperatorTypes ==
    /\ opc \in OperatorPC
    /\ orun \in Runs \cup {NoRun}
    /\ oevs \subseteq EventRow
    /\ oallow \subseteq FPs
    /\ opc = "idle" <=> orun = NoRun
    /\ opc # "idle" => PkgOf[orun] # NoPkg

HistoryTypes ==
    /\ alerted \subseteq Runs
    /\ allowedEver \subseteq AllowEntries
    /\ written \in Nat

\* Types; in particular no empty value (NoFP) is ever a baseline row, a
\* deviation or part of an analysis (addUnique in ExtractFingerprintsWith).
TypeOK == DbTypes /\ ServerTypes /\ DifferTypes /\ OperatorTypes /\ HistoryTypes

\* A persisted event of run r whose fingerprint no operator ever suppressed.
Observed(r) ==
    ExtractFingerprintsWith(EventsOf(r), Suppressed(allowedEver, PkgOf[r]))

Reported(r) == {d.fp : d \in RowsOf(r)}

Accounted(r) ==
    PkgOf[r] # NoPkg => Observed(r) \subseteq LoadBaseline(PkgOf[r]) \cup Reported(r)

\* Once nothing is in flight for a run, every fingerprint its stored events
\* show is either part of the package's baseline or reported as a deviation:
\* the debounce never leaves a late batch unanalysed, a re-analysis never
\* loses a finding, and promotion and retention never drop one.
NothingUnaccounted == \A r \in Runs : Quiet(r) => Accounted(r)

\* AnalyzeRun, analyze.go: "we want the final state to reflect the latest
\* analysis, not stack": never two deviation rows for one finding.
NotStacked ==
    \A d1, d2 \in deviations : d1.run = d2.run /\ d1.fp = d2.fp => d1 = d2

\* The evidence link of every deviation leads to an event of the same run that
\* shows the reported fingerprint: also when a late batch has the run analysed a
\* second time and after retention has pruned the run.
EvidenceHolds ==
    \A d \in deviations :
        \E e \in events : e.id = d.evidence /\ e.run = d.run /\ e.fp = d.fp

\* Retention never removes a finding: a deviation disappears only when its run
\* is re-analysed or promoted (PruneEvents' pinning against ON DELETE CASCADE).
FindingsOutliveRetention ==
    [][\A d \in deviations \ deviations' :
          \/ \E c \in Callers : cpc[c] = "delete" /\ crun[c] = d.run
          \/ opc = "clear" /\ orun = d.run]_vars

\* A fingerprint becomes known, once and for good, only through the run that is
\* recorded with it and for that run's own package: by the operator's promotion,
\* or by an analysis that found the baseline empty when it read it.  A stale
\* copy, an overlap, a failure or a restart never makes an analysis accept what
\* it has to report.  (Two analyses that both read an empty baseline both seed
\* it: the second then adds to a baseline that is no longer empty.)
KnownOnlyBySeedOrPromote ==
    [][\A p \in Packages, fp \in FPs :
          baseline[p][fp] # baseline'[p][fp] =>
              LET by == baseline'[p][fp] IN
              /\ baseline[p][fp] = NoRun
              /\ by \in Runs /\ PkgOf[by] = p
              /\ \/ \E c \in Callers : cpc[c] = "seed" /\ crun[c] = by /\ cbase[c] = {}
                 \/ opc = "merge" /\ orun = by]_vars

\* Every run with findings was handed to the notifier, which had something to
\* send: the re-read in Trigger never falls into a re-analysis' delete-then-write.
FindingsAreAlerted == \A r \in Runs : Quiet(r) /\ Reported(r) # {} => r \in alerted

\* baseline.go: promotion accepts the run "after human review"; README:
\* "accepts a run's full fingerprint set into baseline".  Whatever findings the
\* final delete clears have been merged (or are suppressed by the operator).
PromotionAcceptsWhatItClears ==
    [][\A d \in deviations \ deviations' :
          opc = "clear" /\ opc' = "idle" =>
              d.fp \in LoadBaseline(PkgOf[orun]) \cup Suppressed(allowedEver, PkgOf[orun])]_vars

\* Every accepted POST leads to a settled run: all timers fire, every analysis
\* ends, and the findings are accounted for.
EveryPostSettles == \A r \in Runs : (r \in posting) ~> (Quiet(r) /\ Accounted(r))
===============================================================================
