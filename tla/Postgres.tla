------------------------------- MODULE Postgres -------------------------------
(***************************************************************************)
(* The PostgreSQL backend (internal/orchestrator/storage/postgres/         *)
(* postgres.go) statement by statement.  AppendEvents, MergeBaseline and   *)
(* WriteDeviations are transactions of several statements on a connection  *)
(* of their own, at PostgreSQL's default level, READ COMMITTED: what a     *)
(* transaction wrote is invisible until it commits, a row it wrote stays   *)
(* locked until it ends, and a statement that meets such a lock waits and  *)
(* then works on the row as committed.  The other methods are one          *)
(* statement each, and those of Store.                                     *)
(*                                                                         *)
(* The tables of Store are the committed rows.                             *)
(***************************************************************************)
EXTENDS Store

CONSTANTS
    Listers,   \* goroutines that may be in ListPackages
    Pool,      \* SetMaxOpenConns, 16 in the code
    MaxBatch,  \* bound on the rows of one AppendEvents or WriteDeviations
    MaxCalls,  \* bound on the number of transactions
    MaxStmts   \* bound on the number of one-statement calls

ASSUME BoundsAssumption == Pool \in Nat /\ MaxBatch \in Nat /\ MaxCalls \in Nat /\ MaxStmts \in Nat
\* ListPackages needs a second connection while it holds one.
ASSUME PoolAssumption == IsFiniteSet(Listers) => Cardinality(Listers) < Pool

\* A call is a transaction: request holds its arguments.
VARIABLES
    todo,     \* rows of MergeBaseline still to send
    cur,      \* the row whose statement has been sent, None: no such row
    newRows,  \* baseline rows the transaction wrote
    lock,     \* per baseline key, the transaction that wrote the row
    left,     \* events of AppendEvents still to insert
    newEvents,\* ids the transaction inserted
    toWrite,  \* rows of WriteDeviations still to insert
    newDevs,  \* rows the transaction inserted
    nextId,   \* the BIGSERIAL sequence of events.id
    lister,   \* per ListPackages call: "none", "rows", "sub", "last"
    calls,    \* transactions begun, for MaxCalls
    stmts     \* one-statement calls, for MaxStmts

merging == <<todo, cur, newRows, lock>>
appending == <<left, newEvents, nextId>>
writing == <<toWrite, newDevs>>
counters == <<calls, stmts>>
vars == <<storeVars, merging, appending, writing, lister, counters>>

\* Types.
TypeOK ==
    /\ StoreTypeOK
    /\ todo \in [Callers -> SUBSET FPs]
    /\ cur \in [Callers -> FPs \cup {None}]
    /\ newRows \in [Callers -> [FPs -> BaselineRow]]
    /\ lock \in [FPs -> Callers \cup {None}]
    /\ left \in [Callers -> Nat]
    /\ newEvents \in [Callers -> SUBSET EventIds]
    /\ toWrite \in [Callers -> SUBSET DeviationRow]
    /\ newDevs \in [Callers -> SUBSET DeviationRow]
    /\ nextId \in Nat \ {0}
    /\ lister \in [Listers -> {"none", "rows", "sub", "last"}]
    /\ calls \in Nat
    /\ stmts \in Nat

Init ==
    /\ StoreInit
    /\ todo = [c \in Callers |-> {}]
    /\ cur = [c \in Callers |-> None]
    /\ newRows = [c \in Callers |-> [fp \in FPs |-> NoRow]]
    /\ lock = [fp \in FPs |-> None]
    /\ left = [c \in Callers |-> 0]
    /\ newEvents = [c \in Callers |-> {}]
    /\ toWrite = [c \in Callers |-> {}]
    /\ newDevs = [c \in Callers |-> {}]
    /\ nextId = 1
    /\ lister = [l \in Listers |-> "none"]
    /\ calls = 0
    /\ stmts = 0

-------------------------------------------------------------------------------
(* The pool                                                                *)

Open(c) == request[c] # NoRequest

InUse ==
    Cardinality({c \in Callers : Open(c)})
    + Cardinality({l \in Listers : lister[l] # "none"})
    + Cardinality({l \in Listers : lister[l] = "sub"})

FreeConn == InUse < Pool

MergeCall(r, fps) == [m |-> "merge", run |-> r, fps |-> fps, n |-> 0, devs |-> {}]
AppendCall(r, n) == [m |-> "append", run |-> r, fps |-> {}, n |-> n, devs |-> {}]
WriteCall(r, devs) == [m |-> "write", run |-> r, fps |-> {}, n |-> 0, devs |-> devs]

\* BeginTx and the prepared statement.
Begin(c, q) ==
    /\ ~Open(c)
    /\ FreeConn
    /\ calls < MaxCalls
    /\ state[q.run] # None
    /\ request' = [request EXCEPT ![c] = q]
    /\ calls' = calls + 1

-------------------------------------------------------------------------------
(* MergeBaseline                                                           *)

BeginMerge(c, r, fps) ==
    /\ fps # {}
    /\ Begin(c, MergeCall(r, fps))
    /\ todo' = [todo EXCEPT ![c] = fps]
    /\ UNCHANGED <<tables, cur, newRows, lock, appending, writing, lister, stmts>>

\* The rows come out of a Go map: each once, in any order.
SendRow(c, fp) ==
    /\ cur[c] = None
    /\ fp \in todo[c]
    /\ cur' = [cur EXCEPT ![c] = fp]
    /\ todo' = [todo EXCEPT ![c] = @ \ {fp}]
    /\ UNCHANGED <<tables, request, newRows, lock, appending, writing, lister, counters>>

\* One INSERT ... ON CONFLICT: it waits while another open transaction has
\* written the row, then starts from the committed version.
MergeRow(c) ==
    /\ cur[c] # None
    /\ lock[cur[c]] = None
    /\ newRows' = [newRows EXCEPT ![c][cur[c]] = Upsert(baseline[cur[c]], request[c].run)]
    /\ lock' = [lock EXCEPT ![cur[c]] = c]
    /\ cur' = [cur EXCEPT ![c] = None]
    /\ UNCHANGED <<tables, request, todo, appending, writing, lister, counters>>

Locked(c) == {fp \in FPs : lock[fp] = c}

-------------------------------------------------------------------------------
(* AppendEvents and WriteDeviations                                        *)

\* MaxEvent leaves room for the batches that are still being inserted.
BeginAppend(c, r, n) ==
    /\ Begin(c, AppendCall(r, n))
    /\ nextId + MaxBatch * Cardinality({b \in Callers : request[b].m = "append"}) + n
           <= MaxEvent + 1
    /\ left' = [left EXCEPT ![c] = n]
    /\ UNCHANGED <<tables, merging, newEvents, nextId, writing, lister, stmts>>

\* The sequence advances outside the transaction: a rollback leaves a gap.
InsertEvent(c) ==
    /\ left[c] > 0
    /\ nextId <= MaxEvent
    /\ newEvents' = [newEvents EXCEPT ![c] = @ \cup {nextId}]
    /\ nextId' = nextId + 1
    /\ left' = [left EXCEPT ![c] = @ - 1]
    /\ UNCHANGED <<tables, request, merging, writing, lister, counters>>

\* Random ids never meet: no stored row and no open transaction has them.
FreshDevs ==
    DevIds \ ({d.id : d \in deviations} \cup {d.id : d \in UNION {request[b].devs : b \in Callers}})

\* The evidence was listed by the analysis that found the deviations.
BeginWrite(c, r, ids, evidence) ==
    LET devs == {[id |-> d, run |-> r, evidence |-> evidence[d]] : d \in ids} IN
    /\ ids \subseteq FreshDevs /\ ids # {}
    /\ \A d \in ids : event[evidence[d]] = r
    /\ Begin(c, WriteCall(r, devs))
    /\ toWrite' = [toWrite EXCEPT ![c] = devs]
    /\ UNCHANGED <<tables, merging, appending, newDevs, lister, stmts>>

InsertDeviation(c, d) ==
    /\ d \in toWrite[c]
    /\ event[d.evidence] # None
    /\ toWrite' = [toWrite EXCEPT ![c] = @ \ {d}]
    /\ newDevs' = [newDevs EXCEPT ![c] = @ \cup {d}]
    /\ UNCHANGED <<tables, request, merging, appending, lister, counters>>

-------------------------------------------------------------------------------
(* The end of a transaction                                                *)

\* The connection goes back to the pool and every lock is released.
EndTx(c) ==
    /\ Return(c)
    /\ todo' = [todo EXCEPT ![c] = {}]
    /\ cur' = [cur EXCEPT ![c] = None]
    /\ newRows' = [newRows EXCEPT ![c] = [fp \in FPs |-> NoRow]]
    /\ lock' = [fp \in FPs |-> IF lock[fp] = c THEN None ELSE lock[fp]]
    /\ left' = [left EXCEPT ![c] = 0]
    /\ newEvents' = [newEvents EXCEPT ![c] = {}]
    /\ toWrite' = [toWrite EXCEPT ![c] = {}]
    /\ newDevs' = [newDevs EXCEPT ![c] = {}]
    /\ UNCHANGED <<nextId, lister, counters>>

\* Faulty variant: the loop breaks at a failing row and the rest is committed.
CommitMerge_partial(c) ==
    /\ request[c].m = "merge"
    /\ baseline' = [fp \in FPs |-> IF fp \in Locked(c) THEN newRows[c][fp] ELSE baseline[fp]]
    /\ merges' = [fp \in FPs |-> IF fp \in Locked(c) THEN Append(merges[fp], request[c].run)
                                 ELSE merges[fp]]
    /\ EndTx(c)
    /\ UNCHANGED <<state, isBaseline, event, deviations, catalog, used>>

CommitMerge(c) ==
    /\ request[c].m = "merge"
    /\ todo[c] = {} /\ cur[c] = None
    /\ baseline' = [fp \in FPs |-> IF fp \in Locked(c) THEN newRows[c][fp] ELSE baseline[fp]]
    /\ merges' = [fp \in FPs |-> IF fp \in Locked(c) THEN Append(merges[fp], request[c].run)
                                 ELSE merges[fp]]
    /\ EndTx(c)
    /\ UNCHANGED <<state, isBaseline, event, deviations, catalog, used>>

CommitAppend(c) ==
    /\ request[c].m = "append"
    /\ left[c] = 0
    /\ event' = [i \in EventIds |-> IF i \in newEvents[c] THEN request[c].run ELSE event[i]]
    /\ used' = used \cup newEvents[c]
    /\ EndTx(c)
    /\ UNCHANGED <<state, isBaseline, baseline, deviations, catalog, merges>>

CommitWrite(c) ==
    /\ request[c].m = "write"
    /\ toWrite[c] = {}
    /\ deviations' = deviations \cup newDevs[c]
    /\ EndTx(c)
    /\ UNCHANGED <<state, isBaseline, event, baseline, catalog, used, merges>>

\* A statement or the commit failed, or the caller's context ended.
Rollback(c) ==
    /\ Open(c)
    /\ EndTx(c)
    /\ UNCHANGED tables

Waits(c) == cur[c] # None /\ lock[cur[c]] # None

\* Each of them waits for a row that another of them has written.
Deadlocked(S) == S # {} /\ \A c \in S : Waits(c) /\ lock[cur[c]] \in S

\* A cycle of waits, in which PostgreSQL fails one statement.
InCycle(c) ==
    \E S \in SUBSET Callers :
        /\ c \in S
        /\ Deadlocked(S)
        /\ \A U \in SUBSET S : Deadlocked(U) => U = S

\* Faulty variant: the failed row is sent again, in the same transaction.
DeadlockVictim_retry(c) ==
    /\ InCycle(c)
    /\ cur' = [cur EXCEPT ![c] = None]
    /\ todo' = [todo EXCEPT ![c] = @ \cup {cur[c]}]
    /\ UNCHANGED <<tables, request, newRows, lock, appending, writing, lister, counters>>

\* The failed statement makes MergeBaseline roll back and return the error.
DeadlockVictim(c) ==
    /\ InCycle(c)
    /\ EndTx(c)
    /\ UNCHANGED tables

-------------------------------------------------------------------------------
(* One-statement methods and ListPackages                                  *)

Statement ==
    /\ FreeConn
    /\ stmts < MaxStmts
    /\ OneStatement
    /\ stmts' = stmts + 1
    /\ UNCHANGED <<request, merging, appending, writing, lister, calls>>

\* The retention window is a day or more, a transaction lasts seconds: events
\* past it are not those of an analysis that is just writing.
Prune(old) ==
    /\ FreeConn
    /\ stmts < MaxStmts
    /\ \A c \in Callers : old \cap Evidence(request[c].devs) = {}
    /\ PruneEvents(old)
    /\ stmts' = stmts + 1
    /\ UNCHANGED <<request, merging, appending, writing, lister, calls>>

\* The query for the package rows holds one connection ...
ListStart(l) ==
    /\ lister[l] = "none"
    /\ FreeConn
    /\ lister' = [lister EXCEPT ![l] = "rows"]
    /\ UNCHANGED <<storeVars, merging, appending, writing, counters>>

\* ... while the query for a package's latest run waits for another one.
ListSub(l) ==
    /\ \/ lister[l] = "rows" /\ FreeConn /\ lister' = [lister EXCEPT ![l] = "sub"]
       \/ lister[l] = "sub" /\ lister' = [lister EXCEPT ![l] = "last"]
       \/ lister[l] = "last" /\ lister' = [lister EXCEPT ![l] = "none"]
    /\ UNCHANGED <<storeVars, merging, appending, writing, counters>>

TxStep(c) ==
    \/ \E fp \in todo[c] : SendRow(c, fp)
    \/ MergeRow(c)
    \/ InsertEvent(c)
    \/ \E d \in toWrite[c] : InsertDeviation(c, d)
    \/ CommitMerge(c)
    \/ CommitAppend(c)
    \/ CommitWrite(c)

TxBegin(c) ==
    \E r \in Runs :
        \/ \E fps \in SUBSET FPs : BeginMerge(c, r, fps)
        \/ \E n \in 1..MaxBatch : BeginAppend(c, r, n)
        \/ \E ids \in SUBSET DevIds : \E evidence \in [ids -> EventIds] :
            BeginWrite(c, r, ids, evidence)

Next ==
    \/ \E c \in Callers : TxBegin(c) \/ TxStep(c) \/ Rollback(c) \/ DeadlockVictim(c)
    \/ Statement
    \/ \E old \in SUBSET EventIds : Prune(old)
    \/ \E l \in Listers : ListStart(l) \/ ListSub(l)

Spec == Init /\ [][Next]_vars

\* The database executes what it is sent, hands a released row to a waiter,
\* breaks deadlocks, and the pool hands a free connection to a waiter.
Fairness ==
    /\ \A c \in Callers : WF_vars(TxStep(c)) /\ WF_vars(DeadlockVictim(c))
    /\ \A l \in Listers : WF_vars(ListSub(l))

FairSpec == Spec /\ Fairness

-------------------------------------------------------------------------------
(* Properties                                                              *)

\* A transaction belongs to a run whose row exists ...
TxRunOK == \A c \in Callers : Open(c) => request[c].run \in Runs /\ state[request[c].run] # None

\* ... has locked the rows it wrote, what it wrote is still what the committed
\* row calls for, and the rest of the call's rows are still to be sent ...
TxRowsOK ==
    \A c \in Callers :
        /\ \A fp \in Locked(c) : newRows[c][fp] = Upsert(baseline[fp], request[c].run)
        /\ request[c].fps = Locked(c) \cup todo[c] \cup ({cur[c]} \ {None})

\* ... has event ids of its own ...
TxIdsOK ==
    /\ \A c \in Callers : Cardinality(newEvents[c]) + left[c] = request[c].n
    /\ \A c \in Callers : \A i \in newEvents[c] : i \notin used /\ i < nextId
    /\ \A b, c \in Callers : b # c => newEvents[b] \cap newEvents[c] = {}
    /\ \A i \in used : i < nextId

\* ... and writes deviations whose evidence is still stored.
TxDevsOK ==
    \A c \in Callers :
        /\ request[c].devs = toWrite[c] \cup newDevs[c]
        /\ \A d \in request[c].devs : d.run = request[c].run /\ event[d.evidence] # None

\* What an open transaction has written stays right, whatever the others do
\* in between (MergeBaseline, AppendEvents, WriteDeviations).
OpenTxOK == TxRunOK /\ TxRowsOK /\ TxIdsOK /\ TxDevsOK

\* The transactions of the PostgreSQL backend, interleaved statement by
\* statement, failing or losing a deadlock anywhere, do what storage.Backend
\* promises: each call takes effect at once and entirely, or fails and has no
\* effect.
ImplementsStore == StoreSpec

\* Every call comes back: two merges of one package that lock each other's
\* rows (MergeBaseline sends them in map order), a rolled-back transaction and
\* ListPackages, which waits for a second connection, do not hold others up.
EveryCallReturns ==
    /\ \A c \in Callers : Open(c) ~> ~Open(c)
    /\ \A l \in Listers : lister[l] # "none" ~> lister[l] = "none"
===============================================================================
