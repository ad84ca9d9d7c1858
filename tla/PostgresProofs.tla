---------------------------- MODULE PostgresProofs ----------------------------
(***************************************************************************)
(* That the PostgreSQL backend implements Store, for any number of         *)
(* goroutines, rows and calls, and what follows from it for the tables.    *)
(***************************************************************************)
EXTENDS Postgres, FiniteSetTheorems, TLAPS

-------------------------------------------------------------------------------
(* The store                                                               *)

\* A row that is upserted is a row.
LEMMA UpsertType ==
  ASSUME NEW row \in BaselineRow, NEW r \in Runs
  PROVE  Upsert(row, r) \in BaselineRow
  BY DEF Upsert, BaselineRow

\* The absent call is a call.
LEMMA NoRequestType == NoRequest \in Request
  BY DEF NoRequest, Request

\* The one-statement methods touch neither events nor baselines.
LEMMA OneStatementFrame ==
  ASSUME OneStatement
  PROVE  UNCHANGED <<event, baseline, used, merges>>
  BY DEF OneStatement, CatalogNext, CreateRun, UpdateRunState, RecordScanResult,
         MarkRunBaseline, DeleteDeviationsForRun, AddWatchedPackage, RemoveWatchedPackage,
         RecordRelease, AddAllowEntry, DeleteAllowEntry, UpsertNotifier, DeleteNotifier,
         RecordNotification, catalog

\* The one-statement methods keep the tables in their types.
LEMMA OneStatementType ==
  ASSUME StoreTypeOK, OneStatement, UNCHANGED request
  PROVE  StoreTypeOK'
<1> USE DEF StoreTypeOK, RunState
<1>1. CASE \E r \in Runs : CreateRun(r)
  BY <1>1 DEF CreateRun, catalog
<1>2. CASE \E r \in Runs : UpdateRunState(r, "done")
  BY <1>2 DEF UpdateRunState, catalog
<1>3. CASE \E r \in Runs, status \in {"ok", "failed", "timeout"} : RecordScanResult(r, status)
  BY <1>3 DEF RecordScanResult, catalog
<1>4. CASE \E r \in Runs : MarkRunBaseline(r)
  BY <1>4 DEF MarkRunBaseline, catalog
<1>5. CASE \E r \in Runs : DeleteDeviationsForRun(r)
  BY <1>5 DEF DeleteDeviationsForRun, catalog
<1>6. CASE CatalogNext
  BY <1>6 DEF CatalogNext, AddWatchedPackage, RemoveWatchedPackage, RecordRelease,
              AddAllowEntry, DeleteAllowEntry, UpsertNotifier, DeleteNotifier,
              RecordNotification
<1>7. QED
  BY <1>1, <1>2, <1>3, <1>4, <1>5, <1>6 DEF OneStatement

\* A call that merges, appends or writes names a run.
RequestsHaveRuns == \A c \in Callers : request[c].m # "none" => request[c].run \in Runs

\* Every method of the store keeps the tables in their types.
LEMMA StoreNextType ==
  ASSUME StoreTypeOK, RequestsHaveRuns, [StoreNext]_storeVars
  PROVE  StoreTypeOK'
<1>1. CASE OneStatement /\ UNCHANGED request
  BY <1>1, OneStatementType
<1>2. CASE \E old \in SUBSET EventIds : PruneEvents(old) /\ UNCHANGED request
  BY <1>2 DEF PruneEvents, StoreTypeOK, catalog
<1>3. ASSUME NEW c \in Callers, Return(c) PROVE request' \in [Callers -> Request]
  BY <1>3, NoRequestType DEF Return, StoreTypeOK
<1>4. ASSUME NEW c \in Callers, Call(c) \/ Fail(c) PROVE StoreTypeOK'
  <2>1. request' \in [Callers -> Request]
    BY <1>3, <1>4 DEF Call, Fail, StoreTypeOK
  <2>2. QED
    BY <1>4, <2>1 DEF Call, Fail, tables, catalog, StoreTypeOK
<1>5. ASSUME NEW c \in Callers, NEW ids \in SUBSET EventIds, AppendEvents(c, ids)
      PROVE  StoreTypeOK'
  <2>1. request[c].run \in Runs /\ request' \in [Callers -> Request]
    BY <1>3, <1>5 DEF AppendEvents, RequestsHaveRuns
  <2>2. QED
    BY <1>5, <2>1 DEF AppendEvents, StoreTypeOK, catalog
<1>6. ASSUME NEW c \in Callers, MergeBaseline(c) PROVE StoreTypeOK'
  <2>1. request[c].run \in Runs /\ request' \in [Callers -> Request]
    BY <1>3, <1>6 DEF MergeBaseline, RequestsHaveRuns
  <2>2. baseline' \in [FPs -> BaselineRow]
    BY <1>6, <2>1, UpsertType DEF MergeBaseline, StoreTypeOK
  <2>3. merges' \in [FPs -> Seq(Runs)]
    BY <1>6, <2>1 DEF MergeBaseline, StoreTypeOK
  <2>4. QED
    BY <1>6, <2>1, <2>2, <2>3 DEF MergeBaseline, StoreTypeOK, catalog
<1>7. ASSUME NEW c \in Callers, WriteDeviations(c) PROVE StoreTypeOK'
  <2>1. request[c].devs \subseteq DeviationRow /\ request' \in [Callers -> Request]
    BY <1>3, <1>7 DEF WriteDeviations, StoreTypeOK, Request
  <2>2. QED
    BY <1>7, <2>1 DEF WriteDeviations, StoreTypeOK, catalog
<1>8. CASE UNCHANGED storeVars
  BY <1>8 DEF storeVars, tables, catalog, StoreTypeOK
<1>9. QED
  BY <1>1, <1>2, <1>4, <1>5, <1>6, <1>7, <1>8 DEF StoreNext

\* A run row is never deleted.
LEMMA RunsStay ==
  ASSUME StoreTypeOK, [StoreNext]_storeVars, NEW r \in Runs, state[r] # None
  PROVE  state'[r] # None
<1>1. \A s \in RunState : s # None
  BY NoneAssumption
<1>2. CASE UNCHANGED state
  BY <1>2
<1>3. CASE \E q \in Runs : CreateRun(q) \/ UpdateRunState(q, "done")
  BY <1>1, <1>3 DEF CreateRun, UpdateRunState, StoreTypeOK, RunState
<1>4. CASE \E q \in Runs, status \in {"ok", "failed", "timeout"} : RecordScanResult(q, status)
  BY <1>1, <1>4 DEF RecordScanResult, StoreTypeOK, RunState
<1>5. CatalogNext => UNCHANGED state
  BY DEF CatalogNext, AddWatchedPackage, RemoveWatchedPackage, RecordRelease, AddAllowEntry,
         DeleteAllowEntry, UpsertNotifier, DeleteNotifier, RecordNotification
<1>6. QED
  BY <1>2, <1>3, <1>4, <1>5
     DEF StoreNext, OneStatement, MarkRunBaseline, DeleteDeviationsForRun, PruneEvents,
         Call, Fail, AppendEvents, MergeBaseline, WriteDeviations, storeVars, tables

\* Calls come with a run, and no other step changes a call except to end it.
LEMMA RequestsStep ==
  ASSUME StoreTypeOK, RequestsHaveRuns, [StoreNext]_storeVars
  PROVE  RequestsHaveRuns'
<1>1. CASE UNCHANGED request
  BY <1>1 DEF RequestsHaveRuns
<1>2. CASE \E c \in Callers : Return(c) \/ Call(c)
  BY <1>2 DEF Return, Call, RequestsHaveRuns, StoreTypeOK, NoRequest
<1>3. QED
  BY <1>1, <1>2 DEF StoreNext, Fail, AppendEvents, MergeBaseline, WriteDeviations, storeVars

-------------------------------------------------------------------------------
(* The inductive invariant of the open transactions                        *)

PgInv == TypeOK /\ OpenTxOK

\* A transaction inserts finitely many events.
LEMMA EventsFinite ==
  ASSUME NEW S \in SUBSET EventIds
  PROVE  IsFiniteSet(S) /\ Cardinality(S) \in Nat
<1>1. 1 \in Int /\ MaxEvent \in Int
  BY MaxEventAssumption
<1>2. IsFiniteSet(EventIds)
  BY <1>1, FS_Interval DEF EventIds
<1>3. IsFiniteSet(S)
  BY <1>2, FS_Subset
<1>4. QED
  BY <1>3, FS_CardinalityType

\* The invariant holds before the first call.
LEMMA PgInit == Init => PgInv
<1> SUFFICES ASSUME Init PROVE PgInv
  OBVIOUS
<1>1. StoreTypeOK
  BY NoneAssumption, MaxEventAssumption, NoRequestType
     DEF Init, StoreInit, StoreTypeOK, EventIds, BaselineRow, NoRow, RunState
<1>2. TypeOK
  BY <1>1 DEF Init, TypeOK, BaselineRow, NoRow
<1>3. TxRunOK /\ TxRowsOK /\ TxDevsOK
  BY CallersAssumption
     DEF Init, StoreInit, TxRunOK, TxRowsOK, TxDevsOK, Open, NoRequest, Locked
<1>4. TxIdsOK
  BY FS_EmptySet DEF Init, StoreInit, TxIdsOK, NoRequest
<1>5. QED
  BY <1>2, <1>3, <1>4 DEF PgInv, OpenTxOK

\* What EndTx leaves of a transaction.
LEMMA EndTxFacts ==
  ASSUME TypeOK, NEW c \in Callers, EndTx(c)
  PROVE  /\ request'[c] = NoRequest /\ todo'[c] = {} /\ cur'[c] = None /\ left'[c] = 0
         /\ newEvents'[c] = {} /\ toWrite'[c] = {} /\ newDevs'[c] = {}
         /\ nextId' = nextId
         /\ \A fp \in FPs : lock'[fp] # c
         /\ \A b \in Callers : b # c =>
              /\ request'[b] = request[b] /\ todo'[b] = todo[b] /\ cur'[b] = cur[b]
              /\ left'[b] = left[b] /\ newRows'[b] = newRows[b]
              /\ newEvents'[b] = newEvents[b]
              /\ toWrite'[b] = toWrite[b] /\ newDevs'[b] = newDevs[b]
              /\ Locked(b)' = Locked(b)
<1>1. \A b \in Callers : b # c => Locked(b)' = Locked(b)
  BY CallersAssumption DEF EndTx, Locked, TypeOK
<1>2. \A fp \in FPs : lock'[fp] # c
  BY CallersAssumption DEF EndTx
<1>3. QED
  BY <1>1, <1>2 DEF EndTx, Return, TypeOK, StoreTypeOK

\* What EndTx leaves is typed.
LEMMA EndTxType ==
  ASSUME TypeOK, NEW c \in Callers, EndTx(c), StoreTypeOK'
  PROVE  TypeOK'
<1>1. [fp \in FPs |-> NoRow] \in [FPs -> BaselineRow]
  BY DEF NoRow, BaselineRow
<1>2. newRows' \in [Callers -> [FPs -> BaselineRow]]
  BY <1>1 DEF EndTx, TypeOK
<1>3. QED
  BY <1>2 DEF EndTx, TypeOK, counters

\* A transaction that ends leaves the others as they were, provided the
\* committed rows they build on stay.
LEMMA EndTxOpen ==
  ASSUME PgInv, NEW c \in Callers, EndTx(c), TypeOK', state' = state,
         \A i \in EventIds : event[i] # None => event'[i] # None,
         used' \in {used, used \cup newEvents[c]},
         \A fp \in FPs : lock[fp] # c => baseline'[fp] = baseline[fp]
  PROVE  OpenTxOK'
<1> USE DEF PgInv, OpenTxOK
<1>1. TxRunOK'
  <2> SUFFICES ASSUME NEW b \in Callers, request'[b] # NoRequest
               PROVE  request'[b].run \in Runs /\ state'[request'[b].run] # None
    BY DEF TxRunOK, Open
  <2>1. b # c /\ request'[b] = request[b]
    BY EndTxFacts
  <2>2. QED
    BY <2>1 DEF TxRunOK, Open
<1>2. TxRowsOK'
  <2> SUFFICES ASSUME NEW b \in Callers
               PROVE  /\ \A fp \in Locked(b)' :
                           newRows'[b][fp] = Upsert(baseline'[fp], request'[b].run)
                      /\ request'[b].fps = Locked(b)' \cup todo'[b] \cup ({cur'[b]} \ {None})
    BY DEF TxRowsOK, Upsert
  <2>1. CASE b = c
    <3>1. Locked(c)' = {}
      BY EndTxFacts DEF Locked
    <3>2. QED
      BY <2>1, <3>1, EndTxFacts DEF NoRequest
  <2>2. CASE b # c
    <3>1. \A fp \in Locked(b) : baseline'[fp] = baseline[fp]
      BY <2>2 DEF Locked
    <3>2. QED
      BY <2>2, <3>1, EndTxFacts DEF TxRowsOK
  <2>3. QED
    BY <2>1, <2>2
<1>3. TxIdsOK'
  <2>1. \A b \in Callers : Cardinality(newEvents'[b]) + left'[b] = request'[b].n
    <3>1. Cardinality(newEvents'[c]) + left'[c] = request'[c].n
      <4>1. Cardinality(newEvents'[c]) = 0 /\ left'[c] = 0
        BY EndTxFacts, FS_EmptySet
      <4>2. request'[c].n = 0
        BY EndTxFacts DEF NoRequest
      <4>3. QED
        BY <4>1, <4>2
    <3>2. \A b \in Callers : b # c => Cardinality(newEvents'[b]) + left'[b] = request'[b].n
      BY EndTxFacts DEF TxIdsOK
    <3>3. QED
      BY <3>1, <3>2
  <2>2. \A b \in Callers : \A i \in newEvents'[b] : i \notin used' /\ i < nextId'
    BY EndTxFacts DEF TxIdsOK
  <2>3. \A a, b \in Callers : a # b => newEvents'[a] \cap newEvents'[b] = {}
    BY EndTxFacts DEF TxIdsOK
  <2>4. \A i \in used' : i < nextId'
    BY EndTxFacts DEF TxIdsOK
  <2>5. QED
    BY <2>1, <2>2, <2>3, <2>4 DEF TxIdsOK
<1>4. TxDevsOK'
  <2> SUFFICES ASSUME NEW b \in Callers
               PROVE  /\ request'[b].devs = toWrite'[b] \cup newDevs'[b]
                      /\ \A d \in request'[b].devs :
                            d.run = request'[b].run /\ event'[d.evidence] # None
    BY DEF TxDevsOK
  <2>1. CASE b = c
    BY <2>1, EndTxFacts DEF NoRequest
  <2>2. CASE b # c
    <3>1. \A d \in request[b].devs : d.evidence \in EventIds
      BY DEF TypeOK, StoreTypeOK, Request, DeviationRow
    <3>2. QED
      BY <2>2, <3>1, EndTxFacts DEF TxDevsOK
  <2>3. QED
    BY <2>1, <2>2
<1>5. QED
  BY <1>1, <1>2, <1>3, <1>4

-------------------------------------------------------------------------------
(* The simulation                                                          *)

\* A committed merge is the store's MergeBaseline: all rows of the call.
LEMMA CommitMergeRefines ==
  ASSUME PgInv, NEW c \in Callers, CommitMerge(c)
  PROVE  MergeBaseline(c)
<1>1. request[c].fps = Locked(c)
  BY DEF PgInv, OpenTxOK, TxRowsOK, CommitMerge
<1>2. \A fp \in Locked(c) : newRows[c][fp] = Upsert(baseline[fp], request[c].run)
  BY DEF PgInv, OpenTxOK, TxRowsOK
<1>3. baseline' = [fp \in FPs |-> IF fp \in Locked(c) THEN Upsert(baseline[fp], request[c].run)
                                  ELSE baseline[fp]]
  BY <1>2 DEF CommitMerge
<1>4. QED
  BY <1>1, <1>3 DEF CommitMerge, MergeBaseline, EndTx

\* A committed AppendEvents is the store's: as many events as the batch has,
\* under ids no event had.
LEMMA CommitAppendRefines ==
  ASSUME PgInv, NEW c \in Callers, CommitAppend(c)
  PROVE  newEvents[c] \in SUBSET EventIds /\ AppendEvents(c, newEvents[c])
<1>1. newEvents[c] \subseteq EventIds \ used
  BY DEF PgInv, TypeOK, OpenTxOK, TxIdsOK
<1>2. Cardinality(newEvents[c]) = request[c].n
  <2>1. Cardinality(newEvents[c]) \in Nat
    BY <1>1, EventsFinite
  <2>2. QED
    BY <2>1 DEF PgInv, OpenTxOK, TxIdsOK, CommitAppend
<1>3. state[request[c].run] # None
  BY DEF PgInv, OpenTxOK, TxRunOK, Open, CommitAppend, NoRequest
<1>4. QED
  BY <1>1, <1>2, <1>3 DEF CommitAppend, AppendEvents, EndTx

\* A committed WriteDeviations is the store's: all rows of the call.
LEMMA CommitWriteRefines ==
  ASSUME PgInv, NEW c \in Callers, CommitWrite(c)
  PROVE  WriteDeviations(c)
<1>1. request[c].devs = newDevs[c]
  BY DEF PgInv, OpenTxOK, TxDevsOK, CommitWrite
<1>2. \A d \in request[c].devs : state[d.run] # None /\ event[d.evidence] # None
  BY DEF PgInv, OpenTxOK, TxDevsOK, TxRunOK, Open, CommitWrite, NoRequest
<1>3. QED
  BY <1>1, <1>2 DEF CommitWrite, WriteDeviations, EndTx

\* The start of a transaction is the store's Call.
LEMMA BeginRefines ==
  ASSUME PgInv, NEW c \in Callers, NEW q \in Request, q.run \in Runs, Begin(c, q), UNCHANGED tables
  PROVE  Call(c)
  BY DEF Begin, Open, Call, PgInv, TypeOK, StoreTypeOK

\* The three kinds of calls.
LEMMA CallTypes ==
  ASSUME NEW r \in Runs, NEW fps \in SUBSET FPs, NEW n \in Nat, NEW devs \in SUBSET DeviationRow
  PROVE  /\ MergeCall(r, fps) \in Request /\ MergeCall(r, fps).run = r
         /\ AppendCall(r, n) \in Request /\ AppendCall(r, n).run = r
         /\ WriteCall(r, devs) \in Request /\ WriteCall(r, devs).run = r
  BY DEF MergeCall, AppendCall, WriteCall, Request

\* Every step of the backend is a step of the store, or leaves it alone.
LEMMA StepRefines ==
  ASSUME PgInv, [Next]_vars
  PROVE  [StoreNext]_storeVars
<1>1. ASSUME NEW c \in Callers, TxBegin(c) PROVE StoreNext
  <2>1. Call(c)
    <3>1. ASSUME NEW r \in Runs, NEW fps \in SUBSET FPs, BeginMerge(c, r, fps) PROVE Call(c)
      <4>1. MergeCall(r, fps) \in Request /\ MergeCall(r, fps).run \in Runs
        BY CallTypes
      <4>2. QED
        BY <3>1, <4>1, BeginRefines DEF BeginMerge
    <3>2. ASSUME NEW r \in Runs, NEW n \in 1..MaxBatch, BeginAppend(c, r, n) PROVE Call(c)
      <4>1. AppendCall(r, n) \in Request /\ AppendCall(r, n).run \in Runs
        BY CallTypes
      <4>2. QED
        BY <3>2, <4>1, BeginRefines DEF BeginAppend
    <3>3. ASSUME NEW r \in Runs, NEW ids \in SUBSET DevIds, NEW evidence \in [ids -> EventIds],
                 BeginWrite(c, r, ids, evidence)
          PROVE  Call(c)
      <4> DEFINE devs == {[id |-> d, run |-> r, evidence |-> evidence[d]] : d \in ids}
      <4>1. devs \in SUBSET DeviationRow
        BY DEF DeviationRow
      <4>2. Begin(c, WriteCall(r, devs)) /\ UNCHANGED tables
        BY <3>3 DEF BeginWrite
      <4>3. WriteCall(r, devs) \in Request /\ WriteCall(r, devs).run \in Runs
        BY <4>1, CallTypes
      <4> HIDE DEF devs
      <4>4. QED
        BY <4>2, <4>3, BeginRefines
    <3>4. QED
      BY <1>1, <3>1, <3>2, <3>3 DEF TxBegin
  <2>2. QED
    BY <2>1 DEF StoreNext
<1>2. ASSUME NEW c \in Callers, TxStep(c) PROVE [StoreNext]_storeVars
  <2>1. CASE (\E fp \in todo[c] : SendRow(c, fp)) \/ MergeRow(c)
    BY <2>1 DEF SendRow, MergeRow, storeVars
  <2>2. CASE InsertEvent(c) \/ \E d \in toWrite[c] : InsertDeviation(c, d)
    BY <2>2 DEF InsertEvent, InsertDeviation, storeVars
  <2>3. CASE CommitMerge(c)
    BY <2>3, CommitMergeRefines DEF StoreNext
  <2>4. CASE CommitAppend(c)
    BY <2>4, CommitAppendRefines DEF StoreNext
  <2>5. CASE CommitWrite(c)
    BY <2>5, CommitWriteRefines DEF StoreNext
  <2>6. QED
    BY <1>2, <2>1, <2>2, <2>3, <2>4, <2>5 DEF TxStep
<1>3. ASSUME NEW c \in Callers, Rollback(c) PROVE StoreNext
  BY <1>3 DEF Rollback, EndTx, Open, Fail, StoreNext
<1>4. ASSUME NEW c \in Callers, DeadlockVictim(c) PROVE StoreNext
  <2>1. cur[c] # None
    BY <1>4 DEF DeadlockVictim, InCycle, Deadlocked, Waits
  <2>2. request[c].fps # {}
    BY <2>1 DEF PgInv, OpenTxOK, TxRowsOK
  <2>3. request[c] # NoRequest
    BY <2>2 DEF NoRequest
  <2>4. QED
    BY <1>4, <2>3 DEF DeadlockVictim, EndTx, Fail, StoreNext
<1>5. CASE Statement
  BY <1>5 DEF Statement, StoreNext
<1>6. ASSUME NEW old \in SUBSET EventIds, Prune(old) PROVE StoreNext
  BY <1>6 DEF Prune, StoreNext
<1>7. ASSUME NEW l \in Listers, ListStart(l) \/ ListSub(l) PROVE UNCHANGED storeVars
  BY <1>7 DEF ListStart, ListSub
<1>8. CASE UNCHANGED vars
  BY <1>8 DEF vars
<1>9. QED
  BY <1>1, <1>2, <1>3, <1>4, <1>5, <1>6, <1>7, <1>8 DEF Next

\* Every step keeps the types: the tables by StoreNextType, the transactions
\* action by action.
LEMMA TypeStep ==
  ASSUME PgInv, [Next]_vars
  PROVE  TypeOK'
<1>0. StoreTypeOK' /\ TypeOK
  <2>1. RequestsHaveRuns
    BY DEF PgInv, OpenTxOK, TxRunOK, Open, RequestsHaveRuns, NoRequest
  <2>2. QED
    BY <2>1, StepRefines, StoreNextType DEF PgInv, TypeOK
<1>1. ASSUME NEW c \in Callers, NEW r \in Runs, NEW fps \in SUBSET FPs, BeginMerge(c, r, fps)
      PROVE  TypeOK'
  BY <1>0, <1>1 DEF BeginMerge, Begin, TypeOK, appending, writing
<1>2. ASSUME NEW c \in Callers, NEW r \in Runs, NEW n \in 1..MaxBatch, BeginAppend(c, r, n)
      PROVE  TypeOK'
  BY <1>0, <1>2 DEF BeginAppend, Begin, TypeOK, merging, writing
<1>3. ASSUME NEW c \in Callers, NEW r \in Runs, NEW ids \in SUBSET DevIds,
             NEW evidence \in [ids -> EventIds], BeginWrite(c, r, ids, evidence)
      PROVE  TypeOK'
  <2>1. {[id |-> d, run |-> r, evidence |-> evidence[d]] : d \in ids} \subseteq DeviationRow
    BY DEF DeviationRow
  <2>2. toWrite' \in [Callers -> SUBSET DeviationRow]
    BY <1>0, <1>3, <2>1 DEF BeginWrite, TypeOK
  <2>3. QED
    BY <1>0, <1>3, <2>2 DEF BeginWrite, Begin, TypeOK, merging, appending
<1>4. ASSUME NEW c \in Callers, NEW fp \in todo[c], SendRow(c, fp) PROVE TypeOK'
  BY <1>0, <1>4 DEF SendRow, TypeOK, appending, writing, counters
<1>5. ASSUME NEW c \in Callers, MergeRow(c) PROVE TypeOK'
  <2>1. cur[c] \in FPs
    BY <1>0, <1>5 DEF MergeRow, TypeOK
  <2>2. request[c].run \in Runs
    <3>1. request[c].fps # {}
      BY <1>5 DEF MergeRow, PgInv, OpenTxOK, TxRowsOK
    <3>2. QED
      BY <3>1 DEF PgInv, OpenTxOK, TxRunOK, Open, NoRequest
  <2>3. Upsert(baseline[cur[c]], request[c].run) \in BaselineRow
    BY <1>0, <2>1, <2>2, UpsertType DEF TypeOK, StoreTypeOK
  <2>4. newRows' \in [Callers -> [FPs -> BaselineRow]]
    BY <1>0, <1>5, <2>1, <2>3 DEF MergeRow, TypeOK
  <2>5. QED
    BY <1>0, <1>5, <2>1, <2>4 DEF MergeRow, TypeOK, appending, writing, counters
<1>6. ASSUME NEW c \in Callers, InsertEvent(c) PROVE TypeOK'
  <2>1. nextId \in EventIds /\ nextId' \in Nat \ {0}
    BY <1>0, <1>6, MaxEventAssumption DEF InsertEvent, TypeOK, EventIds
  <2>2. left' \in [Callers -> Nat] /\ newEvents' \in [Callers -> SUBSET EventIds]
    BY <1>0, <1>6, <2>1 DEF InsertEvent, TypeOK
  <2>3. QED
    BY <1>0, <1>6, <2>1, <2>2 DEF InsertEvent, TypeOK, merging, writing, counters
<1>7. ASSUME NEW c \in Callers, NEW d \in toWrite[c], InsertDeviation(c, d) PROVE TypeOK'
  BY <1>0, <1>7 DEF InsertDeviation, TypeOK, merging, appending, counters
<1>8. ASSUME NEW c \in Callers, EndTx(c) PROVE TypeOK'
  BY <1>0, <1>8, EndTxType
<1>9. CASE Statement
  BY <1>0, <1>9 DEF Statement, TypeOK, merging, appending, writing
<1>10. ASSUME NEW old \in SUBSET EventIds, Prune(old) PROVE TypeOK'
  BY <1>0, <1>10 DEF Prune, TypeOK, merging, appending, writing
<1>11. ASSUME NEW l \in Listers, ListStart(l) \/ ListSub(l) PROVE TypeOK'
  BY <1>0, <1>11 DEF ListStart, ListSub, TypeOK, merging, appending, writing, counters
<1>12. CASE UNCHANGED vars
  BY <1>0, <1>12 DEF vars, TypeOK, merging, appending, writing, counters
<1>13. QED
  BY <1>1, <1>2, <1>3, <1>4, <1>5, <1>6, <1>7, <1>8, <1>9, <1>10, <1>11, <1>12
     DEF Next, TxBegin, TxStep, CommitMerge, CommitAppend, CommitWrite, Rollback, DeadlockVictim

\* A transaction that begins is in order, and leaves the others as they were.
LEMMA BeginOpen ==
  ASSUME PgInv, NEW c \in Callers, NEW q \in Request, q.run \in Runs, Begin(c, q), TypeOK',
         UNCHANGED <<tables, cur, newRows, lock, newEvents, nextId, newDevs>>,
         todo' = [todo EXCEPT ![c] = q.fps],
         left' = [left EXCEPT ![c] = q.n],
         toWrite' = [toWrite EXCEPT ![c] = q.devs],
         \A d \in q.devs : d.run = q.run /\ event[d.evidence] # None
  PROVE  OpenTxOK'
<1> USE DEF PgInv, OpenTxOK
<1>1. /\ request[c] = NoRequest /\ request'[c] = q /\ state[q.run] # None
      /\ \A b \in Callers : b # c => request'[b] = request[b]
  BY DEF Begin, Open, TypeOK, StoreTypeOK
<1>2. /\ todo'[c] = q.fps /\ left'[c] = q.n /\ toWrite'[c] = q.devs
      /\ \A b \in Callers : b # c =>
           todo'[b] = todo[b] /\ left'[b] = left[b] /\ toWrite'[b] = toWrite[b]
  BY DEF TypeOK
<1>3. Locked(c) = {} /\ cur[c] = None /\ newEvents[c] = {} /\ newDevs[c] = {}
  <2>1. request[c].fps = {} /\ request[c].n = 0 /\ request[c].devs = {}
    BY <1>1 DEF NoRequest
  <2>2. newEvents[c] = {}
    <3>1. IsFiniteSet(newEvents[c]) /\ Cardinality(newEvents[c]) \in Nat /\ left[c] \in Nat
      BY EventsFinite DEF TypeOK
    <3>2. Cardinality(newEvents[c]) = 0
      BY <2>1, <3>1 DEF TxIdsOK
    <3>3. QED
      BY <3>1, <3>2, FS_EmptySet
  <2>3. Locked(c) = {} /\ {cur[c]} \ {None} = {}
    BY <2>1 DEF TxRowsOK
  <2>4. newDevs[c] = {}
    BY <2>1 DEF TxDevsOK
  <2>5. QED
    BY <2>2, <2>3, <2>4
<1>4. \A b \in Callers : Locked(b)' = Locked(b)
  BY DEF Locked
<1>5. TxRunOK'
  BY <1>1 DEF TxRunOK, Open, tables
<1>6. TxRowsOK'
  <2>0. baseline' = baseline /\ newRows' = newRows /\ cur' = cur
    BY DEF tables
  <2>1. ASSUME NEW b \in Callers
        PROVE  /\ \A fp \in Locked(b) :
                     newRows[b][fp] = Upsert(baseline[fp], request'[b].run)
               /\ request'[b].fps = Locked(b) \cup todo'[b] \cup ({cur[b]} \ {None})
    <3>1. CASE b = c
      BY <1>1, <1>2, <1>3, <3>1
    <3>2. CASE b # c
      <4>1. request'[b] = request[b] /\ todo'[b] = todo[b]
        BY <1>1, <1>2, <3>2
      <4>2. QED
        BY <4>1 DEF TxRowsOK
    <3>3. QED
      BY <3>1, <3>2
  <2>2. QED
    BY <1>4, <2>0, <2>1 DEF TxRowsOK, Upsert
<1>7. TxIdsOK'
  <2>1. Cardinality(newEvents'[c]) + left'[c] = request'[c].n
    <3>1. Cardinality(newEvents'[c]) = 0
      BY <1>3, FS_EmptySet
    <3>2. q.n \in Nat
      BY DEF Request
    <3>3. QED
      BY <1>1, <1>2, <3>1, <3>2
  <2>2. \A b \in Callers : b # c => Cardinality(newEvents'[b]) + left'[b] = request'[b].n
    BY <1>1, <1>2 DEF TxIdsOK
  <2>3. QED
    BY <2>1, <2>2 DEF TxIdsOK, tables
<1>8. TxDevsOK'
  <2> SUFFICES ASSUME NEW b \in Callers
               PROVE  /\ request'[b].devs = toWrite'[b] \cup newDevs[b]
                      /\ \A d \in request'[b].devs :
                            d.run = request'[b].run /\ event[d.evidence] # None
    BY DEF TxDevsOK, tables
  <2>1. CASE b = c
    BY <1>1, <1>2, <1>3, <2>1
  <2>2. CASE b # c
    BY <1>1, <1>2, <2>2 DEF TxDevsOK
  <2>3. QED
    BY <2>1, <2>2
<1>9. QED
  BY <1>5, <1>6, <1>7, <1>8

\* What the open transactions build on stays true under every step.
LEMMA OpenTxStep ==
  ASSUME PgInv, [Next]_vars
  PROVE  OpenTxOK'
<1>0. TypeOK /\ OpenTxOK /\ TypeOK' /\ StoreTypeOK /\ [StoreNext]_storeVars
  BY TypeStep, StepRefines DEF PgInv, TypeOK
<1>r. \A r \in Runs : state[r] # None => state'[r] # None
  BY <1>0, RunsStay
<1>1. ASSUME NEW c \in Callers, NEW r \in Runs, NEW fps \in SUBSET FPs, BeginMerge(c, r, fps)
      PROVE  OpenTxOK'
  <2>1. MergeCall(r, fps) \in Request /\ MergeCall(r, fps).run \in Runs
    BY CallTypes
  <2>2. MergeCall(r, fps).fps = fps /\ MergeCall(r, fps).n = 0 /\ MergeCall(r, fps).devs = {}
    BY DEF MergeCall
  <2>3. left[c] = 0 /\ toWrite[c] = {}
    <3>1. request[c].n = 0 /\ request[c].devs = {}
      BY <1>1 DEF BeginMerge, Begin, Open, NoRequest
    <3>2. Cardinality(newEvents[c]) \in Nat /\ left[c] \in Nat
      BY <1>0, EventsFinite DEF TypeOK
    <3>3. Cardinality(newEvents[c]) + left[c] = 0
      BY <1>0, <3>1 DEF OpenTxOK, TxIdsOK
    <3>4. toWrite[c] = {}
      BY <1>0, <3>1 DEF OpenTxOK, TxDevsOK
    <3>5. QED
      BY <3>2, <3>3, <3>4
  <2>4. left' = [left EXCEPT ![c] = 0] /\ toWrite' = [toWrite EXCEPT ![c] = {}]
    BY <1>0, <1>1, <2>3 DEF BeginMerge, appending, writing, TypeOK
  <2>5. Begin(c, MergeCall(r, fps)) /\ todo' = [todo EXCEPT ![c] = fps]
        /\ UNCHANGED <<tables, cur, newRows, lock, newEvents, nextId, newDevs>>
    BY <1>1 DEF BeginMerge, appending, writing
  <2>6. QED
    BY <1>0, <2>1, <2>2, <2>4, <2>5, BeginOpen
<1>2. ASSUME NEW c \in Callers, NEW r \in Runs, NEW n \in 1..MaxBatch, BeginAppend(c, r, n)
      PROVE  OpenTxOK'
  <2>1. AppendCall(r, n) \in Request /\ AppendCall(r, n).run \in Runs
    BY CallTypes
  <2>2. AppendCall(r, n).fps = {} /\ AppendCall(r, n).n = n /\ AppendCall(r, n).devs = {}
    BY DEF AppendCall
  <2>3. todo[c] = {} /\ toWrite[c] = {}
    <3>1. request[c].fps = {} /\ request[c].devs = {}
      BY <1>2 DEF BeginAppend, Begin, Open, NoRequest
    <3>2. QED
      BY <1>0, <3>1 DEF OpenTxOK, TxRowsOK, TxDevsOK
  <2>4. todo' = [todo EXCEPT ![c] = {}] /\ toWrite' = [toWrite EXCEPT ![c] = {}]
    BY <1>0, <1>2, <2>3 DEF BeginAppend, merging, writing, TypeOK
  <2>5. Begin(c, AppendCall(r, n)) /\ left' = [left EXCEPT ![c] = n]
        /\ UNCHANGED <<tables, cur, newRows, lock, newEvents, nextId, newDevs>>
    BY <1>2 DEF BeginAppend, merging, writing
  <2>6. QED
    BY <1>0, <2>1, <2>2, <2>4, <2>5, BeginOpen
<1>3. ASSUME NEW c \in Callers, NEW r \in Runs, NEW ids \in SUBSET DevIds,
             NEW evidence \in [ids -> EventIds], BeginWrite(c, r, ids, evidence)
      PROVE  OpenTxOK'
  <2> DEFINE devs == {[id |-> d, run |-> r, evidence |-> evidence[d]] : d \in ids}
  <2>1. WriteCall(r, devs) \in Request /\ WriteCall(r, devs).run = r
    <3>1. devs \in SUBSET DeviationRow
      BY DEF DeviationRow
    <3>2. QED
      BY <3>1, CallTypes
  <2>2. \A d \in devs : d.run = r /\ event[d.evidence] # None
    BY <1>3, NoneAssumption DEF BeginWrite
  <2>3. Begin(c, WriteCall(r, devs)) /\ toWrite' = [toWrite EXCEPT ![c] = devs]
        /\ UNCHANGED <<tables, cur, newRows, lock, newEvents, nextId, newDevs, todo, left>>
    BY <1>3 DEF BeginWrite, merging, appending
  <2> HIDE DEF devs
  <2>4. WriteCall(r, devs).fps = {} /\ WriteCall(r, devs).n = 0 /\ WriteCall(r, devs).devs = devs
    BY DEF WriteCall
  <2>5. todo[c] = {} /\ left[c] = 0
    <3>1. request[c].fps = {} /\ request[c].n = 0
      BY <2>3 DEF Begin, Open, NoRequest
    <3>2. Cardinality(newEvents[c]) \in Nat /\ left[c] \in Nat
      BY <1>0, EventsFinite DEF TypeOK
    <3>3. Cardinality(newEvents[c]) + left[c] = 0
      BY <1>0, <3>1 DEF OpenTxOK, TxIdsOK
    <3>4. todo[c] = {}
      BY <1>0, <3>1 DEF OpenTxOK, TxRowsOK
    <3>5. QED
      BY <3>2, <3>3, <3>4
  <2>6. todo' = [todo EXCEPT ![c] = {}] /\ left' = [left EXCEPT ![c] = 0]
    BY <1>0, <2>3, <2>5 DEF TypeOK
  <2>7. QED
    BY <1>0, <2>1, <2>2, <2>3, <2>4, <2>6, BeginOpen
<1>4. ASSUME NEW c \in Callers, NEW fp \in todo[c], SendRow(c, fp) PROVE OpenTxOK'
  <2>1. TxRowsOK'
    <3> SUFFICES ASSUME NEW b \in Callers
                 PROVE  /\ \A f \in Locked(b) : newRows[b][f] = Upsert(baseline[f], request[b].run)
                        /\ request[b].fps = Locked(b) \cup todo'[b] \cup ({cur'[b]} \ {None})
      BY <1>4 DEF SendRow, TxRowsOK, Locked, Upsert, tables
    <3>1. CASE b = c
      <4>1. cur[c] = None /\ cur'[c] = fp /\ todo'[c] = todo[c] \ {fp} /\ fp # None
        BY <1>0, <1>4, CallersAssumption DEF SendRow, TypeOK
      <4>2. QED
        BY <1>0, <3>1, <4>1 DEF OpenTxOK, TxRowsOK
    <3>2. CASE b # c
      BY <1>0, <1>4, <3>2 DEF SendRow, OpenTxOK, TxRowsOK, TypeOK
    <3>3. QED
      BY <3>1, <3>2
  <2>2. QED
    BY <1>0, <1>4, <2>1
       DEF SendRow, OpenTxOK, TxRunOK, Open, TxIdsOK, TxDevsOK, tables, appending, writing
<1>5. ASSUME NEW c \in Callers, MergeRow(c) PROVE OpenTxOK'
  <2>1. TxRowsOK'
    <3>1. cur[c] \in FPs /\ lock[cur[c]] = None
      BY <1>0, <1>5 DEF MergeRow, TypeOK
    <3>2. Locked(c)' = Locked(c) \cup {cur[c]} /\ cur'[c] = None
      BY <1>0, <1>5, <3>1, CallersAssumption DEF MergeRow, Locked, TypeOK
    <3>3. \A b \in Callers : b # c => Locked(b)' = Locked(b) /\ cur'[b] = cur[b]
                                      /\ newRows'[b] = newRows[b]
      BY <1>0, <1>5, <3>1, CallersAssumption DEF MergeRow, Locked, TypeOK
    <3>4. /\ newRows'[c][cur[c]] = Upsert(baseline[cur[c]], request[c].run)
          /\ \A f \in FPs \ {cur[c]} : newRows'[c][f] = newRows[c][f]
      BY <1>0, <1>5, <3>1 DEF MergeRow, TypeOK
    <3>5. baseline' = baseline /\ request' = request /\ todo' = todo
      BY <1>5 DEF MergeRow, tables
    <3>6. ASSUME NEW b \in Callers
          PROVE  /\ \A f \in Locked(b)' : newRows'[b][f] = Upsert(baseline[f], request[b].run)
                 /\ request[b].fps = Locked(b)' \cup todo[b] \cup ({cur'[b]} \ {None})
      <4>1. CASE b = c
        <5>1. cur[c] # None /\ Locked(c) \subseteq FPs
          BY <1>5 DEF MergeRow, Locked
        <5>2. QED
          BY <1>0, <3>2, <3>4, <4>1, <5>1 DEF OpenTxOK, TxRowsOK
      <4>2. CASE b # c
        BY <1>0, <3>3, <4>2 DEF OpenTxOK, TxRowsOK
      <4>3. QED
        BY <4>1, <4>2
    <3>7. QED
      BY <3>5, <3>6 DEF TxRowsOK, Upsert
  <2>2. QED
    BY <1>0, <1>5, <2>1
       DEF MergeRow, OpenTxOK, TxRunOK, Open, TxIdsOK, TxDevsOK, tables, appending, writing
<1>6. ASSUME NEW c \in Callers, InsertEvent(c) PROVE OpenTxOK'
  <2>1. TxIdsOK'
    <3>1. \A b \in Callers : b # c => newEvents'[b] = newEvents[b] /\ left'[b] = left[b]
      BY <1>0, <1>6 DEF InsertEvent, TypeOK
    <3>2. /\ newEvents'[c] = newEvents[c] \cup {nextId} /\ nextId' = nextId + 1
          /\ used' = used /\ left'[c] = left[c] - 1 /\ left[c] \in Nat /\ request' = request
      BY <1>0, <1>6 DEF InsertEvent, TypeOK, tables
    <3>3. nextId \notin used /\ \A b \in Callers : nextId \notin newEvents[b]
      BY <1>0 DEF OpenTxOK, TxIdsOK, TypeOK
    <3>4. \A b \in Callers : \A i \in newEvents'[b] : i \notin used' /\ i < nextId'
      <4>1. \A b \in Callers : \A i \in newEvents[b] : i \in Nat /\ i \notin used /\ i < nextId
        BY <1>0, MaxEventAssumption DEF OpenTxOK, TxIdsOK, TypeOK, EventIds
      <4>2. nextId \in Nat
        BY <1>0 DEF TypeOK
      <4>3. ASSUME NEW b \in Callers, NEW i \in newEvents'[b] PROVE i \notin used' /\ i < nextId'
        BY <3>1, <3>2, <3>3, <4>1, <4>2
      <4>4. QED
        BY <4>3
    <3>5. \A a, b \in Callers : a # b => newEvents'[a] \cap newEvents'[b] = {}
      BY <1>0, <3>1, <3>2, <3>3 DEF OpenTxOK, TxIdsOK
    <3>6. \A i \in used' : i < nextId'
      BY <1>0, <3>2 DEF OpenTxOK, TxIdsOK, TypeOK, StoreTypeOK, EventIds
    <3>7. \A b \in Callers : Cardinality(newEvents'[b]) + left'[b] = request'[b].n
      <4>1. IsFiniteSet(newEvents[c]) /\ Cardinality(newEvents[c]) \in Nat
        BY <1>0, EventsFinite DEF TypeOK
      <4>2. Cardinality(newEvents'[c]) = Cardinality(newEvents[c]) + 1
        BY <3>2, <3>3, <4>1, FS_AddElement
      <4>3. Cardinality(newEvents[c]) + left[c] = request[c].n
        BY <1>0 DEF OpenTxOK, TxIdsOK
      <4>4. Cardinality(newEvents'[c]) + left'[c] = request'[c].n
        BY <3>2, <4>1, <4>2, <4>3
      <4>5. QED
        BY <1>0, <3>1, <3>2, <4>4 DEF OpenTxOK, TxIdsOK
    <3>8. QED
      BY <3>4, <3>5, <3>6, <3>7 DEF TxIdsOK
  <2>2. QED
    BY <1>0, <1>6, <2>1
       DEF InsertEvent, OpenTxOK, TxRunOK, Open, TxRowsOK, Locked, TxDevsOK, tables, merging,
           writing, Upsert
<1>7. ASSUME NEW c \in Callers, NEW d \in toWrite[c], InsertDeviation(c, d) PROVE OpenTxOK'
  <2>1. TxDevsOK'
    <3>1. \A b \in Callers : toWrite'[b] \cup newDevs'[b] = toWrite[b] \cup newDevs[b]
      BY <1>0, <1>7 DEF InsertDeviation, TypeOK
    <3>2. QED
      BY <1>0, <1>7, <3>1 DEF InsertDeviation, OpenTxOK, TxDevsOK, tables
  <2>2. QED
    BY <1>0, <1>7, <2>1
       DEF InsertDeviation, OpenTxOK, TxRunOK, Open, TxRowsOK, Locked, TxIdsOK, tables, merging,
           appending, Upsert
<1>8. ASSUME NEW c \in Callers, CommitMerge(c) PROVE OpenTxOK'
  BY <1>0, <1>8, EndTxOpen DEF CommitMerge, Locked
<1>9. ASSUME NEW c \in Callers, CommitAppend(c) PROVE OpenTxOK'
  <2>1. request[c].run \in Runs
    BY <1>0, <1>9 DEF CommitAppend, OpenTxOK, TxRunOK, Open, NoRequest
  <2>2. \A i \in EventIds : event[i] # None => event'[i] # None
    BY <1>9, <2>1, NoneAssumption DEF CommitAppend
  <2>3. QED
    BY <1>0, <1>9, <2>2, EndTxOpen DEF CommitAppend
<1>10. ASSUME NEW c \in Callers, CommitWrite(c) PROVE OpenTxOK'
  BY <1>0, <1>10, EndTxOpen DEF CommitWrite
<1>11. ASSUME NEW c \in Callers, Rollback(c) \/ DeadlockVictim(c) PROVE OpenTxOK'
  BY <1>0, <1>11, EndTxOpen DEF Rollback, DeadlockVictim, tables
<1>12. CASE Statement
  <2>1. UNCHANGED <<event, baseline, used>>
    BY <1>12, OneStatementFrame DEF Statement
  <2>2. QED
    BY <1>0, <1>r, <1>12, <2>1
       DEF Statement, OpenTxOK, TxRunOK, Open, TxRowsOK, Locked, TxIdsOK, TxDevsOK, merging,
           appending, writing, Upsert
<1>13. ASSUME NEW old \in SUBSET EventIds, Prune(old) PROVE OpenTxOK'
  <2>1. \A c \in Callers : \A d \in request[c].devs : d.evidence \in EventIds /\ d.evidence \notin old
    BY <1>0, <1>13 DEF Prune, Evidence, StoreTypeOK, Request, DeviationRow
  <2>2. \A c \in Callers : \A d \in request[c].devs : event'[d.evidence] = event[d.evidence]
    BY <1>13, <2>1 DEF Prune, PruneEvents
  <2>3. UNCHANGED <<state, baseline, used, request, merging, appending, writing>>
    BY <1>13 DEF Prune, PruneEvents
  <2>4. QED
    BY <1>0, <2>2, <2>3
       DEF OpenTxOK, TxRunOK, Open, TxRowsOK, Locked, TxIdsOK, TxDevsOK, merging, appending,
           writing, Upsert
<1>14. CASE UNCHANGED <<storeVars, merging, appending, writing>>
  BY <1>0, <1>14
     DEF OpenTxOK, TxRunOK, Open, TxRowsOK, Locked, TxIdsOK, TxDevsOK, storeVars, tables, merging,
         appending, writing, Upsert
<1>15. QED
  BY <1>1, <1>2, <1>3, <1>4, <1>5, <1>6, <1>7, <1>8, <1>9, <1>10, <1>11, <1>12, <1>13, <1>14
     DEF Next, TxBegin, TxStep, ListStart, ListSub, vars

\* The invariant of the open transactions holds for every number of them.
THEOREM OpenTransactions == Spec => [](TypeOK /\ OpenTxOK)
<1>1. PgInv /\ [Next]_vars => PgInv'
  BY TypeStep, OpenTxStep DEF PgInv
<1>2. QED
  BY <1>1, PgInit, PTL DEF Spec, PgInv

\* The PostgreSQL backend implements storage.Backend's promise.
THEOREM Refinement == Spec => ImplementsStore
<1>1. Init => StoreInit
  BY DEF Init
<1>2. PgInv /\ [Next]_vars => [StoreNext]_storeVars
  BY StepRefines
<1>3. QED
  BY <1>1, <1>2, OpenTransactions, PTL DEF Spec, ImplementsStore, StoreSpec, PgInv

-------------------------------------------------------------------------------
(* What the store's promise means for the rows                             *)

\* The tables keep their types.
LEMMA StoreTypes == StoreSpec => [](StoreTypeOK /\ RequestsHaveRuns)
<1>1. StoreInit => StoreTypeOK /\ RequestsHaveRuns
  BY NoneAssumption, MaxEventAssumption, NoRequestType
     DEF StoreInit, StoreTypeOK, EventIds, BaselineRow, NoRow, RunState, RequestsHaveRuns,
         NoRequest
<1>2. StoreTypeOK /\ RequestsHaveRuns /\ [StoreNext]_storeVars => (StoreTypeOK /\ RequestsHaveRuns)'
  BY StoreNextType, RequestsStep
<1>3. QED
  BY <1>1, <1>2, PTL DEF StoreSpec

\* Only MergeBaseline changes a baseline row or the history of its merges.
LEMMA BaselineFrame ==
  ASSUME [StoreNext]_storeVars, ~ \E c \in Callers : MergeBaseline(c)
  PROVE  UNCHANGED <<baseline, merges>>
<1>1. OneStatement => UNCHANGED <<baseline, merges>>
  BY OneStatementFrame
<1>2. QED
  BY <1>1 DEF StoreNext, storeVars, tables, Call, Fail, PruneEvents, AppendEvents, WriteDeviations

\* No merge is lost or counted twice, for any number of runs and rows.
THEOREM Counts == StoreSpec => []CountsAddUp
<1>1. StoreInit => CountsAddUp
  BY DEF StoreInit, CountsAddUp
<1>2. ASSUME StoreTypeOK, RequestsHaveRuns, CountsAddUp, [StoreNext]_storeVars PROVE CountsAddUp'
  <2>1. ASSUME NEW c \in Callers, MergeBaseline(c) PROVE CountsAddUp'
    <3> DEFINE r == request[c].run
    <3> SUFFICES ASSUME NEW fp \in FPs, fp \in request[c].fps
                 PROVE  /\ merges'[fp] # <<>>
                        /\ baseline'[fp] = [first |-> Head(merges'[fp]),
                                            last |-> merges'[fp][Len(merges'[fp])],
                                            count |-> Len(merges'[fp])]
      BY <1>2, <2>1 DEF MergeBaseline, CountsAddUp, StoreTypeOK
    <3>0. r \in Runs
      BY <1>2, <2>1 DEF MergeBaseline, RequestsHaveRuns
    <3>1. merges'[fp] = Append(merges[fp], r) /\ merges[fp] \in Seq(Runs)
      BY <1>2, <2>1 DEF MergeBaseline, StoreTypeOK
    <3>2. baseline'[fp] = Upsert(baseline[fp], r)
      BY <2>1 DEF MergeBaseline
    <3> HIDE DEF r
    <3>3. /\ Len(merges'[fp]) = Len(merges[fp]) + 1
          /\ merges'[fp][Len(merges'[fp])] = r
          /\ merges'[fp] # <<>>
      BY <3>0, <3>1
    <3>4. CASE merges[fp] = <<>>
      <4>0. baseline[fp] = NoRow
        BY <1>2, <3>4 DEF CountsAddUp
      <4>1. baseline[fp].count = 0 /\ Len(merges[fp]) = 0
        BY <3>4, <4>0 DEF NoRow
      <4>2. Head(merges'[fp]) = r
        BY <3>0, <3>1, <3>4
      <4>3. QED
        BY <3>2, <3>3, <4>1, <4>2 DEF Upsert
    <3>5. CASE merges[fp] # <<>>
      <4>0. baseline[fp] = [first |-> Head(merges[fp]),
                            last |-> merges[fp][Len(merges[fp])],
                            count |-> Len(merges[fp])]
        BY <1>2, <3>5, Zenon DEF CountsAddUp
      <4>1. /\ baseline[fp].count = Len(merges[fp])
            /\ baseline[fp].first = Head(merges[fp])
        BY <4>0
      <4>2. Len(merges[fp]) # 0 /\ Head(merges'[fp]) = Head(merges[fp])
        BY <3>0, <3>1, <3>5
      <4>3. QED
        BY <3>2, <3>3, <4>1, <4>2 DEF Upsert
    <3>6. QED
      BY <3>4, <3>5
  <2>2. CASE UNCHANGED <<baseline, merges>>
    BY <1>2, <2>2 DEF CountsAddUp
  <2>3. QED
    BY <1>2, <2>1, <2>2, BaselineFrame
<1>3. QED
  BY <1>1, <1>2, StoreTypes, PTL DEF StoreSpec

\* The foreign keys hold through every delete and cascade.
THEOREM References == StoreSpec => []ReferencesHold
<1>1. StoreInit => ReferencesHold
  BY DEF StoreInit, ReferencesHold
<1>2. ASSUME StoreTypeOK, RequestsHaveRuns, ReferencesHold, [StoreNext]_storeVars
      PROVE  ReferencesHold'
  <2> USE <1>2 DEF ReferencesHold
  <2>r. \A r \in Runs : state[r] # None => state'[r] # None
    BY RunsStay
  <2>t. /\ \A i \in EventIds : event[i] \in Runs \cup {None}
        /\ \A d \in deviations : d.run \in Runs /\ d.evidence \in EventIds
        /\ \A x \in notifications : x[2] \in Runs
    BY DEF StoreTypeOK, DeviationRow
  <2>1. CASE \E r \in Runs : \/ CreateRun(r) \/ UpdateRunState(r, "done") \/ MarkRunBaseline(r)
                             \/ \E status \in {"ok", "failed", "timeout"} : RecordScanResult(r, status)
    BY <2>r, <2>t, <2>1
       DEF CreateRun, UpdateRunState, MarkRunBaseline, RecordScanResult, catalog
  <2>2. CASE \E r \in Runs : DeleteDeviationsForRun(r)
    BY <2>2 DEF DeleteDeviationsForRun, catalog
  <2>3. CASE CatalogNext
    BY <2>3 DEF CatalogNext, AddWatchedPackage, RemoveWatchedPackage, RecordRelease,
                AddAllowEntry, DeleteAllowEntry, UpsertNotifier, DeleteNotifier,
                RecordNotification
  <2>4. CASE \E old \in SUBSET EventIds : PruneEvents(old)
    BY <2>t, <2>4 DEF PruneEvents, Evidence, catalog
  <2>5. ASSUME NEW c \in Callers, NEW ids \in SUBSET EventIds, AppendEvents(c, ids)
        PROVE  ReferencesHold'
    <3>1. request[c].run \in Runs
      BY <2>5 DEF AppendEvents, RequestsHaveRuns
    <3>2. QED
      BY <2>t, <2>5, <3>1, NoneAssumption DEF AppendEvents, catalog
  <2>6. CASE \E c \in Callers : MergeBaseline(c)
    BY <2>6 DEF MergeBaseline, catalog
  <2>7. CASE \E c \in Callers : WriteDeviations(c)
    BY <2>7 DEF WriteDeviations, catalog
  <2>8. CASE UNCHANGED tables
    BY <2>8 DEF tables, catalog
  <2>9. QED
    BY <2>1, <2>2, <2>3, <2>4, <2>5, <2>6, <2>7, <2>8
       DEF StoreNext, OneStatement, Call, Fail, storeVars
<1>3. QED
  BY <1>1, <1>2, StoreTypes, PTL DEF StoreSpec

\* So the PostgreSQL backend has both: what the rows say is right, and no row
\* is an orphan, whatever the interleaving of its transactions.
THEOREM TablesSound == Spec => []TablesAgree
  BY Refinement, Counts, References, PTL DEF ImplementsStore, TablesAgree

\* An evidence link never points at another event: ids are not reused.
THEOREM EvidenceIds == Spec => IdsAreForever
<1>1. ASSUME StoreTypeOK, [StoreNext]_storeVars
      PROVE  \A i \in EventIds : i \in used => event'[i] \in {event[i], None}
  <2>1. CASE UNCHANGED event
    BY <2>1
  <2>2. CASE \E old \in SUBSET EventIds : PruneEvents(old)
    BY <2>2 DEF PruneEvents
  <2>3. CASE \E c \in Callers, ids \in SUBSET EventIds : AppendEvents(c, ids)
    BY <2>3 DEF AppendEvents
  <2>4. QED
    BY <1>1, <2>1, <2>2, <2>3, OneStatementFrame
       DEF StoreNext, Call, Fail, MergeBaseline, WriteDeviations, storeVars, tables
<1>2. StoreTypeOK /\ [StoreNext]_storeVars =>
        [\A i \in EventIds : i \in used => event'[i] \in {event[i], None}]_tables
  BY <1>1
<1>3. QED
  BY <1>2, StoreTypes, Refinement, PTL DEF StoreSpec, ImplementsStore, IdsAreForever
===============================================================================
