---------------------------- MODULE AnalysisProofs ----------------------------
(* Machine-checked facts about ingest, analysis, promotion and retention, for *)
(* any number of runs, packages, fingerprints, batches and callbacks.         *)
EXTENDS Analysis, FiniteSetTheorems, WellFoundedInduction, TLAPS

-------------------------------------------------------------------------------
(* The operators of the model                                                *)

\* A set of naturals that is not empty has a least element.
LEMMA Smallest ==
  ASSUME NEW S \in SUBSET Nat, S # {}
  PROVE  \E v \in S : \A w \in S : v <= w
<1> DEFINE R == {ss \in Nat \X Nat : ss[1] < ss[2]}
<1>1. IsWellFoundedOn(R, Nat)
  BY NatLessThanWellFounded DEF OpToRel
<1>2. \A v, w \in Nat : w < v => <<w, v>> \in R
  OBVIOUS
<1> HIDE DEF R
<1>3. PICK v \in S : \A w \in S : <<w, v>> \notin R
  BY <1>1, WFMin
<1>4. \A w \in S : v <= w
  <2>1. \A w \in S : ~(w < v)
    BY <1>2, <1>3
  <2>2. QED
    BY <2>1
<1>5. QED
  BY <1>4

\* The rows of the events table have the columns they are used for.
LEMMA EventColumns ==
  ASSUME NEW e \in EventRow
  PROVE  e.id \in Nat \ {0} /\ e.run \in Runs /\ e.fp \in FPs \cup {NoFP}
BY DEF EventRow

\* An extracted fingerprint is one, is not suppressed, and some event shows it.
LEMMA Extracted ==
  ASSUME NEW evs \in SUBSET EventRow, NEW s, NEW fp \in ExtractFingerprintsWith(evs, s)
  PROVE  fp \in FPs /\ fp \notin s /\ \E e \in evs : e.fp = fp
BY EventColumns DEF ExtractFingerprintsWith

\* FirstEvtID is the id of an event of the fingerprint's bucket.
LEMMA FirstIsThere ==
  ASSUME NEW evs \in SUBSET EventRow, NEW fp, \E e \in evs : e.fp = fp
  PROVE  \E e \in evs : e.fp = fp /\ e.id = FirstEvtID(evs, fp)
<1> DEFINE ids == {e.id : e \in {e \in evs : e.fp = fp}}
<1>1. ids \in SUBSET Nat /\ ids # {}
  BY EventColumns
<1>2. PICK i \in ids : \A w \in ids : i <= w
  BY <1>1, Smallest
<1>3. \A e \in evs : e.fp = fp => i <= e.id
  BY <1>2
<1>4. FirstEvtID(evs, fp) \in ids
  BY <1>2, <1>3 DEF FirstEvtID
<1>5. QED
  BY <1>4

\* MergeBaseline, row by row: a row that is there keeps its first run.
LEMMA Merged ==
  ASSUME baseline \in [Packages -> [FPs -> Runs \cup {NoRun}]],
         NEW r \in Runs, PkgOf[r] # NoPkg, NEW fps, MergeBaseline(r, fps)
  PROVE  /\ baseline' \in [Packages -> [FPs -> Runs \cup {NoRun}]]
         /\ \A p \in Packages, fp \in FPs :
               baseline'[p][fp] = IF p = PkgOf[r] /\ fp \in fps /\ baseline[p][fp] = NoRun
                                  THEN r ELSE baseline[p][fp]
<1> DEFINE row == [fp \in FPs |-> IF fp \in fps /\ baseline[PkgOf[r]][fp] = NoRun
                                  THEN r ELSE baseline[PkgOf[r]][fp]]
<1>1. PkgOf[r] \in Packages
  BY PkgOfAssumption
<1>2. baseline' = [baseline EXCEPT ![PkgOf[r]] = row]
  BY DEF MergeBaseline
<1>3. row \in [FPs -> Runs \cup {NoRun}]
  BY <1>1
<1>4. \A fp \in FPs : row[fp] = IF fp \in fps /\ baseline[PkgOf[r]][fp] = NoRun
                                THEN r ELSE baseline[PkgOf[r]][fp]
  OBVIOUS
<1> HIDE DEF row
<1>5. \A p \in Packages : baseline'[p] = IF p = PkgOf[r] THEN row ELSE baseline[p]
  BY <1>1, <1>2
<1>6. QED
  BY <1>1, <1>2, <1>3, <1>4, <1>5

\* The rows AppendEvents inserts.
NewRows(r, b) == {[id |-> nextId + i - 1, run |-> r, fp |-> b[i]] : i \in DOMAIN b}

\* Their types, and the ids they get.
LEMMA Appended ==
  ASSUME nextId \in Nat \ {0}, NEW r \in Runs, NEW b \in Batches
  PROVE  /\ nextId + Len(b) \in Nat \ {0}
         /\ \A e \in NewRows(r, b) : e \in EventRow /\ e.run = r /\ nextId <= e.id /\ e.id < nextId + Len(b)
         /\ \A e, f \in NewRows(r, b) : e.id = f.id => e = f
<1>1. b \in Seq(FPs \cup {NoFP}) /\ Len(b) \in Nat /\ DOMAIN b = 1..Len(b)
  BY BatchAssumption
<1>2. \A i \in DOMAIN b : /\ i \in Nat \ {0} /\ i <= Len(b) /\ b[i] \in FPs \cup {NoFP}
                          /\ nextId + i - 1 \in Nat \ {0}
  BY <1>1
<1>3. \A e \in NewRows(r, b) : \E i \in DOMAIN b : e = [id |-> nextId + i - 1, run |-> r, fp |-> b[i]]
  BY DEF NewRows
<1>4. nextId + Len(b) \in Nat \ {0}
  BY <1>1
<1>5. ASSUME NEW e \in NewRows(r, b)
      PROVE  e \in EventRow /\ e.run = r /\ nextId <= e.id /\ e.id < nextId + Len(b)
  <2>1. PICK i \in DOMAIN b : e = [id |-> nextId + i - 1, run |-> r, fp |-> b[i]]
    BY <1>3
  <2>2. e.id = nextId + i - 1 /\ e.run = r
    BY <2>1
  <2>3. e \in EventRow
    BY <1>2, <2>1 DEF EventRow
  <2>4. nextId <= e.id /\ e.id < nextId + Len(b)
    BY <1>1, <1>2, <2>2
  <2>5. QED
    BY <2>2, <2>3, <2>4
<1>6. ASSUME NEW e \in NewRows(r, b), NEW f \in NewRows(r, b), e.id = f.id
      PROVE  e = f
  <2>1. PICK i \in DOMAIN b : e = [id |-> nextId + i - 1, run |-> r, fp |-> b[i]]
    BY <1>3
  <2>2. PICK k \in DOMAIN b : f = [id |-> nextId + k - 1, run |-> r, fp |-> b[k]]
    BY <1>3
  <2>3. nextId + i - 1 = nextId + k - 1
    BY <1>6, <2>1, <2>2
  <2>4. i \in Nat /\ k \in Nat /\ nextId \in Nat
    BY <1>2
  <2>5. i = k
    BY <2>3, <2>4
  <2>6. QED
    BY <2>1, <2>2, <2>5
<1>7. QED
  BY <1>4, <1>5, <1>6

\* The rows WriteDeviations inserts.
Findings(c) ==
    {[id |-> written + 1, run |-> crun[c], fp |-> fp,
      evidence |-> FirstEvtID(cevs[c], fp)] : fp \in Novel(c)}

\* What one analysis writes: one row per new fingerprint, with an event it has
\* read as evidence.
LEMMA Written ==
  ASSUME DifferTypes, written \in Nat, NEW c \in Callers, cpc[c] = "write"
  PROVE  /\ \A d \in Findings(c) : /\ d \in DeviationRow /\ d.run = crun[c] /\ d.fp \in Novel(c)
                            /\ \E e \in cevs[c] : e.id = d.evidence /\ e.fp = d.fp
         /\ \A d1, d2 \in Findings(c) : d1.fp = d2.fp => d1 = d2
         /\ \A fp \in Novel(c) : \E d \in Findings(c) : d.fp = fp
<1>1. crun[c] \in Runs /\ cevs[c] \in SUBSET EventRow
  BY DEF DifferTypes
<1>2. ASSUME NEW fp \in Novel(c)
      PROVE  fp \in FPs /\ \E e \in cevs[c] : e.id = FirstEvtID(cevs[c], fp) /\ e.fp = fp
  <2>1. fp \in ExtractFingerprintsWith(cevs[c], callow[c])
    BY DEF Novel, RunFPs
  <2>2. fp \in FPs /\ \E e \in cevs[c] : e.fp = fp
    BY <1>1, <2>1, Extracted
  <2>3. QED
    BY <1>1, <2>2, FirstIsThere
<1>3. ASSUME NEW d \in Findings(c)
      PROVE  /\ d \in DeviationRow /\ d.run = crun[c] /\ d.fp \in Novel(c)
             /\ \E e \in cevs[c] : e.id = d.evidence /\ e.fp = d.fp
  <2>1. PICK fp \in Novel(c) : d = [id |-> written + 1, run |-> crun[c], fp |-> fp,
                                    evidence |-> FirstEvtID(cevs[c], fp)]
    BY DEF Findings
  <2>2. PICK e \in cevs[c] : e.id = FirstEvtID(cevs[c], fp) /\ e.fp = fp
    BY <1>2
  <2>3. e.id \in Nat
    BY <1>1, EventColumns
  <2>4. d \in DeviationRow
    BY <1>1, <1>2, <2>1, <2>2, <2>3 DEF DeviationRow
  <2>5. d.run = crun[c] /\ d.fp = fp /\ d.evidence = e.id
    BY <2>1, <2>2
  <2>6. QED
    BY <2>2, <2>4, <2>5
<1>4. ASSUME NEW d1 \in Findings(c), NEW d2 \in Findings(c), d1.fp = d2.fp
      PROVE  d1 = d2
  BY <1>4 DEF Findings
<1>5. ASSUME NEW fp \in Novel(c)
      PROVE  \E d \in Findings(c) : d.fp = fp
  <2> DEFINE d == [id |-> written + 1, run |-> crun[c], fp |-> fp,
                   evidence |-> FirstEvtID(cevs[c], fp)]
  <2>1. d \in Findings(c)
    BY DEF Findings
  <2>2. d.fp = fp
    OBVIOUS
  <2>3. QED
    BY <2>1, <2>2
<1>6. QED
  BY <1>3, <1>4, <1>5

-------------------------------------------------------------------------------
(* Types                                                                     *)

\* ListEventsByRun returns rows of the table, and of one run.
LEMMA ListType ==
  ASSUME events \subseteq EventRow, NEW r
  PROVE  ListEventsByRun(r) \subseteq EventRow
BY DEF ListEventsByRun, EventsOf

\* The filter of a package holds fingerprints.
LEMMA SuppressedType ==
  ASSUME NEW s, NEW p
  PROVE  Suppressed(s, p) \subseteq FPs
BY DEF Suppressed

\* The tables keep their types.
LEMMA DbTypesStep ==
  ASSUME DbTypes, DifferTypes, OperatorTypes, HistoryTypes, [Next]_vars
  PROVE  DbTypes'
<1> USE DEF DbTypes, db
<1>1. ASSUME NEW r \in Runs, NEW b \in Batches, PostEvents(r, b)
      PROVE  DbTypes'
  <2>1. /\ nextId + Len(b) \in Nat \ {0}
        /\ \A e \in NewRows(r, b) : e \in EventRow
    BY Appended
  <2>2. \/ events' = events \cup NewRows(r, b) /\ nextId' = nextId + Len(b)
        \/ UNCHANGED <<events, nextId>>
    BY <1>1 DEF PostEvents, NewRows
  <2>3. UNCHANGED <<baseline, deviations, isBaseline, state, allow, retired>>
    BY <1>1 DEF PostEvents
  <2>4. QED
    BY <2>1, <2>2, <2>3
<1>2. ASSUME NEW r \in Runs, FinishPost(r)
      PROVE  DbTypes'
  BY <1>2 DEF FinishPost, RunStates
<1>3. ASSUME NEW r \in Runs, NEW final \in Results, ScanResult(r, final)
      PROVE  DbTypes'
  BY <1>3, ResultsAssumption DEF ScanResult, RunStates
<1>4. ASSUME NEW r \in Runs, NEW c \in Callers, Fire(r, c)
      PROVE  DbTypes'
  BY <1>4 DEF Fire
<1>5. ASSUME NEW r \in Runs, Retire(r)
      PROVE  DbTypes'
  BY <1>5 DEF Retire
<1>6. ASSUME NEW c \in Callers, AnalyzeList(c)
      PROVE  DbTypes'
  BY <1>6 DEF AnalyzeList
<1>7. ASSUME NEW c \in Callers, AnalyzeAllow(c)
      PROVE  DbTypes'
  BY <1>7 DEF AnalyzeAllow
<1>8. ASSUME NEW c \in Callers, AnalyzeBase(c)
      PROVE  DbTypes'
  BY <1>8 DEF AnalyzeBase
<1>9. ASSUME NEW c \in Callers, SeedBaseline(c)
      PROVE  DbTypes'
  <2>1. crun[c] \in Runs /\ PkgOf[crun[c]] # NoPkg
    BY <1>9 DEF SeedBaseline, DifferTypes
  <2>2. baseline' \in [Packages -> [FPs -> Runs \cup {NoRun}]]
    BY <1>9, <2>1, Merged DEF SeedBaseline
  <2>3. QED
    BY <1>9, <2>2 DEF SeedBaseline
<1>10. ASSUME NEW c \in Callers, SeedMark(c)
      PROVE  DbTypes'
  BY <1>10 DEF SeedMark, DifferTypes
<1>11. ASSUME NEW c \in Callers, ClearOld(c)
      PROVE  DbTypes'
  BY <1>11 DEF ClearOld, DeleteDeviationsForRun
<1>12. ASSUME NEW c \in Callers, WriteDeviations(c)
      PROVE  DbTypes'
  <2>1. \A d \in Findings(c) : d \in DeviationRow
    BY <1>12, Written DEF WriteDeviations, HistoryTypes
  <2>2. deviations' = deviations \cup Findings(c) \/ UNCHANGED deviations
    BY <1>12 DEF WriteDeviations, Findings
  <2>3. UNCHANGED <<events, nextId, baseline, isBaseline, state, allow, retired>>
    BY <1>12 DEF WriteDeviations
  <2>4. QED
    BY <2>1, <2>2, <2>3
<1>13. ASSUME NEW c \in Callers, BumpBaseline(c)
      PROVE  DbTypes'
  <2>1. crun[c] \in Runs /\ PkgOf[crun[c]] # NoPkg
    BY <1>13 DEF BumpBaseline, DifferTypes
  <2>2. baseline' \in [Packages -> [FPs -> Runs \cup {NoRun}]]
    BY <1>13, <2>1, Merged DEF BumpBaseline
  <2>3. QED
    BY <1>13, <2>2 DEF BumpBaseline
<1>14. ASSUME NEW c \in Callers, AutoPromote(c)
      PROVE  DbTypes'
  BY <1>14 DEF AutoPromote, DifferTypes
<1>15. ASSUME NEW c \in Callers, Finish(c)
      PROVE  DbTypes'
  BY <1>15 DEF Finish
<1>16. ASSUME NEW c \in Callers, FinishFound(c)
      PROVE  DbTypes'
  BY <1>16 DEF FinishFound
<1>17. ASSUME NEW c \in Callers, Notify(c)
      PROVE  DbTypes'
  BY <1>17 DEF Notify
<1>18. ASSUME NEW r \in Promotable, PromoteStart(r)
      PROVE  DbTypes'
  BY <1>18 DEF PromoteStart
<1>19. CASE PromoteAllow
  BY <1>19 DEF PromoteAllow
<1>20. CASE PromoteMerge
  <2>1. orun \in Runs /\ PkgOf[orun] # NoPkg
    BY <1>20 DEF PromoteMerge, OperatorTypes
  <2>2. baseline' \in [Packages -> [FPs -> Runs \cup {NoRun}]]
    BY <1>20, <2>1, Merged DEF PromoteMerge
  <2>3. QED
    BY <1>20, <2>2 DEF PromoteMerge
<1>21. CASE PromoteMark
  BY <1>21 DEF PromoteMark, OperatorTypes
<1>22. CASE PromoteClear
  BY <1>22 DEF PromoteClear, DeleteDeviationsForRun
<1>23. ASSUME NEW entry \in AllowEntries, AllowAdd(entry)
      PROVE  DbTypes'
  BY <1>23 DEF AllowAdd
<1>24. ASSUME NEW entry \in AllowEntries, AllowRemove(entry)
      PROVE  DbTypes'
  BY <1>24 DEF AllowRemove
<1>25. ASSUME NEW cutoff \in 1..nextId, PruneEvents(cutoff)
      PROVE  DbTypes'
  BY <1>25 DEF PruneEvents
<1>26. CASE Restart
  BY <1>26 DEF Restart
<1>27. CASE UNCHANGED vars
  BY <1>27 DEF vars
<1>28. QED
  <2> HIDE DEF DbTypes
  <2> QED
    BY <1>1, <1>2, <1>3, <1>4, <1>5, <1>6, <1>7, <1>8, <1>9, <1>10, <1>11,
        <1>12, <1>13, <1>14, <1>15, <1>16, <1>17, <1>18, <1>19, <1>20, <1>21,
        <1>22, <1>23, <1>24, <1>25, <1>26, <1>27
       DEF Next, AnalyzeStep, PromoteStep

\* The debounce state keeps its types.
LEMMA ServerTypesStep ==
  ASSUME ServerTypes, DifferTypes, [Next]_vars
  PROVE  ServerTypes'
<1> USE DEF ServerTypes, server
<1>1. ASSUME NEW r \in Runs, NEW b \in Batches, PostEvents(r, b)
      PROVE  ServerTypes'
  BY <1>1 DEF PostEvents
<1>2. ASSUME NEW r \in Runs, FinishPost(r)
      PROVE  ServerTypes'
  BY <1>2 DEF FinishPost, ScheduleDiffer
<1>3. ASSUME NEW r \in Runs, NEW final \in Results, ScanResult(r, final)
      PROVE  ServerTypes'
  BY <1>3 DEF ScanResult
<1>4. ASSUME NEW r \in Runs, NEW c \in Callers, Fire(r, c)
      PROVE  ServerTypes'
  BY <1>4 DEF Fire
<1>5. ASSUME NEW r \in Runs, Retire(r)
      PROVE  ServerTypes'
  BY <1>5 DEF Retire
<1>6. ASSUME NEW c \in Callers, AnalyzeList(c)
      PROVE  ServerTypes'
  BY <1>6 DEF AnalyzeList
<1>7. ASSUME NEW c \in Callers, AnalyzeAllow(c)
      PROVE  ServerTypes'
  BY <1>7 DEF AnalyzeAllow
<1>8. ASSUME NEW c \in Callers, AnalyzeBase(c)
      PROVE  ServerTypes'
  BY <1>8 DEF AnalyzeBase
<1>9. ASSUME NEW c \in Callers, SeedBaseline(c)
      PROVE  ServerTypes'
  BY <1>9 DEF SeedBaseline
<1>10. ASSUME NEW c \in Callers, SeedMark(c)
      PROVE  ServerTypes'
  BY <1>10 DEF SeedMark
<1>11. ASSUME NEW c \in Callers, ClearOld(c)
      PROVE  ServerTypes'
  BY <1>11 DEF ClearOld
<1>12. ASSUME NEW c \in Callers, WriteDeviations(c)
      PROVE  ServerTypes'
  BY <1>12 DEF WriteDeviations
<1>13. ASSUME NEW c \in Callers, BumpBaseline(c)
      PROVE  ServerTypes'
  BY <1>13 DEF BumpBaseline
<1>14. ASSUME NEW c \in Callers, AutoPromote(c)
      PROVE  ServerTypes'
  BY <1>14 DEF AutoPromote
<1>15. ASSUME NEW c \in Callers, Finish(c)
      PROVE  ServerTypes'
  <2>1. crun[c] \in Runs
    BY <1>15 DEF Finish, DifferTypes
  <2>2. QED
    BY <1>15, <2>1 DEF Finish, UnmapTimer
<1>16. ASSUME NEW c \in Callers, FinishFound(c)
      PROVE  ServerTypes'
  <2>1. crun[c] \in Runs
    BY <1>16 DEF FinishFound, DifferTypes
  <2>2. QED
    BY <1>16, <2>1 DEF FinishFound, UnmapTimer
<1>17. ASSUME NEW c \in Callers, Notify(c)
      PROVE  ServerTypes'
  BY <1>17 DEF Notify
<1>18. ASSUME NEW r \in Promotable, PromoteStart(r)
      PROVE  ServerTypes'
  BY <1>18 DEF PromoteStart
<1>19. CASE PromoteAllow
  BY <1>19 DEF PromoteAllow
<1>20. CASE PromoteMerge
  BY <1>20 DEF PromoteMerge
<1>21. CASE PromoteMark
  BY <1>21 DEF PromoteMark
<1>22. CASE PromoteClear
  BY <1>22 DEF PromoteClear
<1>23. ASSUME NEW entry \in AllowEntries, AllowAdd(entry)
      PROVE  ServerTypes'
  BY <1>23 DEF AllowAdd
<1>24. ASSUME NEW entry \in AllowEntries, AllowRemove(entry)
      PROVE  ServerTypes'
  BY <1>24 DEF AllowRemove
<1>25. ASSUME NEW cutoff \in 1..nextId, PruneEvents(cutoff)
      PROVE  ServerTypes'
  BY <1>25 DEF PruneEvents
<1>26. CASE Restart
  BY <1>26 DEF Restart
<1>27. CASE UNCHANGED vars
  BY <1>27 DEF vars
<1>28. QED
  <2> HIDE DEF ServerTypes
  <2> QED
    BY <1>1, <1>2, <1>3, <1>4, <1>5, <1>6, <1>7, <1>8, <1>9, <1>10, <1>11,
        <1>12, <1>13, <1>14, <1>15, <1>16, <1>17, <1>18, <1>19, <1>20, <1>21,
        <1>22, <1>23, <1>24, <1>25, <1>26, <1>27
       DEF Next, AnalyzeStep, PromoteStep

\* The callbacks keep their types; an analysis that goes on has a package.
LEMMA DifferTypesStep ==
  ASSUME DbTypes, DifferTypes, [Next]_vars
  PROVE  DifferTypes'
<1> USE NullsAssumption DEF DifferTypes, CallerPC, differ
<1>1. ASSUME NEW r \in Runs, NEW b \in Batches, PostEvents(r, b)
      PROVE  DifferTypes'
  BY <1>1 DEF PostEvents
<1>2. ASSUME NEW r \in Runs, FinishPost(r)
      PROVE  DifferTypes'
  BY <1>2 DEF FinishPost, ScheduleDiffer
<1>3. ASSUME NEW r \in Runs, NEW final \in Results, ScanResult(r, final)
      PROVE  DifferTypes'
  BY <1>3 DEF ScanResult
<1>4. ASSUME NEW r \in Runs, NEW c \in Callers, Fire(r, c)
      PROVE  DifferTypes'
  BY <1>4 DEF Fire
<1>5. ASSUME NEW r \in Runs, Retire(r)
      PROVE  DifferTypes'
  BY <1>5 DEF Retire
<1>6. ASSUME NEW c \in Callers, AnalyzeList(c)
      PROVE  DifferTypes'
  BY <1>6, ListType DEF AnalyzeList, Goto, DbTypes
<1>7. ASSUME NEW c \in Callers, AnalyzeAllow(c)
      PROVE  DifferTypes'
  BY <1>7, SuppressedType DEF AnalyzeAllow, Goto
<1>8. ASSUME NEW c \in Callers, AnalyzeBase(c)
      PROVE  DifferTypes'
  <2>1. LoadBaseline(PkgOf[crun[c]]) \subseteq FPs
    BY DEF LoadBaseline
  <2>2. QED
    BY <1>8, <2>1 DEF AnalyzeBase, Goto
<1>9. ASSUME NEW c \in Callers, SeedBaseline(c)
      PROVE  DifferTypes'
  BY <1>9 DEF SeedBaseline, Goto
<1>10. ASSUME NEW c \in Callers, SeedMark(c)
      PROVE  DifferTypes'
  BY <1>10 DEF SeedMark, Goto
<1>11. ASSUME NEW c \in Callers, ClearOld(c)
      PROVE  DifferTypes'
  BY <1>11 DEF ClearOld, Goto
<1>12. ASSUME NEW c \in Callers, WriteDeviations(c)
      PROVE  DifferTypes'
  BY <1>12 DEF WriteDeviations, Goto
<1>13. ASSUME NEW c \in Callers, BumpBaseline(c)
      PROVE  DifferTypes'
  BY <1>13 DEF BumpBaseline, Goto
<1>14. ASSUME NEW c \in Callers, AutoPromote(c)
      PROVE  DifferTypes'
  BY <1>14 DEF AutoPromote, Goto
<1>15. ASSUME NEW c \in Callers, Finish(c)
      PROVE  DifferTypes'
  BY <1>15 DEF Finish, CallbackReturns, Goto, UnmapTimer
<1>16. ASSUME NEW c \in Callers, FinishFound(c)
      PROVE  DifferTypes'
  BY <1>16 DEF FinishFound, Goto, UnmapTimer
<1>17. ASSUME NEW c \in Callers, Notify(c)
      PROVE  DifferTypes'
  BY <1>17 DEF Notify, CallbackReturns, Goto
<1>18. ASSUME NEW r \in Promotable, PromoteStart(r)
      PROVE  DifferTypes'
  BY <1>18 DEF PromoteStart
<1>19. CASE PromoteAllow
  BY <1>19 DEF PromoteAllow
<1>20. CASE PromoteMerge
  BY <1>20 DEF PromoteMerge, PromoteReset
<1>21. CASE PromoteMark
  BY <1>21 DEF PromoteMark, PromoteReset
<1>22. CASE PromoteClear
  BY <1>22 DEF PromoteClear, PromoteReset
<1>23. ASSUME NEW entry \in AllowEntries, AllowAdd(entry)
      PROVE  DifferTypes'
  BY <1>23 DEF AllowAdd
<1>24. ASSUME NEW entry \in AllowEntries, AllowRemove(entry)
      PROVE  DifferTypes'
  BY <1>24 DEF AllowRemove
<1>25. ASSUME NEW cutoff \in 1..nextId, PruneEvents(cutoff)
      PROVE  DifferTypes'
  BY <1>25 DEF PruneEvents
<1>26. CASE Restart
  BY <1>26 DEF Restart
<1>27. CASE UNCHANGED vars
  BY <1>27 DEF vars
<1>28. QED
  <2> HIDE DEF DifferTypes
  <2> QED
    BY <1>1, <1>2, <1>3, <1>4, <1>5, <1>6, <1>7, <1>8, <1>9, <1>10, <1>11,
        <1>12, <1>13, <1>14, <1>15, <1>16, <1>17, <1>18, <1>19, <1>20, <1>21,
        <1>22, <1>23, <1>24, <1>25, <1>26, <1>27
       DEF Next, AnalyzeStep, PromoteStep

\* The promotion keeps its types; the run it promotes has a package.
LEMMA OperatorTypesStep ==
  ASSUME DbTypes, OperatorTypes, [Next]_vars
  PROVE  OperatorTypes'
<1> USE NullsAssumption DEF OperatorTypes, OperatorPC, operator
<1>1. ASSUME NEW r \in Runs, NEW b \in Batches, PostEvents(r, b)
      PROVE  OperatorTypes'
  BY <1>1 DEF PostEvents
<1>2. ASSUME NEW r \in Runs, FinishPost(r)
      PROVE  OperatorTypes'
  BY <1>2 DEF FinishPost
<1>3. ASSUME NEW r \in Runs, NEW final \in Results, ScanResult(r, final)
      PROVE  OperatorTypes'
  BY <1>3 DEF ScanResult
<1>4. ASSUME NEW r \in Runs, NEW c \in Callers, Fire(r, c)
      PROVE  OperatorTypes'
  BY <1>4 DEF Fire
<1>5. ASSUME NEW r \in Runs, Retire(r)
      PROVE  OperatorTypes'
  BY <1>5 DEF Retire
<1>6. ASSUME NEW c \in Callers, AnalyzeList(c)
      PROVE  OperatorTypes'
  BY <1>6 DEF AnalyzeList
<1>7. ASSUME NEW c \in Callers, AnalyzeAllow(c)
      PROVE  OperatorTypes'
  BY <1>7 DEF AnalyzeAllow
<1>8. ASSUME NEW c \in Callers, AnalyzeBase(c)
      PROVE  OperatorTypes'
  BY <1>8 DEF AnalyzeBase
<1>9. ASSUME NEW c \in Callers, SeedBaseline(c)
      PROVE  OperatorTypes'
  BY <1>9 DEF SeedBaseline
<1>10. ASSUME NEW c \in Callers, SeedMark(c)
      PROVE  OperatorTypes'
  BY <1>10 DEF SeedMark
<1>11. ASSUME NEW c \in Callers, ClearOld(c)
      PROVE  OperatorTypes'
  BY <1>11 DEF ClearOld
<1>12. ASSUME NEW c \in Callers, WriteDeviations(c)
      PROVE  OperatorTypes'
  BY <1>12 DEF WriteDeviations
<1>13. ASSUME NEW c \in Callers, BumpBaseline(c)
      PROVE  OperatorTypes'
  BY <1>13 DEF BumpBaseline
<1>14. ASSUME NEW c \in Callers, AutoPromote(c)
      PROVE  OperatorTypes'
  BY <1>14 DEF AutoPromote
<1>15. ASSUME NEW c \in Callers, Finish(c)
      PROVE  OperatorTypes'
  BY <1>15 DEF Finish
<1>16. ASSUME NEW c \in Callers, FinishFound(c)
      PROVE  OperatorTypes'
  BY <1>16 DEF FinishFound
<1>17. ASSUME NEW c \in Callers, Notify(c)
      PROVE  OperatorTypes'
  BY <1>17 DEF Notify
<1>18. ASSUME NEW r \in Promotable, PromoteStart(r)
      PROVE  OperatorTypes'
  BY <1>18, ListType, PromotableAssumption DEF PromoteStart, DbTypes
<1>19. CASE PromoteAllow
  BY <1>19, SuppressedType DEF PromoteAllow
<1>20. CASE PromoteMerge
  BY <1>20 DEF PromoteMerge, PromoteReset
<1>21. CASE PromoteMark
  BY <1>21 DEF PromoteMark, PromoteReset
<1>22. CASE PromoteClear
  BY <1>22 DEF PromoteClear, PromoteReset
<1>23. ASSUME NEW entry \in AllowEntries, AllowAdd(entry)
      PROVE  OperatorTypes'
  BY <1>23 DEF AllowAdd
<1>24. ASSUME NEW entry \in AllowEntries, AllowRemove(entry)
      PROVE  OperatorTypes'
  BY <1>24 DEF AllowRemove
<1>25. ASSUME NEW cutoff \in 1..nextId, PruneEvents(cutoff)
      PROVE  OperatorTypes'
  BY <1>25 DEF PruneEvents
<1>26. CASE Restart
  BY <1>26 DEF Restart
<1>27. CASE UNCHANGED vars
  BY <1>27 DEF vars
<1>28. QED
  <2> HIDE DEF OperatorTypes
  <2> QED
    BY <1>1, <1>2, <1>3, <1>4, <1>5, <1>6, <1>7, <1>8, <1>9, <1>10, <1>11,
        <1>12, <1>13, <1>14, <1>15, <1>16, <1>17, <1>18, <1>19, <1>20, <1>21,
        <1>22, <1>23, <1>24, <1>25, <1>26, <1>27
       DEF Next, AnalyzeStep, PromoteStep

\* The history keeps its types.
LEMMA HistoryTypesStep ==
  ASSUME HistoryTypes, DifferTypes, [Next]_vars
  PROVE  HistoryTypes'
<1> USE DEF HistoryTypes, history
<1>1. ASSUME NEW r \in Runs, NEW b \in Batches, PostEvents(r, b)
      PROVE  HistoryTypes'
  BY <1>1 DEF PostEvents
<1>2. ASSUME NEW r \in Runs, FinishPost(r)
      PROVE  HistoryTypes'
  BY <1>2 DEF FinishPost
<1>3. ASSUME NEW r \in Runs, NEW final \in Results, ScanResult(r, final)
      PROVE  HistoryTypes'
  BY <1>3 DEF ScanResult
<1>4. ASSUME NEW r \in Runs, NEW c \in Callers, Fire(r, c)
      PROVE  HistoryTypes'
  BY <1>4 DEF Fire
<1>5. ASSUME NEW r \in Runs, Retire(r)
      PROVE  HistoryTypes'
  BY <1>5 DEF Retire
<1>6. ASSUME NEW c \in Callers, AnalyzeList(c)
      PROVE  HistoryTypes'
  BY <1>6 DEF AnalyzeList
<1>7. ASSUME NEW c \in Callers, AnalyzeAllow(c)
      PROVE  HistoryTypes'
  BY <1>7 DEF AnalyzeAllow
<1>8. ASSUME NEW c \in Callers, AnalyzeBase(c)
      PROVE  HistoryTypes'
  BY <1>8 DEF AnalyzeBase
<1>9. ASSUME NEW c \in Callers, SeedBaseline(c)
      PROVE  HistoryTypes'
  BY <1>9 DEF SeedBaseline
<1>10. ASSUME NEW c \in Callers, SeedMark(c)
      PROVE  HistoryTypes'
  BY <1>10 DEF SeedMark
<1>11. ASSUME NEW c \in Callers, ClearOld(c)
      PROVE  HistoryTypes'
  BY <1>11 DEF ClearOld
<1>12. ASSUME NEW c \in Callers, WriteDeviations(c)
      PROVE  HistoryTypes'
  BY <1>12 DEF WriteDeviations
<1>13. ASSUME NEW c \in Callers, BumpBaseline(c)
      PROVE  HistoryTypes'
  BY <1>13 DEF BumpBaseline
<1>14. ASSUME NEW c \in Callers, AutoPromote(c)
      PROVE  HistoryTypes'
  BY <1>14 DEF AutoPromote
<1>15. ASSUME NEW c \in Callers, Finish(c)
      PROVE  HistoryTypes'
  BY <1>15 DEF Finish
<1>16. ASSUME NEW c \in Callers, FinishFound(c)
      PROVE  HistoryTypes'
  BY <1>16 DEF FinishFound
<1>17. ASSUME NEW c \in Callers, Notify(c)
      PROVE  HistoryTypes'
  BY <1>17 DEF Notify, DifferTypes
<1>18. ASSUME NEW r \in Promotable, PromoteStart(r)
      PROVE  HistoryTypes'
  BY <1>18 DEF PromoteStart
<1>19. CASE PromoteAllow
  BY <1>19 DEF PromoteAllow
<1>20. CASE PromoteMerge
  BY <1>20 DEF PromoteMerge
<1>21. CASE PromoteMark
  BY <1>21 DEF PromoteMark
<1>22. CASE PromoteClear
  BY <1>22 DEF PromoteClear
<1>23. ASSUME NEW entry \in AllowEntries, AllowAdd(entry)
      PROVE  HistoryTypes'
  BY <1>23 DEF AllowAdd
<1>24. ASSUME NEW entry \in AllowEntries, AllowRemove(entry)
      PROVE  HistoryTypes'
  BY <1>24 DEF AllowRemove
<1>25. ASSUME NEW cutoff \in 1..nextId, PruneEvents(cutoff)
      PROVE  HistoryTypes'
  BY <1>25 DEF PruneEvents
<1>26. CASE Restart
  BY <1>26 DEF Restart
<1>27. CASE UNCHANGED vars
  BY <1>27 DEF vars
<1>28. QED
  <2> HIDE DEF HistoryTypes
  <2> QED
    BY <1>1, <1>2, <1>3, <1>4, <1>5, <1>6, <1>7, <1>8, <1>9, <1>10, <1>11,
        <1>12, <1>13, <1>14, <1>15, <1>16, <1>17, <1>18, <1>19, <1>20, <1>21,
        <1>22, <1>23, <1>24, <1>25, <1>26, <1>27
       DEF Next, AnalyzeStep, PromoteStep

\* Types hold at the start.
LEMMA InitTypes == Init => TypeOK
BY NullsAssumption DEF Init, TypeOK, DbTypes, ServerTypes, DifferTypes, OperatorTypes, HistoryTypes,
   RunStates, CallerPC, OperatorPC

\* Every step preserves them.
LEMMA TypeStep ==
  ASSUME TypeOK, [Next]_vars
  PROVE  TypeOK'
BY DbTypesStep, ServerTypesStep, DifferTypesStep, OperatorTypesStep, HistoryTypesStep DEF TypeOK

\* No action of the server, the analyses, the operator or retention leaves the
\* types.
THEOREM TypeCorrect == Spec => []TypeOK
BY InitTypes, TypeStep, PTL DEF Spec

-------------------------------------------------------------------------------
(* Events and evidence.  EvidenceHolds is not inductive: WriteDeviations takes  *)
(* the evidence from the events its analysis read some steps ago, so that the   *)
(* invariant has to say that those rows are still what the store holds under    *)
(* their ids, if it holds anything.                                             *)

\* Steps of an analysis that has read the events of its run.
Reading == CallerPC \ {"idle", "list", "finish"}

\* The ids that come before i in ListEventsByRun's order.
Older(r, i) == {f.id : f \in {g \in EventsOf(r) : g.id < i}}
Listed(r, i) == Cardinality(Older(r, i)) < EventLimit

\* An id names one event, and new ids are larger than all old ones.
IdsInv ==
    /\ \A e \in events : e.id < nextId
    /\ \A e, f \in events : e.id = f.id => e = f

\* What an analysis has read stays what the store says under the same id.
ReadInv ==
    \A c \in Callers : cpc[c] \in Reading =>
        \A e \in cevs[c] :
            /\ e.id < nextId /\ e.run = crun[c] /\ Listed(crun[c], e.id)
            /\ \A f \in events : f.id = e.id => f = e

\* The evidence of a deviation is an event that every later read of the run's
\* events returns.
EvidenceInv ==
    \A d \in deviations :
        /\ \E e \in events : e.id = d.evidence /\ e.run = d.run /\ e.fp = d.fp
        /\ Listed(d.run, d.evidence)

\* AppendEvents is the only source of events, and its ids are new.
NewIds ==
    /\ nextId' \in Nat /\ nextId <= nextId'
    /\ \A e \in events' :
          e \in events \/ (nextId <= e.id /\ e.id < nextId' /\ e.run \in posting')
    /\ \A e, f \in events' : e.id = f.id => e = f \/ e \in events \/ f \in events

\* What a step does to the events table.
LEMMA EventsStep ==
  ASSUME DbTypes, [Next]_vars
  PROVE  NewIds
<1> USE DEF NewIds, db
<1> SUFFICES ASSUME nextId \in Nat
             PROVE  NewIds
  BY DEF DbTypes
<1>1. ASSUME NEW r \in Runs, NEW b \in Batches, PostEvents(r, b)
      PROVE  NewIds
  <2>1. /\ nextId + Len(b) \in Nat \ {0}
        /\ \A e \in NewRows(r, b) : nextId <= e.id /\ e.id < nextId + Len(b) /\ e.run = r
        /\ \A e, f \in NewRows(r, b) : e.id = f.id => e = f
    BY Appended DEF DbTypes
  <2>2. \/ events' = events \cup NewRows(r, b) /\ nextId' = nextId + Len(b)
        \/ UNCHANGED <<events, nextId>>
    BY <1>1 DEF PostEvents, NewRows
  <2>3. r \in posting'
    BY <1>1 DEF PostEvents
  <2>4. nextId <= nextId + Len(b)
    BY BatchAssumption
  <2>5. QED
    BY <2>1, <2>2, <2>3, <2>4
<1>2. ASSUME NEW r \in Runs, FinishPost(r)
      PROVE  NewIds
  BY <1>2 DEF FinishPost
<1>3. ASSUME NEW r \in Runs, NEW final \in Results, ScanResult(r, final)
      PROVE  NewIds
  BY <1>3 DEF ScanResult
<1>4. ASSUME NEW r \in Runs, NEW c \in Callers, Fire(r, c)
      PROVE  NewIds
  BY <1>4 DEF Fire
<1>5. ASSUME NEW r \in Runs, Retire(r)
      PROVE  NewIds
  BY <1>5 DEF Retire
<1>6. ASSUME NEW c \in Callers, AnalyzeList(c)
      PROVE  NewIds
  BY <1>6 DEF AnalyzeList
<1>7. ASSUME NEW c \in Callers, AnalyzeAllow(c)
      PROVE  NewIds
  BY <1>7 DEF AnalyzeAllow
<1>8. ASSUME NEW c \in Callers, AnalyzeBase(c)
      PROVE  NewIds
  BY <1>8 DEF AnalyzeBase
<1>9. ASSUME NEW c \in Callers, SeedBaseline(c)
      PROVE  NewIds
  BY <1>9 DEF SeedBaseline
<1>10. ASSUME NEW c \in Callers, SeedMark(c)
      PROVE  NewIds
  BY <1>10 DEF SeedMark
<1>11. ASSUME NEW c \in Callers, ClearOld(c)
      PROVE  NewIds
  BY <1>11 DEF ClearOld
<1>12. ASSUME NEW c \in Callers, WriteDeviations(c)
      PROVE  NewIds
  BY <1>12 DEF WriteDeviations
<1>13. ASSUME NEW c \in Callers, BumpBaseline(c)
      PROVE  NewIds
  BY <1>13 DEF BumpBaseline
<1>14. ASSUME NEW c \in Callers, AutoPromote(c)
      PROVE  NewIds
  BY <1>14 DEF AutoPromote
<1>15. ASSUME NEW c \in Callers, Finish(c)
      PROVE  NewIds
  BY <1>15 DEF Finish
<1>16. ASSUME NEW c \in Callers, FinishFound(c)
      PROVE  NewIds
  BY <1>16 DEF FinishFound
<1>17. ASSUME NEW c \in Callers, Notify(c)
      PROVE  NewIds
  BY <1>17 DEF Notify
<1>18. ASSUME NEW r \in Promotable, PromoteStart(r)
      PROVE  NewIds
  BY <1>18 DEF PromoteStart
<1>19. CASE PromoteAllow
  BY <1>19 DEF PromoteAllow
<1>20. CASE PromoteMerge
  BY <1>20 DEF PromoteMerge
<1>21. CASE PromoteMark
  BY <1>21 DEF PromoteMark
<1>22. CASE PromoteClear
  BY <1>22 DEF PromoteClear
<1>23. ASSUME NEW entry \in AllowEntries, AllowAdd(entry)
      PROVE  NewIds
  BY <1>23 DEF AllowAdd
<1>24. ASSUME NEW entry \in AllowEntries, AllowRemove(entry)
      PROVE  NewIds
  BY <1>24 DEF AllowRemove
<1>25. ASSUME NEW cutoff \in 1..nextId, PruneEvents(cutoff)
      PROVE  NewIds
  BY <1>25 DEF PruneEvents
<1>26. CASE Restart
  BY <1>26 DEF Restart
<1>27. CASE UNCHANGED vars
  BY <1>27 DEF vars
<1>28. QED
  <2> HIDE DEF NewIds
  <2> QED
    BY <1>1, <1>2, <1>3, <1>4, <1>5, <1>6, <1>7, <1>8, <1>9, <1>10, <1>11,
        <1>12, <1>13, <1>14, <1>15, <1>16, <1>17, <1>18, <1>19, <1>20, <1>21,
        <1>22, <1>23, <1>24, <1>25, <1>26, <1>27
       DEF Next, AnalyzeStep, PromoteStep

\* The uniqueness of event ids is preserved.
LEMMA IdsStep ==
  ASSUME DbTypes, IdsInv, [Next]_vars
  PROVE  IdsInv'
<1>1. NewIds
  BY EventsStep
<1>2. \A e \in events : e.id \in Nat
  BY EventColumns DEF DbTypes
<1>3. nextId \in Nat
  BY DEF DbTypes
<1>4. ASSUME NEW e \in events'
      PROVE  e.id < nextId'
  <2>1. CASE e \in events
    <3>1. e.id < nextId /\ e.id \in Nat
      BY <1>2, <2>1 DEF IdsInv
    <3>2. nextId' \in Nat /\ nextId <= nextId'
      BY <1>1 DEF NewIds
    <3>3. QED
      BY <1>3, <3>1, <3>2
  <2>2. CASE e \notin events
    BY <1>1, <2>2 DEF NewIds
  <2>3. QED
    BY <2>1, <2>2
<1>5. ASSUME NEW e \in events', NEW f \in events', e.id = f.id
      PROVE  e = f
  <2>1. CASE e \in events /\ f \in events
    BY <1>5, <2>1 DEF IdsInv
  <2>2. CASE e \notin events /\ f \notin events
    BY <1>1, <1>5, <2>2 DEF NewIds
  <2>3. CASE e \in events /\ f \notin events
    <3>1. e.id < nextId /\ e.id \in Nat
      BY <1>2, <2>3 DEF IdsInv
    <3>2. nextId <= f.id
      BY <1>1, <2>3 DEF NewIds
    <3>3. QED
      BY <1>3, <1>5, <3>1, <3>2
  <2>4. CASE e \notin events /\ f \in events
    <3>1. f.id < nextId /\ f.id \in Nat
      BY <1>2, <2>4 DEF IdsInv
    <3>2. nextId <= e.id
      BY <1>1, <2>4 DEF NewIds
    <3>3. QED
      BY <1>3, <1>5, <3>1, <3>2
  <2>5. QED
    BY <2>1, <2>2, <2>3, <2>4
<1>6. QED
  BY <1>4, <1>5 DEF IdsInv

\* A row that ListEventsByRun returns under its limit is returned ever after:
\* no older row is ever added.
LEMMA ListedStays ==
  ASSUME DbTypes, DbTypes', IdsInv, [Next]_vars, NEW r, NEW i \in Nat, i < nextId, Listed(r, i)
  PROVE  Listed(r, i)'
<1>1. NewIds /\ nextId \in Nat
  BY EventsStep DEF DbTypes
<1>2. IsFiniteSet(Older(r, i))
  <2>1. Older(r, i) \subseteq 1..nextId
    <3>1. \A e \in events : e.id \in 1..nextId
      BY <1>1, EventColumns DEF DbTypes, IdsInv
    <3>2. QED
      BY <3>1 DEF Older, EventsOf
  <2>2. IsFiniteSet(1..nextId)
    BY <1>1, FS_Interval
  <2>3. QED
    BY <2>1, <2>2, FS_Subset
<1>3. Older(r, i)' \subseteq Older(r, i)
  <2>1. ASSUME NEW e \in events', e.run = r, e.id < i
        PROVE  e \in events
    <3>1. SUFFICES ASSUME e \notin events
                   PROVE  FALSE
      OBVIOUS
    <3>2. nextId <= e.id /\ e.id < nextId' /\ nextId' \in Nat
      BY <1>1, <3>1 DEF NewIds
    <3>3. e.id \in Nat
      BY EventColumns DEF DbTypes
    <3>4. QED
      BY <1>1, <2>1, <3>2, <3>3
  <2>2. QED
    BY <2>1 DEF Older, EventsOf
<1>4. /\ Cardinality(Older(r, i)') <= Cardinality(Older(r, i))
      /\ Cardinality(Older(r, i)') \in Nat /\ Cardinality(Older(r, i)) \in Nat
  BY <1>2, <1>3, FS_Subset, FS_CardinalityType
<1>5. Cardinality(Older(r, i)') < EventLimit
  BY <1>4, LimitAssumption DEF Listed
<1>6. QED
  BY <1>5 DEF Listed

\* An analysis keeps the events of its run that it has listed.
Keeps(c) ==
    cpc'[c] \in Reading =>
        /\ crun'[c] = crun[c]
        /\ \/ cpc[c] \in Reading /\ cevs'[c] = cevs[c]
           \/ cevs'[c] = ListEventsByRun(crun[c]) /\ UNCHANGED <<events, nextId>>
AllKeep == \A k \in Callers : Keeps(k)

\* What a step does to the events an analysis holds.
LEMMA KeepsStep ==
  ASSUME DifferTypes, [Next]_vars
  PROVE  AllKeep
<1> USE DEF AllKeep, Keeps, Reading, CallerPC, DifferTypes, differ
<1>1. ASSUME NEW r \in Runs, NEW b \in Batches, PostEvents(r, b)
      PROVE  AllKeep
  BY <1>1 DEF PostEvents
<1>2. ASSUME NEW r \in Runs, FinishPost(r)
      PROVE  AllKeep
  BY <1>2 DEF FinishPost, ScheduleDiffer
<1>3. ASSUME NEW r \in Runs, NEW final \in Results, ScanResult(r, final)
      PROVE  AllKeep
  BY <1>3 DEF ScanResult
<1>4. ASSUME NEW r \in Runs, NEW c \in Callers, Fire(r, c)
      PROVE  AllKeep
  BY <1>4 DEF Fire
<1>5. ASSUME NEW r \in Runs, Retire(r)
      PROVE  AllKeep
  BY <1>5 DEF Retire
<1>6. ASSUME NEW c \in Callers, AnalyzeList(c)
      PROVE  AllKeep
  BY <1>6 DEF AnalyzeList, Goto, db
<1>7. ASSUME NEW c \in Callers, AnalyzeAllow(c)
      PROVE  AllKeep
  BY <1>7 DEF AnalyzeAllow, Goto
<1>8. ASSUME NEW c \in Callers, AnalyzeBase(c)
      PROVE  AllKeep
  BY <1>8 DEF AnalyzeBase, Goto
<1>9. ASSUME NEW c \in Callers, SeedBaseline(c)
      PROVE  AllKeep
  BY <1>9 DEF SeedBaseline, Goto
<1>10. ASSUME NEW c \in Callers, SeedMark(c)
      PROVE  AllKeep
  BY <1>10 DEF SeedMark, Goto
<1>11. ASSUME NEW c \in Callers, ClearOld(c)
      PROVE  AllKeep
  BY <1>11 DEF ClearOld, Goto
<1>12. ASSUME NEW c \in Callers, WriteDeviations(c)
      PROVE  AllKeep
  BY <1>12 DEF WriteDeviations, Goto
<1>13. ASSUME NEW c \in Callers, BumpBaseline(c)
      PROVE  AllKeep
  BY <1>13 DEF BumpBaseline, Goto
<1>14. ASSUME NEW c \in Callers, AutoPromote(c)
      PROVE  AllKeep
  BY <1>14 DEF AutoPromote, Goto
<1>15. ASSUME NEW c \in Callers, Finish(c)
      PROVE  AllKeep
  BY <1>15 DEF Finish, CallbackReturns, Goto, UnmapTimer
<1>16. ASSUME NEW c \in Callers, FinishFound(c)
      PROVE  AllKeep
  BY <1>16 DEF FinishFound, Goto, UnmapTimer
<1>17. ASSUME NEW c \in Callers, Notify(c)
      PROVE  AllKeep
  BY <1>17 DEF Notify, CallbackReturns, Goto
<1>18. ASSUME NEW r \in Promotable, PromoteStart(r)
      PROVE  AllKeep
  BY <1>18 DEF PromoteStart
<1>19. CASE PromoteAllow
  BY <1>19 DEF PromoteAllow
<1>20. CASE PromoteMerge
  BY <1>20 DEF PromoteMerge, PromoteReset
<1>21. CASE PromoteMark
  BY <1>21 DEF PromoteMark, PromoteReset
<1>22. CASE PromoteClear
  BY <1>22 DEF PromoteClear, PromoteReset
<1>23. ASSUME NEW entry \in AllowEntries, AllowAdd(entry)
      PROVE  AllKeep
  BY <1>23 DEF AllowAdd
<1>24. ASSUME NEW entry \in AllowEntries, AllowRemove(entry)
      PROVE  AllKeep
  BY <1>24 DEF AllowRemove
<1>25. ASSUME NEW cutoff \in 1..nextId, PruneEvents(cutoff)
      PROVE  AllKeep
  BY <1>25 DEF PruneEvents
<1>26. CASE Restart
  BY <1>26 DEF Restart
<1>27. CASE UNCHANGED vars
  BY <1>27 DEF vars
<1>28. QED
  <2> HIDE DEF AllKeep
  <2> QED
    BY <1>1, <1>2, <1>3, <1>4, <1>5, <1>6, <1>7, <1>8, <1>9, <1>10, <1>11,
        <1>12, <1>13, <1>14, <1>15, <1>16, <1>17, <1>18, <1>19, <1>20, <1>21,
        <1>22, <1>23, <1>24, <1>25, <1>26, <1>27
       DEF Next, AnalyzeStep, PromoteStep

\* Pruning and re-use of ids never put another event behind an id that an
\* analysis holds.
LEMMA ReadStep ==
  ASSUME DbTypes, DbTypes', DifferTypes, IdsInv, ReadInv, [Next]_vars
  PROVE  ReadInv'
<1> SUFFICES ASSUME NEW c \in Callers, (cpc[c] \in Reading)', NEW e \in cevs'[c]
             PROVE  (/\ e.id < nextId /\ e.run = crun[c] /\ Listed(crun[c], e.id)
                     /\ \A f \in events : f.id = e.id => f = e)'
  BY DEF ReadInv
<1>1. PICK r \in Runs \cup {NoRun} : r = crun[c]
  BY DEF DifferTypes
<1>2. /\ r = crun'[c]
      /\ \/ cpc[c] \in Reading /\ cevs'[c] = cevs[c]
         \/ cevs'[c] = ListEventsByRun(r) /\ UNCHANGED <<events, nextId>>
  BY <1>1, KeepsStep DEF AllKeep, Keeps, Reading
<1>3. e \in EventRow /\ e.id < nextId /\ e.run = r /\ Listed(r, e.id) /\ \A f \in events : f.id = e.id => f = e
  <2>1. CASE cpc[c] \in Reading /\ cevs'[c] = cevs[c]
    BY <1>1, <2>1 DEF ReadInv, DifferTypes
  <2>2. CASE cevs'[c] = ListEventsByRun(r)
    <3>1. e \in events /\ e.run = r /\ Listed(r, e.id)
      BY <2>2 DEF ListEventsByRun, EventsOf, Listed, Older
    <3>2. QED
      BY <3>1 DEF IdsInv, DbTypes
  <2>3. QED
    BY <1>2, <2>1, <2>2
<1>4. e.id \in Nat
  BY <1>3, EventColumns
<1>5. Listed(r, e.id)'
  BY <1>3, <1>4, ListedStays
<1>6. NewIds /\ nextId \in Nat
  BY EventsStep DEF DbTypes
<1>7. e.id < nextId'
  BY <1>3, <1>4, <1>6 DEF NewIds
<1>8. ASSUME NEW f \in events', f.id = e.id
      PROVE  f = e
  <2>1. CASE f \in events
    BY <1>3, <1>8, <2>1
  <2>2. CASE f \notin events
    BY <1>3, <1>4, <1>6, <1>8, <2>2 DEF NewIds
  <2>3. QED
    BY <2>1, <2>2
<1>9. Listed(crun[c], e.id)'
  BY <1>2, <1>5 DEF Listed, Older, EventsOf
<1>10. QED
  BY <1>2, <1>3, <1>7, <1>8, <1>9

\* The rows behind the deviations that are there after a step.
Backed ==
    /\ \A d \in deviations' :
        \/ d \in deviations
        \/ \E c \in Callers :
            /\ cpc[c] = "write" /\ d \in Findings(c)
            /\ d.evidence \in {e.id : e \in events} /\ UNCHANGED events
            /\ cpc' = [cpc EXCEPT ![c] = "bump"] /\ UNCHANGED <<crun, cevs, callow, cbase>>
    /\ \A d \in deviations', e \in events : d.evidence = e.id => e \in events'
    /\ \A e \in events \ events' : e.run \in retired

\* What a step does to deviations and to the events they refer to.
LEMMA BackedStep ==
  ASSUME [Next]_vars
  PROVE  Backed
<1> USE DEF Backed, db
<1>1. ASSUME NEW r \in Runs, NEW b \in Batches, PostEvents(r, b)
      PROVE  Backed
  BY <1>1 DEF PostEvents
<1>2. ASSUME NEW r \in Runs, FinishPost(r)
      PROVE  Backed
  BY <1>2 DEF FinishPost
<1>3. ASSUME NEW r \in Runs, NEW final \in Results, ScanResult(r, final)
      PROVE  Backed
  BY <1>3 DEF ScanResult
<1>4. ASSUME NEW r \in Runs, NEW c \in Callers, Fire(r, c)
      PROVE  Backed
  BY <1>4 DEF Fire
<1>5. ASSUME NEW r \in Runs, Retire(r)
      PROVE  Backed
  BY <1>5 DEF Retire
<1>6. ASSUME NEW c \in Callers, AnalyzeList(c)
      PROVE  Backed
  BY <1>6 DEF AnalyzeList
<1>7. ASSUME NEW c \in Callers, AnalyzeAllow(c)
      PROVE  Backed
  BY <1>7 DEF AnalyzeAllow
<1>8. ASSUME NEW c \in Callers, AnalyzeBase(c)
      PROVE  Backed
  BY <1>8 DEF AnalyzeBase
<1>9. ASSUME NEW c \in Callers, SeedBaseline(c)
      PROVE  Backed
  BY <1>9 DEF SeedBaseline
<1>10. ASSUME NEW c \in Callers, SeedMark(c)
      PROVE  Backed
  BY <1>10 DEF SeedMark
<1>11. ASSUME NEW c \in Callers, ClearOld(c)
      PROVE  Backed
  BY <1>11 DEF ClearOld, DeleteDeviationsForRun
<1>12. ASSUME NEW c \in Callers, WriteDeviations(c)
      PROVE  Backed
  <2>1. UNCHANGED <<events, crun, cevs, callow, cbase>> /\ cpc[c] = "write"
    BY <1>12 DEF WriteDeviations
  <2>2. \/ /\ deviations' = deviations \cup Findings(c)
           /\ {d.evidence : d \in Findings(c)} \subseteq {e.id : e \in events}
           /\ cpc' = [cpc EXCEPT ![c] = "bump"]
        \/ UNCHANGED deviations
    BY <1>12 DEF WriteDeviations, Findings, Goto
  <2>3. QED
    BY <2>1, <2>2
<1>13. ASSUME NEW c \in Callers, BumpBaseline(c)
      PROVE  Backed
  BY <1>13 DEF BumpBaseline
<1>14. ASSUME NEW c \in Callers, AutoPromote(c)
      PROVE  Backed
  BY <1>14 DEF AutoPromote
<1>15. ASSUME NEW c \in Callers, Finish(c)
      PROVE  Backed
  BY <1>15 DEF Finish
<1>16. ASSUME NEW c \in Callers, FinishFound(c)
      PROVE  Backed
  BY <1>16 DEF FinishFound
<1>17. ASSUME NEW c \in Callers, Notify(c)
      PROVE  Backed
  BY <1>17 DEF Notify
<1>18. ASSUME NEW r \in Promotable, PromoteStart(r)
      PROVE  Backed
  BY <1>18 DEF PromoteStart
<1>19. CASE PromoteAllow
  BY <1>19 DEF PromoteAllow
<1>20. CASE PromoteMerge
  BY <1>20 DEF PromoteMerge
<1>21. CASE PromoteMark
  BY <1>21 DEF PromoteMark
<1>22. CASE PromoteClear
  BY <1>22 DEF PromoteClear, DeleteDeviationsForRun
<1>23. ASSUME NEW entry \in AllowEntries, AllowAdd(entry)
      PROVE  Backed
  BY <1>23 DEF AllowAdd
<1>24. ASSUME NEW entry \in AllowEntries, AllowRemove(entry)
      PROVE  Backed
  BY <1>24 DEF AllowRemove
<1>25. ASSUME NEW cutoff \in 1..nextId, PruneEvents(cutoff)
      PROVE  Backed
  BY <1>25 DEF PruneEvents
<1>26. CASE Restart
  BY <1>26 DEF Restart
<1>27. CASE UNCHANGED vars
  BY <1>27 DEF vars
<1>28. QED
  <2> HIDE DEF Backed
  <2> QED
    BY <1>1, <1>2, <1>3, <1>4, <1>5, <1>6, <1>7, <1>8, <1>9, <1>10, <1>11,
        <1>12, <1>13, <1>14, <1>15, <1>16, <1>17, <1>18, <1>19, <1>20, <1>21,
        <1>22, <1>23, <1>24, <1>25, <1>26, <1>27
       DEF Next, AnalyzeStep, PromoteStep

\* The evidence of every deviation is preserved.
LEMMA EvidenceStep ==
  ASSUME DbTypes, DbTypes', DifferTypes, HistoryTypes, IdsInv, ReadInv, EvidenceInv, [Next]_vars
  PROVE  EvidenceInv'
<1>1. SUFFICES ASSUME NEW d \in deviations'
               PROVE  /\ \E e \in events' : e.id = d.evidence /\ e.run = d.run /\ e.fp = d.fp
                      /\ Listed(d.run, d.evidence)'
  BY DEF EvidenceInv
<1>2. Backed
  BY BackedStep
<1>3. PICK e \in events : /\ e.id = d.evidence /\ e.run = d.run /\ e.fp = d.fp
                          /\ Listed(d.run, d.evidence)
  <2>1. CASE d \in deviations
    BY <2>1 DEF EvidenceInv
  <2>2. CASE d \notin deviations
    <3>1. PICK c \in Callers : /\ cpc[c] = "write" /\ d \in Findings(c)
                               /\ d.evidence \in {x.id : x \in events}
      BY <1>2, <2>2 DEF Backed
    <3>2. PICK x \in cevs[c] : x.id = d.evidence /\ x.fp = d.fp
      BY <3>1, Written DEF HistoryTypes
    <3>3. d.run = crun[c]
      BY <3>1, Written DEF HistoryTypes
    <3>4. /\ x.run = crun[c] /\ Listed(crun[c], x.id)
          /\ \A f \in events : f.id = x.id => f = x
      BY <3>1 DEF ReadInv, Reading, CallerPC
    <3>5. PICK f \in events : f.id = d.evidence
      BY <3>1
    <3>6. QED
      BY <3>2, <3>3, <3>4, <3>5
  <2>3. QED
    BY <2>1, <2>2
<1>4. e \in events'
  BY <1>2, <1>3 DEF Backed
<1>5. d.evidence \in Nat /\ d.evidence < nextId
  BY <1>3, EventColumns DEF IdsInv, DbTypes
<1>6. Listed(d.run, d.evidence)'
  BY <1>3, <1>5, ListedStays
<1>7. QED
  BY <1>3, <1>4, <1>6

StoreInv == TypeOK /\ IdsInv /\ ReadInv /\ EvidenceInv

\* Types, ids, what analyses hold and evidence, together.
LEMMA StoreAlways == Spec => []StoreInv
<1>1. Init => StoreInv
  <2>1. Init => IdsInv /\ ReadInv /\ EvidenceInv
    BY DEF Init, IdsInv, ReadInv, EvidenceInv, Reading
  <2>2. Init => TypeOK
    BY InitTypes
  <2>3. QED
    BY <2>1, <2>2 DEF StoreInv
<1>2. StoreInv /\ [Next]_vars => StoreInv'
  <2>1. SUFFICES ASSUME StoreInv, [Next]_vars
                 PROVE  StoreInv'
    OBVIOUS
  <2>2. TypeOK'
    BY <2>1, TypeStep DEF StoreInv
  <2>3. /\ DbTypes /\ DifferTypes /\ HistoryTypes /\ IdsInv /\ ReadInv /\ EvidenceInv
        /\ DbTypes'
    BY <2>1, <2>2 DEF StoreInv, TypeOK
  <2>4. IdsInv' /\ ReadInv' /\ EvidenceInv'
    BY <2>1, <2>3, IdsStep, ReadStep, EvidenceStep
  <2>5. QED
    BY <2>2, <2>4 DEF StoreInv
<1>3. QED
  BY <1>1, <1>2, PTL DEF Spec

\* The evidence link of a deviation always leads to an event of the same run
\* with the reported fingerprint: whatever interleaves between an analysis'
\* read of the events and its insert, and however much retention has pruned
\* in between or since.
THEOREM Evidence == Spec => []EvidenceHolds
<1>1. StoreInv => EvidenceHolds
  BY DEF StoreInv, EvidenceInv, EvidenceHolds
<1>2. QED
  BY <1>1, StoreAlways, PTL

-------------------------------------------------------------------------------
(* Retention.                                                                *)

\* A deviation goes only in the delete of an analysis or a promotion of its run.
OnlyCleared ==
    \A d \in deviations \ deviations' :
        \/ \E c \in Callers : cpc[c] = "delete" /\ crun[c] = d.run /\ UNCHANGED opc
        \/ opc = "clear" /\ orun = d.run

\* What a step removes from the deviations; PruneEvents keeps the evidence, so
\* that nothing cascades.
LEMMA ClearedStep ==
  ASSUME [Next]_vars
  PROVE  OnlyCleared
<1> USE DEF OnlyCleared, db, operator
<1>1. ASSUME NEW r \in Runs, NEW b \in Batches, PostEvents(r, b)
      PROVE  OnlyCleared
  BY <1>1 DEF PostEvents
<1>2. ASSUME NEW r \in Runs, FinishPost(r)
      PROVE  OnlyCleared
  BY <1>2 DEF FinishPost
<1>3. ASSUME NEW r \in Runs, NEW final \in Results, ScanResult(r, final)
      PROVE  OnlyCleared
  BY <1>3 DEF ScanResult
<1>4. ASSUME NEW r \in Runs, NEW c \in Callers, Fire(r, c)
      PROVE  OnlyCleared
  BY <1>4 DEF Fire
<1>5. ASSUME NEW r \in Runs, Retire(r)
      PROVE  OnlyCleared
  BY <1>5 DEF Retire
<1>6. ASSUME NEW c \in Callers, AnalyzeList(c)
      PROVE  OnlyCleared
  BY <1>6 DEF AnalyzeList
<1>7. ASSUME NEW c \in Callers, AnalyzeAllow(c)
      PROVE  OnlyCleared
  BY <1>7 DEF AnalyzeAllow
<1>8. ASSUME NEW c \in Callers, AnalyzeBase(c)
      PROVE  OnlyCleared
  BY <1>8 DEF AnalyzeBase
<1>9. ASSUME NEW c \in Callers, SeedBaseline(c)
      PROVE  OnlyCleared
  BY <1>9 DEF SeedBaseline
<1>10. ASSUME NEW c \in Callers, SeedMark(c)
      PROVE  OnlyCleared
  BY <1>10 DEF SeedMark
<1>11. ASSUME NEW c \in Callers, ClearOld(c)
      PROVE  OnlyCleared
  BY <1>11 DEF ClearOld, DeleteDeviationsForRun, RowsOf
<1>12. ASSUME NEW c \in Callers, WriteDeviations(c)
      PROVE  OnlyCleared
  BY <1>12 DEF WriteDeviations
<1>13. ASSUME NEW c \in Callers, BumpBaseline(c)
      PROVE  OnlyCleared
  BY <1>13 DEF BumpBaseline
<1>14. ASSUME NEW c \in Callers, AutoPromote(c)
      PROVE  OnlyCleared
  BY <1>14 DEF AutoPromote
<1>15. ASSUME NEW c \in Callers, Finish(c)
      PROVE  OnlyCleared
  BY <1>15 DEF Finish
<1>16. ASSUME NEW c \in Callers, FinishFound(c)
      PROVE  OnlyCleared
  BY <1>16 DEF FinishFound
<1>17. ASSUME NEW c \in Callers, Notify(c)
      PROVE  OnlyCleared
  BY <1>17 DEF Notify
<1>18. ASSUME NEW r \in Promotable, PromoteStart(r)
      PROVE  OnlyCleared
  BY <1>18 DEF PromoteStart
<1>19. CASE PromoteAllow
  BY <1>19 DEF PromoteAllow
<1>20. CASE PromoteMerge
  BY <1>20 DEF PromoteMerge
<1>21. CASE PromoteMark
  BY <1>21 DEF PromoteMark
<1>22. CASE PromoteClear
  BY <1>22 DEF PromoteClear, DeleteDeviationsForRun, RowsOf
<1>23. ASSUME NEW entry \in AllowEntries, AllowAdd(entry)
      PROVE  OnlyCleared
  BY <1>23 DEF AllowAdd
<1>24. ASSUME NEW entry \in AllowEntries, AllowRemove(entry)
      PROVE  OnlyCleared
  BY <1>24 DEF AllowRemove
<1>25. ASSUME NEW cutoff \in 1..nextId, PruneEvents(cutoff)
      PROVE  OnlyCleared
  BY <1>25 DEF PruneEvents
<1>26. CASE Restart
  BY <1>26 DEF Restart
<1>27. CASE UNCHANGED vars
  BY <1>27 DEF vars
<1>28. QED
  <2> HIDE DEF OnlyCleared
  <2> QED
    BY <1>1, <1>2, <1>3, <1>4, <1>5, <1>6, <1>7, <1>8, <1>9, <1>10, <1>11,
        <1>12, <1>13, <1>14, <1>15, <1>16, <1>17, <1>18, <1>19, <1>20, <1>21,
        <1>22, <1>23, <1>24, <1>25, <1>26, <1>27
       DEF Next, AnalyzeStep, PromoteStep

\* Retention never removes a finding, whatever it prunes and whenever it runs.
THEOREM RetentionKeeps == Spec => FindingsOutliveRetention
<1>1. [Next]_vars => [OnlyCleared]_vars
  BY ClearedStep
<1>2. QED
  <2> DEFINE Cleared == \A d \in deviations \ deviations' :
                           \/ \E c \in Callers : cpc[c] = "delete" /\ crun[c] = d.run
                           \/ opc = "clear" /\ orun = d.run
  <2>1. [OnlyCleared]_vars => [Cleared]_vars
    BY DEF OnlyCleared
  <2> SUFFICES Spec => [][Cleared]_vars
    BY DEF FindingsOutliveRetention
  <2> HIDE DEF Cleared
  <2>2. QED
    BY <1>1, <2>1, PTL DEF Spec

-------------------------------------------------------------------------------
(* The baseline.  BumpBaseline merges what the analysis found in its copy of   *)
(* the baseline; that this adds nothing needs the copy to be still part of the *)
(* baseline, however long ago it was read.                                     *)

\* The copy of the baseline that an analysis compares with.
BaseInv ==
    \A c \in Callers :
        /\ cpc[c] = "seed" => cbase[c] = {}
        /\ cpc[c] \in {"delete", "write", "bump"} =>
              cbase[c] \subseteq LoadBaseline(PkgOf[crun[c]])

\* A known fingerprint stays known, with the run that introduced it.
KnownStays ==
    \A p \in Packages, fp \in FPs :
        baseline[p][fp] # NoRun => baseline'[p][fp] = baseline[p][fp]

\* What a step does to the rows of the baseline.
LEMMA KnownStep ==
  ASSUME DbTypes, DifferTypes, OperatorTypes, [Next]_vars
  PROVE  KnownStays
<1> USE DEF KnownStays, db
<1>1. ASSUME NEW r \in Runs, NEW b \in Batches, PostEvents(r, b)
      PROVE  KnownStays
  BY <1>1 DEF PostEvents
<1>2. ASSUME NEW r \in Runs, FinishPost(r)
      PROVE  KnownStays
  BY <1>2 DEF FinishPost
<1>3. ASSUME NEW r \in Runs, NEW final \in Results, ScanResult(r, final)
      PROVE  KnownStays
  BY <1>3 DEF ScanResult
<1>4. ASSUME NEW r \in Runs, NEW c \in Callers, Fire(r, c)
      PROVE  KnownStays
  BY <1>4 DEF Fire
<1>5. ASSUME NEW r \in Runs, Retire(r)
      PROVE  KnownStays
  BY <1>5 DEF Retire
<1>6. ASSUME NEW c \in Callers, AnalyzeList(c)
      PROVE  KnownStays
  BY <1>6 DEF AnalyzeList
<1>7. ASSUME NEW c \in Callers, AnalyzeAllow(c)
      PROVE  KnownStays
  BY <1>7 DEF AnalyzeAllow
<1>8. ASSUME NEW c \in Callers, AnalyzeBase(c)
      PROVE  KnownStays
  BY <1>8 DEF AnalyzeBase
<1>9. ASSUME NEW c \in Callers, SeedBaseline(c)
      PROVE  KnownStays
  <2>1. crun[c] \in Runs /\ PkgOf[crun[c]] # NoPkg
    BY <1>9 DEF SeedBaseline, DifferTypes
  <2>2. QED
    BY <1>9, <2>1, Merged DEF SeedBaseline, DbTypes
<1>10. ASSUME NEW c \in Callers, SeedMark(c)
      PROVE  KnownStays
  BY <1>10 DEF SeedMark
<1>11. ASSUME NEW c \in Callers, ClearOld(c)
      PROVE  KnownStays
  BY <1>11 DEF ClearOld
<1>12. ASSUME NEW c \in Callers, WriteDeviations(c)
      PROVE  KnownStays
  BY <1>12 DEF WriteDeviations
<1>13. ASSUME NEW c \in Callers, BumpBaseline(c)
      PROVE  KnownStays
  <2>1. crun[c] \in Runs /\ PkgOf[crun[c]] # NoPkg
    BY <1>13 DEF BumpBaseline, DifferTypes
  <2>2. QED
    BY <1>13, <2>1, Merged DEF BumpBaseline, DbTypes
<1>14. ASSUME NEW c \in Callers, AutoPromote(c)
      PROVE  KnownStays
  BY <1>14 DEF AutoPromote
<1>15. ASSUME NEW c \in Callers, Finish(c)
      PROVE  KnownStays
  BY <1>15 DEF Finish
<1>16. ASSUME NEW c \in Callers, FinishFound(c)
      PROVE  KnownStays
  BY <1>16 DEF FinishFound
<1>17. ASSUME NEW c \in Callers, Notify(c)
      PROVE  KnownStays
  BY <1>17 DEF Notify
<1>18. ASSUME NEW r \in Promotable, PromoteStart(r)
      PROVE  KnownStays
  BY <1>18 DEF PromoteStart
<1>19. CASE PromoteAllow
  BY <1>19 DEF PromoteAllow
<1>20. CASE PromoteMerge
  <2>1. orun \in Runs /\ PkgOf[orun] # NoPkg
    BY <1>20 DEF PromoteMerge, OperatorTypes
  <2>2. QED
    BY <1>20, <2>1, Merged DEF PromoteMerge, DbTypes
<1>21. CASE PromoteMark
  BY <1>21 DEF PromoteMark
<1>22. CASE PromoteClear
  BY <1>22 DEF PromoteClear
<1>23. ASSUME NEW entry \in AllowEntries, AllowAdd(entry)
      PROVE  KnownStays
  BY <1>23 DEF AllowAdd
<1>24. ASSUME NEW entry \in AllowEntries, AllowRemove(entry)
      PROVE  KnownStays
  BY <1>24 DEF AllowRemove
<1>25. ASSUME NEW cutoff \in 1..nextId, PruneEvents(cutoff)
      PROVE  KnownStays
  BY <1>25 DEF PruneEvents
<1>26. CASE Restart
  BY <1>26 DEF Restart
<1>27. CASE UNCHANGED vars
  BY <1>27 DEF vars
<1>28. QED
  <2> HIDE DEF KnownStays
  <2> QED
    BY <1>1, <1>2, <1>3, <1>4, <1>5, <1>6, <1>7, <1>8, <1>9, <1>10, <1>11,
        <1>12, <1>13, <1>14, <1>15, <1>16, <1>17, <1>18, <1>19, <1>20, <1>21,
        <1>22, <1>23, <1>24, <1>25, <1>26, <1>27
       DEF Next, AnalyzeStep, PromoteStep

\* An analysis keeps its copy of the baseline.
KeepsBase(c) ==
    /\ cpc'[c] = "seed" => (cpc[c] = "seed" /\ cbase'[c] = cbase[c]) \/ cbase'[c] = {}
    /\ cpc'[c] \in {"delete", "write", "bump"} =>
        /\ crun'[c] = crun[c] /\ cpc[c] \in {"base", "delete", "write", "bump"}
        /\ \/ cpc[c] # "base" /\ cbase'[c] = cbase[c]
           \/ cbase'[c] = LoadBaseline(PkgOf[crun[c]])
AllKeepBase == \A k \in Callers : KeepsBase(k)

\* What a step does to the copies of the baseline.
LEMMA KeepsBaseStep ==
  ASSUME DifferTypes, [Next]_vars
  PROVE  AllKeepBase
<1> USE DEF AllKeepBase, KeepsBase, DifferTypes, differ
<1>1. ASSUME NEW r \in Runs, NEW b \in Batches, PostEvents(r, b)
      PROVE  AllKeepBase
  BY <1>1 DEF PostEvents
<1>2. ASSUME NEW r \in Runs, FinishPost(r)
      PROVE  AllKeepBase
  BY <1>2 DEF FinishPost, ScheduleDiffer
<1>3. ASSUME NEW r \in Runs, NEW final \in Results, ScanResult(r, final)
      PROVE  AllKeepBase
  BY <1>3 DEF ScanResult
<1>4. ASSUME NEW r \in Runs, NEW c \in Callers, Fire(r, c)
      PROVE  AllKeepBase
  BY <1>4 DEF Fire
<1>5. ASSUME NEW r \in Runs, Retire(r)
      PROVE  AllKeepBase
  BY <1>5 DEF Retire
<1>6. ASSUME NEW c \in Callers, AnalyzeList(c)
      PROVE  AllKeepBase
  BY <1>6 DEF AnalyzeList, Goto
<1>7. ASSUME NEW c \in Callers, AnalyzeAllow(c)
      PROVE  AllKeepBase
  BY <1>7 DEF AnalyzeAllow, Goto
<1>8. ASSUME NEW c \in Callers, AnalyzeBase(c)
      PROVE  AllKeepBase
  <2>1. PICK known : known = LoadBaseline(PkgOf[crun[c]])
    OBVIOUS
  <2>2. /\ cpc[c] = "base" /\ UNCHANGED crun
        /\ \/ /\ cbase' = [cbase EXCEPT ![c] = known]
              /\ cpc' = [cpc EXCEPT ![c] = IF known = {} THEN "seed" ELSE "delete"]
           \/ cpc' = [cpc EXCEPT ![c] = "finish"] /\ UNCHANGED cbase
    BY <1>8, <2>1 DEF AnalyzeBase, Goto
  <2>3. QED
    BY <2>1, <2>2
<1>9. ASSUME NEW c \in Callers, SeedBaseline(c)
      PROVE  AllKeepBase
  BY <1>9 DEF SeedBaseline, Goto
<1>10. ASSUME NEW c \in Callers, SeedMark(c)
      PROVE  AllKeepBase
  BY <1>10 DEF SeedMark, Goto
<1>11. ASSUME NEW c \in Callers, ClearOld(c)
      PROVE  AllKeepBase
  BY <1>11 DEF ClearOld, Goto
<1>12. ASSUME NEW c \in Callers, WriteDeviations(c)
      PROVE  AllKeepBase
  BY <1>12 DEF WriteDeviations, Goto
<1>13. ASSUME NEW c \in Callers, BumpBaseline(c)
      PROVE  AllKeepBase
  BY <1>13 DEF BumpBaseline, Goto
<1>14. ASSUME NEW c \in Callers, AutoPromote(c)
      PROVE  AllKeepBase
  BY <1>14 DEF AutoPromote, Goto
<1>15. ASSUME NEW c \in Callers, Finish(c)
      PROVE  AllKeepBase
  BY <1>15 DEF Finish, CallbackReturns, Goto, UnmapTimer
<1>16. ASSUME NEW c \in Callers, FinishFound(c)
      PROVE  AllKeepBase
  BY <1>16 DEF FinishFound, Goto, UnmapTimer
<1>17. ASSUME NEW c \in Callers, Notify(c)
      PROVE  AllKeepBase
  BY <1>17 DEF Notify, CallbackReturns, Goto
<1>18. ASSUME NEW r \in Promotable, PromoteStart(r)
      PROVE  AllKeepBase
  BY <1>18 DEF PromoteStart
<1>19. CASE PromoteAllow
  BY <1>19 DEF PromoteAllow
<1>20. CASE PromoteMerge
  BY <1>20 DEF PromoteMerge, PromoteReset
<1>21. CASE PromoteMark
  BY <1>21 DEF PromoteMark, PromoteReset
<1>22. CASE PromoteClear
  BY <1>22 DEF PromoteClear, PromoteReset
<1>23. ASSUME NEW entry \in AllowEntries, AllowAdd(entry)
      PROVE  AllKeepBase
  BY <1>23 DEF AllowAdd
<1>24. ASSUME NEW entry \in AllowEntries, AllowRemove(entry)
      PROVE  AllKeepBase
  BY <1>24 DEF AllowRemove
<1>25. ASSUME NEW cutoff \in 1..nextId, PruneEvents(cutoff)
      PROVE  AllKeepBase
  BY <1>25 DEF PruneEvents
<1>26. CASE Restart
  BY <1>26 DEF Restart
<1>27. CASE UNCHANGED vars
  BY <1>27 DEF vars
<1>28. QED
  <2> HIDE DEF AllKeepBase
  <2> QED
    BY <1>1, <1>2, <1>3, <1>4, <1>5, <1>6, <1>7, <1>8, <1>9, <1>10, <1>11,
        <1>12, <1>13, <1>14, <1>15, <1>16, <1>17, <1>18, <1>19, <1>20, <1>21,
        <1>22, <1>23, <1>24, <1>25, <1>26, <1>27
       DEF Next, AnalyzeStep, PromoteStep

\* The copies stay below the baseline.
LEMMA BaseStep ==
  ASSUME DbTypes, DifferTypes, OperatorTypes, BaseInv, [Next]_vars
  PROVE  BaseInv'
<1>1. AllKeepBase /\ KnownStays
  BY KeepsBaseStep, KnownStep
<1>2. \A p \in Packages : LoadBaseline(p) \subseteq LoadBaseline(p)'
  BY <1>1 DEF KnownStays, LoadBaseline
<1>3. ASSUME NEW c \in Callers, cpc'[c] = "seed"
      PROVE  cbase'[c] = {}
  BY <1>1, <1>3 DEF AllKeepBase, KeepsBase, BaseInv
<1>4. ASSUME NEW c \in Callers, cpc'[c] \in {"delete", "write", "bump"}
      PROVE  cbase'[c] \subseteq LoadBaseline(PkgOf[crun[c]])'
  <2>1. /\ crun'[c] = crun[c] /\ cpc[c] \in {"base", "delete", "write", "bump"}
        /\ \/ cpc[c] # "base" /\ cbase'[c] = cbase[c]
           \/ cbase'[c] = LoadBaseline(PkgOf[crun[c]])
    BY <1>1, <1>4 DEF AllKeepBase, KeepsBase
  <2>2. cbase'[c] \subseteq LoadBaseline(PkgOf[crun[c]])
    BY <2>1 DEF BaseInv
  <2>3. crun[c] \in Runs /\ PkgOf[crun[c]] # NoPkg
    BY <2>1 DEF DifferTypes
  <2>4. PICK p \in Packages : p = PkgOf[crun[c]]
    BY <2>3, PkgOfAssumption
  <2>5. LoadBaseline(p)' = LoadBaseline(PkgOf[crun[c]])'
    BY <2>1, <2>4 DEF LoadBaseline
  <2>6. QED
    BY <1>2, <2>2, <2>4, <2>5
<1>5. QED
  BY <1>3, <1>4 DEF BaseInv

\* The change of a baseline row that seeding and promotion make.
Learns ==
    \A p \in Packages, fp \in FPs :
        baseline[p][fp] # baseline'[p][fp] =>
            LET by == baseline'[p][fp] IN
            /\ baseline[p][fp] = NoRun
            /\ by \in Runs /\ PkgOf[by] = p
            /\ \/ \E c \in Callers : cpc[c] = "seed" /\ crun[c] = by /\ cbase[c] = {}
               \/ opc = "merge" /\ orun = by

\* What a step adds to the baseline.
LEMMA LearnsStep ==
  ASSUME DbTypes, DifferTypes, OperatorTypes, BaseInv, [Next]_vars
  PROVE  Learns
<1> USE DEF Learns, db
<1>1. ASSUME NEW r \in Runs, NEW b \in Batches, PostEvents(r, b)
      PROVE  Learns
  BY <1>1 DEF PostEvents
<1>2. ASSUME NEW r \in Runs, FinishPost(r)
      PROVE  Learns
  BY <1>2 DEF FinishPost
<1>3. ASSUME NEW r \in Runs, NEW final \in Results, ScanResult(r, final)
      PROVE  Learns
  BY <1>3 DEF ScanResult
<1>4. ASSUME NEW r \in Runs, NEW c \in Callers, Fire(r, c)
      PROVE  Learns
  BY <1>4 DEF Fire
<1>5. ASSUME NEW r \in Runs, Retire(r)
      PROVE  Learns
  BY <1>5 DEF Retire
<1>6. ASSUME NEW c \in Callers, AnalyzeList(c)
      PROVE  Learns
  BY <1>6 DEF AnalyzeList
<1>7. ASSUME NEW c \in Callers, AnalyzeAllow(c)
      PROVE  Learns
  BY <1>7 DEF AnalyzeAllow
<1>8. ASSUME NEW c \in Callers, AnalyzeBase(c)
      PROVE  Learns
  BY <1>8 DEF AnalyzeBase
<1>9. ASSUME NEW c \in Callers, SeedBaseline(c)
      PROVE  Learns
  <2>1. crun[c] \in Runs /\ PkgOf[crun[c]] # NoPkg /\ cpc[c] = "seed" /\ cbase[c] = {}
    BY <1>9 DEF SeedBaseline, DifferTypes, BaseInv
  <2>2. QED
    BY <1>9, <2>1, Merged DEF SeedBaseline, DbTypes
<1>10. ASSUME NEW c \in Callers, SeedMark(c)
      PROVE  Learns
  BY <1>10 DEF SeedMark
<1>11. ASSUME NEW c \in Callers, ClearOld(c)
      PROVE  Learns
  BY <1>11 DEF ClearOld
<1>12. ASSUME NEW c \in Callers, WriteDeviations(c)
      PROVE  Learns
  BY <1>12 DEF WriteDeviations
<1>13. ASSUME NEW c \in Callers, BumpBaseline(c)
      PROVE  Learns
  <2>1. crun[c] \in Runs /\ PkgOf[crun[c]] # NoPkg
    BY <1>13 DEF BumpBaseline, DifferTypes
  <2>2. cbase[c] \subseteq LoadBaseline(PkgOf[crun[c]])
    BY <1>13 DEF BumpBaseline, BaseInv
  <2>3. \/ UNCHANGED baseline
        \/ \A p \in Packages, fp \in FPs :
              baseline'[p][fp] = IF p = PkgOf[crun[c]] /\ fp \in RunFPs(c) \cap cbase[c]
                                    /\ baseline[p][fp] = NoRun
                                 THEN crun[c] ELSE baseline[p][fp]
    BY <1>13, <2>1, Merged DEF BumpBaseline, DbTypes
  <2>4. \A fp \in cbase[c] : baseline[PkgOf[crun[c]]][fp] # NoRun
    BY <2>2 DEF LoadBaseline
  <2>5. QED
    BY <2>3, <2>4
<1>14. ASSUME NEW c \in Callers, AutoPromote(c)
      PROVE  Learns
  BY <1>14 DEF AutoPromote
<1>15. ASSUME NEW c \in Callers, Finish(c)
      PROVE  Learns
  BY <1>15 DEF Finish
<1>16. ASSUME NEW c \in Callers, FinishFound(c)
      PROVE  Learns
  BY <1>16 DEF FinishFound
<1>17. ASSUME NEW c \in Callers, Notify(c)
      PROVE  Learns
  BY <1>17 DEF Notify
<1>18. ASSUME NEW r \in Promotable, PromoteStart(r)
      PROVE  Learns
  BY <1>18 DEF PromoteStart
<1>19. CASE PromoteAllow
  BY <1>19 DEF PromoteAllow
<1>20. CASE PromoteMerge
  <2>1. orun \in Runs /\ PkgOf[orun] # NoPkg /\ opc = "merge"
    BY <1>20 DEF PromoteMerge, OperatorTypes
  <2>2. QED
    BY <1>20, <2>1, Merged DEF PromoteMerge, DbTypes
<1>21. CASE PromoteMark
  BY <1>21 DEF PromoteMark
<1>22. CASE PromoteClear
  BY <1>22 DEF PromoteClear
<1>23. ASSUME NEW entry \in AllowEntries, AllowAdd(entry)
      PROVE  Learns
  BY <1>23 DEF AllowAdd
<1>24. ASSUME NEW entry \in AllowEntries, AllowRemove(entry)
      PROVE  Learns
  BY <1>24 DEF AllowRemove
<1>25. ASSUME NEW cutoff \in 1..nextId, PruneEvents(cutoff)
      PROVE  Learns
  BY <1>25 DEF PruneEvents
<1>26. CASE Restart
  BY <1>26 DEF Restart
<1>27. CASE UNCHANGED vars
  BY <1>27 DEF vars
<1>28. QED
  <2> HIDE DEF Learns
  <2> QED
    BY <1>1, <1>2, <1>3, <1>4, <1>5, <1>6, <1>7, <1>8, <1>9, <1>10, <1>11,
        <1>12, <1>13, <1>14, <1>15, <1>16, <1>17, <1>18, <1>19, <1>20, <1>21,
        <1>22, <1>23, <1>24, <1>25, <1>26, <1>27
       DEF Next, AnalyzeStep, PromoteStep

\* A fingerprint becomes known only through the run recorded with it, when the
\* operator promotes that run or an analysis of it found the baseline empty when
\* it read it: no stale copy, overlap of analyses, failed call or restart lets an
\* analysis that found rows there accept what it should report.
THEOREM KnownBySeedOrPromote == Spec => KnownOnlyBySeedOrPromote
<1> DEFINE Inv == TypeOK /\ BaseInv
<1>1. Init => Inv
  <2>1. Init => BaseInv
    BY DEF Init, BaseInv
  <2>2. QED
    BY <2>1, InitTypes
<1>2. Inv /\ [Next]_vars => Inv'
  <2>1. TypeOK /\ BaseInv /\ [Next]_vars => BaseInv'
    BY BaseStep DEF TypeOK
  <2>2. QED
    BY <2>1, TypeStep
<1>3. Inv /\ [Next]_vars => [Learns]_vars
  BY LearnsStep DEF TypeOK
<1> HIDE DEF Inv
<1>4. Spec => [][Learns]_vars
  BY <1>1, <1>2, <1>3, PTL DEF Spec
<1>5. QED
  BY <1>4 DEF KnownOnlyBySeedOrPromote, Learns

-------------------------------------------------------------------------------
(* Runs that are over.                                                         *)

\* No request or timer of run r is under way.
Settled(r) == r \notin posting /\ ~TimerPending(r)

\* The stream of run r is over, and so is all work for it in the server.
Over(r) == StreamOver(r) /\ Settled(r) /\ Idle(r)

\* A run that is over stays so.
LEMMA OverStays ==
  ASSUME ServerTypes, DifferTypes, OperatorTypes, [Next]_vars, NEW run \in Runs, Over(run)
  PROVE  Over(run)'
<1> USE DEF Over, Settled, TimerPending, StreamOver, Idle, ServerTypes, server, differ
<1> SUFFICES ASSUME DifferTypes
             PROVE  Over(run)'
  OBVIOUS
<1>1. ASSUME NEW r \in Runs, NEW b \in Batches, PostEvents(r, b)
      PROVE  Over(run)'
  BY <1>1 DEF PostEvents
<1>2. ASSUME NEW r \in Runs, FinishPost(r)
      PROVE  Over(run)'
  BY <1>2 DEF FinishPost, ScheduleDiffer
<1>3. ASSUME NEW r \in Runs, NEW final \in Results, ScanResult(r, final)
      PROVE  Over(run)'
  BY <1>3 DEF ScanResult
<1>4. ASSUME NEW r \in Runs, NEW c \in Callers, Fire(r, c)
      PROVE  Over(run)'
  <2>1. r # run
    BY <1>4 DEF Fire
  <2>2. QED
    BY <1>4, <2>1 DEF Fire, DifferTypes
<1>5. ASSUME NEW r \in Runs, Retire(r)
      PROVE  Over(run)'
  BY <1>5 DEF Retire
<1>6. ASSUME NEW c \in Callers, AnalyzeList(c)
      PROVE  Over(run)'
  BY <1>6 DEF AnalyzeList, Goto
<1>7. ASSUME NEW c \in Callers, AnalyzeAllow(c)
      PROVE  Over(run)'
  BY <1>7 DEF AnalyzeAllow, Goto
<1>8. ASSUME NEW c \in Callers, AnalyzeBase(c)
      PROVE  Over(run)'
  BY <1>8 DEF AnalyzeBase, Goto
<1>9. ASSUME NEW c \in Callers, SeedBaseline(c)
      PROVE  Over(run)'
  BY <1>9 DEF SeedBaseline, Goto
<1>10. ASSUME NEW c \in Callers, SeedMark(c)
      PROVE  Over(run)'
  BY <1>10 DEF SeedMark, Goto
<1>11. ASSUME NEW c \in Callers, ClearOld(c)
      PROVE  Over(run)'
  BY <1>11 DEF ClearOld, Goto
<1>12. ASSUME NEW c \in Callers, WriteDeviations(c)
      PROVE  Over(run)'
  BY <1>12 DEF WriteDeviations, Goto
<1>13. ASSUME NEW c \in Callers, BumpBaseline(c)
      PROVE  Over(run)'
  BY <1>13 DEF BumpBaseline, Goto
<1>14. ASSUME NEW c \in Callers, AutoPromote(c)
      PROVE  Over(run)'
  BY <1>14 DEF AutoPromote, Goto
<1>15. ASSUME NEW c \in Callers, Finish(c)
      PROVE  Over(run)'
  <2>1. crun[c] \in Runs /\ crun[c] # run
    BY <1>15, NullsAssumption DEF Finish, DifferTypes
  <2>2. posts' = posts /\ posting' = posting
    BY <1>15 DEF Finish
  <2>3. armed' \subseteq armed /\ orphans'[run] = orphans[run]
    BY <1>15, <2>1 DEF Finish, UnmapTimer
  <2>4. \A k \in Callers : crun'[k] # run
    BY <1>15, NullsAssumption DEF Finish, CallbackReturns, DifferTypes
  <2>5. QED
    BY <2>2, <2>3, <2>4
<1>16. ASSUME NEW c \in Callers, FinishFound(c)
      PROVE  Over(run)'
  <2>1. crun[c] \in Runs /\ crun[c] # run
    BY <1>16, NullsAssumption DEF FinishFound, DifferTypes
  <2>2. posts' = posts /\ posting' = posting
    BY <1>16 DEF FinishFound
  <2>3. armed' \subseteq armed /\ orphans'[run] = orphans[run]
    BY <1>16, <2>1 DEF FinishFound, UnmapTimer
  <2>4. \A k \in Callers : crun'[k] # run
    BY <1>16, NullsAssumption DEF FinishFound, CallbackReturns, DifferTypes
  <2>5. QED
    BY <2>2, <2>3, <2>4
<1>17. ASSUME NEW c \in Callers, Notify(c)
      PROVE  Over(run)'
  <2>1. \A k \in Callers : crun'[k] # run
    BY <1>17, NullsAssumption DEF Notify, CallbackReturns, DifferTypes
  <2>2. QED
    BY <1>17, <2>1 DEF Notify
<1>18. ASSUME NEW r \in Promotable, PromoteStart(r)
      PROVE  Over(run)'
  BY <1>18 DEF PromoteStart
<1>19. CASE PromoteAllow
  BY <1>19 DEF PromoteAllow
<1>20. CASE PromoteMerge
  BY <1>20 DEF PromoteMerge, PromoteReset
<1>21. CASE PromoteMark
  BY <1>21 DEF PromoteMark, PromoteReset
<1>22. CASE PromoteClear
  BY <1>22 DEF PromoteClear, PromoteReset
<1>23. ASSUME NEW entry \in AllowEntries, AllowAdd(entry)
      PROVE  Over(run)'
  BY <1>23 DEF AllowAdd
<1>24. ASSUME NEW entry \in AllowEntries, AllowRemove(entry)
      PROVE  Over(run)'
  BY <1>24 DEF AllowRemove
<1>25. ASSUME NEW cutoff \in 1..nextId, PruneEvents(cutoff)
      PROVE  Over(run)'
  BY <1>25 DEF PruneEvents
<1>26. CASE Restart
  BY <1>26, NullsAssumption DEF Restart
<1>27. CASE UNCHANGED vars
  BY <1>27 DEF vars
<1>28. QED
  <2> HIDE DEF Over
  <2> QED
    BY <1>1, <1>2, <1>3, <1>4, <1>5, <1>6, <1>7, <1>8, <1>9, <1>10, <1>11,
        <1>12, <1>13, <1>14, <1>15, <1>16, <1>17, <1>18, <1>19, <1>20, <1>21,
        <1>22, <1>23, <1>24, <1>25, <1>26, <1>27
       DEF Next, AnalyzeStep, PromoteStep

\* Nothing is found any more in a run that is over.
LEMMA OverRows ==
  ASSUME DifferTypes, HistoryTypes, [Next]_vars, NEW run \in Runs, Over(run)
  PROVE  RowsOf(run)' \subseteq RowsOf(run)
<1>1. ASSUME NEW d \in deviations', d.run = run
      PROVE  d \in deviations
  <2>1. SUFFICES ASSUME NEW c \in Callers, cpc[c] = "write", d \in Findings(c)
                 PROVE  FALSE
    BY BackedStep DEF Backed
  <2>2. d.run = crun[c]
    BY <2>1, Written DEF HistoryTypes
  <2>3. QED
    BY <1>1, <2>2 DEF Over, Idle
<1>2. QED
  BY <1>1 DEF RowsOf

-------------------------------------------------------------------------------
(* Operator rules.                                                             *)

\* Rules that were read were there, and allowedEver remembers them all.
AllowInv ==
    /\ allow \subseteq allowedEver
    /\ \A c \in Callers : cpc[c] \in Reading \ {"allow"} =>
          callow[c] \subseteq Suppressed(allowedEver, PkgOf[crun[c]])
    /\ opc = "merge" => oallow \subseteq Suppressed(allowedEver, PkgOf[orun])

\* Rules are read from the table or, when that fails, none are used.
AllowRead ==
    /\ allow' \subseteq allow \cup allowedEver' /\ allowedEver \subseteq allowedEver'
    /\ \A c \in Callers : cpc'[c] \in Reading \ {"allow"} =>
        /\ crun'[c] = crun[c]
        /\ \/ cpc[c] \in Reading \ {"allow"} /\ callow'[c] = callow[c]
           \/ callow'[c] \in {Suppressed(allow, PkgOf[crun[c]]), {}}
    /\ opc' = "merge" =>
        /\ orun' = orun
        /\ \/ opc = "merge" /\ oallow' = oallow
           \/ oallow' \in {Suppressed(allow, PkgOf[orun]), {}}

\* What a step does to the rules and to those in use.
LEMMA AllowReadStep ==
  ASSUME DifferTypes, OperatorTypes, [Next]_vars
  PROVE  AllowRead
<1> USE DEF AllowRead, Reading, CallerPC, DifferTypes, OperatorTypes, db, differ, operator, history
<1>1. ASSUME NEW r \in Runs, NEW b \in Batches, PostEvents(r, b)
      PROVE  AllowRead
  BY <1>1 DEF PostEvents
<1>2. ASSUME NEW r \in Runs, FinishPost(r)
      PROVE  AllowRead
  BY <1>2 DEF FinishPost, ScheduleDiffer
<1>3. ASSUME NEW r \in Runs, NEW final \in Results, ScanResult(r, final)
      PROVE  AllowRead
  BY <1>3 DEF ScanResult
<1>4. ASSUME NEW r \in Runs, NEW c \in Callers, Fire(r, c)
      PROVE  AllowRead
  BY <1>4 DEF Fire
<1>5. ASSUME NEW r \in Runs, Retire(r)
      PROVE  AllowRead
  BY <1>5 DEF Retire
<1>6. ASSUME NEW c \in Callers, AnalyzeList(c)
      PROVE  AllowRead
  BY <1>6 DEF AnalyzeList, Goto
<1>7. ASSUME NEW c \in Callers, AnalyzeAllow(c)
      PROVE  AllowRead
  BY <1>7 DEF AnalyzeAllow, Goto
<1>8. ASSUME NEW c \in Callers, AnalyzeBase(c)
      PROVE  AllowRead
  BY <1>8 DEF AnalyzeBase, Goto
<1>9. ASSUME NEW c \in Callers, SeedBaseline(c)
      PROVE  AllowRead
  BY <1>9 DEF SeedBaseline, Goto
<1>10. ASSUME NEW c \in Callers, SeedMark(c)
      PROVE  AllowRead
  BY <1>10 DEF SeedMark, Goto
<1>11. ASSUME NEW c \in Callers, ClearOld(c)
      PROVE  AllowRead
  BY <1>11 DEF ClearOld, Goto
<1>12. ASSUME NEW c \in Callers, WriteDeviations(c)
      PROVE  AllowRead
  BY <1>12 DEF WriteDeviations, Goto
<1>13. ASSUME NEW c \in Callers, BumpBaseline(c)
      PROVE  AllowRead
  BY <1>13 DEF BumpBaseline, Goto
<1>14. ASSUME NEW c \in Callers, AutoPromote(c)
      PROVE  AllowRead
  BY <1>14 DEF AutoPromote, Goto
<1>15. ASSUME NEW c \in Callers, Finish(c)
      PROVE  AllowRead
  BY <1>15 DEF Finish, CallbackReturns, Goto, UnmapTimer
<1>16. ASSUME NEW c \in Callers, FinishFound(c)
      PROVE  AllowRead
  BY <1>16 DEF FinishFound, Goto, UnmapTimer
<1>17. ASSUME NEW c \in Callers, Notify(c)
      PROVE  AllowRead
  BY <1>17 DEF Notify, CallbackReturns, Goto
<1>18. ASSUME NEW r \in Promotable, PromoteStart(r)
      PROVE  AllowRead
  BY <1>18 DEF PromoteStart
<1>19. CASE PromoteAllow
  BY <1>19 DEF PromoteAllow
<1>20. CASE PromoteMerge
  BY <1>20 DEF PromoteMerge, PromoteReset
<1>21. CASE PromoteMark
  BY <1>21 DEF PromoteMark, PromoteReset
<1>22. CASE PromoteClear
  BY <1>22 DEF PromoteClear, PromoteReset
<1>23. ASSUME NEW entry \in AllowEntries, AllowAdd(entry)
      PROVE  AllowRead
  BY <1>23 DEF AllowAdd
<1>24. ASSUME NEW entry \in AllowEntries, AllowRemove(entry)
      PROVE  AllowRead
  BY <1>24 DEF AllowRemove
<1>25. ASSUME NEW cutoff \in 1..nextId, PruneEvents(cutoff)
      PROVE  AllowRead
  BY <1>25 DEF PruneEvents
<1>26. CASE Restart
  BY <1>26 DEF Restart
<1>27. CASE UNCHANGED vars
  BY <1>27 DEF vars
<1>28. QED
  <2> HIDE DEF AllowRead
  <2> QED
    BY <1>1, <1>2, <1>3, <1>4, <1>5, <1>6, <1>7, <1>8, <1>9, <1>10, <1>11,
        <1>12, <1>13, <1>14, <1>15, <1>16, <1>17, <1>18, <1>19, <1>20, <1>21,
        <1>22, <1>23, <1>24, <1>25, <1>26, <1>27
       DEF Next, AnalyzeStep, PromoteStep

\* The rules in use stay covered by allowedEver.
LEMMA AllowStep ==
  ASSUME DifferTypes, OperatorTypes, AllowInv, [Next]_vars
  PROVE  AllowInv'
<1>1. AllowRead
  BY AllowReadStep
<1>2. allowedEver \subseteq allowedEver'
  BY <1>1 DEF AllowRead
<1>3. \A s, p : s \subseteq Suppressed(allowedEver, p) => s \subseteq Suppressed(allowedEver', p)
  BY <1>2 DEF Suppressed
<1>4. \A p : Suppressed(allow, p) \subseteq Suppressed(allowedEver, p)
  BY DEF Suppressed, AllowInv
<1>5. allow' \subseteq allowedEver'
  BY <1>1, <1>2 DEF AllowRead, AllowInv
<1>6. ASSUME NEW c \in Callers, cpc'[c] \in Reading \ {"allow"}
      PROVE  callow'[c] \subseteq Suppressed(allowedEver', PkgOf[crun'[c]])
  <2>1. /\ crun'[c] = crun[c]
        /\ \/ cpc[c] \in Reading \ {"allow"} /\ callow'[c] = callow[c]
           \/ callow'[c] \in {Suppressed(allow, PkgOf[crun[c]]), {}}
    BY <1>1, <1>6 DEF AllowRead
  <2>2. callow'[c] \subseteq Suppressed(allowedEver, PkgOf[crun[c]])
    BY <1>4, <2>1 DEF AllowInv
  <2>3. QED
    BY <1>3, <2>1, <2>2
<1>7. ASSUME opc' = "merge"
      PROVE  oallow' \subseteq Suppressed(allowedEver', PkgOf[orun'])
  <2>1. /\ orun' = orun
        /\ \/ opc = "merge" /\ oallow' = oallow
           \/ oallow' \in {Suppressed(allow, PkgOf[orun]), {}}
    BY <1>1, <1>7 DEF AllowRead
  <2>2. oallow' \subseteq Suppressed(allowedEver, PkgOf[orun])
    BY <1>4, <2>1 DEF AllowInv
  <2>3. QED
    BY <1>3, <2>1, <2>2
<1>8. QED
  BY <1>5, <1>6, <1>7 DEF AllowInv, Suppressed

-------------------------------------------------------------------------------
(* Promotion.  The operator's three calls are three transactions; that the   *)
(* last clears only what the first accepted takes a run that is over.        *)

PromoteInv ==
    /\ opc # "idle" => Over(orun)
    /\ opc \in {"allow", "merge"} => \A d \in RowsOf(orun) : \E e \in oevs : e.fp = d.fp
    /\ opc \in {"mark", "clear"} =>
          \A d \in RowsOf(orun) :
             d.fp \in LoadBaseline(PkgOf[orun]) \cup Suppressed(allowedEver, PkgOf[orun])

\* The course of a promotion.
PromoteMoves ==
    opc' # "idle" =>
        \/ \E r \in Promotable : PromoteStart(r)
        \/ /\ opc # "idle" /\ UNCHANGED <<orun, oevs>>
           /\ \/ opc \in {"allow", "merge"} /\ opc' \in {"allow", "merge"}
              \/ opc = "merge" /\ opc' = "mark" /\ UNCHANGED <<deviations, allowedEver>>
                 /\ MergeBaseline(orun, ExtractFingerprintsWith(oevs, oallow))
              \/ opc \in {"mark", "clear"} /\ opc' \in {"mark", "clear"}

\* What a step does to a promotion.
LEMMA PromoteMovesStep ==
  ASSUME OperatorTypes, [Next]_vars
  PROVE  PromoteMoves
<1> USE DEF PromoteMoves, OperatorTypes, OperatorPC, operator
<1>1. ASSUME NEW r \in Runs, NEW b \in Batches, PostEvents(r, b)
      PROVE  PromoteMoves
  BY <1>1 DEF PostEvents
<1>2. ASSUME NEW r \in Runs, FinishPost(r)
      PROVE  PromoteMoves
  BY <1>2 DEF FinishPost, ScheduleDiffer
<1>3. ASSUME NEW r \in Runs, NEW final \in Results, ScanResult(r, final)
      PROVE  PromoteMoves
  BY <1>3 DEF ScanResult
<1>4. ASSUME NEW r \in Runs, NEW c \in Callers, Fire(r, c)
      PROVE  PromoteMoves
  BY <1>4 DEF Fire
<1>5. ASSUME NEW r \in Runs, Retire(r)
      PROVE  PromoteMoves
  BY <1>5 DEF Retire
<1>6. ASSUME NEW c \in Callers, AnalyzeList(c)
      PROVE  PromoteMoves
  BY <1>6 DEF AnalyzeList, Goto
<1>7. ASSUME NEW c \in Callers, AnalyzeAllow(c)
      PROVE  PromoteMoves
  BY <1>7 DEF AnalyzeAllow, Goto
<1>8. ASSUME NEW c \in Callers, AnalyzeBase(c)
      PROVE  PromoteMoves
  BY <1>8 DEF AnalyzeBase, Goto
<1>9. ASSUME NEW c \in Callers, SeedBaseline(c)
      PROVE  PromoteMoves
  BY <1>9 DEF SeedBaseline, Goto
<1>10. ASSUME NEW c \in Callers, SeedMark(c)
      PROVE  PromoteMoves
  BY <1>10 DEF SeedMark, Goto
<1>11. ASSUME NEW c \in Callers, ClearOld(c)
      PROVE  PromoteMoves
  BY <1>11 DEF ClearOld, Goto
<1>12. ASSUME NEW c \in Callers, WriteDeviations(c)
      PROVE  PromoteMoves
  BY <1>12 DEF WriteDeviations, Goto
<1>13. ASSUME NEW c \in Callers, BumpBaseline(c)
      PROVE  PromoteMoves
  BY <1>13 DEF BumpBaseline, Goto
<1>14. ASSUME NEW c \in Callers, AutoPromote(c)
      PROVE  PromoteMoves
  BY <1>14 DEF AutoPromote, Goto
<1>15. ASSUME NEW c \in Callers, Finish(c)
      PROVE  PromoteMoves
  BY <1>15 DEF Finish, CallbackReturns, Goto, UnmapTimer
<1>16. ASSUME NEW c \in Callers, FinishFound(c)
      PROVE  PromoteMoves
  BY <1>16 DEF FinishFound, Goto, UnmapTimer
<1>17. ASSUME NEW c \in Callers, Notify(c)
      PROVE  PromoteMoves
  BY <1>17 DEF Notify, CallbackReturns, Goto
<1>18. ASSUME NEW r \in Promotable, PromoteStart(r)
      PROVE  PromoteMoves
  BY <1>18 DEF PromoteMoves
<1>19. CASE PromoteAllow
  BY <1>19 DEF PromoteAllow
<1>20. CASE PromoteMerge
  BY <1>20 DEF PromoteMerge, PromoteReset, history
<1>21. CASE PromoteMark
  BY <1>21 DEF PromoteMark, PromoteReset
<1>22. CASE PromoteClear
  BY <1>22 DEF PromoteClear, PromoteReset
<1>23. ASSUME NEW entry \in AllowEntries, AllowAdd(entry)
      PROVE  PromoteMoves
  BY <1>23 DEF AllowAdd
<1>24. ASSUME NEW entry \in AllowEntries, AllowRemove(entry)
      PROVE  PromoteMoves
  BY <1>24 DEF AllowRemove
<1>25. ASSUME NEW cutoff \in 1..nextId, PruneEvents(cutoff)
      PROVE  PromoteMoves
  BY <1>25 DEF PruneEvents
<1>26. CASE Restart
  BY <1>26 DEF Restart
<1>27. CASE UNCHANGED vars
  BY <1>27 DEF vars
<1>28. QED
  <2> HIDE DEF PromoteMoves
  <2> QED
    BY <1>1, <1>2, <1>3, <1>4, <1>5, <1>6, <1>7, <1>8, <1>9, <1>10, <1>11,
        <1>12, <1>13, <1>14, <1>15, <1>16, <1>17, <1>18, <1>19, <1>20, <1>21,
        <1>22, <1>23, <1>24, <1>25, <1>26, <1>27
       DEF Next, AnalyzeStep, PromoteStep

\* When a promotion starts, it reads an event for every finding of the run.
LEMMA PromoteReads ==
  ASSUME DbTypes, EvidenceInv, NEW r \in Runs, NEW d \in RowsOf(r)
  PROVE  \E e \in ListEventsByRun(r) : e.fp = d.fp
<1>1. d \in deviations /\ d.run = r
  BY DEF RowsOf
<1>2. PICK e \in events : e.id = d.evidence /\ e.run = d.run /\ e.fp = d.fp
  BY <1>1 DEF EvidenceInv
<1>3. Listed(r, e.id)
  BY <1>1, <1>2 DEF EvidenceInv
<1>4. e \in ListEventsByRun(r)
  BY <1>1, <1>2, <1>3 DEF ListEventsByRun, EventsOf, Listed, Older
<1>5. QED
  BY <1>2, <1>4

\* The findings of the promoted run stay covered.
LEMMA PromoteInvStep ==
  ASSUME ~PromoteAnytime, TypeOK, AllowInv, EvidenceInv, PromoteInv, [Next]_vars
  PROVE  PromoteInv'
<1> USE DEF TypeOK
<1>1. CASE opc' = "idle"
  BY <1>1 DEF PromoteInv
<1>2. ASSUME NEW r \in Promotable, PromoteStart(r)
      PROVE  PromoteInv'
  <2>1. /\ r \in Runs /\ orun' = r /\ oevs' = ListEventsByRun(r) /\ opc' = "allow"
        /\ UNCHANGED <<db, server, differ>> /\ StreamOver(r) /\ Quiet(r)
    BY <1>2, PromotableAssumption DEF PromoteStart
  <2>2. Over(r)'
    BY <2>1 DEF Over, Settled, TimerPending, StreamOver, Idle, Quiet, server, differ
  <2>3. Over(orun)'
    BY <2>1, <2>2 DEF Over, Settled, TimerPending, StreamOver, Idle
  <2>4. \A d \in RowsOf(r) : \E e \in oevs' : e.fp = d.fp
    BY <2>1, PromoteReads
  <2>5. RowsOf(orun)' = RowsOf(r)
    BY <2>1 DEF RowsOf, db
  <2>6. QED
    BY <2>1, <2>3, <2>4, <2>5 DEF PromoteInv
<1>3. ASSUME opc # "idle", opc' # "idle", UNCHANGED <<orun, oevs>>,
             \/ opc \in {"allow", "merge"} /\ opc' \in {"allow", "merge"}
             \/ opc = "merge" /\ opc' = "mark" /\ UNCHANGED <<deviations, allowedEver>>
                /\ MergeBaseline(orun, ExtractFingerprintsWith(oevs, oallow))
             \/ opc \in {"mark", "clear"} /\ opc' \in {"mark", "clear"}
      PROVE  PromoteInv'
  <2>1. PICK r \in Runs : r = orun
    BY <1>3 DEF OperatorTypes
  <2>2. PkgOf[r] # NoPkg
    BY <1>3, <2>1 DEF OperatorTypes
  <2>3. PICK p \in Packages : p = PkgOf[r]
    BY <2>2, PkgOfAssumption
  <2>4. Over(r)
    BY <1>3, <2>1 DEF PromoteInv, Over, Settled, TimerPending, StreamOver, Idle
  <2>5. Over(r)' /\ RowsOf(r)' \subseteq RowsOf(r)
    BY <2>4, OverStays, OverRows
  <2>6. Over(orun)' /\ RowsOf(orun)' \subseteq RowsOf(orun)
    BY <1>3, <2>1, <2>5 DEF Over, Settled, TimerPending, StreamOver, Idle, RowsOf
  <2>7. CASE opc \in {"allow", "merge"} /\ opc' \in {"allow", "merge"}
    BY <1>3, <2>6, <2>7 DEF PromoteInv
  <2>8. CASE /\ opc = "merge" /\ opc' = "mark" /\ UNCHANGED <<deviations, allowedEver>>
             /\ MergeBaseline(orun, ExtractFingerprintsWith(oevs, oallow))
    <3>1. \A fp \in FPs : fp \in ExtractFingerprintsWith(oevs, oallow) =>
                             baseline'[p][fp] # NoRun
      <4>1. MergeBaseline(r, ExtractFingerprintsWith(oevs, oallow))
        BY <2>1, <2>8
      <4>2. \A fp \in FPs :
               baseline'[p][fp] = IF /\ p = PkgOf[r] /\ fp \in ExtractFingerprintsWith(oevs, oallow)
                                     /\ baseline[p][fp] = NoRun
                                  THEN r ELSE baseline[p][fp]
        BY <2>2, <2>3, <4>1, Merged DEF DbTypes
      <4>3. QED
        BY <2>3, <4>2, NullsAssumption
    <3>2. ASSUME NEW d \in RowsOf(orun)
          PROVE  d.fp \in LoadBaseline(p)' \/ d.fp \in Suppressed(allowedEver, p)
      <4>1. d.fp \in FPs
        BY DEF RowsOf, DbTypes, DeviationRow
      <4>2. PICK e \in oevs : e.fp = d.fp
        BY <2>8 DEF PromoteInv
      <4>3. CASE d.fp \in oallow
        BY <2>1, <2>3, <2>8, <4>3 DEF AllowInv
      <4>4. CASE d.fp \notin oallow
        <5>1. d.fp \in ExtractFingerprintsWith(oevs, oallow)
          BY <4>1, <4>2, <4>4, NullsAssumption DEF ExtractFingerprintsWith
        <5>2. QED
          BY <3>1, <4>1, <5>1 DEF LoadBaseline
      <4>5. QED
        BY <4>3, <4>4
    <3>3. /\ LoadBaseline(PkgOf[orun])' = LoadBaseline(p)'
          /\ Suppressed(allowedEver, PkgOf[orun])' = Suppressed(allowedEver, p)
      BY <1>3, <2>1, <2>3, <2>8 DEF LoadBaseline, Suppressed
    <3>4. RowsOf(orun)' \subseteq RowsOf(orun)
      BY <2>6
    <3>5. QED
      BY <2>6, <2>8, <3>2, <3>3, <3>4 DEF PromoteInv
  <2>9. CASE opc \in {"mark", "clear"} /\ opc' \in {"mark", "clear"}
    <3>1. LoadBaseline(p) \subseteq LoadBaseline(p)'
      BY KnownStep DEF KnownStays, LoadBaseline
    <3>2. Suppressed(allowedEver, p) \subseteq Suppressed(allowedEver', p)
      BY AllowReadStep DEF AllowRead, Suppressed
    <3>3. /\ LoadBaseline(PkgOf[orun])' = LoadBaseline(p)'
          /\ Suppressed(allowedEver, PkgOf[orun])' = Suppressed(allowedEver', p)
      BY <1>3, <2>1, <2>3 DEF LoadBaseline, Suppressed
    <3>4. QED
      BY <1>3, <2>1, <2>3, <2>6, <2>9, <3>1, <3>2, <3>3 DEF PromoteInv
  <2>10. QED
    BY <1>3, <2>7, <2>8, <2>9
<1>4. QED
  BY <1>1, <1>2, <1>3, PromoteMovesStep DEF PromoteMoves

PromotionInv == StoreInv /\ AllowInv /\ PromoteInv

\* The state of a promotion, given that the operator waits for the end of the run.
LEMMA PromotionAlways ==
  ASSUME ~PromoteAnytime
  PROVE  Spec => []PromotionInv
<1>1. Init => AllowInv /\ PromoteInv
  BY DEF Init, AllowInv, PromoteInv, Reading
<1>2. StoreInv /\ AllowInv /\ PromoteInv /\ [Next]_vars => AllowInv' /\ PromoteInv'
  BY AllowStep, PromoteInvStep DEF StoreInv, TypeOK
<1>3. QED
  BY <1>1, <1>2, StoreAlways, PTL DEF Spec, PromotionInv

\* Promoting a run that is over clears only findings whose fingerprints it has
\* accepted into the baseline, or that an operator has suppressed: whatever
\* fails, overlaps or crashes, and also when retention prunes the run's events
\* or the rules change between the operator's calls.
THEOREM PromotionAccepts ==
  ASSUME ~PromoteAnytime
  PROVE  Spec => PromotionAcceptsWhatItClears
<1> DEFINE Accepts ==
      \A d \in deviations \ deviations' :
          opc = "clear" /\ opc' = "idle" =>
              d.fp \in LoadBaseline(PkgOf[orun]) \cup Suppressed(allowedEver, PkgOf[orun])
<1>1. PromotionInv /\ [Next]_vars => [Accepts]_vars
  <2>1. SUFFICES ASSUME PromotionInv, [Next]_vars, opc = "clear", opc' = "idle",
                        NEW d \in deviations \ deviations'
                 PROVE  d.fp \in LoadBaseline(PkgOf[orun]) \cup Suppressed(allowedEver, PkgOf[orun])
    OBVIOUS
  <2>2. orun = d.run
    BY <2>1, ClearedStep DEF OnlyCleared
  <2>3. QED
    BY <2>1, <2>2 DEF PromotionInv, PromoteInv, RowsOf
<1> SUFFICES Spec => [][Accepts]_vars
  BY DEF PromotionAcceptsWhatItClears
<1> HIDE DEF Accepts
<1>2. QED
  BY <1>1, PromotionAlways, PTL DEF Spec

-------------------------------------------------------------------------------
(* One row per finding.  Both hypotheses are needed: a second analysis of the  *)
(* run, or a failed delete, leaves the earlier rows in place.                  *)

\* Timers of one run fire one after the other.
OneCaller == \A c1, c2 \in Callers : crun[c1] = crun[c2] /\ crun[c1] # NoRun => c1 = c2

\* Without overlap, a run is analysed by one callback at a time.
LEMMA OneCallerStep ==
  ASSUME ~Overlap, DifferTypes, OneCaller, [Next]_vars
  PROVE  OneCaller'
<1> USE DEF OneCaller, differ
<1> SUFFICES ASSUME crun \in [Callers -> Runs \cup {NoRun}]
             PROVE  OneCaller'
  BY DEF DifferTypes
<1>1. ASSUME NEW r \in Runs, NEW b \in Batches, PostEvents(r, b)
      PROVE  OneCaller'
  BY <1>1 DEF PostEvents
<1>2. ASSUME NEW r \in Runs, FinishPost(r)
      PROVE  OneCaller'
  BY <1>2 DEF FinishPost
<1>3. ASSUME NEW r \in Runs, NEW final \in Results, ScanResult(r, final)
      PROVE  OneCaller'
  BY <1>3 DEF ScanResult
<1>4. ASSUME NEW r \in Runs, NEW c \in Callers, Fire(r, c)
      PROVE  OneCaller'
  BY <1>4 DEF Fire, Idle
<1>5. ASSUME NEW r \in Runs, Retire(r)
      PROVE  OneCaller'
  BY <1>5 DEF Retire
<1>6. ASSUME NEW c \in Callers, AnalyzeList(c)
      PROVE  OneCaller'
  BY <1>6 DEF AnalyzeList
<1>7. ASSUME NEW c \in Callers, AnalyzeAllow(c)
      PROVE  OneCaller'
  BY <1>7 DEF AnalyzeAllow
<1>8. ASSUME NEW c \in Callers, AnalyzeBase(c)
      PROVE  OneCaller'
  BY <1>8 DEF AnalyzeBase
<1>9. ASSUME NEW c \in Callers, SeedBaseline(c)
      PROVE  OneCaller'
  BY <1>9 DEF SeedBaseline
<1>10. ASSUME NEW c \in Callers, SeedMark(c)
      PROVE  OneCaller'
  BY <1>10 DEF SeedMark
<1>11. ASSUME NEW c \in Callers, ClearOld(c)
      PROVE  OneCaller'
  BY <1>11 DEF ClearOld
<1>12. ASSUME NEW c \in Callers, WriteDeviations(c)
      PROVE  OneCaller'
  BY <1>12 DEF WriteDeviations
<1>13. ASSUME NEW c \in Callers, BumpBaseline(c)
      PROVE  OneCaller'
  BY <1>13 DEF BumpBaseline
<1>14. ASSUME NEW c \in Callers, AutoPromote(c)
      PROVE  OneCaller'
  BY <1>14 DEF AutoPromote
<1>15. ASSUME NEW c \in Callers, Finish(c)
      PROVE  OneCaller'
  BY <1>15 DEF Finish, CallbackReturns
<1>16. ASSUME NEW c \in Callers, FinishFound(c)
      PROVE  OneCaller'
  BY <1>16 DEF FinishFound
<1>17. ASSUME NEW c \in Callers, Notify(c)
      PROVE  OneCaller'
  BY <1>17 DEF Notify, CallbackReturns
<1>18. ASSUME NEW r \in Promotable, PromoteStart(r)
      PROVE  OneCaller'
  BY <1>18 DEF PromoteStart
<1>19. CASE PromoteAllow
  BY <1>19 DEF PromoteAllow
<1>20. CASE PromoteMerge
  BY <1>20 DEF PromoteMerge
<1>21. CASE PromoteMark
  BY <1>21 DEF PromoteMark
<1>22. CASE PromoteClear
  BY <1>22 DEF PromoteClear
<1>23. ASSUME NEW entry \in AllowEntries, AllowAdd(entry)
      PROVE  OneCaller'
  BY <1>23 DEF AllowAdd
<1>24. ASSUME NEW entry \in AllowEntries, AllowRemove(entry)
      PROVE  OneCaller'
  BY <1>24 DEF AllowRemove
<1>25. ASSUME NEW cutoff \in 1..nextId, PruneEvents(cutoff)
      PROVE  OneCaller'
  BY <1>25 DEF PruneEvents
<1>26. CASE Restart
  BY <1>26 DEF Restart
<1>27. CASE UNCHANGED vars
  BY <1>27 DEF vars
<1>28. QED
  <2> HIDE DEF OneCaller
  <2> QED
    BY <1>1, <1>2, <1>3, <1>4, <1>5, <1>6, <1>7, <1>8, <1>9, <1>10, <1>11,
        <1>12, <1>13, <1>14, <1>15, <1>16, <1>17, <1>18, <1>19, <1>20, <1>21,
        <1>22, <1>23, <1>24, <1>25, <1>26, <1>27
       DEF Next, AnalyzeStep, PromoteStep

\* Between the delete and the insert of an analysis its run has no findings.
CleanInv == \A c \in Callers : cpc[c] = "write" => RowsOf(crun[c]) = {}

\* An analysis gets to its insert by its delete.
Cleans ==
    \A k \in Callers : cpc'[k] = "write" =>
        /\ crun'[k] = crun[k]
        /\ cpc[k] = "write" \/ (cpc[k] = "delete" /\ deviations' = deviations \ RowsOf(crun[k]))

\* What a step does to an analysis before its insert.
LEMMA CleansStep ==
  ASSUME ~StoreFaults, DifferTypes, [Next]_vars
  PROVE  Cleans
<1> USE DEF Cleans, DifferTypes, differ
<1>1. ASSUME NEW r \in Runs, NEW b \in Batches, PostEvents(r, b)
      PROVE  Cleans
  BY <1>1 DEF PostEvents
<1>2. ASSUME NEW r \in Runs, FinishPost(r)
      PROVE  Cleans
  BY <1>2 DEF FinishPost, ScheduleDiffer
<1>3. ASSUME NEW r \in Runs, NEW final \in Results, ScanResult(r, final)
      PROVE  Cleans
  BY <1>3 DEF ScanResult
<1>4. ASSUME NEW r \in Runs, NEW c \in Callers, Fire(r, c)
      PROVE  Cleans
  BY <1>4 DEF Fire
<1>5. ASSUME NEW r \in Runs, Retire(r)
      PROVE  Cleans
  BY <1>5 DEF Retire
<1>6. ASSUME NEW c \in Callers, AnalyzeList(c)
      PROVE  Cleans
  BY <1>6 DEF AnalyzeList, Goto
<1>7. ASSUME NEW c \in Callers, AnalyzeAllow(c)
      PROVE  Cleans
  BY <1>7 DEF AnalyzeAllow, Goto
<1>8. ASSUME NEW c \in Callers, AnalyzeBase(c)
      PROVE  Cleans
  BY <1>8 DEF AnalyzeBase, Goto
<1>9. ASSUME NEW c \in Callers, SeedBaseline(c)
      PROVE  Cleans
  BY <1>9 DEF SeedBaseline, Goto
<1>10. ASSUME NEW c \in Callers, SeedMark(c)
      PROVE  Cleans
  BY <1>10 DEF SeedMark, Goto
<1>11. ASSUME NEW c \in Callers, ClearOld(c)
      PROVE  Cleans
  BY <1>11 DEF ClearOld, Goto, DeleteDeviationsForRun
<1>12. ASSUME NEW c \in Callers, WriteDeviations(c)
      PROVE  Cleans
  BY <1>12 DEF WriteDeviations, Goto
<1>13. ASSUME NEW c \in Callers, BumpBaseline(c)
      PROVE  Cleans
  BY <1>13 DEF BumpBaseline, Goto
<1>14. ASSUME NEW c \in Callers, AutoPromote(c)
      PROVE  Cleans
  BY <1>14 DEF AutoPromote, Goto
<1>15. ASSUME NEW c \in Callers, Finish(c)
      PROVE  Cleans
  BY <1>15 DEF Finish, CallbackReturns, Goto, UnmapTimer
<1>16. ASSUME NEW c \in Callers, FinishFound(c)
      PROVE  Cleans
  BY <1>16 DEF FinishFound, Goto, UnmapTimer
<1>17. ASSUME NEW c \in Callers, Notify(c)
      PROVE  Cleans
  BY <1>17 DEF Notify, CallbackReturns, Goto
<1>18. ASSUME NEW r \in Promotable, PromoteStart(r)
      PROVE  Cleans
  BY <1>18 DEF PromoteStart
<1>19. CASE PromoteAllow
  BY <1>19 DEF PromoteAllow
<1>20. CASE PromoteMerge
  BY <1>20 DEF PromoteMerge, PromoteReset
<1>21. CASE PromoteMark
  BY <1>21 DEF PromoteMark, PromoteReset
<1>22. CASE PromoteClear
  BY <1>22 DEF PromoteClear, PromoteReset
<1>23. ASSUME NEW entry \in AllowEntries, AllowAdd(entry)
      PROVE  Cleans
  BY <1>23 DEF AllowAdd
<1>24. ASSUME NEW entry \in AllowEntries, AllowRemove(entry)
      PROVE  Cleans
  BY <1>24 DEF AllowRemove
<1>25. ASSUME NEW cutoff \in 1..nextId, PruneEvents(cutoff)
      PROVE  Cleans
  BY <1>25 DEF PruneEvents
<1>26. CASE Restart
  BY <1>26 DEF Restart
<1>27. CASE UNCHANGED vars
  BY <1>27 DEF vars
<1>28. QED
  <2> HIDE DEF Cleans
  <2> QED
    BY <1>1, <1>2, <1>3, <1>4, <1>5, <1>6, <1>7, <1>8, <1>9, <1>10, <1>11,
        <1>12, <1>13, <1>14, <1>15, <1>16, <1>17, <1>18, <1>19, <1>20, <1>21,
        <1>22, <1>23, <1>24, <1>25, <1>26, <1>27
       DEF Next, AnalyzeStep, PromoteStep

\* A new row is the finding of an analysis whose run has no other rows.
LEMMA StackStep ==
  ASSUME ~Overlap, ~StoreFaults, DifferTypes, HistoryTypes, OneCaller, CleanInv, NotStacked,
         [Next]_vars
  PROVE  CleanInv' /\ NotStacked'
<1>1. Backed /\ Cleans
  BY BackedStep, CleansStep
<1>2. \A d \in deviations' : d \notin deviations =>
        \E c \in Callers : /\ cpc[c] = "write" /\ crun[c] = d.run /\ d \in Findings(c)
                           /\ crun[c] # NoRun /\ cpc'[c] # "write"
  <2>1. SUFFICES ASSUME NEW d \in deviations', d \notin deviations
                 PROVE  \E c \in Callers : /\ cpc[c] = "write" /\ crun[c] = d.run /\ d \in Findings(c)
                                           /\ crun[c] # NoRun /\ cpc'[c] # "write"
    OBVIOUS
  <2>2. PICK c \in Callers : cpc[c] = "write" /\ d \in Findings(c) /\ cpc' = [cpc EXCEPT ![c] = "bump"]
    BY <1>1, <2>1 DEF Backed
  <2>3. d.run = crun[c]
    BY <2>2, Written DEF HistoryTypes
  <2>4. crun[c] # NoRun /\ cpc'[c] = "bump"
    BY <2>2 DEF DifferTypes
  <2>5. QED
    BY <2>2, <2>3, <2>4
<1>3. ASSUME NEW c \in Callers, cpc'[c] = "write", NEW d \in deviations', d.run = crun'[c]
      PROVE  FALSE
  <2>1. /\ crun'[c] = crun[c]
        /\ cpc[c] = "write" \/ (cpc[c] = "delete" /\ deviations' = deviations \ RowsOf(crun[c]))
    BY <1>1, <1>3 DEF Cleans
  <2>2. d \notin deviations
    BY <1>3, <2>1 DEF CleanInv, RowsOf
  <2>3. PICK k \in Callers : cpc[k] = "write" /\ crun[k] = d.run /\ crun[k] # NoRun /\ cpc'[k] # "write"
    BY <1>2, <2>2
  <2>4. k = c
    BY <1>3, <2>1, <2>3 DEF OneCaller
  <2>5. QED
    BY <1>3, <2>3, <2>4
<1>4. ASSUME NEW d1 \in deviations', NEW d2 \in deviations', d1.run = d2.run, d1.fp = d2.fp
      PROVE  d1 = d2
  <2>1. CASE d1 \in deviations /\ d2 \in deviations
    BY <1>4, <2>1 DEF NotStacked
  <2>2. CASE d1 \notin deviations /\ d2 \in deviations
    BY <1>2, <1>4, <2>2 DEF CleanInv, RowsOf
  <2>3. CASE d1 \in deviations /\ d2 \notin deviations
    BY <1>2, <1>4, <2>3 DEF CleanInv, RowsOf
  <2>4. CASE d1 \notin deviations /\ d2 \notin deviations
    <3>1. PICK c \in Callers : /\ cpc[c] = "write" /\ crun[c] = d1.run /\ d1 \in Findings(c)
                               /\ crun[c] # NoRun
      BY <1>2, <2>4
    <3>2. PICK k \in Callers : crun[k] = d2.run /\ d2 \in Findings(k)
      BY <1>2, <2>4
    <3>3. c = k
      BY <1>4, <3>1, <3>2 DEF OneCaller
    <3>4. QED
      BY <1>4, <3>1, <3>2, <3>3, Written DEF HistoryTypes
  <2>5. QED
    BY <2>1, <2>2, <2>3, <2>4
<1>5. CleanInv'
  BY <1>3 DEF CleanInv, RowsOf
<1>6. NotStacked'
  BY <1>4 DEF NotStacked
<1>7. QED
  BY <1>5, <1>6

StackInv == OneCaller /\ CleanInv /\ NotStacked

\* A re-analysis replaces the findings of the one before it: as long as the
\* analyses of a run do not overlap and the delete works, no finding has two
\* rows, through restarts in the middle of an analysis too.
THEOREM Unstacked ==
  ASSUME ~Overlap, ~StoreFaults
  PROVE  Spec => []NotStacked
<1>1. Init => StackInv
  BY DEF Init, StackInv, OneCaller, CleanInv, NotStacked
<1>2. TypeOK /\ StackInv /\ [Next]_vars => StackInv'
  BY OneCallerStep, StackStep DEF StackInv, TypeOK
<1>3. StackInv => NotStacked
  BY DEF StackInv
<1>4. QED
  BY <1>1, <1>2, <1>3, TypeCorrect, PTL DEF Spec

-------------------------------------------------------------------------------
(* Alerts.                                                                     *)

\* Callback k is between the insert of findings and the notifier.
Alerting(k) ==
    /\ cpc[k] \in {"bump", "found", "notify"}
    /\ cpc[k] = "bump" => Novel(k) # {}

\* A run with findings was alerted, or an analysis is on its way to do so.
AlertInv ==
    \A r \in Runs : RowsOf(r) # {} =>
        r \in alerted \/ \E k \in Callers : crun[k] = r /\ Alerting(k)

\* An analysis that found something gets to the notifier.
AlertMoves ==
    /\ alerted \subseteq alerted'
    /\ \A k \in Callers : Alerting(k) =>
        \/ crun'[k] = crun[k] /\ Alerting(k)'
        \/ (RowsOf(crun[k]) # {} => crun[k] \in alerted') /\ UNCHANGED deviations

\* Whether there is something new depends only on what the callback holds.
LEMMA NovelFrame ==
  ASSUME NEW k \in Callers, cevs'[k] = cevs[k], callow'[k] = callow[k], cbase'[k] = cbase[k]
  PROVE  Novel(k)' = Novel(k)
BY DEF Novel, RunFPs, ExtractFingerprintsWith

\* What a step does to a callback with findings.
LEMMA AlertMovesStep ==
  ASSUME ~StoreFaults, ~Crashes, DifferTypes, [Next]_vars
  PROVE  AlertMoves
<1> USE NovelFrame DEF AlertMoves, Alerting, DifferTypes, differ, history
<1>1. ASSUME NEW r \in Runs, NEW b \in Batches, PostEvents(r, b)
      PROVE  AlertMoves
  BY <1>1 DEF PostEvents
<1>2. ASSUME NEW r \in Runs, FinishPost(r)
      PROVE  AlertMoves
  BY <1>2 DEF FinishPost, ScheduleDiffer
<1>3. ASSUME NEW r \in Runs, NEW final \in Results, ScanResult(r, final)
      PROVE  AlertMoves
  BY <1>3 DEF ScanResult
<1>4. ASSUME NEW r \in Runs, NEW c \in Callers, Fire(r, c)
      PROVE  AlertMoves
  BY <1>4 DEF Fire
<1>5. ASSUME NEW r \in Runs, Retire(r)
      PROVE  AlertMoves
  BY <1>5 DEF Retire
<1>6. ASSUME NEW c \in Callers, AnalyzeList(c)
      PROVE  AlertMoves
  BY <1>6 DEF AnalyzeList, Goto
<1>7. ASSUME NEW c \in Callers, AnalyzeAllow(c)
      PROVE  AlertMoves
  BY <1>7 DEF AnalyzeAllow, Goto
<1>8. ASSUME NEW c \in Callers, AnalyzeBase(c)
      PROVE  AlertMoves
  BY <1>8 DEF AnalyzeBase, Goto
<1>9. ASSUME NEW c \in Callers, SeedBaseline(c)
      PROVE  AlertMoves
  BY <1>9 DEF SeedBaseline, Goto
<1>10. ASSUME NEW c \in Callers, SeedMark(c)
      PROVE  AlertMoves
  BY <1>10 DEF SeedMark, Goto
<1>11. ASSUME NEW c \in Callers, ClearOld(c)
      PROVE  AlertMoves
  BY <1>11 DEF ClearOld, Goto
<1>12. ASSUME NEW c \in Callers, WriteDeviations(c)
      PROVE  AlertMoves
  BY <1>12 DEF WriteDeviations, Goto
<1>13. ASSUME NEW c \in Callers, BumpBaseline(c)
      PROVE  AlertMoves
  BY <1>13 DEF BumpBaseline, Goto
<1>14. ASSUME NEW c \in Callers, AutoPromote(c)
      PROVE  AlertMoves
  BY <1>14 DEF AutoPromote, Goto
<1>15. ASSUME NEW c \in Callers, Finish(c)
      PROVE  AlertMoves
  BY <1>15 DEF Finish, CallbackReturns, Goto, UnmapTimer
<1>16. ASSUME NEW c \in Callers, FinishFound(c)
      PROVE  AlertMoves
  BY <1>16 DEF FinishFound, Goto, UnmapTimer
<1>17. ASSUME NEW c \in Callers, Notify(c)
      PROVE  AlertMoves
  BY <1>17 DEF Notify, CallbackReturns, Goto, db
<1>18. ASSUME NEW r \in Promotable, PromoteStart(r)
      PROVE  AlertMoves
  BY <1>18 DEF PromoteStart
<1>19. CASE PromoteAllow
  BY <1>19 DEF PromoteAllow
<1>20. CASE PromoteMerge
  BY <1>20 DEF PromoteMerge, PromoteReset
<1>21. CASE PromoteMark
  BY <1>21 DEF PromoteMark, PromoteReset
<1>22. CASE PromoteClear
  BY <1>22 DEF PromoteClear, PromoteReset
<1>23. ASSUME NEW entry \in AllowEntries, AllowAdd(entry)
      PROVE  AlertMoves
  BY <1>23 DEF AllowAdd
<1>24. ASSUME NEW entry \in AllowEntries, AllowRemove(entry)
      PROVE  AlertMoves
  BY <1>24 DEF AllowRemove
<1>25. ASSUME NEW cutoff \in 1..nextId, PruneEvents(cutoff)
      PROVE  AlertMoves
  BY <1>25 DEF PruneEvents
<1>26. CASE Restart
  BY <1>26 DEF Restart
<1>27. CASE UNCHANGED vars
  BY <1>27 DEF vars
<1>28. QED
  <2> HIDE DEF AlertMoves
  <2> QED
    BY <1>1, <1>2, <1>3, <1>4, <1>5, <1>6, <1>7, <1>8, <1>9, <1>10, <1>11,
        <1>12, <1>13, <1>14, <1>15, <1>16, <1>17, <1>18, <1>19, <1>20, <1>21,
        <1>22, <1>23, <1>24, <1>25, <1>26, <1>27
       DEF Next, AnalyzeStep, PromoteStep

\* The way to the notifier is never cut short.
LEMMA AlertStep ==
  ASSUME ~StoreFaults, ~Crashes, TypeOK, AlertInv, [Next]_vars
  PROVE  AlertInv'
<1> USE DEF TypeOK
<1>1. Backed /\ AlertMoves
  BY BackedStep, AlertMovesStep
<1>2. SUFFICES ASSUME NEW r \in Runs, NEW d \in deviations', d.run = r
               PROVE  r \in alerted' \/ \E k \in Callers : crun'[k] = r /\ Alerting(k)'
  BY DEF AlertInv, RowsOf
<1>3. CASE d \in deviations
  <2>1. RowsOf(r) # {}
    BY <1>2, <1>3 DEF RowsOf
  <2>2. CASE r \in alerted
    BY <1>1, <2>2 DEF AlertMoves
  <2>3. ASSUME NEW k \in Callers, crun[k] = r, Alerting(k)
        PROVE  r \in alerted' \/ \E c \in Callers : crun'[c] = r /\ Alerting(c)'
    BY <1>1, <2>1, <2>3 DEF AlertMoves
  <2>4. QED
    BY <2>1, <2>2, <2>3 DEF AlertInv
<1>4. CASE d \notin deviations
  <2>1. PICK c \in Callers :
          /\ cpc[c] = "write" /\ d \in Findings(c)
          /\ cpc' = [cpc EXCEPT ![c] = "bump"] /\ UNCHANGED <<crun, cevs, callow, cbase>>
    BY <1>1, <1>4 DEF Backed
  <2>2. d.run = crun[c] /\ Novel(c) # {}
    BY <2>1, Written DEF HistoryTypes
  <2>3. Novel(c)' = Novel(c)
    BY <2>1, NovelFrame
  <2>4. cpc'[c] = "bump" /\ crun'[c] = crun[c]
    BY <2>1 DEF DifferTypes
  <2>5. Alerting(c)'
    BY <2>2, <2>3, <2>4 DEF Alerting
  <2>6. QED
    BY <1>2, <2>2, <2>4, <2>5
<1>5. QED
  BY <1>3, <1>4

\* A run whose findings are stored and for which nothing is under way was handed
\* to the notifier, which had something to send: even when analyses of the run
\* overlap and one deletes what the other is about to announce.  A crash or a
\* failed call between the insert and the alert does lose it.
THEOREM Alerted ==
  ASSUME ~StoreFaults, ~Crashes
  PROVE  Spec => []FindingsAreAlerted
<1>1. Init => AlertInv
  BY DEF Init, AlertInv, RowsOf
<1>2. TypeOK /\ AlertInv /\ [Next]_vars => AlertInv'
  BY AlertStep
<1>3. TypeOK /\ AlertInv => FindingsAreAlerted
  BY DEF AlertInv, FindingsAreAlerted, Reported, Quiet, Idle
<1>4. QED
  BY <1>1, <1>2, <1>3, TypeCorrect, PTL DEF Spec

-------------------------------------------------------------------------------
(* Everything observed is accounted for.  The invariant follows an analysis:   *)
(* as long as no further request or timer of the run is under way, what its     *)
(* events show is in the hands of the one analysis of the run, step by step,    *)
(* until it is in the baseline or reported.                                     *)

\* Events past the retention window belong to runs that are over.
RetiredInv == \A r \in retired : Over(r)

\* The events an analysis holds are in the store, so that its insert succeeds.
Stored == \A c \in Callers : cpc[c] \in Reading => cevs[c] \subseteq events

\* The last steps of an analysis, when its results are in the store.
Late == {"seedmark", "bump", "mark", "finish", "found", "notify"}

\* What callback c has to know of its run, by the step it is at.
Stage(c) ==
    /\ cpc[c] = "allow" => Observed(crun[c]) \subseteq {e.fp : e \in cevs[c]}
    /\ cpc[c] \in {"base", "seed", "delete", "write"} => Observed(crun[c]) \subseteq RunFPs(c)
    /\ cpc[c] \in Late => Accounted(crun[c])

AccountInv ==
    \A r \in Runs : PkgOf[r] # NoPkg /\ Settled(r) =>
        /\ Idle(r) => Accounted(r)
        /\ \A c \in Callers : crun[c] = r => Stage(c)

\* No run has more events than ListEventsByRun returns.
WithinLimit == \A r \in Runs : Cardinality({e.id : e \in EventsOf(r)}) <= EventLimit

\* Then it returns them all.
LEMMA ListsAll ==
  ASSUME DbTypes, IdsInv, WithinLimit, NEW r \in Runs
  PROVE  ListEventsByRun(r) = EventsOf(r)
<1> DEFINE ids == {e.id : e \in EventsOf(r)}
<1>1. SUFFICES ASSUME NEW e \in EventsOf(r)
               PROVE  Listed(r, e.id)
  BY DEF ListEventsByRun, Listed, Older
<1>2. IsFiniteSet(ids)
  <2>1. \A x \in ids : x \in Nat /\ x <= nextId
    BY EventColumns DEF DbTypes, IdsInv, EventsOf
  <2>2. ids \in SUBSET Nat /\ nextId \in Nat
    BY <2>1 DEF DbTypes
  <2>3. QED
    BY <2>1, <2>2, FS_BoundedSetOfNaturals
<1>3. Older(r, e.id) \in SUBSET ids
  BY DEF Older
<1>4. e.id \in ids /\ e.id \notin Older(r, e.id)
  <2>1. e.id \in Nat
    BY EventColumns DEF DbTypes, EventsOf
  <2>2. \A f \in {g \in EventsOf(r) : g.id < e.id} : f.id < e.id
    OBVIOUS
  <2>3. QED
    BY <2>1, <2>2 DEF Older
<1>5. Cardinality(ids) <= EventLimit
  BY DEF WithinLimit
<1> HIDE DEF ids
<1>6. Cardinality(Older(r, e.id)) <= Cardinality(ids) /\ Cardinality(Older(r, e.id)) # Cardinality(ids)
  BY <1>2, <1>3, <1>4, FS_Subset
<1>7. Cardinality(ids) \in Nat /\ Cardinality(Older(r, e.id)) \in Nat
  BY <1>2, <1>3, FS_Subset, FS_CardinalityType
<1>8. QED
  BY <1>5, <1>6, <1>7, LimitAssumption DEF Listed

\* A run is retired when it is over.
Retires == \A r \in retired' : r \in retired \/ (r \in Runs /\ StreamOver(r) /\ Quiet(r))

\* What a step does to the retired runs.
LEMMA RetiresStep ==
  ASSUME [Next]_vars
  PROVE  Retires
<1> USE DEF Retires, db
<1>1. ASSUME NEW r \in Runs, NEW b \in Batches, PostEvents(r, b)
      PROVE  Retires
  BY <1>1 DEF PostEvents
<1>2. ASSUME NEW r \in Runs, FinishPost(r)
      PROVE  Retires
  BY <1>2 DEF FinishPost
<1>3. ASSUME NEW r \in Runs, NEW final \in Results, ScanResult(r, final)
      PROVE  Retires
  BY <1>3 DEF ScanResult
<1>4. ASSUME NEW r \in Runs, NEW c \in Callers, Fire(r, c)
      PROVE  Retires
  BY <1>4 DEF Fire
<1>5. ASSUME NEW r \in Runs, Retire(r)
      PROVE  Retires
  BY <1>5 DEF Retire
<1>6. ASSUME NEW c \in Callers, AnalyzeList(c)
      PROVE  Retires
  BY <1>6 DEF AnalyzeList
<1>7. ASSUME NEW c \in Callers, AnalyzeAllow(c)
      PROVE  Retires
  BY <1>7 DEF AnalyzeAllow
<1>8. ASSUME NEW c \in Callers, AnalyzeBase(c)
      PROVE  Retires
  BY <1>8 DEF AnalyzeBase
<1>9. ASSUME NEW c \in Callers, SeedBaseline(c)
      PROVE  Retires
  BY <1>9 DEF SeedBaseline
<1>10. ASSUME NEW c \in Callers, SeedMark(c)
      PROVE  Retires
  BY <1>10 DEF SeedMark
<1>11. ASSUME NEW c \in Callers, ClearOld(c)
      PROVE  Retires
  BY <1>11 DEF ClearOld
<1>12. ASSUME NEW c \in Callers, WriteDeviations(c)
      PROVE  Retires
  BY <1>12 DEF WriteDeviations
<1>13. ASSUME NEW c \in Callers, BumpBaseline(c)
      PROVE  Retires
  BY <1>13 DEF BumpBaseline
<1>14. ASSUME NEW c \in Callers, AutoPromote(c)
      PROVE  Retires
  BY <1>14 DEF AutoPromote
<1>15. ASSUME NEW c \in Callers, Finish(c)
      PROVE  Retires
  BY <1>15 DEF Finish
<1>16. ASSUME NEW c \in Callers, FinishFound(c)
      PROVE  Retires
  BY <1>16 DEF FinishFound
<1>17. ASSUME NEW c \in Callers, Notify(c)
      PROVE  Retires
  BY <1>17 DEF Notify
<1>18. ASSUME NEW r \in Promotable, PromoteStart(r)
      PROVE  Retires
  BY <1>18 DEF PromoteStart
<1>19. CASE PromoteAllow
  BY <1>19 DEF PromoteAllow
<1>20. CASE PromoteMerge
  BY <1>20 DEF PromoteMerge
<1>21. CASE PromoteMark
  BY <1>21 DEF PromoteMark
<1>22. CASE PromoteClear
  BY <1>22 DEF PromoteClear
<1>23. ASSUME NEW entry \in AllowEntries, AllowAdd(entry)
      PROVE  Retires
  BY <1>23 DEF AllowAdd
<1>24. ASSUME NEW entry \in AllowEntries, AllowRemove(entry)
      PROVE  Retires
  BY <1>24 DEF AllowRemove
<1>25. ASSUME NEW cutoff \in 1..nextId, PruneEvents(cutoff)
      PROVE  Retires
  BY <1>25 DEF PruneEvents
<1>26. CASE Restart
  BY <1>26 DEF Restart
<1>27. CASE UNCHANGED vars
  BY <1>27 DEF vars
<1>28. QED
  <2> HIDE DEF Retires
  <2> QED
    BY <1>1, <1>2, <1>3, <1>4, <1>5, <1>6, <1>7, <1>8, <1>9, <1>10, <1>11,
        <1>12, <1>13, <1>14, <1>15, <1>16, <1>17, <1>18, <1>19, <1>20, <1>21,
        <1>22, <1>23, <1>24, <1>25, <1>26, <1>27
       DEF Next, AnalyzeStep, PromoteStep

\* Retirement only comes to runs that are over, and those stay so.
LEMMA RetiredStep ==
  ASSUME TypeOK, RetiredInv, [Next]_vars
  PROVE  RetiredInv'
<1>1. SUFFICES ASSUME NEW r \in retired'
               PROVE  Over(r)'
  BY DEF RetiredInv
<1>2. r \in Runs /\ (r \in retired \/ (StreamOver(r) /\ Quiet(r)))
  BY <1>1, RetiresStep DEF Retires, TypeOK, DbTypes
<1>3. Over(r)
  BY <1>2 DEF RetiredInv, Over, Settled, Quiet
<1>4. QED
  BY <1>2, <1>3, OverStays DEF TypeOK

\* Retention does not touch the events of a run that is being analysed.
LEMMA StoredStep ==
  ASSUME TypeOK, ReadInv, RetiredInv, Stored, [Next]_vars
  PROVE  Stored'
<1> USE DEF TypeOK
<1>1. SUFFICES ASSUME NEW c \in Callers, cpc'[c] \in Reading, NEW e \in cevs'[c]
               PROVE  e \in events'
  BY DEF Stored
<1>2. \/ cpc[c] \in Reading /\ cevs'[c] = cevs[c]
      \/ cevs'[c] = ListEventsByRun(crun[c]) /\ UNCHANGED events
  BY <1>1, KeepsStep DEF AllKeep, Keeps
<1>3. CASE cpc[c] \in Reading /\ cevs'[c] = cevs[c]
  <2>1. e \in events /\ e.run = crun[c]
    BY <1>1, <1>3 DEF Stored, ReadInv
  <2>2. e.run \notin retired
    BY <2>1 DEF RetiredInv, Over, Idle
  <2>3. QED
    BY <2>1, <2>2, BackedStep DEF Backed
<1>4. CASE cevs'[c] = ListEventsByRun(crun[c]) /\ UNCHANGED events
  BY <1>1, <1>4 DEF ListEventsByRun, EventsOf
<1>5. QED
  BY <1>2, <1>3, <1>4

\* The last timer of a run is used up by firing, no other way.
LEMMA SettlesByFiring ==
  ASSUME ~Crashes, ServerTypes, DifferTypes, [Next]_vars, NEW run \in Runs,
         ~Settled(run), Settled(run)'
  PROVE  \E k \in Callers : Fire(run, k)
<1> DEFINE Fires == \E k \in Callers : Fire(run, k)
<1> USE DEF Settled, TimerPending, ServerTypes, server
<1> SUFFICES Fires
  OBVIOUS
<1>1. ASSUME NEW r \in Runs, NEW b \in Batches, PostEvents(r, b)
      PROVE  Fires
  BY <1>1 DEF PostEvents
<1>2. ASSUME NEW r \in Runs, FinishPost(r)
      PROVE  Fires
  BY <1>2 DEF FinishPost, ScheduleDiffer
<1>3. ASSUME NEW r \in Runs, NEW final \in Results, ScanResult(r, final)
      PROVE  Fires
  BY <1>3 DEF ScanResult
<1>4. ASSUME NEW r \in Runs, NEW c \in Callers, Fire(r, c)
      PROVE  Fires
  <2>1. CASE r = run
    BY <1>4, <2>1
  <2>2. CASE r # run
    BY <1>4, <2>2 DEF Fire
  <2>3. QED
    BY <2>1, <2>2
<1>5. ASSUME NEW r \in Runs, Retire(r)
      PROVE  Fires
  BY <1>5 DEF Retire
<1>6. ASSUME NEW c \in Callers, AnalyzeList(c)
      PROVE  Fires
  BY <1>6 DEF AnalyzeList
<1>7. ASSUME NEW c \in Callers, AnalyzeAllow(c)
      PROVE  Fires
  BY <1>7 DEF AnalyzeAllow
<1>8. ASSUME NEW c \in Callers, AnalyzeBase(c)
      PROVE  Fires
  BY <1>8 DEF AnalyzeBase
<1>9. ASSUME NEW c \in Callers, SeedBaseline(c)
      PROVE  Fires
  BY <1>9 DEF SeedBaseline
<1>10. ASSUME NEW c \in Callers, SeedMark(c)
      PROVE  Fires
  BY <1>10 DEF SeedMark
<1>11. ASSUME NEW c \in Callers, ClearOld(c)
      PROVE  Fires
  BY <1>11 DEF ClearOld
<1>12. ASSUME NEW c \in Callers, WriteDeviations(c)
      PROVE  Fires
  BY <1>12 DEF WriteDeviations
<1>13. ASSUME NEW c \in Callers, BumpBaseline(c)
      PROVE  Fires
  BY <1>13 DEF BumpBaseline
<1>14. ASSUME NEW c \in Callers, AutoPromote(c)
      PROVE  Fires
  BY <1>14 DEF AutoPromote
<1>15. ASSUME NEW c \in Callers, Finish(c)
      PROVE  Fires
  <2>1. crun[c] \in Runs
    BY <1>15 DEF Finish, DifferTypes
  <2>2. posting' = posting
    BY <1>15 DEF Finish
  <2>3. crun[c] = run /\ run \in armed => orphans'[run] = orphans[run] + 1
    BY <1>15, <2>1 DEF Finish, UnmapTimer
  <2>4. crun[c] = run /\ run \notin armed => orphans'[run] = orphans[run] + 0
    BY <1>15, <2>1 DEF Finish, UnmapTimer
  <2>5. crun[c] # run => orphans'[run] = orphans[run] /\ (run \in armed' <=> run \in armed)
    BY <1>15, <2>1 DEF Finish, UnmapTimer
  <2>6. orphans[run] \in Nat
    OBVIOUS
  <2>7. QED
    BY <2>2, <2>3, <2>4, <2>5, <2>6
<1>16. ASSUME NEW c \in Callers, FinishFound(c)
      PROVE  Fires
  <2>1. crun[c] \in Runs
    BY <1>16 DEF FinishFound, DifferTypes
  <2>2. posting' = posting
    BY <1>16 DEF FinishFound
  <2>3. crun[c] = run /\ run \in armed => orphans'[run] = orphans[run] + 1
    BY <1>16, <2>1 DEF FinishFound, UnmapTimer
  <2>4. crun[c] = run /\ run \notin armed => orphans'[run] = orphans[run] + 0
    BY <1>16, <2>1 DEF FinishFound, UnmapTimer
  <2>5. crun[c] # run => orphans'[run] = orphans[run] /\ (run \in armed' <=> run \in armed)
    BY <1>16, <2>1 DEF FinishFound, UnmapTimer
  <2>6. orphans[run] \in Nat
    OBVIOUS
  <2>7. QED
    BY <2>2, <2>3, <2>4, <2>5, <2>6
<1>17. ASSUME NEW c \in Callers, Notify(c)
      PROVE  Fires
  BY <1>17 DEF Notify
<1>18. ASSUME NEW r \in Promotable, PromoteStart(r)
      PROVE  Fires
  BY <1>18 DEF PromoteStart
<1>19. CASE PromoteAllow
  BY <1>19 DEF PromoteAllow
<1>20. CASE PromoteMerge
  BY <1>20 DEF PromoteMerge
<1>21. CASE PromoteMark
  BY <1>21 DEF PromoteMark
<1>22. CASE PromoteClear
  BY <1>22 DEF PromoteClear
<1>23. ASSUME NEW entry \in AllowEntries, AllowAdd(entry)
      PROVE  Fires
  BY <1>23 DEF AllowAdd
<1>24. ASSUME NEW entry \in AllowEntries, AllowRemove(entry)
      PROVE  Fires
  BY <1>24 DEF AllowRemove
<1>25. ASSUME NEW cutoff \in 1..nextId, PruneEvents(cutoff)
      PROVE  Fires
  BY <1>25 DEF PruneEvents
<1>26. CASE Restart
  BY <1>26 DEF Restart
<1>27. CASE UNCHANGED vars
  BY <1>27 DEF vars
<1>28. QED
  <2> HIDE DEF Fires
  <2> QED
    BY <1>1, <1>2, <1>3, <1>4, <1>5, <1>6, <1>7, <1>8, <1>9, <1>10, <1>11,
        <1>12, <1>13, <1>14, <1>15, <1>16, <1>17, <1>18, <1>19, <1>20, <1>21,
        <1>22, <1>23, <1>24, <1>25, <1>26, <1>27
       DEF Next, AnalyzeStep, PromoteStep

\* The course of an analysis, when no call fails and the server stays up.
Course(k) ==
    crun'[k] # NoRun =>
        \/ cpc'[k] = "list"
        \/ /\ crun'[k] = crun[k]
           /\ \/ cpc[k] = "list" /\ cpc'[k] = "finish" /\ PkgOf[crun[k]] = NoPkg
              \/ /\ cpc[k] = "list" /\ cpc'[k] = "allow" /\ UNCHANGED <<db, history>>
                 /\ cevs'[k] = ListEventsByRun(crun[k])
              \/ /\ cpc[k] = "allow" /\ cpc'[k] = "base" /\ cevs'[k] = cevs[k]
                 /\ callow'[k] = Suppressed(allow, PkgOf[crun[k]])
              \/ /\ cpc[k] = "allow" /\ cpc'[k] = "allow" /\ cevs'[k] = cevs[k]
              \/ /\ {cpc[k], cpc'[k]} \subseteq {"base", "seed", "delete", "write"}
                 /\ cevs'[k] = cevs[k] /\ callow'[k] = callow[k]
              \/ /\ cpc[k] = "seed" /\ cpc'[k] = "seedmark" /\ UNCHANGED <<events, deviations, history>>
                 /\ MergeBaseline(crun[k], RunFPs(k))
              \/ /\ cpc[k] = "write" /\ cpc'[k] = "bump" /\ UNCHANGED <<events, baseline, allowedEver>>
                 /\ deviations' = deviations \cup Findings(k)
              \/ /\ cpc[k] = "write" /\ cpc'[k] = "finish"
                 /\ ~({d.evidence : d \in Findings(k)} \subseteq {e.id : e \in events})
              \/ cpc[k] \in Late /\ cpc'[k] \in Late
AllCourse == \A k \in Callers : Course(k)

\* What a step does to an analysis.
LEMMA CourseStep ==
  ASSUME ~StoreFaults, ~Crashes, DifferTypes, [Next]_vars
  PROVE  AllCourse
<1> USE NullsAssumption DEF AllCourse, Course, Late, DifferTypes, CallerPC, differ
<1>1. ASSUME NEW r \in Runs, NEW b \in Batches, PostEvents(r, b)
      PROVE  AllCourse
  BY <1>1 DEF PostEvents
<1>2. ASSUME NEW r \in Runs, FinishPost(r)
      PROVE  AllCourse
  BY <1>2 DEF FinishPost, ScheduleDiffer
<1>3. ASSUME NEW r \in Runs, NEW final \in Results, ScanResult(r, final)
      PROVE  AllCourse
  BY <1>3 DEF ScanResult
<1>4. ASSUME NEW r \in Runs, NEW c \in Callers, Fire(r, c)
      PROVE  AllCourse
  BY <1>4 DEF Fire
<1>5. ASSUME NEW r \in Runs, Retire(r)
      PROVE  AllCourse
  BY <1>5 DEF Retire
<1>6. ASSUME NEW c \in Callers, AnalyzeList(c)
      PROVE  AllCourse
  BY <1>6 DEF AnalyzeList, Goto
<1>7. ASSUME NEW c \in Callers, AnalyzeAllow(c)
      PROVE  AllCourse
  BY <1>7 DEF AnalyzeAllow, Goto
<1>8. ASSUME NEW c \in Callers, AnalyzeBase(c)
      PROVE  AllCourse
  <2>1. PICK known : known = LoadBaseline(PkgOf[crun[c]])
    OBVIOUS
  <2>2. /\ cpc[c] = "base" /\ UNCHANGED <<crun, cevs, callow>>
        /\ cpc' = [cpc EXCEPT ![c] = IF known = {} THEN "seed" ELSE "delete"]
    BY <1>8, <2>1 DEF AnalyzeBase, Goto
  <2>3. QED
    BY <2>1, <2>2
<1>9. ASSUME NEW c \in Callers, SeedBaseline(c)
      PROVE  AllCourse
  BY <1>9 DEF SeedBaseline, Goto, history
<1>10. ASSUME NEW c \in Callers, SeedMark(c)
      PROVE  AllCourse
  BY <1>10 DEF SeedMark, Goto
<1>11. ASSUME NEW c \in Callers, ClearOld(c)
      PROVE  AllCourse
  BY <1>11 DEF ClearOld, Goto
<1>12. ASSUME NEW c \in Callers, WriteDeviations(c)
      PROVE  AllCourse
  BY <1>12 DEF WriteDeviations, Goto, Findings
<1>13. ASSUME NEW c \in Callers, BumpBaseline(c)
      PROVE  AllCourse
  BY <1>13 DEF BumpBaseline, Goto
<1>14. ASSUME NEW c \in Callers, AutoPromote(c)
      PROVE  AllCourse
  BY <1>14 DEF AutoPromote, Goto
<1>15. ASSUME NEW c \in Callers, Finish(c)
      PROVE  AllCourse
  BY <1>15 DEF Finish, CallbackReturns, Goto, UnmapTimer
<1>16. ASSUME NEW c \in Callers, FinishFound(c)
      PROVE  AllCourse
  BY <1>16 DEF FinishFound, Goto, UnmapTimer
<1>17. ASSUME NEW c \in Callers, Notify(c)
      PROVE  AllCourse
  BY <1>17 DEF Notify, CallbackReturns, Goto
<1>18. ASSUME NEW r \in Promotable, PromoteStart(r)
      PROVE  AllCourse
  BY <1>18 DEF PromoteStart
<1>19. CASE PromoteAllow
  BY <1>19 DEF PromoteAllow
<1>20. CASE PromoteMerge
  BY <1>20 DEF PromoteMerge, PromoteReset
<1>21. CASE PromoteMark
  BY <1>21 DEF PromoteMark, PromoteReset
<1>22. CASE PromoteClear
  BY <1>22 DEF PromoteClear, PromoteReset
<1>23. ASSUME NEW entry \in AllowEntries, AllowAdd(entry)
      PROVE  AllCourse
  BY <1>23 DEF AllowAdd
<1>24. ASSUME NEW entry \in AllowEntries, AllowRemove(entry)
      PROVE  AllCourse
  BY <1>24 DEF AllowRemove
<1>25. ASSUME NEW cutoff \in 1..nextId, PruneEvents(cutoff)
      PROVE  AllCourse
  BY <1>25 DEF PruneEvents
<1>26. CASE Restart
  BY <1>26 DEF Restart
<1>27. CASE UNCHANGED vars
  BY <1>27 DEF vars
<1>28. QED
  <2> HIDE DEF AllCourse
  <2> QED
    BY <1>1, <1>2, <1>3, <1>4, <1>5, <1>6, <1>7, <1>8, <1>9, <1>10, <1>11,
        <1>12, <1>13, <1>14, <1>15, <1>16, <1>17, <1>18, <1>19, <1>20, <1>21,
        <1>22, <1>23, <1>24, <1>25, <1>26, <1>27
       DEF Next, AnalyzeStep, PromoteStep

\* What the events of a run show only grows by a request.
LEMMA ObservedShrinks ==
  ASSUME TypeOK, [Next]_vars, NEW r \in Runs, r \notin posting'
  PROVE  Observed(r)' \subseteq Observed(r)
<1>1. EventsOf(r)' \subseteq EventsOf(r)
  BY EventsStep DEF NewIds, EventsOf, TypeOK
<1>2. Suppressed(allowedEver, PkgOf[r]) \subseteq Suppressed(allowedEver, PkgOf[r])'
  BY AllowReadStep DEF AllowRead, Suppressed, TypeOK
<1>3. QED
  BY <1>1, <1>2 DEF Observed, ExtractFingerprintsWith

\* Fingerprints that no operator ever suppressed are not among the suppressed.
LEMMA ObservedUnsuppressed ==
  ASSUME NEW r, NEW fp \in Observed(r)
  PROVE  /\ fp \notin Suppressed(allowedEver, PkgOf[r]) /\ fp # NoFP
         /\ \E e \in EventsOf(r) : e.fp = fp
BY DEF Observed, ExtractFingerprintsWith

\* What is accounted for stays so, unless an analysis clears the run's findings.
LEMMA AccountedStays ==
  ASSUME TypeOK, PromoteInv, [Next]_vars, NEW r \in Runs, PkgOf[r] # NoPkg, r \notin posting',
         Accounted(r), \A c \in Callers : ~(cpc[c] = "delete" /\ crun[c] = r)
  PROVE  Accounted(r)'
<1> USE DEF TypeOK
<1>1. PICK p \in Packages : p = PkgOf[r]
  BY PkgOfAssumption
<1>2. LoadBaseline(p) \subseteq LoadBaseline(p)'
  BY KnownStep DEF KnownStays, LoadBaseline
<1>3. SUFFICES ASSUME NEW fp \in Observed(r)'
               PROVE  fp \in LoadBaseline(p)' \/ fp \in Reported(r)'
  BY <1>1 DEF Accounted
<1>4. fp \in Observed(r)
  BY ObservedShrinks
<1>5. CASE fp \in LoadBaseline(p)
  BY <1>2, <1>5
<1>6. CASE fp \in Reported(r)
  <2>1. PICK d \in deviations : d.run = r /\ d.fp = fp
    BY <1>6 DEF Reported, RowsOf
  <2>2. CASE d \in deviations'
    BY <2>1, <2>2 DEF Reported, RowsOf
  <2>3. CASE d \notin deviations'
    <3>1. opc = "clear" /\ orun = r
      BY <2>1, <2>3, ClearedStep DEF OnlyCleared
    <3>2. fp \in LoadBaseline(p) \/ fp \in Suppressed(allowedEver, p)
      BY <1>1, <2>1, <3>1 DEF PromoteInv, RowsOf
    <3>3. fp \notin Suppressed(allowedEver, p)
      BY <1>1, <1>4, ObservedUnsuppressed
    <3>4. QED
      BY <1>2, <3>2, <3>3
  <2>4. QED
    BY <2>2, <2>3
<1>7. QED
  BY <1>1, <1>4, <1>5, <1>6 DEF Accounted

\* What the hypotheses of the inductive step say together.
AccountHyps ==
    /\ TypeOK /\ IdsInv /\ ReadInv /\ BaseInv /\ AllowInv /\ PromoteInv /\ OneCaller
    /\ Stored /\ WithinLimit

\* One step of the analysis of a run for which nothing else is under way.
LEMMA StageStep ==
  ASSUME ~StoreFaults, ~Crashes, AccountHyps, [Next]_vars, NEW r \in Runs, PkgOf[r] # NoPkg,
         r \notin posting', NEW c \in Callers, crun[c] = r, crun'[c] = r, Stage(c)
  PROVE  Stage(c)'
<1> USE DEF AccountHyps, TypeOK
<1>1. PICK p \in Packages : p = PkgOf[r]
  BY PkgOfAssumption
<1>2. Observed(r)' \subseteq Observed(r)
  BY ObservedShrinks
<1>3. r # NoRun
  BY NullsAssumption
<1>4. /\ cpc[c] = "allow" => Observed(r) \subseteq {e.fp : e \in cevs[c]}
      /\ cpc[c] \in {"base", "seed", "delete", "write"} => Observed(r) \subseteq RunFPs(c)
      /\ cpc[c] \in Late => Accounted(r)
  BY DEF Stage
<1>5. SUFFICES /\ cpc'[c] = "allow" => Observed(r)' \subseteq {e.fp : e \in cevs'[c]}
               /\ cpc'[c] \in {"base", "seed", "delete", "write"} => Observed(r)' \subseteq RunFPs(c)'
               /\ cpc'[c] \in Late => Accounted(r)'
  BY DEF Stage, Observed, Accounted, EventsOf, LoadBaseline, Reported, RowsOf
<1>6. CASE cpc'[c] = "list"
  BY <1>6 DEF Late
<1>7. CASE cpc[c] = "list" /\ cpc'[c] = "allow" /\ UNCHANGED <<db, history>>
           /\ cevs'[c] = ListEventsByRun(crun[c])
  <2>1. cevs'[c] = EventsOf(r)
    BY <1>7, ListsAll
  <2>2. Observed(r) \subseteq {e.fp : e \in EventsOf(r)}
    BY DEF Observed, ExtractFingerprintsWith
  <2>3. QED
    BY <1>2, <1>7, <2>1, <2>2 DEF Late
<1>8. CASE cpc[c] = "allow" /\ cpc'[c] = "base" /\ cevs'[c] = cevs[c]
           /\ callow'[c] = Suppressed(allow, PkgOf[crun[c]])
  <2>1. callow'[c] \subseteq Suppressed(allowedEver, PkgOf[r])
    BY <1>8 DEF AllowInv, Suppressed
  <2>2. Observed(r) \subseteq ExtractFingerprintsWith(cevs[c], callow'[c])
    BY <1>4, <1>8, <2>1, ObservedUnsuppressed DEF ExtractFingerprintsWith
  <2>3. RunFPs(c)' = ExtractFingerprintsWith(cevs[c], callow'[c])
    BY <1>8 DEF RunFPs, ExtractFingerprintsWith
  <2>4. QED
    BY <1>2, <1>8, <2>2, <2>3 DEF Late
<1>9. CASE cpc[c] = "allow" /\ cpc'[c] = "allow" /\ cevs'[c] = cevs[c]
  BY <1>2, <1>4, <1>9 DEF Late
<1>10. CASE {cpc[c], cpc'[c]} \subseteq {"base", "seed", "delete", "write"}
            /\ cevs'[c] = cevs[c] /\ callow'[c] = callow[c]
  <2>1. RunFPs(c)' = RunFPs(c)
    BY <1>10 DEF RunFPs, ExtractFingerprintsWith
  <2>2. QED
    BY <1>2, <1>4, <1>10, <2>1 DEF Late
<1>11. CASE cpc[c] = "seed" /\ cpc'[c] = "seedmark" /\ UNCHANGED <<events, deviations, history>>
            /\ MergeBaseline(crun[c], RunFPs(c))
  <2>1. \A fp \in FPs : fp \in RunFPs(c) => baseline'[p][fp] # NoRun
    <3>1. MergeBaseline(r, RunFPs(c))
      BY <1>11
    <3>2. \A fp \in FPs :
             baseline'[p][fp] = IF p = PkgOf[r] /\ fp \in RunFPs(c) /\ baseline[p][fp] = NoRun
                                THEN r ELSE baseline[p][fp]
      BY <3>1, Merged DEF DbTypes
    <3>3. QED
      BY <1>1, <1>3, <3>2
  <2>2. RunFPs(c) \subseteq FPs
    BY Extracted DEF RunFPs, DifferTypes
  <2>3. RunFPs(c) \subseteq LoadBaseline(p)'
    BY <2>1, <2>2 DEF LoadBaseline
  <2>4. Observed(r)' \subseteq LoadBaseline(p)'
    BY <1>2, <1>4, <1>11, <2>3
  <2>5. Accounted(r)'
    BY <1>1, <2>4 DEF Accounted
  <2>6. QED
    BY <1>11, <2>5
<1>12. CASE cpc[c] = "write" /\ cpc'[c] = "bump" /\ UNCHANGED <<events, baseline, allowedEver>>
            /\ deviations' = deviations \cup Findings(c)
  <2>1. ASSUME NEW fp \in Observed(r)'
        PROVE  fp \in LoadBaseline(p)' \/ fp \in Reported(r)'
    <3>1. fp \in RunFPs(c)
      BY <1>2, <1>4, <1>12
    <3>2. CASE fp \in cbase[c]
      BY <1>1, <1>12, <3>2 DEF BaseInv, LoadBaseline
    <3>3. CASE fp \notin cbase[c]
      <4>1. fp \in Novel(c)
        BY <3>1, <3>3 DEF Novel
      <4>2. PICK d \in Findings(c) : d.fp = fp /\ d.run = r
        BY <1>12, <4>1, Written DEF HistoryTypes
      <4>3. QED
        BY <1>12, <4>2 DEF Reported, RowsOf
    <3>4. QED
      BY <3>2, <3>3
  <2>2. Accounted(r)'
    BY <1>1, <2>1 DEF Accounted
  <2>3. QED
    BY <1>12, <2>2
<1>13. CASE cpc[c] = "write" /\ cpc'[c] = "finish"
            /\ ~({d.evidence : d \in Findings(c)} \subseteq {e.id : e \in events})
  <2>1. \A d \in Findings(c) : \E e \in cevs[c] : e.id = d.evidence
    BY <1>13, Written DEF HistoryTypes
  <2>2. cevs[c] \subseteq events
    BY <1>13 DEF Stored, Reading, CallerPC
  <2>3. QED
    BY <1>13, <2>1, <2>2
<1>14. CASE cpc[c] \in Late /\ cpc'[c] \in Late
  <2>1. \A k \in Callers : ~(cpc[k] = "delete" /\ crun[k] = r)
    BY <1>3, <1>14 DEF OneCaller, Late
  <2>2. Accounted(r)'
    BY <1>4, <1>14, <2>1, AccountedStays
  <2>3. QED
    BY <1>14, <2>2 DEF Late
<1>15. Course(c)
  BY CourseStep DEF AllCourse
<1>16. QED
  BY <1>3, <1>6, <1>7, <1>8, <1>9, <1>10, <1>11, <1>12, <1>13, <1>14, <1>15 DEF Course

\* A callback leaves a run only at the end of its analysis.
LEMMA LeavesLate ==
  ASSUME ~Crashes, DifferTypes, [Next]_vars, NEW k \in Callers, crun[k] # NoRun, crun'[k] # crun[k]
  PROVE  cpc[k] \in Late
<1> DEFINE IsLate == cpc[k] \in Late
<1> USE DEF Late, DifferTypes, differ
<1> SUFFICES IsLate
  OBVIOUS
<1>1. ASSUME NEW r \in Runs, NEW b \in Batches, PostEvents(r, b)
      PROVE  IsLate
  BY <1>1 DEF PostEvents
<1>2. ASSUME NEW r \in Runs, FinishPost(r)
      PROVE  IsLate
  BY <1>2 DEF FinishPost, ScheduleDiffer
<1>3. ASSUME NEW r \in Runs, NEW final \in Results, ScanResult(r, final)
      PROVE  IsLate
  BY <1>3 DEF ScanResult
<1>4. ASSUME NEW r \in Runs, NEW c \in Callers, Fire(r, c)
      PROVE  IsLate
  BY <1>4 DEF Fire
<1>5. ASSUME NEW r \in Runs, Retire(r)
      PROVE  IsLate
  BY <1>5 DEF Retire
<1>6. ASSUME NEW c \in Callers, AnalyzeList(c)
      PROVE  IsLate
  BY <1>6 DEF AnalyzeList, Goto
<1>7. ASSUME NEW c \in Callers, AnalyzeAllow(c)
      PROVE  IsLate
  BY <1>7 DEF AnalyzeAllow, Goto
<1>8. ASSUME NEW c \in Callers, AnalyzeBase(c)
      PROVE  IsLate
  BY <1>8 DEF AnalyzeBase, Goto
<1>9. ASSUME NEW c \in Callers, SeedBaseline(c)
      PROVE  IsLate
  BY <1>9 DEF SeedBaseline, Goto
<1>10. ASSUME NEW c \in Callers, SeedMark(c)
      PROVE  IsLate
  BY <1>10 DEF SeedMark, Goto
<1>11. ASSUME NEW c \in Callers, ClearOld(c)
      PROVE  IsLate
  BY <1>11 DEF ClearOld, Goto
<1>12. ASSUME NEW c \in Callers, WriteDeviations(c)
      PROVE  IsLate
  BY <1>12 DEF WriteDeviations, Goto
<1>13. ASSUME NEW c \in Callers, BumpBaseline(c)
      PROVE  IsLate
  BY <1>13 DEF BumpBaseline, Goto
<1>14. ASSUME NEW c \in Callers, AutoPromote(c)
      PROVE  IsLate
  BY <1>14 DEF AutoPromote, Goto
<1>15. ASSUME NEW c \in Callers, Finish(c)
      PROVE  IsLate
  BY <1>15 DEF Finish, CallbackReturns, Goto, UnmapTimer
<1>16. ASSUME NEW c \in Callers, FinishFound(c)
      PROVE  IsLate
  BY <1>16 DEF FinishFound, Goto, UnmapTimer
<1>17. ASSUME NEW c \in Callers, Notify(c)
      PROVE  IsLate
  BY <1>17 DEF Notify, CallbackReturns, Goto
<1>18. ASSUME NEW r \in Promotable, PromoteStart(r)
      PROVE  IsLate
  BY <1>18 DEF PromoteStart
<1>19. CASE PromoteAllow
  BY <1>19 DEF PromoteAllow
<1>20. CASE PromoteMerge
  BY <1>20 DEF PromoteMerge, PromoteReset
<1>21. CASE PromoteMark
  BY <1>21 DEF PromoteMark, PromoteReset
<1>22. CASE PromoteClear
  BY <1>22 DEF PromoteClear, PromoteReset
<1>23. ASSUME NEW entry \in AllowEntries, AllowAdd(entry)
      PROVE  IsLate
  BY <1>23 DEF AllowAdd
<1>24. ASSUME NEW entry \in AllowEntries, AllowRemove(entry)
      PROVE  IsLate
  BY <1>24 DEF AllowRemove
<1>25. ASSUME NEW cutoff \in 1..nextId, PruneEvents(cutoff)
      PROVE  IsLate
  BY <1>25 DEF PruneEvents
<1>26. CASE Restart
  BY <1>26 DEF Restart
<1>27. CASE UNCHANGED vars
  BY <1>27 DEF vars
<1>28. QED
  <2> HIDE DEF IsLate
  <2> QED
    BY <1>1, <1>2, <1>3, <1>4, <1>5, <1>6, <1>7, <1>8, <1>9, <1>10, <1>11,
        <1>12, <1>13, <1>14, <1>15, <1>16, <1>17, <1>18, <1>19, <1>20, <1>21,
        <1>22, <1>23, <1>24, <1>25, <1>26, <1>27
       DEF Next, AnalyzeStep, PromoteStep

\* Every step keeps what is observed in the baseline, reported or in the hands of
\* an analysis.
LEMMA AccountStep ==
  ASSUME ~Overlap, ~StoreFaults, ~Crashes, AccountHyps, AccountInv, [Next]_vars
  PROVE  AccountInv'
<1> USE DEF AccountHyps, TypeOK
<1>1. SUFFICES ASSUME NEW r \in Runs, PkgOf[r] # NoPkg, Settled(r)'
               PROVE  /\ Idle(r)' => Accounted(r)'
                      /\ \A c \in Callers : crun'[c] = r => Stage(c)'
  BY DEF AccountInv
<1>2. r # NoRun /\ r \notin posting'
  BY <1>1, NullsAssumption DEF Settled
<1>3. CASE ~Settled(r)
  <2>1. PICK k \in Callers : Fire(r, k)
    BY <1>1, <1>3, SettlesByFiring
  <2>2. /\ Idle(r) /\ crun'[k] = r /\ cpc'[k] = "list"
        /\ \A c \in Callers : c # k => crun'[c] = crun[c]
    BY <2>1 DEF Fire, DifferTypes
  <2>3. \A c \in Callers : crun'[c] = r => c = k
    BY <2>2 DEF Idle
  <2>4. Stage(k)'
    BY <2>2 DEF Stage, Late
  <2>5. QED
    BY <2>2, <2>3, <2>4 DEF Idle
<1>4. CASE Settled(r)
  <2>1. ASSUME NEW c \in Callers, crun'[c] = r
        PROVE  Stage(c)'
    <3>1. CASE crun[c] = r
      BY <1>1, <1>2, <1>4, <2>1, <3>1, StageStep DEF AccountInv
    <3>2. CASE crun[c] # r
      <4>1. cpc'[c] = "list"
        BY <1>2, <2>1, <3>2, CourseStep DEF AllCourse, Course
      <4>2. QED
        BY <4>1 DEF Stage, Late
    <3>3. QED
      BY <3>1, <3>2
  <2>2. ASSUME Idle(r)'
        PROVE  Accounted(r)'
    <3>1. CASE Idle(r)
      <4>1. Accounted(r)
        BY <1>1, <1>4, <3>1 DEF AccountInv
      <4>2. QED
        BY <1>1, <1>2, <3>1, <4>1, AccountedStays DEF Idle
    <3>2. ASSUME NEW k \in Callers, crun[k] = r
          PROVE  Accounted(r)'
      <4>1. cpc[k] \in Late
        BY <1>2, <2>2, <3>2, LeavesLate DEF Idle
      <4>2. Accounted(r)
        BY <1>1, <1>4, <3>2, <4>1 DEF AccountInv, Stage
      <4>3. \A c \in Callers : ~(cpc[c] = "delete" /\ crun[c] = r)
        BY <1>2, <3>2, <4>1 DEF OneCaller, Late
      <4>4. QED
        BY <1>1, <1>2, <4>2, <4>3, AccountedStays
    <3>3. QED
      BY <3>1, <3>2 DEF Idle
  <2>3. QED
    BY <2>1, <2>2
<1>5. QED
  BY <1>3, <1>4

\* When nothing of a run is in flight any more, everything its stored events show
\* is in the baseline of the package or reported: the debounce leaves no batch
\* unanalysed, a re-analysis loses no finding, and promotion and retention drop
\* none.  It takes runs within the cap of ListEventsByRun, analyses of one run
\* that do not overlap, calls that do not fail, and an operator who promotes
\* only runs that are over; each of these has a counterexample without it.
THEOREM Unaccounted ==
  ASSUME ~Overlap, ~StoreFaults, ~Crashes, ~PromoteAnytime
  PROVE  Spec /\ []WithinLimit => []NothingUnaccounted
<1> DEFINE Rest == BaseInv /\ OneCaller /\ RetiredInv /\ Stored /\ AccountInv
<1>1. Init => Rest
  <2>1. Init => BaseInv /\ OneCaller /\ RetiredInv /\ Stored
    BY DEF Init, BaseInv, OneCaller, RetiredInv, Stored, Reading
  <2>2. Init => \A r \in Runs : Accounted(r)
    BY DEF Init, Accounted, Observed, EventsOf, ExtractFingerprintsWith
  <2>3. Init => AccountInv
    BY <2>2, NullsAssumption DEF Init, AccountInv
  <2>4. QED
    BY <2>1, <2>3
<1>2. PromotionInv /\ WithinLimit /\ Rest /\ [Next]_vars => Rest'
  <2>1. SUFFICES ASSUME PromotionInv, WithinLimit, Rest, [Next]_vars
                 PROVE  Rest'
    OBVIOUS
  <2>2. TypeOK /\ IdsInv /\ ReadInv /\ AllowInv /\ PromoteInv
    BY <2>1 DEF PromotionInv, StoreInv
  <2>3. AccountHyps
    BY <2>1, <2>2 DEF AccountHyps
  <2>4. BaseInv' /\ OneCaller'
    BY <2>1, <2>2, BaseStep, OneCallerStep DEF TypeOK
  <2>5. RetiredInv' /\ Stored'
    BY <2>1, <2>2, RetiredStep, StoredStep
  <2>6. AccountInv'
    BY <2>1, <2>3, AccountStep
  <2>7. QED
    BY <2>4, <2>5, <2>6
<1>3. Rest => NothingUnaccounted
  BY DEF AccountInv, NothingUnaccounted, Quiet, Settled, Accounted
<1> HIDE DEF Rest
<1>4. QED
  BY <1>1, <1>2, <1>3, PromotionAlways, PTL DEF Spec
===============================================================================
