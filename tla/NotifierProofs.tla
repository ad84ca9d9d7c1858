---------------------------- MODULE NotifierProofs ----------------------------
(* Machine-checked facts about webhook delivery, for any number of targets,  *)
(* triggers, attempts and edits.                                             *)
EXTENDS Notifier, FiniteSetTheorems, TLAPS

\* A goroutine that will POST again has attempts left, one that is posting or
\* was cut off has begun an attempt, one that records has an answer, and the
\* slots of triggers still to come are untouched.
Budget ==
    \A k \in Triggers, t \in Targets :
        /\ pc[k][t] = "render" => attempt[k][t] = 0
        /\ pc[k][t] = "sleep" => attempt[k][t] < MaxAttempts
        /\ pc[k][t] \in {"post", "record", "cut"} => attempt[k][t] >= 1
        /\ pc[k][t] = "record" => answer[k][t] \in Answers
        /\ k > triggers => attempt[k][t] = 0 /\ pc[k][t] = "none"

\* Triggers are numbers, so that one more than the last is again a trigger.
LEMMA TriggerNumbers ==
  /\ MaxTriggers \in Nat \ {0} /\ MaxAttempts \in Nat \ {0} /\ MaxEdits \in Nat
  /\ Triggers = 1..MaxTriggers
BY BoundAssumption DEF Triggers

\* classify and the retry decision: a failed attempt that is not repeated was the
\* last one allowed.
LEMMA RecordStep ==
  ASSUME TypeOK, LogHasTarget, NoEarlyGiveUp,
         NEW k \in Triggers, NEW t \in Targets, NEW n \in 1..MaxAttempts,
         NEW status \in {"sent", "failed", "permanent"}, NEW code \in Answers \cup {"none"},
         NEW next \in BOOLEAN,
         ~next /\ code \notin {"2xx", "4xx", "none"} => n = MaxAttempts,
         rows' = rows,
         RecordNotification(k, t, n, status, code, next)
  PROVE  /\ log' \subseteq Row
         /\ unlogged' \subseteq Triggers \X Targets
         /\ LogHasTarget'
         /\ NoEarlyGiveUp'
<1> DEFINE row == [trigger |-> k, target |-> t, attempt |-> n,
                   status |-> status, code |-> code, next |-> next]
<1>1. row \in Row
  BY DEF Row
<1>2. CASE rows[t] # NoRow /\ log' = log \cup {row} /\ UNCHANGED unlogged
  <2>1. \A r \in log' : r \in log \/ r = row
    BY <1>2
  <2>2. row.target = t /\ row.code = code /\ row.next = next /\ row.attempt = n
    OBVIOUS
  <2> HIDE DEF row
  <2>3. LogHasTarget'
    BY <1>2, <2>1, <2>2 DEF LogHasTarget
  <2>4. NoEarlyGiveUp'
    BY <2>1, <2>2 DEF NoEarlyGiveUp
  <2>5. QED
    BY <1>1, <1>2, <2>3, <2>4 DEF TypeOK
<1>3. CASE unlogged' = unlogged \cup {<<k, t>>} /\ UNCHANGED log
  BY <1>3 DEF TypeOK, LogHasTarget, NoEarlyGiveUp
<1>4. QED
  BY <1>2, <1>3 DEF RecordNotification

IInv == TypeOK /\ Budget /\ LogHasTarget /\ NoEarlyGiveUp

\* The inductive step, one case per action.
LEMMA Inductive ==
  ASSUME IInv, [Next]_vars
  PROVE  IInv'
<1> USE TriggerNumbers DEF IInv
<1>1. ASSUME NEW devs \in SUBSET Categories \ {{}}, Trigger(devs)
      PROVE  IInv'
  <2> DEFINE k == triggers + 1
  <2>1. k \in Triggers /\ triggers \in Nat
    BY <1>1 DEF Trigger, TypeOK
  <2>2. \A t \in Targets : rows[t].template \in {"known", "unknown", "none"}
    <3>1. \A c \in Config : c.template \in {"known", "unknown"}
      BY DEF Config
    <3>2. NoRow.template = "none"
      BY DEF NoRow
    <3>3. QED
      BY <3>1, <3>2 DEF TypeOK
  <2>3. /\ pc' = [pc EXCEPT ![k] = [t \in Targets |-> IF Notified(t, devs) THEN "render" ELSE "none"]]
        /\ template' = [template EXCEPT ![k] = [t \in Targets |-> rows[t].template]]
        /\ triggers' = k
        /\ UNCHANGED <<attempt, answer, rows, edits, log, unlogged>>
    BY <1>1 DEF Trigger, table, logging
  <2> HIDE DEF k
  <2>4. pc' \in [Triggers -> [Targets -> Steps]]
    BY <2>1, <2>3 DEF TypeOK, Steps, Active
  <2>5. template' \in [Triggers -> [Targets -> {"known", "unknown", "none"}]]
    BY <2>1, <2>2, <2>3 DEF TypeOK
  <2>6. \A j \in Triggers, t \in Targets :
           /\ j # k => pc'[j][t] = pc[j][t]
           /\ j = k => pc'[j][t] \in {"render", "none"}
    BY <2>1, <2>3 DEF TypeOK
  <2>7. TypeOK'
    <3>1. \A j \in Triggers, t \in Targets : pc'[j][t] # "none" => j <= triggers'
      BY <2>1, <2>3, <2>6 DEF TypeOK, k
    <3>2. triggers' \in 0..MaxTriggers
      BY <2>1, <2>3
    <3>3. QED
      BY <2>3, <2>4, <2>5, <3>1, <3>2 DEF TypeOK
  <2>8. Budget'
    BY <2>1, <2>3, <2>6 DEF Budget, TypeOK, k
  <2>9. QED
    BY <2>3, <2>7, <2>8 DEF LogHasTarget, NoEarlyGiveUp
<1>2. ASSUME NEW k \in Triggers, NEW t \in Targets, RenderFails(k, t)
      PROVE  IInv'
  <2>1. /\ pc' = [pc EXCEPT ![k][t] = "done"]
        /\ attempt' = [attempt EXCEPT ![k][t] = 1]
        /\ UNCHANGED <<rows, edits, triggers, template, answer>>
        /\ pc[k][t] = "render"
        /\ RecordNotification(k, t, 1, "permanent", "none", FALSE)
    BY <1>2 DEF RenderFails, table
  <2>2. /\ log' \subseteq Row /\ unlogged' \subseteq Triggers \X Targets
        /\ LogHasTarget' /\ NoEarlyGiveUp'
    <3>1. 1 \in 1..MaxAttempts
      OBVIOUS
    <3>2. QED
      BY <2>1, <3>1, RecordStep
  <2>3. TypeOK'
    <3>1. /\ attempt' \in [Triggers -> [Targets -> 0..MaxAttempts]]
          /\ pc' \in [Triggers -> [Targets -> Steps]]
      BY <2>1 DEF TypeOK, Steps, Active
    <3>2. \A j \in Triggers, u \in Targets : pc'[j][u] # "none" => j <= triggers
      BY <2>1 DEF TypeOK
    <3>3. QED
      BY <2>1, <2>2, <3>1, <3>2 DEF TypeOK
  <2>4. Budget'
    BY <2>1 DEF Budget, TypeOK
  <2>5. QED
    BY <2>2, <2>3, <2>4
<1>3. ASSUME NEW k \in Triggers, NEW t \in Targets, Record(k, t)
      PROVE  IInv'
  <2> DEFINE n == attempt[k][t]
             a == answer[k][t]
             status == classify(a)
             retry == status = "failed" /\ n < MaxAttempts
  <2>1. /\ pc' = [pc EXCEPT ![k][t] = IF retry THEN "sleep" ELSE "done"]
        /\ answer' = [answer EXCEPT ![k][t] = "none"]
        /\ UNCHANGED <<rows, edits, triggers, template, attempt>>
        /\ pc[k][t] = "record"
        /\ RecordNotification(k, t, n, status, a, retry)
    BY <1>3 DEF Record, table
  <2>2. n \in 1..MaxAttempts /\ a \in Answers
    BY <2>1 DEF Budget, TypeOK
  <2>3. status \in {"sent", "failed", "permanent"}
    BY DEF classify
  <2>4. a \notin {"2xx", "4xx", "none"} => status = "failed"
    BY DEF classify
  <2>5. retry \in BOOLEAN /\ (~retry /\ a \notin {"2xx", "4xx", "none"} => n = MaxAttempts)
    BY <2>2, <2>4
  <2>6. retry => attempt[k][t] < MaxAttempts
    OBVIOUS
  <2> HIDE DEF n, a, status, retry
  <2>7. /\ log' \subseteq Row /\ unlogged' \subseteq Triggers \X Targets
        /\ LogHasTarget' /\ NoEarlyGiveUp'
    BY <2>1, <2>2, <2>3, <2>5, RecordStep
  <2>8. TypeOK'
    <3>1. pc' \in [Triggers -> [Targets -> Steps]]
      BY <2>1, <2>5 DEF TypeOK, Steps, Active
    <3>2. answer' \in [Triggers -> [Targets -> Answers \cup {"none"}]]
      BY <2>1 DEF TypeOK
    <3>3. \A j \in Triggers, u \in Targets : pc'[j][u] # "none" => j <= triggers
      BY <2>1 DEF TypeOK
    <3>4. QED
      BY <2>1, <2>7, <3>1, <3>2, <3>3 DEF TypeOK
  <2>9. Budget'
    BY <2>1, <2>6 DEF Budget, TypeOK
  <2>10. QED
    BY <2>7, <2>8, <2>9
<1>4. ASSUME NEW k \in Triggers, NEW t \in Targets, Render(k, t) \/ Wake(k, t)
      PROVE  IInv'
  <2>1. /\ pc' = [pc EXCEPT ![k][t] = "post"]
        /\ attempt' = [attempt EXCEPT ![k][t] = @ + 1]
        /\ pc[k][t] \in {"render", "sleep"}
        /\ UNCHANGED <<rows, edits, triggers, template, answer, log, unlogged>>
    BY <1>4 DEF Render, Wake, NextAttempt, table, logging
  <2>2. attempt[k][t] + 1 \in 1..MaxAttempts
    BY <2>1 DEF Budget, TypeOK
  <2>3. TypeOK'
    <3>1. /\ pc' \in [Triggers -> [Targets -> Steps]]
          /\ attempt' \in [Triggers -> [Targets -> 0..MaxAttempts]]
      BY <2>1, <2>2 DEF TypeOK, Steps, Active
    <3>2. \A j \in Triggers, u \in Targets : pc'[j][u] # "none" => j <= triggers
      BY <2>1 DEF TypeOK
    <3>3. QED
      BY <2>1, <3>1, <3>2 DEF TypeOK
  <2>4. Budget'
    BY <2>1, <2>2 DEF Budget, TypeOK
  <2>5. QED
    BY <2>1, <2>3, <2>4 DEF LogHasTarget, NoEarlyGiveUp
<1>10. ASSUME NEW k \in Triggers, NEW t \in Targets, NEW a \in Answers, Post(k, t, a)
      PROVE  IInv'
  <2>1. /\ pc' = [pc EXCEPT ![k][t] = "record"]
        /\ answer' = [answer EXCEPT ![k][t] = a]
        /\ pc[k][t] = "post"
        /\ UNCHANGED <<rows, edits, triggers, template, attempt, log, unlogged>>
    BY <1>10 DEF Post, table, logging
  <2>2. TypeOK'
    BY <2>1 DEF TypeOK, Steps, Active
  <2>3. Budget'
    BY <2>1 DEF Budget, TypeOK
  <2>4. QED
    BY <2>1, <2>2, <2>3 DEF LogHasTarget, NoEarlyGiveUp
<1>5. ASSUME NEW t \in Targets, NEW c \in Config, Upsert(t, c)
      PROVE  IInv'
  <2>1. c # NoRow
    <3>1. c.template # "none"
      BY DEF Config
    <3>2. NoRow.template = "none"
      BY DEF NoRow
    <3>3. QED
      BY <3>1, <3>2
  <2>2. /\ rows' = [rows EXCEPT ![t] = c]
        /\ edits' = edits + 1 /\ edits < MaxEdits
        /\ UNCHANGED <<triggers, pc, attempt, answer, template, log, unlogged>>
    BY <1>5 DEF Upsert, delivery, logging
  <2>3. TypeOK'
    BY <2>2 DEF TypeOK
  <2>4. LogHasTarget'
    BY <2>1, <2>2 DEF LogHasTarget, TypeOK, Row
  <2>5. QED
    BY <2>2, <2>3, <2>4 DEF Budget, NoEarlyGiveUp
<1>6. ASSUME NEW t \in Targets, Remove(t)
      PROVE  IInv'
  <2>1. /\ rows' = [rows EXCEPT ![t] = NoRow]
        /\ edits' = edits + 1 /\ edits < MaxEdits
        /\ log' = {r \in log : r.target # t}
        /\ unlogged' = unlogged \cup {<<r.trigger, t>> : r \in {x \in log : x.target = t}}
        /\ UNCHANGED <<triggers, pc, attempt, answer, template>>
    BY <1>6 DEF Remove, delivery
  <2>2. \A r \in log : r.trigger \in Triggers /\ r.target \in Targets
    BY DEF TypeOK, Row
  <2>3. unlogged' \subseteq Triggers \X Targets
    BY <2>1, <2>2 DEF TypeOK
  <2>4. TypeOK'
    BY <2>1, <2>3 DEF TypeOK
  <2>5. LogHasTarget' /\ NoEarlyGiveUp'
    BY <2>1, <2>2 DEF LogHasTarget, NoEarlyGiveUp, TypeOK
  <2>6. QED
    BY <2>1, <2>4, <2>5 DEF Budget
<1>7. CASE Restart
  <2>1. /\ pc' = [k \in Triggers |-> [t \in Targets |-> pc'[k][t]]]
        /\ \A k \in Triggers, t \in Targets :
              \/ pc'[k][t] = pc[k][t] /\ pc[k][t] \notin Active
              \/ pc[k][t] \in {"render", "sleep"} /\ pc'[k][t] = "killed"
              \/ pc[k][t] \in {"post", "record"} /\ pc'[k][t] = "cut"
        /\ answer' = PerDelivery("none")
        /\ UNCHANGED <<rows, edits, triggers, template, attempt, log, unlogged>>
    BY <1>7 DEF Restart, table, logging, Active
  <2>2. answer' \in [Triggers -> [Targets -> Answers \cup {"none"}]]
    BY <2>1 DEF PerDelivery
  <2>3. pc' \in [Triggers -> [Targets -> Steps]]
    BY <2>1 DEF TypeOK, Steps, Active
  <2>4. \A k \in Triggers, t \in Targets : pc'[k][t] # "none" => pc[k][t] # "none"
    BY <2>1
  <2>5. TypeOK'
    BY <2>1, <2>2, <2>3, <2>4 DEF TypeOK
  <2>6. Budget'
    BY <2>1 DEF Budget, Active
  <2>7. QED
    BY <2>1, <2>5, <2>6 DEF LogHasTarget, NoEarlyGiveUp
<1>8. CASE UNCHANGED vars
  BY <1>8 DEF vars, table, delivery, logging, TypeOK, Budget, LogHasTarget, NoEarlyGiveUp
<1>9. QED
  <2> HIDE DEF IInv
  <2> QED
    BY <1>1, <1>2, <1>3, <1>4, <1>10, <1>5, <1>6, <1>7, <1>8 DEF Next, DeliveryStep

\* The invariant holds in every reachable state.
LEMMA Invariant == Spec => []IInv
<1>1. Init => IInv
  <2> SUFFICES ASSUME Init PROVE IInv
    OBVIOUS
  <2>1. rows \in [Targets -> Config \cup {NoRow}]
    BY DEF Init, Config
  <2>2. QED
    BY <2>1, TriggerNumbers
       DEF Init, IInv, TypeOK, Budget, LogHasTarget, NoEarlyGiveUp, PerDelivery, Steps
<1>2. QED
  BY <1>1, Inductive, PTL DEF Spec

\* No delivery makes more than MaxAttempts POSTs, and every log row is well-formed,
\* whatever the operator edits meanwhile (deliverWithRetry's loop bound).
THEOREM TypeCorrect == Spec => []TypeOK
BY Invariant, PTL DEF IInv

\* A target that was down or busy is called again until the attempts are used up
\* (classify, deliverWithRetry).
THEOREM RetriesAreUsed == Spec => []NoEarlyGiveUp
BY Invariant, PTL DEF IInv

\* No log row is without its target, though deliveries outlive the row they were
\* started from (foreign key and cascade of notifications).
THEOREM LogSafe == Spec => []LogHasTarget
BY Invariant, PTL DEF IInv

-------------------------------------------------------------------------------
(* The log tells all.  Counting rows needs them to be finitely many, and that  *)
(* the row of an attempt is new needs the numbers in the log to be exactly     *)
(* those of the attempts made.                                                 *)

\* Whether a row announces another POST depends on whether there was, or may
\* still be, one.
RowInv(r, k, t) ==
    IF r.attempt < attempt[k][t] \/ pc[k][t] \in {"sleep", "killed"}
    THEN r.status = "failed" /\ r.next
    ELSE ~r.next

\* What the log says of the delivery of trigger k to target t.
Story(k, t) ==
    /\ IsFiniteSet(RowsOf(k, t))
    /\ Cardinality(RowsOf(k, t)) = Logged(k, t)
    /\ {r.attempt : r \in RowsOf(k, t)} = 1..Logged(k, t)
    /\ \A r \in RowsOf(k, t) : RowInv(r, k, t)

StoryInv == \A k \in Triggers, t \in Targets : <<k, t>> \notin unlogged => Story(k, t)

\* Before its first POST a delivery has no row; while one is under way, or when
\* it was cut off, every row is that of an earlier attempt.
LEMMA EarlierRows ==
  ASSUME TypeOK, Budget, NEW k \in Triggers, NEW t \in Targets, Story(k, t)
  PROVE  /\ Logged(k, t) \in Nat
         /\ \A r \in RowsOf(k, t) : r.attempt \in 1..Logged(k, t)
         /\ attempt[k][t] = 0 => RowsOf(k, t) = {} /\ Logged(k, t) = 0
         /\ pc[k][t] \in {"post", "record", "sleep"} =>
                \A r \in RowsOf(k, t) : r.status = "failed" /\ r.next
<1>1. /\ attempt[k][t] \in Nat
      /\ pc[k][t] \in {"post", "record", "cut"} => attempt[k][t] >= 1
  BY DEF TypeOK, Budget
<1>2. Logged(k, t) \in Nat
  BY <1>1 DEF Logged
<1>3. \A r \in RowsOf(k, t) : r.attempt \in 1..Logged(k, t)
  BY DEF Story
<1>4. ASSUME attempt[k][t] = 0 PROVE RowsOf(k, t) = {} /\ Logged(k, t) = 0
  <2>1. Logged(k, t) = 0
    BY <1>1, <1>4 DEF Logged
  <2>2. QED
    BY <1>3, <2>1
<1>5. ASSUME pc[k][t] \in {"post", "record", "sleep"}, NEW r \in RowsOf(k, t)
      PROVE  r.status = "failed" /\ r.next
  <2>1. RowInv(r, k, t)
    BY DEF Story
  <2>2. CASE pc[k][t] \in {"post", "record"}
    <3>1. Logged(k, t) = attempt[k][t] - 1
      BY <2>2 DEF Logged
    <3>2. r.attempt < attempt[k][t]
      BY <1>1, <1>3, <3>1
    <3>3. QED
      BY <2>1, <3>2 DEF RowInv
  <2>3. CASE pc[k][t] = "sleep"
    BY <2>1, <2>3 DEF RowInv
  <2>4. QED
    BY <1>5, <2>2, <2>3
<1>6. QED
  BY <1>2, <1>3, <1>4, <1>5

\* A step that writes no row leaves the story as it is if it neither starts nor
\* ends an attempt that has one.
LEMMA StoryFrame ==
  ASSUME NEW k \in Triggers, NEW t \in Targets, Story(k, t),
         RowsOf(k, t)' = RowsOf(k, t), Logged(k, t)' = Logged(k, t),
         \A r \in RowsOf(k, t) : RowInv(r, k, t)'
  PROVE  Story(k, t)'
BY DEF Story

\* In particular if it leaves the delivery alone.
LEMMA StoryStays ==
  ASSUME NEW k \in Triggers, NEW t \in Targets, Story(k, t),
         RowsOf(k, t)' = RowsOf(k, t), attempt'[k][t] = attempt[k][t], pc'[k][t] = pc[k][t]
  PROVE  Story(k, t)'
<1>1. Logged(k, t)' = Logged(k, t)
  BY DEF Logged
<1>2. \A r \in RowsOf(k, t) : RowInv(r, k, t)'
  BY DEF Story, RowInv
<1>3. QED
  BY <1>1, <1>2, StoryFrame

\* RecordNotification completes the story of an attempt, or gives it up.
LEMMA StoryGrows ==
  ASSUME NEW k \in Triggers, NEW t \in Targets, Story(k, t), NEW n \in Nat,
         Logged(k, t) \in Nat, n = Logged(k, t) + 1,
         \A r \in RowsOf(k, t) : r.status = "failed" /\ r.next,
         NEW status, NEW code, NEW next, next \in BOOLEAN,
         next => status = "failed",
         NEW row, row = [trigger |-> k, target |-> t, attempt |-> n,
                         status |-> status, code |-> code, next |-> next],
         log' = log \cup {row}, attempt'[k][t] = n,
         pc'[k][t] = IF next THEN "sleep" ELSE "done"
  PROVE  Story(k, t)'
<1>1. row.trigger = k /\ row.target = t /\ row.attempt = n /\ row.status = status /\ row.next = next
  OBVIOUS
<1>2. RowsOf(k, t)' = RowsOf(k, t) \cup {row}
  BY <1>1 DEF RowsOf
<1>3. \A r \in RowsOf(k, t) : r.attempt \in 1..Logged(k, t)
  BY DEF Story
<1>4. row \notin RowsOf(k, t)
  BY <1>1, <1>3
<1>5. /\ IsFiniteSet(RowsOf(k, t)')
      /\ Cardinality(RowsOf(k, t)') = Cardinality(RowsOf(k, t)) + 1
  <2>1. IsFiniteSet(RowsOf(k, t))
    BY DEF Story
  <2>2. /\ IsFiniteSet(RowsOf(k, t) \cup {row})
        /\ Cardinality(RowsOf(k, t) \cup {row}) = Cardinality(RowsOf(k, t)) + 1
    BY <1>4, <2>1, FS_AddElement
  <2>3. QED
    BY <1>2, <2>2
<1>6. Logged(k, t)' = n
  BY DEF Logged
<1>7. Cardinality(RowsOf(k, t)') = Logged(k, t)'
  BY <1>5, <1>6 DEF Story
<1>8. {r.attempt : r \in RowsOf(k, t)'} = 1..Logged(k, t)'
  <2>1. {r.attempt : r \in RowsOf(k, t)'} = {r.attempt : r \in RowsOf(k, t)} \cup {n}
    BY <1>1, <1>2
  <2>2. 1..n = (1..Logged(k, t)) \cup {n}
    OBVIOUS
  <2>3. QED
    BY <1>6, <2>1, <2>2 DEF Story
<1>9. ASSUME NEW r \in RowsOf(k, t)'
      PROVE  RowInv(r, k, t)'
  <2>1. CASE r \in RowsOf(k, t)
    <3>1. r.status = "failed" /\ r.next
      BY <2>1
    <3>2. r.attempt < attempt'[k][t]
      BY <1>3, <2>1
    <3>3. QED
      BY <3>1, <3>2 DEF RowInv
  <2>2. CASE r = row
    BY <1>1, <2>2 DEF RowInv
  <2>3. QED
    BY <1>2, <2>1, <2>2
<1>10. QED
  BY <1>5, <1>7, <1>8, <1>9 DEF Story

\* Recording an attempt of one delivery leaves the stories of the others alone.
LEMMA StoryRecord ==
  ASSUME TypeOK, Budget, StoryInv, NEW k \in Triggers, NEW t \in Targets, NEW n \in Nat,
         n = Logged(k, t) + 1, NEW status, NEW code, NEW next \in BOOLEAN,
         next => status = "failed",
         RecordNotification(k, t, n, status, code, next),
         attempt' = [attempt EXCEPT ![k][t] = n],
         pc[k][t] \in {"render", "record"},
         pc' = [pc EXCEPT ![k][t] = IF next THEN "sleep" ELSE "done"]
  PROVE  StoryInv'
<1>1. SUFFICES ASSUME NEW j \in Triggers, NEW u \in Targets, <<j, u>> \notin unlogged'
               PROVE  Story(j, u)'
  BY DEF StoryInv
<1>2. unlogged \subseteq unlogged'
  BY DEF RecordNotification
<1>3. Story(j, u)
  BY <1>1, <1>2 DEF StoryInv
<1>4. CASE j = k /\ u = t
  <2> DEFINE row == [trigger |-> k, target |-> t, attempt |-> n,
                     status |-> status, code |-> code, next |-> next]
  <2>1. log' = log \cup {row}
    BY <1>1, <1>4 DEF RecordNotification
  <2>2. attempt'[k][t] = n /\ pc'[k][t] = IF next THEN "sleep" ELSE "done"
    BY DEF TypeOK
  <2>3. pc[k][t] = "render" => attempt[k][t] = 0
    BY DEF Budget
  <2>4. Logged(k, t) \in Nat /\ \A r \in RowsOf(k, t) : r.status = "failed" /\ r.next
    BY <1>3, <1>4, <2>3, EarlierRows
  <2>5. Story(k, t)'
    BY <1>3, <1>4, <2>1, <2>2, <2>4, StoryGrows
  <2>6. QED
    BY <1>4, <2>5
<1>5. CASE ~(j = k /\ u = t)
  <2> DEFINE row == [trigger |-> k, target |-> t, attempt |-> n,
                     status |-> status, code |-> code, next |-> next]
  <2>1. log' = log \cup {row} \/ log' = log
    BY DEF RecordNotification
  <2>2. row.trigger = k /\ row.target = t
    OBVIOUS
  <2> HIDE DEF row
  <2>3. RowsOf(j, u)' = RowsOf(j, u)
    BY <1>5, <2>1, <2>2 DEF RowsOf
  <2>4. attempt'[j][u] = attempt[j][u] /\ pc'[j][u] = pc[j][u]
    BY <1>5 DEF TypeOK
  <2>5. QED
    BY <1>3, <2>3, <2>4, StoryStays
<1>6. QED
  BY <1>4, <1>5

\* Every step that writes no row: a delivery is started, begins its next
\* attempt, is answered, or is killed.
LEMMA StoryMoves ==
  ASSUME TypeOK, Budget, StoryInv, UNCHANGED <<log, unlogged>>,
         \A k \in Triggers, t \in Targets :
             \/ UNCHANGED <<pc[k][t], attempt[k][t]>>
             \/ attempt'[k][t] = 0 /\ attempt[k][t] = 0 /\ pc'[k][t] \in {"none", "render"}
             \/ /\ pc[k][t] \in {"render", "sleep"} /\ pc'[k][t] = "post"
                /\ attempt'[k][t] = attempt[k][t] + 1
             \/ /\ pc[k][t] = "post" /\ pc'[k][t] = "record"
                /\ attempt'[k][t] = attempt[k][t]
             \/ /\ pc[k][t] \in {"render", "sleep"} /\ pc'[k][t] = "killed"
                /\ attempt'[k][t] = attempt[k][t]
             \/ /\ pc[k][t] \in {"post", "record"} /\ pc'[k][t] = "cut"
                /\ attempt'[k][t] = attempt[k][t]
  PROVE  StoryInv'
<1>1. SUFFICES ASSUME NEW k \in Triggers, NEW t \in Targets, <<k, t>> \notin unlogged'
               PROVE  Story(k, t)'
  BY DEF StoryInv
<1>2. Story(k, t) /\ RowsOf(k, t)' = RowsOf(k, t)
  BY <1>1 DEF StoryInv, RowsOf
<1>3. /\ \A r \in RowsOf(k, t) : r.attempt \in 1..Logged(k, t)
      /\ attempt[k][t] = 0 => RowsOf(k, t) = {} /\ Logged(k, t) = 0
      /\ pc[k][t] \in {"post", "record", "sleep"} =>
                \A r \in RowsOf(k, t) : r.status = "failed" /\ r.next
      /\ Logged(k, t) \in Nat
  BY <1>2, EarlierRows
<1>4. attempt[k][t] \in Nat /\ (pc[k][t] = "render" => attempt[k][t] = 0)
  BY DEF TypeOK, Budget
<1>5. CASE UNCHANGED <<pc[k][t], attempt[k][t]>>
  BY <1>2, <1>5, StoryStays
<1>6. CASE attempt'[k][t] = 0 /\ attempt[k][t] = 0 /\ pc'[k][t] \in {"none", "render"}
  <2>1. Logged(k, t)' = 0
    BY <1>6 DEF Logged
  <2>2. QED
    BY <1>2, <1>3, <1>6, <2>1, StoryFrame
<1>7. CASE /\ pc[k][t] \in {"render", "sleep"} /\ pc'[k][t] = "post"
           /\ attempt'[k][t] = attempt[k][t] + 1
  <2>1. Logged(k, t)' = attempt[k][t] /\ Logged(k, t) = attempt[k][t]
    BY <1>4, <1>7 DEF Logged
  <2>2. ASSUME NEW r \in RowsOf(k, t) PROVE RowInv(r, k, t)'
    <3>1. r.attempt < attempt'[k][t]
      BY <1>3, <1>4, <1>7, <2>1
    <3>2. r.status = "failed" /\ r.next
      BY <1>3, <1>4, <1>7
    <3>3. QED
      BY <3>1, <3>2 DEF RowInv
  <2>3. QED
    BY <1>2, <2>1, <2>2, StoryFrame
<1>8. CASE /\ pc[k][t] \in {"post", "record"} /\ pc'[k][t] \in {"record", "cut"}
           /\ attempt'[k][t] = attempt[k][t]
  <2>1. Logged(k, t)' = Logged(k, t) /\ Logged(k, t) = attempt[k][t] - 1
    BY <1>8 DEF Logged
  <2>2. ASSUME NEW r \in RowsOf(k, t) PROVE RowInv(r, k, t)'
    <3>1. r.attempt < attempt'[k][t]
      BY <1>3, <1>4, <1>8, <2>1
    <3>2. r.status = "failed" /\ r.next
      BY <1>3, <1>8
    <3>3. QED
      BY <3>1, <3>2 DEF RowInv
  <2>3. QED
    BY <1>2, <2>1, <2>2, StoryFrame
<1>9. CASE /\ pc[k][t] \in {"render", "sleep"} /\ pc'[k][t] = "killed"
           /\ attempt'[k][t] = attempt[k][t]
  <2>1. Logged(k, t)' = Logged(k, t)
    BY <1>9 DEF Logged
  <2>2. ASSUME NEW r \in RowsOf(k, t) PROVE RowInv(r, k, t)'
    BY <1>3, <1>4, <1>9 DEF RowInv
  <2>3. QED
    BY <1>2, <2>1, <2>2, StoryFrame
<1>10. QED
  BY <1>5, <1>6, <1>7, <1>8, <1>9

\* The inductive step, one case per action.
LEMMA StoryStep ==
  ASSUME TypeOK, Budget, StoryInv, [Next]_vars
  PROVE  StoryInv'
<1> USE TriggerNumbers
<1>1. ASSUME NEW devs \in SUBSET Categories \ {{}}, Trigger(devs)
      PROVE  StoryInv'
  <2>1. UNCHANGED <<attempt, log, unlogged>>
    BY <1>1 DEF Trigger, logging
  <2>2. ASSUME NEW k \in Triggers, NEW t \in Targets
        PROVE  \/ UNCHANGED <<pc[k][t], attempt[k][t]>>
               \/ attempt'[k][t] = 0 /\ attempt[k][t] = 0 /\ pc'[k][t] \in {"none", "render"}
    <3>1. CASE k = triggers + 1
      BY <1>1, <2>1, <3>1 DEF Trigger, Budget, TypeOK
    <3>2. CASE k # triggers + 1
      BY <1>1, <2>1, <3>2 DEF Trigger, TypeOK
    <3>3. QED
      BY <3>1, <3>2
  <2>3. QED
    BY <2>1, <2>2, StoryMoves
<1>2. ASSUME NEW k \in Triggers, NEW t \in Targets, RenderFails(k, t)
      PROVE  StoryInv'
  <2>1. /\ RecordNotification(k, t, 1, "permanent", "none", FALSE)
        /\ attempt' = [attempt EXCEPT ![k][t] = 1]
        /\ pc[k][t] = "render" /\ pc' = [pc EXCEPT ![k][t] = "done"]
    BY <1>2 DEF RenderFails
  <2>2. pc' = [pc EXCEPT ![k][t] = IF FALSE THEN "sleep" ELSE "done"]
    BY <2>1
  <2>3. attempt[k][t] = 0
    BY <2>1 DEF Budget
  <2>4. 1 \in Nat /\ 1 = Logged(k, t) + 1 /\ FALSE \in BOOLEAN
    BY <2>1, <2>3 DEF Logged
  <2>5. QED
    BY <2>1, <2>2, <2>4, StoryRecord
<1>3. ASSUME NEW k \in Triggers, NEW t \in Targets, Record(k, t)
      PROVE  StoryInv'
  <2>1. PICK n \in Nat, a \in Answers : n = attempt[k][t] /\ a = answer[k][t]
    BY <1>3 DEF Record, Budget, TypeOK
  <2> DEFINE status == classify(a)
             retry == status = "failed" /\ n < MaxAttempts
  <2>2. /\ pc' = [pc EXCEPT ![k][t] = IF retry THEN "sleep" ELSE "done"]
        /\ UNCHANGED attempt
        /\ pc[k][t] = "record"
        /\ RecordNotification(k, t, n, status, a, retry)
    BY <1>3, <2>1 DEF Record
  <2>3. n = Logged(k, t) + 1 /\ retry \in BOOLEAN /\ (retry => status = "failed")
    BY <2>1, <2>2 DEF TypeOK, Logged
  <2>4. attempt' = [attempt EXCEPT ![k][t] = n]
    BY <2>1, <2>2 DEF TypeOK
  <2>5. pc[k][t] \in {"render", "record"}
    BY <2>2
  <2> HIDE DEF status, retry
  <2>6. PICK next \in BOOLEAN : next = retry
    BY <2>3
  <2>7. /\ RecordNotification(k, t, n, status, a, next)
        /\ next => status = "failed"
        /\ pc' = [pc EXCEPT ![k][t] = IF next THEN "sleep" ELSE "done"]
    BY <2>2, <2>3, <2>6
  <2>8. QED
    BY <2>3, <2>4, <2>5, <2>7, StoryRecord
<1>4. ASSUME NEW k \in Triggers, NEW t \in Targets, Render(k, t) \/ Wake(k, t)
      PROVE  StoryInv'
  <2>1. /\ pc' = [pc EXCEPT ![k][t] = "post"] /\ pc[k][t] \in {"render", "sleep"}
        /\ attempt' = [attempt EXCEPT ![k][t] = @ + 1]
        /\ UNCHANGED <<log, unlogged>>
    BY <1>4 DEF Render, Wake, NextAttempt, logging
  <2>2. \A j \in Triggers, u \in Targets :
           \/ UNCHANGED <<pc[j][u], attempt[j][u]>>
           \/ /\ pc[j][u] \in {"render", "sleep"} /\ pc'[j][u] = "post"
              /\ attempt'[j][u] = attempt[j][u] + 1
    BY <2>1 DEF TypeOK
  <2>3. QED
    BY <2>1, <2>2, StoryMoves
<1>5. ASSUME NEW k \in Triggers, NEW t \in Targets, NEW a \in Answers, Post(k, t, a)
      PROVE  StoryInv'
  <2>1. /\ pc' = [pc EXCEPT ![k][t] = "record"] /\ pc[k][t] = "post"
        /\ UNCHANGED <<attempt, log, unlogged>>
    BY <1>5 DEF Post, logging
  <2>2. \A j \in Triggers, u \in Targets :
           \/ UNCHANGED <<pc[j][u], attempt[j][u]>>
           \/ /\ pc[j][u] = "post" /\ pc'[j][u] = "record"
              /\ attempt'[j][u] = attempt[j][u]
    BY <2>1 DEF TypeOK
  <2>3. QED
    BY <2>1, <2>2, StoryMoves
<1>6. ASSUME NEW t \in Targets, Remove(t)
      PROVE  StoryInv'
  <2>1. SUFFICES ASSUME NEW j \in Triggers, NEW u \in Targets, <<j, u>> \notin unlogged'
                 PROVE  Story(j, u)'
    BY DEF StoryInv
  <2>2. /\ UNCHANGED <<attempt, pc>>
        /\ log' = {r \in log : r.target # t}
        /\ unlogged' = unlogged \cup {<<r.trigger, t>> : r \in {x \in log : x.target = t}}
    BY <1>6 DEF Remove, delivery
  <2>3. \A r \in log : ~(r.trigger = j /\ r.target = u /\ u = t)
    BY <2>1, <2>2
  <2>4. RowsOf(j, u)' = RowsOf(j, u)
    BY <2>2, <2>3 DEF RowsOf
  <2>5. Story(j, u)
    BY <2>1, <2>2 DEF StoryInv
  <2>6. QED
    BY <2>2, <2>4, <2>5, StoryStays
<1>7. CASE Restart
  <2>1. UNCHANGED <<attempt, log, unlogged>>
    BY <1>7 DEF Restart, logging
  <2>2. \A k \in Triggers, t \in Targets :
           \/ UNCHANGED pc[k][t]
           \/ pc[k][t] \in {"render", "sleep"} /\ pc'[k][t] = "killed"
           \/ pc[k][t] \in {"post", "record"} /\ pc'[k][t] = "cut"
    BY <1>7 DEF Restart
  <2>3. QED
    BY <2>1, <2>2, StoryMoves
<1>8. ASSUME UNCHANGED <<pc, attempt, log, unlogged>> PROVE StoryInv'
  BY <1>8, StoryMoves
<1>9. ASSUME NEW t \in Targets, NEW c \in Config, Upsert(t, c) PROVE StoryInv'
  BY <1>8, <1>9 DEF Upsert, delivery, logging
<1>10. CASE UNCHANGED vars
  BY <1>8, <1>10 DEF vars, delivery, logging
<1>11. QED
  BY <1>1, <1>2, <1>3, <1>4, <1>5, <1>6, <1>7, <1>9, <1>10 DEF Next, DeliveryStep

\* The delivery log tells the whole story of every delivery whose rows could be
\* written and still have their target: one row per attempt, numbered from 1,
\* except for an attempt that is under way or that a kill of the process cut
\* off; each that was, or may have been, followed by another announces it.
THEOREM LogComplete == Spec => []LogTellsAll
<1>1. Init => StoryInv
  <2>1. ASSUME Init, NEW k \in Triggers, NEW t \in Targets
        PROVE  Story(k, t)
    <3>1. RowsOf(k, t) = {} /\ Logged(k, t) = 0
      BY <2>1 DEF Init, RowsOf, PerDelivery, Logged
    <3>2. QED
      BY <3>1, FS_EmptySet DEF Story
  <2>2. QED
    BY <2>1 DEF StoryInv
<1>2. IInv /\ StoryInv /\ [Next]_vars => StoryInv'
  BY StoryStep DEF IInv
<1>3. StoryInv => LogTellsAll
  BY DEF StoryInv, Story, RowInv, LogTellsAll
<1>4. QED
  BY <1>1, <1>2, <1>3, Invariant, PTL DEF Spec
===============================================================================
