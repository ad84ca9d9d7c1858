-------------------------------- MODULE Notifier --------------------------------
(***************************************************************************)
(* Webhook delivery (internal/orchestrator/notifier/notifier.go): Trigger, *)
(* called after an analysis of one run that found deviations, and one      *)
(* deliverWithRetry goroutine per target; with the operator's edits of the *)
(* notifiers table and the delivery log.                                   *)
(***************************************************************************)
EXTENDS Naturals, FiniteSets

CONSTANTS
    Targets,
    Thresholds,   \* the min_severity values operators use; "" = any
    MaxAttempts,  \* maxAttempt (5)
    MaxTriggers,  \* bound: analyses of the run that find deviations
    MaxEdits,     \* bound: edits of the notifiers table
    Removals,     \* may targets be removed?
    StoreFaults,  \* may RecordNotification fail?
    Crashes       \* may the orchestrator be killed?

Categories == {"net", "proc", "fs"}
Ranked == {"low", "medium", "high", "critical"}

ASSUME ThresholdAssumption == Thresholds \subseteq Ranked \cup {""}
ASSUME BoundAssumption == {MaxAttempts, MaxTriggers} \subseteq Nat \ {0} /\ MaxEdits \in Nat
ASSUME FlagAssumption == {Removals, StoreFaults, Crashes} \subseteq BOOLEAN

Triggers == 1..MaxTriggers

\* What post may come back with: an HTTP status class, or an error (a bad URL,
\* an empty secret, a connection refused, a timeout).
Answers == {"2xx", "3xx", "408", "429", "4xx", "5xx", "error"}

\* A notifiers row.  LoadFromFile accepts any template name, the CLI only known ones.
Config == [enabled : BOOLEAN, min : Thresholds, template : {"known", "unknown"}]
NoRow == [enabled |-> FALSE, min |-> "", template |-> "none"]

\* A notifications row.
Row == [trigger : Triggers, target : Targets, attempt : 1..MaxAttempts,
        status : {"sent", "failed", "permanent"}, code : Answers \cup {"none"},
        next : BOOLEAN]

VARIABLES
    rows,      \* the notifiers table
    edits,
    triggers,  \* Trigger calls so far
    pc,        \* pc[k][t]: the delivery of trigger k to target t
    attempt,   \* attempt[k][t]: POSTs it made or is making
    answer,    \* answer[k][t]: of the POST that has no row yet
    template,  \* template[k][t]: from its copy of the row
    log,       \* the notifications table
    unlogged   \* history: <<k, t>> whose log lacks a row that was not written or
               \* went away with the target

table == <<rows, edits>>
delivery == <<pc, attempt, answer, template>>
logging == <<log, unlogged>>
vars == <<table, triggers, delivery, logging>>

\* killed: the process died before a POST was begun or while it waited for the
\* next one; cut: it died between the start of a POST and its row.
Active == {"render", "post", "record", "sleep"}
Steps == Active \cup {"none", "done", "killed", "cut"}

PerDelivery(v) == [k \in Triggers |-> [t \in Targets |-> v]]

Init ==
    /\ rows \in [Targets -> [enabled : {TRUE}, min : Thresholds, template : {"known"}]]
    /\ edits = 0
    /\ triggers = 0
    /\ pc = PerDelivery("none")
    /\ attempt = PerDelivery(0)
    /\ answer = PerDelivery("none")
    /\ template = PerDelivery("known")
    /\ log = {}
    /\ unlogged = {}

-------------------------------------------------------------------------------
\* The severity the Differ writes for a category; no other value is written.
defaultSeverity(c) == IF c \in {"net", "proc"} THEN "warn" ELSE "info"

severityRank(s) ==
    CASE s = "critical" -> 4 [] s = "high" -> 3 [] s = "medium" -> 2 [] s = "low" -> 1
      [] OTHER -> 0

\* The rank of the worst deviation; highestSeverity keeps "" when none has one.
highestRank(devs) ==
    CHOOSE r \in 0..4 : /\ \A d \in devs : severityRank(defaultSeverity(d)) <= r
                        /\ r = 0 \/ \E d \in devs : severityRank(defaultSeverity(d)) = r

Notified(t, devs) ==
    /\ rows[t].enabled
    /\ rows[t].min # "" => highestRank(devs) >= severityRank(rows[t].min)

\* Faulty variant: a new trigger takes over the goroutines of the previous one.
Trigger_shared(devs) ==
    /\ triggers < MaxTriggers
    /\ triggers' = triggers + 1
    /\ pc' = [k \in Triggers |->
                [t \in Targets |-> IF k = triggers + 1 /\ Notified(t, devs) THEN "render"
                                   ELSE IF pc[k][t] = "sleep" THEN "done" ELSE pc[k][t]]]
    /\ template' = [template EXCEPT ![triggers + 1] = [t \in Targets |-> rows[t].template]]
    /\ UNCHANGED <<attempt, answer, table, logging>>

\* One goroutine per enabled target whose threshold the worst deviation reaches.
\* The deviations are those in the database, which a later analysis replaces.
Trigger(devs) ==
    /\ triggers < MaxTriggers
    /\ triggers' = triggers + 1
    /\ pc' = [pc EXCEPT ![triggers + 1] =
                [t \in Targets |-> IF Notified(t, devs) THEN "render" ELSE "none"]]
    /\ template' = [template EXCEPT ![triggers + 1] = [t \in Targets |-> rows[t].template]]
    /\ UNCHANGED <<attempt, answer, table, logging>>

\* RecordNotification: the foreign key rejects a row for a target that is gone.
RecordNotification(k, t, n, status, code, next) ==
    \/ /\ rows[t] # NoRow
       /\ log' = log \cup {[trigger |-> k, target |-> t, attempt |-> n,
                            status |-> status, code |-> code, next |-> next]}
       /\ UNCHANGED unlogged
    \/ /\ StoreFaults \/ rows[t] = NoRow
       /\ unlogged' = unlogged \cup {<<k, t>>}
       /\ UNCHANGED log

\* An unknown template is recorded as one permanent failure, with no POST.
RenderFails(k, t) ==
    /\ pc[k][t] = "render" /\ template[k][t] = "unknown"
    /\ RecordNotification(k, t, 1, "permanent", "none", FALSE)
    /\ pc' = [pc EXCEPT ![k][t] = "done"]
    /\ attempt' = [attempt EXCEPT ![k][t] = 1]
    /\ UNCHANGED <<answer, template, table, triggers>>

\* The next turn of the retry loop begins.
NextAttempt(k, t) ==
    /\ pc' = [pc EXCEPT ![k][t] = "post"]
    /\ attempt' = [attempt EXCEPT ![k][t] = @ + 1]

Render(k, t) ==
    /\ pc[k][t] = "render" /\ template[k][t] = "known"
    /\ NextAttempt(k, t)
    /\ UNCHANGED <<answer, template, table, triggers, logging>>

\* The POST ends, after up to the client's timeout, with an answer or an error.
Post(k, t, a) ==
    /\ pc[k][t] = "post"
    /\ pc' = [pc EXCEPT ![k][t] = "record"]
    /\ answer' = [answer EXCEPT ![k][t] = a]
    /\ UNCHANGED <<attempt, template, table, triggers, logging>>

\* Faulty variant: 408 and 429 count as permanent, like any 4xx.
classify_noBackpressure(a) ==
    CASE a = "2xx" -> "sent" [] a \in {"4xx", "408", "429"} -> "permanent" [] OTHER -> "failed"

classify(a) ==
    CASE a = "2xx" -> "sent" [] a = "4xx" -> "permanent" [] OTHER -> "failed"

\* recordAttempt, then stop or sleep.
Record(k, t) ==
    LET n == attempt[k][t]
        status == classify(answer[k][t])
        retry == status = "failed" /\ n < MaxAttempts
    IN /\ pc[k][t] = "record"
       /\ RecordNotification(k, t, n, status, answer[k][t], retry)
       /\ pc' = [pc EXCEPT ![k][t] = IF retry THEN "sleep" ELSE "done"]
       /\ answer' = [answer EXCEPT ![k][t] = "none"]
       /\ UNCHANGED <<attempt, template, table, triggers>>

\* Faulty variant: a target that was edited meanwhile is not retried.
Wake_onlyIfEnabled(k, t) ==
    /\ pc[k][t] = "sleep" /\ rows[t].enabled
    /\ NextAttempt(k, t)
    /\ UNCHANGED <<answer, template, table, triggers, logging>>

\* The backoff ends; the row is not read again.
Wake(k, t) ==
    /\ pc[k][t] = "sleep"
    /\ NextAttempt(k, t)
    /\ UNCHANGED <<answer, template, table, triggers, logging>>

-------------------------------------------------------------------------------
(* The operator, and a crash                                               *)

Upsert(t, c) ==
    /\ edits < MaxEdits
    /\ edits' = edits + 1
    /\ rows' = [rows EXCEPT ![t] = c]
    /\ UNCHANGED <<triggers, delivery, logging>>

\* DELETE FROM notifiers; the target's log goes with it (ON DELETE CASCADE).
Remove(t) ==
    /\ Removals /\ edits < MaxEdits
    /\ rows[t] # NoRow
    /\ edits' = edits + 1
    /\ rows' = [rows EXCEPT ![t] = NoRow]
    /\ log' = {r \in log : r.target # t}
    /\ unlogged' = unlogged \cup {<<r.trigger, t>> : r \in {x \in log : x.target = t}}
    /\ UNCHANGED <<triggers, delivery>>

\* The goroutines die with the process; nothing resumes them.
Restart ==
    /\ Crashes /\ \E k \in Triggers, t \in Targets : pc[k][t] \in Active
    /\ pc' = [k \in Triggers |-> [t \in Targets |->
                CASE pc[k][t] \in {"render", "sleep"} -> "killed"
                  [] pc[k][t] \in {"post", "record"} -> "cut"
                  [] OTHER -> pc[k][t]]]
    /\ answer' = PerDelivery("none")
    /\ UNCHANGED <<attempt, template, table, triggers, logging>>

DeliveryStep(k, t) ==
    \/ RenderFails(k, t)
    \/ Render(k, t)
    \/ \E a \in Answers : Post(k, t, a)
    \/ Record(k, t)
    \/ Wake(k, t)

Next ==
    \/ \E devs \in SUBSET Categories \ {{}} : Trigger(devs)
    \/ \E k \in Triggers, t \in Targets : DeliveryStep(k, t)
    \/ \E t \in Targets : Remove(t) \/ \E c \in Config : Upsert(t, c)
    \/ Restart

Spec == Init /\ [][Next]_vars

\* Goroutines are scheduled, POSTs end by the client's timeout (10 s), timers fire.
FairSpec == Spec /\ \A k \in Triggers, t \in Targets : WF_vars(DeliveryStep(k, t))

-------------------------------------------------------------------------------
(* Properties                                                              *)

\* Types; and a delivery is under way only for a trigger that happened.
TypeOK ==
    /\ rows \in [Targets -> Config \cup {NoRow}]
    /\ edits \in 0..MaxEdits
    /\ triggers \in 0..MaxTriggers
    /\ pc \in [Triggers -> [Targets -> Steps]]
    /\ attempt \in [Triggers -> [Targets -> 0..MaxAttempts]]
    /\ answer \in [Triggers -> [Targets -> Answers \cup {"none"}]]
    /\ template \in [Triggers -> [Targets -> {"known", "unknown", "none"}]]
    /\ log \subseteq Row
    /\ unlogged \subseteq Triggers \X Targets
    /\ \A k \in Triggers, t \in Targets : pc[k][t] # "none" => k <= triggers

RowsOf(k, t) == {r \in log : r.trigger = k /\ r.target = t}

\* The POSTs of a delivery whose row is due: one that is under way, or was cut
\* off with the process, has none.
Logged(k, t) == IF pc[k][t] \in {"post", "record", "cut"} THEN attempt[k][t] - 1 ELSE attempt[k][t]

\* Unless a row could not be written or went away with its target, the log tells
\* a delivery's whole story, whatever other triggers and edits go on: one row
\* per POST, numbered from 1, but for one that is under way or during which the
\* process was killed.  A row announces another POST, and is a "failed", if and
\* only if the delivery went on to it, waits for it or was killed waiting.
LogTellsAll ==
    \A k \in Triggers, t \in Targets : <<k, t>> \notin unlogged =>
        /\ Cardinality(RowsOf(k, t)) = Logged(k, t)
        /\ {r.attempt : r \in RowsOf(k, t)} = 1..Logged(k, t)
        /\ \A r \in RowsOf(k, t) :
              IF r.attempt < attempt[k][t] \/ pc[k][t] \in {"sleep", "killed"}
              THEN r.status = "failed" /\ r.next
              ELSE ~r.next

\* A delivery is given up before MaxAttempts POSTs only on an answer that says a
\* retry is pointless: a target that was down, busy (5xx, 408) or asked to be
\* left alone for a while (429) is called again.
NoEarlyGiveUp ==
    \A r \in log : ~r.next /\ r.code \notin {"2xx", "4xx", "none"} => r.attempt = MaxAttempts

\* No log row survives its target, or is written for one that is gone, though
\* deliveries outlive the row they were started from.
LogHasTarget == \A r \in log : rows[r.target] # NoRow

\* Every delivery ends, though the target may fail for ever.
DeliveryEnds ==
    \A k \in Triggers, t \in Targets :
        pc[k][t] \in Active ~> pc[k][t] \in {"done", "killed", "cut"}
=================================================================================
