------------------------------ MODULE Dispatcher ------------------------------
(***************************************************************************)
(* The in-memory job dispatcher (internal/orchestrator/core/dispatcher.go) *)
(* together with its two callers in the HTTP server: SubmitScan, which     *)
(* queues a job, and handlePollJob, the long-poll a runner sits in.        *)
(*                                                                         *)
(* mu is not a variable: each critical section is one atomic action.  The  *)
(* point of the model is what happens between them: QueueJob sends its     *)
(* wake-up after it released mu, and PollJob blocks on the channel after   *)
(* it released mu.                                                         *)
(***************************************************************************)
EXTENDS Naturals, Sequences, FiniteSets

CONSTANTS
    Runners,    \* runner ids
    Jobs,       \* jobs submitted during the modelled period
    Pollers,    \* concurrent handlePollJob invocations
    RunnerOf,   \* the runner id in each poll's URL
    NoJob       \* "this poll holds no job"

ASSUME RunnerOfAssumption == RunnerOf \in [Pollers -> Runners]
ASSUME NoJobAssumption == NoJob \notin Jobs

VARIABLES
    queues,     \* d.queues: per runner, pending jobs in FIFO order
    signals,    \* d.signals: per runner, is a wake buffered in the channel?
    stage,      \* per job, how far its SubmitScan -> QueueJob call has got
    target,     \* per job, the runner its submitter named
    pc,         \* per poll, where the handler is
    ctx,        \* per poll, its context: live, 25s timeout hit, client gone
    holding,    \* per poll, the job PollJob returned to the handler
    received,   \* per runner, the jobs it decoded from a 200, in order
    lost        \* jobs written to a connection nobody reads any more

vars == <<queues, signals, stage, target, pc, ctx, holding, received, lost>>

Stages == {"new", "appended", "sent"}
PollPC == {"idle", "check", "wait", "respond"}
CtxStates == {"live", "expired", "gone"}

Init ==
    /\ queues = [r \in Runners |-> <<>>]
    /\ signals = [r \in Runners |-> FALSE]
    /\ stage = [j \in Jobs |-> "new"]
    /\ target \in [Jobs -> Runners]
    /\ pc = [p \in Pollers |-> "idle"]
    /\ ctx = [p \in Pollers |-> "live"]
    /\ holding = [p \in Pollers |-> NoJob]
    /\ received = [r \in Runners |-> <<>>]
    /\ lost = {}

-------------------------------------------------------------------------------
(* QueueJob: append under mu, then a non-blocking send after unlocking.    *)

\* Faulty variant: the job is put at the head of the queue (LIFO).
QueueAppend_front(j) ==
    /\ stage[j] = "new"
    /\ stage' = [stage EXCEPT ![j] = "appended"]
    /\ queues' = [queues EXCEPT ![target[j]] = <<j>> \o @]
    /\ UNCHANGED <<signals, target, pc, ctx, holding, received, lost>>

QueueAppend(j) ==
    /\ stage[j] = "new"
    /\ stage' = [stage EXCEPT ![j] = "appended"]
    /\ queues' = [queues EXCEPT ![target[j]] = Append(@, j)]
    /\ UNCHANGED <<signals, target, pc, ctx, holding, received, lost>>

\* Faulty variant: "only wake on the empty -> non-empty edge", judged after mu
\* was released.
QueueSignal_edge(j) ==
    /\ stage[j] = "appended"
    /\ stage' = [stage EXCEPT ![j] = "sent"]
    /\ signals' = [signals EXCEPT ![target[j]] = @ \/ Len(queues[target[j]]) = 1]
    /\ UNCHANGED <<queues, target, pc, ctx, holding, received, lost>>

\* The channel holds one wake; with one already buffered the select takes
\* its default branch, so setting the flag covers both branches.
QueueSignal(j) ==
    /\ stage[j] = "appended"
    /\ stage' = [stage EXCEPT ![j] = "sent"]
    /\ signals' = [signals EXCEPT ![target[j]] = TRUE]
    /\ UNCHANGED <<queues, target, pc, ctx, holding, received, lost>>

-------------------------------------------------------------------------------
(* handlePollJob and PollJob.                                              *)

\* A request arrives: a context with the server's 25s cap is attached.
PollStart(p) ==
    /\ pc[p] = "idle"
    /\ pc' = [pc EXCEPT ![p] = "check"]
    /\ ctx' = [ctx EXCEPT ![p] = "live"]
    /\ UNCHANGED <<queues, signals, stage, target, holding, received, lost>>

\* Faulty variant: the head is copied but the slice is not advanced.
PollCheck_peek(p) ==
    LET r == RunnerOf[p] IN
    /\ pc[p] = "check"
    /\ pc' = [pc EXCEPT ![p] = IF queues[r] # <<>> THEN "respond" ELSE "wait"]
    /\ holding' = [holding EXCEPT ![p] = IF queues[r] # <<>> THEN Head(queues[r]) ELSE @]
    /\ UNCHANGED <<queues, signals, stage, target, ctx, received, lost>>

\* The critical section at the top of PollJob's loop.  The context is not
\* looked at here.
PollCheck(p) ==
    LET r == RunnerOf[p] IN
    /\ pc[p] = "check"
    /\ \/ /\ queues[r] # <<>>
          /\ holding' = [holding EXCEPT ![p] = Head(queues[r])]
          /\ queues' = [queues EXCEPT ![r] = Tail(@)]
          /\ pc' = [pc EXCEPT ![p] = "respond"]
       \/ /\ queues[r] = <<>>
          /\ pc' = [pc EXCEPT ![p] = "wait"]
          /\ UNCHANGED <<holding, queues>>
    /\ UNCHANGED <<signals, stage, target, ctx, received, lost>>

\* Faulty variant: the wake is consumed without going back to re-check.
PollWake_swallow(p) ==
    /\ pc[p] = "wait"
    /\ signals[RunnerOf[p]]
    /\ signals' = [signals EXCEPT ![RunnerOf[p]] = FALSE]
    /\ UNCHANGED <<queues, stage, target, pc, ctx, holding, received, lost>>

\* The select's two cases.  When both are ready Go picks either.
PollWake(p) ==
    /\ pc[p] = "wait"
    /\ signals[RunnerOf[p]]
    /\ signals' = [signals EXCEPT ![RunnerOf[p]] = FALSE]
    /\ pc' = [pc EXCEPT ![p] = "check"]
    /\ UNCHANGED <<queues, stage, target, ctx, holding, received, lost>>

PollCtxDone(p) ==
    /\ pc[p] = "wait"
    /\ ctx[p] # "live"
    /\ pc' = [pc EXCEPT ![p] = "idle"]
    /\ UNCHANGED <<queues, signals, stage, target, ctx, holding, received, lost>>

\* The handler writes the job.  An expired server-side timeout does not stop
\* the write; a client that went away never reads it, and nothing re-queues.
Respond(p) ==
    /\ pc[p] = "respond"
    /\ pc' = [pc EXCEPT ![p] = "idle"]
    /\ holding' = [holding EXCEPT ![p] = NoJob]
    /\ \/ /\ ctx[p] # "gone"
          /\ received' = [received EXCEPT ![RunnerOf[p]] = Append(@, holding[p])]
          /\ UNCHANGED lost
       \/ /\ ctx[p] = "gone"
          /\ lost' = lost \cup {holding[p]}
          /\ UNCHANGED received
    /\ UNCHANGED <<queues, signals, stage, target, ctx>>

\* context.WithTimeout fires, or net/http cancels r.Context() because the
\* runner closed the connection.
CtxEnds(p, how) ==
    /\ pc[p] # "idle"
    /\ how \in {"expired", "gone"}
    /\ ctx[p] \notin {how, "gone"}
    /\ ctx' = [ctx EXCEPT ![p] = how]
    /\ UNCHANGED <<queues, signals, stage, target, pc, holding, received, lost>>

Next ==
    \/ \E j \in Jobs : QueueAppend(j) \/ QueueSignal(j)
    \/ \E p \in Pollers : \/ PollStart(p) \/ PollCheck(p) \/ PollWake(p)
                          \/ PollCtxDone(p) \/ Respond(p)
                          \/ \E how \in CtxStates : CtxEnds(p, how)

Spec == Init /\ [][Next]_vars

\* Goroutines make progress and a runner's main loop keeps polling.  No
\* fairness on QueueAppend (nobody has to submit) nor on CtxEnds (a wake-up
\* must not depend on a timeout coming to the rescue).
Fairness ==
    /\ \A j \in Jobs : WF_vars(QueueSignal(j))
    /\ \A p \in Pollers : /\ WF_vars(PollStart(p))
                          /\ WF_vars(PollCheck(p))
                          /\ WF_vars(PollWake(p))
                          /\ WF_vars(PollCtxDone(p))
                          /\ WF_vars(Respond(p))

FairSpec == Spec /\ Fairness

-------------------------------------------------------------------------------
(* Properties                                                              *)

\* A runner's main loop is sequential, so normally one poll per id is in flight.
OnePollPerRunner == \A p, q \in Pollers : RunnerOf[p] = RunnerOf[q] => p = q

\* Types; and a poll handler is about to respond exactly while it holds a job
\* that PollJob returned to it (handlePollJob never writes a zero Job).
TypeOK ==
    /\ queues \in [Runners -> Seq(Jobs)]
    /\ signals \in [Runners -> BOOLEAN]
    /\ stage \in [Jobs -> Stages]
    /\ target \in [Jobs -> Runners]
    /\ pc \in [Pollers -> PollPC]
    /\ ctx \in [Pollers -> CtxStates]
    /\ holding \in [Pollers -> Jobs \cup {NoJob}]
    /\ received \in [Runners -> Seq(Jobs)]
    /\ lost \in SUBSET Jobs
    /\ \A p \in Pollers : pc[p] = "respond" <=> holding[p] # NoJob

\* A poll parked on the wake channel while its runner has work is about to be
\* served: a wake is buffered, a QueueJob has yet to send its own, or another
\* poll of that runner is on its way to the queue (QueueJob's unlock-then-send
\* against PollJob's unlock-then-receive).
NoLostWakeup ==
    \A p \in Pollers :
        LET r == RunnerOf[p] IN
        pc[p] = "wait" /\ queues[r] # <<>> =>
            \/ signals[r]
            \/ \E j \in Jobs : stage[j] = "appended" /\ target[j] = r
            \/ \E q \in Pollers : RunnerOf[q] = r /\ pc[q] = "check"

InSeq(j, s) == \E i \in DOMAIN s : s[i] = j

\* Where job j can be found: the queue it was routed to, the hands of a poll
\* handler, its runner, or a dead connection.
Places(j) ==
    {<<"queue", r>> : r \in {r \in Runners : InSeq(j, queues[r])}}
    \cup {<<"handler", p>> : p \in {p \in Pollers : holding[p] = j}}
    \cup {<<"runner", r>> : r \in {r \in Runners : InSeq(j, received[r])}}
    \cup {<<"lost", r>> : r \in {r \in Runners : j \in lost /\ r = target[j]}}

\* Two polls never carry the same job, no runner executes a scan twice or one
\* meant for another runner, and a submitted job never evaporates
\* (dispatcher.go's queue slicing under mu).
ExactlyOnePlace ==
    \A j \in Jobs :
        /\ stage[j] # "new" => Cardinality(Places(j)) = 1
        /\ stage[j] = "new" => Places(j) = {}
        /\ \A r \in Runners :
              InSeq(j, queues[r]) \/ InSeq(j, received[r]) => r = target[j]

\* A queued job leaves the queue even if no long-poll ever times out: the
\* wake-up alone is enough.
QueuedIsTaken ==
    \A j \in Jobs : (stage[j] # "new") ~> ~InSeq(j, queues[target[j]])

-------------------------------------------------------------------------------
(* Refinement of JobQueue.  Seen from outside, the job a handler carries is *)
(* still the head of its runner's queue.  This mapping needs one poll per   *)
(* runner; with two, the handlers' writes may overtake each other.          *)

Carried(r) == {p \in Pollers : RunnerOf[p] = r /\ holding[p] # NoJob}

Waiting(r) ==
    IF Carried(r) = {} THEN queues[r]
    ELSE <<holding[CHOOSE p \in Carried(r) : TRUE]>> \o queues[r]

Abstract == INSTANCE JobQueue WITH
    waiting <- [r \in Runners |-> Waiting(r)],
    dropped <- lost,
    submitted <- {j \in Jobs : stage[j] # "new"}

\* With one poll per runner the dispatcher is a per-runner FIFO: jobs reach
\* the runner in submission order, each at most once.
ImplementsJobQueue == Abstract!AbsSpec

===============================================================================
