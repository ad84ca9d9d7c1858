-------------------------------- MODULE Registry --------------------------------
(***************************************************************************)
(* The orchestrator's table of runners (internal/orchestrator/api/         *)
(* server.go: handleRegister, handleHeartbeat, prunerLoop) and the runner's *)
(* heartbeat goroutine (cmd/fangs-runner/main.go), for one runner: entries *)
(* of different runners do not touch each other.  Time is discrete; the    *)
(* constants are the code's durations in one unit.                         *)
(***************************************************************************)
EXTENDS Naturals

CONSTANTS
    Interval,     \* between heartbeats (30 s)
    BeatTimeout,  \* of a heartbeat call (10 s)
    RegTimeout,   \* of a registration call (30 s)
    PruneTick,    \* between passes of prunerLoop (30 s)
    Cutoff,       \* age at which a pass evicts (90 s)
    MaxLosses,    \* bound: calls that time out in a row while the orchestrator is up
    Restarts,     \* may the orchestrator be restarted?
    Death         \* may the runner die?

ASSUME DurationAssumption == {Interval, BeatTimeout, RegTimeout, PruneTick, Cutoff} \subseteq Nat \ {0}
ASSUME LossAssumption == MaxLosses \in Nat
ASSUME RegistryFlags == {Restarts, Death} \subseteq BOOLEAN

VARIABLES
    up,       \* is the orchestrator running?
    enlisted, \* does its table hold the runner?
    age,      \* time since the entry's LastSeen, up to Cutoff + 1
    prune,    \* time to the next pass of prunerLoop
    alive,    \* is the runner running?
    call,     \* what its heartbeat goroutine is doing
    left,     \* time until that call times out
    due,      \* time to the next tick of its ticker
    ticked,   \* a tick waits in the ticker's channel
    losses    \* calls that timed out since the last one that succeeded

server == <<up, enlisted, prune>>
heartbeats == <<alive, call, left, due, ticked, losses>>
registryVars == <<server, age, heartbeats>>

\* The runner has just registered; the two tickers are out of phase.
RegistryInit ==
    /\ up = TRUE
    /\ enlisted = TRUE
    /\ age = 0
    /\ prune \in 1..PruneTick
    /\ alive = TRUE
    /\ call = "none"
    /\ left = 0
    /\ due = Interval
    /\ ticked = FALSE
    /\ losses = 0

-------------------------------------------------------------------------------
\* Time does not pass over a step that is due: a tick waiting for an idle
\* heartbeat goroutine, a call at its timeout, a pass of the pruner.
Pass ==
    /\ ~(alive /\ ticked /\ call = "none")
    /\ ~(call # "none" /\ left = 0)
    /\ ~(up /\ prune = 0)
    /\ age' = IF age <= Cutoff THEN age + 1 ELSE age
    /\ prune' = IF up THEN prune - 1 ELSE prune
    /\ left' = IF call # "none" THEN left - 1 ELSE left
    /\ due' = IF due = 1 THEN Interval ELSE due - 1
    /\ ticked' = (alive /\ (ticked \/ due = 1))
    /\ UNCHANGED <<up, enlisted, alive, call, losses>>

\* The ticker fires: the goroutine sends a heartbeat.
Beat ==
    /\ alive /\ ticked /\ call = "none"
    /\ ticked' = FALSE
    /\ call' = "heartbeat"
    /\ left' = BeatTimeout
    /\ UNCHANGED <<server, age, alive, due, losses>>

Done == call' = "none" /\ left' = 0 /\ losses' = 0

\* Faulty variant: a heartbeat is acknowledged without touching LastSeen.
HeartbeatServed_noTouch ==
    /\ alive /\ call = "heartbeat" /\ up
    /\ IF enlisted THEN UNCHANGED age /\ Done
       ELSE UNCHANGED <<age, losses>> /\ call' = "register" /\ left' = RegTimeout
    /\ UNCHANGED <<server, alive, due, ticked>>

\* Faulty variant: the runner takes any answer for a sign of life.
HeartbeatServed_ignoreUnknown ==
    /\ alive /\ call = "heartbeat" /\ up
    /\ age' = IF enlisted THEN 0 ELSE age
    /\ Done
    /\ UNCHANGED <<server, alive, due, ticked>>

\* handleHeartbeat: LastSeen is refreshed, or the runner is told that it is
\* unknown and registers again.
HeartbeatServed ==
    /\ alive /\ call = "heartbeat" /\ up
    /\ IF enlisted THEN age' = 0 /\ Done
       ELSE UNCHANGED <<age, losses>> /\ call' = "register" /\ left' = RegTimeout
    /\ UNCHANGED <<server, alive, due, ticked>>

\* handleRegister
RegisterServed ==
    /\ alive /\ call = "register" /\ up
    /\ enlisted' = TRUE
    /\ age' = 0
    /\ Done
    /\ UNCHANGED <<up, prune, alive, due, ticked>>

\* The request is handled and its answer gets lost.
AnswerLost ==
    /\ alive /\ call \in {"heartbeat", "register"} /\ up /\ losses < MaxLosses
    /\ enlisted' = (enlisted \/ call = "register")
    /\ age' = IF enlisted' THEN 0 ELSE age
    /\ call' = "unanswered"
    /\ UNCHANGED <<up, prune, alive, left, due, ticked, losses>>

\* The call fails: at once if nobody listens, else when it times out.  The
\* goroutine waits for the next tick.
CallFails ==
    /\ alive /\ call # "none"
    /\ up => left = 0 /\ losses < MaxLosses
    /\ losses' = IF up THEN losses + 1 ELSE losses
    /\ call' = "none" /\ left' = 0
    /\ UNCHANGED <<server, age, alive, due, ticked>>

\* One pass of prunerLoop.
Prune ==
    /\ up /\ prune = 0
    /\ prune' = PruneTick
    /\ enlisted' = (enlisted /\ age <= Cutoff)
    /\ UNCHANGED <<up, age, heartbeats>>

\* The table is in memory only.
ServerStops ==
    /\ Restarts /\ up
    /\ up' = FALSE
    /\ enlisted' = FALSE
    /\ UNCHANGED <<prune, age, heartbeats>>

ServerStarts ==
    /\ ~up
    /\ up' = TRUE
    /\ prune' = PruneTick
    /\ UNCHANGED <<enlisted, age, heartbeats>>

Die ==
    /\ Death /\ alive
    /\ alive' = FALSE /\ ticked' = FALSE
    /\ call' = "none" /\ left' = 0
    /\ UNCHANGED <<server, age, due, losses>>

RegistryNext ==
    \/ Pass \/ Beat \/ HeartbeatServed \/ RegisterServed
    \/ AnswerLost \/ CallFails \/ Prune \/ ServerStops \/ ServerStarts \/ Die

RegistrySpec == RegistryInit /\ [][RegistryNext]_registryVars

\* Time passes, goroutines run, and a call that can be served is not lost for
\* ever (losses are bounded by MaxLosses).
FairRegistrySpec ==
    /\ RegistrySpec
    /\ WF_registryVars(Pass) /\ WF_registryVars(Beat) /\ WF_registryVars(Prune)
    /\ WF_registryVars(ServerStarts)
    /\ WF_registryVars(HeartbeatServed \/ RegisterServed \/ CallFails)

-------------------------------------------------------------------------------
(* Properties                                                              *)

\* Types and ranges: no call outlives its timeout, no pass of the pruner is missed.
RegistryTypeOK ==
    /\ {up, enlisted, alive, ticked} \subseteq BOOLEAN
    /\ age \in 0..Cutoff + 1
    /\ prune \in 0..PruneTick
    /\ call \in {"none", "heartbeat", "register", "unanswered"}
    /\ left \in 0..(IF BeatTimeout > RegTimeout THEN BeatTimeout ELSE RegTimeout)
    /\ due \in 1..Interval
    /\ losses \in 0..MaxLosses
    /\ ~alive => call = "none"

\* prunerLoop evicts no runner that keeps sending heartbeats, though up to
\* MaxLosses calls in a row get lost and the last one is slow.
HealthyIsKept == [][alive /\ enlisted /\ up' => enlisted']_registryVars

\* A runner that is alive while the orchestrator stays up is in the table again
\* and again: a heartbeat to an orchestrator that forgot it leads to a new
\* registration, without the operator.
Rejoins == <>[](up /\ alive) => []<>enlisted

=================================================================================
