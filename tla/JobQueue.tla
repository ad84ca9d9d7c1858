------------------------------- MODULE JobQueue -------------------------------
(***************************************************************************)
(* What the dispatcher promises to its callers, with no locks, channels or *)
(* goroutines: one FIFO of jobs per runner.  A submitted job waits in its  *)
(* runner's queue; the head of a queue either reaches the runner, in       *)
(* order, or is dropped because the poll that carried it broke.  Nothing   *)
(* is handed out twice and nothing overtakes.                              *)
(***************************************************************************)
EXTENDS Sequences

CONSTANTS Runners, Jobs

VARIABLES
    waiting,    \* [Runners -> Seq(Jobs)]: submitted, not yet at the runner
    received,   \* [Runners -> Seq(Jobs)]: what the runner got, in order
    dropped,    \* jobs whose carrying poll broke
    submitted   \* jobs ever submitted

absVars == <<waiting, received, dropped, submitted>>

AbsInit ==
    /\ waiting = [r \in Runners |-> <<>>]
    /\ received = [r \in Runners |-> <<>>]
    /\ dropped = {}
    /\ submitted = {}

Submit(j, r) ==
    /\ j \notin submitted
    /\ submitted' = submitted \cup {j}
    /\ waiting' = [waiting EXCEPT ![r] = Append(@, j)]
    /\ UNCHANGED <<received, dropped>>

Deliver(r) ==
    /\ waiting[r] # <<>>
    /\ waiting' = [waiting EXCEPT ![r] = Tail(@)]
    /\ received' = [received EXCEPT ![r] = Append(@, Head(waiting[r]))]
    /\ UNCHANGED <<dropped, submitted>>

Drop(r) ==
    /\ waiting[r] # <<>>
    /\ waiting' = [waiting EXCEPT ![r] = Tail(@)]
    /\ dropped' = dropped \cup {Head(waiting[r])}
    /\ UNCHANGED <<received, submitted>>

AbsNext ==
    \E r \in Runners :
        \/ \E j \in Jobs : Submit(j, r)
        \/ Deliver(r)
        \/ Drop(r)

AbsSpec == AbsInit /\ [][AbsNext]_absVars
===============================================================================
