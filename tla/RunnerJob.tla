------------------------------- MODULE RunnerJob -------------------------------
(***************************************************************************)
(* The runner's side of a run: runJob and its goroutines                   *)
(* (cmd/fangs-runner/main.go), the long-lived forwarder that hands sensor  *)
(* events to the streamer of the current job, and that streamer            *)
(* (internal/runner/agent/events.go).  The sandbox, the kernel's ring      *)
(* buffer and the network are the environment.  Jobs run one after the     *)
(* other.                                                                  *)
(***************************************************************************)
EXTENDS Naturals, Sequences

CONSTANTS
    NumJobs,      \* bound: jobs 1..NumJobs are polled, in this order
    Sandboxed,    \* the jobs of kind sandbox_scan; the others are sensor_only
    MaxEvents,    \* bound: events each job's workload causes
    RingSize,     \* records held by the ring buffer and Events' channel
    QueueSize,    \* capacity of a streamer's channel (1024)
    MaxBatch,     \* events per POST (64)
    SandboxFails, \* may AddCgroup, the launch or the stop of the container fail?
    PostFails,    \* may a POST fail?
    LateArrivals, \* may a POST the runner gave up on still arrive?
    Shutdowns     \* may the runner be told to stop?

Jobs == 1..NumJobs
None == 0         \* curStream = nil

ASSUME BoundAssumption == {NumJobs, RingSize, QueueSize, MaxBatch} \subseteq Nat \ {0}
ASSUME EventsAssumption == MaxEvents \in [Jobs -> Nat \ {0}]
ASSUME KindAssumption == Sandboxed \subseteq Jobs
ASSUME FlagAssumption == {SandboxFails, PostFails, LateArrivals, Shutdowns} \subseteq BOOLEAN

Event == Jobs \X Nat   \* <<the job whose cgroup it came from, its number>>

VARIABLES
    job, jpc,      \* runJob: the job, and where it is
    jctx,          \* jobCtx: live, or ended by its deadline or by a cancel
    shutdown,      \* the process context is cancelled
    status, seen,  \* the status variable, and the copy runJob read of it
    wpc,           \* the container-watcher goroutine
    container,     \* the sandbox
    registered,    \* is the job's cgroup in CGMAP?
    emitted,       \* events each job's workload caused
    ring, drops,   \* records waiting to be read; the cumulative drop counter
    fpc, fev, fst, \* the forwarder, its event and the streamer it read
    cur,           \* curStream
    inq, closed,   \* each streamer's channel
    pending, loop, \* its loop goroutine and the batch it collects
    seqno, sent,   \* its batch number and StreamStats.EventsSent
    queued,        \* history: events its Send accepted
    wire,          \* POSTs given up on that may still arrive
    received,      \* the events handleEvents accepted for each run, in order
    report,        \* the ScanResult of each run
    crashed        \* the runner process panicked

main == <<job, jpc, status, seen>>
sandbox == <<wpc, container, registered, emitted>>
sensor == <<ring, drops>>
forwarder == <<fpc, fev, fst>>
streamers == <<inq, closed, pending, loop, seqno, sent, queued>>
orchestrator == <<wire, received, report>>
vars == <<main, jctx, shutdown, sandbox, sensor, forwarder, cur, streamers,
          orchestrator, crashed>>

Statuses == {"ok", "failed", "timeout"}
NoReport == [status |-> "none", emitted |-> 0, dropped |-> 0]

Init ==
    /\ job = 0 /\ jpc = "poll"
    /\ jctx = "live" /\ shutdown = FALSE
    /\ status = "ok" /\ seen = "ok"
    /\ wpc = "none" /\ container = "none" /\ registered = FALSE
    /\ emitted = [j \in Jobs |-> 0]
    /\ ring = <<>> /\ drops = 0
    /\ fpc = "read" /\ fev = <<1, 1>> /\ fst = None
    /\ cur = None
    /\ inq = [j \in Jobs |-> <<>>]
    /\ closed = [j \in Jobs |-> FALSE]
    /\ pending = [j \in Jobs |-> <<>>]
    /\ loop = [j \in Jobs |-> "none"]
    /\ seqno = [j \in Jobs |-> 0]
    /\ sent = [j \in Jobs |-> 0]
    /\ queued = [j \in Jobs |-> 0]
    /\ wire = {}
    /\ received = [j \in Jobs |-> <<>>]
    /\ report = [j \in Jobs |-> NoReport]
    /\ crashed = FALSE

-------------------------------------------------------------------------------
(* runJob; its deferred calls run in reverse: stop the container, remove the *)
(* cgroup, detach and close the streamer, cancel jobCtx, send the result.    *)

Goto(l) == jpc' = l /\ UNCHANGED job

\* PollJob returns a job: a fresh jobCtx and a streamer, installed at once.
StartJob ==
    /\ jpc = "poll" /\ ~shutdown /\ job < NumJobs
    /\ job' = job + 1
    /\ jpc' = "register"
    /\ jctx' = "live"
    /\ status' = "ok"
    /\ container' = "none"
    /\ loop' = [loop EXCEPT ![job + 1] = "run"]
    /\ cur' = job + 1
    /\ UNCHANGED <<seen, shutdown, wpc, registered, emitted, sensor, forwarder,
                   inq, closed, pending, seqno, sent, queued, orchestrator>>

\* The cgroup is registered before the container starts.
Register ==
    /\ jpc = "register"
    /\ \/ /\ registered' = TRUE
          /\ Goto(IF job \in Sandboxed THEN "launch" ELSE "wait")
          /\ UNCHANGED status
       \/ /\ SandboxFails
          /\ status' = "failed"
          /\ Goto("detach")
          /\ UNCHANGED registered
    /\ UNCHANGED <<seen, jctx, shutdown, wpc, container, emitted, sensor, forwarder,
                   cur, streamers, orchestrator>>

\* driver.Launch, under the process context, and the watcher goroutine.
Launch ==
    /\ jpc = "launch"
    /\ \/ /\ ~shutdown
          /\ container' = "up"
          /\ wpc' = "wait"
          /\ Goto("wait")
          /\ UNCHANGED status
       \/ /\ SandboxFails \/ shutdown
          /\ status' = "failed"
          /\ Goto("remove")
          /\ UNCHANGED <<container, wpc>>
    /\ UNCHANGED <<seen, jctx, shutdown, registered, emitted, sensor, forwarder,
                   cur, streamers, orchestrator>>

\* Faulty variant: runJob waits for the container instead of for jobCtx.
AwaitDone_containerOnly ==
    /\ jpc = "wait" /\ jctx = "canceled"
    /\ seen' = status
    /\ Goto("verdict")
    /\ UNCHANGED <<status, jctx, shutdown, sandbox, sensor, forwarder, cur,
                   streamers, orchestrator>>

\* <-jobCtx.Done(), then getStatus
AwaitDone ==
    /\ jpc = "wait" /\ jctx # "live"
    /\ seen' = status
    /\ Goto("verdict")
    /\ UNCHANGED <<status, jctx, shutdown, sandbox, sensor, forwarder, cur,
                   streamers, orchestrator>>

\* A deadline with no earlier failure is a timeout.
Verdict ==
    /\ jpc = "verdict"
    /\ status' = IF seen = "ok" /\ jctx = "deadline" THEN "timeout" ELSE status
    /\ Goto(IF job \in Sandboxed THEN "grace" ELSE "remove")
    /\ UNCHANGED <<seen, jctx, shutdown, sandbox, sensor, forwarder, cur,
                   streamers, orchestrator>>

\* The grace window passes and the container is stopped.
StopContainer ==
    /\ jpc = "grace"
    /\ \/ container' = IF container = "up" THEN "stopped" ELSE container
       \/ SandboxFails /\ UNCHANGED container
    /\ Goto("remove")
    /\ UNCHANGED <<status, seen, jctx, shutdown, wpc, registered, emitted, sensor,
                   forwarder, cur, streamers, orchestrator>>

RemoveCgroup ==
    /\ jpc = "remove"
    /\ registered' = FALSE
    /\ Goto("detach")
    /\ UNCHANGED <<status, seen, jctx, shutdown, wpc, container, emitted, sensor,
                   forwarder, cur, streamers, orchestrator>>

\* setStreamer(nil, "")
Detach ==
    /\ jpc = "detach"
    /\ cur' = None
    /\ Goto("close")
    /\ UNCHANGED <<status, seen, jctx, shutdown, sandbox, sensor, forwarder,
                   streamers, orchestrator>>

\* Faulty variant: Close does not wait for the loop.
Close_noWait ==
    /\ jpc = "close"
    /\ closed' = [closed EXCEPT ![job] = TRUE]
    /\ Goto("result")
    /\ UNCHANGED <<status, seen, jctx, shutdown, sandbox, sensor, forwarder, cur,
                   inq, pending, loop, seqno, sent, queued, orchestrator>>

\* Close: close(s.in) ...
Close ==
    /\ jpc = "close"
    /\ closed' = [closed EXCEPT ![job] = TRUE]
    /\ Goto("drain")
    /\ UNCHANGED <<status, seen, jctx, shutdown, sandbox, sensor, forwarder, cur,
                   inq, pending, loop, seqno, sent, queued, orchestrator>>

\* ... and <-s.done; then the deferred cancel.
Closed ==
    /\ jpc = "drain" /\ loop[job] = "exited"
    /\ jctx' = IF jctx = "live" THEN "canceled" ELSE jctx
    /\ Goto("result")
    /\ UNCHANGED <<status, seen, shutdown, sandbox, sensor, forwarder, cur,
                   streamers, orchestrator>>

\* SendScanResult, once.  The drop counter is the sensor's cumulative one.
SendResult ==
    /\ jpc = "result"
    /\ \/ report' = [report EXCEPT ![job] =
                       [status |-> status, emitted |-> sent[job], dropped |-> drops]]
       \/ PostFails /\ UNCHANGED report
    /\ wpc' = "none"
    /\ Goto("poll")
    /\ UNCHANGED <<status, seen, jctx, shutdown, container, registered, emitted,
                   sensor, forwarder, cur, streamers, wire, received>>

Exited == container \in {"clean", "error", "stopped"}

\* Faulty variant: only res.Err is looked at, which a nonzero exit leaves nil.
WatcherSees_ignoresExitCode ==
    /\ wpc = "wait" /\ Exited
    /\ wpc' = "cancel"
    /\ UNCHANGED <<main, jctx, shutdown, container, registered, emitted, sensor,
                   forwarder, cur, streamers, orchestrator>>

\* The watcher goroutine receives the exit and sets the status ...  A stopped
\* container may have exited with any code.
WatcherSees ==
    /\ wpc = "wait" /\ Exited
    /\ \/ container = "clean" /\ UNCHANGED status
       \/ container = "error" /\ status' = "failed"
       \/ container = "stopped" /\ status' \in {status, "failed"}
    /\ wpc' = "cancel"
    /\ UNCHANGED <<job, jpc, seen, jctx, shutdown, container, registered, emitted,
                   sensor, forwarder, cur, streamers, orchestrator>>

\* ... then cancels jobCtx.
WatcherCancels ==
    /\ wpc = "cancel"
    /\ jctx' = IF jctx = "live" THEN "canceled" ELSE jctx
    /\ wpc' = "done"
    /\ UNCHANGED <<main, shutdown, container, registered, emitted, sensor, forwarder,
                   cur, streamers, orchestrator>>

\* Its select may also take jobCtx.Done().
WatcherLeaves ==
    /\ wpc = "wait" /\ jctx # "live"
    /\ wpc' = "left"
    /\ UNCHANGED <<main, jctx, shutdown, container, registered, emitted, sensor,
                   forwarder, cur, streamers, orchestrator>>

-------------------------------------------------------------------------------
(* The forwarder                                                           *)

ForwarderReads ==
    /\ fpc = "read" /\ ring # <<>>
    /\ fev' = Head(ring)
    /\ ring' = Tail(ring)
    /\ fpc' = "route"
    /\ UNCHANGED <<main, jctx, shutdown, sandbox, drops, fst, cur, streamers, orchestrator>>

\* curStream is copied under streamerMu; the lock is released before the send.
ForwarderRoutes ==
    /\ fpc = "route"
    /\ fst' = cur
    /\ fpc' = IF cur = None THEN "read" ELSE "send"
    /\ UNCHANGED <<main, jctx, shutdown, sandbox, sensor, fev, cur, streamers, orchestrator>>

\* Send does not block: a full queue drops the event, a closed channel panics.
Send ==
    /\ fpc = "send"
    /\ crashed' = closed[fst]
    /\ LET accept == ~closed[fst] /\ Len(inq[fst]) < QueueSize
       IN /\ inq' = IF accept THEN [inq EXCEPT ![fst] = Append(@, fev)] ELSE inq
          /\ queued' = IF accept THEN [queued EXCEPT ![fst] = @ + 1] ELSE queued
    /\ fpc' = "read"
    /\ UNCHANGED <<main, jctx, shutdown, sandbox, sensor, fev, fst, cur, closed,
                   pending, loop, seqno, sent, orchestrator>>

-------------------------------------------------------------------------------
(* The streamer's loop                                                     *)

\* post(ctx, batch).  It cannot be delivered once ctx is done.  A failed POST
\* is counted, logged and forgotten.  handleEvents answers 200 to every batch it
\* can read, also when AppendEvents fails: the runner learns that a batch was
\* accepted, not that it was stored (Analysis!PostEvents has that failure).
Post(j, batch) ==
    /\ seqno' = [seqno EXCEPT ![j] = @ + 1]
    /\ \/ /\ jctx = "live"
          /\ received' = [received EXCEPT ![j] = @ \o batch]
          /\ sent' = [sent EXCEPT ![j] = @ + Len(batch)]
          /\ UNCHANGED wire
       \/ /\ PostFails \/ jctx # "live"
          /\ UNCHANGED <<received, sent, wire>>
       \/ /\ LateArrivals /\ jctx = "live"
          /\ wire' = wire \cup {[run |-> j, seq |-> seqno[j] + 1, events |-> batch]}
          /\ UNCHANGED <<received, sent>>

\* Faulty variant: a batch whose POST failed is kept for the next flush.
Flush_keepFailed(j, batch) ==
    IF batch = <<>> THEN UNCHANGED <<pending, seqno, sent, wire, received>>
    ELSE /\ Post(j, batch)
         /\ pending' = [pending EXCEPT ![j] = IF sent' # sent THEN <<>> ELSE batch]

\* flush: one POST for the collected batch, which is emptied in any case.
Flush(j, batch) ==
    /\ pending' = [pending EXCEPT ![j] = <<>>]
    /\ IF batch = <<>> THEN UNCHANGED <<seqno, sent, wire, received>>
       ELSE Post(j, batch)

\* case ev, ok := <-s.in
LoopTakes(j) ==
    /\ loop[j] = "run" /\ inq[j] # <<>>
    /\ inq' = [inq EXCEPT ![j] = Tail(@)]
    /\ LET batch == Append(pending[j], Head(inq[j]))
       IN IF Len(batch) >= MaxBatch
          THEN Flush(j, batch)
          ELSE /\ pending' = [pending EXCEPT ![j] = batch]
               /\ UNCHANGED <<seqno, sent, wire, received>>
    /\ UNCHANGED <<main, jctx, shutdown, sandbox, sensor, forwarder, cur, closed,
                   loop, queued, report>>

\* case <-tick.C
LoopTicks(j) ==
    /\ loop[j] = "run" /\ pending[j] # <<>>
    /\ Flush(j, pending[j])
    /\ UNCHANGED <<main, jctx, shutdown, sandbox, sensor, forwarder, cur, inq, closed,
                   loop, queued, report>>

\* The channel is closed and empty, or ctx is done (select takes either one,
\* and may take ctx.Done() while events are still queued).
LoopEnds(j) ==
    /\ loop[j] = "run"
    /\ (closed[j] /\ inq[j] = <<>>) \/ jctx # "live"
    /\ Flush(j, pending[j])
    /\ loop' = [loop EXCEPT ![j] = "exited"]
    /\ UNCHANGED <<main, jctx, shutdown, sandbox, sensor, forwarder, cur, inq, closed,
                   queued, report>>

-------------------------------------------------------------------------------
(* Environment                                                             *)

Deadline ==
    /\ jpc # "poll" /\ jctx = "live"
    /\ jctx' = "deadline"
    /\ UNCHANGED <<main, shutdown, sandbox, sensor, forwarder, cur, streamers, orchestrator>>

\* SIGTERM cancels the process context and, through it, jobCtx.
Shutdown ==
    /\ Shutdowns /\ ~shutdown
    /\ shutdown' = TRUE
    /\ jctx' = IF jctx = "live" THEN "canceled" ELSE jctx
    /\ UNCHANGED <<main, sandbox, sensor, forwarder, cur, streamers, orchestrator>>

\* A process of the watched cgroup does something the sensor reports.  The
\* record is dropped, and counted, if the ring buffer is full.
Emit ==
    /\ registered /\ (job \in Sandboxed => container = "up")
    /\ emitted[job] < MaxEvents[job]
    /\ emitted' = [emitted EXCEPT ![job] = @ + 1]
    /\ IF Len(ring) < RingSize
       THEN ring' = Append(ring, <<job, emitted[job] + 1>>) /\ UNCHANGED drops
       ELSE drops' = drops + 1 /\ UNCHANGED ring
    /\ UNCHANGED <<main, jctx, shutdown, wpc, container, registered, forwarder, cur,
                   streamers, orchestrator>>

ContainerExits ==
    /\ container = "up"
    /\ container' \in {"clean", "error"}
    /\ UNCHANGED <<main, jctx, shutdown, wpc, registered, emitted, sensor, forwarder,
                   cur, streamers, orchestrator>>

\* A POST the client timed out on, or whose answer was lost, is accepted.
Arrive(b) ==
    /\ wire' = wire \ {b}
    /\ received' = [received EXCEPT ![b.run] = @ \o b.events]
    /\ UNCHANGED <<main, jctx, shutdown, sandbox, sensor, forwarder, cur, streamers, report>>

-------------------------------------------------------------------------------
MainStep ==
    \/ StartJob \/ Register \/ Launch \/ AwaitDone \/ Verdict \/ StopContainer
    \/ RemoveCgroup \/ Detach \/ Close \/ Closed \/ SendResult

WatcherStep == WatcherSees \/ WatcherCancels \/ WatcherLeaves

LoopStep(j) == LoopTakes(j) \/ LoopTicks(j) \/ LoopEnds(j)

Quietly ==
    \/ MainStep \/ WatcherStep
    \/ ForwarderReads \/ ForwarderRoutes
    \/ \E j \in Jobs : LoopStep(j)
    \/ Deadline \/ Shutdown \/ Emit \/ ContainerExits
    \/ \E b \in wire : Arrive(b)

\* A panic ends the process: nothing moves after it.
Next == ~crashed /\ ((Quietly /\ UNCHANGED crashed) \/ Send)

Spec == Init /\ [][Next]_vars

\* The runtime schedules every goroutine, timers fire, every POST ends by its
\* client's timeout.  A container need not exit.
FairSpec ==
    /\ Spec
    /\ WF_vars(~crashed /\ UNCHANGED crashed /\ MainStep)
    /\ WF_vars(~crashed /\ UNCHANGED crashed /\ WatcherStep)
    /\ WF_vars(~crashed /\ UNCHANGED crashed /\ Deadline)
    /\ \A j \in Jobs : WF_vars(~crashed /\ UNCHANGED crashed /\ LoopEnds(j))

-------------------------------------------------------------------------------
(* Properties                                                              *)

MainTypes ==
    /\ job \in 0..NumJobs
    /\ jpc \in {"poll", "register", "launch", "wait", "verdict", "grace", "remove",
                "detach", "close", "drain", "result"}
    /\ jctx \in {"live", "deadline", "canceled"}
    /\ shutdown \in BOOLEAN /\ registered \in BOOLEAN /\ crashed \in BOOLEAN
    /\ status \in Statuses /\ seen \in Statuses
    /\ wpc \in {"none", "wait", "cancel", "done", "left"}
    /\ container \in {"none", "up", "clean", "error", "stopped"}
    /\ jpc # "poll" \/ registered => job \in Jobs

SensorTypes ==
    /\ emitted \in [Jobs -> Nat]
    /\ ring \in Seq(Event) /\ Len(ring) <= RingSize
    /\ drops \in Nat
    /\ fpc \in {"read", "route", "send"}
    /\ fev \in Event
    /\ fst \in Jobs \cup {None}
    /\ cur \in {None, job}
    /\ fpc = "send" => fst \in Jobs

StreamTypes ==
    /\ inq \in [Jobs -> Seq(Event)]
    /\ closed \in [Jobs -> BOOLEAN]
    /\ pending \in [Jobs -> Seq(Event)]
    /\ loop \in [Jobs -> {"none", "run", "exited"}]
    /\ seqno \in [Jobs -> Nat] /\ sent \in [Jobs -> Nat] /\ queued \in [Jobs -> Nat]
    /\ \A j \in Jobs : /\ Len(inq[j]) <= QueueSize
                       /\ Len(pending[j]) < MaxBatch
                       /\ seqno[j] > 0 => loop[j] # "none"

OrchestratorTypes ==
    /\ wire \subseteq [run : Jobs, seq : Nat, events : Seq(Event)]
    /\ received \in [Jobs -> Seq(Event)]
    /\ report \in [Jobs -> [status : Statuses \cup {"none"}, emitted : Nat, dropped : Nat]]

\* Types; outside the poll there is a current job, the installed streamer is
\* its own, and the forwarder sends to a streamer that exists.
TypeOK == MainTypes /\ SensorTypes /\ StreamTypes /\ OrchestratorTypes

\* The orchestrator accepts no event twice, under any run id, however POSTs
\* fail or arrive late: flush never repeats a batch, and the orchestrator does
\* not look at batch numbers.
NeverTwice ==
    \A j, k \in Jobs : \A a \in DOMAIN received[j], b \in DOMAIN received[k] :
        received[j][a] = received[k][b] => j = k /\ a = b

\* events_emitted never exceeds what the orchestrator accepted for the run when
\* the result was posted (StreamStats counts acknowledged POSTs only), which
\* never exceeds what Send accepted.  How many of them AppendEvents stored the
\* runner is not told.
CountIsHonest ==
    \A j \in Jobs : report[j].emitted <= Len(received[j]) /\ Len(received[j]) <= queued[j]

\* What the orchestrator accepts for a run is what the runner says it sent, at
\* least, and each event once.
StreamIsHonest == NeverTwice /\ CountIsHonest

\* The result is the last word on a run: Close waits for the loop, so no batch
\* of the run is sent after its ScanResult.
ResultIsLast ==
    [][\A j \in Jobs : report[j] # NoReport => UNCHANGED <<seqno[j], report[j]>>]_vars

\* A container whose failure the watcher goroutine saw is never reported as
\* "ok", whatever it races with: the status is set before jobCtx is cancelled.
FailureIsReported ==
    container = "error" /\ wpc \in {"cancel", "done"} /\ jpc \notin {"wait", "verdict"}
        => status # "ok"

\* Every job ends, though its container may run for ever and the orchestrator
\* may never answer: the runner polls again (or has panicked).
JobEnds == jpc # "poll" ~> jpc = "poll" \/ crashed
================================================================================
