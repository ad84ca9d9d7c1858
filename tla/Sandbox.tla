------------------------------- MODULE Sandbox --------------------------------
(***************************************************************************)
(* The sandbox of a job: the parent cgroup that runJob creates and         *)
(* registers with the sensor, the container that DockerDriver.Launch       *)
(* starts below it (internal/runner/sandbox), and the deferred calls that  *)
(* take both down again (cmd/fangs-runner/main.go).  Jobs run one after    *)
(* the other.  Every call of the Docker API may fail, before or after the  *)
(* daemon has acted; the container runs, exits and is reaped on its own.   *)
(* What runJob streams and reports meanwhile is RunnerJob.                 *)
(***************************************************************************)
EXTENDS Naturals, FiniteSets

CONSTANTS
    MaxJobs,    \* bound on the number of jobs
    Specs,      \* sandbox specifications: a subset of SandboxSpec
    MaxFaults,  \* bound on failing calls
    Retries,    \* attempts to remove the parent cgroup, 20 in the code
    Stalls      \* may the Docker daemon stop answering?

Jobs == 1..MaxJobs
NoJob == 0

\* The fields of proto.SandboxSpec that decide a launch; "" is the zero value.
SandboxSpec ==
    [image : BOOLEAN, net : {"", "bridge", "host"},
     pull : {"", "never", "missing", "always", "other"}]

ASSUME SpecsAssumption == Specs \subseteq SandboxSpec
ASSUME BoundsAssumption == MaxJobs \in Nat /\ MaxFaults \in Nat /\ Retries \in Nat \ {0}
ASSUME StallsAssumption == Stalls \in BOOLEAN

NoSpec == [image |-> FALSE, net |-> "", pull |-> ""]

VARIABLES
    (* the runner *)
    pc,        \* the next call of runJob
    job,       \* the current job
    spec,      \* its sandbox specification
    jobCtx,    \* "live", "cancelled", "deadline"
    status,    \* per job: "none", "ok", "failed", "timeout"
    tries,     \* attempts to remove the parent cgroup
    waiter,    \* per job, the goroutine in runWait: "none", "waiting", "ok", "bad"
    watching,  \* runJob's goroutine waits for the container or the context
    shutdown,  \* the runner's context is cancelled
    (* the host *)
    stalled,   \* the Docker daemon takes calls and answers none
    image,     \* the image is in the local store
    cont,      \* per job, its container
    exitCode,  \* per job, "none", "ok" or "bad"
    kid,       \* jobs whose container has a cgroup below the parent
    dir,       \* jobs whose parent cgroup exists
    cgmap,     \* jobs registered with the sensor
    (* history *)
    faults,    \* failing calls, for MaxFaults
    lost,      \* jobs whose container was created but not reported
    kept,      \* jobs whose container Docker did not remove
    stuck      \* jobs whose cgroup stayed registered or could not be removed

host == <<image, cont, exitCode, kid, dir, cgmap>>
history == <<lost, kept, stuck>>
goroutines == <<waiter, watching>>
environment == <<shutdown, stalled>>
vars == <<pc, job, spec, jobCtx, status, tries, goroutines, environment, host, faults,
          history>>

\* created; starting: accepted, no process; running: a process that Docker has
\* not moved yet; placed: below the parent cgroup, the workload runs; gone:
\* removed.
ContState == {"none", "created", "starting", "running", "placed", "exited", "gone"}

Steps == {"idle", "mkdir", "register", "check", "pull", "create", "start", "inspect",
          "cgroup", "wait", "grace", "stop", "remove", "abort", "unregister", "rmdir", "result"}

\* Types.
TypeOK ==
    /\ pc \in Steps
    /\ job \in Jobs \cup {NoJob}
    /\ spec \in SandboxSpec
    /\ jobCtx \in {"live", "cancelled", "deadline"}
    /\ status \in [Jobs -> {"none", "ok", "failed", "timeout"}]
    /\ tries \in 0..(Retries - 1)
    /\ waiter \in [Jobs -> {"none", "waiting", "ok", "bad"}]
    /\ watching \in BOOLEAN
    /\ shutdown \in BOOLEAN /\ stalled \in BOOLEAN
    /\ image \in BOOLEAN
    /\ cont \in [Jobs -> ContState]
    /\ exitCode \in [Jobs -> {"none", "ok", "bad"}]
    /\ kid \subseteq Jobs /\ dir \subseteq Jobs /\ cgmap \subseteq Jobs
    /\ faults \in 0..MaxFaults
    /\ lost \subseteq Jobs /\ kept \subseteq Jobs /\ stuck \subseteq Jobs
    /\ (pc = "idle") <=> (job = NoJob)

Init ==
    /\ pc = "idle"
    /\ job = NoJob
    /\ spec = NoSpec
    /\ jobCtx = "cancelled"
    /\ status = [j \in Jobs |-> "none"]
    /\ tries = 0
    /\ waiter = [j \in Jobs |-> "none"]
    /\ watching = FALSE
    /\ shutdown = FALSE /\ stalled = FALSE
    /\ image \in BOOLEAN
    /\ cont = [j \in Jobs |-> "none"]
    /\ exitCode = [j \in Jobs |-> "none"]
    /\ kid = {} /\ dir = {} /\ cgmap = {}
    /\ faults = 0
    /\ lost = {} /\ kept = {} /\ stuck = {}

-------------------------------------------------------------------------------
(* Calls                                                                   *)

Fails == faults < MaxFaults /\ faults' = faults + 1
Succeeds == UNCHANGED faults

\* A call of the Docker API.  The client has no timeout: while the daemon is
\* stalled the call neither succeeds nor fails.
DockerFails == ~stalled /\ Fails
DockerSucceeds == ~stalled /\ Succeeds

\* A call that was given the runner's context, which has no deadline, also
\* fails when that context is cancelled.
CtxFails == (shutdown /\ Succeeds) \/ DockerFails
CtxSucceeds == ~shutdown /\ DockerSucceeds

Goto(step) == pc' = step
SetStatus(s) == status' = [status EXCEPT ![job] = s]
SetCont(s) == cont' = [cont EXCEPT ![job] = s]

\* A process that ends leaves its cgroup to Docker.
Alive(j) == cont[j] \in {"running", "placed"}
End(j, code) == exitCode' = [exitCode EXCEPT ![j] = IF Alive(j) THEN code ELSE @]

-------------------------------------------------------------------------------
(* runJob up to the launch                                                 *)

Take(j, s) ==
    /\ pc = "idle"
    /\ ~shutdown
    /\ status[j] = "none" /\ \A i \in 1..(j - 1) : status[i] # "none"
    /\ job' = j
    /\ spec' = s
    /\ jobCtx' = "live"
    /\ status' = [status EXCEPT ![j] = "ok"]
    /\ Goto("mkdir")
    /\ UNCHANGED <<tries, goroutines, environment, host, faults, history>>

\* CreateParentCgroup; when the new directory cannot be stat'ed it is removed.
Mkdir ==
    /\ pc = "mkdir"
    /\ \/ Succeeds /\ dir' = dir \cup {job} /\ Goto("register") /\ UNCHANGED status
       \/ Fails /\ UNCHANGED dir /\ Goto("result") /\ SetStatus("failed")
    /\ UNCHANGED <<job, spec, jobCtx, tries, goroutines, environment, image, cont, exitCode, kid,
                   cgmap, history>>

\* Faulty variant: the container is launched first.
Register_late ==
    /\ pc = "register"
    /\ Succeeds /\ UNCHANGED cgmap /\ Goto("check") /\ UNCHANGED <<dir, status>>
    /\ UNCHANGED <<job, spec, jobCtx, tries, goroutines, environment, image, cont, exitCode, kid,
                   history>>

\* AddCgroup, before there is a container.  When it fails the directory is
\* removed; an error of that is ignored.
Register ==
    /\ pc = "register"
    /\ \/ Succeeds /\ cgmap' = cgmap \cup {job} /\ Goto("check") /\ UNCHANGED <<dir, status, stuck>>
       \/ /\ Fails /\ Goto("result") /\ SetStatus("failed") /\ UNCHANGED cgmap
          /\ \/ dir' = dir \ {job} /\ UNCHANGED stuck
             \/ stuck' = stuck \cup {job} /\ UNCHANGED dir
    /\ UNCHANGED <<job, spec, jobCtx, tries, goroutines, environment, image, cont, exitCode, kid,
                   lost, kept>>

-------------------------------------------------------------------------------
(* Launch                                                                  *)

FilledSpec(s) ==
    [s EXCEPT !.net = IF s.net = "" THEN "bridge" ELSE s.net,
              !.pull = IF s.pull = "" THEN "missing" ELSE s.pull]

\* Launch returned an error.
LaunchFailed == SetStatus("failed") /\ Goto("unregister")

CheckSpec ==
    /\ pc = "check"
    /\ IF spec.image /\ spec.net # "host"
       THEN spec' = FilledSpec(spec) /\ Goto("pull") /\ UNCHANGED status
       ELSE LaunchFailed /\ UNCHANGED spec
    /\ UNCHANGED <<job, jobCtx, tries, goroutines, environment, host, faults, history>>

\* imageExists takes any error for "no".  A pull that fails inside the streamed
\* answer counts as done.  The specification is not read again.
PullIfNeeded ==
    /\ pc = "pull"
    /\ \/ /\ spec.pull = "never" \/ (spec.pull = "missing" /\ image /\ ~shutdown /\ ~stalled)
          /\ Succeeds /\ Goto("create") /\ UNCHANGED <<image, status>>
       \/ /\ spec.pull = "other"
          /\ Succeeds /\ LaunchFailed /\ UNCHANGED image
       \/ /\ spec.pull \in {"missing", "always"}
          /\ \/ CtxSucceeds /\ image' = TRUE /\ Goto("create") /\ UNCHANGED status
             \/ DockerFails /\ Goto("create") /\ UNCHANGED <<image, status>>
             \/ CtxFails /\ LaunchFailed /\ UNCHANGED image
    /\ spec' = NoSpec
    /\ UNCHANGED <<job, jobCtx, tries, goroutines, environment, cont, exitCode, kid, dir, cgmap,
                   history>>

\* resolveDigest only chooses how the image is named.  When the answer is lost
\* nobody knows the id of the container.
Create ==
    /\ pc = "create"
    /\ \/ CtxSucceeds /\ image /\ SetCont("created") /\ Goto("start") /\ UNCHANGED <<status, lost>>
       \/ DockerSucceeds /\ ~image /\ LaunchFailed /\ UNCHANGED <<cont, lost>>
       \/ CtxFails /\ LaunchFailed /\ UNCHANGED <<cont, lost>>
       \/ CtxFails /\ image /\ LaunchFailed /\ SetCont("created") /\ lost' = lost \cup {job}
    /\ UNCHANGED <<job, spec, jobCtx, tries, goroutines, environment, image, exitCode, kid, dir, cgmap,
                   kept, stuck>>

Start ==
    /\ pc = "start"
    /\ \/ CtxSucceeds /\ SetCont("starting") /\ Goto("inspect")
       \/ CtxFails /\ SetCont("starting") /\ Goto("abort")
       \/ CtxFails /\ UNCHANGED cont /\ Goto("abort")
    /\ UNCHANGED <<job, spec, jobCtx, status, tries, goroutines, environment, image, exitCode, kid, dir,
                   cgmap, history>>

\* A container that has already exited fails the launch, as do 10 s without a
\* process.
WaitForRunning ==
    /\ pc = "inspect"
    /\ \/ CtxSucceeds /\ Alive(job) /\ Goto("cgroup")
       \/ CtxSucceeds /\ cont[job] = "exited" /\ Goto("abort")
       \/ CtxFails /\ Goto("abort")
    /\ UNCHANGED <<job, spec, jobCtx, status, tries, goroutines, environment, host, history>>

\* What /proc/<pid>/cgroup shows of a process: any cgroup but the root is taken
\* for the final one, also the daemon's, which the process starts in.
CgroupResolves(j) == Alive(j)

\* The process is in some cgroup, or has gone, or 5 s have passed.  The
\* goroutine of runWait starts.  Docker is not asked.
StableCgroup ==
    /\ pc = "cgroup"
    /\ \/ Succeeds /\ ~shutdown /\ CgroupResolves(job) /\ Goto("wait")
          /\ waiter' = [waiter EXCEPT ![job] = "waiting"] /\ watching' = TRUE
       \/ Succeeds /\ (shutdown \/ cont[job] = "exited") /\ Goto("abort") /\ UNCHANGED goroutines
       \/ Fails /\ Goto("abort") /\ UNCHANGED goroutines
    /\ UNCHANGED <<job, spec, jobCtx, status, tries, environment, host, history>>

\* removeContainer with force, under a context of its own: a process in the
\* container is killed, a missing container is fine.
RemoveForced ==
    \/ DockerSucceeds /\ SetCont("gone") /\ End(job, "bad") /\ UNCHANGED kept
    \/ DockerFails /\ UNCHANGED <<cont, exitCode>> /\ kept' = kept \cup {job}

\* Faulty variant: a container without a process is not removed.
Abort_aliveOnly ==
    /\ pc = "abort"
    /\ IF cont[job] \in {"created", "exited"} THEN UNCHANGED <<cont, exitCode, kept, faults>>
       ELSE RemoveForced
    /\ LaunchFailed
    /\ UNCHANGED <<job, spec, jobCtx, tries, goroutines, environment, image, kid, dir, cgmap, lost, stuck>>

\* The error paths of Launch once there is a container, under a context that
\* never ends.
Abort ==
    /\ pc = "abort"
    /\ RemoveForced
    /\ LaunchFailed
    /\ UNCHANGED <<job, spec, jobCtx, tries, goroutines, environment, image, kid, dir, cgmap, lost, stuck>>

-------------------------------------------------------------------------------
(* Until the job context ends                                              *)

\* runWait: the /wait call returns when the container has stopped, or fails.
RunWait(j) ==
    /\ waiter[j] = "waiting"
    /\ \/ DockerSucceeds /\ cont[j] \in {"exited", "gone"} /\ waiter' = [waiter EXCEPT ![j] = exitCode[j]]
       \/ DockerFails /\ waiter' = [waiter EXCEPT ![j] = "bad"]
    /\ UNCHANGED <<pc, job, spec, jobCtx, status, tries, watching, environment, host, history>>

\* The goroutine that waits for the container cancels the job context, or
\* ends with it: with both ready, select takes either.
Watch ==
    /\ watching
    /\ \/ /\ waiter[job] \in {"ok", "bad"}
          /\ IF waiter[job] = "bad" THEN SetStatus("failed") ELSE UNCHANGED status
          /\ jobCtx' = IF jobCtx = "live" THEN "cancelled" ELSE jobCtx
       \/ jobCtx # "live" /\ UNCHANGED <<status, jobCtx>>
    /\ watching' = FALSE
    /\ UNCHANGED <<pc, job, spec, tries, waiter, environment, host, faults, history>>

\* job.Duration runs from the start of runJob, through the launch.
Deadline ==
    /\ pc # "idle"
    /\ jobCtx = "live"
    /\ jobCtx' = "deadline"
    /\ UNCHANGED <<pc, job, spec, status, tries, goroutines, environment, host, faults, history>>

Shutdown ==
    /\ ~shutdown
    /\ shutdown' = TRUE
    /\ jobCtx' = IF jobCtx = "live" THEN "cancelled" ELSE jobCtx
    /\ UNCHANGED <<pc, job, spec, status, tries, goroutines, stalled, host, faults, history>>

\* Faulty variant: the job waits for its container, whatever the deadline.
JobCtxDone_container ==
    /\ pc = "wait"
    /\ jobCtx # "live"
    /\ waiter[job] # "waiting"
    /\ IF status[job] = "ok" /\ jobCtx = "deadline" THEN SetStatus("timeout") ELSE UNCHANGED status
    /\ Goto("grace")
    /\ UNCHANGED <<job, spec, jobCtx, tries, goroutines, environment, host, faults, history>>

JobCtxDone ==
    /\ pc = "wait"
    /\ jobCtx # "live"
    /\ IF status[job] = "ok" /\ jobCtx = "deadline" THEN SetStatus("timeout") ELSE UNCHANGED status
    /\ Goto("grace")
    /\ UNCHANGED <<job, spec, jobCtx, tries, goroutines, environment, host, faults, history>>

-------------------------------------------------------------------------------
(* The deferred calls                                                      *)

\* time.After(grace) or the end of the runner's context.
Grace ==
    /\ pc = "grace"
    /\ Goto("stop")
    /\ UNCHANGED <<job, spec, jobCtx, status, tries, goroutines, environment, host, faults, history>>

\* stopContainer; an error is logged.  Stop has 15 s for this call and the next.
StopContainer ==
    /\ pc = "stop"
    /\ \/ Succeeds \/ Fails
    /\ \/ Alive(job) /\ ~stalled /\ SetCont("exited") /\ End(job, "bad")
       \/ (faults' # faults \/ stalled \/ ~Alive(job)) /\ UNCHANGED <<cont, exitCode>>
    /\ Goto("remove")
    /\ UNCHANGED <<job, spec, jobCtx, status, tries, goroutines, environment, image, kid, dir, cgmap,
                   history>>

RemoveContainer ==
    /\ pc = "remove"
    /\ \/ RemoveForced
       \/ stalled /\ Succeeds /\ UNCHANGED <<cont, exitCode>> /\ kept' = kept \cup {job}
    /\ Goto("unregister")
    /\ UNCHANGED <<job, spec, jobCtx, status, tries, goroutines, environment, image, kid, dir, cgmap,
                   lost, stuck>>

\* RemoveCgroup; an error is logged.
Unregister ==
    /\ pc = "unregister"
    /\ \/ Succeeds /\ cgmap' = cgmap \ {job} /\ UNCHANGED stuck
       \/ Fails /\ stuck' = stuck \cup {job} /\ UNCHANGED cgmap
    /\ Goto("rmdir")
    /\ UNCHANGED <<job, spec, jobCtx, status, tries, goroutines, environment, image, cont, exitCode, kid,
                   dir, lost, kept>>

\* The directory is busy until Docker has removed the container's own.
Rmdir ==
    /\ pc = "rmdir"
    /\ \/ /\ job \notin kid
          /\ dir' = dir \ {job} /\ tries' = 0 /\ Goto("result") /\ UNCHANGED stuck
       \/ /\ job \in kid /\ tries < Retries - 1
          /\ tries' = tries + 1 /\ UNCHANGED <<dir, stuck, pc>>
       \/ /\ job \in kid /\ tries = Retries - 1
          /\ stuck' = stuck \cup {job} /\ tries' = 0 /\ Goto("result") /\ UNCHANGED dir
    /\ UNCHANGED <<job, spec, jobCtx, status, goroutines, environment, image, cont, exitCode, kid, cgmap,
                   faults, lost, kept>>

\* The result is posted and the runner polls again.
Result ==
    /\ pc = "result"
    /\ Goto("idle")
    /\ job' = NoJob
    /\ spec' = NoSpec
    /\ jobCtx' = "cancelled"
    /\ watching' = FALSE
    /\ UNCHANGED <<status, tries, waiter, environment, host, faults, history>>

-------------------------------------------------------------------------------
(* The container                                                           *)

\* The daemon's part: it starts the process, moves it below the parent and
\* reaps what has ended.
ContainerMoves(j) ==
    /\ ~stalled
    /\ \/ cont[j] = "starting" /\ cont' = [cont EXCEPT ![j] = "running"] /\ UNCHANGED <<exitCode, kid>>
       \/ cont[j] = "running" /\ cont' = [cont EXCEPT ![j] = "placed"]
          /\ kid' = kid \cup {j} /\ UNCHANGED exitCode
       \/ cont[j] \in {"exited", "gone"} /\ j \in kid /\ kid' = kid \ {j} /\ UNCHANGED <<cont, exitCode>>
    /\ UNCHANGED <<pc, job, spec, jobCtx, status, tries, goroutines, environment, image, dir, cgmap, faults,
                   history>>

\* The daemon hangs, for good: a stuck disk, a registry that sends no more.
DockerStalls ==
    /\ Stalls /\ ~stalled
    /\ stalled' = TRUE
    /\ UNCHANGED <<pc, job, spec, jobCtx, status, tries, goroutines, shutdown, host, faults, history>>

\* The workload ends, or never does.
ContainerExits(j) ==
    /\ cont[j] = "placed"
    /\ \E code \in {"ok", "bad"} : End(j, code)
    /\ cont' = [cont EXCEPT ![j] = "exited"]
    /\ UNCHANGED <<pc, job, spec, jobCtx, status, tries, goroutines, environment, image, kid, dir, cgmap,
                   faults, history>>

-------------------------------------------------------------------------------

RunnerStep ==
    \/ Mkdir \/ Register \/ CheckSpec \/ PullIfNeeded \/ Create \/ Start
    \/ WaitForRunning \/ StableCgroup \/ Abort \/ JobCtxDone
    \/ Grace \/ StopContainer \/ RemoveContainer \/ Unregister \/ Rmdir \/ Result

Next ==
    \/ \E j \in Jobs, s \in Specs : Take(j, s)
    \/ RunnerStep
    \/ Watch
    \/ \E j \in Jobs : RunWait(j) \/ ContainerMoves(j) \/ ContainerExits(j)
    \/ Deadline
    \/ Shutdown
    \/ DockerStalls

Spec == Init /\ [][Next]_vars

\* The runner takes its next step once it can, timers fire, and Docker, unless
\* it is stalled, answers and starts, places and reaps what it was asked to.
\* Nothing is assumed of the workload.
Fairness ==
    /\ WF_vars(RunnerStep)
    /\ WF_vars(Watch)
    /\ WF_vars(Deadline)
    /\ \A j \in Jobs : WF_vars(RunWait(j)) /\ WF_vars(ContainerMoves(j))

FairSpec == Spec /\ Fairness

-------------------------------------------------------------------------------
(* Properties                                                              *)

\* Between two jobs nothing of an earlier one is left, whatever call failed:
\* a container only if Docker lost its id or would not remove it, a cgroup or
\* its registration only if it was still in use or the sensor failed (the
\* error paths of Launch, Stop and runJob's deferred calls).
NoStray ==
    pc = "idle" =>
        \A j \in Jobs :
            /\ cont[j] \notin {"none", "gone"} => j \in lost \cup kept
            /\ j \in dir => j \in stuck
            /\ j \in cgmap => j \in stuck

\* A workload runs only while the sensor watches the cgroup above it: it is
\* registered before the container exists and removed after it is gone
\* (runJob, "Register BEFORE container starts").
ObservedWhileRunning ==
    \A j \in Jobs : cont[j] = "placed" => j \in cgmap \cap dir \/ j \in kept

\* runJob is in a call that nothing ends: the removals in Launch's error paths,
\* or a call of the launch while the runner itself goes on.
Hanging ==
    /\ stalled
    /\ pc = "abort" \/ (~shutdown /\ pc \in {"pull", "create", "start", "inspect"})

\* Every job ends, also when the workload does not.  A daemon that stops
\* answering holds the runner up for ever only inside Launch (its calls have no
\* deadline, docker.go's http.Client no timeout), and not once the container
\* is up: Stop gives up after 15 s.  The goroutine in runWait ends with its
\* container.
JobEnds ==
    /\ []<>(pc = "idle") \/ <>[]Hanging
    /\ \A j \in Jobs : waiter[j] = "waiting" ~> waiter[j] # "waiting" \/ j \in kept \/ stalled
===============================================================================
