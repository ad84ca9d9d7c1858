---------------------------- MODULE SandboxProofs -----------------------------
(* Machine-checked facts about the sandbox of a job, for any number of jobs, *)
(* failing calls and attempts to remove the parent cgroup.                   *)
EXTENDS Sandbox, TLAPS

\* The sets of specifications a job can carry are closed under the defaults
\* that Launch fills in.
LEMMA FilledType ==
  ASSUME NEW s \in SandboxSpec
  PROVE  FilledSpec(s) \in SandboxSpec
BY DEF FilledSpec, SandboxSpec

\* Job ids start at one.
LEMMA NoJobIsNone == NoJob \notin Jobs
BY DEF NoJob, Jobs

\* A call fails at most MaxFaults times.
LEMMA FaultsStep ==
  ASSUME TypeOK, Fails \/ UNCHANGED faults
  PROVE  faults' \in 0..MaxFaults
BY BoundsAssumption DEF Fails, TypeOK

\* A call of the Docker API, under any context, fails within the same bound.
LEMMA CtxFaults ==
  (CtxFails \/ CtxSucceeds \/ DockerFails \/ DockerSucceeds) => (Fails \/ UNCHANGED faults)
BY DEF CtxFails, CtxSucceeds, DockerFails, DockerSucceeds, Succeeds

\* Every variable keeps its type; between two jobs, and only then, there is no
\* current job.
LEMMA TypeStep ==
  ASSUME TypeOK, [Next]_vars
  PROVE  TypeOK'
<1> USE NoJobIsNone DEF TypeOK, Steps, ContState, Goto, SetStatus, SetCont, host, history,
                        goroutines, environment
<1> SUFFICES ASSUME Fails \/ UNCHANGED faults => faults' \in 0..MaxFaults
             PROVE  TypeOK'
  BY FaultsStep
<1>1. ASSUME NEW j \in Jobs, NEW s \in Specs, Take(j, s)
      PROVE  TypeOK'
  BY <1>1, SpecsAssumption DEF Take
<1>2. CASE Mkdir
  BY <1>2 DEF Mkdir, Succeeds
<1>3. CASE Register
  BY <1>3 DEF Register, Succeeds
<1>4. CASE CheckSpec
  BY <1>4, FilledType DEF CheckSpec, LaunchFailed, Succeeds
<1>5. CASE PullIfNeeded
  BY <1>5, CtxFaults DEF PullIfNeeded, LaunchFailed, NoSpec, SandboxSpec, Succeeds
<1>6. CASE Create
  BY <1>6, CtxFaults DEF Create, LaunchFailed, Succeeds
<1>7. CASE Start
  BY <1>7, CtxFaults DEF Start
<1>8. CASE WaitForRunning
  BY <1>8, CtxFaults DEF WaitForRunning
<1>9. CASE StableCgroup
  BY <1>9 DEF StableCgroup, Succeeds
<1>10. CASE Abort
  BY <1>10, CtxFaults DEF Abort, RemoveForced, End, LaunchFailed, Succeeds
<1>11. CASE JobCtxDone
  BY <1>11 DEF JobCtxDone, Succeeds
<1>12. CASE Grace
  BY <1>12 DEF Grace, Succeeds
<1>13. CASE StopContainer
  BY <1>13 DEF StopContainer, End, Succeeds
<1>14. CASE RemoveContainer
  BY <1>14, CtxFaults DEF RemoveContainer, RemoveForced, End, Succeeds
<1>15. CASE Unregister
  BY <1>15 DEF Unregister, Succeeds
<1>16. CASE Rmdir
  BY <1>16, BoundsAssumption DEF Rmdir, Succeeds
<1>17. CASE Result
  BY <1>17 DEF Result, Succeeds, NoSpec, SandboxSpec
<1>18. CASE Watch
  BY <1>18 DEF Watch, Succeeds
<1>19. ASSUME NEW j \in Jobs, RunWait(j)
       PROVE  TypeOK'
  BY <1>19, CtxFaults DEF RunWait, Succeeds
<1>20. ASSUME NEW j \in Jobs, ContainerMoves(j)
       PROVE  TypeOK'
  BY <1>20 DEF ContainerMoves
<1>21. ASSUME NEW j \in Jobs, ContainerExits(j)
       PROVE  TypeOK'
  BY <1>21 DEF ContainerExits, End
<1>22. CASE Deadline
  BY <1>22 DEF Deadline
<1>23. CASE Shutdown
  BY <1>23 DEF Shutdown
<1>24. CASE DockerStalls
  BY <1>24 DEF DockerStalls
<1>25. CASE UNCHANGED vars
  BY <1>25 DEF vars
<1>26. QED
  <2> HIDE DEF TypeOK
  <2> QED
    BY <1>1, <1>2, <1>3, <1>4, <1>5, <1>6, <1>7, <1>8, <1>9, <1>10, <1>11, <1>12, <1>13,
       <1>14, <1>15, <1>16, <1>17, <1>18, <1>19, <1>20, <1>21, <1>22, <1>23, <1>24,
       <1>25
       DEF Next, RunnerStep

\* runJob, Launch and the container keep every variable in its type.
THEOREM TypeCorrect == Spec => []TypeOK
<1>1. Init => TypeOK
  <2>1. 0 \in 0..(Retries - 1) /\ 0 \in 0..MaxFaults
    BY BoundsAssumption
  <2>2. NoSpec \in SandboxSpec
    BY DEF NoSpec, SandboxSpec
  <2>3. QED
    BY <2>1, <2>2 DEF Init, TypeOK, Steps, ContState
<1>2. TypeOK /\ [Next]_vars => TypeOK'
  BY TypeStep
<1>3. QED
  BY <1>1, <1>2, PTL DEF Spec

-------------------------------------------------------------------------------
(* Nothing is left behind and nothing runs unobserved.  Both properties look *)
(* at one moment of a job; the invariant says which calls of runJob stand    *)
(* between a resource and its release.                                       *)

\* runJob has started the container and has yet to remove it.
HasContainer == {"inspect", "cgroup", "wait", "grace", "stop", "remove", "abort"}

\* The parent cgroup exists, or is registered, from one call to another.
HasParent == HasContainer \cup {"register", "check", "pull", "create", "start",
                                "unregister", "rmdir"}
IsRegistered == HasParent \ {"register", "rmdir"}

\* A container that has or can still get a process belongs to the current job
\* and is about to be removed, or Docker refused to remove it.
ProcessInv ==
    \A j \in Jobs :
        cont[j] \in {"starting", "running", "placed"} =>
            (j = job /\ pc \in HasContainer) \/ j \in kept

\* Whatever exists belongs to the current job, at a step before its release,
\* or its release failed.
LeftoverInv ==
    \A j \in Jobs :
        /\ cont[j] \notin {"none", "gone"} =>
              (j = job /\ pc \in HasContainer \cup {"start"}) \/ j \in lost \cup kept
        /\ j \in dir => (j = job /\ pc \in HasParent) \/ j \in stuck
        /\ j \in cgmap => (j = job /\ pc \in IsRegistered) \/ j \in stuck

\* The current job's cgroup exists from its creation on, and is registered
\* before there is a container.
Launching == HasContainer \cup {"check", "pull", "create", "start"}

WatchedInv ==
    /\ pc \in Launching \cup {"register"} => job \in dir
    /\ pc \in Launching => job \in cgmap

\* The deferred calls run in the reverse order of the calls they undo.
SandboxInv == ProcessInv /\ LeftoverInv /\ WatchedInv

\* Every step of runJob, Launch, Stop and the container keeps the invariant.
LEMMA SandboxStep ==
  ASSUME TypeOK, SandboxInv, [Next]_vars
  PROVE  SandboxInv'
<1> USE NoJobIsNone DEF TypeOK, Steps, ContState, SandboxInv, ProcessInv, LeftoverInv, WatchedInv,
                        Launching, HasContainer, HasParent, IsRegistered, Goto, SetCont, host, history,
                        environment
<1>1. ASSUME NEW j \in Jobs, NEW s \in Specs, Take(j, s)
      PROVE  SandboxInv'
  BY <1>1 DEF Take
<1>2. CASE Mkdir
  BY <1>2 DEF Mkdir
<1>3. CASE Register
  BY <1>3 DEF Register
<1>4. CASE CheckSpec
  BY <1>4 DEF CheckSpec, LaunchFailed
<1>5. CASE PullIfNeeded
  BY <1>5 DEF PullIfNeeded, LaunchFailed
<1>6. CASE Create
  BY <1>6 DEF Create, LaunchFailed
<1>7. CASE Start
  BY <1>7 DEF Start
<1>8. CASE WaitForRunning
  BY <1>8 DEF WaitForRunning
<1>9. CASE StableCgroup
  BY <1>9 DEF StableCgroup
<1>10. CASE Abort
  BY <1>10 DEF Abort, RemoveForced, LaunchFailed
<1>11. CASE JobCtxDone
  BY <1>11 DEF JobCtxDone
<1>12. CASE Grace
  BY <1>12 DEF Grace
<1>13. CASE StopContainer
  BY <1>13 DEF StopContainer
<1>14. CASE RemoveContainer
  BY <1>14 DEF RemoveContainer, RemoveForced
<1>15. CASE Unregister
  BY <1>15 DEF Unregister
<1>16. CASE Rmdir
  BY <1>16 DEF Rmdir
<1>17. CASE Result
  BY <1>17 DEF Result
<1>18. CASE Watch
  BY <1>18 DEF Watch
<1>19. ASSUME NEW j \in Jobs, RunWait(j)
       PROVE  SandboxInv'
  BY <1>19 DEF RunWait
<1>20. ASSUME NEW j \in Jobs, ContainerMoves(j)
       PROVE  SandboxInv'
  BY <1>20 DEF ContainerMoves
<1>21. ASSUME NEW j \in Jobs, ContainerExits(j)
       PROVE  SandboxInv'
  BY <1>21 DEF ContainerExits
<1>22. CASE Deadline
  BY <1>22 DEF Deadline
<1>23. CASE Shutdown
  BY <1>23 DEF Shutdown
<1>24. CASE DockerStalls
  BY <1>24 DEF DockerStalls
<1>25. CASE UNCHANGED vars
  BY <1>25 DEF vars
<1>26. QED
  <2> HIDE DEF SandboxInv
  <2> QED
    BY <1>1, <1>2, <1>3, <1>4, <1>5, <1>6, <1>7, <1>8, <1>9, <1>10, <1>11, <1>12, <1>13,
       <1>14, <1>15, <1>16, <1>17, <1>18, <1>19, <1>20, <1>21, <1>22, <1>23, <1>24,
       <1>25
       DEF Next, RunnerStep

\* The invariant holds from the start and at every step.
LEMMA Accounted == Spec => [](TypeOK /\ SandboxInv)
<1>1. Init => SandboxInv
  BY NoJobIsNone DEF Init, SandboxInv, ProcessInv, LeftoverInv, WatchedInv, Launching, HasContainer
<1>2. TypeOK /\ SandboxInv /\ [Next]_vars => SandboxInv'
  BY SandboxStep
<1>3. QED
  BY <1>1, <1>2, TypeCorrect, PTL DEF Spec

\* Whatever calls of the Docker API fail, a workload runs only below a cgroup
\* that exists and that the sensor watches, unless Docker refused to remove
\* the container.
THEOREM Observed == Spec => []ObservedWhileRunning
<1>1. TypeOK /\ SandboxInv => ObservedWhileRunning
  BY DEF SandboxInv, ProcessInv, WatchedInv, ObservedWhileRunning, Launching,
         TypeOK, ContState
<1>2. QED
  BY <1>1, Accounted, PTL

\* Between two jobs no container, cgroup or registration of an earlier job is
\* left, except one whose own release failed.
THEOREM StrayFree == Spec => []NoStray
<1>1. TypeOK /\ SandboxInv => NoStray
  BY NoJobIsNone DEF SandboxInv, LeftoverInv, NoStray, TypeOK, HasContainer, HasParent, IsRegistered
<1>2. QED
  BY <1>1, Accounted, PTL
===============================================================================
