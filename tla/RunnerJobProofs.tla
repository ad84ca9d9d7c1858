--------------------------- MODULE RunnerJobProofs ----------------------------
(* Machine-checked facts about runJob, the forwarder and the streamers, for  *)
(* any number of jobs and events, any queue, ring and batch sizes, and every *)
(* combination of failures.                                                  *)
EXTENDS RunnerJob, FiniteSetTheorems, TLAPS

\* The bounds are positive numbers.
LEMMA Bounds ==
  /\ NumJobs \in Nat \ {0} /\ RingSize \in Nat \ {0}
  /\ QueueSize \in Nat \ {0} /\ MaxBatch \in Nat \ {0}
BY BoundAssumption

\* Job numbers.
LEMMA JobNumbers ==
  ASSUME MainTypes
  PROVE  /\ None \notin Jobs
         /\ job \in Jobs \/ job = None
         /\ job < NumJobs => job + 1 \in Jobs /\ job + 1 \in 0..NumJobs /\ job + 1 # None
BY Bounds DEF MainTypes, Jobs, None

\* Where runJob and its goroutines are: every step keeps the types.
LEMMA MainTypesStep ==
  ASSUME MainTypes, SensorTypes, StreamTypes, [Next]_vars
  PROVE  MainTypes'
<1> USE DEF MainTypes, Statuses, Goto, main, sandbox, sensor, forwarder, streamers, orchestrator
<1>1. ASSUME StartJob, UNCHANGED crashed
      PROVE  MainTypes'
  <2>1. job' \in Jobs /\ job' \in 0..NumJobs
    BY <1>1, JobNumbers DEF StartJob
  <2>2. jpc' = "register" /\ jctx' = "live" /\ status' = "ok" /\ container' = "none"
    BY <1>1 DEF StartJob
  <2>3. UNCHANGED <<shutdown, registered, crashed, seen, wpc>>
    BY <1>1 DEF StartJob
  <2>4. QED
    BY <2>1, <2>2, <2>3
<1>2. ASSUME Register, UNCHANGED crashed
      PROVE  MainTypes'
  <2>1. job \in Jobs /\ UNCHANGED <<job, seen, jctx, shutdown, wpc, container, crashed>>
    BY <1>2 DEF Register
  <2>2. status' \in {status, "failed"} /\ registered' \in BOOLEAN
    BY <1>2 DEF Register
  <2>3. jpc' \in {"launch", "wait", "detach"}
    BY <1>2 DEF Register
  <2>4. QED
    BY <2>1, <2>2, <2>3
<1>3. ASSUME Launch, UNCHANGED crashed
      PROVE  MainTypes'
  BY <1>3 DEF Launch
<1>4. ASSUME AwaitDone, UNCHANGED crashed
      PROVE  MainTypes'
  BY <1>4 DEF AwaitDone
<1>5. ASSUME Verdict, UNCHANGED crashed
      PROVE  MainTypes'
  BY <1>5 DEF Verdict
<1>6. ASSUME StopContainer, UNCHANGED crashed
      PROVE  MainTypes'
  BY <1>6 DEF StopContainer
<1>7. ASSUME RemoveCgroup, UNCHANGED crashed
      PROVE  MainTypes'
  BY <1>7 DEF RemoveCgroup
<1>8. ASSUME Detach, UNCHANGED crashed
      PROVE  MainTypes'
  BY <1>8 DEF Detach
<1>9. ASSUME Close, UNCHANGED crashed
      PROVE  MainTypes'
  BY <1>9 DEF Close
<1>10. ASSUME Closed, UNCHANGED crashed
      PROVE  MainTypes'
  BY <1>10 DEF Closed
<1>11. ASSUME SendResult, UNCHANGED crashed
      PROVE  MainTypes'
  BY <1>11 DEF SendResult
<1>12. ASSUME WatcherSees, UNCHANGED crashed
      PROVE  MainTypes'
  BY <1>12 DEF WatcherSees
<1>13. ASSUME WatcherCancels, UNCHANGED crashed
      PROVE  MainTypes'
  BY <1>13 DEF WatcherCancels
<1>14. ASSUME WatcherLeaves, UNCHANGED crashed
      PROVE  MainTypes'
  BY <1>14 DEF WatcherLeaves
<1>15. ASSUME ForwarderReads, UNCHANGED crashed
      PROVE  MainTypes'
  BY <1>15 DEF ForwarderReads
<1>16. ASSUME ForwarderRoutes, UNCHANGED crashed
      PROVE  MainTypes'
  BY <1>16 DEF ForwarderRoutes
<1>17. ASSUME Deadline, UNCHANGED crashed
      PROVE  MainTypes'
  BY <1>17 DEF Deadline
<1>18. ASSUME Shutdown, UNCHANGED crashed
      PROVE  MainTypes'
  BY <1>18 DEF Shutdown
<1>19. ASSUME Emit, UNCHANGED crashed
      PROVE  MainTypes'
  BY <1>19 DEF Emit
<1>20. ASSUME ContainerExits, UNCHANGED crashed
      PROVE  MainTypes'
  BY <1>20 DEF ContainerExits
<1>21. ASSUME NEW j \in Jobs, LoopTakes(j), UNCHANGED crashed
       PROVE  MainTypes'
  BY <1>21 DEF LoopTakes
<1>22. ASSUME NEW j \in Jobs, LoopTicks(j), UNCHANGED crashed
       PROVE  MainTypes'
  BY <1>22 DEF LoopTicks
<1>23. ASSUME NEW j \in Jobs, LoopEnds(j), UNCHANGED crashed
       PROVE  MainTypes'
  BY <1>23 DEF LoopEnds
<1>24. ASSUME NEW b \in wire, Arrive(b), UNCHANGED crashed
       PROVE  MainTypes'
  BY <1>24 DEF Arrive
<1>25. CASE Send
  <2>1. closed[fst] \in BOOLEAN
    BY <1>25 DEF Send, SensorTypes, StreamTypes
  <2>2. QED
    BY <1>25, <2>1 DEF Send
<1>26. CASE UNCHANGED vars
  BY <1>26 DEF vars
<1>27. QED
  <2> HIDE DEF MainTypes
  <2> QED
    BY <1>1, <1>2, <1>3, <1>4, <1>5, <1>6, <1>7, <1>8, <1>9, <1>10, <1>11,
        <1>12, <1>13, <1>14, <1>15, <1>16, <1>17, <1>18, <1>19, <1>20, <1>21,
        <1>22, <1>23, <1>24, <1>25, <1>26
       DEF Next, Quietly, MainStep, WatcherStep, LoopStep

\* The ring, the forwarder and the installed streamer keep their types.
LEMMA SensorTypesStep ==
  ASSUME MainTypes, SensorTypes, [Next]_vars
  PROVE  SensorTypes'
<1> USE DEF SensorTypes, Goto, main, sandbox, sensor, forwarder, streamers, orchestrator
<1>1. CASE StartJob
  BY <1>1, JobNumbers DEF StartJob
<1>2. CASE Register
  BY <1>2 DEF Register
<1>3. CASE Launch
  BY <1>3 DEF Launch
<1>4. CASE AwaitDone
  BY <1>4 DEF AwaitDone
<1>5. CASE Verdict
  BY <1>5 DEF Verdict
<1>6. CASE StopContainer
  BY <1>6 DEF StopContainer
<1>7. CASE RemoveCgroup
  BY <1>7 DEF RemoveCgroup
<1>8. CASE Detach
  BY <1>8 DEF Detach
<1>9. CASE Close
  BY <1>9 DEF Close
<1>10. CASE Closed
  BY <1>10 DEF Closed
<1>11. CASE SendResult
  BY <1>11 DEF SendResult
<1>12. CASE WatcherSees
  BY <1>12 DEF WatcherSees
<1>13. CASE WatcherCancels
  BY <1>13 DEF WatcherCancels
<1>14. CASE WatcherLeaves
  BY <1>14 DEF WatcherLeaves
<1>15. CASE ForwarderReads
  <2>1. Head(ring) \in Event /\ Tail(ring) \in Seq(Event) /\ Len(Tail(ring)) <= RingSize
    BY <1>15, Bounds DEF ForwarderReads
  <2>2. QED
    BY <1>15, <2>1 DEF ForwarderReads
<1>16. CASE ForwarderRoutes
  BY <1>16, JobNumbers DEF ForwarderRoutes
<1>17. CASE Deadline
  BY <1>17 DEF Deadline
<1>18. CASE Shutdown
  BY <1>18 DEF Shutdown
<1>19. CASE Emit
  <2>1. job \in Jobs /\ emitted[job] + 1 \in Nat
    BY <1>19 DEF Emit, MainTypes
  <2>2. emitted' \in [Jobs -> Nat]
    BY <1>19, <2>1 DEF Emit
  <2>3. ring' \in Seq(Event) /\ Len(ring') <= RingSize /\ drops' \in Nat
    <3>1. CASE Len(ring) < RingSize
      <4>1. <<job, emitted[job] + 1>> \in Event
        BY <2>1 DEF Event
      <4>2. ring' = Append(ring, <<job, emitted[job] + 1>>) /\ drops' = drops
        BY <1>19, <3>1 DEF Emit
      <4>3. QED
        BY <3>1, <4>1, <4>2, Bounds
    <3>2. CASE ~ (Len(ring) < RingSize)
      BY <1>19, <3>2 DEF Emit
    <3>3. QED
      BY <3>1, <3>2
  <2>4. QED
    BY <1>19, <2>2, <2>3 DEF Emit
<1>20. CASE ContainerExits
  BY <1>20 DEF ContainerExits
<1>21. ASSUME NEW j \in Jobs, LoopTakes(j)
       PROVE  SensorTypes'
  BY <1>21 DEF LoopTakes
<1>22. ASSUME NEW j \in Jobs, LoopTicks(j)
       PROVE  SensorTypes'
  BY <1>22 DEF LoopTicks
<1>23. ASSUME NEW j \in Jobs, LoopEnds(j)
       PROVE  SensorTypes'
  BY <1>23 DEF LoopEnds
<1>24. ASSUME NEW b \in wire, Arrive(b)
       PROVE  SensorTypes'
  BY <1>24 DEF Arrive
<1>25. CASE Send
  BY <1>25 DEF Send
<1>26. CASE UNCHANGED vars
  BY <1>26 DEF vars
<1>27. QED
  <2> HIDE DEF SensorTypes
  <2> QED
    BY <1>1, <1>2, <1>3, <1>4, <1>5, <1>6, <1>7, <1>8, <1>9, <1>10, <1>11,
        <1>12, <1>13, <1>14, <1>15, <1>16, <1>17, <1>18, <1>19, <1>20, <1>21,
        <1>22, <1>23, <1>24, <1>25, <1>26
       DEF Next, Quietly, MainStep, WatcherStep, LoopStep

\* Flushing a batch empties it, sends it at most once and keeps the types.
LEMMA FlushTypes ==
  ASSUME StreamTypes, OrchestratorTypes, NEW j \in Jobs, NEW batch \in Seq(Event),
         Flush(j, batch)
  PROVE  /\ pending' \in [Jobs -> Seq(Event)]
         /\ \A k \in Jobs : Len(pending'[k]) < MaxBatch
         /\ seqno' \in [Jobs -> Nat] /\ sent' \in [Jobs -> Nat]
         /\ \A k \in Jobs : k # j => seqno'[k] = seqno[k]
         /\ wire' \subseteq [run : Jobs, seq : Nat, events : Seq(Event)]
         /\ received' \in [Jobs -> Seq(Event)]
<1>1. /\ pending' \in [Jobs -> Seq(Event)]
      /\ \A k \in Jobs : Len(pending'[k]) < MaxBatch
  <2>1. pending' = [pending EXCEPT ![j] = <<>>]
    BY DEF Flush
  <2>2. <<>> \in Seq(Event) /\ Len(<<>>) < MaxBatch
    BY Bounds
  <2>3. QED
    BY <2>1, <2>2 DEF StreamTypes
<1>2. CASE batch = <<>>
  BY <1>1, <1>2 DEF Flush, StreamTypes, OrchestratorTypes
<1>3. CASE batch # <<>>
  <2>1. Post(j, batch)
    BY <1>3 DEF Flush
  <2>2. seqno[j] + 1 \in Nat /\ seqno' = [seqno EXCEPT ![j] = seqno[j] + 1]
    BY <2>1 DEF Post, StreamTypes
  <2>3. seqno' \in [Jobs -> Nat] /\ \A k \in Jobs : k # j => seqno'[k] = seqno[k]
    BY <2>2 DEF StreamTypes
  <2>4. CASE received' = [received EXCEPT ![j] = @ \o batch]
             /\ sent' = [sent EXCEPT ![j] = @ + Len(batch)] /\ wire' = wire
    <3>1. received[j] \o batch \in Seq(Event) /\ sent[j] + Len(batch) \in Nat
      BY DEF StreamTypes, OrchestratorTypes
    <3>2. received' \in [Jobs -> Seq(Event)] /\ sent' \in [Jobs -> Nat]
      BY <2>4, <3>1 DEF StreamTypes, OrchestratorTypes
    <3>3. QED
      BY <1>1, <2>3, <2>4, <3>2 DEF OrchestratorTypes
  <2>5. CASE UNCHANGED <<received, sent, wire>>
    BY <1>1, <2>3, <2>5 DEF StreamTypes, OrchestratorTypes
  <2>6. CASE /\ wire' = wire \cup {[run |-> j, seq |-> seqno[j] + 1, events |-> batch]}
             /\ UNCHANGED <<received, sent>>
    <3>1. [run |-> j, seq |-> seqno[j] + 1, events |-> batch]
             \in [run : Jobs, seq : Nat, events : Seq(Event)]
      BY <2>2
    <3>2. QED
      BY <1>1, <2>3, <2>6, <3>1 DEF StreamTypes, OrchestratorTypes
  <2>7. QED
    BY <2>1, <2>4, <2>5, <2>6 DEF Post
<1>4. QED
  BY <1>2, <1>3

\* What a loop takes from its channel makes a batch of at most MaxBatch events.
LEMMA BatchTypes ==
  ASSUME StreamTypes, NEW j \in Jobs, inq[j] # <<>>
  PROVE  /\ Head(inq[j]) \in Event
         /\ Tail(inq[j]) \in Seq(Event) /\ Len(Tail(inq[j])) <= QueueSize
         /\ Append(pending[j], Head(inq[j])) \in Seq(Event)
<1>1. inq[j] \in Seq(Event) /\ pending[j] \in Seq(Event) /\ Len(inq[j]) <= QueueSize
  BY DEF StreamTypes
<1>2. Head(inq[j]) \in Event /\ Tail(inq[j]) \in Seq(Event) /\ Len(Tail(inq[j])) <= QueueSize
  BY <1>1, Bounds
<1>3. QED
  BY <1>1, <1>2

\* The streamers' channels, batches and counters keep their types and bounds.
LEMMA StreamTypesStep ==
  ASSUME MainTypes, SensorTypes, StreamTypes, OrchestratorTypes, [Next]_vars
  PROVE  StreamTypes'
<1> USE DEF StreamTypes, Goto, main, sandbox, sensor, forwarder, streamers, orchestrator
<1>1. CASE StartJob
  <2>1. PICK k \in Jobs : loop' = [loop EXCEPT ![k] = "run"]
    BY <1>1, JobNumbers DEF StartJob
  <2>2. UNCHANGED <<inq, closed, pending, seqno, sent, queued>>
    BY <1>1 DEF StartJob
  <2>3. QED
    BY <2>1, <2>2
<1>2. CASE Register
  BY <1>2 DEF Register
<1>3. CASE Launch
  BY <1>3 DEF Launch
<1>4. CASE AwaitDone
  BY <1>4 DEF AwaitDone
<1>5. CASE Verdict
  BY <1>5 DEF Verdict
<1>6. CASE StopContainer
  BY <1>6 DEF StopContainer
<1>7. CASE RemoveCgroup
  BY <1>7 DEF RemoveCgroup
<1>8. CASE Detach
  BY <1>8 DEF Detach
<1>9. CASE Close
  BY <1>9 DEF Close
<1>10. CASE Closed
  BY <1>10 DEF Closed
<1>11. CASE SendResult
  BY <1>11 DEF SendResult
<1>12. CASE WatcherSees
  BY <1>12 DEF WatcherSees
<1>13. CASE WatcherCancels
  BY <1>13 DEF WatcherCancels
<1>14. CASE WatcherLeaves
  BY <1>14 DEF WatcherLeaves
<1>15. CASE ForwarderReads
  BY <1>15 DEF ForwarderReads
<1>16. CASE ForwarderRoutes
  BY <1>16 DEF ForwarderRoutes
<1>17. CASE Deadline
  BY <1>17 DEF Deadline
<1>18. CASE Shutdown
  BY <1>18 DEF Shutdown
<1>19. CASE Emit
  BY <1>19 DEF Emit
<1>20. CASE ContainerExits
  BY <1>20 DEF ContainerExits
<1>21. ASSUME NEW j \in Jobs, LoopTakes(j)
       PROVE  StreamTypes'
  <2> DEFINE batch == Append(pending[j], Head(inq[j]))
  <2>1. inq[j] # <<>> /\ inq' = [inq EXCEPT ![j] = Tail(@)] /\ UNCHANGED <<closed, loop, queued>>
        /\ loop[j] = "run"
    BY <1>21 DEF LoopTakes
  <2>2. inq' \in [Jobs -> Seq(Event)] /\ \A k \in Jobs : Len(inq'[k]) <= QueueSize
    BY <2>1, BatchTypes
  <2>3. batch \in Seq(Event)
    BY <2>1, BatchTypes
  <2>4. /\ pending' \in [Jobs -> Seq(Event)] /\ \A k \in Jobs : Len(pending'[k]) < MaxBatch
        /\ seqno' \in [Jobs -> Nat] /\ sent' \in [Jobs -> Nat]
        /\ \A k \in Jobs : k # j => seqno'[k] = seqno[k]
    <3>1. CASE Len(batch) >= MaxBatch
      <4>1. Flush(j, batch)
        BY <1>21, <3>1 DEF LoopTakes
      <4> HIDE DEF batch
      <4>2. QED
        BY <2>3, <4>1, FlushTypes
    <3>2. CASE ~ (Len(batch) >= MaxBatch)
      <4>1. pending' = [pending EXCEPT ![j] = batch] /\ UNCHANGED <<seqno, sent>>
        BY <1>21, <3>2 DEF LoopTakes
      <4>2. Len(batch) < MaxBatch
        BY <2>3, <3>2, Bounds
      <4> HIDE DEF batch
      <4>3. QED
        BY <2>3, <4>1, <4>2
    <3>3. QED
      BY <3>1, <3>2
  <2>5. QED
    BY <2>1, <2>2, <2>4
<1>22. ASSUME NEW j \in Jobs, LoopTicks(j)
       PROVE  StreamTypes'
  <2>1. pending[j] \in Seq(Event)
    OBVIOUS
  <2>2. Flush(j, pending[j])
    BY <1>22 DEF LoopTicks
  <2>3. /\ pending' \in [Jobs -> Seq(Event)] /\ \A k \in Jobs : Len(pending'[k]) < MaxBatch
        /\ seqno' \in [Jobs -> Nat] /\ sent' \in [Jobs -> Nat]
        /\ \A k \in Jobs : k # j => seqno'[k] = seqno[k]
    BY <2>1, <2>2, FlushTypes DEF OrchestratorTypes
  <2>4. UNCHANGED <<inq, closed, queued>>
    BY <1>22 DEF LoopTicks
  <2>5. loop' \in [Jobs -> {"none", "run", "exited"}]
        /\ loop'[j] # "none" /\ \A k \in Jobs : k # j => loop'[k] = loop[k]
    BY <1>22 DEF LoopTicks
  <2>6. QED
    BY <2>3, <2>4, <2>5
<1>23. ASSUME NEW j \in Jobs, LoopEnds(j)
       PROVE  StreamTypes'
  <2>1. pending[j] \in Seq(Event)
    OBVIOUS
  <2>2. Flush(j, pending[j])
    BY <1>23 DEF LoopEnds
  <2>3. /\ pending' \in [Jobs -> Seq(Event)] /\ \A k \in Jobs : Len(pending'[k]) < MaxBatch
        /\ seqno' \in [Jobs -> Nat] /\ sent' \in [Jobs -> Nat]
        /\ \A k \in Jobs : k # j => seqno'[k] = seqno[k]
    BY <2>1, <2>2, FlushTypes DEF OrchestratorTypes
  <2>4. UNCHANGED <<inq, closed, queued>>
    BY <1>23 DEF LoopEnds
  <2>5. loop' \in [Jobs -> {"none", "run", "exited"}]
        /\ loop'[j] # "none" /\ \A k \in Jobs : k # j => loop'[k] = loop[k]
    BY <1>23 DEF LoopEnds
  <2>6. QED
    BY <2>3, <2>4, <2>5
<1>24. ASSUME NEW b \in wire, Arrive(b)
       PROVE  StreamTypes'
  BY <1>24 DEF Arrive
<1>25. CASE Send
  <2>1. fst \in Jobs /\ fev \in Event
    BY <1>25 DEF Send, SensorTypes
  <2>2. UNCHANGED <<closed, pending, loop, seqno, sent>>
    BY <1>25 DEF Send
  <2>3. CASE ~ closed[fst] /\ Len(inq[fst]) < QueueSize
    <3>1. inq' = [inq EXCEPT ![fst] = Append(@, fev)] /\ queued' = [queued EXCEPT ![fst] = @ + 1]
      BY <1>25, <2>3 DEF Send
    <3>2. /\ Append(inq[fst], fev) \in Seq(Event) /\ Len(Append(inq[fst], fev)) <= QueueSize
          /\ queued[fst] + 1 \in Nat
      BY <2>1, <2>3, Bounds
    <3>3. QED
      BY <2>1, <2>2, <3>1, <3>2
  <2>4. CASE ~ (~ closed[fst] /\ Len(inq[fst]) < QueueSize)
    <3>1. inq' = inq /\ queued' = queued
      BY <1>25, <2>4 DEF Send
    <3>2. QED
      BY <2>2, <3>1
  <2>5. QED
    BY <2>3, <2>4
<1>26. CASE UNCHANGED vars
  BY <1>26 DEF vars
<1>27. QED
  <2> HIDE DEF StreamTypes
  <2> QED
    BY <1>1, <1>2, <1>3, <1>4, <1>5, <1>6, <1>7, <1>8, <1>9, <1>10, <1>11,
        <1>12, <1>13, <1>14, <1>15, <1>16, <1>17, <1>18, <1>19, <1>20, <1>21,
        <1>22, <1>23, <1>24, <1>25, <1>26
       DEF Next, Quietly, MainStep, WatcherStep, LoopStep

\* What is on the wire, accepted and reported keeps its type.
LEMMA OrchestratorTypesStep ==
  ASSUME MainTypes, SensorTypes, StreamTypes, OrchestratorTypes, [Next]_vars
  PROVE  OrchestratorTypes'
<1> USE DEF OrchestratorTypes, Goto, main, sandbox, sensor, forwarder, streamers, orchestrator
<1>1. CASE StartJob
  BY <1>1 DEF StartJob
<1>2. CASE Register
  BY <1>2 DEF Register
<1>3. CASE Launch
  BY <1>3 DEF Launch
<1>4. CASE AwaitDone
  BY <1>4 DEF AwaitDone
<1>5. CASE Verdict
  BY <1>5 DEF Verdict
<1>6. CASE StopContainer
  BY <1>6 DEF StopContainer
<1>7. CASE RemoveCgroup
  BY <1>7 DEF RemoveCgroup
<1>8. CASE Detach
  BY <1>8 DEF Detach
<1>9. CASE Close
  BY <1>9 DEF Close
<1>10. CASE Closed
  BY <1>10 DEF Closed
<1>11. CASE SendResult
  <2>1. job \in Jobs /\ status \in Statuses /\ sent[job] \in Nat /\ drops \in Nat
    BY <1>11 DEF SendResult, MainTypes, SensorTypes, StreamTypes
  <2>2. [status |-> status, emitted |-> sent[job], dropped |-> drops]
           \in [status : Statuses \cup {"none"}, emitted : Nat, dropped : Nat]
    BY <2>1
  <2>3. UNCHANGED <<wire, received>>
    BY <1>11 DEF SendResult
  <2>4. report' \in [Jobs -> [status : Statuses \cup {"none"}, emitted : Nat, dropped : Nat]]
    <3> DEFINE r == [status |-> status, emitted |-> sent[job], dropped |-> drops]
    <3>1. report' = [report EXCEPT ![job] = r] \/ report' = report
      BY <1>11 DEF SendResult
    <3> HIDE DEF r
    <3>2. r \in [status : Statuses \cup {"none"}, emitted : Nat, dropped : Nat]
      BY <2>2 DEF r
    <3>3. QED
      BY <3>1, <3>2
  <2>5. QED
    BY <2>3, <2>4
<1>12. CASE WatcherSees
  BY <1>12 DEF WatcherSees
<1>13. CASE WatcherCancels
  BY <1>13 DEF WatcherCancels
<1>14. CASE WatcherLeaves
  BY <1>14 DEF WatcherLeaves
<1>15. CASE ForwarderReads
  BY <1>15 DEF ForwarderReads
<1>16. CASE ForwarderRoutes
  BY <1>16 DEF ForwarderRoutes
<1>17. CASE Deadline
  BY <1>17 DEF Deadline
<1>18. CASE Shutdown
  BY <1>18 DEF Shutdown
<1>19. CASE Emit
  BY <1>19 DEF Emit
<1>20. CASE ContainerExits
  BY <1>20 DEF ContainerExits
<1>21. ASSUME NEW j \in Jobs, LoopTakes(j)
       PROVE  OrchestratorTypes'
  <2> DEFINE batch == Append(pending[j], Head(inq[j]))
  <2>1. batch \in Seq(Event)
    BY <1>21, BatchTypes DEF LoopTakes
  <2>2. CASE Len(batch) >= MaxBatch
    <3>1. Flush(j, batch) /\ report' = report
      BY <1>21, <2>2 DEF LoopTakes
    <3> HIDE DEF batch
    <3>2. QED
      BY <2>1, <3>1, FlushTypes
  <2>3. CASE ~ (Len(batch) >= MaxBatch)
    BY <1>21, <2>3 DEF LoopTakes
  <2>4. QED
    BY <2>2, <2>3
<1>22. ASSUME NEW j \in Jobs, LoopTicks(j)
       PROVE  OrchestratorTypes'
  <2>1. pending[j] \in Seq(Event)
    BY DEF StreamTypes
  <2>2. Flush(j, pending[j]) /\ report' = report
    BY <1>22 DEF LoopTicks
  <2>3. QED
    BY <2>1, <2>2, FlushTypes
<1>23. ASSUME NEW j \in Jobs, LoopEnds(j)
       PROVE  OrchestratorTypes'
  <2>1. pending[j] \in Seq(Event)
    BY DEF StreamTypes
  <2>2. Flush(j, pending[j]) /\ report' = report
    BY <1>23 DEF LoopEnds
  <2>3. QED
    BY <2>1, <2>2, FlushTypes
<1>24. ASSUME NEW b \in wire, Arrive(b)
       PROVE  OrchestratorTypes'
  <2>1. b.run \in Jobs /\ b.events \in Seq(Event)
    OBVIOUS
  <2>2. received[b.run] \o b.events \in Seq(Event)
    BY <2>1
  <2>3. QED
    BY <1>24, <2>1, <2>2 DEF Arrive
<1>25. CASE Send
  BY <1>25 DEF Send
<1>26. CASE UNCHANGED vars
  BY <1>26 DEF vars
<1>27. QED
  <2> HIDE DEF OrchestratorTypes
  <2> QED
    BY <1>1, <1>2, <1>3, <1>4, <1>5, <1>6, <1>7, <1>8, <1>9, <1>10, <1>11,
        <1>12, <1>13, <1>14, <1>15, <1>16, <1>17, <1>18, <1>19, <1>20, <1>21,
        <1>22, <1>23, <1>24, <1>25, <1>26
       DEF Next, Quietly, MainStep, WatcherStep, LoopStep

\* Every variable keeps its type: the forwarder's send never meets a streamer
\* that does not exist, no channel or batch exceeds its capacity, and no batch
\* is numbered before its loop has started.
THEOREM TypeCorrect == Spec => []TypeOK
<1>1. Init => TypeOK
  <2> SUFFICES ASSUME Init
               PROVE  TypeOK
    OBVIOUS
  <2>1. MainTypes
    <3>1. 0 \in 0..NumJobs
      BY Bounds
    <3>2. QED
      BY <3>1 DEF Init, MainTypes, Statuses
  <2>2. SensorTypes
    BY Bounds DEF Init, SensorTypes, Event, Jobs, None
  <2>3. StreamTypes
    BY Bounds DEF Init, StreamTypes
  <2>4. OrchestratorTypes
    BY DEF Init, OrchestratorTypes, NoReport
  <2>5. QED
    BY <2>1, <2>2, <2>3, <2>4 DEF TypeOK
<1>2. TypeOK /\ [Next]_vars => TypeOK'
  BY MainTypesStep, SensorTypesStep, StreamTypesStep, OrchestratorTypesStep DEF TypeOK
<1>3. QED
  BY <1>1, <1>2, PTL DEF Spec

-------------------------------------------------------------------------------
(* A failure the watcher saw is reported.  The status is set before jobCtx is *)
(* cancelled, so it is final by the time anybody can act on the cancel.       *)

\* No watcher is left over from an earlier job, it has seen an exit before it
\* cancels, and from then on a container's failure is in the status.
FailInv ==
    /\ jpc = "poll" => wpc = "none"
    /\ wpc \in {"cancel", "done"} => Exited
    /\ container = "error" /\ wpc \in {"cancel", "done"} => status # "ok"

\* Every step keeps what the watcher saw.
LEMMA FailStep ==
  ASSUME MainTypes, FailInv, [Next]_vars
  PROVE  FailInv'
<1> USE DEF MainTypes, Statuses, FailInv, Exited, Goto, main, sandbox, sensor, forwarder, streamers,
            orchestrator
<1>1. CASE StartJob
  BY <1>1 DEF StartJob
<1>2. CASE Register
  BY <1>2 DEF Register
<1>3. CASE Launch
  BY <1>3 DEF Launch
<1>4. CASE AwaitDone
  BY <1>4 DEF AwaitDone
<1>5. CASE Verdict
  BY <1>5 DEF Verdict
<1>6. CASE StopContainer
  BY <1>6 DEF StopContainer
<1>7. CASE RemoveCgroup
  BY <1>7 DEF RemoveCgroup
<1>8. CASE Detach
  BY <1>8 DEF Detach
<1>9. CASE Close
  BY <1>9 DEF Close
<1>10. CASE Closed
  BY <1>10 DEF Closed
<1>11. CASE SendResult
  BY <1>11 DEF SendResult
<1>12. CASE WatcherSees
  BY <1>12 DEF WatcherSees
<1>13. CASE WatcherCancels
  BY <1>13 DEF WatcherCancels
<1>14. CASE WatcherLeaves
  BY <1>14 DEF WatcherLeaves
<1>15. CASE ForwarderReads
  BY <1>15 DEF ForwarderReads
<1>16. CASE ForwarderRoutes
  BY <1>16 DEF ForwarderRoutes
<1>17. CASE Deadline
  BY <1>17 DEF Deadline
<1>18. CASE Shutdown
  BY <1>18 DEF Shutdown
<1>19. CASE Emit
  BY <1>19 DEF Emit
<1>20. CASE ContainerExits
  BY <1>20 DEF ContainerExits
<1>21. ASSUME NEW j \in Jobs, LoopTakes(j)
       PROVE  FailInv'
  BY <1>21 DEF LoopTakes
<1>22. ASSUME NEW j \in Jobs, LoopTicks(j)
       PROVE  FailInv'
  BY <1>22 DEF LoopTicks
<1>23. ASSUME NEW j \in Jobs, LoopEnds(j)
       PROVE  FailInv'
  BY <1>23 DEF LoopEnds
<1>24. ASSUME NEW b \in wire, Arrive(b)
       PROVE  FailInv'
  BY <1>24 DEF Arrive
<1>25. CASE Send
  BY <1>25 DEF Send
<1>26. CASE UNCHANGED vars
  BY <1>26 DEF vars
<1>27. QED
  <2> HIDE DEF FailInv
  <2> QED
    BY <1>1, <1>2, <1>3, <1>4, <1>5, <1>6, <1>7, <1>8, <1>9, <1>10, <1>11,
        <1>12, <1>13, <1>14, <1>15, <1>16, <1>17, <1>18, <1>19, <1>20, <1>21,
        <1>22, <1>23, <1>24, <1>25, <1>26
       DEF Next, Quietly, MainStep, WatcherStep, LoopStep

\* A container whose nonzero exit reached the watcher goroutine is never
\* reported as "ok", whatever deadline, shutdown or stop it races with.
THEOREM FailureReported == Spec => []FailureIsReported
<1>1. Init => FailInv
  BY DEF Init, FailInv
<1>2. TypeOK /\ FailInv /\ [Next]_vars => FailInv'
  BY FailStep DEF TypeOK
<1>3. FailInv => FailureIsReported
  BY DEF FailInv, FailureIsReported
<1>4. QED
  BY <1>1, <1>2, <1>3, TypeCorrect, PTL DEF Spec

-------------------------------------------------------------------------------
(* The result is the last word on a run.                                      *)

\* A run has a report only once it is over and its loop has exited; runJob
\* reaches the report only after the loop has.
LastInv ==
    /\ jpc = "result" => loop[job] = "exited"
    /\ \A j \in Jobs :
          report[j] # NoReport =>
              loop[j] = "exited" /\ (j < job \/ (j = job /\ jpc = "poll"))

\* Every step keeps a reported run over.
LEMMA LastStep ==
  ASSUME TypeOK, LastInv, [Next]_vars
  PROVE  LastInv'
<1> USE DEF LastInv, Goto, main, sandbox, sensor, forwarder, streamers, orchestrator
<1>1. CASE StartJob
  <2>1. PICK n \in Jobs : n = job + 1 /\ job' = n /\ loop' = [loop EXCEPT ![n] = "run"]
    BY <1>1, JobNumbers DEF StartJob, TypeOK
  <2>2. jpc' = "register" /\ UNCHANGED report
    BY <1>1 DEF StartJob
  <2>3. ASSUME NEW j \in Jobs, report[j] # NoReport
        PROVE  loop'[j] = "exited" /\ j < job'
    <3>1. j < n /\ loop[j] = "exited"
      BY <2>1, <2>3 DEF Jobs, TypeOK, MainTypes
    <3>2. QED
      BY <2>1, <3>1 DEF TypeOK, StreamTypes, Jobs
  <2>4. QED
    BY <2>2, <2>3
<1>2. CASE Register
  BY <1>2 DEF Register
<1>3. CASE Launch
  BY <1>3 DEF Launch
<1>4. CASE AwaitDone
  BY <1>4 DEF AwaitDone
<1>5. CASE Verdict
  BY <1>5 DEF Verdict
<1>6. CASE StopContainer
  BY <1>6 DEF StopContainer
<1>7. CASE RemoveCgroup
  BY <1>7 DEF RemoveCgroup
<1>8. CASE Detach
  BY <1>8 DEF Detach
<1>9. CASE Close
  BY <1>9 DEF Close
<1>10. CASE Closed
  BY <1>10 DEF Closed, TypeOK, MainTypes
<1>11. CASE SendResult
  <2>1. jpc = "result" /\ job \in Jobs /\ UNCHANGED <<job, loop>> /\ jpc' = "poll"
    BY <1>11 DEF SendResult, TypeOK, MainTypes
  <2>2. \A j \in Jobs : j # job => report'[j] = report[j]
    BY <1>11, <2>1 DEF SendResult, TypeOK, OrchestratorTypes
  <2>3. ASSUME NEW j \in Jobs, report'[j] # NoReport
        PROVE  loop'[j] = "exited" /\ (j < job' \/ (j = job' /\ jpc' = "poll"))
    BY <2>1, <2>2, <2>3
  <2>4. QED
    BY <2>1, <2>3
<1>12. CASE WatcherSees
  BY <1>12 DEF WatcherSees
<1>13. CASE WatcherCancels
  BY <1>13 DEF WatcherCancels
<1>14. CASE WatcherLeaves
  BY <1>14 DEF WatcherLeaves
<1>15. CASE ForwarderReads
  BY <1>15 DEF ForwarderReads
<1>16. CASE ForwarderRoutes
  BY <1>16 DEF ForwarderRoutes
<1>17. CASE Deadline
  BY <1>17 DEF Deadline
<1>18. CASE Shutdown
  BY <1>18 DEF Shutdown
<1>19. CASE Emit
  BY <1>19 DEF Emit
<1>20. CASE ContainerExits
  BY <1>20 DEF ContainerExits
<1>21. ASSUME NEW j \in Jobs, LoopTakes(j)
       PROVE  LastInv'
  BY <1>21 DEF LoopTakes
<1>22. ASSUME NEW j \in Jobs, LoopTicks(j)
       PROVE  LastInv'
  BY <1>22 DEF LoopTicks
<1>23. ASSUME NEW j \in Jobs, LoopEnds(j)
       PROVE  LastInv'
  BY <1>23 DEF LoopEnds, TypeOK, StreamTypes
<1>24. ASSUME NEW b \in wire, Arrive(b)
       PROVE  LastInv'
  BY <1>24 DEF Arrive
<1>25. CASE Send
  BY <1>25 DEF Send
<1>26. CASE UNCHANGED vars
  BY <1>26 DEF vars
<1>27. QED
  <2> HIDE DEF LastInv
  <2> QED
    BY <1>1, <1>2, <1>3, <1>4, <1>5, <1>6, <1>7, <1>8, <1>9, <1>10, <1>11,
        <1>12, <1>13, <1>14, <1>15, <1>16, <1>17, <1>18, <1>19, <1>20, <1>21,
        <1>22, <1>23, <1>24, <1>25, <1>26
       DEF Next, Quietly, MainStep, WatcherStep, LoopStep

\* No step of any goroutine touches a run that has been reported.
LEMMA ReportedIsFrozen ==
  ASSUME TypeOK, LastInv, [Next]_vars
  PROVE  \A j \in Jobs : report[j] # NoReport => UNCHANGED <<seqno[j], report[j]>>
<1> DEFINE Frozen == \A j \in Jobs : report[j] # NoReport => UNCHANGED <<seqno[j], report[j]>>
<1> SUFFICES Frozen
  OBVIOUS
<1> USE DEF Goto, main, sandbox, sensor, forwarder, streamers, orchestrator
<1>1. CASE StartJob
  BY <1>1 DEF StartJob
<1>2. CASE Register
  BY <1>2 DEF Register
<1>3. CASE Launch
  BY <1>3 DEF Launch
<1>4. CASE AwaitDone
  BY <1>4 DEF AwaitDone
<1>5. CASE Verdict
  BY <1>5 DEF Verdict
<1>6. CASE StopContainer
  BY <1>6 DEF StopContainer
<1>7. CASE RemoveCgroup
  BY <1>7 DEF RemoveCgroup
<1>8. CASE Detach
  BY <1>8 DEF Detach
<1>9. CASE Close
  BY <1>9 DEF Close
<1>10. CASE Closed
  BY <1>10 DEF Closed
<1>11. CASE SendResult
  <2>1. jpc = "result" /\ job \in Jobs /\ seqno' = seqno
    BY <1>11 DEF SendResult, TypeOK, MainTypes
  <2>2. \A j \in Jobs : j # job => report'[j] = report[j]
    BY <1>11, <2>1 DEF SendResult, TypeOK, OrchestratorTypes
  <2>3. ASSUME NEW j \in Jobs, report[j] # NoReport
        PROVE  j # job
    BY <2>1, <2>3 DEF LastInv, Jobs, TypeOK, MainTypes
  <2>4. QED
    BY <2>1, <2>2, <2>3
<1>12. CASE WatcherSees
  BY <1>12 DEF WatcherSees
<1>13. CASE WatcherCancels
  BY <1>13 DEF WatcherCancels
<1>14. CASE WatcherLeaves
  BY <1>14 DEF WatcherLeaves
<1>15. CASE ForwarderReads
  BY <1>15 DEF ForwarderReads
<1>16. CASE ForwarderRoutes
  BY <1>16 DEF ForwarderRoutes
<1>17. CASE Deadline
  BY <1>17 DEF Deadline
<1>18. CASE Shutdown
  BY <1>18 DEF Shutdown
<1>19. CASE Emit
  BY <1>19 DEF Emit
<1>20. CASE ContainerExits
  BY <1>20 DEF ContainerExits
<1>21. ASSUME NEW j \in Jobs, LoopTakes(j)
       PROVE  Frozen
  <2> DEFINE batch == Append(pending[j], Head(inq[j]))
  <2>1. batch \in Seq(Event) /\ loop[j] # "exited" /\ report' = report
    BY <1>21, BatchTypes DEF LoopTakes, TypeOK
  <2>2. \A k \in Jobs : k # j => seqno'[k] = seqno[k]
    <3>1. CASE Len(batch) >= MaxBatch
      <4>1. Flush(j, batch)
        BY <1>21, <3>1 DEF LoopTakes
      <4> HIDE DEF batch
      <4>2. QED
        BY <2>1, <4>1, FlushTypes DEF TypeOK
    <3>2. CASE ~ (Len(batch) >= MaxBatch)
      BY <1>21, <3>2 DEF LoopTakes
    <3>3. QED
      BY <3>1, <3>2
  <2>3. QED
    BY <2>1, <2>2 DEF LastInv
<1>22. ASSUME NEW j \in Jobs, LoopTicks(j)
       PROVE  Frozen
  <2>1. pending[j] \in Seq(Event) /\ Flush(j, pending[j]) /\ report' = report
    BY <1>22 DEF LoopTicks, TypeOK, StreamTypes
  <2>2. \A k \in Jobs : k # j => seqno'[k] = seqno[k]
    BY <2>1, FlushTypes DEF TypeOK
  <2>3. loop[j] # "exited"
    BY <1>22 DEF LoopTicks
  <2>4. QED
    BY <2>1, <2>2, <2>3 DEF LastInv
<1>23. ASSUME NEW j \in Jobs, LoopEnds(j)
       PROVE  Frozen
  <2>1. pending[j] \in Seq(Event) /\ Flush(j, pending[j]) /\ report' = report
    BY <1>23 DEF LoopEnds, TypeOK, StreamTypes
  <2>2. \A k \in Jobs : k # j => seqno'[k] = seqno[k]
    BY <2>1, FlushTypes DEF TypeOK
  <2>3. loop[j] # "exited"
    BY <1>23 DEF LoopEnds
  <2>4. QED
    BY <2>1, <2>2, <2>3 DEF LastInv
<1>24. ASSUME NEW b \in wire, Arrive(b)
       PROVE  Frozen
  BY <1>24 DEF Arrive
<1>25. CASE Send
  BY <1>25 DEF Send
<1>26. CASE UNCHANGED vars
  BY <1>26 DEF vars
<1>27. QED
  <2> HIDE DEF Frozen
  <2> QED
    BY <1>1, <1>2, <1>3, <1>4, <1>5, <1>6, <1>7, <1>8, <1>9, <1>10, <1>11,
        <1>12, <1>13, <1>14, <1>15, <1>16, <1>17, <1>18, <1>19, <1>20, <1>21,
        <1>22, <1>23, <1>24, <1>25, <1>26
       DEF Next, Quietly, MainStep, WatcherStep, LoopStep

\* Close waits for the loop: once a run has its ScanResult, no batch of it is
\* sent and the result is never replaced.
THEOREM ResultLast == Spec => ResultIsLast
<1>1. Init => LastInv
  BY DEF Init, LastInv
<1>2. TypeOK /\ LastInv /\ [Next]_vars => LastInv'
  BY LastStep
<1>3. TypeOK /\ LastInv /\ [Next]_vars =>
         [\A j \in Jobs : report[j] # NoReport => UNCHANGED <<seqno[j], report[j]>>]_vars
  BY ReportedIsFrozen
<1>4. QED
  BY <1>1, <1>2, <1>3, TypeCorrect, PTL DEF Spec, ResultIsLast

-------------------------------------------------------------------------------
(* No event is accepted twice.  An event is in one place at a time on its way *)
(* from the ring to the orchestrator; the places a batch can be in (collected, *)
(* on the wire, received) are part of the argument because a POST the client  *)
(* gave up on may still arrive.                                               *)

InSeq(e, s) == \E i \in DOMAIN s : s[i] = e
Distinct(s) == \A a, b \in DOMAIN s : s[a] = s[b] => a = b

\* Event e is at place k of owner x.
At(k, x, e) ==
    \/ k = "ring" /\ x = None /\ InSeq(e, ring)
    \/ k = "forwarder" /\ x = None /\ fpc # "read" /\ fev = e
    \/ k = "queue" /\ x \in Jobs /\ InSeq(e, inq[x])
    \/ k = "batch" /\ x \in Jobs /\ InSeq(e, pending[x])
    \/ k = "wire" /\ x \in wire /\ InSeq(e, x.events)
    \/ k = "received" /\ x \in Jobs /\ InSeq(e, received[x])

\* No event is at two places.
Once == \A e \in Event : \A k, l, x, y : At(k, x, e) /\ At(l, y, e) => k = l /\ x = y

\* Every event on its way was caused before.
Known == \A e \in Event : \A k, x : At(k, x, e) => e[2] <= emitted[e[1]]

\* No place holds an event twice.
NoRepeats ==
    /\ Distinct(ring)
    /\ \A j \in Jobs : Distinct(inq[j]) /\ Distinct(pending[j]) /\ Distinct(received[j])
    /\ \A b \in wire : Distinct(b.events)

OnceInv == Once /\ Known /\ NoRepeats

\* Appending adds exactly one event.
LEMMA AppendMembers ==
  ASSUME NEW S, NEW s \in Seq(S), NEW e \in S, NEW x
  PROVE  InSeq(x, Append(s, e)) <=> InSeq(x, s) \/ x = e
<1>1. DOMAIN Append(s, e) = 1 .. Len(s) + 1 /\ DOMAIN s = 1 .. Len(s) /\ Len(s) \in Nat
  OBVIOUS
<1>2. \A i \in 1 .. Len(s) : Append(s, e)[i] = s[i]
  OBVIOUS
<1>3. Append(s, e)[Len(s) + 1] = e
  OBVIOUS
<1>4. QED
  BY <1>1, <1>2, <1>3 DEF InSeq

\* Appending a new event repeats none.
LEMMA AppendDistinct ==
  ASSUME NEW S, NEW s \in Seq(S), NEW e \in S, Distinct(s), ~ InSeq(e, s)
  PROVE  Distinct(Append(s, e))
<1>1. DOMAIN Append(s, e) = 1 .. Len(s) + 1 /\ DOMAIN s = 1 .. Len(s) /\ Len(s) \in Nat
  OBVIOUS
<1>2. \A i \in 1 .. Len(s) : Append(s, e)[i] = s[i] /\ s[i] # e
  BY <1>1 DEF InSeq
<1>3. Append(s, e)[Len(s) + 1] = e
  OBVIOUS
<1>4. QED
  BY <1>1, <1>2, <1>3 DEF Distinct

\* Taking the head of a sequence without repetitions takes that event only.
LEMMA TailMembers ==
  ASSUME NEW S, NEW s \in Seq(S), s # <<>>, Distinct(s)
  PROVE  /\ Distinct(Tail(s))
         /\ InSeq(Head(s), s) /\ ~ InSeq(Head(s), Tail(s))
         /\ \A x : InSeq(x, Tail(s)) => InSeq(x, s)
<1>1. Len(s) \in Nat \ {0} /\ DOMAIN s = 1 .. Len(s)
  OBVIOUS
<1>2. DOMAIN Tail(s) = 1 .. Len(s) - 1
  BY <1>1
<1>3. \A i \in 1 .. Len(s) - 1 : Tail(s)[i] = s[i + 1] /\ i + 1 \in DOMAIN s /\ i + 1 # 1
  BY <1>1
<1>4. Head(s) = s[1] /\ 1 \in DOMAIN s
  BY <1>1
<1>5. Distinct(Tail(s))
  BY <1>1, <1>2, <1>3 DEF Distinct
<1>6. ASSUME NEW x, InSeq(x, Tail(s))
      PROVE  InSeq(x, s) /\ x # Head(s)
  <2>1. PICK i \in 1 .. Len(s) - 1 : s[i + 1] = x
    BY <1>2, <1>3, <1>6 DEF InSeq
  <2>2. QED
    BY <1>3, <1>4, <2>1 DEF InSeq, Distinct
<1>7. QED
  BY <1>4, <1>5, <1>6 DEF InSeq

\* A concatenation has the events of both parts, and repeats none if the parts
\* do not and share none.
LEMMA ConcatMembers ==
  ASSUME NEW S, NEW s \in Seq(S), NEW t \in Seq(S)
  PROVE  /\ \A x : InSeq(x, s \o t) <=> InSeq(x, s) \/ InSeq(x, t)
         /\ Distinct(s) /\ Distinct(t) /\ (\A x \in S : ~ (InSeq(x, s) /\ InSeq(x, t)))
               => Distinct(s \o t)
<1>1. /\ Len(s) \in Nat /\ Len(t) \in Nat
      /\ DOMAIN s = 1 .. Len(s) /\ DOMAIN t = 1 .. Len(t)
      /\ DOMAIN (s \o t) = 1 .. Len(s) + Len(t)
  OBVIOUS
<1>2. \A i \in 1 .. Len(s) : (s \o t)[i] = s[i]
  OBVIOUS
<1>3. \A i \in 1 .. Len(t) : (s \o t)[Len(s) + i] = t[i]
  OBVIOUS
<1>4. \A i \in 1 .. Len(s) + Len(t) : i > Len(s) =>
         i - Len(s) \in 1 .. Len(t) /\ (s \o t)[i] = t[i - Len(s)]
  BY <1>1
<1>5. ASSUME NEW x
      PROVE  InSeq(x, s \o t) <=> InSeq(x, s) \/ InSeq(x, t)
  <2>1. ASSUME InSeq(x, s \o t)
        PROVE  InSeq(x, s) \/ InSeq(x, t)
    <3>1. PICK i \in 1 .. Len(s) + Len(t) : (s \o t)[i] = x
      BY <1>1, <2>1 DEF InSeq
    <3>2. CASE i \in 1 .. Len(s)
      BY <1>1, <1>2, <3>1, <3>2 DEF InSeq
    <3>3. CASE i > Len(s)
      BY <1>1, <1>4, <3>1, <3>3 DEF InSeq
    <3>4. QED
      BY <1>1, <3>2, <3>3
  <2>2. InSeq(x, s) => InSeq(x, s \o t)
    BY <1>1, <1>2 DEF InSeq
  <2>3. ASSUME InSeq(x, t)
        PROVE  InSeq(x, s \o t)
    <3>1. PICK i \in 1 .. Len(t) : t[i] = x
      BY <1>1, <2>3 DEF InSeq
    <3>2. Len(s) + i \in DOMAIN (s \o t)
      BY <1>1
    <3>3. QED
      BY <1>3, <3>1, <3>2 DEF InSeq
  <2>4. QED
    BY <2>1, <2>2, <2>3
<1>6. ASSUME Distinct(s), Distinct(t), \A x \in S : ~ (InSeq(x, s) /\ InSeq(x, t))
      PROVE  Distinct(s \o t)
  <2> SUFFICES ASSUME NEW a \in 1 .. Len(s) + Len(t), NEW b \in 1 .. Len(s) + Len(t),
                      (s \o t)[a] = (s \o t)[b]
               PROVE  a = b
    BY <1>1 DEF Distinct
  <2>1. \A i \in 1 .. Len(s), k \in 1 .. Len(t) : s[i] # t[k]
    <3>1. \A i \in 1 .. Len(s) : s[i] \in S
      OBVIOUS
    <3>2. QED
      BY <1>1, <1>6, <3>1 DEF InSeq
  <2>2. a \in 1 .. Len(s) \/ a > Len(s)
    BY <1>1
  <2>3. b \in 1 .. Len(s) \/ b > Len(s)
    BY <1>1
  <2>4. CASE a \in 1 .. Len(s) /\ b \in 1 .. Len(s)
    BY <1>1, <1>2, <1>6, <2>4 DEF Distinct
  <2>5. CASE a > Len(s) /\ b > Len(s)
    <3>1. a - Len(s) \in DOMAIN t /\ b - Len(s) \in DOMAIN t /\ t[a - Len(s)] = t[b - Len(s)]
      BY <1>1, <1>4, <2>5
    <3>2. a - Len(s) = b - Len(s)
      BY <1>6, <3>1 DEF Distinct
    <3>3. QED
      BY <1>1, <3>2
  <2>6. CASE a \in 1 .. Len(s) /\ b > Len(s)
    BY <1>2, <1>4, <2>1, <2>6
  <2>7. CASE a > Len(s) /\ b \in 1 .. Len(s)
    BY <1>2, <1>4, <2>1, <2>7
  <2>8. QED
    BY <2>2, <2>3, <2>4, <2>5, <2>6, <2>7
<1>7. QED
  BY <1>5, <1>6

\* The step takes the events M out of their places and puts them, if anywhere,
\* into place b of z.
Moves(M, b, z) ==
    /\ \A e \in M : \E k, x : At(k, x, e)
    /\ \A e \in Event : \A k, x :
          At(k, x, e)' => (At(k, x, e) /\ e \notin M) \/ (e \in M /\ k = b /\ x = z)

\* Such a step leaves no event at two places.
LEMMA Moved ==
  ASSUME Once, Known, emitted' = emitted, NEW M, NEW b, NEW z, Moves(M, b, z)
  PROVE  Once' /\ Known'
<1>1. Once'
  BY DEF Once, Moves
<1>2. Known'
  BY DEF Known, Moves
<1>3. QED
  BY <1>1, <1>2

\* A step that leaves the places alone, or empties the forwarder.
LEMMA NotMoved ==
  ASSUME OnceInv,
         UNCHANGED <<emitted, ring, fev, inq, pending, wire, received>>,
         fpc' # "read" => fpc # "read"
  PROVE  OnceInv'
<1>1. \A e \in Event : \A k, x : At(k, x, e)' => At(k, x, e)
  BY DEF At
<1>2. Once' /\ Known'
  BY <1>1 DEF Once, Known, OnceInv
<1>3. NoRepeats'
  BY DEF NoRepeats, OnceInv
<1>4. QED
  BY <1>2, <1>3 DEF OnceInv

\* The forwarder takes the oldest record of the ring.
LEMMA ReadOnce ==
  ASSUME TypeOK, OnceInv, ForwarderReads
  PROVE  OnceInv'
<1>0. Once /\ Known /\ NoRepeats
  BY DEF OnceInv
<1>1. ring \in Seq(Event) /\ ring # <<>> /\ Distinct(ring)
  BY <1>0 DEF TypeOK, SensorTypes, ForwarderReads, NoRepeats
<1>2. PICK h \in Event : h = Head(ring)
  BY <1>1
<1>3. /\ Distinct(Tail(ring)) /\ InSeq(h, ring) /\ ~ InSeq(h, Tail(ring))
      /\ \A x : InSeq(x, Tail(ring)) => InSeq(x, ring)
  BY <1>1, <1>2, TailMembers
<1>4. /\ ring' = Tail(ring) /\ fev' = h /\ fpc = "read" /\ fpc' = "route"
      /\ UNCHANGED <<emitted, inq, pending, wire, received>>
  BY <1>2 DEF ForwarderReads, sandbox, streamers, orchestrator
<1>5. At("ring", None, h)
  BY <1>3 DEF At
<1>6. \A e \in Event : \A k, x :
         At(k, x, e)' => (At(k, x, e) /\ e \notin {h}) \/ (e \in {h} /\ k = "forwarder" /\ x = None)
  <2> SUFFICES ASSUME NEW e \in Event, NEW k, NEW x, At(k, x, e)'
               PROVE  (At(k, x, e) /\ e # h) \/ (e = h /\ k = "forwarder" /\ x = None)
    OBVIOUS
  <2>1. CASE k = "forwarder"
    BY <1>4, <2>1 DEF At
  <2>2. CASE k = "ring"
    BY <1>3, <1>4, <2>2 DEF At
  <2>3. CASE k \notin {"forwarder", "ring"}
    <3>1. At(k, x, e)
      BY <1>4, <2>3 DEF At
    <3>2. QED
      BY <1>0, <1>5, <2>3, <3>1 DEF Once
  <2>4. QED
    BY <2>1, <2>2, <2>3
<1>7. Once' /\ Known'
  <2>1. Moves({h}, "forwarder", None)
    BY <1>5, <1>6 DEF Moves
  <2>2. QED
    BY <1>0, <1>4, <2>1, Moved
<1>8. NoRepeats'
  BY <1>0, <1>3, <1>4 DEF NoRepeats
<1>9. QED
  BY <1>7, <1>8 DEF OnceInv

\* Send puts the forwarder's event into one streamer's channel, or drops it.
LEMMA SendOnce ==
  ASSUME TypeOK, OnceInv, Send
  PROVE  OnceInv'
<1>0. Once /\ Known /\ NoRepeats
  BY DEF OnceInv
<1>1. /\ fpc = "send" /\ fpc' = "read"
      /\ UNCHANGED <<fev, emitted, ring, pending, wire, received>>
  BY DEF Send, sandbox, sensor, orchestrator
<1>2. PICK h \in Event, t \in Jobs : h = fev /\ t = fst
  BY <1>1 DEF TypeOK, SensorTypes
<1>3. At("forwarder", None, h)
  BY <1>1, <1>2 DEF At
<1>4. CASE inq' = inq
  BY <1>1, <1>4, NotMoved
<1>5. CASE inq' = [inq EXCEPT ![t] = Append(@, h)]
  <2>1. inq[t] \in Seq(Event) /\ Distinct(inq[t])
    BY <1>0 DEF TypeOK, StreamTypes, NoRepeats
  <2>2. ~ InSeq(h, inq[t])
    BY <1>0, <1>3 DEF Once, At
  <2>3. \A j \in Jobs : inq'[j] = IF j = t THEN Append(inq[t], h) ELSE inq[j]
    BY <1>5 DEF TypeOK, StreamTypes
  <2>4. \A j \in Jobs, e \in Event : InSeq(e, inq'[j]) <=> InSeq(e, inq[j]) \/ (j = t /\ e = h)
    BY <2>1, <2>3, AppendMembers
  <2>5. \A e \in Event : \A k, x :
           At(k, x, e)' => (At(k, x, e) /\ e \notin {h}) \/ (e \in {h} /\ k = "queue" /\ x = t)
    <3> SUFFICES ASSUME NEW e \in Event, NEW k, NEW x, At(k, x, e)'
                 PROVE  (At(k, x, e) /\ e # h) \/ (e = h /\ k = "queue" /\ x = t)
      OBVIOUS
    <3>1. k # "forwarder" /\ (At(k, x, e) \/ (k = "queue" /\ x = t /\ e = h))
      BY <1>1, <2>4 DEF At
    <3>2. QED
      BY <1>0, <1>3, <3>1 DEF Once
  <2>6. Once' /\ Known'
    <3>1. Moves({h}, "queue", t)
      BY <1>3, <2>5 DEF Moves
    <3>2. QED
      BY <1>0, <1>1, <3>1, Moved
  <2>7. NoRepeats'
    <3>1. \A j \in Jobs : Distinct(inq'[j])
      BY <1>0, <2>1, <2>2, <2>3, AppendDistinct DEF NoRepeats
    <3>2. QED
      BY <1>0, <1>1, <3>1 DEF NoRepeats
  <2>8. QED
    BY <2>6, <2>7 DEF OnceInv
<1>6. QED
  BY <1>2, <1>4, <1>5 DEF Send

\* The sensor's new record has a number no record had before.
LEMMA EmitOnce ==
  ASSUME TypeOK, OnceInv, Emit
  PROVE  OnceInv'
<1>0. Once /\ Known /\ NoRepeats
  BY DEF OnceInv
<1>1. /\ job \in Jobs /\ emitted[job] \in Nat
      /\ emitted' = [emitted EXCEPT ![job] = emitted[job] + 1]
      /\ UNCHANGED <<fpc, fev, inq, pending, wire, received>>
  BY DEF Emit, TypeOK, MainTypes, SensorTypes, forwarder, streamers, orchestrator
<1>2. PICK h \in Event : h = <<job, emitted[job] + 1>>
  <2>1. <<job, emitted[job] + 1>> \in Event
    BY <1>1 DEF Event
  <2>2. QED
    BY <2>1
<1>3. \A k, x : ~ At(k, x, h)
  <2>1. h[1] = job /\ h[2] = emitted[job] + 1
    BY <1>2
  <2>2. QED
    BY <1>0, <1>1, <2>1 DEF Known
<1>4. /\ \A e \in Event : e[2] <= emitted[e[1]] => e[2] <= emitted'[e[1]]
      /\ h[2] <= emitted'[h[1]]
  BY <1>1, <1>2 DEF TypeOK, SensorTypes, Event
<1>5. ring \in Seq(Event) /\ Distinct(ring) /\ ~ InSeq(h, ring)
  BY <1>0, <1>3 DEF TypeOK, SensorTypes, NoRepeats, At
<1>6. CASE ring' = ring
  <2>1. \A e \in Event : \A k, x : At(k, x, e)' => At(k, x, e)
    BY <1>1, <1>6 DEF At
  <2>2. Once'
    BY <1>0, <2>1 DEF Once
  <2>3. Known'
    BY <1>0, <1>4, <2>1 DEF Known
  <2>4. NoRepeats'
    BY <1>0, <1>1, <1>6 DEF NoRepeats
  <2>5. QED
    BY <2>2, <2>3, <2>4 DEF OnceInv
<1>7. CASE ring' = Append(ring, h)
  <2>1. \A e : InSeq(e, ring') <=> InSeq(e, ring) \/ e = h
    BY <1>5, <1>7, AppendMembers
  <2>2. \A e \in Event : \A k, x :
           At(k, x, e)' => (At(k, x, e) /\ e # h) \/ (k = "ring" /\ x = None /\ e = h)
    <3> SUFFICES ASSUME NEW e \in Event, NEW k, NEW x, At(k, x, e)'
                 PROVE  At(k, x, e) \/ (k = "ring" /\ x = None /\ e = h)
      BY <1>3
    <3>1. QED
      BY <1>1, <2>1 DEF At
  <2>3. Once'
    BY <1>0, <2>2 DEF Once
  <2>4. Known'
    BY <1>0, <1>4, <2>2 DEF Known
  <2>5. Distinct(ring')
    BY <1>5, <1>7, AppendDistinct
  <2>6. NoRepeats'
    BY <1>0, <1>1, <2>5 DEF NoRepeats
  <2>7. QED
    BY <2>3, <2>4, <2>6 DEF OnceInv
<1>8. QED
  BY <1>2, <1>6, <1>7 DEF Emit

\* A POST given up on arrives: its batch leaves the wire and is accepted.
LEMMA ArriveOnce ==
  ASSUME TypeOK, OnceInv, NEW b \in wire, Arrive(b)
  PROVE  OnceInv'
<1>0. Once /\ Known /\ NoRepeats
  BY DEF OnceInv
<1>1. b.run \in Jobs /\ b.events \in Seq(Event) /\ Distinct(b.events)
  BY <1>0 DEF TypeOK, OrchestratorTypes, NoRepeats
<1>2. PICK t \in Jobs, s \in Seq(Event) : t = b.run /\ s = b.events
  BY <1>1
<1>3. /\ wire' = wire \ {b} /\ received' = [received EXCEPT ![t] = @ \o s]
      /\ UNCHANGED <<emitted, ring, fpc, fev, inq, pending>>
  BY <1>2 DEF Arrive, sandbox, sensor, forwarder, streamers
<1>4. received[t] \in Seq(Event) /\ Distinct(received[t])
      /\ \A j \in Jobs : received'[j] = IF j = t THEN received[t] \o s ELSE received[j]
  BY <1>0, <1>3 DEF TypeOK, OrchestratorTypes, NoRepeats
<1>5. \A e \in Event, j \in Jobs :
         InSeq(e, received'[j]) <=> InSeq(e, received[j]) \/ (j = t /\ InSeq(e, s))
  BY <1>4, ConcatMembers
<1>6. \A e \in Event : InSeq(e, s) => At("wire", b, e)
  BY <1>2 DEF At
<1>7. PICK M \in SUBSET Event : \A e \in Event : e \in M <=> InSeq(e, s)
  <2>1. {e \in Event : InSeq(e, s)} \in SUBSET Event
    OBVIOUS
  <2>2. QED
    BY <2>1
<1>8. \A e \in Event : \A k, x :
         At(k, x, e)' => (At(k, x, e) /\ e \notin M) \/ (e \in M /\ k = "received" /\ x = t)
  <2> SUFFICES ASSUME NEW e \in Event, NEW k, NEW x, At(k, x, e)'
               PROVE  (At(k, x, e) /\ ~ InSeq(e, s)) \/ (InSeq(e, s) /\ k = "received" /\ x = t)
    BY <1>7
  <2>1. \/ At(k, x, e) /\ ~ (k = "wire" /\ x = b)
        \/ InSeq(e, s) /\ k = "received" /\ x = t
    BY <1>3, <1>5 DEF At
  <2>2. QED
    BY <1>0, <1>6, <2>1 DEF Once
<1>9. Once' /\ Known'
  <2>1. Moves(M, "received", t)
    BY <1>6, <1>7, <1>8 DEF Moves
  <2>2. QED
    BY <1>0, <1>3, <2>1, Moved
<1>10. Distinct(received[t] \o s)
  <2>1. \A e \in Event : ~ (InSeq(e, received[t]) /\ InSeq(e, s))
    BY <1>0, <1>6 DEF Once, At
  <2>2. QED
    BY <1>1, <1>2, <1>4, <2>1, ConcatMembers
<1>11. NoRepeats'
  BY <1>0, <1>3, <1>4, <1>10 DEF NoRepeats
<1>12. QED
  BY <1>9, <1>11 DEF OnceInv

\* What a flush does to a batch: it is emptied, and accepted, lost, or left on
\* the wire.
LEMMA FlushOutcome ==
  ASSUME NEW j \in Jobs, NEW batch, Flush(j, batch)
  PROVE  /\ pending' = [pending EXCEPT ![j] = <<>>]
         /\ \/ UNCHANGED <<received, sent, wire>>
            \/ /\ received' = [received EXCEPT ![j] = @ \o batch]
               /\ sent' = [sent EXCEPT ![j] = @ + Len(batch)]
               /\ wire' = wire
            \/ \E r : /\ r.run = j /\ r.events = batch /\ wire' = wire \cup {r}
                      /\ UNCHANGED <<received, sent>>
<1>1. CASE batch = <<>>
  BY <1>1 DEF Flush
<1>2. CASE batch # <<>>
  <2>1. Post(j, batch) /\ pending' = [pending EXCEPT ![j] = <<>>]
    BY <1>2 DEF Flush
  <2>2. \A n : LET r == [run |-> j, seq |-> n, events |-> batch]
               IN  r.run = j /\ r.events = batch
    OBVIOUS
  <2>3. QED
    BY <2>1, <2>2 DEF Post
<1>3. QED
  BY <1>1, <1>2

\* A loop flushes what it collected, possibly with the event it just took from
\* its channel: those events leave the batch and the channel for one place.
LEMMA FlushOnce ==
  ASSUME TypeOK, OnceInv, NEW j \in Jobs, NEW batch \in Seq(Event), Distinct(batch),
         Flush(j, batch), UNCHANGED <<emitted, ring, fpc, fev>>,
         \A e \in Event : InSeq(e, batch) => At("queue", j, e) \/ At("batch", j, e),
         \A k \in Jobs : Distinct(inq'[k]),
         \A k \in Jobs, e \in Event :
            InSeq(e, inq'[k]) => InSeq(e, inq[k]) /\ ~ (k = j /\ InSeq(e, batch)),
         \A e \in Event : InSeq(e, pending[j]) => InSeq(e, batch)
  PROVE  OnceInv'
<1>0. Once /\ Known /\ NoRepeats
  BY DEF OnceInv
<1>1. PICK M \in SUBSET Event : \A e \in Event : e \in M <=> InSeq(e, batch)
  <2>1. {e \in Event : InSeq(e, batch)} \in SUBSET Event
    OBVIOUS
  <2>2. QED
    BY <2>1
<1>2. \A k \in Jobs : pending'[k] = IF k = j THEN <<>> ELSE pending[k]
  BY FlushOutcome DEF TypeOK, StreamTypes
<1>3. \A k \in Jobs, e \in Event : InSeq(e, pending'[k]) => k # j /\ InSeq(e, pending[k])
  BY <1>2 DEF InSeq
<1>4. \A k \in Jobs : Distinct(pending'[k])
  BY <1>0, <1>2 DEF NoRepeats, Distinct
<1>5. \A e \in M : \E k, x : At(k, x, e)
  BY <1>1
<1>6. ASSUME NEW e \in Event, NEW k, NEW x, At(k, x, e), k \notin {"queue", "batch"}
      PROVE  e \notin M
  BY <1>0, <1>1, <1>6 DEF Once
<1>7. ASSUME NEW e \in Event, NEW k \in Jobs, e \in M
      PROVE  ~ InSeq(e, inq'[k]) /\ ~ InSeq(e, pending'[k])
  <2>1. At("queue", j, e) \/ At("batch", j, e)
    BY <1>1, <1>7
  <2>2. ~ InSeq(e, inq'[k])
    <3>1. CASE k = j
      BY <1>1, <1>7, <3>1
    <3>2. CASE k # j
      <4>1. InSeq(e, inq'[k]) => At("queue", k, e)
        BY DEF At
      <4>2. QED
        BY <1>0, <2>1, <3>2, <4>1 DEF Once
    <3>3. QED
      BY <3>1, <3>2
  <2>3. ~ InSeq(e, pending'[k])
    <3>1. InSeq(e, pending'[k]) => At("batch", k, e) /\ k # j
      BY <1>3 DEF At
    <3>2. QED
      BY <1>0, <2>1, <3>1 DEF Once
  <2>4. QED
    BY <2>2, <2>3
<1>8. ASSUME NEW e \in Event, NEW k, NEW x, At(k, x, e)', k \in {"ring", "forwarder", "queue", "batch"}
      PROVE  At(k, x, e) /\ e \notin M
  <2>1. At(k, x, e)
    BY <1>3, <1>8 DEF At
  <2>2. CASE k \in {"ring", "forwarder"}
    <3>1. k \notin {"queue", "batch"}
      BY <2>2
    <3>2. QED
      BY <1>6, <2>1, <3>1
  <2>3. CASE k \in {"queue", "batch"}
    <3>1. x \in Jobs /\ (InSeq(e, inq'[x]) \/ InSeq(e, pending'[x]))
      BY <1>8, <2>3 DEF At
    <3>2. QED
      BY <1>7, <2>1, <3>1
  <2>4. QED
    BY <1>8, <2>1, <2>2, <2>3
<1>9. CASE UNCHANGED <<received, sent, wire>>
  <2>1. Moves(M, "received", j)
    <3>1. ASSUME NEW e \in Event, NEW k, NEW x, At(k, x, e)', k \notin {"ring", "forwarder", "queue", "batch"}
          PROVE  At(k, x, e) /\ e \notin M
      <4>1. At(k, x, e)
        BY <1>9, <3>1 DEF At
      <4>2. QED
        BY <1>6, <3>1, <4>1
    <3>2. QED
      BY <1>5, <1>8, <3>1 DEF Moves
  <2>2. Once' /\ Known'
    BY <1>0, <2>1, Moved
  <2>3. NoRepeats'
    BY <1>0, <1>4, <1>9 DEF NoRepeats
  <2>4. QED
    BY <2>2, <2>3 DEF OnceInv
<1>10. CASE received' = [received EXCEPT ![j] = @ \o batch] /\ wire' = wire
  <2>1. /\ received[j] \in Seq(Event) /\ Distinct(received[j])
        /\ \A k \in Jobs : received'[k] = IF k = j THEN received[j] \o batch ELSE received[k]
    BY <1>0, <1>10 DEF TypeOK, OrchestratorTypes, NoRepeats
  <2>2. \A k \in Jobs, e \in Event :
           InSeq(e, received'[k]) <=> InSeq(e, received[k]) \/ (k = j /\ InSeq(e, batch))
    BY <2>1, ConcatMembers
  <2>3. Moves(M, "received", j)
    <3>1. ASSUME NEW e \in Event, NEW k, NEW x, At(k, x, e)', k \notin {"ring", "forwarder", "queue", "batch"}
          PROVE  (At(k, x, e) /\ e \notin M) \/ (e \in M /\ k = "received" /\ x = j)
      <4>1. At(k, x, e) \/ (k = "received" /\ x = j /\ InSeq(e, batch))
        BY <1>10, <2>2, <3>1 DEF At
      <4>2. QED
        BY <1>1, <1>6, <3>1, <4>1
    <3>2. QED
      BY <1>5, <1>8, <3>1 DEF Moves
  <2>4. Once' /\ Known'
    BY <1>0, <2>3, Moved
  <2>5. Distinct(received[j] \o batch)
    <3>1. \A e \in Event : ~ (InSeq(e, received[j]) /\ InSeq(e, batch))
      <4>1. \A e \in Event : InSeq(e, received[j]) => At("received", j, e)
        BY DEF At
      <4>2. QED
        BY <1>1, <1>6, <4>1
    <3>2. QED
      BY <2>1, <3>1, ConcatMembers
  <2>6. NoRepeats'
    BY <1>0, <1>4, <1>10, <2>1, <2>5 DEF NoRepeats
  <2>7. QED
    BY <2>4, <2>6 DEF OnceInv
<1>11. ASSUME NEW r, r.events = batch, wire' = wire \cup {r}, received' = received
       PROVE  OnceInv'
  <2>1. Moves(M, "wire", r)
    <3>1. ASSUME NEW e \in Event, NEW k, NEW x, At(k, x, e)', k \notin {"ring", "forwarder", "queue", "batch"}
          PROVE  (At(k, x, e) /\ e \notin M) \/ (e \in M /\ k = "wire" /\ x = r)
      <4>1. At(k, x, e) \/ (k = "wire" /\ x = r /\ InSeq(e, batch))
        BY <1>11, <3>1 DEF At
      <4>2. QED
        BY <1>1, <1>6, <3>1, <4>1
    <3>2. QED
      BY <1>5, <1>8, <3>1 DEF Moves
  <2>2. Once' /\ Known'
    BY <1>0, <2>1, Moved
  <2>3. NoRepeats'
    BY <1>0, <1>4, <1>11 DEF NoRepeats
  <2>4. QED
    BY <2>2, <2>3 DEF OnceInv
<1>12. QED
  BY <1>9, <1>10, <1>11, FlushOutcome

\* A tick, or the end of the loop, flushes the batch as it is.
LEMMA FlushPendingOnce ==
  ASSUME TypeOK, OnceInv, NEW j \in Jobs, Flush(j, pending[j]),
         UNCHANGED <<emitted, ring, fpc, fev, inq>>
  PROVE  OnceInv'
<1>1. PICK batch \in Seq(Event) : batch = pending[j]
  BY DEF TypeOK, StreamTypes
<1>2. Distinct(batch) /\ \A k \in Jobs : Distinct(inq'[k])
  BY <1>1 DEF OnceInv, NoRepeats
<1>3. \A e \in Event : InSeq(e, batch) => At("batch", j, e)
  BY <1>1 DEF At
<1>4. \A k \in Jobs, e \in Event :
         InSeq(e, inq'[k]) => InSeq(e, inq[k]) /\ ~ (k = j /\ InSeq(e, batch))
  <2>1. \A k \in Jobs, e \in Event : InSeq(e, inq[k]) => At("queue", k, e)
    BY DEF At
  <2>2. QED
    BY <1>3, <2>1 DEF OnceInv, Once
<1>5. Flush(j, batch)
  BY <1>1
<1>6. \A e \in Event : InSeq(e, pending[j]) => InSeq(e, batch)
  BY <1>1
<1>7. QED
  BY <1>2, <1>3, <1>4, <1>5, <1>6, FlushOnce

\* The loop takes an event from its channel into its batch and may flush it.
LEMMA TakeOnce ==
  ASSUME TypeOK, OnceInv, NEW j \in Jobs, LoopTakes(j)
  PROVE  OnceInv'
<1>0. Once /\ Known /\ NoRepeats
  BY DEF OnceInv
<1>1. /\ inq[j] \in Seq(Event) /\ inq[j] # <<>> /\ Distinct(inq[j])
      /\ pending[j] \in Seq(Event) /\ Distinct(pending[j])
  BY <1>0 DEF LoopTakes, TypeOK, StreamTypes, NoRepeats
<1>2. PICK h \in Event : h = Head(inq[j])
  BY <1>1
<1>3. /\ Distinct(Tail(inq[j])) /\ InSeq(h, inq[j]) /\ ~ InSeq(h, Tail(inq[j]))
      /\ \A x : InSeq(x, Tail(inq[j])) => InSeq(x, inq[j])
  BY <1>1, <1>2, TailMembers
<1>4. At("queue", j, h)
  BY <1>3 DEF At
<1>5. ~ InSeq(h, pending[j])
  <2>1. InSeq(h, pending[j]) => At("batch", j, h)
    BY DEF At
  <2>2. QED
    BY <1>0, <1>4, <2>1 DEF Once
<1>6. PICK batch \in Seq(Event) : batch = Append(pending[j], h)
  <2>1. Append(pending[j], h) \in Seq(Event)
    BY <1>1
  <2>2. QED
    BY <2>1
<1>7. Distinct(batch) /\ \A e : InSeq(e, batch) <=> InSeq(e, pending[j]) \/ e = h
  BY <1>1, <1>5, <1>6, AppendMembers, AppendDistinct
<1>8. /\ \A k \in Jobs : inq'[k] = IF k = j THEN Tail(inq[j]) ELSE inq[k]
      /\ UNCHANGED <<emitted, ring, fpc, fev>>
  BY DEF LoopTakes, TypeOK, StreamTypes, sandbox, sensor, forwarder
<1>9. \A k \in Jobs : Distinct(inq'[k])
  BY <1>0, <1>3, <1>8 DEF NoRepeats
<1>10. \A k \in Jobs, e \in Event :
          InSeq(e, inq'[k]) => InSeq(e, inq[k]) /\ ~ (k = j /\ InSeq(e, batch))
  <2>1. \A k \in Jobs, e \in Event : InSeq(e, inq[k]) => At("queue", k, e)
    BY DEF At
  <2>2. \A e \in Event : InSeq(e, pending[j]) => At("batch", j, e)
    BY DEF At
  <2>3. \A k \in Jobs, e \in Event : InSeq(e, inq'[k]) => InSeq(e, inq[k]) /\ ~ (k = j /\ e = h)
    BY <1>3, <1>8
  <2>4. QED
    BY <1>0, <1>7, <2>1, <2>2, <2>3 DEF Once
<1>11. CASE Len(batch) >= MaxBatch
  <2>1. Flush(j, batch)
    BY <1>2, <1>6, <1>11 DEF LoopTakes
  <2>2. \A e \in Event : InSeq(e, batch) => At("queue", j, e) \/ At("batch", j, e)
    BY <1>4, <1>7 DEF At
  <2>3. \A e \in Event : InSeq(e, pending[j]) => InSeq(e, batch)
    BY <1>7
  <2>4. QED
    BY <1>7, <1>8, <1>9, <1>10, <2>1, <2>2, <2>3, FlushOnce
<1>12. CASE ~ (Len(batch) >= MaxBatch)
  <2>1. /\ \A k \in Jobs : pending'[k] = IF k = j THEN batch ELSE pending[k]
        /\ UNCHANGED <<wire, received>>
    BY <1>2, <1>6, <1>12 DEF LoopTakes, TypeOK, StreamTypes
  <2>2. Moves({h}, "batch", j)
    <3>1. ASSUME NEW e \in Event, NEW k, NEW x, At(k, x, e)'
          PROVE  (At(k, x, e) /\ e # h) \/ (e = h /\ k = "batch" /\ x = j)
      <4>1. CASE k = "queue"
        <5>1. x \in Jobs /\ InSeq(e, inq'[x])
          BY <3>1, <4>1 DEF At
        <5>2. InSeq(e, inq[x]) /\ ~ (x = j /\ e = h)
          BY <1>7, <1>10, <5>1
        <5>3. At(k, x, e)
          BY <4>1, <5>1, <5>2 DEF At
        <5>4. QED
          BY <1>0, <1>4, <4>1, <5>2, <5>3 DEF Once
      <4>2. CASE k # "queue"
        <5>1. At(k, x, e) \/ (k = "batch" /\ x = j /\ e = h)
          BY <1>7, <1>8, <2>1, <3>1, <4>2 DEF At
        <5>2. QED
          BY <1>0, <1>4, <4>2, <5>1 DEF Once
      <4>3. QED
        BY <4>1, <4>2
    <3>2. QED
      BY <1>4, <3>1 DEF Moves
  <2>3. Once' /\ Known'
    BY <1>0, <1>8, <2>2, Moved
  <2>4. NoRepeats'
    BY <1>0, <1>7, <1>8, <1>9, <2>1 DEF NoRepeats
  <2>5. QED
    BY <2>3, <2>4 DEF OnceInv
<1>13. QED
  BY <1>11, <1>12

\* Every step of every goroutine leaves each event at one place.
LEMMA OnceStep ==
  ASSUME TypeOK, OnceInv, [Next]_vars
  PROVE  OnceInv'
<1> USE DEF main, sandbox, sensor, forwarder, streamers, orchestrator
<1>1. CASE StartJob
  BY <1>1, NotMoved DEF StartJob
<1>2. CASE Register
  BY <1>2, NotMoved DEF Register
<1>3. CASE Launch
  BY <1>3, NotMoved DEF Launch
<1>4. CASE AwaitDone
  BY <1>4, NotMoved DEF AwaitDone
<1>5. CASE Verdict
  BY <1>5, NotMoved DEF Verdict
<1>6. CASE StopContainer
  BY <1>6, NotMoved DEF StopContainer
<1>7. CASE RemoveCgroup
  BY <1>7, NotMoved DEF RemoveCgroup
<1>8. CASE Detach
  BY <1>8, NotMoved DEF Detach
<1>9. CASE Close
  BY <1>9, NotMoved DEF Close
<1>10. CASE Closed
  BY <1>10, NotMoved DEF Closed
<1>11. CASE SendResult
  BY <1>11, NotMoved DEF SendResult
<1>12. CASE WatcherSees
  BY <1>12, NotMoved DEF WatcherSees
<1>13. CASE WatcherCancels
  BY <1>13, NotMoved DEF WatcherCancels
<1>14. CASE WatcherLeaves
  BY <1>14, NotMoved DEF WatcherLeaves
<1>15. CASE ForwarderReads
  BY <1>15, ReadOnce
<1>16. CASE ForwarderRoutes
  BY <1>16, NotMoved DEF ForwarderRoutes
<1>17. CASE Deadline
  BY <1>17, NotMoved DEF Deadline
<1>18. CASE Shutdown
  BY <1>18, NotMoved DEF Shutdown
<1>19. CASE Emit
  BY <1>19, EmitOnce
<1>20. CASE ContainerExits
  BY <1>20, NotMoved DEF ContainerExits
<1>21. ASSUME NEW j \in Jobs, LoopTakes(j)
       PROVE  OnceInv'
  BY <1>21, TakeOnce
<1>22. ASSUME NEW j \in Jobs, LoopTicks(j)
       PROVE  OnceInv'
  BY <1>22, FlushPendingOnce DEF LoopTicks
<1>23. ASSUME NEW j \in Jobs, LoopEnds(j)
       PROVE  OnceInv'
  BY <1>23, FlushPendingOnce DEF LoopEnds
<1>24. ASSUME NEW b \in wire, Arrive(b)
       PROVE  OnceInv'
  BY <1>24, ArriveOnce
<1>25. CASE Send
  BY <1>25, SendOnce
<1>26. CASE UNCHANGED vars
  BY <1>26, NotMoved DEF vars
<1>27. QED
  <2> HIDE DEF OnceInv
  <2> QED
    BY <1>1, <1>2, <1>3, <1>4, <1>5, <1>6, <1>7, <1>8, <1>9, <1>10, <1>11,
        <1>12, <1>13, <1>14, <1>15, <1>16, <1>17, <1>18, <1>19, <1>20, <1>21,
        <1>22, <1>23, <1>24, <1>25, <1>26
       DEF Next, Quietly, MainStep, WatcherStep, LoopStep

\* From the start no event is at two places.
LEMMA OnceAlways == Spec => []OnceInv
<1>1. Init => OnceInv
  <2> SUFFICES ASSUME Init
               PROVE  OnceInv
    OBVIOUS
  <2>1. \A e : ~ InSeq(e, <<>>)
    BY DEF InSeq
  <2>2. \A e, k, x : ~ At(k, x, e)
    BY <2>1 DEF Init, At
  <2>3. Once /\ Known
    BY <2>2 DEF Once, Known
  <2>4. NoRepeats
    BY DEF Init, NoRepeats, Distinct
  <2>5. QED
    BY <2>3, <2>4 DEF OnceInv
<1>2. TypeOK /\ OnceInv /\ [Next]_vars => OnceInv'
  BY OnceStep
<1>3. QED
  BY <1>1, <1>2, TypeCorrect, PTL DEF Spec

-------------------------------------------------------------------------------
(* The counts of a report are honest.  What a streamer accepted bounds the   *)
(* number of different events it holds in any form; since none is accepted   *)
(* twice, the accepted ones are at most as many.                             *)

\* The events a streamer holds, has on the wire or has delivered.
Held(j) ==
    {e \in Event : \/ InSeq(e, inq[j]) \/ InSeq(e, pending[j]) \/ InSeq(e, received[j])
                   \/ \E b \in wire : b.run = j /\ InSeq(e, b.events)}

HeldInv == \A j \in Jobs : IsFiniteSet(Held(j)) /\ Cardinality(Held(j)) <= queued[j]

\* A set of events that only shrinks stays within its bound.
LEMMA Shrinks ==
  ASSUME NEW S, NEW U, NEW n \in Nat, IsFiniteSet(S), Cardinality(S) <= n, U \subseteq S
  PROVE  IsFiniteSet(U) /\ Cardinality(U) <= n
<1>1. IsFiniteSet(U) /\ Cardinality(U) <= Cardinality(S)
  BY FS_Subset
<1>2. Cardinality(S) \in Nat /\ Cardinality(U) \in Nat
  BY <1>1, FS_CardinalityType
<1>3. QED
  BY <1>1, <1>2

\* A set of events that gains at most one stays within the next bound.
LEMMA Grows ==
  ASSUME NEW S, NEW U, NEW x, NEW n \in Nat, IsFiniteSet(S), Cardinality(S) <= n,
         U \subseteq S \cup {x}
  PROVE  IsFiniteSet(U) /\ Cardinality(U) <= n + 1
<1>1. IsFiniteSet(S \cup {x}) /\ Cardinality(S \cup {x}) <= n + 1
  <2>1. Cardinality(S) \in Nat
    BY FS_CardinalityType
  <2>2. QED
    BY <2>1, FS_AddElement
<1>2. QED
  BY <1>1, Shrinks

\* A step after which no streamer holds anything new keeps the bound.
LEMMA NothingNew ==
  ASSUME TypeOK, HeldInv, queued' = queued, \A j \in Jobs : Held(j)' \subseteq Held(j)
  PROVE  HeldInv'
<1> SUFFICES ASSUME NEW j \in Jobs
             PROVE  IsFiniteSet(Held(j)') /\ Cardinality(Held(j)') <= queued'[j]
  BY DEF HeldInv
<1>1. queued[j] \in Nat /\ IsFiniteSet(Held(j)) /\ Cardinality(Held(j)) <= queued[j]
  BY DEF TypeOK, StreamTypes, HeldInv
<1>2. QED
  BY <1>1, Shrinks

\* A flush only moves or loses what the streamer held.
LEMMA FlushHeld ==
  ASSUME TypeOK, HeldInv, NEW j \in Jobs, NEW batch \in Seq(Event), Flush(j, batch),
         queued' = queued,
         \A e \in Event : InSeq(e, batch) => e \in Held(j),
         \A k \in Jobs, e \in Event : InSeq(e, inq'[k]) => InSeq(e, inq[k])
  PROVE  HeldInv'
<1> SUFFICES ASSUME NEW k \in Jobs, NEW e \in Event, e \in Held(k)'
             PROVE  e \in Held(k)
  BY NothingNew DEF Held
<1>1. pending'[k] = IF k = j THEN <<>> ELSE pending[k]
  BY FlushOutcome DEF TypeOK, StreamTypes
<1>2. InSeq(e, pending'[k]) => InSeq(e, pending[k])
  BY <1>1 DEF InSeq
<1>3. CASE UNCHANGED <<received, sent, wire>>
  BY <1>2, <1>3 DEF Held
<1>4. CASE received' = [received EXCEPT ![j] = @ \o batch] /\ wire' = wire
  <2>1. received[j] \in Seq(Event)
        /\ received'[k] = IF k = j THEN received[j] \o batch ELSE received[k]
    BY <1>4 DEF TypeOK, OrchestratorTypes
  <2>2. InSeq(e, received'[k]) => InSeq(e, received[k]) \/ (k = j /\ InSeq(e, batch))
    BY <2>1, ConcatMembers
  <2>3. QED
    BY <1>2, <1>4, <2>2 DEF Held
<1>5. ASSUME NEW r, r.run = j, r.events = batch, wire' = wire \cup {r}, received' = received
      PROVE  e \in Held(k)
  <2>1. ASSUME NEW b \in wire', b.run = k, InSeq(e, b.events)
        PROVE  e \in Held(k)
    BY <1>5, <2>1 DEF Held
  <2>2. QED
    BY <1>2, <1>5, <2>1 DEF Held
<1>6. QED
  BY <1>3, <1>4, <1>5, FlushOutcome

\* Only Send adds to what a streamer holds, one event for one it counts.
LEMMA HeldStep ==
  ASSUME TypeOK, OnceInv, HeldInv, [Next]_vars
  PROVE  HeldInv'
<1> USE DEF main, sandbox, sensor, forwarder, streamers, orchestrator
<1>1. CASE StartJob
  BY <1>1, NothingNew DEF StartJob, Held
<1>2. CASE Register
  BY <1>2, NothingNew DEF Register, Held
<1>3. CASE Launch
  BY <1>3, NothingNew DEF Launch, Held
<1>4. CASE AwaitDone
  BY <1>4, NothingNew DEF AwaitDone, Held
<1>5. CASE Verdict
  BY <1>5, NothingNew DEF Verdict, Held
<1>6. CASE StopContainer
  BY <1>6, NothingNew DEF StopContainer, Held
<1>7. CASE RemoveCgroup
  BY <1>7, NothingNew DEF RemoveCgroup, Held
<1>8. CASE Detach
  BY <1>8, NothingNew DEF Detach, Held
<1>9. CASE Close
  BY <1>9, NothingNew DEF Close, Held
<1>10. CASE Closed
  BY <1>10, NothingNew DEF Closed, Held
<1>11. CASE SendResult
  BY <1>11, NothingNew DEF SendResult, Held
<1>12. CASE WatcherSees
  BY <1>12, NothingNew DEF WatcherSees, Held
<1>13. CASE WatcherCancels
  BY <1>13, NothingNew DEF WatcherCancels, Held
<1>14. CASE WatcherLeaves
  BY <1>14, NothingNew DEF WatcherLeaves, Held
<1>15. CASE ForwarderReads
  BY <1>15, NothingNew DEF ForwarderReads, Held
<1>16. CASE ForwarderRoutes
  BY <1>16, NothingNew DEF ForwarderRoutes, Held
<1>17. CASE Deadline
  BY <1>17, NothingNew DEF Deadline, Held
<1>18. CASE Shutdown
  BY <1>18, NothingNew DEF Shutdown, Held
<1>19. CASE Emit
  BY <1>19, NothingNew DEF Emit, Held
<1>20. CASE ContainerExits
  BY <1>20, NothingNew DEF ContainerExits, Held
<1>21. ASSUME NEW j \in Jobs, LoopTakes(j)
       PROVE  HeldInv'
  <2>1. inq[j] \in Seq(Event) /\ inq[j] # <<>> /\ pending[j] \in Seq(Event) /\ Distinct(inq[j])
    BY <1>21 DEF LoopTakes, TypeOK, StreamTypes, OnceInv, NoRepeats
  <2>2. PICK h \in Event : h = Head(inq[j])
    BY <2>1
  <2>3. PICK batch \in Seq(Event) : batch = Append(pending[j], h)
    <3>1. Append(pending[j], h) \in Seq(Event)
      BY <2>1
    <3>2. QED
      BY <3>1
  <2>4. /\ \A k \in Jobs : inq'[k] = IF k = j THEN Tail(inq[j]) ELSE inq[k]
        /\ queued' = queued
    BY <1>21 DEF LoopTakes, TypeOK, StreamTypes
  <2>5. InSeq(h, inq[j]) /\ \A k \in Jobs, e \in Event : InSeq(e, inq'[k]) => InSeq(e, inq[k])
    BY <2>1, <2>2, <2>4, TailMembers
  <2>6. \A e \in Event : InSeq(e, batch) => InSeq(e, inq[j]) \/ InSeq(e, pending[j])
    BY <2>1, <2>3, <2>5, AppendMembers
  <2>7. CASE Len(batch) >= MaxBatch
    <3>1. Flush(j, batch)
      BY <1>21, <2>2, <2>3, <2>7 DEF LoopTakes
    <3>2. \A e \in Event : InSeq(e, batch) => e \in Held(j)
      BY <2>6 DEF Held
    <3>3. QED
      BY <2>4, <2>5, <3>1, <3>2, FlushHeld
  <2>8. CASE ~ (Len(batch) >= MaxBatch)
    <3>1. /\ \A k \in Jobs : pending'[k] = IF k = j THEN batch ELSE pending[k]
          /\ UNCHANGED <<wire, received>>
      BY <1>21, <2>2, <2>3, <2>8 DEF LoopTakes, TypeOK, StreamTypes
    <3>2. \A k \in Jobs : Held(k)' \subseteq Held(k)
      BY <2>5, <2>6, <3>1 DEF Held
    <3>3. QED
      BY <2>4, <3>2, NothingNew
  <2>9. QED
    BY <2>7, <2>8
<1>22. ASSUME NEW j \in Jobs, LoopTicks(j)
       PROVE  HeldInv'
  <2>1. PICK batch \in Seq(Event) : batch = pending[j]
    BY DEF TypeOK, StreamTypes
  <2>2. Flush(j, batch) /\ UNCHANGED <<inq, queued>>
    BY <1>22, <2>1 DEF LoopTicks
  <2>3. \A e \in Event : InSeq(e, batch) => e \in Held(j)
    BY <2>1 DEF Held
  <2>4. QED
    BY <2>2, <2>3, FlushHeld
<1>23. ASSUME NEW j \in Jobs, LoopEnds(j)
       PROVE  HeldInv'
  <2>1. PICK batch \in Seq(Event) : batch = pending[j]
    BY DEF TypeOK, StreamTypes
  <2>2. Flush(j, batch) /\ UNCHANGED <<inq, queued>>
    BY <1>23, <2>1 DEF LoopEnds
  <2>3. \A e \in Event : InSeq(e, batch) => e \in Held(j)
    BY <2>1 DEF Held
  <2>4. QED
    BY <2>2, <2>3, FlushHeld
<1>24. ASSUME NEW b \in wire, Arrive(b)
       PROVE  HeldInv'
  <2>1. PICK t \in Jobs, s \in Seq(Event) : t = b.run /\ s = b.events
    BY DEF TypeOK, OrchestratorTypes
  <2>2. /\ wire' = wire \ {b} /\ received[t] \in Seq(Event)
        /\ \A k \in Jobs : received'[k] = IF k = t THEN received[t] \o s ELSE received[k]
        /\ UNCHANGED <<inq, pending, queued>>
    BY <1>24, <2>1 DEF Arrive, TypeOK, OrchestratorTypes
  <2>3. \A k \in Jobs, e \in Event :
           InSeq(e, received'[k]) => InSeq(e, received[k]) \/ (k = t /\ InSeq(e, s))
    BY <2>2, ConcatMembers
  <2>4. \A k \in Jobs : Held(k)' \subseteq Held(k)
    BY <2>1, <2>2, <2>3 DEF Held
  <2>5. QED
    BY <2>2, <2>4, NothingNew
<1>25. CASE Send
  <2>1. PICK h \in Event, t \in Jobs : h = fev /\ t = fst
    BY <1>25 DEF Send, TypeOK, SensorTypes
  <2>2. UNCHANGED <<pending, wire, received>>
    BY <1>25 DEF Send
  <2>3. CASE inq' = inq /\ queued' = queued
    BY <2>2, <2>3, NothingNew DEF Held
  <2>4. CASE inq' = [inq EXCEPT ![t] = Append(@, h)] /\ queued' = [queued EXCEPT ![t] = @ + 1]
    <3>1. /\ inq[t] \in Seq(Event) /\ queued[t] \in Nat
          /\ \A k \in Jobs : inq'[k] = IF k = t THEN Append(inq[t], h) ELSE inq[k]
          /\ \A k \in Jobs : queued'[k] = IF k = t THEN queued[t] + 1 ELSE queued[k]
      BY <2>4 DEF TypeOK, StreamTypes
    <3>2. \A k \in Jobs, e \in Event : InSeq(e, inq'[k]) => InSeq(e, inq[k]) \/ (k = t /\ e = h)
      BY <3>1, AppendMembers
    <3>3. ASSUME NEW k \in Jobs
          PROVE  IsFiniteSet(Held(k)') /\ Cardinality(Held(k)') <= queued'[k]
      <4>1. queued[k] \in Nat /\ IsFiniteSet(Held(k)) /\ Cardinality(Held(k)) <= queued[k]
        BY DEF TypeOK, StreamTypes, HeldInv
      <4>2. CASE k = t
        <5>1. Held(k)' \subseteq Held(k) \cup {h}
          BY <2>2, <3>2 DEF Held
        <5>2. IsFiniteSet(Held(k)') /\ Cardinality(Held(k)') <= queued[k] + 1
          BY <4>1, <5>1, Grows
        <5>3. QED
          BY <3>1, <4>2, <5>2
      <4>3. CASE k # t
        <5>1. Held(k)' \subseteq Held(k)
          BY <2>2, <3>2, <4>3 DEF Held
        <5>2. QED
          BY <3>1, <4>1, <4>3, <5>1, Shrinks
      <4>4. QED
        BY <4>2, <4>3
    <3>4. QED
      BY <3>3 DEF HeldInv
  <2>5. QED
    BY <1>25, <2>1, <2>3, <2>4 DEF Send
<1>26. CASE UNCHANGED vars
  BY <1>26, NothingNew DEF vars, Held
<1>27. QED
  <2> HIDE DEF HeldInv
  <2> QED
    BY <1>1, <1>2, <1>3, <1>4, <1>5, <1>6, <1>7, <1>8, <1>9, <1>10, <1>11,
        <1>12, <1>13, <1>14, <1>15, <1>16, <1>17, <1>18, <1>19, <1>20, <1>21,
        <1>22, <1>23, <1>24, <1>25, <1>26
       DEF Next, Quietly, MainStep, WatcherStep, LoopStep

\* StreamStats counts acknowledged POSTs only.
SentInv ==
    \A j \in Jobs : sent[j] <= Len(received[j]) /\ report[j].emitted <= Len(received[j])

\* A flush counts a batch only when it is accepted.
LEMMA FlushSent ==
  ASSUME TypeOK, SentInv, NEW j \in Jobs, NEW batch \in Seq(Event), Flush(j, batch),
         report' = report
  PROVE  SentInv'
<1>1. \A k \in Jobs : /\ sent[k] \in Nat /\ report[k].emitted \in Nat
                      /\ received[k] \in Seq(Event) /\ Len(received[k]) \in Nat
  BY DEF TypeOK, StreamTypes, OrchestratorTypes
<1>2. CASE UNCHANGED <<received, sent>>
  BY <1>2 DEF SentInv
<1>3. CASE /\ received' = [received EXCEPT ![j] = @ \o batch]
           /\ sent' = [sent EXCEPT ![j] = @ + Len(batch)]
  <2>1. /\ \A k \in Jobs : received'[k] = IF k = j THEN received[j] \o batch ELSE received[k]
        /\ \A k \in Jobs : sent'[k] = IF k = j THEN sent[j] + Len(batch) ELSE sent[k]
    BY <1>3 DEF TypeOK, StreamTypes, OrchestratorTypes
  <2>2. Len(received[j] \o batch) = Len(received[j]) + Len(batch) /\ Len(batch) \in Nat
    BY <1>1
  <2>3. /\ sent[j] + Len(batch) <= Len(received[j] \o batch)
        /\ report[j].emitted <= Len(received[j] \o batch)
    BY <1>1, <2>2 DEF SentInv
  <2>4. QED
    BY <2>1, <2>3 DEF SentInv
<1>4. QED
  BY <1>2, <1>3, FlushOutcome

\* Every step keeps the runner's counts below what is accepted.
LEMMA SentStep ==
  ASSUME TypeOK, SentInv, [Next]_vars
  PROVE  SentInv'
<1> USE DEF main, sandbox, sensor, forwarder, streamers, orchestrator
<1>1. CASE StartJob
  BY <1>1 DEF StartJob, SentInv
<1>2. CASE Register
  BY <1>2 DEF Register, SentInv
<1>3. CASE Launch
  BY <1>3 DEF Launch, SentInv
<1>4. CASE AwaitDone
  BY <1>4 DEF AwaitDone, SentInv
<1>5. CASE Verdict
  BY <1>5 DEF Verdict, SentInv
<1>6. CASE StopContainer
  BY <1>6 DEF StopContainer, SentInv
<1>7. CASE RemoveCgroup
  BY <1>7 DEF RemoveCgroup, SentInv
<1>8. CASE Detach
  BY <1>8 DEF Detach, SentInv
<1>9. CASE Close
  BY <1>9 DEF Close, SentInv
<1>10. CASE Closed
  BY <1>10 DEF Closed, SentInv
<1>11. CASE SendResult
  <2>1. job \in Jobs /\ UNCHANGED <<sent, received>>
    BY <1>11 DEF SendResult, TypeOK, MainTypes
  <2>2. \A k \in Jobs : report'[k].emitted \in {report[k].emitted, sent[k]}
    <3>1. CASE report' = report
      BY <3>1
    <3>2. CASE report' = [report EXCEPT ![job] =
                            [status |-> status, emitted |-> sent[job], dropped |-> drops]]
      <4>1. \A k \in Jobs : k # job => report'[k] = report[k]
        BY <2>1, <3>2 DEF TypeOK, OrchestratorTypes
      <4>2. report'[job].emitted = sent[job]
        BY <2>1, <3>2 DEF TypeOK, OrchestratorTypes
      <4>3. QED
        BY <4>1, <4>2
    <3>3. QED
      BY <1>11, <3>1, <3>2 DEF SendResult
  <2>3. QED
    BY <2>1, <2>2 DEF SentInv
<1>12. CASE WatcherSees
  BY <1>12 DEF WatcherSees, SentInv
<1>13. CASE WatcherCancels
  BY <1>13 DEF WatcherCancels, SentInv
<1>14. CASE WatcherLeaves
  BY <1>14 DEF WatcherLeaves, SentInv
<1>15. CASE ForwarderReads
  BY <1>15 DEF ForwarderReads, SentInv
<1>16. CASE ForwarderRoutes
  BY <1>16 DEF ForwarderRoutes, SentInv
<1>17. CASE Deadline
  BY <1>17 DEF Deadline, SentInv
<1>18. CASE Shutdown
  BY <1>18 DEF Shutdown, SentInv
<1>19. CASE Emit
  BY <1>19 DEF Emit, SentInv
<1>20. CASE ContainerExits
  BY <1>20 DEF ContainerExits, SentInv
<1>21. ASSUME NEW j \in Jobs, LoopTakes(j)
       PROVE  SentInv'
  <2> DEFINE batch == Append(pending[j], Head(inq[j]))
  <2>1. batch \in Seq(Event) /\ report' = report
    BY <1>21, BatchTypes DEF LoopTakes, TypeOK
  <2>2. CASE Len(batch) >= MaxBatch
    <3>1. Flush(j, batch)
      BY <1>21, <2>2 DEF LoopTakes
    <3> HIDE DEF batch
    <3>2. QED
      BY <2>1, <3>1, FlushSent
  <2>3. CASE ~ (Len(batch) >= MaxBatch)
    BY <1>21, <2>3 DEF LoopTakes, SentInv
  <2>4. QED
    BY <2>2, <2>3
<1>22. ASSUME NEW j \in Jobs, LoopTicks(j)
       PROVE  SentInv'
  <2>1. PICK batch \in Seq(Event) : batch = pending[j]
    BY DEF TypeOK, StreamTypes
  <2>2. Flush(j, batch) /\ report' = report
    BY <1>22, <2>1 DEF LoopTicks
  <2>3. QED
    BY <2>2, FlushSent
<1>23. ASSUME NEW j \in Jobs, LoopEnds(j)
       PROVE  SentInv'
  <2>1. PICK batch \in Seq(Event) : batch = pending[j]
    BY DEF TypeOK, StreamTypes
  <2>2. Flush(j, batch) /\ report' = report
    BY <1>23, <2>1 DEF LoopEnds
  <2>3. QED
    BY <2>2, FlushSent
<1>24. ASSUME NEW b \in wire, Arrive(b)
       PROVE  SentInv'
  <2>1. PICK t \in Jobs, s \in Seq(Event) : t = b.run /\ s = b.events
    BY DEF TypeOK, OrchestratorTypes
  <2>2. /\ received[t] \in Seq(Event) /\ UNCHANGED <<sent, report>>
        /\ \A k \in Jobs : received'[k] = IF k = t THEN received[t] \o s ELSE received[k]
    BY <1>24, <2>1 DEF Arrive, TypeOK, OrchestratorTypes
  <2>3. Len(received[t]) \in Nat /\ Len(received[t] \o s) \in Nat /\ Len(received[t]) <= Len(received[t] \o s)
    BY <2>2
  <2>4. sent[t] \in Nat /\ report[t].emitted \in Nat
    BY DEF TypeOK, StreamTypes, OrchestratorTypes
  <2>5. sent[t] <= Len(received[t] \o s) /\ report[t].emitted <= Len(received[t] \o s)
    BY <2>3, <2>4 DEF SentInv
  <2>6. QED
    BY <2>2, <2>5 DEF SentInv
<1>25. CASE Send
  BY <1>25 DEF Send, SentInv
<1>26. CASE UNCHANGED vars
  BY <1>26 DEF vars, SentInv
<1>27. QED
  <2> HIDE DEF SentInv
  <2> QED
    BY <1>1, <1>2, <1>3, <1>4, <1>5, <1>6, <1>7, <1>8, <1>9, <1>10, <1>11,
        <1>12, <1>13, <1>14, <1>15, <1>16, <1>17, <1>18, <1>19, <1>20, <1>21,
        <1>22, <1>23, <1>24, <1>25, <1>26
       DEF Next, Quietly, MainStep, WatcherStep, LoopStep

\* What is accepted for a run is at most what its streamer took.
LEMMA StoredWasQueued ==
  ASSUME TypeOK, OnceInv, HeldInv, NEW j \in Jobs
  PROVE  Len(received[j]) <= queued[j]
<1> DEFINE s == received[j]
           n == Len(s)
<1>1. s \in Seq(Event) /\ n \in Nat /\ DOMAIN s = 1..n /\ Distinct(s)
  BY DEF TypeOK, OrchestratorTypes, OnceInv, NoRepeats
<1>2. IsFiniteSet(Held(j)) /\ Cardinality(Held(j)) <= queued[j] /\ queued[j] \in Nat
  BY DEF HeldInv, TypeOK, StreamTypes
<1>3. s \in [1..n -> Held(j)]
  <2>1. \A i \in 1..n : s[i] \in Event /\ InSeq(s[i], s)
    BY <1>1 DEF InSeq
  <2>2. \A i \in 1..n : s[i] \in Held(j)
    BY <2>1 DEF Held
  <2> HIDE DEF s
  <2>3. s = [i \in 1..n |-> s[i]]
    BY <1>1
  <2>4. QED
    BY <2>2, <2>3
<1>4. s \in Injection(1..n, Held(j))
  BY <1>1, <1>3 DEF Injection, IsInjective, Distinct
<1>5. Cardinality(1..n) <= Cardinality(Held(j))
  BY <1>2, <1>4, FS_Injection
<1>6. Cardinality(1..n) = n
  <2>1. 1 \in Int /\ n \in Int
    BY <1>1
  <2> HIDE DEF n
  <2>2. Cardinality(1..n) = IF 1 > n THEN 0 ELSE n - 1 + 1
    BY <2>1, FS_Interval
  <2>3. QED
    BY <1>1, <2>2
<1>7. Cardinality(Held(j)) \in Nat
  BY <1>2, FS_CardinalityType
<1> HIDE DEF n
<1>8. n <= queued[j]
  BY <1>1, <1>2, <1>5, <1>6, <1>7
<1>9. QED
  BY <1>8 DEF n

\* However POSTs fail or arrive late and however queues overflow: no event is
\* accepted twice under any run, and the runner never claims more events than
\* the orchestrator accepted, nor are those more than its Send took.
THEOREM StreamHonest == Spec => []StreamIsHonest
<1>1. Init => HeldInv /\ SentInv
  <2> SUFFICES ASSUME Init
               PROVE  HeldInv /\ SentInv
    OBVIOUS
  <2>1. \A j \in Jobs : Held(j) = {}
    BY DEF Init, Held, InSeq
  <2>2. HeldInv
    <3>1. \A j \in Jobs : queued[j] = 0
      BY DEF Init
    <3>2. IsFiniteSet({}) /\ Cardinality({}) = 0
      BY FS_EmptySet
    <3>3. QED
      BY <2>1, <3>1, <3>2 DEF HeldInv
  <2>3. SentInv
    BY DEF Init, SentInv, NoReport
  <2>4. QED
    BY <2>2, <2>3
<1>2. TypeOK /\ OnceInv /\ HeldInv /\ SentInv /\ [Next]_vars => HeldInv' /\ SentInv'
  BY HeldStep, SentStep
<1>3. TypeOK /\ OnceInv /\ HeldInv /\ SentInv => StreamIsHonest
  <2> SUFFICES ASSUME TypeOK, OnceInv, HeldInv, SentInv
               PROVE  NeverTwice /\ CountIsHonest
    BY DEF StreamIsHonest
  <2>1. NeverTwice
    <3> SUFFICES ASSUME NEW j \in Jobs, NEW k \in Jobs, NEW a \in DOMAIN received[j],
                        NEW b \in DOMAIN received[k], received[j][a] = received[k][b]
                 PROVE  j = k /\ a = b
      BY DEF NeverTwice
    <3>1. PICK e \in Event : e = received[j][a]
      BY DEF TypeOK, OrchestratorTypes
    <3>2. At("received", j, e) /\ At("received", k, e)
      BY <3>1 DEF At, InSeq
    <3>3. j = k
      BY <3>2 DEF OnceInv, Once
    <3>4. QED
      BY <3>3 DEF OnceInv, NoRepeats, Distinct
  <2>2. CountIsHonest
    BY StoredWasQueued DEF CountIsHonest, SentInv
  <2>3. QED
    BY <2>1, <2>2
<1>4. QED
  BY <1>1, <1>2, <1>3, TypeCorrect, OnceAlways, PTL DEF Spec
===============================================================================
