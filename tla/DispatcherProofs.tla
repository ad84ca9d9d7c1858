--------------------------- MODULE DispatcherProofs ---------------------------
(* Machine-checked facts about the dispatcher, for any number of runners,   *)
(* jobs and polls.                                                          *)
EXTENDS Dispatcher, FiniteSetTheorems, TLAPS

\* Every variable of the dispatcher keeps its type under every handler step.
THEOREM TypeCorrect == Spec => []TypeOK
<1> USE RunnerOfAssumption, NoJobAssumption DEF TypeOK, Stages, PollPC, CtxStates
<1>1. Init => TypeOK
  BY DEF Init
<1>2. TypeOK /\ [Next]_vars => TypeOK'
  <2> SUFFICES ASSUME TypeOK, [Next]_vars
               PROVE  TypeOK'
    OBVIOUS
  <2>1. ASSUME NEW j \in Jobs, QueueAppend(j)
        PROVE  TypeOK'
    BY <2>1 DEF QueueAppend
  <2>2. ASSUME NEW j \in Jobs, QueueSignal(j)
        PROVE  TypeOK'
    BY <2>2 DEF QueueSignal
  <2>3. ASSUME NEW p \in Pollers, PollStart(p)
        PROVE  TypeOK'
    BY <2>3 DEF PollStart
  <2>4. ASSUME NEW p \in Pollers, PollCheck(p)
        PROVE  TypeOK'
    <3> DEFINE r == RunnerOf[p]
    <3>1. r \in Runners
      OBVIOUS
    <3>2. CASE queues[r] # <<>>
      <4>1. Head(queues[r]) \in Jobs /\ Tail(queues[r]) \in Seq(Jobs)
        BY <3>1, <3>2
      <4>2. /\ holding' = [holding EXCEPT ![p] = Head(queues[r])]
            /\ queues' = [queues EXCEPT ![r] = Tail(@)]
            /\ pc' = [pc EXCEPT ![p] = "respond"]
            /\ UNCHANGED <<signals, stage, target, ctx, received, lost>>
        BY <2>4, <3>2 DEF PollCheck
      <4> HIDE DEF r
      <4>3. QED
        BY <3>1, <4>1, <4>2
    <3>3. CASE queues[r] = <<>>
      BY <2>4, <3>1, <3>3 DEF PollCheck
    <3>4. QED
      BY <3>2, <3>3
  <2>5. ASSUME NEW p \in Pollers, PollWake(p)
        PROVE  TypeOK'
    BY <2>5 DEF PollWake
  <2>6. ASSUME NEW p \in Pollers, PollCtxDone(p)
        PROVE  TypeOK'
    BY <2>6 DEF PollCtxDone
  <2>7. ASSUME NEW p \in Pollers, Respond(p)
        PROVE  TypeOK'
    <3>1. holding[p] \in Jobs
      BY <2>7 DEF Respond
    <3>2. CASE ctx[p] = "gone"
      BY <2>7, <3>1, <3>2 DEF Respond
    <3>3. CASE ctx[p] # "gone"
      <4> DEFINE r == RunnerOf[p]
      <4>1. r \in Runners /\ Append(received[r], holding[p]) \in Seq(Jobs)
        BY <3>1
      <4>2. received' = [received EXCEPT ![r] = Append(received[r], holding[p])]
        BY <2>7, <3>3 DEF Respond
      <4>3. received' \in [Runners -> Seq(Jobs)]
        BY <4>1, <4>2
      <4>4. QED
        BY <2>7, <3>3, <4>3 DEF Respond
    <3>4. QED
      BY <3>2, <3>3
  <2>8. ASSUME NEW p \in Pollers, NEW how \in CtxStates, CtxEnds(p, how)
        PROVE  TypeOK'
    BY <2>8 DEF CtxEnds
  <2>9. CASE UNCHANGED vars
    BY <2>9 DEF vars
  <2>10. QED
    <3> HIDE DEF TypeOK
    <3> QED
      BY <2>1, <2>2, <2>3, <2>4, <2>5, <2>6, <2>7, <2>8, <2>9 DEF Next
<1>3. QED
  BY <1>1, <1>2, PTL DEF Spec

\* One step of any handler keeps a parked poll from being forgotten, when each
\* runner id has a single poll in flight.
LEMMA WakeupStep ==
  ASSUME OnePollPerRunner, TypeOK, NoLostWakeup, [Next]_vars
  PROVE  NoLostWakeup'
<1> USE RunnerOfAssumption DEF TypeOK, Stages, PollPC, CtxStates
<1> SUFFICES ASSUME NEW p \in Pollers,
                    pc'[p] = "wait", queues'[RunnerOf[p]] # <<>>
             PROVE  \/ signals'[RunnerOf[p]]
                    \/ \E j \in Jobs : stage'[j] = "appended" /\ target'[j] = RunnerOf[p]
                    \/ \E q \in Pollers : RunnerOf[q] = RunnerOf[p] /\ pc'[q] = "check"
  BY DEF NoLostWakeup
<1> DEFINE r == RunnerOf[p]
           Served == \/ signals[r]
                     \/ \E j \in Jobs : stage[j] = "appended" /\ target[j] = r
<1>0. r \in Runners
  OBVIOUS
<1>1. pc[p] = "wait" /\ queues[r] # <<>> => Served
  <2>1. ASSUME NEW q \in Pollers, RunnerOf[q] = r, pc[q] = "check", pc[p] = "wait"
        PROVE  FALSE
    BY <2>1 DEF OnePollPerRunner
  <2>2. QED
    BY <2>1 DEF NoLostWakeup
<1>2. ASSUME NEW j \in Jobs, QueueAppend(j)
      PROVE  Served'
  <2>1. CASE target[j] = r
    BY <1>2, <2>1 DEF QueueAppend
  <2>2. CASE target[j] # r
    <3>1. queues'[r] = queues[r] /\ pc' = pc
      BY <1>0, <1>2, <2>2 DEF QueueAppend
    <3>2. QED
      BY <1>1, <1>2, <3>1 DEF QueueAppend
  <2>3. QED
    BY <2>1, <2>2
<1>3. ASSUME NEW j \in Jobs, QueueSignal(j)
      PROVE  Served'
  BY <1>0, <1>1, <1>3 DEF QueueSignal
<1>4. ASSUME NEW q \in Pollers, PollStart(q)
      PROVE  Served'
  BY <1>1, <1>4 DEF PollStart
<1>5. ASSUME NEW q \in Pollers, PollCheck(q)
      PROVE  Served'
  <2>1. CASE q = p
    BY <1>0, <1>5, <2>1 DEF PollCheck
  <2>2. CASE q # p
    <3>1. RunnerOf[q] # r
      BY <2>2 DEF OnePollPerRunner
    <3>2. queues'[r] = queues[r] /\ pc'[p] = pc[p] /\ UNCHANGED <<signals, stage, target>>
      BY <1>0, <1>5, <2>2, <3>1 DEF PollCheck
    <3>3. QED
      BY <1>1, <3>2
  <2>3. QED
    BY <2>1, <2>2
<1>6. ASSUME NEW q \in Pollers, PollWake(q)
      PROVE  Served'
  <2>1. q # p
    BY <1>6 DEF PollWake
  <2>2. RunnerOf[q] # r
    BY <2>1 DEF OnePollPerRunner
  <2>3. QED
    BY <1>0, <1>1, <1>6, <2>1, <2>2 DEF PollWake
<1>7. ASSUME NEW q \in Pollers, PollCtxDone(q)
      PROVE  Served'
  BY <1>1, <1>7 DEF PollCtxDone
<1>8. ASSUME NEW q \in Pollers, Respond(q)
      PROVE  Served'
  BY <1>1, <1>8 DEF Respond
<1>9. ASSUME NEW q \in Pollers, NEW how \in CtxStates, CtxEnds(q, how)
      PROVE  Served'
  BY <1>1, <1>9 DEF CtxEnds
<1>10. CASE UNCHANGED vars
  BY <1>1, <1>10 DEF vars
<1>11. QED
  BY <1>2, <1>3, <1>4, <1>5, <1>6, <1>7, <1>8, <1>9, <1>10 DEF Next

\* With one poll in flight per runner id no wake-up is lost, however QueueJob's
\* unlock-then-send interleaves with PollJob's unlock-then-receive.
THEOREM WakeupSafe ==
  ASSUME OnePollPerRunner
  PROVE  Spec => []NoLostWakeup
<1>1. Init => NoLostWakeup
  BY RunnerOfAssumption DEF Init, NoLostWakeup
<1>2. TypeOK /\ NoLostWakeup /\ [Next]_vars => NoLostWakeup'
  BY WakeupStep
<1>3. QED
  BY <1>1, <1>2, TypeCorrect, PTL DEF Spec

-------------------------------------------------------------------------------
(* Every submitted job is in exactly one place.  Counting places is not      *)
(* inductive: taking the head of a queue removes the job from the queue only *)
(* if it was queued once, and delivering it is right only if the handler     *)
(* serves the job's own runner.                                              *)

Distinct(s) == \A a, b \in DOMAIN s : s[a] = s[b] => a = b

\* Jobs sit in the queue, in the hands of a poll and at the runner of their
\* target only, and only once submitted.
Routed ==
    /\ \A r \in Runners, j \in Jobs :
          InSeq(j, queues[r]) \/ InSeq(j, received[r]) =>
              stage[j] # "new" /\ target[j] = r
    /\ \A p \in Pollers, j \in Jobs :
          holding[p] = j => stage[j] # "new" /\ target[j] = RunnerOf[p]
    /\ \A j \in lost : stage[j] # "new"

\* No queue holds a job twice and no two handlers hold the same job.
Unrepeated ==
    /\ \A r \in Runners : Distinct(queues[r])
    /\ \A p, q \in Pollers : holding[p] = holding[q] /\ holding[p] # NoJob => p = q

\* The four kinds of place exclude each other, and a submitted job is in one.
Exclusive ==
    \A j \in Jobs, r \in Runners :
        /\ ~ (InSeq(j, queues[r]) /\ InSeq(j, received[r]))
        /\ j \in lost => ~ InSeq(j, queues[r]) /\ ~ InSeq(j, received[r])
        /\ \A p \in Pollers :
              holding[p] = j => /\ ~ InSeq(j, queues[r])
                                /\ ~ InSeq(j, received[r])
                                /\ j \notin lost

Somewhere ==
    \A j \in Jobs : stage[j] # "new" =>
        \/ InSeq(j, queues[target[j]])
        \/ \E p \in Pollers : holding[p] = j
        \/ InSeq(j, received[target[j]])
        \/ j \in lost

PlaceInv == Routed /\ Unrepeated /\ Exclusive /\ Somewhere

\* Appending to a queue or to a runner's inbox adds exactly one job to it.
LEMMA AppendMembers ==
  ASSUME NEW S, NEW s \in Seq(S), NEW e \in S, NEW x \in S
  PROVE  InSeq(x, Append(s, e)) <=> InSeq(x, s) \/ x = e
<1>1. DOMAIN Append(s, e) = 1 .. Len(s) + 1 /\ DOMAIN s = 1 .. Len(s) /\ Len(s) \in Nat
  OBVIOUS
<1>2. \A i \in 1 .. Len(s) : Append(s, e)[i] = s[i]
  OBVIOUS
<1>3. Append(s, e)[Len(s) + 1] = e
  OBVIOUS
<1>4. QED
  BY <1>1, <1>2, <1>3 DEF InSeq

\* A queue without repetitions stays so when a job not yet in it is appended.
LEMMA AppendDistinct ==
  ASSUME NEW S, NEW s \in Seq(S), NEW e \in S, Distinct(s), ~ InSeq(e, s)
  PROVE  Distinct(Append(s, e))
<1>1. DOMAIN Append(s, e) = 1 .. Len(s) + 1 /\ DOMAIN s = 1 .. Len(s) /\ Len(s) \in Nat
  OBVIOUS
<1>2. \A i \in 1 .. Len(s) : Append(s, e)[i] = s[i] /\ s[i] # e
  BY <1>1 DEF InSeq
<1>3. Append(s, e)[Len(s) + 1] = e
  OBVIOUS
<1>4. QED
  BY <1>1, <1>2, <1>3 DEF Distinct

\* Taking the head of a queue without repetitions takes that job and no other
\* out of it.
LEMMA TailMembers ==
  ASSUME NEW S, NEW s \in Seq(S), s # <<>>, Distinct(s)
  PROVE  /\ Distinct(Tail(s))
         /\ InSeq(Head(s), s)
         /\ \A x \in S : InSeq(x, Tail(s)) <=> InSeq(x, s) /\ x # Head(s)
<1>1. Len(s) \in Nat \ {0} /\ DOMAIN s = 1 .. Len(s)
  OBVIOUS
<1>2. DOMAIN Tail(s) = 1 .. Len(s) - 1
  BY <1>1
<1>3. \A i \in 1 .. Len(s) - 1 : Tail(s)[i] = s[i + 1]
  BY <1>1
<1>4. Head(s) = s[1] /\ 1 \in DOMAIN s
  BY <1>1
<1>5. Distinct(Tail(s))
  BY <1>1, <1>2, <1>3 DEF Distinct
<1>6. ASSUME NEW x \in S, InSeq(x, Tail(s))
      PROVE  InSeq(x, s) /\ x # Head(s)
  <2>1. PICK i \in 1 .. Len(s) - 1 : s[i + 1] = x
    BY <1>2, <1>3, <1>6 DEF InSeq
  <2>2. i + 1 \in DOMAIN s /\ i + 1 # 1
    BY <1>1, <2>1
  <2>3. QED
    BY <1>4, <2>1, <2>2 DEF InSeq, Distinct
<1>7. ASSUME NEW x \in S, InSeq(x, s), x # Head(s)
      PROVE  InSeq(x, Tail(s))
  <2>1. PICK i \in 1 .. Len(s) : s[i] = x
    BY <1>1, <1>7 DEF InSeq
  <2>2. i - 1 \in 1 .. Len(s) - 1 /\ (i - 1) + 1 = i
    BY <1>1, <1>4, <1>7, <2>1
  <2>3. QED
    BY <1>2, <1>3, <2>1, <2>2 DEF InSeq
<1>8. QED
  BY <1>4, <1>5, <1>6, <1>7 DEF InSeq

\* The variables that say where jobs are.
places == <<queues, target, holding, received, lost>>

\* A step that moves no job and submits none leaves every job in its place.
LEMMA NothingMoves ==
  ASSUME PlaceInv, UNCHANGED places,
         \A j \in Jobs : stage'[j] = "new" <=> stage[j] = "new",
         TypeOK
  PROVE  PlaceInv'
BY DEF PlaceInv, places, Routed, Unrepeated, Exclusive, Somewhere, TypeOK

\* QueueJob puts a job that was nowhere into its target's queue.
LEMMA AppendPlaces ==
  ASSUME TypeOK, PlaceInv, NEW j \in Jobs, QueueAppend(j)
  PROVE  PlaceInv'
<1> USE RunnerOfAssumption, NoJobAssumption
<1> DEFINE t == target[j]
<1>1. t \in Runners /\ queues[t] \in Seq(Jobs)
  BY DEF TypeOK
<1>2. \A r \in Runners : queues'[r] = IF r = t THEN Append(queues[t], j) ELSE queues[r]
  BY <1>1 DEF QueueAppend, TypeOK
<1>3. \A i \in Jobs : (stage'[i] # "new") <=> (stage[i] # "new" \/ i = j)
  BY DEF QueueAppend, TypeOK
<1>4. stage[j] = "new" /\ UNCHANGED <<target, holding, received, lost>>
  BY DEF QueueAppend
<1>5. \A r \in Runners, i \in Jobs :
         InSeq(i, queues'[r]) <=> InSeq(i, queues[r]) \/ (i = j /\ r = t)
  BY <1>1, <1>2, AppendMembers
<1>6. /\ \A r \in Runners : ~ InSeq(j, queues[r]) /\ ~ InSeq(j, received[r])
      /\ \A p \in Pollers : holding[p] # j
      /\ j \notin lost
  BY <1>4 DEF PlaceInv, Routed
<1>7. \A r \in Runners : Distinct(queues'[r])
  BY <1>1, <1>2, <1>6, AppendDistinct DEF PlaceInv, Unrepeated
<1>8. Routed'
  BY <1>3, <1>4, <1>5, <1>6 DEF PlaceInv, Routed, TypeOK
<1>9. Unrepeated'
  BY <1>4, <1>7 DEF PlaceInv, Unrepeated
<1>10. Exclusive'
  BY <1>4, <1>5, <1>6 DEF PlaceInv, Exclusive
<1>11. Somewhere'
  BY <1>1, <1>3, <1>4, <1>5 DEF PlaceInv, Somewhere, TypeOK
<1>12. QED
  BY <1>8, <1>9, <1>10, <1>11 DEF PlaceInv

\* PollJob's critical section moves the head of its runner's queue, and no
\* other job, into the hands of the handler.
LEMMA TakePlaces ==
  ASSUME TypeOK, PlaceInv, NEW p \in Pollers, PollCheck(p), queues[RunnerOf[p]] # <<>>
  PROVE  PlaceInv'
<1> USE RunnerOfAssumption, NoJobAssumption
<1> DEFINE u == RunnerOf[p]
           j == Head(queues[u])
<1>1. u \in Runners /\ queues[u] \in Seq(Jobs) /\ j \in Jobs
  BY DEF TypeOK
<1>2. /\ \A r \in Runners : queues'[r] = IF r = u THEN Tail(queues[u]) ELSE queues[r]
      /\ \A q \in Pollers : holding'[q] = IF q = p THEN j ELSE holding[q]
      /\ UNCHANGED <<stage, target, received, lost>>
  BY <1>1 DEF PollCheck, TypeOK
<1>3. holding[p] = NoJob
  BY DEF PollCheck, TypeOK
<1>4. /\ InSeq(j, queues[u])
      /\ Distinct(Tail(queues[u]))
      /\ \A i \in Jobs : InSeq(i, Tail(queues[u])) <=> InSeq(i, queues[u]) /\ i # j
  BY <1>1, TailMembers DEF PlaceInv, Unrepeated
<1> HIDE DEF j
<1>5. stage[j] # "new" /\ target[j] = u
  BY <1>1, <1>4 DEF PlaceInv, Routed
<1>6. \A r \in Runners, i \in Jobs :
         InSeq(i, queues'[r]) <=> InSeq(i, queues[r]) /\ i # j
  BY <1>1, <1>2, <1>4, <1>5 DEF PlaceInv, Routed
<1>7. /\ \A r \in Runners : ~ InSeq(j, received[r])
      /\ \A q \in Pollers : holding[q] # j
      /\ j \notin lost
  BY <1>1, <1>4, <1>5 DEF PlaceInv, Exclusive, Routed
<1>8. \A r \in Runners : Distinct(queues'[r])
  BY <1>2, <1>4 DEF PlaceInv, Unrepeated
<1>9. Routed'
  BY <1>1, <1>2, <1>5, <1>6 DEF PlaceInv, Routed
<1>10. Unrepeated'
  BY <1>1, <1>2, <1>7, <1>8 DEF PlaceInv, Unrepeated
<1>11. Exclusive'
  BY <1>1, <1>2, <1>6, <1>7 DEF PlaceInv, Exclusive
<1>12. Somewhere'
  <2> SUFFICES ASSUME NEW i \in Jobs, stage'[i] # "new"
               PROVE  \/ InSeq(i, queues'[target'[i]])
                      \/ \E q \in Pollers : holding'[q] = i
                      \/ InSeq(i, received'[target'[i]])
                      \/ i \in lost'
    BY DEF Somewhere
  <2>1. CASE i = j
    BY <1>2, <2>1
  <2>2. CASE i # j
    <3>1. target[i] \in Runners /\ (\A q \in Pollers : holding[q] = i => holding'[q] = i)
      BY <1>2, <1>3 DEF TypeOK
    <3>2. QED
      BY <1>2, <1>6, <2>2, <3>1 DEF PlaceInv, Somewhere
  <2>3. QED
    BY <2>1, <2>2
<1>13. QED
  BY <1>9, <1>10, <1>11, <1>12 DEF PlaceInv

\* handlePollJob's write moves the job it holds to its runner or, when the
\* client has gone, to nobody.
LEMMA RespondPlaces ==
  ASSUME TypeOK, PlaceInv, NEW p \in Pollers, Respond(p)
  PROVE  PlaceInv'
<1> USE RunnerOfAssumption, NoJobAssumption
<1> DEFINE u == RunnerOf[p]
           j == holding[p]
<1>1. u \in Runners /\ received[u] \in Seq(Jobs) /\ j \in Jobs /\ j # NoJob
  BY DEF Respond, TypeOK
<1>2. /\ \A q \in Pollers : holding'[q] = IF q = p THEN NoJob ELSE holding[q]
      /\ UNCHANGED <<queues, stage, target>>
  BY DEF Respond, TypeOK
<1>3. /\ stage[j] # "new" /\ target[j] = u
      /\ \A r \in Runners : ~ InSeq(j, queues[r]) /\ ~ InSeq(j, received[r])
      /\ j \notin lost
      /\ \A q \in Pollers : holding[q] = j => q = p
  BY <1>1 DEF PlaceInv, Routed, Exclusive, Unrepeated
<1>4. \/ /\ \A r \in Runners, i \in Jobs :
               InSeq(i, received'[r]) <=> InSeq(i, received[r]) \/ (i = j /\ r = u)
         /\ lost' = lost
      \/ lost' = lost \cup {j} /\ received' = received
  <2>1. CASE ctx[p] = "gone"
    BY <2>1 DEF Respond
  <2>2. CASE ctx[p] # "gone"
    <3>1. \A r \in Runners : received'[r] = IF r = u THEN Append(received[u], j) ELSE received[r]
      BY <1>1, <2>2 DEF Respond, TypeOK
    <3> HIDE DEF j
    <3>2. \A r \in Runners, i \in Jobs :
             InSeq(i, received'[r]) <=> InSeq(i, received[r]) \/ (i = j /\ r = u)
      BY <1>1, <3>1, AppendMembers
    <3>3. QED
      BY <2>2, <3>2 DEF Respond
  <2>3. QED
    BY <2>1, <2>2
<1>5. \A i \in Jobs, q \in Pollers : holding'[q] = i <=> holding[q] = i /\ i # j
  BY <1>1, <1>2, <1>3
<1> HIDE DEF j
<1>6. Routed'
  BY <1>1, <1>2, <1>3, <1>4, <1>5 DEF PlaceInv, Routed
<1>7. Unrepeated'
  BY <1>1, <1>2 DEF PlaceInv, Unrepeated
<1>8. Exclusive'
  BY <1>1, <1>2, <1>3, <1>4, <1>5 DEF PlaceInv, Exclusive
<1>9. Somewhere'
  <2> SUFFICES ASSUME NEW i \in Jobs, stage'[i] # "new"
               PROVE  \/ InSeq(i, queues'[target'[i]])
                      \/ \E q \in Pollers : holding'[q] = i
                      \/ InSeq(i, received'[target'[i]])
                      \/ i \in lost'
    BY DEF Somewhere
  <2>1. target[i] \in Runners
    BY DEF TypeOK
  <2>2. CASE i = j
    BY <1>1, <1>2, <1>3, <1>4, <2>2
  <2>3. CASE i # j
    <3>1. \/ InSeq(i, queues[target[i]])
          \/ \E q \in Pollers : holding[q] = i
          \/ InSeq(i, received[target[i]])
          \/ i \in lost
      BY <1>2 DEF PlaceInv, Somewhere
    <3>2. QED
      BY <1>2, <1>4, <1>5, <2>1, <2>3, <3>1
  <2>4. QED
    BY <2>2, <2>3
<1>10. QED
  BY <1>6, <1>7, <1>8, <1>9 DEF PlaceInv

\* Every handler step keeps every job in its one place.
LEMMA PlaceStep ==
  ASSUME TypeOK, PlaceInv, [Next]_vars
  PROVE  PlaceInv'
<1>1. ASSUME NEW j \in Jobs, QueueAppend(j)
      PROVE  PlaceInv'
  BY <1>1, AppendPlaces
<1>2. ASSUME NEW j \in Jobs, QueueSignal(j)
      PROVE  PlaceInv'
  BY <1>2, NothingMoves DEF QueueSignal, places, TypeOK
<1>3. ASSUME NEW p \in Pollers, PollStart(p)
      PROVE  PlaceInv'
  BY <1>3, NothingMoves DEF PollStart, places
<1>4. ASSUME NEW p \in Pollers, PollCheck(p)
      PROVE  PlaceInv'
  <2>1. CASE queues[RunnerOf[p]] # <<>>
    BY <1>4, <2>1, TakePlaces
  <2>2. CASE queues[RunnerOf[p]] = <<>>
    BY <1>4, <2>2, NothingMoves DEF PollCheck, places
  <2>3. QED
    BY <2>1, <2>2
<1>5. ASSUME NEW p \in Pollers, PollWake(p)
      PROVE  PlaceInv'
  BY <1>5, NothingMoves DEF PollWake, places
<1>6. ASSUME NEW p \in Pollers, PollCtxDone(p)
      PROVE  PlaceInv'
  BY <1>6, NothingMoves DEF PollCtxDone, places
<1>7. ASSUME NEW p \in Pollers, Respond(p)
      PROVE  PlaceInv'
  BY <1>7, RespondPlaces
<1>8. ASSUME NEW p \in Pollers, NEW how \in CtxStates, CtxEnds(p, how)
      PROVE  PlaceInv'
  BY <1>8, NothingMoves DEF CtxEnds, places
<1>9. CASE UNCHANGED vars
  BY <1>9, NothingMoves DEF vars, places
<1>10. QED
  BY <1>1, <1>2, <1>3, <1>4, <1>5, <1>6, <1>7, <1>8, <1>9 DEF Next

\* A set of places with exactly one element has cardinality one.
LEMMA OnePlace ==
  ASSUME NEW S, NEW x, S = {x}
  PROVE  Cardinality(S) = 1
BY FS_Singleton

\* The inductive invariant says what the count of places says.
LEMMA PlacesCounted ==
  ASSUME TypeOK, PlaceInv
  PROVE  ExactlyOnePlace
<1> USE RunnerOfAssumption, NoJobAssumption
<1> SUFFICES ASSUME NEW j \in Jobs
             PROVE  /\ stage[j] # "new" => Cardinality(Places(j)) = 1
                    /\ stage[j] = "new" => Places(j) = {}
                    /\ \A r \in Runners :
                          InSeq(j, queues[r]) \/ InSeq(j, received[r]) => r = target[j]
  BY DEF ExactlyOnePlace
<1> DEFINE t == target[j]
<1>1. t \in Runners
  BY DEF TypeOK
<1>2. \A r \in Runners : InSeq(j, queues[r]) \/ InSeq(j, received[r]) => r = t
  BY DEF PlaceInv, Routed
<1>3. stage[j] = "new" => Places(j) = {}
  BY DEF PlaceInv, Routed, Places
<1>4. ASSUME stage[j] # "new"
      PROVE  \E x : Places(j) = {x}
  <2>1. CASE InSeq(j, queues[t])
    <3>1. Places(j) = {<<"queue", t>>}
      BY <1>1, <1>2, <2>1 DEF PlaceInv, Exclusive, Places
    <3>2. QED
      BY <3>1
  <2>2. CASE \E p \in Pollers : holding[p] = j
    <3>1. PICK p \in Pollers : holding[p] = j
      BY <2>2
    <3>2. Places(j) = {<<"handler", p>>}
      BY <1>1, <3>1 DEF PlaceInv, Exclusive, Unrepeated, Places
    <3>3. QED
      BY <3>2
  <2>3. CASE InSeq(j, received[t])
    <3>1. Places(j) = {<<"runner", t>>}
      BY <1>1, <1>2, <2>3 DEF PlaceInv, Exclusive, Places
    <3>2. QED
      BY <3>1
  <2>4. CASE j \in lost
    <3>1. Places(j) = {<<"lost", t>>}
      BY <1>1, <2>4 DEF PlaceInv, Exclusive, Places
    <3>2. QED
      BY <3>1
  <2>5. QED
    BY <1>4, <2>1, <2>2, <2>3, <2>4 DEF PlaceInv, Somewhere
<1>5. stage[j] # "new" => Cardinality(Places(j)) = 1
  BY <1>4, OnePlace
<1>6. QED
  BY <1>2, <1>3, <1>5

\* However many polls a runner id has in flight, a submitted job is at every
\* moment in exactly one place: its target's queue, one handler, its target
\* runner, or a connection the client closed.  A job is never duplicated by
\* two polls, routed to another runner or forgotten by the dispatcher.
THEOREM PlacesExact == Spec => []ExactlyOnePlace
<1>1. Init => PlaceInv
  BY NoJobAssumption, RunnerOfAssumption
     DEF Init, PlaceInv, Routed, Unrepeated, Exclusive, Somewhere, InSeq, Distinct
<1>2. TypeOK /\ PlaceInv /\ [Next]_vars => PlaceInv'
  BY PlaceStep
<1>3. TypeOK /\ PlaceInv => ExactlyOnePlace
  BY PlacesCounted
<1>4. QED
  BY <1>1, <1>2, <1>3, TypeCorrect, PTL DEF Spec

-------------------------------------------------------------------------------
(* The dispatcher implements JobQueue when each runner id has one poll in    *)
(* flight: then at most one job is outside the queue on its way to a runner, *)
(* and it is the one that left the queue last.                               *)

\* What the refinement mapping shows for a runner does not change when neither
\* its queue nor the jobs its polls hold do.
LEMMA WaitingFrame ==
  ASSUME NEW r \in Runners, queues'[r] = queues[r],
         \A p \in Pollers : RunnerOf[p] = r => holding'[p] = holding[p]
  PROVE  Waiting(r)' = Waiting(r)
<1>1. Carried(r)' = Carried(r)
  BY DEF Carried
<1>2. CASE Carried(r) = {}
  BY <1>1, <1>2 DEF Waiting
<1>3. CASE Carried(r) # {}
  <2> DEFINE c == CHOOSE p \in Carried(r) : TRUE
  <2>1. c \in Carried(r)
    BY <1>3
  <2>2. holding'[c] = holding[c]
    BY <2>1 DEF Carried
  <2> HIDE DEF c
  <2>3. Waiting(r) = <<holding[c]>> \o queues[r]
    BY <1>3 DEF Waiting, c
  <2>4. Waiting(r)' = <<holding'[c]>> \o queues'[r]
    BY <1>1, <1>3 DEF Waiting, c
  <2>5. QED
    BY <2>2, <2>3, <2>4
<1>4. QED
  BY <1>2, <1>3

\* With a single poll per runner, the jobs waiting at a poll's runner are the
\* one it holds, if any, and then the queue.
LEMMA WaitingAtPoll ==
  ASSUME OnePollPerRunner, NEW p \in Pollers
  PROVE  /\ holding[p] = NoJob => Waiting(RunnerOf[p]) = queues[RunnerOf[p]]
         /\ holding[p] # NoJob =>
               Waiting(RunnerOf[p]) = <<holding[p]>> \o queues[RunnerOf[p]]
         /\ holding'[p] = NoJob => Waiting(RunnerOf[p])' = queues'[RunnerOf[p]]
         /\ holding'[p] # NoJob =>
               Waiting(RunnerOf[p])' = <<holding'[p]>> \o queues'[RunnerOf[p]]
<1> DEFINE r == RunnerOf[p]
<1>1. Carried(r) = IF holding[p] = NoJob THEN {} ELSE {p}
  BY DEF Carried, OnePollPerRunner
<1>2. Carried(r)' = IF holding'[p] = NoJob THEN {} ELSE {p}
  BY DEF Carried, OnePollPerRunner
<1>3. (CHOOSE q \in {p} : TRUE) = p
  OBVIOUS
<1> HIDE DEF r
<1>4. /\ holding[p] = NoJob => Waiting(r) = queues[r]
      /\ holding[p] # NoJob => Waiting(r) = <<holding[p]>> \o queues[r]
  BY <1>1, <1>3 DEF Waiting
<1>5. /\ holding'[p] = NoJob => Waiting(r)' = queues'[r]
      /\ holding'[p] # NoJob => Waiting(r)' = <<holding'[p]>> \o queues'[r]
  BY <1>2, <1>3 DEF Waiting
<1>6. QED
  BY <1>4, <1>5 DEF r

\* A runner no poll serves has exactly its queue waiting.
LEMMA WaitingUnserved ==
  ASSUME NEW r \in Runners, \A p \in Pollers : RunnerOf[p] # r
  PROVE  Waiting(r) = queues[r] /\ Waiting(r)' = queues'[r]
<1>1. Carried(r) = {} /\ Carried(r)' = {}
  BY DEF Carried
<1>2. QED
  BY <1>1 DEF Waiting

\* Putting a job in front of a queue: its head, its tail, and appending to it.
LEMMA InFront ==
  ASSUME NEW S, NEW x \in S, NEW s \in Seq(S)
  PROVE  /\ <<x>> \o s # <<>>
         /\ Head(<<x>> \o s) = x
         /\ Tail(<<x>> \o s) = s
         /\ \A e \in S : <<x>> \o Append(s, e) = Append(<<x>> \o s, e)
         /\ s # <<>> => <<Head(s)>> \o Tail(s) = s
OBVIOUS

\* The abstract queue as a function of the dispatcher's state.
AbsWaiting == [r \in Runners |-> Waiting(r)]
AbsSubmitted == {j \in Jobs : stage[j] # "new"}

\* A step that leaves the abstract state alone is a stuttering step of JobQueue.
LEMMA Stutters ==
  ASSUME TypeOK, UNCHANGED <<queues, holding, received, lost>>,
         \A j \in Jobs : stage'[j] = "new" <=> stage[j] = "new"
  PROVE  UNCHANGED Abstract!absVars
<1>1. AbsWaiting' = AbsWaiting
  BY WaitingFrame DEF AbsWaiting
<1>2. AbsSubmitted' = AbsSubmitted
  BY DEF AbsSubmitted
<1>3. QED
  BY <1>1, <1>2 DEF Abstract!absVars, AbsWaiting, AbsSubmitted

\* QueueJob's append is a submission: the job goes behind everything waiting,
\* the one a handler carries included.
LEMMA AppendSubmits ==
  ASSUME OnePollPerRunner, TypeOK, NEW j \in Jobs, QueueAppend(j)
  PROVE  \E t \in Runners : t = target[j] /\ Abstract!Submit(j, t)
<1> USE RunnerOfAssumption, NoJobAssumption
<1>0. PICK t \in Runners : t = target[j]
  BY DEF TypeOK
<1>1. t \in Runners /\ queues[t] \in Seq(Jobs)
  BY DEF TypeOK
<1>2. /\ queues'[t] = Append(queues[t], j)
      /\ \A r \in Runners \ {t} : queues'[r] = queues[r]
      /\ UNCHANGED <<holding, received, lost>>
  BY <1>0, <1>1 DEF QueueAppend, TypeOK
<1>3. j \notin AbsSubmitted /\ AbsSubmitted' = AbsSubmitted \cup {j}
  BY DEF QueueAppend, TypeOK, AbsSubmitted
<1>4. Waiting(t)' = Append(Waiting(t), j)
  <2>1. ASSUME NEW p \in Pollers, RunnerOf[p] = t
        PROVE  Waiting(t)' = Append(Waiting(t), j)
    <3>1. holding[p] = NoJob \/ holding[p] \in Jobs
      BY DEF TypeOK
    <3>2. holding'[p] = holding[p]
      BY <1>2
    <3>3. <<holding[p]>> \o Append(queues[t], j) = Append(<<holding[p]>> \o queues[t], j)
      BY <1>1, <3>1, InFront
    <3>4. QED
      BY <1>2, <2>1, <3>1, <3>2, <3>3, WaitingAtPoll
  <2>2. CASE \A p \in Pollers : RunnerOf[p] # t
    BY <1>1, <1>2, <2>2, WaitingUnserved
  <2>3. QED
    BY <2>1, <2>2
<1>5. \A r \in Runners \ {t} : Waiting(r)' = Waiting(r)
  BY <1>2, WaitingFrame
<1>6. AbsWaiting' = [AbsWaiting EXCEPT ![t] = Append(@, j)]
  BY <1>1, <1>4, <1>5 DEF AbsWaiting
<1>7. Abstract!Submit(j, t)
  BY <1>2, <1>3, <1>6 DEF Abstract!Submit, AbsWaiting, AbsSubmitted
<1>8. QED
  BY <1>0, <1>7

\* PollJob taking the head of a queue is invisible from outside.
LEMMA TakeIsInvisible ==
  ASSUME OnePollPerRunner, TypeOK, NEW p \in Pollers, PollCheck(p),
         queues[RunnerOf[p]] # <<>>
  PROVE  UNCHANGED Abstract!absVars
<1> USE RunnerOfAssumption, NoJobAssumption
<1> DEFINE u == RunnerOf[p]
<1>1. u \in Runners /\ queues[u] \in Seq(Jobs) /\ Head(queues[u]) \in Jobs
  BY DEF TypeOK
<1>2. /\ queues'[u] = Tail(queues[u]) /\ holding'[p] = Head(queues[u])
      /\ \A r \in Runners \ {u} : queues'[r] = queues[r]
      /\ \A q \in Pollers \ {p} : holding'[q] = holding[q]
      /\ UNCHANGED <<stage, received, lost>>
  BY <1>1 DEF PollCheck, TypeOK
<1>3. holding[p] = NoJob /\ holding'[p] # NoJob
  BY <1>1, <1>2 DEF PollCheck, TypeOK
<1>4. Waiting(u)' = Waiting(u)
  BY <1>1, <1>2, <1>3, WaitingAtPoll, InFront
<1>5. \A r \in Runners \ {u} : Waiting(r)' = Waiting(r)
  BY <1>2, WaitingFrame
<1>6. AbsWaiting' = AbsWaiting
  BY <1>4, <1>5 DEF AbsWaiting
<1>7. AbsSubmitted' = AbsSubmitted
  BY <1>2 DEF AbsSubmitted
<1>8. QED
  BY <1>2, <1>6, <1>7 DEF Abstract!absVars, AbsWaiting, AbsSubmitted

\* handlePollJob's write delivers the first waiting job, or drops it when the
\* client has gone.
LEMMA RespondDelivers ==
  ASSUME OnePollPerRunner, TypeOK, NEW p \in Pollers, Respond(p)
  PROVE  Abstract!Deliver(RunnerOf[p]) \/ Abstract!Drop(RunnerOf[p])
<1> USE RunnerOfAssumption, NoJobAssumption
<1> DEFINE u == RunnerOf[p]
           j == holding[p]
<1>1. u \in Runners /\ queues[u] \in Seq(Jobs) /\ j \in Jobs /\ j # NoJob
  BY DEF Respond, TypeOK
<1>2. /\ holding'[p] = NoJob
      /\ \A q \in Pollers \ {p} : holding'[q] = holding[q]
      /\ UNCHANGED <<queues, stage>>
  BY DEF Respond, TypeOK
<1>3. Waiting(u) = <<j>> \o queues[u] /\ Waiting(u)' = queues[u]
  BY <1>1, <1>2, WaitingAtPoll
<1> HIDE DEF j
<1>4. Waiting(u) # <<>> /\ Head(Waiting(u)) = j /\ Tail(Waiting(u)) = Waiting(u)'
  BY <1>1, <1>3, InFront
<1>5. \A r \in Runners \ {u} : Waiting(r)' = Waiting(r)
  BY <1>2, WaitingFrame
<1>6. /\ AbsWaiting[u] # <<>> /\ Head(AbsWaiting[u]) = j
      /\ AbsWaiting' = [AbsWaiting EXCEPT ![u] = Tail(@)]
  BY <1>1, <1>4, <1>5 DEF AbsWaiting
<1>7. AbsSubmitted' = AbsSubmitted
  BY <1>2 DEF AbsSubmitted
<1>8. \/ received' = [received EXCEPT ![u] = Append(@, j)] /\ lost' = lost
      \/ lost' = lost \cup {j} /\ received' = received
  BY DEF Respond, j
<1>9. QED
  BY <1>6, <1>7, <1>8 DEF Abstract!Deliver, Abstract!Drop, AbsWaiting, AbsSubmitted

\* With one poll in flight per runner id, the dispatcher is one FIFO per
\* runner: every step of a handler is a submission, a delivery or a drop of
\* the first waiting job, or is invisible.
THEOREM Refines ==
  ASSUME OnePollPerRunner
  PROVE  Spec => ImplementsJobQueue
<1>1. Init => Abstract!AbsInit
  <2>1. Init => AbsWaiting = [r \in Runners |-> <<>>]
    BY DEF Init, AbsWaiting, Waiting, Carried
  <2>2. Init => AbsSubmitted = {}
    BY DEF Init, AbsSubmitted
  <2>3. QED
    BY <2>1, <2>2 DEF Init, Abstract!AbsInit, AbsWaiting, AbsSubmitted
<1>2. TypeOK /\ [Next]_vars => [Abstract!AbsNext]_(Abstract!absVars)
  <2> SUFFICES ASSUME TypeOK, [Next]_vars
               PROVE  Abstract!AbsNext \/ UNCHANGED Abstract!absVars
    OBVIOUS
  <2>1. ASSUME NEW j \in Jobs, QueueAppend(j)
        PROVE  Abstract!AbsNext
    <3>1. PICK t \in Runners : Abstract!Submit(j, t)
      BY <2>1, AppendSubmits
    <3>2. QED
      BY <3>1 DEF Abstract!AbsNext
  <2>2. ASSUME NEW j \in Jobs, QueueSignal(j)
        PROVE  UNCHANGED Abstract!absVars
    BY <2>2, Stutters DEF QueueSignal, TypeOK
  <2>3. ASSUME NEW p \in Pollers, PollStart(p) \/ PollWake(p) \/ PollCtxDone(p)
        PROVE  UNCHANGED Abstract!absVars
    BY <2>3, Stutters DEF PollStart, PollWake, PollCtxDone
  <2>4. ASSUME NEW p \in Pollers, PollCheck(p)
        PROVE  UNCHANGED Abstract!absVars
    <3>1. CASE queues[RunnerOf[p]] # <<>>
      BY <2>4, <3>1, TakeIsInvisible
    <3>2. CASE queues[RunnerOf[p]] = <<>>
      BY <2>4, <3>2, Stutters DEF PollCheck
    <3>3. QED
      BY <3>1, <3>2
  <2>5. ASSUME NEW p \in Pollers, Respond(p)
        PROVE  Abstract!AbsNext
    <3>1. RunnerOf[p] \in Runners
      BY RunnerOfAssumption
    <3>2. CASE Abstract!Deliver(RunnerOf[p])
      BY <3>1, <3>2 DEF Abstract!AbsNext
    <3>3. CASE Abstract!Drop(RunnerOf[p])
      BY <3>1, <3>3 DEF Abstract!AbsNext
    <3>4. QED
      BY <2>5, <3>2, <3>3, RespondDelivers
  <2>6. ASSUME NEW p \in Pollers, NEW how \in CtxStates, CtxEnds(p, how)
        PROVE  UNCHANGED Abstract!absVars
    BY <2>6, Stutters DEF CtxEnds
  <2>7. CASE UNCHANGED vars
    BY <2>7, Stutters DEF vars
  <2>8. QED
    BY <2>1, <2>2, <2>3, <2>4, <2>5, <2>6, <2>7 DEF Next
<1>3. QED
  BY <1>1, <1>2, TypeCorrect, PTL DEF Spec, ImplementsJobQueue, Abstract!AbsSpec
===============================================================================
