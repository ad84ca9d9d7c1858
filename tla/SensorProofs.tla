----------------------------- MODULE SensorProofs -----------------------------
(* Machine-checked facts about the sensor, for any cgroups, paths,          *)
(* destinations, host names, capacities and numbers of calls and faults.    *)
EXTENDS Sensor, TLAPS

(* The two filters                                                          *)

\* A marker of connectDedup stands for a system call that was read and has not
\* been used to drop a kprobe record: alone + excess is the number of system
\* calls read that have not.  A name of tlsDedup was sent untagged.
FilterInv ==
    /\ ring \in Seq(Record) /\ Len(ring) <= RingCap
    /\ pending \subseteq Keys
    /\ alone \in [Keys -> Int] /\ excess \in [Keys -> Int]
    /\ \A k \in Keys : alone[k] + excess[k] >= 0
    /\ \A k \in pending : alone[k] + excess[k] >= 1
    /\ seen \subseteq plain
    /\ named \subseteq plain

\* The variables that the filters are about.
filtering == <<ring, pending, alone, excess, seen, named, plain>>

\* The ring has a capacity.
LEMMA RingCapIsNat == RingCap \in Nat
  BY BoundsAssumption

\* What a record of a connect looks like to the reader.
LEMMA ConnectFields ==
    ASSUME NEW r \in Record, r.type = "connect"
    PROVE  r.key \in Keys /\ r.src \in {"syscall", "kprobe"}
  BY DEF Record, Connect, Tls, Other

\* Every record a probe makes is one.
LEMMA Records ==
    /\ Other \in Record
    /\ \A n \in Names : Tls(n) \in Record
    /\ \A k \in Keys, src \in {"syscall", "kprobe"}, by \in {"syscall", "uring"} :
          Connect(k, src, by) \in Record
  BY DEF Record

\* Whatever a probe submits, the ring holds records, and the filters sleep.
LEMMA SubmitStep ==
    ASSUME FilterInv, NEW r \in Record, Submit(r), UNCHANGED <<pending, alone, excess, seen, named, plain>>
    PROVE  FilterInv'
  BY BoundsAssumption DEF FilterInv, Submit, Full

\* The reader takes a record of a connect.
LEMMA ReadConnectStep ==
    ASSUME FilterInv, NEW r \in Record, r.type = "connect", ReadConnect(r),
           ring' \in Seq(Record), Len(ring)' <= RingCap
    PROVE  FilterInv'
<1> USE DEF FilterInv
<1>1. r.key \in Keys /\ r.src \in {"syscall", "kprobe"}
  BY ConnectFields
<1>2. UNCHANGED <<seen, named, plain>>
  BY DEF ReadConnect
<1>3. CASE r.src = "syscall"
  <2>1. /\ pending' = pending \cup {r.key}
        /\ alone' = [alone EXCEPT ![r.key] = @ + 1 - 0]
        /\ excess' = [excess EXCEPT ![r.key] = @ + 1 - 1]
    BY <1>3 DEF ReadConnect, connectObserve, Second
  <2>2. QED
    BY <1>1, <1>2, <2>1
<1>4. CASE r.src = "kprobe" /\ r.key \in pending
  <2>1. /\ pending' = pending \ {r.key}
        /\ alone' = [alone EXCEPT ![r.key] = @ + 0 - (IF Second(r) THEN 1 ELSE 0)]
        /\ excess' = [excess EXCEPT ![r.key] = @ + 0 - (IF Second(r) THEN 0 ELSE 1)]
    BY <1>4 DEF ReadConnect, connectObserve
  <2>2. CASE Second(r)
    BY <1>1, <1>2, <1>4, <2>1, <2>2
  <2>3. CASE ~Second(r)
    BY <1>1, <1>2, <1>4, <2>1, <2>3
  <2>4. QED
    BY <2>2, <2>3
<1>5. CASE r.src = "kprobe" /\ r.key \notin pending
  <2>1. /\ pending' = pending \ {r.key}
        /\ alone' = [alone EXCEPT ![r.key] = @ + 0 - (IF Second(r) THEN 1 ELSE 0)]
        /\ excess' = [excess EXCEPT ![r.key] = @ + 1 - (IF Second(r) THEN 0 ELSE 1)]
    BY <1>5 DEF ReadConnect, connectObserve
  <2>2. CASE Second(r)
    BY <1>1, <1>2, <1>5, <2>1, <2>2
  <2>3. CASE ~Second(r)
    BY <1>1, <1>2, <1>5, <2>1, <2>3
  <2>4. QED
    BY <2>2, <2>3
<1>6. QED
  BY <1>1, <1>3, <1>4, <1>5

\* One read.
LEMMA ReadStep ==
    ASSUME FilterInv, Read
    PROVE  FilterInv'
<1> DEFINE r == Head(ring)
<1>1. ring # <<>> /\ ring' = Tail(ring)
  BY DEF Read
<1>2. r \in Record /\ ring' \in Seq(Record) /\ Len(ring)' <= RingCap
  BY <1>1, BoundsAssumption DEF FilterInv
<1>3. CASE r.type = "connect" /\ ReadConnect(r)
  BY <1>2, <1>3, ReadConnectStep
<1>4. CASE r.type = "tls" /\ ReadTls(r)
  BY <1>2, <1>4 DEF ReadTls, tlsObserve, FilterInv
<1>5. CASE r.type = "other" /\ ReadOther
  BY <1>2, <1>5 DEF ReadOther, counts, FilterInv
<1>6. QED
  BY <1>3, <1>4, <1>5 DEF Read

\* The workload fills the ring.
LEMMA WorkloadStep ==
    ASSUME FilterInv, Workload
    PROVE  FilterInv'
<1>1. CASE UNCHANGED filtering
  BY <1>1 DEF filtering, FilterInv
<1>2. ASSUME NEW p \in Paths, handle_openat(p) PROVE FilterInv'
  <2>1. UNCHANGED <<pending, alone, excess, seen, named, plain>>
    BY <1>2 DEF handle_openat, Otherwise, events, counts
  <2>2. CASE Submit(Other)
    BY <2>1, <2>2, Records, SubmitStep
  <2>3. CASE UNCHANGED ring
    BY <1>1, <2>1, <2>3 DEF filtering
  <2>4. QED
    BY <1>2, <2>2, <2>3 DEF handle_openat
<1>3. CASE handle_execve \/ handle_sendmsg
  <2>1. Submit(Other) /\ UNCHANGED <<pending, alone, excess, seen, named, plain>>
    BY <1>3 DEF handle_execve, handle_sendmsg, Otherwise, events, counts
  <2>2. QED
    BY <2>1, Records, SubmitStep
<1>4. CASE handle_sendto \/ handle_write
  <2>1. UNCHANGED <<pending, alone, excess, seen, named, plain>>
    BY <1>4 DEF handle_sendto, handle_write, Otherwise, events, counts
  <2>2. PICK r \in Record : Submit(r)
    BY <1>4, Records DEF handle_sendto, handle_write
  <2>3. QED
    BY <2>1, <2>2, SubmitStep
<1>5. CASE handle_sendmmsg
  <2>1. UNCHANGED <<pending, alone, excess, seen, named, plain>>
    BY <1>5 DEF handle_sendmmsg, Otherwise, events, counts
  <2>2. <<Other, Other>> \in Seq(Record)
    BY Records
  <2>3. ring' \in Seq(Record) /\ Len(ring)' <= RingCap
    <3>1. CASE Len(ring) + 2 <= RingCap /\ ring' = ring \o <<Other, Other>>
      BY <2>2, <3>1, RingCapIsNat DEF FilterInv
    <3>2. CASE Len(ring) + 1 = RingCap /\ ring' = Append(ring, Other)
      BY <3>2, Records, RingCapIsNat DEF FilterInv
    <3>3. CASE UNCHANGED ring
      BY <3>3 DEF FilterInv
    <3>4. QED
      BY <1>5, <3>1, <3>2, <3>3 DEF handle_sendmmsg
  <2>4. QED
    BY <2>1, <2>3 DEF FilterInv
<1>6. ASSUME NEW n \in Names, handle_ssl_ctrl(n) PROVE FilterInv'
  <2>1. Submit(Tls(n)) /\ UNCHANGED <<pending, alone, excess, seen, named, plain>>
    BY <1>6 DEF handle_ssl_ctrl, Otherwise, events, counts
  <2>2. QED
    BY <2>1, Records, SubmitStep
<1>7. ASSUME NEW k \in Keys, NEW tcp \in BOOLEAN, handle_connect(k, tcp) PROVE FilterInv'
  <2>1. Submit(Connect(k, "syscall", "syscall")) /\ UNCHANGED <<pending, alone, excess, seen, named, plain>>
    BY <1>7 DEF handle_connect, events, counts
  <2>2. QED
    BY <2>1, Records, SubmitStep
<1>8. ASSUME NEW k \in Keys, SyscallGoesOn(k) \/ UringConnect(k) PROVE FilterInv'
  <2>1. UNCHANGED <<pending, alone, excess, seen, named, plain>>
    BY <1>8 DEF SyscallGoesOn, UringConnect, events, counts
  <2>2. PICK r \in Record : Submit(r)
    BY <1>8, Records DEF SyscallGoesOn, UringConnect, handle_tcp_connect
  <2>3. QED
    BY <2>1, <2>2, SubmitStep
<1>9. QED
  BY <1>2, <1>3, <1>4, <1>5, <1>6, <1>7, <1>8 DEF Workload

\* Every step keeps the bookkeeping of the filters right.
LEMMA FilterStep ==
    ASSUME FilterInv, [Next]_vars
    PROVE  FilterInv'
<1>1. CASE UNCHANGED filtering
  BY <1>1 DEF filtering, FilterInv
<1>2. ASSUME NEW opt \in Attachable, New(opt) PROVE FilterInv'
  BY <1>1, <1>2 DEF New, kernel, counts, filtering
<1>3. ASSUME NEW c \in Cgroups, AddCgroup(c) PROVE FilterInv'
  BY <1>1, <1>3 DEF AddCgroup, kernel, events, counts, filtering
<1>4. CASE Registration
  BY <1>1, <1>4 DEF Registration, AddPath, Registered, rollbackPaths, RemoveCgroup, Close,
     kernel, events, counts, filtering
<1>5. CASE Workload
  BY <1>5, WorkloadStep
<1>6. CASE Read
  BY <1>6, ReadStep
<1>7. CASE Send \/ ReadClosed
  <2>1. UNCHANGED <<pending, alone, excess, seen, named, plain>>
    BY <1>7 DEF Send, ReadClosed, counts
  <2>2. ring' = ring \/ ring' = <<>>
    BY <1>7 DEF Send, ReadClosed
  <2>3. ring' \in Seq(Record) /\ Len(ring)' <= RingCap
    <3>1. CASE ring' = ring
      BY <3>1 DEF FilterInv
    <3>2. CASE ring' = <<>>
      BY <3>2, RingCapIsNat
    <3>3. QED
      BY <2>2, <3>1, <3>2
  <2>4. QED
    BY <2>1, <2>3 DEF FilterInv
<1>8. CASE Forward \/ Cancel \/ CloseReader
  BY <1>1, <1>8 DEF Forward, Cancel, CloseReader, kernel, counts, filtering
<1>9. CASE Tick
  BY <1>9 DEF Tick, kernel, counts, FilterInv
<1>10. CASE UNCHANGED vars
  BY <1>1, <1>10 DEF vars, kernel, events, counts, filtering
<1>11. QED
  BY <1>2, <1>3, <1>4, <1>5, <1>6, <1>7, <1>8, <1>9, <1>10 DEF Next, Reader

\* What the filters hide is accounted for, however records interleave, are lost
\* or come late: the connects of a destination without an event are at most the
\* system calls read without their own kprobe record, and each host name is
\* sent once without a tag (connectDedup.observe, tlsDedup.observe).
THEOREM FiltersAccount == Spec => []HiddenIsKnown
<1>1. Init => FilterInv
  BY BoundsAssumption DEF Init, FilterInv
<1>2. FilterInv /\ [Next]_vars => FilterInv'
  BY FilterStep
<1>3. FilterInv => HiddenIsKnown
  BY DEF FilterInv, HiddenIsKnown, OnlyUnpairedHide, NoNameHidden
<1>4. QED
  BY <1>1, <1>2, <1>3, PTL DEF Spec

-------------------------------------------------------------------------------
(* The maps of the probes                                                  *)

\* While a job is registered or being registered, its prefixes so far fit, and
\* nothing that a failed delete left behind is counted as its own.
CurrentJob ==
    /\ at \in 1..(Len(PathsOf[cg]) + 1)
    /\ \A i \in 1..(at - 1) : PathsOf[cg][i] \notin BadPaths
    /\ cg \notin staleCg
    /\ Added \cap stalePath = {}

MapsInv ==
    /\ cg \in Cgroups \cup {None}
    /\ cg = None <=> phase \in {"down", "idle", "closed"}
    /\ cg # None => CurrentJob
    /\ phase # "run" => registered = {}
    /\ phase = "run" => registered = {cg} /\ at = Len(PathsOf[cg]) + 1
    /\ cgmap = (IF cg = None THEN {} ELSE {cg}) \cup staleCg
    /\ filter = (IF cg = None THEN {} ELSE Added) \cup stalePath

\* The variables that the maps are about.
mapping == <<phase, cg, at, registered, cgmap, filter, staleCg, stalePath>>

\* The invariant gives what the probes watch.
LEMMA MapsInvImplies ==
    ASSUME MapsInv
    PROVE  MapsFollowJobs
<1> USE DEF MapsInv
<1>1. Expected = IF cg = None THEN {} ELSE {cg}
  BY DEF Expected
<1>2. ASSUME phase = "run" PROVE registered = {cg} /\ Range(PathsOf[cg]) \subseteq filter
  <2>1. cg \in Cgroups /\ CurrentJob /\ at = Len(PathsOf[cg]) + 1 /\ filter = Added \cup stalePath
    BY <1>2
  <2>2. PathsOf[cg] \in Seq(Paths \cup BadPaths)
    BY <2>1, PathsAssumption
  <2>3. at - 1 = Len(PathsOf[cg]) /\ DOMAIN PathsOf[cg] = 1..(at - 1)
    BY <2>1, <2>2
  <2>4. Range(PathsOf[cg]) \subseteq Added
    BY <2>1, <2>3 DEF Range, Added, CurrentJob
  <2>5. QED
    BY <1>2, <2>1, <2>4
<1>3. CASE cg = None
  BY <1>1, <1>2, <1>3 DEF MapsFollowJobs
<1>4. CASE cg # None
  <2>1. Expected = {cg} /\ Expected # {}
    BY <1>1, <1>4
  <2>2. QED
    BY <1>2, <1>4, <2>1 DEF MapsFollowJobs
<1>5. QED
  BY <1>3, <1>4

\* A job's cgroup is put into the map ...
LEMMA AddCgroupStep ==
    ASSUME MapsInv, NEW c \in Cgroups, AddCgroup(c)
    PROVE  MapsInv'
<1> USE DEF MapsInv
<1>1. phase = "idle" /\ cg = None /\ UNCHANGED <<registered, filter, stalePath>> /\ c # None
  BY NoneAssumption DEF AddCgroup
<1>2. CASE cgmap' = cgmap \cup {c} /\ staleCg' = staleCg \ {c} /\ cg' = c /\ at' = 1 /\ phase' = "add"
  <2>1. PathsOf[c] \in Seq(Paths \cup BadPaths)
    BY PathsAssumption
  <2>2. Len(PathsOf[c]) \in Nat
    BY <2>1
  <2>3. Added' = {}
    BY <1>2 DEF Added
  <2>4. CurrentJob'
    BY <1>2, <2>2, <2>3 DEF CurrentJob
  <2>5. QED
    BY <1>1, <1>2, <2>3, <2>4
<1>3. CASE UNCHANGED <<cgmap, staleCg, cg, at, phase>>
  BY <1>1, <1>3
<1>4. QED
  BY <1>2, <1>3 DEF AddCgroup

\* ... and its prefixes one by one.
LEMMA AddPathStep ==
    ASSUME MapsInv, AddPath
    PROVE  MapsInv'
<1> DEFINE p == PathsOf[cg][at]
<1>1. /\ phase = "add" /\ at <= Len(PathsOf[cg]) /\ UNCHANGED <<cg, registered, staleCg, cgmap>>
      /\ cg # None /\ CurrentJob /\ cg \in Cgroups
  BY DEF AddPath, MapsInv
<1>2. Len(PathsOf[cg]) \in Nat
  BY <1>1, PathsAssumption
<1>3. CASE /\ p \notin BadPaths /\ filter' = filter \cup {p} /\ stalePath' = stalePath \ {p}
           /\ at' = at + 1 /\ UNCHANGED phase
  <2>1. at \in Nat /\ at >= 1
    BY <1>1, <1>2 DEF CurrentJob
  <2>2. 1..(at' - 1) = (1..(at - 1)) \cup {at}
    BY <1>3, <2>1
  <2>3. Added' = Added \cup {p}
    BY <1>1, <1>3, <2>2 DEF Added
  <2>4. at' \in 1..(Len(PathsOf[cg]) + 1)
    BY <1>1, <1>2, <1>3, <2>1
  <2>5. \A i \in 1..(at' - 1) : PathsOf[cg][i] \notin BadPaths
    BY <1>1, <1>3, <2>2 DEF CurrentJob
  <2>6. CurrentJob'
    BY <1>1, <1>3, <2>3, <2>4, <2>5 DEF CurrentJob
  <2>7. QED
    BY <1>1, <1>3, <2>3, <2>6 DEF MapsInv
<1>4. CASE phase' = "rollback" /\ UNCHANGED <<filter, stalePath, at>>
  BY <1>1, <1>4 DEF MapsInv, CurrentJob, Added
<1>5. QED
  BY <1>3, <1>4 DEF AddPath

\* Rollback and RemoveCgroup take out what the job put in, or note the rest.
LEMMA DeleteStep ==
    ASSUME MapsInv, rollbackPaths \/ RemoveCgroup
    PROVE  MapsInv'
<1>1. /\ phase \in {"rollback", "run"} /\ Delete({cg}, Added) /\ registered' = {}
      /\ phase' = "idle" /\ cg' = None
  BY DEF rollbackPaths, RemoveCgroup, MapsInv
<1>2. cg # None /\ cg \notin staleCg /\ Added \cap stalePath = {}
  BY <1>1 DEF MapsInv, CurrentJob
<1>3. cgmap = {cg} \cup staleCg /\ filter = Added \cup stalePath
  BY <1>2 DEF MapsInv
<1>4. cgmap' = staleCg' /\ filter' = stalePath'
  <2>1. CASE /\ cgmap' = cgmap \ {cg} /\ filter' = filter \ Added
             /\ UNCHANGED <<staleCg, stalePath>>
    BY <1>2, <1>3, <2>1
  <2>2. ASSUME NEW lc \in SUBSET {cg}, NEW lp \in SUBSET Added,
               cgmap' = cgmap \ ({cg} \ lc), staleCg' = staleCg \cup lc,
               filter' = filter \ (Added \ lp), stalePath' = stalePath \cup lp
        PROVE  cgmap' = staleCg' /\ filter' = stalePath'
    BY <1>2, <1>3, <2>2
  <2>3. QED
    BY <1>1, <2>1, <2>2 DEF Delete
<1>5. QED
  BY <1>1, <1>4 DEF MapsInv

\* Every step keeps the maps in line with the job.
LEMMA MapsStep ==
    ASSUME MapsInv, [Next]_vars
    PROVE  MapsInv'
<1>1. CASE UNCHANGED mapping
  BY <1>1 DEF mapping, MapsInv, CurrentJob, Added
<1>2. ASSUME NEW opt \in Attachable, New(opt) PROVE MapsInv'
  BY <1>2 DEF New, maps, MapsInv
<1>3. ASSUME NEW c \in Cgroups, AddCgroup(c) PROVE MapsInv'
  BY <1>3, AddCgroupStep
<1>4. CASE AddPath
  BY <1>4, AddPathStep
<1>5. CASE Registered
  BY <1>5 DEF Registered, maps, MapsInv, CurrentJob, Added
<1>6. CASE rollbackPaths \/ RemoveCgroup
  BY <1>6, DeleteStep
<1>7. CASE Close
  BY <1>7 DEF Close, MapsInv
<1>8. CASE Workload
  BY <1>1, <1>8 DEF Workload, handle_openat, handle_execve, handle_sendto, handle_write,
     handle_sendmsg, handle_sendmmsg, handle_ssl_ctrl, handle_connect, SyscallGoesOn,
     UringConnect, Otherwise, registry, maps, mapping
<1>9. CASE Reader \/ Forward \/ Cancel \/ CloseReader \/ Tick
  BY <1>1, <1>9 DEF Reader, Read, Send, ReadClosed, Forward, Cancel, CloseReader, Tick, registry,
     maps, mapping
<1>10. CASE UNCHANGED vars
  BY <1>1, <1>10 DEF vars, registry, maps, mapping
<1>11. QED
  BY <1>2, <1>3, <1>4, <1>5, <1>6, <1>7, <1>8, <1>9, <1>10 DEF Next, Registration

\* The probes watch the cgroup and all the prefixes of the job that runs, and
\* nothing else but what a failed delete left behind (AddCgroup with its
\* rollback, RemoveCgroup).
THEOREM MapsAreRight == Spec => []MapsFollowJobs
<1>1. Init => MapsInv
  BY DEF Init, MapsInv
<1>2. MapsInv /\ [Next]_vars => MapsInv'
  BY MapsStep
<1>3. MapsInv => MapsFollowJobs
  BY MapsInvImplies
<1>4. QED
  BY <1>1, <1>2, <1>3, PTL DEF Spec

-------------------------------------------------------------------------------
(* The records of a destination come in pairs                              *)

(* That the number of events is right is not inductive: it depends on what *)
(* is still in the ring and on connects that have made one record of two.  *)

\* The kinds of record of destination k: the system call's, the kprobe's of the
\* same connect, and the kprobe's of an io_uring connect.
FirstOf(r, k) == r.type = "connect" /\ r.key = k /\ r.src = "syscall"
SecondOf(r, k) == r.type = "connect" /\ r.key = k /\ Second(r)
AloneOf(r, k) == r.type = "connect" /\ r.key = k /\ r.src = "kprobe" /\ r.by = "uring"
About(r, k) == FirstOf(r, k) \/ SecondOf(r, k) \/ AloneOf(r, k)

\* No io_uring record of k can come next, or nobody will read it.
Awaited(k) == inConnect[k] > 0 \/ "kprobe" \notin probes \/ reader = "ended"

\* Between a system call, read or not, and a later io_uring connect lies the
\* second record of the former, which uses up the marker.
Parted(k) ==
    /\ \A i, j \in DOMAIN ring : i < j /\ FirstOf(ring[i], k) /\ AloneOf(ring[j], k) =>
          \E m \in DOMAIN ring : i < m /\ m < j /\ SecondOf(ring[m], k)
    /\ k \in pending => \A j \in DOMAIN ring : AloneOf(ring[j], k) =>
          \E m \in DOMAIN ring : m < j /\ SecondOf(ring[m], k)

\* The second record of a system call, read or not, is in the ring or to come.
Followed(k) ==
    /\ \A i \in DOMAIN ring : FirstOf(ring[i], k) =>
          Awaited(k) \/ \E m \in DOMAIN ring : i < m /\ SecondOf(ring[m], k)
    /\ k \in pending => Awaited(k) \/ \E m \in DOMAIN ring : SecondOf(ring[m], k)

Paired(k) == Parted(k) /\ Followed(k) /\ excess[k] = 0

PairTypes ==
    /\ ring \in Seq(Record)
    /\ inConnect \in [Keys -> Nat]
    /\ excess \in [Keys -> Int]
    /\ phase = "down" => ring = <<>> /\ pending = {}

PairInv ==
    /\ PairTypes
    /\ ~dropped => \A k \in Keys \ disturbed : Paired(k)

\* What the pairing of k depends on besides the ring.
Same(k) == pending' = pending /\ excess'[k] = excess[k] /\ (Awaited(k) => Awaited(k)')

\* The ring stands still, and markers may expire.
LEMMA RingStays ==
    ASSUME NEW k \in Keys, Paired(k), ring' = ring, excess'[k] = excess[k],
           k \in pending' => k \in pending, Awaited(k) => Awaited(k)'
    PROVE  Paired(k)'
  BY DEF Paired, Parted, Followed

\* The ring is lost with its reader.
LEMMA RingLost ==
    ASSUME NEW k \in Keys, Paired(k), ring' = <<>>, excess'[k] = excess[k], reader' = "ended"
    PROVE  Paired(k)'
  BY DEF Paired, Parted, Followed, Awaited

\* What a record at the end of the ring adds.
LEMMA Appended ==
    ASSUME PairTypes, NEW r \in Record, ring' = Append(ring, r)
    PROVE  /\ ring' \in Seq(Record)
           /\ Len(ring) \in Nat
           /\ DOMAIN ring = 1..Len(ring)
           /\ DOMAIN ring' = 1..(Len(ring) + 1)
           /\ \A i \in DOMAIN ring : ring'[i] = ring[i]
           /\ ring'[Len(ring) + 1] = r
  BY DEF PairTypes

\* Something else is recorded.
LEMMA AppendOther ==
    ASSUME NEW k \in Keys, Paired(k), Same(k), DOMAIN ring \subseteq DOMAIN ring',
           \A i \in DOMAIN ring : ring'[i] = ring[i],
           \A i \in DOMAIN ring' : About(ring'[i], k) => i \in DOMAIN ring
    PROVE  Paired(k)'
<1>1. Parted(k)'
  BY DEF Paired, Parted, About, Same
<1>2. Followed(k)'
  BY DEF Paired, Followed, About, Same
<1>3. QED
  BY <1>1, <1>2 DEF Paired, Same

\* A system call is recorded, and its second record is to come.
LEMMA AppendFirst ==
    ASSUME PairTypes, NEW k \in Keys, Paired(k), NEW r \in Record, ring' = Append(ring, r),
           FirstOf(r, k), Same(k), Awaited(k)'
    PROVE  Paired(k)'
<1> DEFINE n == Len(ring) + 1
<1>1. /\ Len(ring) \in Nat /\ DOMAIN ring = 1..Len(ring) /\ DOMAIN ring' = 1..n
      /\ \A i \in DOMAIN ring : ring'[i] = ring[i]
      /\ ring'[n] = r
  BY Appended
<1>2. \A i \in DOMAIN ring' : AloneOf(ring'[i], k) => i \in DOMAIN ring
  BY <1>1 DEF FirstOf, AloneOf
<1>3. \A i \in DOMAIN ring', j \in DOMAIN ring : i < j => i \in DOMAIN ring
  BY <1>1
<1>4. Parted(k)'
  BY <1>1, <1>2, <1>3 DEF Paired, Parted, Same
<1>5. QED
  BY <1>4 DEF Paired, Followed, Same

\* The second record of a system call follows the first.
LEMMA AppendSecond ==
    ASSUME PairTypes, NEW k \in Keys, Paired(k), NEW r \in Record, ring' = Append(ring, r),
           SecondOf(r, k), pending' = pending, excess'[k] = excess[k]
    PROVE  Paired(k)'
<1> DEFINE n == Len(ring) + 1
<1>1. /\ Len(ring) \in Nat /\ DOMAIN ring = 1..Len(ring) /\ DOMAIN ring' = 1..n
      /\ \A i \in DOMAIN ring : ring'[i] = ring[i]
      /\ ring'[n] = r
  BY Appended
<1>2. \A i \in DOMAIN ring' : FirstOf(ring'[i], k) \/ AloneOf(ring'[i], k) => i \in DOMAIN ring
  BY <1>1 DEF FirstOf, AloneOf, SecondOf, Second
<1>3. Parted(k)'
  BY <1>1, <1>2 DEF Paired, Parted
<1>4. \A i \in DOMAIN ring' : FirstOf(ring'[i], k) => i < n
  BY <1>1, <1>2
<1>5. Followed(k)'
  BY <1>1, <1>4 DEF Followed
<1>6. QED
  BY <1>3, <1>5 DEF Paired

\* An io_uring connect, while no system call awaits its second record.
LEMMA AppendAlone ==
    ASSUME PairTypes, NEW k \in Keys, Paired(k), NEW r \in Record, ring' = Append(ring, r),
           AloneOf(r, k), Same(k), ~Awaited(k)
    PROVE  Paired(k)'
<1> DEFINE n == Len(ring) + 1
<1>1. /\ Len(ring) \in Nat /\ DOMAIN ring = 1..Len(ring) /\ DOMAIN ring' = 1..n
      /\ \A i \in DOMAIN ring : ring'[i] = ring[i]
      /\ ring'[n] = r
  BY Appended
<1>2. \A i \in DOMAIN ring' : FirstOf(ring'[i], k) => i \in DOMAIN ring
  BY <1>1 DEF FirstOf, AloneOf
<1>3. /\ \A i \in DOMAIN ring : FirstOf(ring[i], k) => \E m \in DOMAIN ring : i < m /\ SecondOf(ring[m], k)
      /\ k \in pending => \E m \in DOMAIN ring : SecondOf(ring[m], k)
  BY DEF Paired, Followed
<1>4. \A m \in DOMAIN ring : m \in DOMAIN ring' /\ m < n
  BY <1>1
<1>5. Parted(k)'
  <2>1. ASSUME NEW i \in DOMAIN ring', NEW j \in DOMAIN ring', i < j, FirstOf(ring'[i], k),
               AloneOf(ring'[j], k)
        PROVE  \E m \in DOMAIN ring' : i < m /\ m < j /\ SecondOf(ring'[m], k)
    <3>1. i \in DOMAIN ring /\ FirstOf(ring[i], k)
      BY <1>1, <1>2, <2>1
    <3>2. CASE j = n
      BY <1>1, <1>3, <1>4, <3>1, <3>2
    <3>3. CASE j \in DOMAIN ring
      <4>1. AloneOf(ring[j], k)
        BY <1>1, <2>1, <3>3
      <4>2. PICK m \in DOMAIN ring : i < m /\ m < j /\ SecondOf(ring[m], k)
        BY <2>1, <3>1, <3>3, <4>1 DEF Paired, Parted
      <4>3. QED
        BY <1>1, <1>4, <4>2
    <3>4. QED
      BY <1>1, <3>2, <3>3
  <2>2. ASSUME k \in pending', NEW j \in DOMAIN ring', AloneOf(ring'[j], k)
        PROVE  \E m \in DOMAIN ring' : m < j /\ SecondOf(ring'[m], k)
    <3>1. k \in pending
      BY <2>2 DEF Same
    <3>2. CASE j = n
      BY <1>1, <1>3, <1>4, <3>1, <3>2
    <3>3. CASE j \in DOMAIN ring
      <4>1. AloneOf(ring[j], k)
        BY <1>1, <2>2, <3>3
      <4>2. PICK m \in DOMAIN ring : m < j /\ SecondOf(ring[m], k)
        BY <3>1, <3>3, <4>1 DEF Paired, Parted
      <4>3. QED
        BY <1>1, <1>4, <4>2
    <3>4. QED
      BY <1>1, <3>2, <3>3
  <2>3. QED
    BY <2>1, <2>2 DEF Parted
<1>6. Followed(k)'
  BY <1>1, <1>2, <1>3, <1>4 DEF Followed, Same
<1>7. QED
  BY <1>5, <1>6 DEF Paired, Same

\* What is left when the reader takes the first record.
LEMMA Taken ==
    ASSUME PairTypes, ring # <<>>, ring' = Tail(ring)
    PROVE  /\ ring' \in Seq(Record)
           /\ Head(ring) \in Record /\ Head(ring) = ring[1]
           /\ DOMAIN ring = 1..Len(ring) /\ Len(ring) \in Nat /\ Len(ring) >= 1
           /\ \A i \in DOMAIN ring' : i \in Nat /\ i + 1 \in DOMAIN ring /\ ring'[i] = ring[i + 1]
           /\ \A i \in DOMAIN ring : i # 1 => i - 1 \in DOMAIN ring' /\ ring'[i - 1] = ring[i]
<1>1. Len(ring) \in Nat /\ Len(ring) >= 1 /\ DOMAIN ring = 1..Len(ring) /\ ring \in Seq(Record)
  BY DEF PairTypes
<1>2. ring' \in Seq(Record) /\ Head(ring) = ring[1] /\ Len(ring') = Len(ring) - 1
      /\ \A i \in 1..(Len(ring) - 1) : ring'[i] = ring[i + 1]
  BY <1>1
<1>3. DOMAIN ring' = 1..(Len(ring) - 1)
  BY <1>1, <1>2
<1>4. Head(ring) \in Record
  BY <1>1, <1>2
<1>5. \A i \in DOMAIN ring : i # 1 => i - 1 \in DOMAIN ring' /\ ring'[i - 1] = ring[i]
  BY <1>1, <1>2, <1>3
<1>6. \A i \in DOMAIN ring' : i \in Nat /\ i + 1 \in DOMAIN ring /\ ring'[i] = ring[i + 1]
  BY <1>1, <1>2, <1>3
<1>7. QED
  BY <1>1, <1>2, <1>4, <1>5, <1>6

\* Whatever is read, a system call in the rest of the ring is parted from the
\* io_uring connects after it, and followed.
LEMMA RestPaired ==
    ASSUME PairTypes, ring # <<>>, ring' = Tail(ring), NEW k \in Keys, Paired(k),
           Awaited(k) => Awaited(k)'
    PROVE  /\ \A i, j \in DOMAIN ring' : i < j /\ FirstOf(ring'[i], k) /\ AloneOf(ring'[j], k) =>
                 \E m \in DOMAIN ring' : i < m /\ m < j /\ SecondOf(ring'[m], k)
           /\ \A i \in DOMAIN ring' : FirstOf(ring'[i], k) =>
                 Awaited(k)' \/ \E m \in DOMAIN ring' : i < m /\ SecondOf(ring'[m], k)
<1>1. /\ DOMAIN ring = 1..Len(ring) /\ Len(ring) \in Nat
      /\ \A i \in DOMAIN ring' : i \in Nat /\ i + 1 \in DOMAIN ring /\ ring'[i] = ring[i + 1]
      /\ \A i \in DOMAIN ring : i # 1 => i - 1 \in DOMAIN ring' /\ ring'[i - 1] = ring[i]
  BY Taken
<1>2. ASSUME NEW i \in DOMAIN ring', NEW j \in DOMAIN ring', i < j, FirstOf(ring'[i], k),
             AloneOf(ring'[j], k)
      PROVE  \E m \in DOMAIN ring' : i < m /\ m < j /\ SecondOf(ring'[m], k)
  <2>1. i \in Nat /\ j \in Nat /\ i + 1 \in DOMAIN ring /\ j + 1 \in DOMAIN ring /\ i + 1 < j + 1
        /\ FirstOf(ring[i + 1], k) /\ AloneOf(ring[j + 1], k)
    BY <1>1, <1>2
  <2>2. PICK m \in DOMAIN ring : i + 1 < m /\ m < j + 1 /\ SecondOf(ring[m], k)
    BY <2>1 DEF Paired, Parted
  <2>3. m \in Nat /\ m # 1 /\ i < m - 1 /\ m - 1 < j
    BY <1>1, <2>1, <2>2
  <2>4. m - 1 \in DOMAIN ring' /\ SecondOf(ring'[m - 1], k)
    BY <1>1, <2>2, <2>3
  <2>5. QED
    BY <2>3, <2>4
<1>3. ASSUME NEW i \in DOMAIN ring', FirstOf(ring'[i], k), ~Awaited(k)'
      PROVE  \E m \in DOMAIN ring' : i < m /\ SecondOf(ring'[m], k)
  <2>1. i \in Nat /\ i + 1 \in DOMAIN ring /\ FirstOf(ring[i + 1], k)
    BY <1>1, <1>3
  <2>2. PICK m \in DOMAIN ring : i + 1 < m /\ SecondOf(ring[m], k)
    BY <1>3, <2>1 DEF Paired, Followed
  <2>3. m \in Nat /\ m # 1 /\ i < m - 1
    BY <1>1, <2>1, <2>2
  <2>4. m - 1 \in DOMAIN ring' /\ SecondOf(ring'[m - 1], k)
    BY <1>1, <2>2, <2>3
  <2>5. QED
    BY <2>3, <2>4
<1>4. QED
  BY <1>2, <1>3

\* The record of a system call is read: it leaves a marker.
LEMMA TakeFirst ==
    ASSUME PairTypes, ring # <<>>, ring' = Tail(ring), NEW k \in Keys, Paired(k),
           Awaited(k) => Awaited(k)', excess'[k] = excess[k], FirstOf(Head(ring), k)
    PROVE  Paired(k)'
<1>1. /\ DOMAIN ring = 1..Len(ring) /\ Len(ring) \in Nat /\ Len(ring) >= 1
      /\ FirstOf(ring[1], k)
      /\ \A i \in DOMAIN ring' : i \in Nat /\ i + 1 \in DOMAIN ring /\ ring'[i] = ring[i + 1]
      /\ \A i \in DOMAIN ring : i # 1 => i - 1 \in DOMAIN ring' /\ ring'[i - 1] = ring[i]
  BY Taken
<1>2. ASSUME NEW j \in DOMAIN ring', AloneOf(ring'[j], k)
      PROVE  \E m \in DOMAIN ring' : m < j /\ SecondOf(ring'[m], k)
  <2>1. j \in Nat /\ j + 1 \in DOMAIN ring /\ AloneOf(ring[j + 1], k) /\ j >= 1 /\ 1 \in DOMAIN ring
    <3>1. j \in Nat /\ j + 1 \in DOMAIN ring /\ AloneOf(ring[j + 1], k) /\ 1 \in DOMAIN ring
      BY <1>1, <1>2
    <3>2. j # 0
      BY <1>1, <3>1 DEF FirstOf, AloneOf
    <3>3. QED
      BY <3>1, <3>2
  <2>2. PICK m \in DOMAIN ring : 1 < m /\ m < j + 1 /\ SecondOf(ring[m], k)
    BY <1>1, <2>1 DEF Paired, Parted
  <2>3. m \in Nat /\ m # 1 /\ m - 1 < j
    BY <1>1, <2>1, <2>2
  <2>4. m - 1 \in DOMAIN ring' /\ SecondOf(ring'[m - 1], k)
    BY <1>1, <2>2, <2>3
  <2>5. QED
    BY <2>3, <2>4
<1>3. Awaited(k)' \/ \E m \in DOMAIN ring' : SecondOf(ring'[m], k)
  <2>1. Awaited(k) \/ \E m \in DOMAIN ring : 1 < m /\ SecondOf(ring[m], k)
    BY <1>1 DEF Paired, Followed
  <2>2. ASSUME NEW m \in DOMAIN ring, 1 < m, SecondOf(ring[m], k)
        PROVE  m - 1 \in DOMAIN ring' /\ SecondOf(ring'[m - 1], k)
    BY <1>1, <2>2
  <2>3. QED
    BY <2>1, <2>2
<1>4. QED
  BY <1>2, <1>3, RestPaired DEF Paired, Parted, Followed

\* A record is read after which k has no marker.
LEMMA TakeMarked ==
    ASSUME PairTypes, ring # <<>>, ring' = Tail(ring), NEW k \in Keys, Paired(k),
           Awaited(k) => Awaited(k)', excess'[k] = excess[k], k \notin pending'
    PROVE  Paired(k)'
  BY RestPaired DEF Paired, Parted, Followed

\* A record of something else is read.
LEMMA TakeOther ==
    ASSUME PairTypes, ring # <<>>, ring' = Tail(ring), NEW k \in Keys, Paired(k),
           Awaited(k) => Awaited(k)', excess'[k] = excess[k], ~About(Head(ring), k),
           k \in pending' => k \in pending
    PROVE  Paired(k)'
<1>1. /\ DOMAIN ring = 1..Len(ring) /\ Len(ring) \in Nat
      /\ ~About(ring[1], k)
      /\ \A i \in DOMAIN ring' : i \in Nat /\ i + 1 \in DOMAIN ring /\ ring'[i] = ring[i + 1]
      /\ \A i \in DOMAIN ring : i # 1 => i - 1 \in DOMAIN ring' /\ ring'[i - 1] = ring[i]
  BY Taken
<1>2. \A m \in DOMAIN ring : SecondOf(ring[m], k) =>
         m \in Nat /\ m # 1 /\ m - 1 \in DOMAIN ring' /\ SecondOf(ring'[m - 1], k)
  BY <1>1 DEF About
<1>3. ASSUME k \in pending, NEW j \in DOMAIN ring', AloneOf(ring'[j], k)
      PROVE  \E m \in DOMAIN ring' : m < j /\ SecondOf(ring'[m], k)
  <2>1. j \in Nat /\ j + 1 \in DOMAIN ring /\ AloneOf(ring[j + 1], k)
    BY <1>1, <1>3
  <2>2. PICK m \in DOMAIN ring : m < j + 1 /\ SecondOf(ring[m], k)
    BY <1>3, <2>1 DEF Paired, Parted
  <2>3. m - 1 < j /\ m - 1 \in DOMAIN ring' /\ SecondOf(ring'[m - 1], k)
    BY <1>2, <2>1, <2>2
  <2>4. QED
    BY <2>3
<1>4. k \in pending => Awaited(k)' \/ \E m \in DOMAIN ring' : SecondOf(ring'[m], k)
  <2>1. k \in pending => Awaited(k) \/ \E m \in DOMAIN ring : SecondOf(ring[m], k)
    BY DEF Paired, Followed
  <2>2. QED
    BY <1>2, <2>1
<1>5. QED
  BY <1>3, <1>4, RestPaired DEF Paired, Parted, Followed

\* A step that leaves the ring alone keeps the pairs.
LEMMA PairFrame ==
    ASSUME PairInv, UNCHANGED <<ring, dropped, excess>>, pending' \subseteq pending,
           inConnect' \in [Keys -> Nat], phase' = "down" => phase = "down",
           disturbed \subseteq disturbed', \A k \in Keys \ disturbed' : Awaited(k) => Awaited(k)'
    PROVE  PairInv'
<1>1. PairTypes'
  BY DEF PairInv, PairTypes
<1>2. ASSUME ~dropped', NEW k \in Keys \ disturbed' PROVE Paired(k)'
  <2>1. Paired(k)
    BY <1>2 DEF PairInv
  <2>2. QED
    BY <1>2, <2>1, RingStays
<1>3. QED
  BY <1>1, <1>2 DEF PairInv

\* What the probes that are not about connects leave alone.
LEMMA OtherProbe ==
    ASSUME PairInv, Otherwise, phase = "run",
           \/ UNCHANGED <<ring, dropped>>
           \/ \E r \in Record : r.type # "connect" /\ Submit(r)
           \/ ring' = ring \o <<Other, Other>> /\ UNCHANGED dropped
           \/ dropped' /\ ring' \in Seq(Record)
    PROVE  PairInv'
<1>1. /\ UNCHANGED <<inConnect, pending, excess, disturbed, phase, probes, reader>>
      /\ \A k \in Keys : Same(k)
  BY DEF Otherwise, registry, events, counts, Same, Awaited
<1>2. CASE UNCHANGED <<ring, dropped>>
  BY <1>1, <1>2, PairFrame DEF PairInv, PairTypes, Same
<1>3. CASE dropped' /\ ring' \in Seq(Record)
  BY <1>1, <1>3 DEF PairInv, PairTypes
<1>4. ASSUME ring' \in Seq(Record), dropped' = dropped, DOMAIN ring \subseteq DOMAIN ring',
             \A i \in DOMAIN ring : ring'[i] = ring[i],
             \A i \in DOMAIN ring' : i \notin DOMAIN ring => ring'[i].type # "connect"
      PROVE  PairInv'
  <2>1. PairTypes'
    BY <1>1, <1>4 DEF PairInv, PairTypes
  <2>2. ASSUME ~dropped, NEW k \in Keys \ disturbed PROVE Paired(k)'
    <3>1. Paired(k)
      BY <2>2 DEF PairInv
    <3>2. \A i \in DOMAIN ring' : About(ring'[i], k) => i \in DOMAIN ring
      BY <1>4 DEF About, FirstOf, SecondOf, AloneOf
    <3>3. QED
      BY <1>1, <1>4, <3>1, <3>2, AppendOther
  <2>3. disturbed' = disturbed /\ dropped' = dropped
    BY <1>1, <1>4
  <2>4. QED
    BY <2>1, <2>2, <2>3 DEF PairInv
<1>5. ASSUME NEW r \in Record, r.type # "connect", Submit(r) PROVE PairInv'
  <2>1. CASE Full
    <3>1. dropped' /\ ring' = ring
      BY <1>5, <2>1 DEF Submit
    <3>2. ring' \in Seq(Record)
      BY <3>1 DEF PairInv, PairTypes
    <3>3. QED
      BY <1>3, <3>1, <3>2
  <2>2. CASE ~Full
    <3>1. ring' = Append(ring, r) /\ UNCHANGED dropped
      BY <1>5, <2>2 DEF Submit
    <3>2. /\ ring' \in Seq(Record) /\ Len(ring) \in Nat
          /\ DOMAIN ring = 1..Len(ring) /\ DOMAIN ring' = 1..(Len(ring) + 1)
          /\ \A i \in DOMAIN ring : ring'[i] = ring[i]
          /\ ring'[Len(ring) + 1] = r
      BY <3>1, Appended DEF PairInv
    <3>3. \A i \in DOMAIN ring' : i \notin DOMAIN ring => i = Len(ring) + 1
      BY <3>2
    <3>4. \A i \in DOMAIN ring' : i \notin DOMAIN ring => ring'[i].type # "connect"
      BY <1>5, <3>2, <3>3
    <3>5. DOMAIN ring \subseteq DOMAIN ring'
      BY <3>2
    <3>6. QED
      BY <1>4, <3>1, <3>2, <3>4, <3>5
  <2>3. QED
    BY <2>1, <2>2
<1>6. CASE ring' = ring \o <<Other, Other>> /\ UNCHANGED dropped
  <2>1. ring \in Seq(Record) /\ <<Other, Other>> \in Seq(Record)
    BY Records DEF PairInv, PairTypes
  <2>2. /\ ring' \in Seq(Record) /\ Len(ring) \in Nat
        /\ DOMAIN ring = 1..Len(ring) /\ DOMAIN ring' = 1..(Len(ring) + 2)
        /\ \A i \in DOMAIN ring : ring'[i] = ring[i]
        /\ ring'[Len(ring) + 1] = Other /\ ring'[Len(ring) + 2] = Other
    BY <1>6, <2>1
  <2>3. \A i \in DOMAIN ring' : i \notin DOMAIN ring => i = Len(ring) + 1 \/ i = Len(ring) + 2
    BY <2>2
  <2>4. \A i \in DOMAIN ring' : i \notin DOMAIN ring => ring'[i].type # "connect"
    BY <2>2, <2>3 DEF Other
  <2>5. QED
    BY <1>4, <1>6, <2>2, <2>4
<1>7. QED
  BY <1>2, <1>3, <1>5, <1>6

\* A record of a connect, with the one destination it is about.
LEMMA ConnectRecord ==
    ASSUME NEW q \in Keys, NEW src \in {"syscall", "kprobe"}, NEW by \in {"syscall", "uring"}
    PROVE  LET r == Connect(q, src, by) IN
           /\ r \in Record
           /\ r.type = "connect" /\ r.key = q /\ r.src = src /\ r.by = by
           /\ \A k \in Keys : About(r, k) => k = q
  BY DEF Connect, Record, About, FirstOf, SecondOf, AloneOf

\* A probe submits a record of destination q: what has to be shown is about q.
LEMMA ConnectProbe ==
    ASSUME PairInv, NEW q \in Keys, NEW r \in Record, Submit(r),
           \A k \in Keys : About(r, k) => k = q,
           UNCHANGED <<pending, excess, phase, probes, reader>>, phase = "run",
           inConnect' \in [Keys -> Nat], \A k \in Keys \ {q} : inConnect'[k] = inConnect[k],
           disturbed \subseteq disturbed',
           Paired(q) /\ ring' = Append(ring, r) /\ q \notin disturbed' => Paired(q)'
    PROVE  PairInv'
<1>1. CASE Full
  <2>1. dropped' = TRUE /\ ring' = ring
    BY <1>1 DEF Submit
  <2>2. PairTypes'
    BY <2>1 DEF PairInv, PairTypes
  <2>3. QED
    BY <2>1, <2>2 DEF PairInv
<1>2. CASE ~Full
  <2>1. ring' = Append(ring, r) /\ dropped' = dropped
    BY <1>2 DEF Submit
  <2>2. /\ ring' \in Seq(Record) /\ Len(ring) \in Nat
        /\ DOMAIN ring = 1..Len(ring) /\ DOMAIN ring' = 1..(Len(ring) + 1)
        /\ \A i \in DOMAIN ring : ring'[i] = ring[i]
        /\ ring'[Len(ring) + 1] = r
    BY <2>1, Appended DEF PairInv
  <2>3. PairTypes'
    BY <2>2 DEF PairInv, PairTypes
  <2>4. ASSUME ~dropped, NEW k \in Keys \ disturbed' PROVE Paired(k)'
    <3>1. Paired(k)
      BY <2>4 DEF PairInv
    <3>2. CASE k = q
      BY <2>1, <2>4, <3>1, <3>2
    <3>3. CASE k # q
      <4>1. Same(k)
        BY <2>4, <3>3 DEF Same, Awaited
      <4>2. \A i \in DOMAIN ring' : About(ring'[i], k) => i \in DOMAIN ring
        <5>1. ~About(r, k)
          BY <2>4, <3>3
        <5>2. \A i \in DOMAIN ring' : i \notin DOMAIN ring => i = Len(ring) + 1
          BY <2>2
        <5>3. QED
          BY <2>2, <5>1, <5>2
      <4>3. DOMAIN ring \subseteq DOMAIN ring'
        BY <2>2
      <4>4. QED
        BY <2>2, <3>1, <4>1, <4>2, <4>3, AppendOther
    <3>4. QED
      BY <3>2, <3>3
  <2>5. QED
    BY <2>1, <2>3, <2>4 DEF PairInv
<1>3. QED
  BY <1>1, <1>2

\* The tracepoint of a connect.
LEMMA ConnectPairs ==
    ASSUME PairInv, NEW q \in Keys, NEW tcp \in BOOLEAN, handle_connect(q, tcp)
    PROVE  PairInv'
<1> DEFINE r == Connect(q, "syscall", "syscall")
<1>1. /\ r \in Record /\ FirstOf(r, q)
      /\ \A k \in Keys : About(r, k) => k = q
  BY ConnectRecord DEF FirstOf
<1>2. /\ Submit(r) /\ phase = "run"
      /\ UNCHANGED <<pending, excess, phase, probes, reader>>
      /\ disturbed \subseteq disturbed'
  BY DEF handle_connect, Call, registry, events, counts
<1>3. inConnect \in [Keys -> Nat] /\ PairTypes
  BY DEF PairInv, PairTypes
<1>4. inConnect' = [inConnect EXCEPT ![q] = inConnect[q] + 1] \/ inConnect' = inConnect
  BY DEF handle_connect, Bump
<1>5. inConnect' \in [Keys -> Nat] /\ \A k \in Keys \ {q} : inConnect'[k] = inConnect[k]
  BY <1>3, <1>4
<1>6. ASSUME Paired(q), ring' = Append(ring, r), q \notin disturbed' PROVE Paired(q)'
  <2>1. tcp
    BY <1>6 DEF handle_connect
  <2>2. Awaited(q)'
    <3>1. CASE "kprobe" \in probes
      <4>1. inConnect' = [inConnect EXCEPT ![q] = inConnect[q] + 1]
        BY <2>1, <3>1 DEF handle_connect, Bump
      <4>2. inConnect'[q] > 0
        BY <1>3, <4>1
      <4>3. QED
        BY <4>2 DEF Awaited
    <3>2. CASE "kprobe" \notin probes
      BY <1>2, <3>2 DEF Awaited
    <3>3. QED
      BY <3>1, <3>2
  <2>3. Same(q)
    BY <1>2, <2>2 DEF Same
  <2>4. QED
    BY <1>1, <1>3, <1>6, <2>2, <2>3, AppendFirst
<1>7. QED
  BY <1>1, <1>2, <1>5, <1>6, ConnectProbe

\* The kprobe, for a system call and for io_uring.
LEMMA KprobePairs ==
    ASSUME PairInv, NEW q \in Keys, SyscallGoesOn(q) \/ UringConnect(q)
    PROVE  PairInv'
<1>1. inConnect \in [Keys -> Nat] /\ PairTypes
  BY DEF PairInv, PairTypes
<1>2. CASE SyscallGoesOn(q)
  <2> DEFINE r == Connect(q, "kprobe", "syscall")
  <2>1. /\ r \in Record /\ SecondOf(r, q)
        /\ \A k \in Keys : About(r, k) => k = q
    BY ConnectRecord DEF SecondOf, Second
  <2>2. /\ Submit(r) /\ phase = "run" /\ inConnect[q] > 0
        /\ UNCHANGED <<pending, excess, phase, probes, reader, disturbed>>
        /\ inConnect' = [inConnect EXCEPT ![q] = inConnect[q] - 1]
    BY <1>2 DEF SyscallGoesOn, handle_tcp_connect, registry, events, counts
  <2>3. inConnect' \in [Keys -> Nat] /\ \A k \in Keys \ {q} : inConnect'[k] = inConnect[k]
    BY <1>1, <2>2
  <2>4. ASSUME Paired(q), ring' = Append(ring, r) PROVE Paired(q)'
    BY <1>1, <2>1, <2>2, <2>4, AppendSecond
  <2>5. QED
    BY <2>1, <2>2, <2>3, <2>4, ConnectProbe
<1>3. CASE UringConnect(q)
  <2> DEFINE r == Connect(q, "kprobe", "uring")
  <2>1. /\ r \in Record /\ AloneOf(r, q)
        /\ \A k \in Keys : About(r, k) => k = q
    BY ConnectRecord DEF AloneOf
  <2>2. /\ Submit(r) /\ phase = "run" /\ "kprobe" \in probes /\ reader # "ended"
        /\ UNCHANGED <<pending, excess, phase, probes, reader, inConnect>>
        /\ disturbed \subseteq disturbed'
        /\ q \notin disturbed' => ~(inConnect[q] > 0)
    BY <1>3 DEF UringConnect, Call, handle_tcp_connect, registry, events, counts
  <2>3. ASSUME Paired(q), ring' = Append(ring, r), q \notin disturbed' PROVE Paired(q)'
    <3>1. ~Awaited(q) /\ Same(q)
      BY <2>2, <2>3 DEF Awaited, Same
    <3>2. QED
      BY <1>1, <2>1, <2>3, <3>1, AppendAlone
  <2>4. QED
    BY <1>1, <2>1, <2>2, <2>3, ConnectProbe
<1>4. QED
  BY <1>2, <1>3

\* The workload's probes keep the pairs.
LEMMA WorkloadPairs ==
    ASSUME PairInv, Workload
    PROVE  PairInv'
<1>1. ring \in Seq(Record) /\ Other \in Record /\ Other.type # "connect"
      /\ \A n \in Names : Tls(n) \in Record /\ Tls(n).type # "connect"
  BY Records DEF PairInv, PairTypes, Other, Tls
<1>2. ASSUME NEW p \in Paths, handle_openat(p) PROVE PairInv'
  <2>1. phase = "run" /\ Otherwise /\ (Submit(Other) \/ UNCHANGED <<ring, dropped>>)
    BY <1>2 DEF handle_openat, Call
  <2>2. QED
    BY <1>1, <2>1, OtherProbe
<1>3. CASE handle_execve \/ handle_sendmsg
  <2>1. phase = "run" /\ Otherwise /\ Submit(Other)
    BY <1>3 DEF handle_execve, handle_sendmsg, Call
  <2>2. QED
    BY <1>1, <2>1, OtherProbe
<1>4. CASE handle_sendto \/ handle_write
  <2>1. phase = "run" /\ Otherwise /\ (Submit(Other) \/ \E n \in Names : Submit(Tls(n)))
    BY <1>4 DEF handle_sendto, handle_write, Call
  <2>2. QED
    BY <1>1, <2>1, OtherProbe
<1>5. CASE handle_sendmmsg
  <2>1. phase = "run" /\ Otherwise
    BY <1>5 DEF handle_sendmmsg, Call
  <2>2. CASE ring' = ring \o <<Other, Other>> /\ UNCHANGED dropped
    BY <2>1, <2>2, OtherProbe
  <2>3. CASE dropped' = TRUE /\ (ring' = Append(ring, Other) \/ ring' = ring)
    <3>1. ring' \in Seq(Record)
      BY <1>1, <2>3
    <3>2. QED
      BY <2>1, <2>3, <3>1, OtherProbe
  <2>4. QED
    BY <1>5, <2>2, <2>3 DEF handle_sendmmsg
<1>6. ASSUME NEW n \in Names, handle_ssl_ctrl(n) PROVE PairInv'
  <2>1. phase = "run" /\ Otherwise /\ Submit(Tls(n))
    BY <1>6 DEF handle_ssl_ctrl, Call
  <2>2. QED
    BY <1>1, <2>1, OtherProbe
<1>7. ASSUME NEW k \in Keys, NEW tcp \in BOOLEAN, handle_connect(k, tcp) PROVE PairInv'
  BY <1>7, ConnectPairs
<1>8. ASSUME NEW k \in Keys, SyscallGoesOn(k) \/ UringConnect(k) PROVE PairInv'
  BY <1>8, KprobePairs
<1>9. QED
  BY <1>2, <1>3, <1>4, <1>5, <1>6, <1>7, <1>8 DEF Workload

\* The reader takes a record of a connect.
LEMMA ReadConnectPairs ==
    ASSUME PairInv, ring # <<>>, ring' = Tail(ring), reader = "read",
           UNCHANGED <<phase, probes, dropped, inConnect>>,
           Head(ring).type = "connect", ReadConnect(Head(ring))
    PROVE  PairInv'
<1> DEFINE r == Head(ring)
           q == r.key
           dup == r.src = "kprobe" /\ q \in pending
<1>1. PairTypes /\ r \in Record /\ ring' \in Seq(Record) /\ r = ring[1]
  BY Taken DEF PairInv
<1>2. /\ q \in Keys /\ r.src \in {"syscall", "kprobe"} /\ r.by \in {"syscall", "uring"}
  BY <1>1 DEF Record, Connect, Tls, Other
<1>3. /\ pending' = IF r.src = "syscall" THEN pending \cup {q} ELSE pending \ {q}
      /\ excess' = [excess EXCEPT ![q] =
                      @ + (IF dup THEN 0 ELSE 1) - (IF Second(r) THEN 0 ELSE 1)]
      /\ disturbed' = IF Second(r) /\ q \notin pending THEN disturbed \cup {q} ELSE disturbed
      /\ reader' \in {"read", "send"}
  BY DEF ReadConnect, connectObserve
<1>4. PairTypes'
  BY <1>1, <1>3, <1>2 DEF PairTypes
<1>5. ASSUME ~dropped, NEW k \in Keys \ disturbed' PROVE Paired(k)'
  <2>1. Paired(k)
    BY <1>3, <1>5 DEF PairInv
  <2>2. Awaited(k) => Awaited(k)'
    BY DEF Awaited
  <2>3. CASE k # q
    <3>1. ~About(r, k)
      BY <2>3 DEF About, FirstOf, SecondOf, AloneOf
    <3>2. excess'[k] = excess[k]
      BY <1>1, <1>3, <2>3 DEF PairTypes
    <3>3. k \in pending' => k \in pending
      BY <1>3, <2>3
    <3>4. QED
      BY <1>1, <2>1, <2>2, <3>1, <3>2, <3>3, TakeOther
  <2>4. CASE k = q /\ r.src = "syscall"
    <3>1. FirstOf(r, k)
      BY <2>4 DEF FirstOf
    <3>2. excess'[k] = excess[k]
      BY <1>1, <1>2, <1>3, <2>4 DEF PairTypes, Second
    <3>3. QED
      BY <1>1, <2>1, <2>2, <3>1, <3>2, TakeFirst
  <2>5. CASE k = q /\ r.src = "kprobe" /\ r.by = "syscall"
    <3>1. q \in pending
      BY <1>3, <1>5, <2>5 DEF Second
    <3>2. excess'[k] = excess[k]
      BY <1>1, <1>2, <1>3, <2>5, <3>1 DEF PairTypes, Second
    <3>3. k \notin pending'
      BY <1>3, <2>5
    <3>4. QED
      BY <1>1, <2>1, <2>2, <3>2, <3>3, TakeMarked
  <2>6. CASE k = q /\ r.src = "kprobe" /\ r.by = "uring"
    <3>1. AloneOf(ring[1], k) /\ 1 \in DOMAIN ring /\ DOMAIN ring = 1..Len(ring) /\ Len(ring) \in Nat
      BY <1>1, <2>6, Taken DEF AloneOf
    <3>2. \A m \in DOMAIN ring : ~(m < 1)
      BY <3>1
    <3>3. q \notin pending
      BY <2>1, <2>6, <3>1, <3>2 DEF Paired, Parted
    <3>4. excess'[k] = excess[k]
      BY <1>1, <1>2, <1>3, <2>6, <3>3 DEF PairTypes, Second
    <3>5. k \notin pending'
      BY <1>3, <2>6
    <3>6. QED
      BY <1>1, <2>1, <2>2, <3>4, <3>5, TakeMarked
  <2>7. QED
    BY <1>2, <2>3, <2>4, <2>5, <2>6
<1>6. QED
  BY <1>4, <1>5 DEF PairInv

\* One read.
LEMMA ReadPairs ==
    ASSUME PairInv, Read
    PROVE  PairInv'
<1> DEFINE r == Head(ring)
<1>1. /\ ring # <<>> /\ ring' = Tail(ring) /\ reader = "read"
      /\ UNCHANGED <<phase, probes, dropped, inConnect>>
  BY DEF Read, registry
<1>2. CASE r.type = "connect" /\ ReadConnect(r)
  BY <1>1, <1>2, ReadConnectPairs
<1>3. CASE r.type # "connect" /\ (ReadTls(r) \/ ReadOther)
  <2>1. UNCHANGED <<pending, excess, disturbed>> /\ reader' = "send"
    BY <1>3 DEF ReadTls, ReadOther, counts
  <2>2. PairTypes /\ ring' \in Seq(Record)
    BY <1>1, Taken DEF PairInv
  <2>3. PairTypes'
    BY <1>1, <2>1, <2>2 DEF PairTypes
  <2>4. ASSUME ~dropped, NEW k \in Keys \ disturbed PROVE Paired(k)'
    <3>1. Paired(k)
      BY <2>4 DEF PairInv
    <3>2. ~About(r, k)
      BY <1>3 DEF About, FirstOf, SecondOf, AloneOf
    <3>3. Awaited(k) => Awaited(k)'
      BY <1>1, <2>1 DEF Awaited
    <3>4. QED
      BY <1>1, <2>1, <2>2, <3>1, <3>2, <3>3, TakeOther
  <2>5. QED
    BY <1>1, <2>1, <2>3, <2>4 DEF PairInv
<1>4. r.type = "tls" \/ r.type = "other" => r.type # "connect"
  OBVIOUS
<1>5. QED
  BY <1>2, <1>3, <1>4 DEF Read

\* Every step keeps the pairs.
LEMMA PairStep ==
    ASSUME PairInv, [Next]_vars
    PROVE  PairInv'
<1>1. inConnect \in [Keys -> Nat] /\ PairTypes
  BY DEF PairInv, PairTypes
<1>2. CASE UNCHANGED <<ring, dropped, excess, pending, inConnect, phase, disturbed, probes, reader>>
  BY <1>1, <1>2, PairFrame DEF Awaited
<1>3. ASSUME NEW opt \in Attachable, New(opt) PROVE PairInv'
  <2>1. /\ ring' = <<>> /\ pending' = {} /\ UNCHANGED <<dropped, excess, inConnect, disturbed>>
    BY <1>1, <1>3 DEF New, PairTypes, kernel, counts
  <2>2. PairTypes'
    BY <1>1, <2>1 DEF PairTypes
  <2>3. \A k \in Keys : Paired(k) => Paired(k)'
    BY <2>1 DEF Paired, Parted, Followed
  <2>4. QED
    BY <2>1, <2>2, <2>3 DEF PairInv
<1>4. ASSUME NEW c \in Cgroups, AddCgroup(c) PROVE PairInv'
  <2>1. /\ UNCHANGED <<ring, dropped, excess, pending, inConnect, disturbed, probes, reader>>
        /\ phase' # "down"
    BY <1>4 DEF AddCgroup, kernel, events, counts
  <2>2. QED
    BY <1>1, <2>1, PairFrame DEF Awaited
<1>5. CASE AddPath \/ Registered \/ rollbackPaths
  <2>1. /\ UNCHANGED <<ring, dropped, excess, pending, inConnect, disturbed, probes, reader>>
        /\ phase' # "down"
    BY <1>5 DEF AddPath, Registered, rollbackPaths, kernel, events, counts
  <2>2. QED
    BY <1>1, <2>1, PairFrame DEF Awaited
<1>6. CASE RemoveCgroup
  <2>1. /\ UNCHANGED <<ring, dropped, excess, pending, probes, reader>>
        /\ phase' # "down"
        /\ inConnect' = [k \in Keys |-> 0]
        /\ disturbed' = disturbed \cup {k \in Keys : inConnect[k] > 0}
    BY <1>6 DEF RemoveCgroup, events, counts
  <2>2. \A k \in Keys \ disturbed' : Awaited(k) => Awaited(k)'
    BY <2>1 DEF Awaited
  <2>3. inConnect' \in [Keys -> Nat]
    BY <2>1
  <2>4. QED
    BY <2>1, <2>2, <2>3, PairFrame
<1>7. CASE Close
  <2>1. /\ UNCHANGED <<ring, dropped, excess, pending, inConnect, disturbed>>
        /\ phase' # "down" /\ probes' = {}
    BY <1>7 DEF Close, kernel, events, counts
  <2>2. QED
    BY <1>1, <2>1, PairFrame DEF Awaited
<1>8. CASE Workload
  BY <1>8, WorkloadPairs
<1>9. CASE Read
  BY <1>9, ReadPairs
<1>10. CASE Send \/ ReadClosed
  <2>1. /\ UNCHANGED <<dropped, excess, pending, inConnect, disturbed, probes, phase>>
        /\ reader # "ended"
    BY <1>10 DEF Send, ReadClosed, registry, counts
  <2>2. CASE ring' = ring
    BY <1>1, <2>1, <2>2, PairFrame DEF Awaited
  <2>3. CASE ring' = <<>> /\ reader' = "ended"
    <3>1. PairTypes'
      BY <1>1, <2>1, <2>3 DEF PairTypes
    <3>2. \A k \in Keys : Paired(k) => Paired(k)'
      BY <2>1, <2>3, RingLost
    <3>3. QED
      BY <2>1, <3>1, <3>2 DEF PairInv
  <2>4. QED
    BY <1>10, <2>2, <2>3 DEF Send, ReadClosed
<1>11. CASE Forward \/ Cancel \/ CloseReader
  BY <1>2, <1>11 DEF Forward, Cancel, CloseReader, registry, kernel, counts
<1>12. CASE Tick
  <2>1. /\ UNCHANGED <<ring, dropped, excess, inConnect, phase, disturbed, probes, reader>>
        /\ pending' \subseteq pending
    BY <1>12 DEF Tick, registry, kernel, counts
  <2>2. QED
    BY <1>1, <2>1, PairFrame DEF Awaited
<1>13. CASE UNCHANGED vars
  BY <1>2, <1>13 DEF vars, registry, kernel, events, counts
<1>14. QED
  BY <1>3, <1>4, <1>5, <1>6, <1>7, <1>8, <1>9, <1>10, <1>11, <1>12, <1>13
  DEF Next, Registration, Reader

\* As long as the ring drops nothing, a destination whose connects do not
\* overlap, are not cut off and are read within the window has one event per
\* connect: connectDedup.observe drops the kprobe record of each system call,
\* and never that of an io_uring connect, however the probes of other
\* destinations, the reader and the jobs interleave.
THEOREM ConnectsCounted == Spec => []OneEventPerConnect
<1>1. Init => PairInv
  <2> SUFFICES ASSUME Init PROVE PairInv
    OBVIOUS
  <2>1. PairTypes
    BY DEF Init, PairTypes
  <2>2. \A k \in Keys : Paired(k)
    BY DEF Init, Paired, Parted, Followed
  <2>3. QED
    BY <2>1, <2>2 DEF PairInv
<1>2. PairInv /\ [Next]_vars => PairInv'
  BY PairStep
<1>3. PairInv => OneEventPerConnect
  BY DEF PairInv, Paired, OneEventPerConnect
<1>4. QED
  BY <1>1, <1>2, <1>3, PTL DEF Spec

-------------------------------------------------------------------------------
(* Types and capacities                                                    *)

\* The prefixes of the current job that fit are paths.
LEMMA AddedArePaths ==
    ASSUME MapsInv, cg # None
    PROVE  cg \in Cgroups /\ Len(PathsOf[cg]) \in Nat /\ Added \subseteq Paths
           /\ (at \in 1..Len(PathsOf[cg]) => PathsOf[cg][at] \in Paths \cup BadPaths)
<1>1. cg \in Cgroups /\ at \in 1..(Len(PathsOf[cg]) + 1)
  BY DEF MapsInv, CurrentJob
<1>2. PathsOf[cg] \in Seq(Paths \cup BadPaths)
  BY <1>1, PathsAssumption
<1>3. Len(PathsOf[cg]) \in Nat /\ DOMAIN PathsOf[cg] = 1..Len(PathsOf[cg])
      /\ \A i \in 1..Len(PathsOf[cg]) : PathsOf[cg][i] \in Paths \cup BadPaths
  BY <1>2
<1>4. \A i \in 1..(at - 1) : i \in 1..Len(PathsOf[cg])
  BY <1>1, <1>3
<1>5. QED
  BY <1>1, <1>3, <1>4 DEF Added

\* Registration keeps its types.
LEMMA RegistryTyped ==
    ASSUME RegistryTypes, MapsInv, [Next]_vars
    PROVE  RegistryTypes'
<1> USE DEF RegistryTypes
<1>1. CASE UNCHANGED <<registry, maps, faults>>
  BY <1>1 DEF registry, maps
<1>2. ASSUME NEW opt \in Attachable, New(opt) PROVE RegistryTypes'
  <2>1. opt \subseteq {"kprobe", "uprobe"}
    BY AttachableAssumption
  <2>2. /\ UNCHANGED <<cg, at, registered, tried, staleCg, stalePath, cgmap, filter>>
        /\ faults' \in Nat /\ phase' \in {"idle", "closed"} /\ (probes' = opt \/ probes' = probes)
    BY <1>2 DEF New, maps, Fails, Succeeds
  <2>3. QED
    BY <2>1, <2>2
<1>3. ASSUME NEW c \in Cgroups, AddCgroup(c) PROVE RegistryTypes'
  <2>1. /\ UNCHANGED <<registered, filter, probes, stalePath>> /\ tried' = tried \cup {c}
        /\ faults' \in Nat
    BY <1>3 DEF AddCgroup, Fails, Succeeds
  <2>2. CASE /\ cgmap' = cgmap \cup {c} /\ staleCg' = staleCg \ {c}
             /\ cg' = c /\ at' = 1 /\ phase' = "add"
    BY <2>1, <2>2
  <2>3. CASE UNCHANGED <<cgmap, staleCg, cg, at, phase>>
    BY <2>1, <2>3
  <2>4. QED
    BY <1>3, <2>2, <2>3 DEF AddCgroup
<1>4. CASE AddPath
  <2> DEFINE p == PathsOf[cg][at]
  <2>1. /\ phase = "add" /\ at <= Len(PathsOf[cg]) /\ cg # None
        /\ UNCHANGED <<cg, registered, tried, probes, staleCg, cgmap>> /\ faults' \in Nat
    BY <1>4 DEF AddPath, MapsInv, Fails, Succeeds
  <2>2. Len(PathsOf[cg]) \in Nat /\ at \in 1..Len(PathsOf[cg]) /\ p \in Paths \cup BadPaths
    BY <2>1, AddedArePaths DEF MapsInv, CurrentJob
  <2>3. CASE /\ p \notin BadPaths /\ filter' = filter \cup {p} /\ stalePath' = stalePath \ {p}
             /\ at' = at + 1 /\ UNCHANGED phase
    BY <2>1, <2>2, <2>3
  <2>4. CASE phase' = "rollback" /\ UNCHANGED <<filter, stalePath, at>>
    BY <2>1, <2>4
  <2>5. QED
    BY <1>4, <2>3, <2>4 DEF AddPath
<1>5. CASE Registered
  <2>1. cg \in Cgroups
    BY <1>5 DEF Registered, MapsInv
  <2>2. QED
    BY <1>5, <2>1 DEF Registered, maps
<1>6. CASE rollbackPaths \/ RemoveCgroup
  <2>1. /\ cg # None /\ Delete({cg}, Added) /\ registered' \subseteq registered
        /\ phase' = "idle" /\ cg' = None /\ at' = 1 /\ UNCHANGED <<tried, probes>>
    BY <1>6 DEF rollbackPaths, RemoveCgroup, MapsInv
  <2>2. cg \in Cgroups /\ Added \subseteq Paths
    BY <2>1, AddedArePaths
  <2>3. /\ cgmap' \subseteq cgmap /\ filter' \subseteq filter
        /\ staleCg' \subseteq staleCg \cup {cg} /\ stalePath' \subseteq stalePath \cup Added
        /\ faults' \in Nat
    BY <2>1 DEF Delete, Fails, Succeeds
  <2>4. QED
    BY <2>1, <2>2, <2>3
<1>7. CASE Close
  BY <1>7 DEF Close
<1>8. CASE Workload
  BY <1>1, <1>8 DEF Workload, handle_openat, handle_execve, handle_sendto, handle_write,
     handle_sendmsg, handle_sendmmsg, handle_ssl_ctrl, handle_connect, SyscallGoesOn,
     UringConnect, Otherwise
<1>9. CASE Reader \/ Forward \/ Cancel \/ CloseReader \/ Tick
  BY <1>1, <1>9 DEF Reader, Read, Send, ReadClosed, Forward, Cancel, CloseReader, Tick
<1>10. CASE UNCHANGED vars
  BY <1>1, <1>10 DEF vars
<1>11. QED
  BY <1>2, <1>3, <1>4, <1>5, <1>6, <1>7, <1>8, <1>9, <1>10 DEF Next, Registration

\* The workload and the reader keep theirs; FilterInv and PairInv have the rest.
LEMMA StreamTyped ==
    ASSUME StreamTypes, FilterInv', PairInv', [Next]_vars
    PROVE  StreamTypes'
<1> DEFINE Others ==
             /\ dropped \in BOOLEAN
             /\ reader \in {"off", "read", "send", "ended"}
             /\ out \in 0..OutCap
             /\ cancelled \in BOOLEAN /\ closed \in BOOLEAN
             /\ seen \subseteq Names
             /\ calls \in Nat
             /\ disturbed \subseteq Keys
             /\ named \subseteq Names /\ plain \subseteq Names
<1>1. Others
  BY DEF StreamTypes
<1>2. SUFFICES Others'
  BY DEF StreamTypes, FilterInv, PairInv, PairTypes
<1>3. CASE UNCHANGED <<dropped, events, named, plain, calls, disturbed>>
  BY <1>1, <1>3 DEF events
<1>4. ASSUME NEW opt \in Attachable, New(opt) PROVE Others'
  BY <1>1, <1>4 DEF New, kernel, counts
<1>5. ASSUME NEW c \in Cgroups, AddCgroup(c) PROVE Others'
  BY <1>3, <1>5 DEF AddCgroup, kernel, counts
<1>6. CASE AddPath \/ Registered \/ rollbackPaths \/ Close
  BY <1>3, <1>6 DEF AddPath, Registered, rollbackPaths, Close, kernel, counts
<1>7. CASE RemoveCgroup
  BY <1>1, <1>7 DEF RemoveCgroup, events, counts
<1>8. CASE Workload
  <2>1. /\ UNCHANGED <<reader, out, cancelled, closed, seen, named, plain>>
    BY <1>8 DEF Workload, handle_openat, handle_execve, handle_sendto, handle_write,
       handle_sendmsg, handle_sendmmsg, handle_ssl_ctrl, handle_connect, SyscallGoesOn,
       UringConnect, Otherwise, events, counts
  <2>2. calls' \in Nat
    BY <1>1, <1>8 DEF Workload, handle_openat, handle_execve, handle_sendto, handle_write,
       handle_sendmsg, handle_sendmmsg, handle_ssl_ctrl, handle_connect, SyscallGoesOn,
       UringConnect, Call
  <2>3. disturbed' \subseteq Keys
    BY <1>1, <1>8 DEF Workload, handle_openat, handle_execve, handle_sendto, handle_write,
       handle_sendmsg, handle_sendmmsg, handle_ssl_ctrl, handle_connect, SyscallGoesOn,
       UringConnect, Otherwise
  <2>4. dropped' = TRUE \/ dropped' = dropped
    BY <1>8 DEF Workload, handle_openat, handle_execve, handle_sendto, handle_write,
       handle_sendmsg, handle_sendmmsg, handle_ssl_ctrl, handle_connect, SyscallGoesOn,
       UringConnect, handle_tcp_connect, Submit
  <2>5. QED
    BY <1>1, <2>1, <2>2, <2>3, <2>4
<1>9. CASE Read
  <2> DEFINE r == Head(ring)
  <2>1. r \in Record
    BY <1>9 DEF Read, StreamTypes
  <2>2. UNCHANGED <<dropped, out, cancelled, closed, calls>>
    BY <1>9 DEF Read
  <2>3. CASE r.type = "connect" /\ ReadConnect(r)
    <3>1. r.key \in Keys
      BY <2>1, <2>3, ConnectFields
    <3>2. QED
      BY <1>1, <2>2, <2>3, <3>1 DEF ReadConnect
  <2>4. CASE r.type = "tls" /\ ReadTls(r)
    <3>1. r.key \in Names
      BY <2>1, <2>4 DEF Record, Other, Tls, Connect
    <3>2. QED
      BY <1>1, <2>2, <2>4, <3>1 DEF ReadTls, tlsObserve
  <2>5. CASE ReadOther
    BY <1>1, <2>2, <2>5 DEF ReadOther, counts
  <2>6. QED
    BY <1>9, <2>3, <2>4, <2>5 DEF Read
<1>10. CASE Send \/ ReadClosed \/ Forward
  BY <1>1, <1>10, BoundsAssumption DEF Send, ReadClosed, Forward, kernel, counts
<1>11. CASE Cancel \/ CloseReader
  BY <1>1, <1>11 DEF Cancel, CloseReader, kernel, counts
<1>12. CASE Tick
  BY <1>1, <1>12 DEF Tick, kernel, counts
<1>13. CASE UNCHANGED vars
  BY <1>3, <1>13 DEF vars, kernel, counts
<1>14. QED
  BY <1>4, <1>5, <1>6, <1>7, <1>8, <1>9, <1>10, <1>11, <1>12, <1>13
  DEF Next, Registration, Reader

\* Types and capacities of New, AddCgroup, RemoveCgroup, the probes and Events:
\* the ring and the channel never hold more than they can, and no prefix that
\* does not fit a key reaches path_filter.
THEOREM TypeCorrect == Spec => []TypeOK
<1> DEFINE Inv == TypeOK /\ MapsInv /\ FilterInv /\ PairInv
<1>1. Init => Inv
  <2> SUFFICES ASSUME Init PROVE Inv
    OBVIOUS
  <2>1. MapsInv
    BY DEF Init, MapsInv
  <2>2. FilterInv /\ PairTypes
    BY BoundsAssumption DEF Init, FilterInv, PairTypes
  <2>3. \A k \in Keys : Paired(k)
    BY DEF Init, Paired, Parted, Followed
  <2>4. RegistryTypes
    BY DEF Init, RegistryTypes
  <2>5. out \in 0..OutCap
    BY BoundsAssumption DEF Init
  <2>6. dropped \in BOOLEAN /\ cancelled \in BOOLEAN /\ closed \in BOOLEAN
    BY DEF Init
  <2>7. /\ reader \in {"off", "read", "send", "ended"}
        /\ seen \subseteq Names /\ calls \in Nat /\ disturbed \subseteq Keys
        /\ named \subseteq Names /\ plain \subseteq Names
    BY DEF Init
  <2>8. StreamTypes
    BY <2>2, <2>5, <2>6, <2>7 DEF StreamTypes, FilterInv, PairTypes
  <2>9. QED
    BY <2>1, <2>2, <2>3, <2>4, <2>8 DEF PairInv, TypeOK
<1>2. Inv /\ [Next]_vars => Inv'
  BY MapsStep, FilterStep, PairStep, RegistryTyped, StreamTyped DEF TypeOK
<1>3. QED
  BY <1>1, <1>2, PTL DEF Spec
===============================================================================
