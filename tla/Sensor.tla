-------------------------------- MODULE Sensor --------------------------------
(***************************************************************************)
(* The sensor (internal/runner/sensor): the maps that tell the BPF probes  *)
(* which cgroup and which paths to watch, filled and emptied by AddCgroup  *)
(* and RemoveCgroup around every job; the probes that put records into the *)
(* ring buffer; and the goroutine of Events that reads them, drops the     *)
(* second record of a connect and tags the second report of a host name.   *)
(*                                                                         *)
(* A connect by system call makes two records, one of the tracepoint and,  *)
(* for TCP, one of the kprobe; a connect by io_uring only the kprobe's.    *)
(* Jobs register one cgroup at a time (see Sandbox); the workload runs     *)
(* between AddCgroup's return and RemoveCgroup.                            *)
(***************************************************************************)
EXTENDS Integers, Sequences, FiniteSets

CONSTANTS
    Cgroups,    \* one per job
    Paths,      \* watched prefixes, and the files the workload opens
    BadPaths,   \* prefixes that do not fit a key of path_filter
    PathsOf,    \* per cgroup, the sequence of prefixes of its job
    Keys,       \* connect keys: pid, family, address and port
    Names,      \* TLS keys: pid and host name
    Attachable, \* the sets of optional probes a kernel and an image offer
    RingCap,    \* records the ring buffer holds
    OutCap,     \* capacity of the channel of Events, 256 in the code
    MaxCalls,   \* bound on the calls of the workload
    MaxFaults,  \* bound on failing map operations
    None

ASSUME PathsAssumption == PathsOf \in [Cgroups -> Seq(Paths \cup BadPaths)]
ASSUME BoundsAssumption ==
    /\ {RingCap, OutCap, MaxCalls, MaxFaults} \subseteq Nat
    /\ OutCap > 0
ASSUME AttachableAssumption == Attachable \subseteq SUBSET {"kprobe", "uprobe"}
ASSUME NoneAssumption == None \notin Cgroups

VARIABLES
    (* registration *)
    phase,      \* "down", "idle", "add", "rollback", "run", "closed"
    cg,         \* the cgroup of the current call or job
    at,         \* the next prefix of PathsOf[cg]
    registered, \* cgroups in s.registered
    cgmap,      \* keys of CGMAP
    filter,     \* keys of path_filter
    tried,      \* cgroups already registered once
    probes,     \* the optional probes that are attached: "kprobe", "uprobe"
    (* probes *)
    ring,       \* records, oldest first
    dropped,    \* drops_counter is not zero
    inConnect,  \* per key, the connects between their two records
    (* Events *)
    reader,     \* "off", "read", "send", "ended"
    out,        \* events in the channel
    cancelled,  \* the context of Events is cancelled
    closed,     \* s.reader is closed
    pending,    \* connectDedup.pending: keys whose marker is not older than the window
    seen,       \* tlsDedup.seen: names first reported within the window
    (* history *)
    calls, faults,
    staleCg, stalePath, \* entries that a failed delete left behind
    alone,              \* per key, system calls read minus kprobe records of system calls read
    excess,             \* per key, events sent minus connects they belong to
    disturbed,          \* keys with overlapping, unpaired or delayed records
    named, plain        \* TLS names read, and sent without a tag

maps == <<cgmap, filter>>
registry == <<phase, cg, at, registered, tried, probes, staleCg, stalePath>>
kernel == <<ring, dropped, inConnect>>
events == <<reader, out, cancelled, closed, pending, seen>>
counts == <<alone, excess, named, plain>>
vars == <<registry, maps, kernel, events, counts, calls, faults, disturbed>>

Other == [type |-> "other"]  \* opens, execs, DNS queries, hellos without a name
Connect(k, src, by) == [type |-> "connect", key |-> k, src |-> src, by |-> by]
Tls(n) == [type |-> "tls", key |-> n]
Record ==
    {Other} \cup {Tls(n) : n \in Names}
    \cup {Connect(k, src, by) : k \in Keys, src \in {"syscall", "kprobe"}, by \in {"syscall", "uring"}}
Range(s) == {s[i] : i \in DOMAIN s}

RegistryTypes ==
    /\ phase \in {"down", "idle", "add", "rollback", "run", "closed"}
    /\ cg \in Cgroups \cup {None}
    /\ at \in Nat
    /\ registered \subseteq Cgroups /\ cgmap \subseteq Cgroups /\ tried \subseteq Cgroups
    /\ filter \subseteq Paths
    /\ probes \subseteq {"kprobe", "uprobe"}
    /\ faults \in Nat
    /\ staleCg \subseteq Cgroups /\ stalePath \subseteq Paths

StreamTypes ==
    /\ ring \in Seq(Record) /\ Len(ring) <= RingCap
    /\ dropped \in BOOLEAN
    /\ inConnect \in [Keys -> Nat]
    /\ reader \in {"off", "read", "send", "ended"}
    /\ out \in 0..OutCap
    /\ cancelled \in BOOLEAN /\ closed \in BOOLEAN
    /\ pending \subseteq Keys /\ seen \subseteq Names
    /\ calls \in Nat
    /\ alone \in [Keys -> Int] /\ excess \in [Keys -> Int]
    /\ disturbed \subseteq Keys
    /\ named \subseteq Names /\ plain \subseteq Names

\* Types and capacities.
TypeOK == RegistryTypes /\ StreamTypes

Init ==
    /\ phase = "down" /\ cg = None /\ at = 1
    /\ registered = {} /\ cgmap = {} /\ filter = {} /\ tried = {}
    /\ probes = {}
    /\ ring = <<>> /\ dropped = FALSE /\ inConnect = [k \in Keys |-> 0]
    /\ reader = "off" /\ out = 0 /\ cancelled = FALSE /\ closed = FALSE
    /\ pending = {} /\ seen = {}
    /\ calls = 0 /\ faults = 0 /\ staleCg = {} /\ stalePath = {}
    /\ alone = [k \in Keys |-> 0] /\ excess = [k \in Keys |-> 0]
    /\ disturbed = {} /\ named = {} /\ plain = {}

-------------------------------------------------------------------------------
(* Registration                                                            *)

Fails == faults < MaxFaults /\ faults' = faults + 1
Succeeds == UNCHANGED faults

\* New: the tracepoints must attach, kprobes and uprobe may be missing; the
\* runner then calls Events.
New(opt) ==
    /\ phase = "down"
    /\ \/ Succeeds /\ phase' = "idle" /\ probes' = opt /\ reader' = "read"
       \/ Fails /\ phase' = "closed" /\ UNCHANGED <<probes, reader>>
    /\ UNCHANGED <<cg, at, registered, tried, staleCg, stalePath, maps, kernel, out,
                   cancelled, closed, pending, seen, counts, calls, disturbed>>

\* AddCgroup up to CGMAP.Put; a job without paths is refused.
AddCgroup(c) ==
    /\ phase = "idle" /\ ~cancelled
    /\ c \notin tried \cup registered
    /\ tried' = tried \cup {c}
    /\ \/ /\ Succeeds /\ PathsOf[c] # <<>>
          /\ cgmap' = cgmap \cup {c} /\ staleCg' = staleCg \ {c}
          /\ cg' = c /\ at' = 1 /\ phase' = "add"
       \/ /\ Fails \/ (PathsOf[c] = <<>> /\ Succeeds)
          /\ UNCHANGED <<cgmap, staleCg, cg, at, phase>>
    /\ UNCHANGED <<registered, filter, probes, stalePath, kernel, events, counts, calls, disturbed>>

\* One prefix: its key may not fit, the map may be full.
AddPath ==
    /\ phase = "add" /\ at <= Len(PathsOf[cg])
    /\ LET p == PathsOf[cg][at] IN
       \/ /\ Succeeds /\ p \notin BadPaths
          /\ filter' = filter \cup {p} /\ stalePath' = stalePath \ {p}
          /\ at' = at + 1 /\ UNCHANGED phase
       \/ /\ Fails \/ (p \in BadPaths /\ Succeeds)
          /\ phase' = "rollback" /\ UNCHANGED <<filter, stalePath, at>>
    /\ UNCHANGED <<cg, registered, tried, probes, staleCg, cgmap, kernel, events, counts, calls,
                   disturbed>>

Added == {PathsOf[cg][i] : i \in 1..(at - 1)} \ BadPaths

Registered ==
    /\ phase = "add" /\ at = Len(PathsOf[cg]) + 1
    /\ registered' = registered \cup {cg}
    /\ phase' = "run"
    /\ UNCHANGED <<cg, at, tried, probes, staleCg, stalePath, maps, kernel, events, counts, calls,
                   faults, disturbed>>

\* What a failing delete leaves in the maps is logged or ignored.
Delete(cs, ps) ==
    \/ /\ Succeeds
       /\ cgmap' = cgmap \ cs /\ filter' = filter \ ps /\ UNCHANGED <<staleCg, stalePath>>
    \/ /\ Fails /\ \E lc \in SUBSET cs, lp \in SUBSET ps :
          /\ cgmap' = cgmap \ (cs \ lc) /\ staleCg' = staleCg \cup lc
          /\ filter' = filter \ (ps \ lp) /\ stalePath' = stalePath \cup lp

\* Faulty variant: the prefixes stay.
rollbackPaths_cgroupOnly ==
    /\ phase = "rollback"
    /\ Delete({cg}, {})
    /\ phase' = "idle" /\ cg' = None /\ at' = 1
    /\ UNCHANGED <<registered, tried, probes, kernel, events, counts, calls, disturbed>>

\* AddCgroup failed at a prefix: what it put is taken out again.
rollbackPaths ==
    /\ phase = "rollback"
    /\ Delete({cg}, Added)
    /\ phase' = "idle" /\ cg' = None /\ at' = 1
    /\ UNCHANGED <<registered, tried, probes, kernel, events, counts, calls, disturbed>>

\* The workload has ended: RemoveCgroup.  A connect that is cut off between its
\* two records keeps only the first.
RemoveCgroup ==
    /\ phase = "run"
    /\ registered' = registered \ {cg}
    /\ Delete({cg}, Added)
    /\ phase' = "idle" /\ cg' = None /\ at' = 1
    /\ inConnect' = [k \in Keys |-> 0]
    /\ disturbed' = disturbed \cup {k \in Keys : inConnect[k] > 0}
    /\ UNCHANGED <<tried, probes, ring, dropped, events, counts, calls>>

\* Close, after the context of Events: probes and maps are gone.
Close ==
    /\ phase = "idle" /\ cancelled
    /\ phase' = "closed"
    /\ registered' = {} /\ cgmap' = {} /\ filter' = {} /\ staleCg' = {} /\ stalePath' = {}
    /\ probes' = {}
    /\ UNCHANGED <<cg, at, tried, kernel, events, counts, calls, faults, disturbed>>

-------------------------------------------------------------------------------
(* Probes                                                                  *)

\* A call of a process in the registered cgroup or below it, while somebody
\* reads what the probes write.
Call == phase = "run" /\ cg \in cgmap /\ reader # "ended" /\ calls < MaxCalls /\ calls' = calls + 1
Full == Len(ring) = RingCap

Bump(f, k) == [f EXCEPT ![k] = @ + 1]

\* bpf_ringbuf_reserve and submit, or the drop counter.
Submit(r) ==
    IF Full THEN dropped' = TRUE /\ UNCHANGED ring
    ELSE ring' = Append(ring, r) /\ UNCHANGED dropped

\* What a probe other than the connect ones leaves alone.
Otherwise == UNCHANGED <<registry, maps, inConnect, events, counts, faults, disturbed>>

\* A record is reserved before the path is looked up: with a full ring the
\* opens of other files count as drops too.
handle_openat(p) ==
    /\ Call
    /\ IF Full \/ p \in filter THEN Submit(Other) ELSE UNCHANGED <<ring, dropped>>
    /\ Otherwise

handle_execve == Call /\ Submit(Other) /\ Otherwise

\* A DNS query to port 53, or a ClientHello (with a name, or one user space
\* cannot parse).
handle_sendto == Call /\ (Submit(Other) \/ \E n \in Names : Submit(Tls(n))) /\ Otherwise
handle_write == Call /\ (Submit(Other) \/ \E n \in Names : Submit(Tls(n))) /\ Otherwise

\* emit_dns_from_iov, once or (sendmmsg with two messages) twice.
handle_sendmsg == Call /\ Submit(Other) /\ Otherwise
handle_sendmmsg ==
    /\ Call
    /\ \/ Len(ring) + 2 <= RingCap /\ ring' = ring \o <<Other, Other>> /\ UNCHANGED dropped
       \/ Len(ring) + 1 = RingCap /\ ring' = Append(ring, Other) /\ dropped' = TRUE
       \/ Full /\ dropped' = TRUE /\ UNCHANGED ring
    /\ Otherwise

\* SSL_set_tlsext_host_name in the libssl the uprobe is attached to.
handle_ssl_ctrl(n) == "uprobe" \in probes /\ Call /\ Submit(Tls(n)) /\ Otherwise

\* sys_enter_connect.  Only a TCP connect that starts goes on to the kprobe.
handle_connect(k, tcp) ==
    /\ Call
    /\ Submit(Connect(k, "syscall", "syscall"))
    /\ inConnect' = IF tcp /\ "kprobe" \in probes THEN Bump(inConnect, k) ELSE inConnect
    /\ disturbed' = IF ~tcp \/ inConnect[k] > 0 THEN disturbed \cup {k} ELSE disturbed
    /\ UNCHANGED <<registry, maps, events, counts, faults>>

\* tcp_v4_connect and tcp_v6_connect: called by the kernel ...
handle_tcp_connect(k, by) == Submit(Connect(k, "kprobe", by))

\* ... later in a system call ...
SyscallGoesOn(k) ==
    /\ phase = "run" /\ reader # "ended" /\ inConnect[k] > 0
    /\ handle_tcp_connect(k, "syscall")
    /\ inConnect' = [inConnect EXCEPT ![k] = @ - 1]
    /\ UNCHANGED <<registry, maps, events, counts, calls, faults, disturbed>>

\* ... or for io_uring, without one.
UringConnect(k) ==
    /\ Call /\ "kprobe" \in probes
    /\ handle_tcp_connect(k, "uring")
    /\ disturbed' = IF inConnect[k] > 0 THEN disturbed \cup {k} ELSE disturbed
    /\ UNCHANGED <<registry, maps, inConnect, events, counts, faults>>

-------------------------------------------------------------------------------
(* Events                                                                  *)

(* Both filters forget an entry that is older than their window, so an     *)
(* expired entry and none are the same (Tick).                             *)

\* Faulty variant: the marker is not cleared.
connectObserve_keep(r) ==
    [dup |-> r.src = "kprobe" /\ r.key \in pending,
     pending |-> IF r.src = "syscall" THEN pending \cup {r.key} ELSE pending]

\* Faulty variant: nothing is a duplicate.
connectObserve_all(r) ==
    [dup |-> FALSE,
     pending |-> IF r.src = "syscall" THEN pending \cup {r.key} ELSE pending \ {r.key}]

\* connectDedup.observe: a system call leaves a marker, a kprobe record that
\* finds one consumes it and is dropped.
connectObserve(r) ==
    [dup |-> r.src = "kprobe" /\ r.key \in pending,
     pending |-> IF r.src = "syscall" THEN pending \cup {r.key} ELSE pending \ {r.key}]

\* tlsDedup.observe: the first report within the window stays the first.
tlsObserve(n) ==
    [dup |-> n \in seen, seen |-> seen \cup {n}]

\* The kprobe record of a connect whose system call was recorded before.
Second(r) == r.src = "kprobe" /\ r.by = "syscall"

ReadConnect(r) ==
    LET o == connectObserve(r) IN
    /\ pending' = o.pending
    /\ reader' = IF o.dup THEN "read" ELSE "send"
    /\ alone' = [alone EXCEPT ![r.key] =
                    @ + (IF r.src = "syscall" THEN 1 ELSE 0) - (IF Second(r) THEN 1 ELSE 0)]
    /\ excess' = [excess EXCEPT ![r.key] =
                    @ + (IF o.dup THEN 0 ELSE 1) - (IF Second(r) THEN 0 ELSE 1)]
    /\ disturbed' = IF Second(r) /\ r.key \notin pending THEN disturbed \cup {r.key} ELSE disturbed
    /\ UNCHANGED <<seen, named, plain>>

ReadTls(r) ==
    /\ LET o == tlsObserve(r.key) IN
       /\ seen' = o.seen
       /\ named' = named \cup {r.key}
       /\ plain' = IF o.dup THEN plain ELSE plain \cup {r.key}
    /\ reader' = "send"
    /\ UNCHANGED <<pending, alone, excess, disturbed>>

ReadOther ==
    /\ reader' = "send"
    /\ UNCHANGED <<pending, seen, counts, disturbed>>

\* One record.  The kernel writes no short or unknown ones.
Read ==
    /\ reader = "read" /\ ring # <<>> /\ ~closed
    /\ LET r == Head(ring) IN
       \/ r.type = "connect" /\ ReadConnect(r)
       \/ r.type = "tls" /\ ReadTls(r)
       \/ r.type = "other" /\ ReadOther
    /\ ring' = Tail(ring)
    /\ UNCHANGED <<registry, maps, dropped, inConnect, out, cancelled, closed, calls, faults>>

\* Faulty variant: a plain send.
Send_noCtx ==
    /\ reader = "send"
    /\ out < OutCap /\ out' = out + 1 /\ reader' = "read"
    /\ UNCHANGED <<registry, maps, kernel, cancelled, closed, pending, seen, counts, calls, faults, disturbed>>

\* The channel, or the end of the context.
Send ==
    /\ reader = "send"
    /\ \/ out < OutCap /\ out' = out + 1 /\ reader' = "read"
       \/ cancelled /\ reader' = "ended" /\ UNCHANGED out
    /\ ring' = IF reader' = "ended" THEN <<>> ELSE ring
    /\ UNCHANGED <<registry, maps, dropped, inConnect, cancelled, closed, pending, seen, counts,
                   calls, faults, disturbed>>

\* The goroutine that waits for the context closes the reader.
CloseReader ==
    /\ cancelled /\ ~closed
    /\ closed' = TRUE
    /\ UNCHANGED <<registry, maps, kernel, reader, out, cancelled, pending, seen, counts, calls,
                   faults, disturbed>>

\* Read on a closed reader fails, and what is in the ring is lost.
ReadClosed ==
    /\ reader = "read" /\ closed
    /\ reader' = "ended" /\ ring' = <<>>
    /\ UNCHANGED <<registry, maps, dropped, inConnect, out, cancelled, closed, pending, seen, counts,
                   calls, faults, disturbed>>

\* The runner's forwarder takes an event.
Forward ==
    /\ out > 0 /\ out' = out - 1
    /\ UNCHANGED <<registry, maps, kernel, reader, cancelled, closed, pending, seen, counts, calls,
                   faults, disturbed>>

Cancel ==
    /\ ~cancelled /\ phase # "down" /\ phase # "closed"
    /\ cancelled' = TRUE
    /\ UNCHANGED <<registry, maps, kernel, reader, out, closed, pending, seen, counts, calls, faults,
                   disturbed>>

\* Time passes between two reads: some entries expire.
Tick ==
    /\ \/ \E k \in pending : pending' = pending \ {k} /\ UNCHANGED seen
       \/ \E n \in seen : seen' = seen \ {n} /\ UNCHANGED pending
    /\ UNCHANGED <<registry, maps, kernel, reader, out, cancelled, closed, counts, calls, faults,
                   disturbed>>

-------------------------------------------------------------------------------

Registration ==
    \/ AddPath \/ Registered \/ rollbackPaths \/ RemoveCgroup \/ Close

Workload ==
    \/ \E p \in Paths : handle_openat(p)
    \/ handle_execve \/ handle_sendto \/ handle_write \/ handle_sendmsg \/ handle_sendmmsg
    \/ \E n \in Names : handle_ssl_ctrl(n)
    \/ \E k \in Keys, tcp \in BOOLEAN : handle_connect(k, tcp)
    \/ \E k \in Keys : SyscallGoesOn(k) \/ UringConnect(k)

Reader == Read \/ Send \/ ReadClosed

Next ==
    \/ \E opt \in Attachable : New(opt)
    \/ \E c \in Cgroups : AddCgroup(c)
    \/ Registration
    \/ Workload
    \/ Reader
    \/ Forward
    \/ Cancel
    \/ CloseReader
    \/ Tick

Spec == Init /\ [][Next]_vars

\* The goroutines of Events run while they can.  Nothing is assumed of the
\* forwarder, which may be busy sending.
FairSpec == Spec /\ WF_vars(Reader) /\ WF_vars(CloseReader)

-------------------------------------------------------------------------------
(* Properties                                                              *)

Expected == IF phase = "idle" THEN {} ELSE IF cg = None THEN {} ELSE {cg}

\* The probes watch what the current job asked for, and nothing else: every
\* prefix of it while the workload runs, nothing of a job that has ended or
\* whose AddCgroup failed halfway, except what a delete failed to remove.
MapsFollowJobs ==
    /\ cgmap = Expected \cup staleCg
    /\ filter = (IF Expected = {} THEN {} ELSE Added) \cup stalePath
    /\ phase = "run" => registered = {cg} /\ Range(PathsOf[cg]) \subseteq filter

\* The connects of a destination that no event shows are at most the system
\* calls read whose own kprobe record was not: a UDP connect, one that was cut
\* off or repeated, or whose kprobe record is still to come or was lost.  Only
\* behind such a call does connectDedup take an io_uring connect for the second
\* record of another connect.
OnlyUnpairedHide == \A k \in Keys : 0 - excess[k] <= alone[k]

\* A consumer that skips tagged events still learns every host name.
NoNameHidden == named \subseteq plain

\* What the two filters hide is accounted for.
HiddenIsKnown == OnlyUnpairedHide /\ NoNameHidden

\* While the drop counter is zero, the records of a destination come in pairs
\* and the reader keeps up, there is one event per connect, neither fewer nor
\* more.
OneEventPerConnect == ~dropped => \A k \in Keys \ disturbed : excess[k] = 0

\* The channel closes once the context is cancelled, also while it is full.
StreamEnds == cancelled ~> reader = "ended"
===============================================================================
