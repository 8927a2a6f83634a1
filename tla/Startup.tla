------------------------------ MODULE Startup ------------------------------
(***************************************************************************)
(* How processes of the program start and stop on one machine (src/main.rs *)
(* run, src/server.rs BoundServer::bind, src/logger.rs Logger::spawn): the *)
(* configuration is validated, every socket is bound in order, then the    *)
(* log is locked and opened, and only then does a task start.  A failure   *)
(* anywhere gives back what was taken.  The processes compete for the      *)
(* kernel's sockets and for the lock of the log.                           *)
(*                                                                         *)
(* What a process does once it runs is module Sensor's, and what it writes *)
(* module FileSink's.                                                      *)
(***************************************************************************)
EXTENDS Config, Integers, SequencesExt

CONSTANTS Procs,        \* processes
          Nobody,       \* nobody holds the lock
          Deployments,  \* the configuration of each process, all cases
          Hosts,        \* hosts of a family, the wildcard 0 aside
          Ephemeral,    \* ports the kernel gives to a bind of port 0
          MaxStops,     \* bound on orderly stops
          MaxFaults     \* bound on kills and errors of the system

ASSUME StartupAssumption ==
  /\ Procs # {} /\ Nobody \notin Procs
  /\ Hosts \subseteq Nat \ {0} /\ Hosts # {}
  /\ Ephemeral \subseteq Nat \ {0}
  /\ MaxStops \in Nat /\ MaxFaults \in Nat

VARIABLES
  config,   \* the configuration of each process
  v6only,   \* the machine's default for IPv6 wildcard sockets
  pc,       \* where each process is
  sockets,  \* what the kernel has bound: [owner, index, ip, port]
  lock,     \* log path -> the process that holds its lock file
  late,     \* processes whose lock task was given up and may still run
  why,      \* how each process's last start failed, "none" if it did not
  stops, faults

vars == <<config, v6only, pc, sockets, lock, late, why, stops, faults>>

-----------------------------------------------------------------------------
(* The kernel's sockets (external)                                         *)

Destinations == [family : {"v4", "v6"}, host : Hosts]

\* The destinations a socket bound to ip hears.
Hears(ip, only) ==
  LET a == canonical_ip(ip) IN
  {d \in Destinations :
     /\ is_unspecified(a) \/ d.host = a.host
     /\ d.family = a.family \/ (is_unspecified(a) /\ a.family = "v6" /\ ~only)}

Overlap(a, b, only) ==
  a.port = b.port /\ Hears(a.ip, only) \cap Hears(b.ip, only) # {}

InTheWay(a) == {s \in sockets : Overlap(s, a, v6only)}

-----------------------------------------------------------------------------

\* What bind binds, in its order: the endpoints, then management.
Sockets(c) ==
  [k \in DOMAIN c.endpoints |-> c.endpoints[k].bind]
    \o (IF c.metrics.enabled THEN <<c.metrics.bind>> ELSE <<>>)

\* Deployments are configurations: sequences of endpoints, each with an
\* address, and of tags.
SocketAddr == [ip : [family : {"v4", "v6", "mapped"}, host : Hosts \cup {0}], port : Nat]

ASSUME DeploymentsAssumption ==
  \A deployment \in Deployments : \A p \in Procs :
    LET c == deployment[p] IN
    /\ c.endpoints \in Seq(Range(c.endpoints))
    /\ \A k \in DOMAIN c.endpoints : c.endpoints[k].bind \in SocketAddr
    /\ c.metrics.bind \in SocketAddr
    /\ c.tags \in Seq(Range(c.tags)) /\ \A k \in DOMAIN c.tags : c.tags[k].value.len \in Nat

Own(p) == {s \in sockets : s.owner = p}

Unbound(p) == DOMAIN Sockets(config[p]) \ {s.index : s \in Own(p)}

\* (mutant) the sockets are bound concurrently
NextSocket_any(p) == Unbound(p)

NextSocket(p) == {k \in Unbound(p) : \A j \in Unbound(p) : k <= j}

Init ==
  /\ config \in Deployments
  /\ v6only \in BOOLEAN
  /\ pc = [p \in Procs |-> "down"]
  /\ sockets = {}
  /\ lock = [path \in {log_path(config[p]) : p \in {q \in Procs : has_file(config[q])}} |-> Nobody]
  /\ late = {}
  /\ why = [p \in Procs |-> "none"]
  /\ stops = 0 /\ faults = 0

Go(p, place) == pc' = [pc EXCEPT ![p] = place]

\* (mutant) a failed bind leaves the earlier listeners open
Close_last(p) == sockets' = {s \in sockets : s.owner # p \/ s.index = 1}

\* Dropping the listeners.
Close(p) == sockets' = sockets \ Own(p)

\* (mutant) the lock is the existence of its file, which is never removed
Unlock_left(p) == UNCHANGED lock

\* The kernel drops the lock of a closed file; the file stays.
Unlock(p) == lock' = [path \in DOMAIN lock |-> IF lock[path] = p THEN Nobody ELSE lock[path]]

\* An error leaves bind or run.  What was taken is not given back yet.
Fail(p, cause) == Go(p, "failing") /\ why' = [why EXCEPT ![p] = cause]

Fault == faults < MaxFaults /\ faults' = faults + 1

Start(p) ==
  /\ pc[p] = "down"   \* started by hand, or again by its supervisor
  /\ IF validate(config[p])
     THEN Go(p, "bind") /\ why' = [why EXCEPT ![p] = "none"]
     ELSE UNCHANGED pc /\ why' = [why EXCEPT ![p] = "invalid"]
  /\ UNCHANGED <<config, v6only, sockets, lock, late, stops, faults>>

\* TcpListener::bind, and the port local_addr then reports.
Bind(p) ==
  /\ pc[p] = "bind"
  /\ \E k \in NextSocket(p) :
       LET wanted == Sockets(config[p])[k]
           At(port) == [owner |-> p, index |-> k, ip |-> wanted.ip, port |-> port]
       IN
       \/ /\ \E port \in IF wanted.port = 0 THEN Ephemeral ELSE {wanted.port} :
               /\ InTheWay(At(port)) = {}
               /\ sockets' = sockets \cup {At(port)}
          /\ UNCHANGED <<pc, lock, why>>
       \/ /\ wanted.port # 0
          /\ InTheWay(At(wanted.port)) # {}
          /\ Fail(p, "in_use")
          /\ UNCHANGED <<sockets, lock>>
  /\ UNCHANGED <<config, v6only, late, stops, faults>>

\* All are bound; the log is next, or stdout needs none.
Bound(p) ==
  /\ pc[p] = "bind"
  /\ Unbound(p) = {}
  /\ Go(p, IF has_file(config[p]) THEN "lock" ELSE "run")
  /\ UNCHANGED <<config, v6only, sockets, lock, late, why, stops, faults>>

\* (mutant) the lock file is opened but not locked
try_lock_opened(p, path) == pc[p] = "lock"

try_lock(p, path) == lock[path] = Nobody

\* acquire_lock does not wait for another writer.
Lock(p) ==
  LET path == log_path(config[p]) IN
  /\ pc[p] = "lock"
  /\ \/ /\ try_lock(p, path)
        /\ lock' = [lock EXCEPT ![path] = p]
        /\ Go(p, "open")
        /\ UNCHANGED why
     \/ /\ ~try_lock(p, path)
        /\ Fail(p, "locked")
        /\ UNCHANGED lock
  /\ UNCHANGED <<config, v6only, sockets, late, stops, faults>>

OpenLog(p) ==
  /\ pc[p] = "open"
  /\ Go(p, "run")
  /\ UNCHANGED <<config, v6only, sockets, lock, late, why, stops, faults>>

\* An error of the system, or the deadline of FileSink::open.  A lock task
\* that has not run yet is not cancelled.
SystemError(p) ==
  /\ pc[p] \in {"bind", "lock", "open"}
  /\ Fault
  /\ Fail(p, "system")
  /\ late' \in IF pc[p] = "lock" THEN {late, late \cup {p}} ELSE {late}
  /\ UNCHANGED <<config, v6only, sockets, lock, stops>>

\* The listeners and the log are dropped, and the runtime shuts down.
GiveBack(p) ==
  /\ pc[p] = "failing"
  /\ Go(p, "leaving")
  /\ Close(p) /\ Unlock(p)
  /\ UNCHANGED <<config, v6only, late, why, stops, faults>>

\* A given-up lock task takes the lock, and drops it when it returns.
LateLock(p) ==
  LET path == log_path(config[p]) IN
  /\ p \in late
  /\ lock[path] = Nobody
  /\ lock' = [lock EXCEPT ![path] = p]
  /\ UNCHANGED <<config, v6only, pc, sockets, late, why, stops, faults>>

LateUnlock(p) ==
  /\ p \in late
  /\ Unlock(p)
  /\ late' = late \ {p}
  /\ UNCHANGED <<config, v6only, pc, sockets, why, stops, faults>>

\* A signal: the listeners go first, ...
Stop(p) ==
  /\ pc[p] = "run"
  /\ stops < MaxStops
  /\ stops' = stops + 1
  /\ Go(p, "drain")
  /\ Close(p)
  /\ UNCHANGED <<config, v6only, lock, late, why, faults>>

\* ... and the log when its writer ends.
WriterEnds(p) ==
  /\ pc[p] = "drain"
  /\ Go(p, "leaving")
  /\ Unlock(p)
  /\ UNCHANGED <<config, v6only, sockets, late, why, stops, faults>>

\* The process ends, with what its blocking threads still hold.
Exit(p) ==
  /\ pc[p] = "leaving"
  /\ Go(p, "down")
  /\ Unlock(p)
  /\ late' = late \ {p}
  /\ UNCHANGED <<config, v6only, sockets, why, stops, faults>>

\* The process is killed, at any point.
Kill(p) ==
  /\ pc[p] # "down"
  /\ Fault
  /\ Go(p, "down")
  /\ Close(p) /\ Unlock(p)
  /\ late' = late \ {p}
  /\ why' = [why EXCEPT ![p] = "none"]
  /\ UNCHANGED <<config, v6only, stops>>

Next ==
  \E p \in Procs :
    \/ Start(p) \/ Bind(p) \/ Bound(p) \/ Lock(p) \/ OpenLog(p)
    \/ SystemError(p) \/ GiveBack(p) \/ LateLock(p) \/ LateUnlock(p)
    \/ Stop(p) \/ WriterEnds(p) \/ Exit(p) \/ Kill(p)

Spec == Init /\ [][Next]_vars

-----------------------------------------------------------------------------
(* Properties                                                              *)

HoldsLog(p) == has_file(config[p]) /\ pc[p] \in {"open", "run", "drain"}

\* Starting is all or nothing: a process that runs listens on every socket
\* of its configuration, one that stops or gave up listens on none, and the
\* lock is held exactly while the log is open, or by a lock task that was
\* given up (main.rs run, server.rs BoundServer::bind, logger.rs open).
AllOrNothing ==
  \A p \in Procs :
    /\ pc[p] = "run" => {s.index : s \in Own(p)} = DOMAIN Sockets(config[p])
    /\ pc[p] \in {"down", "leaving", "drain"} => Own(p) = {}
    /\ HoldsLog(p) => lock[log_path(config[p])] = p
    /\ \A path \in DOMAIN lock : lock[path] = p => HoldsLog(p) \/ pc[p] = "failing" \/ p \in late

\* Two processes never have the same log open, whatever was killed, and
\* whatever each of their configurations calls it (acquire_lock).
OneWriterPerLog ==
  \A p, q \in Procs :
    p # q /\ HoldsLog(p) /\ HoldsLog(q) => log_path(config[p]) # log_path(config[q])

\* What validate takes for a conflict of two fixed binds is what the kernel
\* refuses on a machine with dual-stack wildcards, and no less than what it
\* refuses on another (config.rs binds_conflict).
ConflictIsOverlap ==
  \A a, b \in UNION {Range(Sockets(config[p])) : p \in Procs} :
    a.port # 0 /\ b.port # 0 =>
      /\ binds_conflict(a, b) <=> Overlap(a, b, FALSE)
      /\ Overlap(a, b, v6only) => binds_conflict(a, b)

\* A start fails for another's sake only: a socket is in use because another
\* process has it, or because this one asked for any free port, and the log
\* is locked by a process that lives.  What a dead process leaves behind, the
\* lock file first, keeps nobody from starting.
FailuresJustified ==
  [][\A p \in Procs :
       /\ why[p] # "in_use" /\ why'[p] = "in_use" =>
            \/ \E k \in Unbound(p) :
                 \E s \in InTheWay(Sockets(config[p])[k]) : s.owner # p
            \/ \E k \in DOMAIN Sockets(config[p]) : Sockets(config[p])[k].port = 0
       /\ why[p] # "locked" /\ why'[p] = "locked" =>
            \E q \in Procs \ {p} :
              /\ lock[log_path(config[p])] = q
              /\ HoldsLog(q) \/ pc[q] = "failing" \/ q \in late]_vars

\* Of processes started with one configuration of fixed ports, not all fail
\* for each other's sake: binding in the order of the configuration lets the
\* first one win (server.rs bind, before Logger::spawn in main.rs run).
SomeoneRuns ==
  /\ stops = 0 /\ faults = 0
  /\ \A p, q \in Procs : config[p] = config[q]
  /\ \A p \in Procs : \A a \in Range(Sockets(config[p])) : a.port # 0
  => \E p \in Procs : why[p] \notin {"in_use", "locked"}

\* Upper bounds of a record, from what the handlers can put in one: the
\* texts of the sensor, and at most one request head, of which no byte takes
\* more than three in memory or as JSON.
Texts(c) ==
  c.id.len + c.environment.len + 64
    + FoldSeq(LAMBDA tag, sum : sum + tag.key.len + 2 * tag.value.len + 6, 0, c.tags)
LongestRecord(c) == 2048 + Texts(c) + 3 * 8192 + 3 * c.max_bytes_per_session
LongestLine(c) == 2048 + Texts(c) + 3 * 8192 + 4 * c.max_bytes_per_session

\* Upper bounds of what a sensor keeps: a full queue of records, and the
\* stamps of a full limiter (MemoryBound of RateLimiter).
FullQueue(c) == c.buffer_size * LongestRecord(c)
FullLimiter(c) == c.max_tracked_ips * c.rate_limit_per_ip_per_min

\* A configuration that was accepted can be served: the longest line fits in
\* a file of the log, or FileSink::write would end the process; the longest
\* record is no longer than validate reckons, so that a full queue of them is
\* within its budget; and a full limiter is within that of its histories
\* (config.rs validate).
WithinBudgets ==
  \A p \in Procs : pc[p] = "run" =>
    LET c == config[p] IN
    /\ LongestLine(c) <= c.max_file_bytes
    /\ LongestRecord(c) <= estimated_record_bytes(c)
    /\ FullQueue(c) <= queue_budget
    /\ FullLimiter(c) <= history_budget

=============================================================================
