---------------------------- MODULE StartupProofs ----------------------------
(***************************************************************************)
(* Proofs about Startup for every set of processes, every configuration,   *)
(* every set of hosts and of ephemeral ports, and any number of stops and  *)
(* faults.                                                                 *)
(***************************************************************************)
EXTENDS Startup, FiniteSetTheorems, WellFoundedInduction, TLAPS

-----------------------------------------------------------------------------
(* Addresses: what validate takes for a conflict, and what the kernel does *)

Canonical == [family : {"v4", "v6"}, host : Hosts \cup {0}]

\* A canonical address is of one of two families.
LEMMA CanonicalType ==
  ASSUME NEW a \in SocketAddr
  PROVE  /\ canonical_ip(a.ip) \in Canonical
         /\ a.port \in Nat
BY DEF SocketAddr, canonical_ip, Canonical

\* The destinations two addresses share, by family and wildcard.
LEMMA SharedDestinations ==
  ASSUME NEW x, NEW y, NEW only \in BOOLEAN,
         canonical_ip(x) \in Canonical, canonical_ip(y) \in Canonical
  PROVE  LET a == canonical_ip(x)
             b == canonical_ip(y)
             both == \/ a.host = b.host
                     \/ a.host = 0
                     \/ b.host = 0
             wild(z) == z.family = "v6" /\ z.host = 0 /\ ~only
         IN  Hears(x, only) \cap Hears(y, only) # {} <=>
               \/ a.family = b.family /\ both
               \/ a.family # b.family /\ (wild(a) \/ wild(b))
<1> DEFINE a == canonical_ip(x)
           b == canonical_ip(y)
<1>0. PICK h \in Hosts : TRUE
  BY StartupAssumption
<1>1. a.family \in {"v4", "v6"} /\ a.host \in Hosts \cup {0}
  BY DEF Canonical
<1>2. b.family \in {"v4", "v6"} /\ b.host \in Hosts \cup {0}
  BY DEF Canonical
<1>3. 0 \notin Hosts
  BY StartupAssumption
<1>4. ASSUME NEW d, d \in Hears(x, only), d \in Hears(y, only)
      PROVE  \/ /\ a.family = b.family
                /\ a.host = b.host \/ a.host = 0 \/ b.host = 0
             \/ /\ a.family # b.family
                /\ \/ a.family = "v6" /\ a.host = 0 /\ ~only
                   \/ b.family = "v6" /\ b.host = 0 /\ ~only
  BY <1>4, <1>1, <1>2 DEF Hears, is_unspecified
<1>5. ASSUME a.family = b.family, a.host = b.host \/ a.host = 0 \/ b.host = 0
      PROVE  Hears(x, only) \cap Hears(y, only) # {}
  <2> DEFINE host == IF a.host # 0 THEN a.host ELSE IF b.host # 0 THEN b.host ELSE h
             d == [family |-> a.family, host |-> host]
  <2>1. d \in Destinations
    BY <1>0, <1>1, <1>2 DEF Destinations
  <2>2. d.family = a.family /\ d.host = host
    OBVIOUS
  <2>3. d \in Hears(x, only) /\ d \in Hears(y, only)
    BY <1>5, <2>1, <2>2 DEF Hears, is_unspecified
  <2> QED
    BY <2>3
<1>6. ASSUME a.family # b.family, ~only,
             \/ a.family = "v6" /\ a.host = 0
             \/ b.family = "v6" /\ b.host = 0
      PROVE  Hears(x, only) \cap Hears(y, only) # {}
  <2> DEFINE other == IF a.family = "v6" THEN b ELSE a
             host == IF other.host # 0 THEN other.host ELSE h
             d == [family |-> other.family, host |-> host]
  <2>1. d \in Destinations
    BY <1>0, <1>1, <1>2 DEF Destinations
  <2>2. d.family = other.family /\ d.host = host
    OBVIOUS
  <2>3. d \in Hears(x, only) /\ d \in Hears(y, only)
    BY <1>1, <1>2, <1>6, <2>1, <2>2 DEF Hears, is_unspecified
  <2> QED
    BY <2>3
<1> QED
  BY <1>4, <1>5, <1>6

\* binds_conflict of two fixed addresses is what a machine with dual-stack
\* wildcards refuses, and covers what any machine refuses.
LEMMA ConflictExact ==
  ASSUME NEW a \in SocketAddr, NEW b \in SocketAddr,
         a.port # 0, b.port # 0
  PROVE  /\ binds_conflict(a, b) <=> Overlap(a, b, FALSE)
         /\ \A only \in BOOLEAN : Overlap(a, b, only) => binds_conflict(a, b)
<1> DEFINE x == canonical_ip(a.ip)
           y == canonical_ip(b.ip)
<1>1. x \in Canonical /\ y \in Canonical
  BY CanonicalType
<1>2. x = y <=> x.family = y.family /\ x.host = y.host
  <2>1. x = [family |-> x.family, host |-> x.host] /\ y = [family |-> y.family, host |-> y.host]
    BY <1>1 DEF Canonical
  <2> QED
    BY <2>1
<1>3. binds_conflict(a, b) <=>
        /\ a.port = b.port
        /\ \/ x.family = y.family /\ (x.host = y.host \/ x.host = 0 \/ y.host = 0)
           \/ /\ x.family # y.family
              /\ (x.family = "v6" /\ x.host = 0) \/ (y.family = "v6" /\ y.host = 0)
  <2>1. binds_conflict(a, b) <=>
          /\ a.port # 0 /\ b.port # 0 /\ a.port = b.port
          /\ \/ x = y
             \/ x.family = y.family /\ (x.host = 0 \/ y.host = 0)
             \/ x.family # y.family /\ \E z \in {x, y} : z.family = "v6" /\ z.host = 0
    BY DEF binds_conflict, is_unspecified
  <2> HIDE DEF x, y
  <2> QED
    BY <1>2, <2>1
<1>4. ASSUME NEW only \in BOOLEAN
      PROVE  Overlap(a, b, only) <=>
               /\ a.port = b.port
               /\ \/ x.family = y.family /\ (x.host = y.host \/ x.host = 0 \/ y.host = 0)
                  \/ /\ x.family # y.family /\ ~only
                     /\ (x.family = "v6" /\ x.host = 0) \/ (y.family = "v6" /\ y.host = 0)
  <2>1. Hears(a.ip, only) \cap Hears(b.ip, only) # {} <=>
          \/ x.family = y.family /\ (x.host = y.host \/ x.host = 0 \/ y.host = 0)
          \/ /\ x.family # y.family
             /\ \/ x.family = "v6" /\ x.host = 0 /\ ~only
                \/ y.family = "v6" /\ y.host = 0 /\ ~only
    BY <1>1, SharedDestinations
  <2>2. Overlap(a, b, only) <=> a.port = b.port /\ Hears(a.ip, only) \cap Hears(b.ip, only) # {}
    BY DEF Overlap
  <2> HIDE DEF x, y
  <2> QED
    BY <2>1, <2>2
<1> QED
  BY <1>3, <1>4

\* Of two binds, neither comes first in a conflict.
LEMMA ConflictSymmetric ==
  ASSUME NEW a, NEW b
  PROVE  binds_conflict(a, b) <=> binds_conflict(b, a)
BY DEF binds_conflict

-----------------------------------------------------------------------------
(* The sockets of a configuration                                          *)

\* The elements of a concatenation, by position.
LEMMA Concatenation ==
  ASSUME NEW S, NEW u \in Seq(S), NEW w \in Seq(S)
  PROVE  /\ DOMAIN (u \o w) = 1..(Len(u) + Len(w))
         /\ \A k \in 1..Len(u) : (u \o w)[k] = u[k]
         /\ \A k \in (Len(u) + 1)..(Len(u) + Len(w)) : (u \o w)[k] = w[k - Len(u)]
OBVIOUS

\* The sockets of a configuration are addresses, and validate lets none of them
\* conflict with another.
LEMMA SocketsOfConfig ==
  ASSUME NEW c,
         c.endpoints \in Seq(Range(c.endpoints)),
         \A k \in DOMAIN c.endpoints : c.endpoints[k].bind \in SocketAddr,
         c.metrics.bind \in SocketAddr
  PROVE  /\ \A k \in DOMAIN Sockets(c) : Sockets(c)[k] \in SocketAddr
         /\ validate(c) =>
              \A j, k \in DOMAIN Sockets(c) :
                j # k => ~binds_conflict(Sockets(c)[j], Sockets(c)[k])
<1> DEFINE n == Len(c.endpoints)
           eps == [k \in DOMAIN c.endpoints |-> c.endpoints[k].bind]
           more == IF c.metrics.enabled THEN <<c.metrics.bind>> ELSE <<>>
<1>1. n \in Nat /\ DOMAIN c.endpoints = 1..n
  OBVIOUS
<1>2. eps \in Seq(SocketAddr) /\ Len(eps) = n
  BY <1>1
<1>3. more \in Seq(SocketAddr) /\ Len(more) = IF c.metrics.enabled THEN 1 ELSE 0
  OBVIOUS
<1>4. Sockets(c) = eps \o more
  BY DEF Sockets
<1>5. /\ DOMAIN Sockets(c) = 1..(n + Len(more))
      /\ \A k \in 1..n : Sockets(c)[k] = c.endpoints[k].bind
      /\ c.metrics.enabled => Sockets(c)[n + 1] = c.metrics.bind
  <2>1. \A k \in 1..n : eps[k] = c.endpoints[k].bind
    BY <1>1
  <2>2. c.metrics.enabled => Len(more) = 1 /\ more[1] = c.metrics.bind
    OBVIOUS
  <2> HIDE DEF eps, more
  <2>3. eps \in Seq(SocketAddr) /\ more \in Seq(SocketAddr) /\ Len(eps) = n
    BY <1>2, <1>3
  <2>4. /\ DOMAIN (eps \o more) = 1..(Len(eps) + Len(more))
        /\ \A k \in 1..Len(eps) : (eps \o more)[k] = eps[k]
        /\ \A k \in (Len(eps) + 1)..(Len(eps) + Len(more)) : (eps \o more)[k] = more[k - Len(eps)]
    BY <2>3, Concatenation
  <2> HIDE DEF n
  <2>5. c.metrics.enabled => (eps \o more)[n + 1] = c.metrics.bind
    <3> SUFFICES ASSUME c.metrics.enabled PROVE (eps \o more)[n + 1] = c.metrics.bind
      OBVIOUS
    <3>a. Len(more) = 1
      BY <2>2
    <3>b. n \in Nat
      BY <1>1
    <3>1. n + 1 \in (n + 1)..(n + Len(more)) /\ (n + 1) - n = 1
      BY <3>a, <3>b
    <3>2. \A k \in (n + 1)..(n + Len(more)) : (eps \o more)[k] = more[k - n]
      BY <2>3, <2>4
    <3>3. (eps \o more)[n + 1] = more[(n + 1) - n]
      BY <3>1, <3>2
    <3>4. more[(n + 1) - n] = more[1]
      BY <3>1
    <3> QED
      BY <2>2, <3>3, <3>4
  <2> QED
    BY <1>4, <2>1, <2>3, <2>4, <2>5
<1> HIDE DEF eps, more
<1>k. \A k \in DOMAIN Sockets(c) : k \in 1..n \/ (c.metrics.enabled /\ k = n + 1)
  <2>1. CASE c.metrics.enabled
    <3>1. Len(more) = 1
      BY <1>3, <2>1
    <3> QED
      BY <1>1, <1>5, <2>1, <3>1
  <2>2. CASE ~c.metrics.enabled
    <3>1. Len(more) = 0
      BY <1>3, <2>2
    <3> QED
      BY <1>1, <1>5, <3>1
  <2> QED
    BY <2>1, <2>2
<1>6. \A k \in DOMAIN Sockets(c) : Sockets(c)[k] \in SocketAddr
  <2> SUFFICES ASSUME NEW k \in DOMAIN Sockets(c) PROVE Sockets(c)[k] \in SocketAddr
    OBVIOUS
  <2>1. CASE k \in 1..n
    BY <1>1, <1>5, <2>1
  <2>2. CASE k \notin 1..n
    <3>1. c.metrics.enabled /\ k = n + 1
      BY <1>k, <2>2
    <3> QED
      BY <1>5, <3>1
  <2> QED
    BY <2>1, <2>2
<1>7. ASSUME validate(c), NEW j \in DOMAIN Sockets(c), NEW k \in DOMAIN Sockets(c), j # k
      PROVE  ~binds_conflict(Sockets(c)[j], Sockets(c)[k])
  <2>1. /\ \A i, l \in 1..n : i # l => ~binds_conflict(c.endpoints[i].bind, c.endpoints[l].bind)
        /\ c.metrics.enabled => \A i \in 1..n : ~binds_conflict(c.endpoints[i].bind, c.metrics.bind)
    BY <1>1, <1>7 DEF validate, EndpointsApart
  <2>2. CASE j \in 1..n /\ k \in 1..n
    BY <1>5, <1>7, <2>1, <2>2
  <2>3. CASE j \in 1..n /\ k \notin 1..n
    <3>1. c.metrics.enabled /\ k = n + 1
      BY <1>k, <2>3
    <3> QED
      BY <1>5, <2>1, <2>3, <3>1
  <2>4. CASE j \notin 1..n /\ k \in 1..n
    <3>1. c.metrics.enabled /\ j = n + 1
      BY <1>k, <2>4
    <3> QED
      BY <1>5, <2>1, <2>4, <3>1, ConflictSymmetric
  <2>5. CASE j \notin 1..n /\ k \notin 1..n
    BY <1>k, <1>7, <2>5
  <2> QED
    BY <2>2, <2>3, <2>4, <2>5
<1> QED
  BY <1>6, <1>7

-----------------------------------------------------------------------------
(* The invariant of the processes                                          *)

Places == {"down", "bind", "lock", "open", "run", "failing", "drain", "leaving"}

\* A bound socket is one the owner's configuration asks for.
Asked(s) ==
  LET wanted == Sockets(config[s.owner])[s.index] IN
  /\ s.owner \in Procs
  /\ s.index \in DOMAIN Sockets(config[s.owner])
  /\ s.ip = wanted.ip
  /\ wanted.port # 0 => s.port = wanted.port

StartTypeOK ==
  /\ config \in Deployments /\ v6only \in BOOLEAN
  /\ pc \in [Procs -> Places]
  /\ why \in [Procs -> {"none", "invalid", "in_use", "locked", "system"}]
  /\ late \in SUBSET Procs

\* The sockets, against where each process is.
SocketsInv ==
  /\ \A s \in sockets : Asked(s)
  /\ \A p \in Procs :
       /\ pc[p] = "bind" => validate(config[p])
       /\ pc[p] \in {"lock", "open", "run"} => Unbound(p) = {}
       /\ pc[p] \in {"down", "leaving", "drain"} => Own(p) = {}

\* The lock, against where each process is.
LockInv ==
  /\ lock \in [DOMAIN lock -> Procs \cup {Nobody}]
  /\ \A p \in Procs :
       /\ has_file(config[p]) => log_path(config[p]) \in DOMAIN lock
       /\ pc[p] \in {"lock", "open"} => has_file(config[p])
       /\ p \in late => has_file(config[p]) /\ pc[p] \in {"failing", "leaving"}
       /\ HoldsLog(p) => lock[log_path(config[p])] = p
       /\ \A path \in DOMAIN lock :
            lock[path] = p => HoldsLog(p) \/ pc[p] = "failing" \/ p \in late

IInv == StartTypeOK /\ SocketsInv /\ LockInv

\* The invariant holds before any process starts.
LEMMA InitInv == Init => IInv
<1> SUFFICES ASSUME Init PROVE IInv
  OBVIOUS
<1>1. StartTypeOK
  BY DEF Init, StartTypeOK, Places
<1>2. SocketsInv
  BY DEF Init, SocketsInv, Own
<1>3. LockInv
  <2> DEFINE Paths == {log_path(config[p]) : p \in {q \in Procs : has_file(config[q])}}
  <2>1. lock = [path \in Paths |-> Nobody]
    BY DEF Init
  <2>2. \A p \in Procs : has_file(config[p]) => log_path(config[p]) \in Paths
    OBVIOUS
  <2> HIDE DEF Paths
  <2> QED
    BY <2>1, <2>2, StartupAssumption DEF Init, LockInv, HoldsLog
<1> QED
  BY <1>1, <1>2, <1>3 DEF IInv

\* A step of one process changes the state of no other.
Others(p) ==
  /\ config' = config /\ v6only' = v6only
  /\ pc' \in [Procs -> Places]
  /\ \A q \in Procs \ {p} : pc'[q] = pc[q] /\ (q \in late' <=> q \in late)

\* A step that binds and closes nothing keeps what is known of the sockets.
LEMMA UntouchedSockets ==
  ASSUME NEW p \in Procs, IInv, Others(p), sockets' = sockets,
         pc'[p] = "bind" => validate(config[p]),
         pc'[p] \in {"lock", "open", "run"} => Unbound(p) = {},
         pc'[p] \in {"down", "leaving", "drain"} => Own(p) = {}
  PROVE  SocketsInv'
BY DEF IInv, SocketsInv, Others, Asked, Unbound, Own

\* Dropping the listeners of a process leaves it without a socket.
LEMMA ClosedSockets ==
  ASSUME NEW p \in Procs, IInv, Others(p), Close(p),
         pc'[p] \in {"down", "leaving", "drain"}
  PROVE  SocketsInv'
<1>1. \A s \in sockets' : s \in sockets /\ Asked(s)'
  BY DEF IInv, SocketsInv, Others, Close, Asked
<1>2. Own(p)' = {}
  BY DEF Close, Own
<1>3. \A q \in Procs \ {p} : Own(q)' = Own(q)
  BY DEF Close, Own
<1>4. \A q \in Procs \ {p} : Unbound(q)' = Unbound(q)
  BY <1>3 DEF Unbound, Others
<1> QED
  BY <1>1, <1>2, <1>3, <1>4 DEF IInv, SocketsInv, Others

\* The lock stays, and so do the reasons for it.
LEMMA UntouchedLock ==
  ASSUME NEW p \in Procs, IInv, Others(p), lock' = lock,
         pc'[p] \in {"lock", "open"} => has_file(config[p]),
         p \in late' => has_file(config[p]) /\ pc'[p] \in {"failing", "leaving"},
         HoldsLog(p)' => HoldsLog(p),
         HoldsLog(p) \/ pc[p] = "failing" \/ p \in late
           => HoldsLog(p)' \/ pc'[p] = "failing" \/ p \in late'
  PROVE  LockInv'
<1>1. \A q \in Procs \ {p} : HoldsLog(q)' <=> HoldsLog(q)
  BY DEF Others, HoldsLog
<1> QED
  BY <1>1 DEF IInv, LockInv, Others

\* A process gives up its lock when nothing needs it.
LEMMA ReleasedLock ==
  ASSUME NEW p \in Procs, IInv, Others(p), Unlock(p),
         pc'[p] \notin {"lock", "open"},
         p \in late' => has_file(config[p]) /\ pc'[p] \in {"failing", "leaving"},
         ~HoldsLog(p)'
  PROVE  LockInv'
<1>1. \A q \in Procs \ {p} : HoldsLog(q)' <=> HoldsLog(q)
  BY DEF Others, HoldsLog
<1>2. DOMAIN lock' = DOMAIN lock
  BY DEF Unlock
<1>3. \A path \in DOMAIN lock :
        lock'[path] = IF lock[path] = p THEN Nobody ELSE lock[path]
  BY DEF Unlock
<1>4. lock' \in [DOMAIN lock' -> Procs \cup {Nobody}]
  BY <1>2, <1>3 DEF Unlock, IInv, LockInv
<1>5. Nobody \notin Procs
  BY StartupAssumption
<1>6. config' = config
  BY DEF Others
<1>7. ASSUME NEW q \in Procs, HoldsLog(q)'
      PROVE  lock'[log_path(config[q])] = q
  <2>1. q # p /\ HoldsLog(q)
    BY <1>1, <1>7
  <2>2. log_path(config[q]) \in DOMAIN lock /\ lock[log_path(config[q])] = q
    BY <2>1 DEF IInv, LockInv, HoldsLog
  <2> QED
    BY <1>3, <2>1, <2>2
<1>8. ASSUME NEW q \in Procs, NEW path \in DOMAIN lock, lock'[path] = q
      PROVE  HoldsLog(q)' \/ pc'[q] = "failing" \/ q \in late'
  <2>1. q # p /\ lock[path] = q
    BY <1>3, <1>5, <1>8
  <2> QED
    BY <1>1, <2>1 DEF IInv, LockInv, Others
<1>9. ASSUME NEW q \in Procs
      PROVE  /\ has_file(config'[q]) => log_path(config'[q]) \in DOMAIN lock'
             /\ pc'[q] \in {"lock", "open"} => has_file(config'[q])
             /\ q \in late' => has_file(config'[q]) /\ pc'[q] \in {"failing", "leaving"}
  BY <1>2, <1>6 DEF IInv, LockInv, Others
<1> QED
  BY <1>2, <1>4, <1>6, <1>7, <1>8, <1>9 DEF LockInv

\* A process takes a free lock, for its open log or in a given-up task.
LEMMA TakenLock ==
  ASSUME NEW p \in Procs, IInv, Others(p), has_file(config[p]),
         lock[log_path(config[p])] = Nobody,
         lock' = [lock EXCEPT ![log_path(config[p])] = p],
         p \in late' => pc'[p] \in {"failing", "leaving"},
         HoldsLog(p)' \/ p \in late',
         HoldsLog(p) \/ pc[p] = "failing" \/ p \in late
           => HoldsLog(p)' \/ pc'[p] = "failing" \/ p \in late'
  PROVE  LockInv'
<1> DEFINE path == log_path(config[p])
<1>1. \A q \in Procs \ {p} : HoldsLog(q)' <=> HoldsLog(q)
  BY DEF Others, HoldsLog
<1>2. path \in DOMAIN lock
  BY DEF IInv, LockInv
<1>3. DOMAIN lock' = DOMAIN lock
  OBVIOUS
<1>4. lock'[path] = p /\ \A other \in DOMAIN lock \ {path} : lock'[other] = lock[other]
  BY <1>2
<1>5. lock' \in [DOMAIN lock' -> Procs \cup {Nobody}]
  BY <1>2 DEF IInv, LockInv
<1>6. Nobody \notin Procs
  BY StartupAssumption
<1>7. \A q \in Procs \ {p} : HoldsLog(q) => log_path(config[q]) # path
  BY <1>6 DEF IInv, LockInv
<1> HIDE DEF path
<1>8. config' = config
  BY DEF Others
<1>9. \A q \in Procs : HoldsLog(q)' => lock'[log_path(config[q])] = q
  <2> SUFFICES ASSUME NEW q \in Procs, HoldsLog(q)' PROVE lock'[log_path(config[q])] = q
    OBVIOUS
  <2>1. CASE q = p
    BY <1>4, <2>1 DEF path
  <2>2. CASE q # p
    <3>1. HoldsLog(q) /\ has_file(config[q])
      BY <1>1, <2>2 DEF HoldsLog
    <3> QED
      BY <1>4, <1>7, <2>2, <3>1 DEF IInv, LockInv
  <2> QED
    BY <2>1, <2>2
<1>10. ASSUME NEW q \in Procs, NEW other \in DOMAIN lock, lock'[other] = q
       PROVE  HoldsLog(q)' \/ pc'[q] = "failing" \/ q \in late'
  <2>1. CASE other = path
    BY <1>4, <1>10, <2>1
  <2>2. CASE other # path
    <3>1. HoldsLog(q) \/ pc[q] = "failing" \/ q \in late
      BY <1>4, <1>10, <2>2 DEF IInv, LockInv
    <3> QED
      BY <1>1, <3>1 DEF Others
  <2> QED
    BY <2>1, <2>2
<1>11. ASSUME NEW q \in Procs
       PROVE  /\ has_file(config'[q]) => log_path(config'[q]) \in DOMAIN lock'
              /\ pc'[q] \in {"lock", "open"} => has_file(config'[q])
              /\ q \in late' => has_file(config'[q]) /\ pc'[q] \in {"failing", "leaving"}
  BY <1>3, <1>8 DEF IInv, LockInv, Others
<1> QED
  BY <1>3, <1>5, <1>8, <1>9, <1>10, <1>11 DEF LockInv

-----------------------------------------------------------------------------
(* The steps                                                               *)

Steps(p) ==
  \/ Start(p) \/ Bind(p) \/ Bound(p) \/ Lock(p) \/ OpenLog(p)
  \/ SystemError(p) \/ GiveBack(p) \/ LateLock(p) \/ LateUnlock(p)
  \/ Stop(p) \/ WriterEnds(p) \/ Exit(p) \/ Kill(p)

\* Every step keeps the types, and leaves other processes alone.
LEMMA StepTypes ==
  ASSUME NEW p \in Procs, IInv, Steps(p)
  PROVE  StartTypeOK' /\ Others(p)
<1> USE DEF IInv, StartTypeOK, Others, Places, Go
<1>1. CASE Start(p)
  BY <1>1 DEF Start
<1>2. CASE Bind(p)
  BY <1>2 DEF Bind, Fail
<1>3. CASE Bound(p)
  BY <1>3 DEF Bound
<1>4. CASE Lock(p)
  BY <1>4 DEF Lock, Fail
<1>5. CASE OpenLog(p)
  BY <1>5 DEF OpenLog
<1>6. CASE SystemError(p)
  <2>1. late' = late \/ late' = late \cup {p}
    BY <1>6 DEF SystemError
  <2> QED
    BY <1>6, <2>1 DEF SystemError, Fail
<1>7. CASE GiveBack(p)
  BY <1>7 DEF GiveBack
<1>8. CASE LateLock(p) \/ LateUnlock(p)
  BY <1>8 DEF LateLock, LateUnlock
<1>9. CASE Stop(p) \/ WriterEnds(p)
  BY <1>9 DEF Stop, WriterEnds
<1>10. CASE Exit(p) \/ Kill(p)
  BY <1>10 DEF Exit, Kill
<1> QED
  BY <1>1, <1>2, <1>3, <1>4, <1>5, <1>6, <1>7, <1>8, <1>9, <1>10 DEF Steps

\* Binding adds one socket that the configuration asks for.
LEMMA BindSockets ==
  ASSUME NEW p \in Procs, IInv, Bind(p), Others(p)
  PROVE  SocketsInv'
<1>1. pc[p] = "bind" /\ validate(config[p])
  BY DEF Bind, IInv, SocketsInv
<1>2. CASE pc' = pc
  <2>1. PICK k \in NextSocket(p), port \in Nat :
          LET wanted == Sockets(config[p])[k] IN
          /\ wanted.port # 0 => port = wanted.port
          /\ sockets' = sockets \cup {[owner |-> p, index |-> k, ip |-> wanted.ip, port |-> port]}
    <3>1. PICK k \in NextSocket(p) :
            LET wanted == Sockets(config[p])[k] IN
            \E port \in IF wanted.port = 0 THEN Ephemeral ELSE {wanted.port} :
              sockets' = sockets \cup {[owner |-> p, index |-> k, ip |-> wanted.ip, port |-> port]}
      BY <1>1, <1>2 DEF Bind, Fail, Go, IInv, StartTypeOK
    <3>2. k \in DOMAIN Sockets(config[p])
      BY DEF NextSocket, Unbound
    <3>3. Sockets(config[p])[k].port \in Nat
      BY <3>2, DeploymentsAssumption, SocketsOfConfig DEF IInv, StartTypeOK, SocketAddr
    <3> QED
      BY <3>1, <3>3, StartupAssumption
  <2> DEFINE new == [owner |-> p, index |-> k, ip |-> Sockets(config[p])[k].ip, port |-> port]
  <2>2. Asked(new)
    BY <2>1 DEF Asked, NextSocket, Unbound
  <2>3. sockets' = sockets \cup {new} /\ new.owner = p
    BY <2>1
  <2> HIDE DEF new
  <2>4. \A q \in Procs \ {p} : Own(q)' = Own(q)
    BY <2>3 DEF Own
  <2>5. \A q \in Procs \ {p} : Unbound(q)' = Unbound(q)
    BY <2>4 DEF Unbound, Others
  <2>6. \A s \in sockets' : Asked(s)'
    BY <2>2, <2>3 DEF IInv, SocketsInv, Others, Asked
  <2> QED
    BY <1>1, <1>2, <2>4, <2>5, <2>6 DEF IInv, SocketsInv, Others
<1>3. CASE pc' # pc
  BY <1>3, UntouchedSockets DEF Bind, Fail, Go, IInv, StartTypeOK
<1> QED
  BY <1>2, <1>3

\* Every step keeps what is known of the sockets.
LEMMA StepSockets ==
  ASSUME NEW p \in Procs, IInv, Steps(p), Others(p)
  PROVE  SocketsInv'
<1>0. pc \in [Procs -> Places]
  BY DEF IInv, StartTypeOK
<1>1. CASE Start(p)
  <2>1. Own(p) = {}
    BY <1>1 DEF Start, IInv, SocketsInv
  <2> QED
    BY <1>0, <1>1, <2>1, UntouchedSockets DEF Start, Go
<1>2. CASE Bind(p)
  BY <1>2, BindSockets
<1>3. CASE Bound(p)
  BY <1>0, <1>3, UntouchedSockets DEF Bound, Go
<1>4. CASE Lock(p)
  BY <1>0, <1>4, UntouchedSockets DEF Lock, Fail, Go, IInv, SocketsInv
<1>5. CASE OpenLog(p)
  BY <1>0, <1>5, UntouchedSockets DEF OpenLog, Go, IInv, SocketsInv
<1>6. CASE SystemError(p)
  BY <1>0, <1>6, UntouchedSockets DEF SystemError, Fail, Go
<1>7. CASE GiveBack(p)
  BY <1>0, <1>7, ClosedSockets DEF GiveBack, Go
<1>8. CASE LateLock(p) \/ LateUnlock(p)
  BY <1>0, <1>8, UntouchedSockets DEF LateLock, LateUnlock, IInv, SocketsInv
<1>9. CASE Stop(p)
  BY <1>0, <1>9, ClosedSockets DEF Stop, Go
<1>10. CASE WriterEnds(p) \/ Exit(p)
  BY <1>0, <1>10, UntouchedSockets DEF WriterEnds, Exit, Go, IInv, SocketsInv
<1>11. CASE Kill(p)
  BY <1>0, <1>11, ClosedSockets DEF Kill, Go
<1> QED
  BY <1>1, <1>2, <1>3, <1>4, <1>5, <1>6, <1>7, <1>8, <1>9, <1>10, <1>11 DEF Steps

\* Every step keeps what is known of the lock.
LEMMA StepLock ==
  ASSUME NEW p \in Procs, IInv, Steps(p), Others(p)
  PROVE  LockInv'
<1>0. pc \in [Procs -> Places] /\ config' = config
  BY DEF IInv, StartTypeOK, Others
<1> USE DEF HoldsLog, Go
<1>1. CASE Start(p)
  BY <1>0, <1>1, UntouchedLock DEF Start, IInv, LockInv
<1>2. CASE Bind(p)
  BY <1>0, <1>2, UntouchedLock DEF Bind, Fail, IInv, LockInv
<1>3. CASE Bound(p)
  <2>1. lock' = lock /\ late' = late /\ pc[p] = "bind"
    BY <1>3 DEF Bound
  <2>2. \/ pc'[p] = "lock" /\ has_file(config[p])
        \/ pc'[p] = "run" /\ ~has_file(config[p])
    BY <1>0, <1>3 DEF Bound
  <2> QED
    BY <1>0, <2>1, <2>2, UntouchedLock DEF IInv, LockInv
<1>4. CASE Lock(p)
  <2>1. pc[p] = "lock" /\ has_file(config[p]) /\ p \notin late /\ late' = late
    BY <1>4 DEF Lock, IInv, LockInv
  <2>2. CASE try_lock(p, log_path(config[p]))
    BY <1>0, <1>4, <2>1, <2>2, TakenLock DEF Lock, try_lock
  <2>3. CASE ~try_lock(p, log_path(config[p]))
    BY <1>0, <1>4, <2>1, <2>3, UntouchedLock DEF Lock, Fail
  <2> QED
    BY <2>2, <2>3
<1>5. CASE OpenLog(p)
  BY <1>0, <1>5, UntouchedLock DEF OpenLog, IInv, LockInv
<1>6. CASE SystemError(p)
  <2>1. /\ lock' = lock /\ pc'[p] = "failing" /\ pc[p] \in {"bind", "lock", "open"}
        /\ late' = late \/ (pc[p] = "lock" /\ late' = late \cup {p})
    BY <1>0, <1>6 DEF SystemError, Fail
  <2> QED
    BY <1>0, <2>1, UntouchedLock DEF IInv, LockInv
<1>7. CASE GiveBack(p)
  BY <1>0, <1>7, ReleasedLock DEF GiveBack, IInv, LockInv
<1>8. CASE LateLock(p)
  <2>1. has_file(config[p]) /\ pc[p] \in {"failing", "leaving"} /\ p \in late
    BY <1>8 DEF LateLock, IInv, LockInv
  <2> QED
    BY <1>0, <1>8, <2>1, TakenLock DEF LateLock
<1>9. CASE LateUnlock(p)
  <2>1. pc[p] \in {"failing", "leaving"}
    BY <1>9 DEF LateUnlock, IInv, LockInv
  <2> QED
    BY <1>0, <1>9, <2>1, ReleasedLock DEF LateUnlock
<1>10. CASE Stop(p)
  BY <1>0, <1>10, UntouchedLock DEF Stop, IInv, LockInv
<1>11. CASE WriterEnds(p) \/ Exit(p) \/ Kill(p)
  BY <1>0, <1>11, ReleasedLock DEF WriterEnds, Exit, Kill, IInv, LockInv
<1> QED
  BY <1>1, <1>2, <1>3, <1>4, <1>5, <1>6, <1>7, <1>8, <1>9, <1>10, <1>11 DEF Steps

\* The invariant is kept by every step.
LEMMA NextInv ==
  ASSUME IInv, [Next]_vars
  PROVE  IInv'
<1>1. CASE \E p \in Procs : Steps(p)
  BY <1>1, StepTypes, StepSockets, StepLock DEF IInv
<1>2. CASE UNCHANGED vars
  <2>1. StartTypeOK'
    BY <1>2 DEF vars, IInv, StartTypeOK
  <2>2. SocketsInv'
    BY <1>2 DEF vars, IInv, SocketsInv, Asked, Own, Unbound
  <2>3. LockInv'
    BY <1>2 DEF vars, IInv, LockInv, HoldsLog
  <2> QED
    BY <2>1, <2>2, <2>3 DEF IInv
<1> QED
  BY <1>1, <1>2 DEF Next, Steps

-----------------------------------------------------------------------------
(* The theorems                                                            *)

\* What every reachable state of the processes satisfies.
THEOREM StartupInvariant == Spec => []IInv
BY InitInv, NextInv, PTL DEF Spec

\* Starting is all or nothing: main.rs run and server.rs bind hold every
\* socket and the lock, or none, wherever a start fails or is killed.
THEOREM StartupAllOrNothing == Spec => []AllOrNothing
<1>1. IInv => AllOrNothing
  <2> SUFFICES ASSUME IInv, NEW p \in Procs
               PROVE  /\ pc[p] = "run" => {s.index : s \in Own(p)} = DOMAIN Sockets(config[p])
                      /\ pc[p] \in {"down", "leaving", "drain"} => Own(p) = {}
                      /\ HoldsLog(p) => lock[log_path(config[p])] = p
                      /\ \A path \in DOMAIN lock :
                           lock[path] = p => HoldsLog(p) \/ pc[p] = "failing" \/ p \in late
    BY DEF AllOrNothing
  <2>1. \A s \in Own(p) : s.index \in DOMAIN Sockets(config[p])
    BY DEF IInv, SocketsInv, Asked, Own
  <2>2. pc[p] = "run" => \A k \in DOMAIN Sockets(config[p]) : k \in {s.index : s \in Own(p)}
    BY DEF IInv, SocketsInv, Unbound
  <2>3. pc[p] = "run" => {s.index : s \in Own(p)} = DOMAIN Sockets(config[p])
    BY <2>1, <2>2
  <2> QED
    BY <2>3 DEF IInv, SocketsInv, LockInv
<1> QED
  BY <1>1, StartupInvariant, PTL

\* No two processes have one log open, whatever was killed before.
THEOREM StartupOneWriter == Spec => []OneWriterPerLog
<1>1. IInv => OneWriterPerLog
  BY DEF IInv, LockInv, OneWriterPerLog, HoldsLog
<1> QED
  BY <1>1, StartupInvariant, PTL

\* For all addresses, validate refuses exactly the pairs of fixed binds that
\* a machine with dual-stack wildcards refuses (config.rs binds_conflict).
THEOREM StartupConflictIsOverlap == Spec => []ConflictIsOverlap
<1>1. IInv => ConflictIsOverlap
  <2> SUFFICES ASSUME IInv, NEW p \in Procs, NEW q \in Procs,
                      NEW a \in Range(Sockets(config[p])), NEW b \in Range(Sockets(config[q])),
                      a.port # 0, b.port # 0
               PROVE  /\ binds_conflict(a, b) <=> Overlap(a, b, FALSE)
                      /\ Overlap(a, b, v6only) => binds_conflict(a, b)
    BY DEF ConflictIsOverlap
  <2>1. config \in Deployments /\ v6only \in BOOLEAN
    BY DEF IInv, StartTypeOK
  <2>2. a \in SocketAddr
    BY <2>1, DeploymentsAssumption, SocketsOfConfig DEF Range
  <2>3. b \in SocketAddr
    BY <2>1, DeploymentsAssumption, SocketsOfConfig DEF Range
  <2> QED
    BY <2>1, <2>2, <2>3, ConflictExact
<1> QED
  BY <1>1, StartupInvariant, PTL

\* A bind of an accepted configuration fails for another's socket, or because
\* the process itself asked for any free port.
LEMMA InUseJustified ==
  ASSUME IInv, NEW p \in Procs, Bind(p), why'[p] # why[p]
  PROVE  \/ \E k \in Unbound(p) :
              \E s \in InTheWay(Sockets(config[p])[k]) : s.owner # p
         \/ \E k \in DOMAIN Sockets(config[p]) : Sockets(config[p])[k].port = 0
<1> SUFFICES ASSUME \A k \in DOMAIN Sockets(config[p]) : Sockets(config[p])[k].port # 0
             PROVE  \E k \in Unbound(p) :
                      \E s \in InTheWay(Sockets(config[p])[k]) : s.owner # p
  OBVIOUS
<1> DEFINE w(k) == Sockets(config[p])[k]
<1>1. PICK k \in NextSocket(p) :
        InTheWay([owner |-> p, index |-> k, ip |-> w(k).ip, port |-> w(k).port]) # {}
  BY DEF Bind
<1>2. k \in Unbound(p) /\ k \in DOMAIN Sockets(config[p])
  BY DEF NextSocket, Unbound
<1>3. PICK s \in sockets : Overlap(s, w(k), v6only)
  BY <1>1 DEF InTheWay, Overlap
<1>4. CASE s.owner # p
  BY <1>2, <1>3, <1>4 DEF InTheWay
<1>5. CASE s.owner = p
  <2>1. /\ s.index \in DOMAIN Sockets(config[p])
        /\ s.ip = w(s.index).ip /\ s.port = w(s.index).port
    BY <1>3, <1>5 DEF IInv, SocketsInv, Asked
  <2>2. s.index # k
    BY <1>2, <1>3, <1>5 DEF Unbound, Own
  <2>3. /\ \A j \in DOMAIN Sockets(config[p]) : w(j) \in SocketAddr
        /\ ~binds_conflict(w(s.index), w(k))
    <3>1. config \in Deployments /\ validate(config[p])
      BY DEF IInv, StartTypeOK, SocketsInv, Bind
    <3> QED
      BY <1>2, <2>1, <2>2, <3>1, DeploymentsAssumption, SocketsOfConfig
  <2>4. Overlap(w(s.index), w(k), v6only)
    BY <1>3, <2>1 DEF Overlap
  <2>5. v6only \in BOOLEAN
    BY DEF IInv, StartTypeOK
  <2>6. w(s.index) \in SocketAddr /\ w(k) \in SocketAddr /\ w(s.index).port # 0 /\ w(k).port # 0
    BY <1>2, <2>1, <2>3
  <2> HIDE DEF w
  <2>7. binds_conflict(w(s.index), w(k))
    BY <2>4, <2>5, <2>6, ConflictExact
  <2> QED
    BY <2>3, <2>7
<1> QED
  BY <1>4, <1>5

\* A lock that cannot be taken is held by a process that lives.
LEMMA LockedJustified ==
  ASSUME IInv, NEW p \in Procs, Lock(p), why'[p] # why[p]
  PROVE  \E q \in Procs \ {p} :
           /\ lock[log_path(config[p])] = q
           /\ HoldsLog(q) \/ pc[q] = "failing" \/ q \in late
<1> DEFINE path == log_path(config[p])
<1>1. pc[p] = "lock" /\ lock[path] # Nobody
  BY DEF Lock, try_lock
<1>2. path \in DOMAIN lock /\ p \notin late /\ ~HoldsLog(p)
  BY <1>1 DEF IInv, LockInv, HoldsLog
<1>3. lock[path] \in Procs
  BY <1>1, <1>2 DEF IInv, LockInv
<1>4. lock[path] # p
  BY <1>1, <1>2 DEF IInv, LockInv
<1> QED
  BY <1>2, <1>3, <1>4 DEF IInv, LockInv

Justified ==
  \A p \in Procs :
    /\ why[p] # "in_use" /\ why'[p] = "in_use" =>
         \/ \E k \in Unbound(p) :
              \E s \in InTheWay(Sockets(config[p])[k]) : s.owner # p
         \/ \E k \in DOMAIN Sockets(config[p]) : Sockets(config[p])[k].port = 0
    /\ why[p] # "locked" /\ why'[p] = "locked" =>
         \E q \in Procs \ {p} :
           /\ lock[log_path(config[p])] = q
           /\ HoldsLog(q) \/ pc[q] = "failing" \/ q \in late

\* Only Bind finds a socket in use, and only Lock a locked log.
LEMMA WhoFails ==
  ASSUME IInv, [Next]_vars, NEW p \in Procs
  PROVE  /\ why[p] # "in_use" /\ why'[p] = "in_use" => Bind(p)
         /\ why[p] # "locked" /\ why'[p] = "locked" => Lock(p)
<1>0. why \in [Procs -> {"none", "invalid", "in_use", "locked", "system"}]
  BY DEF IInv, StartTypeOK
<1>1. ASSUME NEW q \in Procs, Steps(q), why'[p] # why[p]
      PROVE  q = p
  <2>1. why' = why \/ \E cause : why' = [why EXCEPT ![q] = cause]
    BY <1>1 DEF Steps, Start, Bind, Bound, Lock, OpenLog, SystemError, GiveBack, LateLock,
                LateUnlock, Stop, WriterEnds, Exit, Kill, Fail
  <2> QED
    BY <1>0, <1>1, <2>1
<1>2. ASSUME Steps(p), why'[p] # why[p], why'[p] \in {"in_use", "locked"}
      PROVE  (why'[p] = "in_use" => Bind(p)) /\ (why'[p] = "locked" => Lock(p))
  BY <1>0, <1>2 DEF Steps, Start, Bind, Bound, Lock, OpenLog, SystemError, GiveBack, LateLock,
                LateUnlock, Stop, WriterEnds, Exit, Kill, Fail
<1>3. why' # why => \E q \in Procs : Steps(q)
  BY DEF Next, Steps, vars
<1> QED
  BY <1>1, <1>2, <1>3

\* A start fails for another process's sake only, for any number of
\* processes: validate keeps a process from getting in its own way, and what
\* the dead leave behind keeps nobody out.
THEOREM StartupFailuresJustified == Spec => FailuresJustified
<1>1. IInv /\ [Next]_vars => [Justified]_vars
  BY InUseJustified, LockedJustified, WhoFails DEF Justified
<1>2. [Justified]_vars <=>
        [\A p \in Procs :
           /\ why[p] # "in_use" /\ why'[p] = "in_use" =>
                \/ \E k \in Unbound(p) :
                     \E s \in InTheWay(Sockets(config[p])[k]) : s.owner # p
                \/ \E k \in DOMAIN Sockets(config[p]) : Sockets(config[p])[k].port = 0
           /\ why[p] # "locked" /\ why'[p] = "locked" =>
                \E q \in Procs \ {p} :
                  /\ lock[log_path(config[p])] = q
                  /\ HoldsLog(q) \/ pc[q] = "failing" \/ q \in late]_vars
  BY DEF Justified
<1> QED
  BY <1>1, <1>2, StartupInvariant, PTL DEF Spec, FailuresJustified

-----------------------------------------------------------------------------
(* The race of processes with one configuration                            *)

\* What SomeoneRuns speaks of: nothing was stopped or failed, and every
\* process asks for the same, fixed sockets.
Undisturbed ==
  /\ stops = 0 /\ faults = 0
  /\ \A p, q \in Procs : config[p] = config[q]
  /\ \A p \in Procs : \A a \in Range(Sockets(config[p])) : a.port # 0

Ahead(p) == pc[p] \in {"bind", "lock", "open", "run"}

\* One process is ahead: it has all the sockets there are, the first of the
\* configuration among them, and nobody fails before it has one.
RaceInv ==
  /\ stops \in Nat /\ faults \in Nat
  /\ Undisturbed =>
       /\ late = {}
       /\ \A p \in Procs : pc[p] # "drain" /\ (Ahead(p) => validate(config[p]) /\ why[p] = "none")
       /\ \A s \in sockets : s.owner \in Procs /\ Ahead(s.owner)
       /\ \A s, t \in sockets : s.owner = t.owner
       /\ sockets # {} => \E s \in sockets : s.index = 1
       /\ \A path \in DOMAIN lock : \A p \in Procs : lock[path] = p => HoldsLog(p)
       /\ \A p \in Procs : why[p] \in {"in_use", "locked"} => sockets # {}

\* A valid configuration has a first socket.
LEMMA FirstSocket ==
  ASSUME NEW c, c.endpoints \in Seq(Range(c.endpoints)), validate(c)
  PROVE  1 \in DOMAIN Sockets(c) /\ \A k \in DOMAIN Sockets(c) : k \in Nat /\ 1 <= k
<1> DEFINE S == {c.endpoints[k].bind : k \in DOMAIN c.endpoints} \cup {c.metrics.bind}
           u == [k \in DOMAIN c.endpoints |-> c.endpoints[k].bind]
           w == IF c.metrics.enabled THEN <<c.metrics.bind>> ELSE <<>>
<1>0. Len(c.endpoints) \in 1..32
  BY DEF validate
<1>1. Len(c.endpoints) \in Nat /\ Len(c.endpoints) >= 1 /\ DOMAIN c.endpoints = 1..Len(c.endpoints)
  <2>1. DOMAIN c.endpoints = 1..Len(c.endpoints)
    OBVIOUS
  <2>2. \A n \in 1..32 : n \in Nat /\ n >= 1
    OBVIOUS
  <2>3. Len(c.endpoints) \in Nat /\ Len(c.endpoints) >= 1
    BY <1>0, <2>2, Zenon
  <2> QED
    BY <2>1, <2>3, Zenon
<1>2. u \in Seq(S) /\ Len(u) = Len(c.endpoints)
  BY <1>1
<1>3. w \in Seq(S) /\ Len(w) \in Nat
  <2>1. c.metrics.bind \in S
    OBVIOUS
  <2> HIDE DEF S
  <2> QED
    BY <2>1
<1>4. Sockets(c) = u \o w
  BY DEF Sockets
<1> HIDE DEF u, w, S
<1>5. DOMAIN Sockets(c) = 1..(Len(u) + Len(w))
  <2>1. u \in Seq(S) /\ w \in Seq(S)
    BY <1>2, <1>3
  <2>2. DOMAIN (u \o w) = 1..(Len(u) + Len(w))
    BY <2>1, Concatenation, Zenon
  <2> QED
    BY <1>4, <2>2
<1> QED
  BY <1>1, <1>2, <1>3, <1>5

\* No two sockets can be bound to one fixed address.
LEMMA OverlapsItself ==
  ASSUME NEW a \in SocketAddr, NEW b, NEW only \in BOOLEAN, b.ip = a.ip, b.port = a.port
  PROVE  Overlap(b, a, only)
<1>1. canonical_ip(a.ip) \in Canonical
  BY CanonicalType
<1>2. Hears(a.ip, only) \cap Hears(a.ip, only) # {}
  BY <1>1, SharedDestinations
<1> QED
  BY <1>2 DEF Overlap

\* The facts about the configurations that the steps below use.
LEMMA ConfigFacts ==
  ASSUME IInv, NEW p \in Procs
  PROVE  /\ config[p].endpoints \in Seq(Range(config[p].endpoints))
         /\ \A k \in DOMAIN Sockets(config[p]) : Sockets(config[p])[k] \in SocketAddr
BY DeploymentsAssumption, SocketsOfConfig DEF IInv, StartTypeOK

\* Only the process ahead binds, and a process that finds a socket in use has
\* none itself.
LEMMA RaceToBind ==
  ASSUME IInv, RaceInv, Undisturbed, NEW p \in Procs, Bind(p)
  PROVE  /\ config' = config /\ UNCHANGED <<late, lock, stops, faults>>
         /\ \/ /\ UNCHANGED <<pc, why>>
               /\ \A s \in sockets : s.owner = p
               /\ \E new : /\ sockets' = sockets \cup {new} /\ new.owner = p
                           /\ sockets = {} => new.index = 1
            \/ /\ Own(p) = {} /\ sockets # {} /\ sockets' = sockets
               /\ pc' = [pc EXCEPT ![p] = "failing"] /\ why' = [why EXCEPT ![p] = "in_use"]
<1> DEFINE w(k) == Sockets(config[p])[k]
           At(k, port) == [owner |-> p, index |-> k, ip |-> w(k).ip, port |-> port]
<1>0. /\ config' = config /\ UNCHANGED <<late, stops, faults>> /\ pc[p] = "bind"
      /\ validate(config[p])
  BY DEF Bind, IInv, SocketsInv
<1>1. PICK k \in NextSocket(p) :
        \/ /\ \E port \in IF w(k).port = 0 THEN Ephemeral ELSE {w(k).port} :
                InTheWay(At(k, port)) = {} /\ sockets' = sockets \cup {At(k, port)}
           /\ UNCHANGED <<pc, lock, why>>
        \/ /\ InTheWay(At(k, w(k).port)) # {}
           /\ Fail(p, "in_use") /\ UNCHANGED <<sockets, lock>>
  BY DEF Bind
<1>2. /\ k \in DOMAIN Sockets(config[p]) /\ k \in Unbound(p)
      /\ \A j \in Unbound(p) : k <= j
  BY DEF NextSocket, Unbound
<1>3. w(k).port # 0
  BY <1>2 DEF Undisturbed, Range
<1>4. 1 \in DOMAIN Sockets(config[p]) /\ k \in Nat /\ 1 <= k
  BY <1>0, <1>2, ConfigFacts, FirstSocket
<1>5. Own(p) = {} => k = 1
  BY <1>2, <1>4 DEF Unbound
<1>6. CASE /\ InTheWay(At(k, w(k).port)) = {} /\ sockets' = sockets \cup {At(k, w(k).port)}
           /\ UNCHANGED <<pc, lock, why>>
  <2>1. \A s \in sockets : s.owner = p
    <3> SUFFICES ASSUME NEW s \in sockets, s.owner # p PROVE FALSE
      OBVIOUS
    <3>1. Own(p) = {} /\ k = 1
      BY <1>5 DEF Own, RaceInv
    <3>2. PICK t \in sockets : t.index = 1
      BY DEF RaceInv
    <3>3. t.owner \in Procs /\ config[t.owner] = config[p]
      BY DEF IInv, SocketsInv, Asked, Undisturbed
    <3>4. t.ip = w(1).ip /\ t.port = w(1).port
      BY <1>3, <3>1, <3>2, <3>3 DEF IInv, SocketsInv, Asked
    <3>5. w(1) \in SocketAddr /\ v6only \in BOOLEAN
      BY <1>4, ConfigFacts DEF IInv, StartTypeOK
    <3>6. Overlap(t, w(1), v6only)
      BY <3>4, <3>5, OverlapsItself
    <3>7. t \in InTheWay(At(k, w(k).port))
      BY <3>1, <3>6 DEF InTheWay, Overlap
    <3> QED
      BY <1>6, <3>7
  <2>2. sockets = {} => At(k, w(k).port).index = 1
    BY <1>5 DEF Own
  <2>3. At(k, w(k).port).owner = p
    OBVIOUS
  <2> HIDE DEF At
  <2> QED
    BY <1>0, <1>6, <2>1, <2>2, <2>3
<1>7. CASE /\ InTheWay(At(k, w(k).port)) # {}
           /\ Fail(p, "in_use") /\ UNCHANGED <<sockets, lock>>
  <2>1. pc' = [pc EXCEPT ![p] = "failing"] /\ why' = [why EXCEPT ![p] = "in_use"]
    BY <1>7 DEF Fail, Go
  <2>2. why[p] = "none" /\ why'[p] = "in_use"
    BY <1>0, <2>1 DEF RaceInv, Ahead, IInv, StartTypeOK
  <2>3. PICK j \in Unbound(p) : \E s \in InTheWay(w(j)) : s.owner # p
    <3>1. \A i \in DOMAIN Sockets(config[p]) : Sockets(config[p])[i].port # 0
      BY DEF Undisturbed, Range
    <3> QED
      BY <2>2, <3>1, InUseJustified
  <2>4. PICK s \in sockets : s.owner # p
    BY <2>3 DEF InTheWay
  <2>5. Own(p) = {}
    BY <2>4 DEF RaceInv, Own
  <2> QED
    BY <1>0, <1>7, <2>1, <2>4, <2>5
<1> QED
  BY <1>1, <1>3, <1>6, <1>7

\* The process ahead finds the log free: nobody else has got so far.
LEMMA RaceToLock ==
  ASSUME IInv, RaceInv, Undisturbed, NEW p \in Procs, Lock(p)
  PROVE  /\ pc' = [pc EXCEPT ![p] = "open"] /\ why' = why
         /\ lock' = [lock EXCEPT ![log_path(config[p])] = p]
         /\ has_file(config[p])
<1>0. pc[p] = "lock" /\ has_file(config[p]) /\ validate(config[p]) /\ Unbound(p) = {}
  BY DEF Lock, IInv, LockInv, SocketsInv, RaceInv, Ahead
<1>1. CASE try_lock(p, log_path(config[p]))
  BY <1>0, <1>1 DEF Lock, Go
<1>2. CASE ~try_lock(p, log_path(config[p]))
  <2>1. why[p] = "none" /\ why'[p] = "locked"
    BY <1>0, <1>2 DEF Lock, Fail, Go, RaceInv, Ahead, IInv, StartTypeOK
  <2>2. PICK q \in Procs \ {p} : lock[log_path(config[p])] = q
    BY <2>1, LockedJustified
  <2>3. HoldsLog(q) /\ pc[q] \in {"open", "run"}
    BY <1>0, <2>2 DEF IInv, LockInv, RaceInv, HoldsLog
  <2>4. Unbound(q) = {} /\ validate(config[q])
    BY <2>3 DEF IInv, SocketsInv, RaceInv, Ahead
  <2>5. 1 \in DOMAIN Sockets(config[p]) /\ 1 \in DOMAIN Sockets(config[q])
    BY <1>0, <2>4, ConfigFacts, FirstSocket
  <2>6. Own(p) # {} /\ Own(q) # {}
    BY <1>0, <2>4, <2>5 DEF Unbound
  <2> QED
    BY <2>6 DEF RaceInv, Own
<1> QED
  BY <1>1, <1>2

\* One step of the race.
LEMMA RaceStep ==
  ASSUME IInv, RaceInv, NEW p \in Procs, Steps(p), Others(p)
  PROVE  RaceInv'
<1>0. /\ stops \in Nat /\ faults \in Nat /\ config' = config
      /\ pc \in [Procs -> Places]
      /\ why \in [Procs -> {"none", "invalid", "in_use", "locked", "system"}]
      /\ MaxStops \in Nat /\ MaxFaults \in Nat
  BY StartupAssumption DEF RaceInv, Others, IInv, StartTypeOK
<1>1. /\ stops' = stops \/ (Stop(p) /\ stops' = stops + 1)
      /\ faults' = faults \/ ((SystemError(p) \/ Kill(p)) /\ faults' = faults + 1)
  BY DEF Steps, Start, Bind, Bound, Lock, OpenLog, SystemError, GiveBack, LateLock,
         LateUnlock, Stop, WriterEnds, Exit, Kill, Fault
<1>2. stops' \in Nat /\ faults' \in Nat
  BY <1>0, <1>1
<1> SUFFICES ASSUME Undisturbed'
             PROVE  /\ late' = {}
                    /\ \A q \in Procs : /\ pc'[q] # "drain"
                                        /\ Ahead(q)' => validate(config[q]) /\ why'[q] = "none"
                    /\ \A s \in sockets' : s.owner \in Procs /\ Ahead(s.owner)'
                    /\ \A s, t \in sockets' : s.owner = t.owner
                    /\ sockets' # {} => \E s \in sockets' : s.index = 1
                    /\ \A path \in DOMAIN lock' : \A q \in Procs : lock'[path] = q => HoldsLog(q)'
                    /\ \A q \in Procs : why'[q] \in {"in_use", "locked"} => sockets' # {}
  BY <1>0, <1>2 DEF RaceInv
<1>3. Undisturbed /\ stops' = stops /\ faults' = faults
  BY <1>0, <1>1 DEF Undisturbed
<1>4. ~Stop(p) /\ ~SystemError(p) /\ ~Kill(p)
  BY <1>0, <1>3 DEF Stop, SystemError, Kill, Fault
<1>5. /\ late = {}
      /\ \A q \in Procs : pc[q] # "drain" /\ (Ahead(q) => validate(config[q]) /\ why[q] = "none")
      /\ \A s \in sockets : s.owner \in Procs /\ Ahead(s.owner)
      /\ \A s, t \in sockets : s.owner = t.owner
      /\ sockets # {} => \E s \in sockets : s.index = 1
      /\ \A path \in DOMAIN lock : \A q \in Procs : lock[path] = q => HoldsLog(q)
      /\ \A q \in Procs : why[q] \in {"in_use", "locked"} => sockets # {}
  BY <1>3 DEF RaceInv
<1>6. Own(p) # {} => Ahead(p)
  BY <1>5 DEF Own
<1>7. CASE Start(p)
  <2>1. UNCHANGED <<sockets, lock, late>> /\ pc[p] = "down"
    BY <1>7 DEF Start
  <2>2. \/ validate(config[p]) /\ pc' = [pc EXCEPT ![p] = "bind"] /\ why' = [why EXCEPT ![p] = "none"]
        \/ pc' = pc /\ why' = [why EXCEPT ![p] = "invalid"]
    BY <1>7 DEF Start, Go
  <2> QED
    BY <1>0, <1>5, <2>1, <2>2 DEF Ahead, HoldsLog
<1>8. CASE Bind(p)
  <2>0. UNCHANGED <<late, lock>> /\ pc[p] = "bind"
    BY <1>8 DEF Bind, Fail, Go
  <2>1. CASE /\ UNCHANGED <<pc, why>> /\ \A s \in sockets : s.owner = p
             /\ \E new : /\ sockets' = sockets \cup {new} /\ new.owner = p
                         /\ sockets = {} => new.index = 1
    <3>1. PICK new : /\ sockets' = sockets \cup {new} /\ new.owner = p
                     /\ sockets = {} => new.index = 1
      BY <2>1
    <3>2. Ahead(p)
      BY <2>0 DEF Ahead
    <3> QED
      BY <1>0, <1>5, <2>0, <2>1, <3>1, <3>2 DEF Ahead, HoldsLog
  <2>2. CASE /\ Own(p) = {} /\ sockets # {} /\ sockets' = sockets
             /\ pc' = [pc EXCEPT ![p] = "failing"] /\ why' = [why EXCEPT ![p] = "in_use"]
    <3>1. \A s \in sockets : s.owner # p
      BY <2>2 DEF Own
    <3> QED
      BY <1>0, <1>5, <2>0, <2>2, <3>1 DEF Ahead, HoldsLog
  <2> QED
    BY <1>3, <1>8, <2>1, <2>2, RaceToBind
<1>9. CASE Bound(p)
  <2>1. UNCHANGED <<sockets, lock, late, why>> /\ pc[p] = "bind"
        /\ (pc' = [pc EXCEPT ![p] = "lock"] \/ pc' = [pc EXCEPT ![p] = "run"])
    BY <1>9 DEF Bound, Go
  <2> QED
    BY <1>0, <1>5, <2>1 DEF Ahead, HoldsLog
<1>10. CASE Lock(p)
  <2>1. UNCHANGED <<sockets, late>> /\ pc[p] = "lock"
    BY <1>10 DEF Lock
  <2>2. /\ pc' = [pc EXCEPT ![p] = "open"] /\ why' = why
        /\ lock' = [lock EXCEPT ![log_path(config[p])] = p]
        /\ has_file(config[p])
    BY <1>3, <1>10, RaceToLock
  <2>3. \A path \in DOMAIN lock' : \A q \in Procs : lock'[path] = q => HoldsLog(q)'
    BY <1>0, <1>5, <2>1, <2>2 DEF HoldsLog
  <2> QED
    BY <1>0, <1>5, <2>1, <2>2, <2>3 DEF Ahead
<1>11. CASE OpenLog(p)
  <2>1. UNCHANGED <<sockets, lock, late, why>> /\ pc[p] = "open" /\ pc' = [pc EXCEPT ![p] = "run"]
    BY <1>11 DEF OpenLog, Go
  <2> QED
    BY <1>0, <1>5, <2>1 DEF Ahead, HoldsLog
<1>12. CASE GiveBack(p) \/ WriterEnds(p) \/ Exit(p)
  <2>1. ~WriterEnds(p) /\ pc[p] \in {"failing", "leaving"}
        /\ (pc' = [pc EXCEPT ![p] = "leaving"] \/ pc' = [pc EXCEPT ![p] = "down"])
        /\ Unlock(p) /\ why' = why /\ (late' = late \/ late' = late \ {p})
        /\ (sockets' = sockets \/ sockets' = sockets \ Own(p))
    BY <1>5, <1>12 DEF GiveBack, WriterEnds, Exit, Go, Close
  <2>2. Own(p) = {} /\ sockets' = sockets /\ late' = {}
    BY <1>5, <1>6, <2>1 DEF Ahead
  <2>3. \A path \in DOMAIN lock' : \A q \in Procs : lock'[path] = q => lock[path] = q
    BY <2>1, StartupAssumption DEF Unlock
  <2>4. DOMAIN lock' = DOMAIN lock
    BY <2>1 DEF Unlock
  <2>5. \A q \in Procs : HoldsLog(q) => HoldsLog(q)'
    BY <1>0, <2>1 DEF HoldsLog
  <2> QED
    BY <1>0, <1>5, <2>1, <2>2, <2>3, <2>4, <2>5 DEF Ahead
<1>13. CASE LateLock(p) \/ LateUnlock(p)
  BY <1>5, <1>13 DEF LateLock, LateUnlock
<1> QED
  BY <1>4, <1>7, <1>8, <1>9, <1>10, <1>11, <1>12, <1>13 DEF Steps

\* Of any number of processes started with one configuration of fixed ports,
\* not all fail for each other's sake.
THEOREM StartupSomeoneRuns == Spec => []SomeoneRuns
<1>1. Init => RaceInv
  <2> SUFFICES ASSUME Init PROVE RaceInv
    OBVIOUS
  <2>1. /\ stops = 0 /\ faults = 0 /\ late = {} /\ sockets = {}
        /\ \A p \in Procs : pc[p] = "down" /\ why[p] = "none"
        /\ \A path \in DOMAIN lock : lock[path] = Nobody
    BY DEF Init
  <2> QED
    BY <2>1, StartupAssumption DEF RaceInv, Ahead
<1>2. IInv /\ RaceInv /\ [Next]_vars => RaceInv'
  <2> SUFFICES ASSUME IInv, RaceInv, [Next]_vars PROVE RaceInv'
    OBVIOUS
  <2>1. CASE \E p \in Procs : Steps(p)
    BY <2>1, StepTypes, RaceStep
  <2>2. CASE UNCHANGED vars
    BY <2>2 DEF vars, RaceInv, Undisturbed, Ahead, HoldsLog
  <2> QED
    BY <2>1, <2>2 DEF Next, Steps
<1>3. RaceInv => SomeoneRuns
  <2> SUFFICES ASSUME RaceInv, Undisturbed
               PROVE  \E p \in Procs : why[p] \notin {"in_use", "locked"}
    BY DEF SomeoneRuns, Undisturbed
  <2>1. PICK p \in Procs : TRUE
    BY StartupAssumption
  <2>2. CASE why[p] \in {"in_use", "locked"}
    <3>1. PICK s \in sockets : s.owner \in Procs /\ Ahead(s.owner)
      BY <2>2 DEF RaceInv
    <3>2. why[s.owner] = "none"
      BY <3>1 DEF RaceInv
    <3> QED
      BY <3>1, <3>2
  <2> QED
    BY <2>1, <2>2
<1> QED
  BY <1>1, <1>2, <1>3, StartupInvariant, PTL DEF Spec

-----------------------------------------------------------------------------
(* The longest record: a sum over the tags of a configuration              *)

\* A set that holds 0, and n + 1 with every n, holds every natural number.
LEMMA Inductive ==
  ASSUME NEW S \in SUBSET Nat, 0 \in S, \A n \in S : n + 1 \in S
  PROVE  S = Nat
<1> DEFINE R == {ss \in Nat \X Nat : ss[1] < ss[2]}
<1>0. IsWellFoundedOn(R, Nat)
  BY NatLessThanWellFounded DEF OpToRel
<1>1. \A a, b \in Nat : a < b => <<a, b>> \in R
  OBVIOUS
<1> HIDE DEF R
<1> SUFFICES ASSUME Nat \ S # {} PROVE FALSE
  OBVIOUS
<1>2. PICK x \in Nat \ S : \A y \in Nat \ S : ~ (<<y, x>> \in R)
  BY <1>0, WFMin
<1>3. x - 1 \in Nat /\ x - 1 < x /\ (x - 1) + 1 = x
  OBVIOUS
<1>4. x - 1 \in S
  BY <1>1, <1>2, <1>3
<1> QED
  BY <1>2, <1>3, <1>4

Pick(T) == CHOOSE x \in T : TRUE

\* F is the sum that Texts makes, on the sets of positions in D.
Sums(F, tags, D) ==
  F = [T \in D |->
         IF T = {} THEN 0
         ELSE F[T \ {Pick(T)}] + tags[Pick(T)].key.len + 2 * tags[Pick(T)].value.len + 6]

Small(S, n) == {T \in SUBSET S : Cardinality(T) <= n}

\* Tags as validate allows them, but for their number.
Tags(tags) ==
  /\ tags \in Seq(Range(tags))
  /\ \A k \in DOMAIN tags : tags[k].key.len \in 1..64 /\ tags[k].value.len \in 0..128

\* Of a set that is not empty an element can be taken away, of a small one too.
LEMMA PickSmaller ==
  ASSUME NEW S, IsFiniteSet(S), NEW n \in Nat, NEW T \in Small(S, n + 1), T # {}
  PROVE  /\ Pick(T) \in S
         /\ T \ {Pick(T)} \in Small(S, n) /\ T \ {Pick(T)} \in Small(S, n + 1)
         /\ Cardinality(T \ {Pick(T)}) \in Nat /\ Cardinality(T) = Cardinality(T \ {Pick(T)}) + 1
<1>1. Pick(T) \in T
  BY DEF Pick
<1>2. T \in SUBSET S /\ Cardinality(T) <= n + 1
  BY DEF Small
<1>3. IsFiniteSet(T)
  BY <1>2, FS_Subset
<1>4. /\ IsFiniteSet(T \ {Pick(T)})
      /\ Cardinality(T \ {Pick(T)}) = Cardinality(T) - 1
  BY <1>1, <1>3, FS_RemoveElement
<1>5. Cardinality(T) \in Nat /\ Cardinality(T \ {Pick(T)}) \in Nat
  BY <1>3, <1>4, FS_CardinalityType
<1> QED
  BY <1>1, <1>2, <1>4, <1>5 DEF Small

\* The sum has a solution.
LEMMA SumsExist ==
  ASSUME NEW tags, Tags(tags)
  PROVE  \E F : Sums(F, tags, SUBSET DOMAIN tags)
<1> DEFINE S == DOMAIN tags
           Q(n) == \E F \in [Small(S, n) -> Nat] : Sums(F, tags, Small(S, n))
           N == {n \in Nat : Q(n)}
<1>0. /\ Len(tags) \in Nat /\ S = 1..Len(tags) /\ IsFiniteSet(S)
      /\ \A k \in S : tags[k].key.len \in Nat /\ tags[k].value.len \in Nat
  <2>1. Len(tags) \in Nat /\ S = 1..Len(tags)
    BY DEF Tags
  <2>2. IsFiniteSet(S)
    BY <2>1, FS_Interval
  <2>3. \A k \in S : tags[k].key.len \in 1..64 /\ tags[k].value.len \in 0..128
    BY DEF Tags
  <2> HIDE DEF S
  <2>4. \A k \in S : tags[k].key.len \in Nat /\ tags[k].value.len \in Nat
    BY <2>3
  <2> QED
    BY <2>1, <2>2, <2>4
<1>1. 0 \in N
  <2> DEFINE F == [T \in Small(S, 0) |-> 0]
  <2>1. \A T \in Small(S, 0) : T = {}
    <3> SUFFICES ASSUME NEW T \in Small(S, 0) PROVE T = {}
      OBVIOUS
    <3>1. IsFiniteSet(T) /\ Cardinality(T) <= 0
      BY <1>0, FS_Subset DEF Small
    <3> QED
      BY <3>1, FS_CardinalityType, FS_EmptySet
  <2>2. F = [T \in Small(S, 0) |->
               IF T = {} THEN 0
               ELSE F[T \ {Pick(T)}] + tags[Pick(T)].key.len + 2 * tags[Pick(T)].value.len + 6]
    BY <2>1
  <2>3. F \in [Small(S, 0) -> Nat]
    OBVIOUS
  <2> QED
    BY <2>2, <2>3 DEF Sums
<1>2. ASSUME NEW n \in N PROVE n + 1 \in N
  <2>0. n \in Nat
    OBVIOUS
  <2>1. PICK F \in [Small(S, n) -> Nat] : Sums(F, tags, Small(S, n))
    BY <1>2
  <2> DEFINE more(T) == F[T \ {Pick(T)}] + tags[Pick(T)].key.len + 2 * tags[Pick(T)].value.len + 6
             G == [T \in Small(S, n + 1) |-> IF T \in Small(S, n) THEN F[T] ELSE more(T)]
  <2>2. \A T \in Small(S, n + 1) : T # {} =>
          Pick(T) \in S /\ T \ {Pick(T)} \in Small(S, n) /\ T \ {Pick(T)} \in Small(S, n + 1)
    BY <1>0, <2>0, PickSmaller
  <2>3. {} \in Small(S, n) /\ Small(S, n) \subseteq Small(S, n + 1)
    <3>1. Cardinality({}) = 0
      BY FS_EmptySet
    <3>2. ASSUME NEW T \in Small(S, n) PROVE T \in Small(S, n + 1)
      <4>1. IsFiniteSet(T)
        BY <1>0, FS_Subset DEF Small
      <4>2. Cardinality(T) \in Nat
        BY <4>1, FS_CardinalityType
      <4> QED
        BY <2>0, <4>2 DEF Small
    <3> QED
      BY <2>0, <3>1, <3>2 DEF Small
  <2>4. ASSUME NEW T \in Small(S, n + 1)
        PROVE  /\ G[T] = IF T = {} THEN 0
                         ELSE G[T \ {Pick(T)}] + tags[Pick(T)].key.len
                                + 2 * tags[Pick(T)].value.len + 6
               /\ G[T] \in Nat
    <3>1. CASE T = {}
      <4>1. G[T] = F[T] /\ F[T] = 0
        BY <2>1, <2>3, <3>1 DEF Sums
      <4> QED
        BY <3>1, <4>1
    <3>2. CASE T # {}
      <4>1. /\ T \ {Pick(T)} \in Small(S, n) /\ T \ {Pick(T)} \in Small(S, n + 1)
            /\ Pick(T) \in S
        BY <2>2, <3>2
      <4>2. G[T \ {Pick(T)}] = F[T \ {Pick(T)}] /\ F[T \ {Pick(T)}] \in Nat
        BY <2>1, <4>1
      <4>3. G[T] = more(T)
        BY <2>1, <3>2 DEF Sums
      <4>4. more(T) \in Nat
        <5>1. /\ F[T \ {Pick(T)}] \in Nat
              /\ tags[Pick(T)].key.len \in Nat /\ tags[Pick(T)].value.len \in Nat
          BY <1>0, <4>1, <4>2
        <5>2. \A a, b, d \in Nat : a + b + 2 * d + 6 \in Nat
          OBVIOUS
        <5> QED
          BY <5>1, <5>2
      <4> QED
        BY <3>2, <4>2, <4>3, <4>4
    <3> QED
      BY <3>1, <3>2
  <2>5. G = [T \in Small(S, n + 1) |->
               IF T = {} THEN 0
               ELSE G[T \ {Pick(T)}] + tags[Pick(T)].key.len + 2 * tags[Pick(T)].value.len + 6]
    BY <2>4
  <2>6. G \in [Small(S, n + 1) -> Nat]
    BY <2>4
  <2> HIDE DEF G
  <2>7. Sums(G, tags, Small(S, n + 1))
    BY <2>5 DEF Sums
  <2> QED
    BY <2>0, <2>6, <2>7
<1> HIDE DEF N
<1>3. N = Nat
  <2>1. N \in SUBSET Nat
    BY DEF N
  <2> QED
    BY <2>1, <1>1, <1>2, Inductive
<1>4. Cardinality(S) \in Nat
  BY <1>0, FS_CardinalityType
<1>5. Small(S, Cardinality(S)) = SUBSET S
  BY <1>0, FS_Subset DEF Small
<1>6. Q(Cardinality(S))
  BY <1>3, <1>4 DEF N
<1>7. PICK F \in [Small(S, Cardinality(S)) -> Nat] : Sums(F, tags, Small(S, Cardinality(S)))
  BY <1>6
<1> QED
  BY <1>5, <1>7

TagsLength(tags) ==
  FoldSeq(LAMBDA tag, sum : sum + tag.key.len + 2 * tag.value.len + 6, 0, tags)

\* Each tag adds no more than 326, and there are no more than eight.
LEMMA TagsBounded ==
  ASSUME NEW tags, Tags(tags), Len(tags) <= 8
  PROVE  TagsLength(tags) \in Nat /\ TagsLength(tags) <= 2608
<1> DEFINE S == DOMAIN tags
<1>1. PICK G : Sums(G, tags, SUBSET S) /\ TagsLength(tags) = G[S]
  <2> DEFINE H == CHOOSE F : Sums(F, tags, SUBSET S)
  <2>1. \E F : Sums(F, tags, SUBSET S)
    BY SumsExist
  <2>2. Sums(H, tags, SUBSET S)
    BY <2>1, Zenon
  <2>3. TagsLength(tags) = H[S]
    BY SMT DEF TagsLength, FoldSeq, FoldFunction, FoldFunctionOnSet, MapThenFoldSet, Sums, Pick
  <2> QED
    BY <2>2, <2>3
<1>2. /\ Len(tags) \in Nat /\ S = 1..Len(tags)
      /\ \A k \in S : tags[k].key.len \in 1..64 /\ tags[k].value.len \in 0..128
  BY DEF Tags
<1>3. IsFiniteSet(S) /\ Cardinality(S) <= 8
  <2>1. PICK n \in Nat : n = Len(tags) /\ n <= 8
    BY <1>2
  <2>2. 1 \in Int /\ n \in Int
    BY <2>1
  <2>3. IsFiniteSet(1..n) /\ Cardinality(1..n) = IF 1 > n THEN 0 ELSE n - 1 + 1
    BY <2>2, FS_Interval
  <2>4. Cardinality(1..n) <= 8
    <3>1. CASE 1 > n
      <4>1. Cardinality(1..n) = 0
        BY <2>3, <3>1
      <4> QED
        BY <4>1
    <3>2. CASE ~(1 > n)
      <4>1. Cardinality(1..n) = n - 1 + 1
        BY <2>3, <3>2
      <4> QED
        BY <2>1, <4>1
    <3> QED
      BY <3>1, <3>2
  <2>5. S = 1..n
    BY <1>2, <2>1
  <2> HIDE DEF S
  <2> QED
    BY <2>3, <2>4, <2>5
<1> HIDE DEF S
<1> DEFINE N == {n \in Nat : \A T \in Small(S, n) : G[T] \in Nat /\ G[T] <= 326 * n}
<1>4. G[{}] = 0 /\ \A T \in SUBSET S : IsFiniteSet(T) /\ Cardinality(T) \in Nat
  <2>1. {} \in SUBSET S
    OBVIOUS
  <2>2. \A T \in SUBSET S : IsFiniteSet(T) /\ Cardinality(T) \in Nat
    BY <1>3, FS_Subset, FS_CardinalityType
  <2> QED
    BY <1>1, <2>1, <2>2 DEF Sums
<1>5. 0 \in N
  <2> SUFFICES ASSUME NEW T \in Small(S, 0) PROVE T = {}
    BY <1>4
  <2>1. IsFiniteSet(T) /\ Cardinality(T) = 0
    BY <1>4 DEF Small
  <2> QED
    BY <2>1, FS_EmptySet
<1>6. ASSUME NEW n \in N PROVE n + 1 \in N
  <2>0. n \in Nat /\ \A T \in Small(S, n) : G[T] \in Nat /\ G[T] <= 326 * n
    OBVIOUS
  <2> HIDE DEF N
  <2>1. ASSUME NEW T \in Small(S, n + 1), T # {}
        PROVE  G[T] \in Nat /\ G[T] <= 326 * (n + 1)
    <3> DEFINE x == Pick(T)
    <3>1. x \in S /\ T \ {x} \in Small(S, n) /\ T \in SUBSET S
      BY <1>3, <2>0, <2>1, PickSmaller DEF Small
    <3>2. G[T] = G[T \ {x}] + tags[x].key.len + 2 * tags[x].value.len + 6
      BY <1>1, <2>1, <3>1 DEF Sums
    <3> HIDE DEF x
    <3>3. /\ G[T \ {x}] \in Nat /\ G[T \ {x}] <= 326 * n
          /\ tags[x].key.len \in 1..64 /\ tags[x].value.len \in 0..128
      <4>1. G[T \ {x}] \in Nat /\ G[T \ {x}] <= 326 * n
        BY <2>0, <3>1, Zenon
      <4>2. tags[x].key.len \in 1..64 /\ tags[x].value.len \in 0..128
        BY <1>2, <3>1, Zenon
      <4> QED
        BY <4>1, <4>2
    <3>4. \A a \in Nat, b \in 1..64, d \in 0..128 :
            a <= 326 * n => /\ a + b + 2 * d + 6 \in Nat
                            /\ a + b + 2 * d + 6 <= 326 * (n + 1)
      BY <2>0
    <3> DEFINE sum == G[T \ {x}]
               key == tags[x].key.len
               value == tags[x].value.len
    <3>5. sum \in Nat /\ sum <= 326 * n /\ key \in 1..64 /\ value \in 0..128
      BY <3>3
    <3>6. G[T] = sum + key + 2 * value + 6
      BY <3>2
    <3> HIDE DEF sum, key, value
    <3>7. /\ sum + key + 2 * value + 6 \in Nat
          /\ sum + key + 2 * value + 6 <= 326 * (n + 1)
      BY <3>4, <3>5
    <3> QED
      BY <3>6, <3>7
  <2>2. \A T \in Small(S, n + 1) : G[T] \in Nat /\ G[T] <= 326 * (n + 1)
    <3> SUFFICES ASSUME NEW T \in Small(S, n + 1)
        PROVE  G[T] \in Nat /\ G[T] <= 326 * (n + 1)
      OBVIOUS
    <3>1. CASE T = {}
      <4>1. G[T] = 0
        BY <1>4, <3>1
      <4>2. 0 <= 326 * (n + 1)
        BY <2>0
      <4> QED
        BY <4>1, <4>2
    <3>2. CASE T # {}
      BY <2>1, <3>2
    <3> QED
      BY <3>1, <3>2
  <2> QED
    BY <2>0, <2>2 DEF N
<1>7. N = Nat
  <2> HIDE DEF N
  <2>1. N \in SUBSET Nat
    BY DEF N
  <2> QED
    BY <2>1, <1>5, <1>6, Inductive
<1>8. S \in Small(S, 8) /\ 8 \in N
  BY <1>3, <1>7 DEF Small
<1>9. G[S] \in Nat /\ G[S] <= 326 * 8
  BY <1>8
<1>10. 326 * 8 = 2608
  OBVIOUS
<1> QED
  BY <1>1, <1>9, <1>10

\* A product grows with its second factor.
LEMMA ProductGrows ==
  ASSUME NEW n \in Nat, NEW a \in Nat, NEW b \in Nat, a <= b
  PROVE  n * a <= n * b /\ n * b = b * n
<1>1. PICK d \in Nat : b = a + d
  <2>1. b - a \in Nat /\ b = a + (b - a)
    OBVIOUS
  <2> QED
    BY <2>1
<1>2. n * b = n * a + n * d
  BY <1>1
<1>3. n * a \in Nat /\ n * d \in Nat
  OBVIOUS
<1>4. n * a <= n * b
  <2> DEFINE x == n * a
             y == n * d
             z == n * b
  <2>1. z = x + y /\ x \in Nat /\ y \in Nat
    BY <1>2, <1>3
  <2> HIDE DEF x, y, z
  <2>2. x <= z
    BY <2>1
  <2> QED
    BY <2>2 DEF x, z
<1>5. n * b = b * n
  OBVIOUS
<1> QED
  BY <1>4, <1>5

\* The records of a configuration that validate accepts are no longer than it
\* takes them to be, and than a file of the log may be; a full queue of them
\* and a full limiter are within the budgets.
LEMMA ValidFits ==
  ASSUME NEW c, validate(c), c.tags \in Seq(Range(c.tags)),
         \A k \in DOMAIN c.tags : c.tags[k].value.len \in Nat
  PROVE  /\ LongestLine(c) <= c.max_file_bytes /\ LongestRecord(c) <= estimated_record_bytes(c)
         /\ FullQueue(c) <= queue_budget /\ FullLimiter(c) <= history_budget
<1>0. /\ SensorValid(c) /\ HistoriesValid(c) /\ PreviewValid(c) /\ LoggingValid(c)
      /\ QueueValid(c)
  BY DEF validate
<1>1. TagsLength(c.tags) \in Nat /\ TagsLength(c.tags) <= 2608
  <2> DEFINE tags == c.tags
  <2>1. /\ Len(tags) <= 8
        /\ \A k \in DOMAIN tags : identifier(tags[k].key) /\ safe_text(tags[k].value, 128)
    BY <1>0 DEF SensorValid
  <2>2. /\ tags \in Seq(Range(tags))
        /\ \A k \in DOMAIN tags : tags[k].value.len \in Nat
    OBVIOUS
  <2> HIDE DEF tags
  <2>3. \A k \in DOMAIN tags : tags[k].key.len \in 1..64
    BY <2>1 DEF identifier
  <2>4. \A k \in DOMAIN tags : tags[k].value.len <= 128
    BY <2>1 DEF safe_text
  <2>5. \A a \in Nat : a <= 128 => a \in 0..128
    OBVIOUS
  <2>6. \A k \in DOMAIN tags : tags[k].value.len \in 0..128
    BY <2>2, <2>4, <2>5
  <2>7. Tags(tags)
    BY <2>2, <2>3, <2>6 DEF Tags
  <2>8. TagsLength(tags) \in Nat /\ TagsLength(tags) <= 2608
    <3> HIDE DEF TagsLength
    <3> QED
      BY <2>1, <2>7, TagsBounded
  <2> QED
    BY <2>8 DEF tags
<1>2. /\ c.id.len \in 1..64 /\ c.environment.len \in 1..64
  BY <1>0, SMT DEF SensorValid, identifier
<1>3. c.max_bytes_per_session \in Nat /\ c.max_bytes_per_session <= 65536
  <2>1. c.max_bytes_per_session \in 0..largest_preview
    BY <1>0 DEF PreviewValid
  <2>2. largest_preview \in Nat /\ largest_preview <= 65536
    BY SMT DEF largest_preview
  <2> QED
    BY <2>1, <2>2, SMT
<1>4. /\ c.max_file_bytes \in Nat /\ 1048576 <= c.max_file_bytes
      /\ c.buffer_size \in Nat
  <2>1. c.buffer_size \in 1..largest_queue /\ c.max_file_bytes \in smallest_file..largest_file
    BY <1>0, Zenon DEF LoggingValid
  <2>2. smallest_file \in Nat /\ 1048576 <= smallest_file
    BY SMT DEF smallest_file
  <2> QED
    BY <2>1, <2>2, SMT
<1>5. Texts(c) = c.id.len + c.environment.len + 64 + TagsLength(c.tags)
  BY DEF Texts, TagsLength
<1>6. Texts(c) \in Nat /\ Texts(c) <= 2800
  <2> DEFINE id == c.id.len
             environment == c.environment.len
             sum == TagsLength(c.tags)
  <2>1. id \in 1..64 /\ environment \in 1..64 /\ sum \in Nat /\ sum <= 2608
    BY <1>1, <1>2
  <2>2. Texts(c) = id + environment + 64 + sum
    BY <1>5
  <2> HIDE DEF id, environment, sum
  <2>3. id + environment + 64 + sum \in Nat /\ id + environment + 64 + sum <= 2800
    BY <2>1, SMT
  <2> QED
    BY <2>2, <2>3, SMT
<1>7. \A texts, preview, file \in Nat :
        texts <= 2800 /\ preview <= 65536 /\ 1048576 <= file =>
        /\ 2048 + texts + 3 * 8192 + 4 * preview <= file
        /\ 2048 + texts + 3 * 8192 + 3 * preview <= 65536 + 3 * preview
  BY SMT
<1>8. LongestLine(c) <= c.max_file_bytes /\ LongestRecord(c) <= estimated_record_bytes(c)
  <2> DEFINE texts == Texts(c)
             preview == c.max_bytes_per_session
             file == c.max_file_bytes
  <2>1. /\ texts \in Nat /\ preview \in Nat /\ file \in Nat
        /\ texts <= 2800 /\ preview <= 65536 /\ 1048576 <= file
    BY <1>3, <1>4, <1>6
  <2>2. /\ LongestLine(c) = 2048 + texts + 3 * 8192 + 4 * preview
        /\ LongestRecord(c) = 2048 + texts + 3 * 8192 + 3 * preview
        /\ estimated_record_bytes(c) = 65536 + 3 * preview
    BY DEF LongestLine, LongestRecord, estimated_record_bytes
  <2> HIDE DEF texts, preview
  <2>3. /\ 2048 + texts + 3 * 8192 + 4 * preview <= file
        /\ 2048 + texts + 3 * 8192 + 3 * preview <= 65536 + 3 * preview
    BY <1>7, <2>1
  <2> QED
    BY <2>2, <2>3
<1>9. FullQueue(c) <= queue_budget
  <2> DEFINE size == c.buffer_size
             longest == LongestRecord(c)
             estimate == estimated_record_bytes(c)
  <2>1. estimate * size <= queue_budget
    BY <1>0, Zenon DEF QueueValid
  <2>2. size \in Nat
    BY <1>4
  <2>3. longest \in Nat /\ estimate \in Nat /\ longest <= estimate
    <3>1. \A texts, preview \in Nat :
            2048 + texts + 3 * 8192 + 3 * preview \in Nat /\ 65536 + 3 * preview \in Nat
      BY SMT
    <3>2. Texts(c) \in Nat /\ c.max_bytes_per_session \in Nat
      BY <1>3, <1>6
    <3>3. longest \in Nat
      BY <3>1, <3>2 DEF LongestRecord
    <3>4. estimate \in Nat
      BY <3>1, <3>2 DEF estimated_record_bytes
    <3> QED
      BY <1>8, <3>3, <3>4
  <2>4. queue_budget \in Nat /\ FullQueue(c) = size * longest
    BY DEF queue_budget, FullQueue
  <2> HIDE DEF size, longest, estimate
  <2>5. size * longest <= size * estimate /\ size * estimate = estimate * size
    BY <2>2, <2>3, ProductGrows
  <2> DEFINE full == size * longest
             budget == estimate * size
  <2>6. full <= budget /\ budget <= queue_budget /\ FullQueue(c) = full
    BY <2>1, <2>4, <2>5
  <2>7. full \in Nat /\ budget \in Nat
    BY <2>2, <2>3
  <2> HIDE DEF full, budget
  <2> QED
    BY <2>4, <2>6, <2>7
<1>10. FullLimiter(c) <= history_budget
  BY <1>0, Zenon DEF HistoriesValid, FullLimiter
<1> QED
  BY <1>8, <1>9, <1>10

\* A process that is ahead has a valid configuration.
ValidAhead == \A p \in Procs : Ahead(p) => validate(config[p])

\* WithinBudgets, for every process and every configuration: the line of every
\* record fits in a file of the log, a full queue in the memory validate allows
\* it, and a full limiter in that of its histories.
THEOREM StartupWithinBudgets == Spec => []WithinBudgets
<1>1. Init => ValidAhead
  BY DEF Init, ValidAhead, Ahead
<1>2. IInv /\ ValidAhead /\ [Next]_vars => ValidAhead'
  <2> SUFFICES ASSUME IInv, ValidAhead, [Next]_vars PROVE ValidAhead'
    OBVIOUS
  <2>1. pc \in [Procs -> Places]
    BY DEF IInv, StartTypeOK
  <2>2. ASSUME NEW p \in Procs, Steps(p) PROVE ValidAhead'
    <3>1. config' = config
      BY <2>2 DEF Steps, Start, Bind, Bound, Lock, OpenLog, SystemError, GiveBack, LateLock,
         LateUnlock, Stop, WriterEnds, Exit, Kill
    <3>2. \A q \in Procs \ {p} : pc'[q] = pc[q]
      BY <2>1, <2>2 DEF Steps, Start, Bind, Bound, Lock, OpenLog, SystemError, GiveBack, LateLock,
         LateUnlock, Stop, WriterEnds, Exit, Kill, Go, Fail
    <3>3. Ahead(p)' => Ahead(p) \/ validate(config[p])
      BY <2>1, <2>2 DEF Steps, Start, Bind, Bound, Lock, OpenLog, SystemError, GiveBack, LateLock,
         LateUnlock, Stop, WriterEnds, Exit, Kill, Go, Fail, Ahead
    <3> QED
      BY <3>1, <3>2, <3>3 DEF ValidAhead, Ahead
  <2>3. CASE UNCHANGED vars
    BY <2>3 DEF vars, ValidAhead, Ahead
  <2> QED
    BY <2>2, <2>3 DEF Next, Steps
<1>3. IInv /\ ValidAhead => WithinBudgets
  <2> SUFFICES ASSUME IInv, ValidAhead, NEW p \in Procs, pc[p] = "run"
      PROVE  /\ LongestLine(config[p]) <= config[p].max_file_bytes
             /\ LongestRecord(config[p]) <= estimated_record_bytes(config[p])
             /\ FullQueue(config[p]) <= queue_budget
             /\ FullLimiter(config[p]) <= history_budget
    BY DEF WithinBudgets
  <2>1. validate(config[p]) /\ config \in Deployments
    BY DEF ValidAhead, Ahead, IInv, StartTypeOK
  <2>2. /\ config[p].tags \in Seq(Range(config[p].tags))
        /\ \A k \in DOMAIN config[p].tags : config[p].tags[k].value.len \in Nat
    BY <2>1, DeploymentsAssumption
  <2> QED
    BY <2>1, <2>2, ValidFits
<1> QED
  BY <1>1, <1>2, <1>3, StartupInvariant, PTL DEF Spec

=============================================================================
