---------------------------- MODULE RateLimiter ----------------------------
(***************************************************************************)
(* The per-address connection limiter (src/ratelimit.rs) together with the *)
(* tasks that call it: one task per endpoint, which calls check for every  *)
(* accepted connection, and the maintenance worker of server.rs, which     *)
(* calls evict_idle and tracked_ips once per tick.                         *)
(*                                                                         *)
(* check and evict_idle read the clock BEFORE they take the mutex, so a    *)
(* call is two steps: the sample, and the critical section that uses it.   *)
(* MaxSkew bounds the time a task may spend between the two.               *)
(***************************************************************************)
EXTENDS Integers, Sequences, FiniteSets, Addresses

CONSTANTS Endpoints,    \* the endpoint tasks
          Maintenance,  \* the maintenance worker
          Peers,        \* peer addresses, before canonicalisation
          NoPeer,       \* no call in progress
          limit,        \* admissions per address and window; 0 disables
          max_ips,      \* hard bound on tracked addresses
          WINDOW,       \* length of the window (60 s in the code)
          MaxSkew,      \* longest delay between the sample and the lock
          MaxClock      \* bound on the clock, for TLC

Tasks == Endpoints \cup {Maintenance}

ASSUME LimiterAssumption ==
  /\ Maintenance \notin Endpoints
  /\ NoPeer \notin Peers
  /\ limit \in Nat
  /\ max_ips \in Nat \ {0}
  /\ WINDOW \in Nat \ {0}
  /\ MaxSkew \in Nat
  /\ MaxClock \in Nat

Hosts == {p.host : p \in Peers}

\* An IPv4 host has two spellings, "v4" and "mapped"; an IPv6 host has one.
ASSUME PeersAssumption ==
  /\ Peers \subseteq [family : {"v4", "mapped", "v6"}, host : Hosts]
  /\ \A p, q \in Peers :
       p.host = q.host => (p.family = "v6" <=> q.family = "v6")

VARIABLES
  clock,     \* the monotonic clock behind Instant::now()
  map,       \* tracked address -> its admission times, oldest first
  poisoned,  \* a task panicked while it held the mutex
  pc,        \* where each task is
  now,       \* the time each task sampled, 0 between calls
  peer,      \* the address each endpoint is checking, else NoPeer
  verdict,   \* each endpoint's last Decision
  gauge,     \* metrics.tracked_ips
  admitted   \* history: all admission times of a host, in lock order

vars == <<clock, map, poisoned, pc, now, peer, verdict, gauge, admitted>>

-----------------------------------------------------------------------------

Ips == {canonical_ip(p) : p \in Peers}

\* (mutant) times leave the window one instant early
Live_short(window, t) == {k \in 1..Len(window) : t - window[k] < WINDOW - 1}

\* Positions of a window that are still inside the window at time t.
Live(window, t) == {k \in 1..Len(window) : t - window[k] < WINDOW}

First(S) == CHOOSE k \in S : \A j \in S : k <= j

\* Pops expired times from the FRONT only, and stops at the first live one.
expire(window, t) ==
  IF Live(window, t) = {} THEN <<>>
  ELSE SubSeq(window, First(Live(window, t)), Len(window))

Bucket(ip) == IF ip \in DOMAIN map THEN map[ip] ELSE <<>>

\* map.entry(ip) set to window, every other bucket untouched.
WithBucket(ip, window) ==
  [i \in DOMAIN map \cup {ip} |-> IF i = ip THEN window ELSE map[i]]

-----------------------------------------------------------------------------

Init ==
  /\ clock = 0
  /\ map = [ip \in {} |-> <<>>]
  /\ poisoned = FALSE
  /\ pc = [t \in Tasks |-> "idle"]
  /\ now = [t \in Tasks |-> 0]
  /\ peer = [e \in Endpoints |-> NoPeer]
  /\ verdict = [e \in Endpoints |-> "none"]
  /\ gauge = 0
  /\ admitted = [h \in Hosts |-> <<>>]

\* Time passes, but no task dawdles longer than MaxSkew before the mutex.
Tick ==
  /\ clock < MaxClock
  /\ \A t \in Tasks : pc[t] \in {"check", "evict"} => clock < now[t] + MaxSkew
  /\ clock' = clock + 1
  /\ UNCHANGED <<map, poisoned, pc, now, peer, verdict, gauge, admitted>>

\* check: Instant::now() is evaluated before check_at is entered.
check(e, ip) ==
  /\ pc[e] = "idle"
  /\ pc' = [pc EXCEPT ![e] = "check"]
  /\ now' = [now EXCEPT ![e] = clock]
  /\ peer' = [peer EXCEPT ![e] = ip]
  /\ verdict' = [verdict EXCEPT ![e] = "none"]
  /\ UNCHANGED <<clock, map, poisoned, gauge, admitted>>

\* (mutant) a limit of one turns the limiter off as well
Disabled_low == limit <= 1

\* rate_limit_per_ip_per_min = 0 turns the limiter off.
Disabled == limit = 0

Answer(e, decision) ==
  /\ pc' = [pc EXCEPT ![e] = "idle"]
  /\ now' = [now EXCEPT ![e] = 0]
  /\ peer' = [peer EXCEPT ![e] = NoPeer]
  /\ verdict' = [verdict EXCEPT ![e] = decision]
  /\ UNCHANGED <<clock, poisoned, gauge>>

\* (mutant) room for one address too many
Full_off_by_one(ip) == ip \notin DOMAIN map /\ Cardinality(DOMAIN map) > max_ips

Full(ip) == ip \notin DOMAIN map /\ Cardinality(DOMAIN map) >= max_ips

\* The tests that answer before the address's bucket is looked at.
Early(ip) == Disabled \/ poisoned \/ Full(ip)

EarlyDecision ==
  IF Disabled THEN "Allowed" ELSE IF poisoned THEN "Unavailable" ELSE "Capacity"

\* The critical section, its outcomes in the order of the tests.
check_at(e) ==
  LET ip     == canonical_ip(peer[e])
      window == expire(Bucket(ip), now[e])
  IN
  /\ pc[e] = "check"
  /\ \/ /\ Early(ip)
        /\ Answer(e, EarlyDecision)
        /\ UNCHANGED <<map, admitted>>
     \/ /\ ~Early(ip)
        /\ Len(window) >= limit
        /\ Answer(e, "RateLimit")
        /\ map' = WithBucket(ip, window)
        /\ UNCHANGED admitted
     \/ /\ ~Early(ip)
        /\ Len(window) < limit
        /\ Answer(e, "Allowed")
        /\ map' = WithBucket(ip, Append(window, now[e]))
        /\ admitted' = [admitted EXCEPT ![peer[e].host] = Append(@, now[e])]

\* An endpoint task dies inside the critical section: the mutex is poisoned.
Poison(e) ==
  /\ pc[e] = "check"
  /\ ~Disabled
  /\ ~poisoned
  /\ poisoned' = TRUE
  /\ pc' = [pc EXCEPT ![e] = "dead"]
  /\ now' = [now EXCEPT ![e] = 0]
  /\ peer' = [peer EXCEPT ![e] = NoPeer]
  /\ UNCHANGED <<clock, map, verdict, gauge, admitted>>

evict_idle ==
  /\ pc[Maintenance] = "idle"
  /\ pc' = [pc EXCEPT ![Maintenance] = "evict"]
  /\ now' = [now EXCEPT ![Maintenance] = clock]
  /\ UNCHANGED <<clock, map, poisoned, peer, verdict, gauge, admitted>>

\* (mutant) the sweep leaves the table as it is
evict_at_idle ==
  /\ pc[Maintenance] = "evict"
  /\ pc' = [pc EXCEPT ![Maintenance] = "report"]
  /\ now' = [now EXCEPT ![Maintenance] = 0]
  /\ UNCHANGED <<clock, map, poisoned, peer, verdict, gauge, admitted>>

\* map.retain: expire every bucket and drop the ones left empty.
evict_at ==
  LET swept(ip) == expire(map[ip], now[Maintenance])
      kept == {ip \in DOMAIN map : swept(ip) # <<>>}
  IN
  /\ pc[Maintenance] = "evict"
  /\ map' = IF poisoned THEN map ELSE [ip \in kept |-> swept(ip)]
  /\ pc' = [pc EXCEPT ![Maintenance] = "report"]
  /\ now' = [now EXCEPT ![Maintenance] = 0]
  /\ UNCHANGED <<clock, poisoned, peer, verdict, gauge, admitted>>

\* (mutant) the gauge counts down instead of being set
tracked_ips_dec ==
  /\ pc[Maintenance] = "report"
  /\ gauge' = gauge - 1
  /\ pc' = [pc EXCEPT ![Maintenance] = "idle"]
  /\ UNCHANGED <<clock, map, poisoned, now, peer, verdict, admitted>>

\* The maintenance worker publishes the table size, under a second lock.
tracked_ips ==
  /\ pc[Maintenance] = "report"
  /\ gauge' = IF poisoned THEN 0 ELSE Cardinality(DOMAIN map)
  /\ pc' = [pc EXCEPT ![Maintenance] = "idle"]
  /\ UNCHANGED <<clock, map, poisoned, now, peer, verdict, admitted>>

Next ==
  \/ Tick
  \/ \E e \in Endpoints :
        \/ \E ip \in Peers : check(e, ip)
        \/ check_at(e)
        \/ Poison(e)
  \/ evict_idle
  \/ evict_at
  \/ tracked_ips

\* Time passes and the maintenance worker keeps ticking; no assumption is
\* made on endpoints except that a task that has sampled gets the mutex.
Fairness ==
  /\ WF_vars(Tick)
  /\ WF_vars(evict_idle)
  /\ WF_vars(evict_at)
  /\ WF_vars(tracked_ips)
  /\ \A e \in Endpoints : WF_vars(check_at(e))

Spec == Init /\ [][Next]_vars
FairSpec == Spec /\ Fairness

-----------------------------------------------------------------------------
(***************************************************************************)
(* Properties                                                              *)
(***************************************************************************)

\* Type correctness of the limiter's table, its callers and the history.
TypeOK ==
  /\ clock \in Nat
  /\ DOMAIN map \subseteq Ips
  /\ map \in [DOMAIN map -> Seq(Nat)]
  /\ poisoned \in BOOLEAN
  /\ pc \in [Tasks -> {"idle", "check", "evict", "report", "dead"}]
  /\ now \in [Tasks -> Nat]
  /\ peer \in [Endpoints -> Peers \cup {NoPeer}]
  /\ verdict \in [Endpoints -> {"none", "Allowed", "RateLimit", "Capacity", "Unavailable"}]
  /\ gauge \in Nat
  /\ admitted \in [Hosts -> Seq(Nat)]

\* "Hard bounds on tracked addresses" (ratelimit.rs): whatever the callers
\* do, at most max_ips buckets exist, none of them is empty or longer than
\* limit, and the published gauge never exceeds the bound either.
MemoryBound ==
  /\ Cardinality(DOMAIN map) <= max_ips
  /\ \A ip \in DOMAIN map : Len(map[ip]) \in 1..limit
  /\ gauge <= max_ips

\* Any limit + 1 admissions of one host span at least d.
AdmissionsSpan(d) ==
  limit > 0 =>
    \A h \in Hosts : \A i, j \in 1..Len(admitted[h]) :
      i + limit <= j => admitted[h][j] >= admitted[h][i] + d

\* The rate that check_at really enforces when several endpoints sample the
\* clock before they race for the mutex: any limit + 1 admissions of one
\* host, IPv4-mapped spellings included, span at least WINDOW - MaxSkew.
RateBound == AdmissionsSpan(WINDOW - MaxSkew)

\* "Exact sliding 60-second window" (ratelimit.rs:1): any limit + 1
\* admissions of one host span at least the whole window.  So it is when no
\* time passes between the sample and the mutex.
ExactRate == AdmissionsSpan(WINDOW)

Window == INSTANCE SlidingWindow
  WITH Callers <- Endpoints, Slack <- MaxSkew,
       asked <- [e \in Endpoints |-> now[e]], failed <- poisoned,
       pending <- {e \in Endpoints : pc[e] = "check"}

\* The bounded, evicted table answers every check as the unbounded history
\* of SlidingWindow would, up to MaxSkew at the far end of the window: no
\* early admission, no late refusal, and a capacity refusal only for a host
\* that has nothing in its window.
ImplementsSlidingWindow == Window!Spec

\* Maintenance reclaims idle buckets: a bucket whose stamps can all expire
\* before the clock stops is dropped, or gets a new admission, or the mutex
\* is poisoned.  A full table is therefore never full for ever.
IdleBucketReclaimed ==
  \A ip \in Ips :
    LET Idle == /\ ip \in DOMAIN map
                /\ \A k \in DOMAIN map[ip] : map[ip][k] <= MaxClock - WINDOW
    IN  Idle ~> (poisoned \/ ~Idle)

=============================================================================
