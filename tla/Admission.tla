----------------------------- MODULE Admission -----------------------------
(***************************************************************************)
(* How an endpoint places a connection (src/server.rs: run_endpoint): the  *)
(* exclusion list, the rate limiter (module RateLimiter, every step of it) *)
(* and the session permits, in this order; the counters of each way out;   *)
(* and the sessions themselves, as far as they hold a permit and are       *)
(* counted (handle_session).  An endpoint owns its sessions: when its task *)
(* panics or is aborted, they are aborted with it.  Sensor models how all  *)
(* of this stops.                                                          *)
(***************************************************************************)
EXTENDS RateLimiter, FiniteSetsExt

CONSTANTS ignore_source_ips,  \* the exclusion list, as configured
          max_sessions,       \* permits of the session semaphore
          MaxAccepts          \* bound on accepted connections, for TLC

ASSUME AdmissionAssumption ==
  /\ ignore_source_ips \subseteq Peers
  /\ max_sessions \in Nat \ {0}
  /\ MaxAccepts \in Nat
  /\ IsFiniteSet(Endpoints) /\ IsFiniteSet(Peers)

VARIABLES
  dropped,   \* endpoints whose task is gone, its JoinSet of sessions with it
  \* places
  allowed,   \* the host an endpoint is about to place, else NoPeer
  rejected,  \* rejected_total, by reason
  accepts,   \* history: connections accepted, by host
  placed,    \* history: sessions spawned, by host
  crowded,   \* history: refusals for want of a permit, by host
  \* sessions, by the endpoint they belong to
  permits,   \* free permits, of all endpoints
  spawned,   \* session tasks that were not polled yet
  active,    \* metrics.active_sessions
  closing,   \* of these, the ones that have counted their end
  leaving,   \* sessions that are inactive and hold their permit still
  started,   \* connections_total
  closed,    \* closed_sessions_total
  panics,    \* history: sessions that panicked before they counted their end
  unpolled,  \* history: sessions aborted before they were first polled
  aborted    \* history: sessions aborted while they were active

placeVars == <<allowed, rejected, accepts, placed, crowded>>
sessionVars ==
  <<permits, spawned, active, closing, leaving, started, closed, panics, unpolled, aborted>>
admissionVars == <<vars, dropped, placeVars, sessionVars>>

Reasons == {"ignored_ip", "RateLimit", "Capacity", "Unavailable", "max_sessions"}

None == [h \in Hosts |-> 0]
NoSession == [e \in Endpoints |-> 0]

AdmissionInit ==
  /\ Init
  /\ dropped = {}
  /\ allowed = [e \in Endpoints |-> NoPeer]
  /\ rejected = [r \in Reasons |-> 0]
  /\ accepts = None /\ placed = None /\ crowded = None
  /\ permits = max_sessions
  /\ spawned = NoSession /\ active = NoSession /\ closing = NoSession /\ leaving = NoSession
  /\ started = NoSession /\ closed = NoSession /\ panics = NoSession
  /\ unpolled = NoSession /\ aborted = NoSession

Total(count) == MapThenSumSet(LAMBDA x : count[x], DOMAIN count)

One(count, x) == [count EXCEPT ![x] = @ + 1]
Less(count, x) == [count EXCEPT ![x] = @ - 1]

-----------------------------------------------------------------------------
(* run_endpoint                                                            *)

\* (mutant) the list is searched for the peer as it is spelled
is_ignored_raw(ip) == ip \in ignore_source_ips

\* AppState::new canonicalises the list, run_endpoint the peer.
is_ignored(ip) == canonical_ip(ip) \in {canonical_ip(i) : i \in ignore_source_ips}

reject(reason) == rejected' = One(rejected, reason)

\* An accepted connection is dropped at once if its peer is on the list.
accept(e, ip) ==
  /\ e \notin dropped /\ pc[e] = "idle" /\ allowed[e] = NoPeer
  /\ Total(accepts) < MaxAccepts
  /\ accepts' = One(accepts, ip.host)
  /\ \/ is_ignored(ip) /\ reject("ignored_ip") /\ UNCHANGED vars
     \/ ~is_ignored(ip) /\ check(e, ip) /\ UNCHANGED rejected
  /\ UNCHANGED <<dropped, sessionVars, allowed, placed, crowded>>

\* The limiter's decision: a refusal ends here.
decide(e) ==
  /\ check_at(e)
  /\ \/ /\ verdict'[e] = "Allowed"
        /\ allowed' = [allowed EXCEPT ![e] = peer[e]]
        /\ UNCHANGED rejected
     \/ /\ verdict'[e] # "Allowed"
        /\ reject(verdict'[e])
        /\ UNCHANGED allowed
  /\ UNCHANGED <<dropped, sessionVars, accepts, placed, crowded>>

\* try_acquire_owned: the slot the limiter has given is not taken back.
try_acquire(e) ==
  /\ allowed[e] # NoPeer
  /\ allowed' = [allowed EXCEPT ![e] = NoPeer]
  /\ \/ /\ permits > 0
        /\ permits' = permits - 1
        /\ spawned' = One(spawned, e)
        /\ placed' = One(placed, allowed[e].host)
        /\ UNCHANGED <<rejected, crowded>>
     \/ /\ permits = 0
        /\ reject("max_sessions")
        /\ crowded' = One(crowded, allowed[e].host)
        /\ UNCHANGED <<permits, spawned, placed>>
  /\ UNCHANGED <<vars, dropped, accepts>>
  /\ UNCHANGED <<active, closing, leaving, started, closed, panics, unpolled, aborted>>

\* The task panics inside the limiter and poisons its mutex.
EndpointPanics(e) ==
  /\ Poison(e)
  /\ dropped' = dropped \cup {e}
  /\ UNCHANGED <<placeVars, sessionVars>>

\* main gives up on the server after the grace and aborts it, the server's
\* JoinSet its endpoints: they go where they wait, between two connections.
EndpointAborted(e) ==
  /\ e \notin dropped /\ pc[e] = "idle" /\ allowed[e] = NoPeer
  /\ dropped' = dropped \cup {e}
  /\ UNCHANGED <<vars, placeVars, sessionVars>>

-----------------------------------------------------------------------------
(* handle_session.  An aborted task that another thread is polling runs on *)
(* to its next await, so that the death of the endpoint stops no step.     *)

SessionStarts(e) ==
  /\ spawned[e] > 0
  /\ spawned' = Less(spawned, e)
  /\ started' = One(started, e)
  /\ active' = One(active, e)
  /\ UNCHANGED <<vars, dropped, placeVars>>
  /\ UNCHANGED <<permits, closing, leaving, closed, panics, unpolled, aborted>>

\* The session is over, for whatever reason; its record is not made yet.
SessionCloses(e) ==
  /\ active[e] > closing[e]
  /\ closed' = One(closed, e)
  /\ closing' = One(closing, e)
  /\ UNCHANGED <<vars, dropped, placeVars>>
  /\ UNCHANGED <<permits, spawned, active, leaving, started, panics, unpolled, aborted>>

\* The guard is dropped: at the end, or by a panic before it or after it.
SessionEnds(e) ==
  /\ \/ closing[e] > 0 /\ closing' = Less(closing, e) /\ UNCHANGED panics
     \/ active[e] > closing[e] /\ panics' = One(panics, e) /\ UNCHANGED closing
  /\ active' = Less(active, e)
  /\ leaving' = One(leaving, e)
  /\ UNCHANGED <<vars, dropped, placeVars>>
  /\ UNCHANGED <<permits, spawned, started, closed, unpolled, aborted>>

\* (mutant) the permit is forgotten, and given back by the session's own code
SessionDropped_forgets(e) ==
  /\ e \in dropped
  /\ \/ /\ spawned[e] > 0
        /\ spawned' = Less(spawned, e) /\ unpolled' = One(unpolled, e)
        /\ UNCHANGED <<active, aborted, leaving>>
     \/ /\ active[e] > closing[e]
        /\ active' = Less(active, e) /\ aborted' = One(aborted, e)
        /\ leaving' = One(leaving, e)
        /\ UNCHANGED <<spawned, unpolled>>
  /\ UNCHANGED <<vars, dropped, placeVars, permits, closing, started, closed, panics>>

\* The endpoint's JoinSet aborts its sessions: one that was never polled is
\* dropped with its permit and nothing else, one that waits inside
\* protocols::handle drops its guard; after the close there is no await.
SessionDropped(e) ==
  /\ e \in dropped
  /\ \/ /\ spawned[e] > 0
        /\ spawned' = Less(spawned, e) /\ unpolled' = One(unpolled, e)
        /\ UNCHANGED <<active, aborted>>
     \/ /\ active[e] > closing[e]
        /\ active' = Less(active, e) /\ aborted' = One(aborted, e)
        /\ UNCHANGED <<spawned, unpolled>>
  /\ leaving' = One(leaving, e)
  /\ UNCHANGED <<vars, dropped, placeVars, permits, closing, started, closed, panics>>

\* And after the guard, or without one, the permit.
PermitDropped(e) ==
  /\ leaving[e] > 0
  /\ leaving' = Less(leaving, e)
  /\ permits' = permits + 1
  /\ UNCHANGED <<vars, dropped, placeVars>>
  /\ UNCHANGED <<spawned, active, closing, started, closed, panics, unpolled, aborted>>

-----------------------------------------------------------------------------

LimiterAlone == Tick \/ evict_idle \/ evict_at \/ tracked_ips

EndpointStep(e) ==
  \/ \E ip \in Peers : accept(e, ip)
  \/ decide(e)
  \/ try_acquire(e)
  \/ EndpointPanics(e)
  \/ EndpointAborted(e)

SessionStep(e) ==
  \/ SessionStarts(e)
  \/ SessionCloses(e)
  \/ SessionEnds(e)
  \/ SessionDropped(e)
  \/ PermitDropped(e)

AdmissionNext ==
  \/ \E e \in Endpoints : EndpointStep(e) \/ SessionStep(e)
  \/ LimiterAlone /\ UNCHANGED <<dropped, placeVars, sessionVars>>

\* Fairness of the limiter's callers, as in RateLimiter: the maintenance
\* worker ticks until the sensor stops.
AdmissionFairness ==
  LET Alone(A) == A /\ UNCHANGED <<dropped, placeVars, sessionVars>> IN
  /\ WF_admissionVars(Alone(Tick))
  /\ WF_admissionVars(Alone(evict_idle))
  /\ WF_admissionVars(Alone(evict_at))
  /\ WF_admissionVars(Alone(tracked_ips))
  /\ \A e \in Endpoints : WF_admissionVars(decide(e))

AdmissionSpec ==
  AdmissionInit /\ [][AdmissionNext]_admissionVars /\ AdmissionFairness

-----------------------------------------------------------------------------
(* Properties                                                              *)

\* A host on the exclusion list, in either of its spellings, gets no bucket
\* in the limiter's table, no slot of any window and no session, whichever
\* spelling it connects with; and nobody else is refused for the list.
IgnoredNeverAdmitted ==
  LET ignored == {i.host : i \in ignore_source_ips} IN
  /\ \A h \in ignored : admitted[h] = <<>> /\ placed[h] = 0
  /\ \A ip \in DOMAIN map : ip.host \notin ignored
  /\ rejected["ignored_ip"] = Total([h \in ignored |-> accepts[h]])

InHand(e) == pc[e] \in {"check", "dead"} \/ allowed[e] # NoPeer

\* The counters add up across endpoints and sessions, also over the death of
\* an endpoint.  Each accepted connection is counted as refused, for exactly
\* one reason, or is placed, or is in the hands of an endpoint.  A placed one
\* is counted in connections_total once its session is polled, and only an
\* endpoint that died may have lost it before that; a session that began is
\* active, has counted its end, has panicked, or was aborted with its
\* endpoint, and no endpoint that lives has lost one.  However a session
\* ends, its permit comes back: free permits, sessions that did not begin,
\* that are active and that are on their way out make up max_sessions.
EveryConnectionCounted ==
  /\ Total(accepts) =
       Total(rejected) + Total(placed) + Cardinality({e \in Endpoints : InHand(e)})
  /\ Total(placed) = Total(spawned) + Total(started) + Total(unpolled)
  /\ \A e \in Endpoints :
       /\ started[e] = (active[e] - closing[e]) + closed[e] + panics[e] + aborted[e]
       /\ e \notin dropped => unpolled[e] + aborted[e] = 0
  /\ permits + Total(spawned) + Total(active) + Total(leaving) = max_sessions

\* The limiter's slot is spent before the permit is tried (server.rs:219):
\* the slots a host has used are its sessions and its refusals for want of a
\* permit, no more, so that a crowded sensor can use up the slots of a host
\* that never got a session, and a refusal by the limiter costs nothing.
SlotPerAttempt ==
  limit > 0 =>
    \A h \in Hosts :
      Len(admitted[h]) =
        placed[h] + crowded[h]
          + Cardinality({e \in Endpoints : allowed[e] # NoPeer /\ allowed[e].host = h})

=============================================================================
