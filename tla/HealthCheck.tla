---------------------------- MODULE HealthCheck ----------------------------
(***************************************************************************)
(* The health check (src/main.rs: healthcheck) against the management      *)
(* endpoint (src/metrics.rs: serve, handle): a probe asks /readyz, reads   *)
(* to the end of the connection and succeeds on status 200 alone.  Some    *)
(* clients of module Management are probes here; the readiness they ask    *)
(* for is set and reset by the other tasks of the sensor at any time, also *)
(* between the two reads handle makes.                                     *)
(***************************************************************************)
EXTENDS Management

CONSTANT Probes  \* the clients that are health checks

ASSUME ProbesAssumption == Probes \subseteq Clients

VARIABLES
  ready,    \* the gauge ready
  started,  \* the server has set it, which it does once
  writer,   \* the log writer: up, unready (it has reset ready), failed
  reply,    \* probe -> how far handle is with its request
  probe,    \* probe -> the health check
  seen      \* (history) the sensor was ready during the client's probe

health == <<ready, started, writer, reply, probe, seen>>

allVars == <<vars, health>>

logger_errors_total == IF writer = "failed" THEN 1 ELSE 0

Ready == ready = 1 /\ logger_errors_total = 0

Waiting(c) == probe[c] = "waiting"

\* History: what a step does to seen.
Watch == seen' = [c \in Probes |-> probe'[c] = "waiting" /\ ((Waiting(c) /\ seen[c]) \/ Ready')]

HealthInit ==
  /\ Init
  /\ ready = 0 /\ started = FALSE /\ writer = "up"
  /\ reply = [c \in Probes |-> "none"]
  /\ probe = [c \in Probes |-> "idle"]
  /\ seen = [c \in Probes |-> FALSE]

-----------------------------------------------------------------------------
(* The tasks that own the gauge (modules Sensor and Logger)                *)

\* server.rs run: the gauge is set once, whatever the writer did before.
SetReady ==
  /\ ~started
  /\ started' = TRUE /\ ready' = 1
  /\ UNCHANGED writer

\* main.rs run, after the token is cancelled.
ResetReady ==
  /\ token
  /\ ready' = 0
  /\ UNCHANGED <<started, writer>>

\* logger.rs run_writer: the gauge first, then the counter.
WriterResets ==
  /\ writer = "up"
  /\ writer' = "unready" /\ ready' = 0
  /\ UNCHANGED started

WriterFails ==
  /\ writer = "unready"
  /\ writer' = "failed"
  /\ UNCHANGED <<ready, started>>

Environment ==
  /\ SetReady \/ ResetReady \/ WriterResets \/ WriterFails
  /\ UNCHANGED <<vars, reply, probe>>

-----------------------------------------------------------------------------
(* handle, of GET /readyz                                                  *)

ToReply(c, answer) == reply' = [reply EXCEPT ![c] = answer]

\* (mutant) the counter is read before the gauge
Handle_swapped(c) ==
  /\ conn[c] = "serving"
  /\ \/ reply[c] = "none" /\ ToReply(c, IF logger_errors_total = 0 THEN "half" ELSE "503")
     \/ reply[c] = "half" /\ ToReply(c, IF ready = 1 THEN "200" ELSE "503")

\* The gauge is read, and only if it is 1 the counter.
Handle(c) ==
  /\ conn[c] = "serving"
  /\ \/ reply[c] = "none" /\ ToReply(c, IF ready = 1 THEN "half" ELSE "503")
     \/ reply[c] = "half" /\ ToReply(c, IF logger_errors_total = 0 THEN "200" ELSE "503")

-----------------------------------------------------------------------------
(* healthcheck                                                             *)

Closed(c) == conn[c] \in {"idle", "done", "panicked"}

\* The whole response was read: the server closes after it.
Healthy(c) ==
  /\ Waiting(c) /\ Closed(c)
  /\ reply[c] = "200"
  /\ probe' = [probe EXCEPT ![c] = "healthy"]

\* Another status, no response or a broken one, or the deadline of the probe.
Unhealthy(c) ==
  /\ Waiting(c)
  /\ probe' = [probe EXCEPT ![c] = "unhealthy"]

\* A step of the endpoint.  Connect begins a probe: its client waits for the
\* verdict of the last one first.
Endpoint ==
  /\ Next
  /\ LET Connected == {c \in Probes : conn[c] = "idle" /\ conn'[c] = "backlog"} IN
     /\ \A c \in Connected : ~Waiting(c)
     /\ reply' = [c \in Probes |-> IF c \in Connected THEN "none" ELSE reply[c]]
     /\ probe' = [c \in Probes |-> IF c \in Connected THEN "waiting" ELSE probe[c]]
  /\ UNCHANGED <<ready, started, writer>>
  /\ Watch

HealthNext ==
  \/ Endpoint
  \/ Environment /\ Watch
  \/ \E c \in Probes :
       Handle(c) /\ UNCHANGED <<vars, ready, started, writer, probe>> /\ Watch
  \/ \E c \in Probes :
       /\ Healthy(c) \/ Unhealthy(c)
       /\ UNCHANGED <<vars, ready, started, writer, reply>> /\ Watch

\* The fairness is the endpoint's: nothing is assumed of a probe.
HealthSpec == HealthInit /\ [][HealthNext]_allVars /\ Fairness

-----------------------------------------------------------------------------
(* Properties                                                              *)

\* A successful health check is true: at some moment between its connection
\* and its verdict the sensor was ready, the gauge set and no writer error
\* counted, although handle reads the two one after the other and the server
\* may set the gauge after the writer failed (metrics.rs handle).
HealthTruthful ==
  [][\A c \in Probes : probe[c] # "healthy" /\ probe'[c] = "healthy" => seen[c]]_allVars

=============================================================================
