-------------------------- MODULE ManagementProofs --------------------------
(***************************************************************************)
(* Proofs about Management and HealthCheck for every set of clients and    *)
(* probes and every connection cap.                                        *)
(***************************************************************************)
EXTENDS HealthCheck, FiniteSetTheorems, TLAPS

Serving == In({"serving"})

\* Once serve has left its loop, everybody was told.
ToldBeforeDrain == server \in {"drain", "ok", "err"} => token

\* A failure is known to serve, or a panicked task waits to be joined.
Heard == trouble <=> failure \/ \E c \in Clients : conn[c] = "panicked"

\* The inductive invariant of the endpoint.
IInv == TypeOK /\ CapHolds /\ ToldBeforeDrain /\ Heard /\ EndsAsPromised

-----------------------------------------------------------------------------
(* Sets of clients                                                         *)

\* Every set of clients can be counted.
LEMMA ClientsFinite ==
  ASSUME NEW S \in SUBSET Clients
  PROVE  IsFiniteSet(S) /\ Cardinality(S) \in Nat
BY ManagementAssumption, FS_Subset, FS_CardinalityType

\* The sets the cap speaks of are sets of clients.
LEMMA SetsOfClients ==
  /\ Serving \in SUBSET Clients /\ Serving' \in SUBSET Clients
  /\ Tasks \in SUBSET Clients /\ Tasks' \in SUBSET Clients
BY DEF Serving, Tasks, Finished, In

\* The cap survives a step that adds no task, and one that adds a task
\* below the cap.
LEMMA CapKept ==
  ASSUME CapHolds,
         \/ Tasks' \subseteq Tasks
         \/ ~AtCapacity /\ \E c \in Clients : Tasks' = Tasks \cup {c}
  PROVE  CapHolds'
<1>1. IsFiniteSet(Tasks) /\ Cardinality(Tasks) \in Nat
  BY SetsOfClients, ClientsFinite
<1>2. max_connections \in Nat
  BY ManagementAssumption
<1>3. CASE Tasks' \subseteq Tasks
  <2>1. Cardinality(Tasks') <= Cardinality(Tasks) /\ Cardinality(Tasks') \in Nat
    BY <1>1, <1>3, FS_Subset, SetsOfClients, ClientsFinite
  <2> QED
    BY <1>1, <1>2, <2>1 DEF CapHolds
<1>4. CASE ~AtCapacity /\ \E c \in Clients : Tasks' = Tasks \cup {c}
  <2>1. PICK c \in Clients : Tasks' = Tasks \cup {c}
    BY <1>4
  <2>2. Cardinality(Tasks') <= Cardinality(Tasks) + 1
    BY <1>1, <2>1, FS_AddElement
  <2>3. Cardinality(Tasks') \in Nat
    BY SetsOfClients, ClientsFinite
  <2> QED
    BY <1>1, <1>2, <1>4, <2>2, <2>3 DEF CapHolds, AtCapacity
<1> QED
  BY <1>3, <1>4

-----------------------------------------------------------------------------
(* The endpoint's invariant                                                *)

\* The invariant holds when the endpoint starts.
LEMMA InitInv == Init => IInv
<1> SUFFICES ASSUME Init PROVE IInv
  OBVIOUS
<1>1. Serving = {} /\ Tasks = {}
  BY DEF Init, Serving, Tasks, Finished, In
<1>2. TypeOK
  BY <1>1, FS_EmptySet DEF Init, TypeOK, Serving
<1>3. CapHolds
  BY <1>1, FS_EmptySet, ManagementAssumption DEF CapHolds
<1> QED
  BY <1>2, <1>3 DEF Init, IInv, ToldBeforeDrain, Heard, EndsAsPromised, Ended

\* A task begins: the guard counts it.
LEMMA BeginInv ==
  ASSUME IInv, NEW c \in Clients, Begin(c)
  PROVE  IInv'
<1>1. Tasks' = Tasks
  BY DEF IInv, TypeOK, Begin, MoveTo, Tasks, Finished, In
<1>2. Serving' = Serving \cup {c} /\ c \notin Serving
  BY DEF IInv, TypeOK, Begin, MoveTo, Serving, In
<1>3. active' = Cardinality(Serving')
  BY <1>2, SetsOfClients, ClientsFinite, FS_AddElement
     DEF IInv, TypeOK, Begin, Serving
<1>4. TypeOK'
  BY <1>3 DEF IInv, TypeOK, Begin, MoveTo, Serving
<1>5. CapHolds'
  BY <1>1, CapKept DEF IInv
<1>6. c \in Tasks
  BY DEF Begin, Tasks, In
<1>7. Heard'
  BY DEF IInv, TypeOK, Heard, Begin, MoveTo
<1> QED
  BY <1>4, <1>5, <1>6, <1>7 DEF IInv, Begin, ToldBeforeDrain, EndsAsPromised, Ended

\* A task ends or panics: the guard is dropped, the task not joined yet.
LEMMA LeaveInv ==
  ASSUME IInv, NEW c \in Clients, End(c) \/ Panic(c)
  PROVE  IInv'
<1>1. PICK place \in {"done", "panicked"} : Leave(c, place)
  BY DEF End, Panic
<1>2. Tasks' = Tasks
  BY <1>1 DEF IInv, TypeOK, Leave, MoveTo, Tasks, Finished, In
<1>3. Serving' = Serving \ {c} /\ c \in Serving
  BY <1>1 DEF IInv, TypeOK, Leave, MoveTo, Serving, In
<1>4. active' = Cardinality(Serving')
  BY <1>1, <1>3, SetsOfClients, ClientsFinite, FS_RemoveElement
     DEF IInv, TypeOK, Leave, Serving
<1>5. TypeOK'
  BY <1>1, <1>4 DEF IInv, TypeOK, End, Panic, Leave, MoveTo, Serving
<1>6. CapHolds'
  BY <1>2, CapKept DEF IInv
<1>7. c \in Tasks
  BY <1>1 DEF Leave, Tasks, In
<1>8. Heard' /\ UNCHANGED <<server, token, failure>>
  BY DEF IInv, TypeOK, Heard, End, Panic, Leave, MoveTo
<1> QED
  BY <1>5, <1>6, <1>7, <1>8 DEF IInv, ToldBeforeDrain, EndsAsPromised, Ended

\* Any other step: nobody begins or stops being served.
Quiet ==
  /\ conn' \in [Clients -> {"idle", "backlog", "spawned", "serving", "done", "panicked"}]
  /\ \A c \in Clients : conn[c] = "serving" <=> conn'[c] = "serving"
  /\ active' = active

\* Types are kept by a step that moves the server alone.
LEMMA QuietTypes ==
  ASSUME IInv, Quiet,
         server' \in {"token", "join", "accept", "wait", "drain", "ok", "err"},
         token' \in BOOLEAN, failure' \in BOOLEAN, trouble' \in BOOLEAN
  PROVE  TypeOK'
<1>1. Serving' = Serving
  BY DEF Quiet, Serving, In
<1> QED
  BY <1>1 DEF IInv, TypeOK, Quiet, Serving

\* Clients connect only while the listener is there, and never make a task.
LEMMA OutsideInv ==
  ASSUME IInv, Shutdown \/ \E c \in Clients : Connect(c)
  PROVE  IInv'
<1>1. Quiet
  BY DEF IInv, TypeOK, Shutdown, Connect, MoveTo, Quiet
<1>2. Tasks' = Tasks
  BY DEF IInv, TypeOK, Shutdown, Connect, MoveTo, Tasks, Finished, In
<1>3. TypeOK'
  BY <1>1, QuietTypes DEF IInv, TypeOK, Shutdown, Connect
<1>4. CapHolds'
  BY <1>2, CapKept DEF IInv
<1>5. Heard'
  BY DEF IInv, TypeOK, Heard, Shutdown, Connect, MoveTo
<1> QED
  BY <1>2, <1>3, <1>4, <1>5
     DEF IInv, Shutdown, Connect, ToldBeforeDrain, EndsAsPromised, Ended

\* The loop up to its break.
LEMMA LoopInv ==
  ASSUME IInv, PollToken \/ PollJoin \/ Wake \/ AcceptFails \/ DrainOne
  PROVE  IInv'
<1>1. Quiet
  BY DEF IInv, TypeOK, PollToken, PollJoin, Joinable, JoinDone, JoinFailed, Wake,
         AcceptFails, DrainOne, Break, MoveTo, Finished, In, Quiet
<1>2. Tasks' \subseteq Tasks
  BY DEF IInv, TypeOK, PollToken, PollJoin, Joinable, JoinDone, JoinFailed, Wake,
         AcceptFails, DrainOne, Break, MoveTo, Tasks, Finished, In
<1>3. /\ server' \in {"token", "join", "accept", "wait", "drain"}
      /\ token' \in BOOLEAN /\ failure' \in BOOLEAN /\ trouble' \in BOOLEAN
      /\ server' = "drain" => token'
  BY DEF IInv, TypeOK, ToldBeforeDrain, PollToken, PollJoin, Joinable, JoinDone,
         JoinFailed, Wake, AcceptFails, DrainOne, Break
<1>4. TypeOK'
  BY <1>1, <1>3, QuietTypes
<1>5. CapHolds'
  BY <1>2, CapKept DEF IInv
<1>6. Heard'
  <2>1. CASE PollToken \/ Wake \/ AcceptFails
    BY <2>1 DEF IInv, TypeOK, Heard, PollToken, Wake, AcceptFails, Break
  <2>2. CASE PollJoin
    BY <2>2 DEF IInv, TypeOK, Heard, PollJoin, Joinable, JoinDone, JoinFailed, MoveTo,
                Finished, In
  <2>3. CASE DrainOne
    BY <2>3 DEF IInv, TypeOK, Heard, DrainOne, MoveTo, Finished, In
  <2> QED
    BY <2>1, <2>2, <2>3
<1> QED
  BY <1>3, <1>4, <1>5, <1>6 DEF IInv, ToldBeforeDrain, EndsAsPromised, Ended

\* A connection is accepted below the cap, or dropped.
LEMMA AcceptInv ==
  ASSUME IInv, PollAccept
  PROVE  IInv'
<1>1. Quiet
  BY DEF IInv, TypeOK, PollAccept, MoveTo, In, Quiet
<1>2. \/ Tasks' \subseteq Tasks
      \/ ~AtCapacity /\ \E c \in Clients : Tasks' = Tasks \cup {c}
  <2>1. CASE In({"backlog"}) = {}
    BY <2>1 DEF PollAccept, Tasks, Finished, In
  <2>2. CASE In({"backlog"}) # {}
    <3>1. PICK c \in Clients :
            conn[c] = "backlog" /\ MoveTo(c, IF AtCapacity THEN "idle" ELSE "spawned")
      BY <2>2 DEF PollAccept, In
    <3>2. CASE AtCapacity
      <4>1. Tasks' = Tasks
        BY <3>1, <3>2 DEF IInv, TypeOK, MoveTo, Tasks, Finished, In
      <4> QED
        BY <4>1
    <3>3. CASE ~AtCapacity
      <4>1. conn' = [conn EXCEPT ![c] = "spawned"]
        BY <3>1, <3>3 DEF MoveTo
      <4>2. Tasks' = Tasks \cup {c}
        BY <3>1, <4>1 DEF IInv, TypeOK, Tasks, Finished, In
      <4> QED
        BY <3>3, <4>2
    <3> QED
      BY <3>2, <3>3
  <2> QED
    BY <2>1, <2>2
<1>3. /\ server' \in {"token", "wait"}
      /\ token' = token /\ failure' = failure /\ trouble' = trouble
  BY DEF PollAccept
<1>4. TypeOK'
  BY <1>1, <1>3, QuietTypes DEF IInv, TypeOK
<1>5. CapHolds'
  BY <1>2, CapKept DEF IInv
<1>6. Heard'
  BY DEF IInv, TypeOK, Heard, PollAccept, MoveTo, In
<1> QED
  BY <1>3, <1>4, <1>5, <1>6 DEF IInv, ToldBeforeDrain, EndsAsPromised, Ended

\* serve returns when every task is joined.
LEMMA DrainedInv ==
  ASSUME IInv, Drained
  PROVE  IInv'
<1>1. Tasks = {} /\ Tasks' = Tasks
  BY DEF Drained, AllJoined, Tasks, Finished, In
<1>2. Quiet
  BY DEF IInv, TypeOK, Drained, Quiet
<1>3. TypeOK'
  BY <1>2, QuietTypes DEF IInv, TypeOK, Drained
<1>4. CapHolds'
  BY <1>1, CapKept DEF IInv
<1>5. active' = 0
  <2>1. Serving' = {}
    BY <1>1 DEF Serving, Tasks, In
  <2> QED
    BY <1>3, <2>1, FS_EmptySet DEF TypeOK, Serving
<1>6. token /\ token' = token /\ failure' = failure /\ server' = IF failure THEN "err" ELSE "ok"
  BY DEF IInv, ToldBeforeDrain, Drained
<1>7. trouble <=> failure
  BY <1>1 DEF IInv, Heard, Tasks, Finished, In
<1>8. Heard' /\ EndsAsPromised'
  <2>1. conn' = conn /\ trouble' = trouble
    BY DEF Drained
  <2> QED
    BY <1>1, <1>5, <1>6, <1>7, <2>1 DEF IInv, Heard, EndsAsPromised, Ended
<1> QED
  BY <1>3, <1>4, <1>6, <1>8 DEF IInv, ToldBeforeDrain

\* The invariant is kept when nothing changes.
LEMMA StutterInv ==
  ASSUME IInv, UNCHANGED vars
  PROVE  IInv'
BY DEF vars, IInv, TypeOK, CapHolds, ToldBeforeDrain, Heard, EndsAsPromised, Ended, AtCapacity,
       Tasks, Finished, In

\* The invariant is kept by every step.
LEMMA NextInv ==
  ASSUME IInv, [Next]_vars
  PROVE  IInv'
<1>1. CASE \E c \in Clients : Begin(c)
  BY <1>1, BeginInv
<1>2. CASE \E c \in Clients : End(c) \/ Panic(c)
  BY <1>2, LeaveInv
<1>3. CASE Shutdown \/ \E c \in Clients : Connect(c)
  BY <1>3, OutsideInv
<1>4. CASE PollToken \/ PollJoin \/ Wake \/ AcceptFails \/ DrainOne
  BY <1>4, LoopInv
<1>5. CASE PollAccept
  BY <1>5, AcceptInv
<1>6. CASE Drained
  BY <1>6, DrainedInv
<1>7. CASE Rest \/ UNCHANGED vars
  BY <1>7, StutterInv DEF Rest
<1> QED
  BY <1>1, <1>2, <1>3, <1>4, <1>5, <1>6, <1>7 DEF Next, Serve

\* The endpoint's invariant holds with probes among the clients.
THEOREM ManagementInvariant == HealthSpec => []IInv
<1>1. HealthInit => IInv
  BY InitInv DEF HealthInit
<1>2. IInv /\ [HealthNext]_allVars => IInv'
  <2>1. [HealthNext]_allVars => [Next]_vars
    BY DEF HealthNext, Endpoint, Environment, allVars
  <2> QED
    BY <2>1, NextInv
<1> QED
  BY <1>1, <1>2, PTL DEF HealthSpec

\* Type correctness, and the gauge counts the tasks being served, through
\* panics, deadlines and cancellation (metrics.rs ActiveGuard).
THEOREM ManagementTypeCorrect == HealthSpec => []TypeOK
BY ManagementInvariant, PTL DEF IInv

\* However many clients there are, at most max_connections tasks exist.
THEOREM ManagementCapHolds == HealthSpec => []CapHolds
BY ManagementInvariant, PTL DEF IInv

\* serve returns only after everybody was told and every task was joined.
THEOREM ManagementEndsAsPromised == HealthSpec => []EndsAsPromised
BY ManagementInvariant, PTL DEF IInv

-----------------------------------------------------------------------------
(* The health check                                                        *)

\* A probe whose request got past the gauge while the writer lives, or was
\* answered 200, has seen the sensor ready.
ReplySeen ==
  \A c \in Probes :
    Waiting(c) /\ (reply[c] = "200" \/ (reply[c] = "half" /\ writer # "failed")) => seen[c]

HealthTypeOK ==
  /\ ready \in {0, 1}
  /\ writer \in {"up", "unready", "failed"}
  /\ reply \in [Probes -> {"none", "half", "200", "503"}]
  /\ probe \in [Probes -> {"idle", "waiting", "healthy", "unhealthy"}]
  /\ seen \in [Probes -> BOOLEAN]

HInv == HealthTypeOK /\ ReplySeen

\* What Watch does to a probe that goes on waiting.
LEMMA WatchKeeps ==
  ASSUME Watch, NEW c \in Probes, probe'[c] = "waiting"
  PROVE  /\ Waiting(c) /\ seen[c] => seen'[c]
         /\ Ready' => seen'[c]
BY DEF Watch

\* The watch of the probes keeps its type.
LEMMA WatchType ==
  ASSUME Watch
  PROVE  seen' \in [Probes -> BOOLEAN]
<1>1. \A c \in Probes :
        (probe'[c] = "waiting" /\ ((Waiting(c) /\ seen[c]) \/ Ready')) \in BOOLEAN
  OBVIOUS
<1> QED
  BY <1>1 DEF Watch

\* The answers of the endpoint keep the invariant of the probes.
LEMMA HealthEndpointInv ==
  ASSUME HInv, Endpoint
  PROVE  HInv'
<1>1. HealthTypeOK'
  BY WatchType DEF HInv, HealthTypeOK, Endpoint
<1>2. ReplySeen'
  <2> SUFFICES ASSUME NEW c \in Probes, Waiting(c)',
                      \/ reply'[c] = "200"
                      \/ reply'[c] = "half" /\ writer' # "failed"
               PROVE  seen'[c]
    BY DEF ReplySeen
  <2>1. reply'[c] = reply[c] /\ probe'[c] = probe[c]
    BY DEF Endpoint
  <2>2. Waiting(c) /\ seen[c]
    BY <2>1 DEF HInv, ReplySeen, Waiting, Endpoint
  <2> QED
    BY <2>2, WatchKeeps DEF Endpoint, Waiting
<1> QED
  BY <1>1, <1>2 DEF HInv

\* The gauge and the writer change: an answer that is half given stays true,
\* or becomes a refusal, for the counter never goes back.
LEMMA EnvironmentInv ==
  ASSUME HInv, Environment, Watch
  PROVE  HInv'
<1>1. reply' = reply /\ probe' = probe /\ (writer = "failed" => writer' = "failed")
  BY DEF Environment, SetReady, ResetReady, WriterResets, WriterFails
<1>2. HealthTypeOK'
  BY WatchType DEF HInv, HealthTypeOK, Environment, SetReady, ResetReady, WriterResets, WriterFails
<1>3. ReplySeen'
  <2> SUFFICES ASSUME NEW c \in Probes, Waiting(c)',
                      \/ reply'[c] = "200"
                      \/ reply'[c] = "half" /\ writer' # "failed"
               PROVE  seen'[c]
    BY DEF ReplySeen
  <2>1. Waiting(c) /\ seen[c]
    BY <1>1 DEF HInv, ReplySeen, Waiting
  <2> QED
    BY <2>1, WatchKeeps DEF Waiting
<1> QED
  BY <1>2, <1>3 DEF HInv

\* handle reads the gauge, and then the counter.
LEMMA HandleInv ==
  ASSUME HInv, NEW p \in Probes, Handle(p), Watch,
         UNCHANGED <<ready, started, writer, probe>>
  PROVE  HInv'
<1>1. HealthTypeOK'
  BY WatchType DEF HInv, HealthTypeOK, Handle, ToReply
<1>2. ReplySeen'
  <2> SUFFICES ASSUME NEW c \in Probes, Waiting(c)',
                      \/ reply'[c] = "200"
                      \/ reply'[c] = "half" /\ writer' # "failed"
               PROVE  seen'[c]
    BY DEF ReplySeen
  <2>1. Waiting(c) /\ probe'[c] = "waiting"
    BY DEF Waiting
  <2>2. CASE seen[c]
    BY <2>1, <2>2, WatchKeeps
  <2>3. CASE ~seen[c]
    <3>1. c = p /\ reply[c] = "none" /\ reply'[c] = "half" /\ ready = 1
      BY <2>1, <2>3 DEF HInv, HealthTypeOK, ReplySeen, Handle, ToReply, logger_errors_total
    <3>2. Ready'
      BY <3>1 DEF Ready, logger_errors_total
    <3> QED
      BY <2>1, <3>2, WatchKeeps
  <2> QED
    BY <2>2, <2>3
<1> QED
  BY <1>1, <1>2 DEF HInv

\* A probe that has come to its verdict keeps the invariant.
LEMMA VerdictInv ==
  ASSUME HInv, NEW p \in Probes, Healthy(p) \/ Unhealthy(p), Watch,
         UNCHANGED <<ready, started, writer, reply>>
  PROVE  HInv'
<1>1. HealthTypeOK'
  BY WatchType DEF HInv, HealthTypeOK, Healthy, Unhealthy
<1>2. ReplySeen'
  <2> SUFFICES ASSUME NEW c \in Probes, Waiting(c)',
                      \/ reply'[c] = "200"
                      \/ reply'[c] = "half" /\ writer' # "failed"
               PROVE  seen'[c]
    BY DEF ReplySeen
  <2>1. c # p
    BY DEF HInv, HealthTypeOK, Healthy, Unhealthy, Waiting
  <2>2. Waiting(c) /\ seen[c]
    BY <2>1 DEF HInv, HealthTypeOK, ReplySeen, Healthy, Unhealthy, Waiting
  <2> QED
    BY <2>2, WatchKeeps DEF Waiting
<1> QED
  BY <1>1, <1>2 DEF HInv

\* The invariant of the probes is kept by every step.
LEMMA HealthStepInv ==
  ASSUME HInv, [HealthNext]_allVars
  PROVE  HInv'
<1>1. CASE Endpoint
  BY <1>1, HealthEndpointInv
<1>2. CASE Environment /\ Watch
  BY <1>2, EnvironmentInv
<1>3. CASE \E c \in Probes :
             Handle(c) /\ UNCHANGED <<vars, ready, started, writer, probe>> /\ Watch
  BY <1>3, HandleInv
<1>4. CASE \E c \in Probes :
             /\ Healthy(c) \/ Unhealthy(c)
             /\ UNCHANGED <<vars, ready, started, writer, reply>> /\ Watch
  BY <1>4, VerdictInv
<1>5. CASE UNCHANGED allVars
  BY <1>5 DEF allVars, health, HInv, HealthTypeOK, ReplySeen, Waiting
<1> QED
  BY <1>1, <1>2, <1>3, <1>4, <1>5 DEF HealthNext

\* Only a probe that was answered 200 becomes healthy.
LEMMA HealthyIsTrue ==
  ASSUME HInv, [HealthNext]_allVars, NEW c \in Probes,
         probe[c] # "healthy", probe'[c] = "healthy"
  PROVE  seen[c]
<1>1. \E p \in Probes : Healthy(p) \/ Unhealthy(p)
  BY DEF HealthNext, Endpoint, Environment, allVars, health
<1>2. PICK p \in Probes : Healthy(p) \/ Unhealthy(p)
  BY <1>1
<1>3. c = p /\ Healthy(c)
  BY <1>2 DEF HInv, HealthTypeOK, Healthy, Unhealthy
<1> QED
  BY <1>3 DEF HInv, ReplySeen, Healthy

\* A successful health check is true of some moment of the probe, for any
\* number of clients and probes (main.rs healthcheck, metrics.rs handle).
THEOREM HealthCheckTruthful == HealthSpec => HealthTruthful
<1>1. HealthInit => HInv
  BY DEF HealthInit, HInv, HealthTypeOK, ReplySeen, Waiting
<1>2. HInv /\ [HealthNext]_allVars => HInv'
  BY HealthStepInv
<1>3. HInv /\ [HealthNext]_allVars
        => [\A c \in Probes : probe[c] # "healthy" /\ probe'[c] = "healthy" => seen[c]]_allVars
  BY HealthyIsTrue
<1> QED
  BY <1>1, <1>2, <1>3, PTL DEF HealthSpec, HealthTruthful

=============================================================================
