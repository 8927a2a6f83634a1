---------------------------- MODULE SensorProofs ----------------------------
(***************************************************************************)
(* Proofs about Sensor for every finite set of connections and endpoints,  *)
(* every number of permits, every choice of sinks and capacity of the log, *)
(* and any number of faults.                                               *)
(***************************************************************************)
EXTENDS Sensor, FiniteSetTheorems, TLAPS

\* The log under the holders of the state, with its proofs.
LogProofs == INSTANCE LoggerProofs
  WITH Senders <- Holders, handles <- StateHolders,
       MaxRecords <- Cardinality(Conns),
       ready <- 1 - errors

ConnPlaces == {"idle", "accepted", "rejected", "gone"} \cup Live \cup Gone
WorkerPlaces == {"unborn", "loop", "polled", "placing", "drain"} \cup Ended
ServerPlaces ==
  {"spawn", "check", "set_ready", "poll", "select", "stop", "drain", "ok", "err", "aborted"}
MainPlaces == {"select", "cancel", "server", "drop", "logger", "exit"}
FaultKinds ==
  {"panic", "accept", "management", "worker", "server_grace", "writer", "signal",
   "logger_grace"}

SensorTypeOK ==
  /\ conn \in [Conns -> ConnPlaces]
  /\ home \in [Conns -> Endpoints]
  /\ reason \in [Conns -> {"none", "shutdown", "lifetime_limit", "protocol"}]
  /\ permits \in Nat
  /\ active \in Int
  /\ worker \in [Workers -> WorkerPlaces]
  /\ taken \in [Endpoints -> Conns \cup {NoConn}]
  /\ failed \subseteq Endpoints \cup {Server}
  /\ server \in ServerPlaces
  /\ main \in MainPlaces
  /\ outcome \in {"ok", "err"}
  /\ cancelled \in BOOLEAN /\ signalled \in BOOLEAN
  /\ faults \subseteq FaultKinds
  /\ ready \in {0, 1} /\ errors \in Nat

\* An endpoint that places a connection has it in hand, and every connection
\* that is accepted and not placed is in the hand of its endpoint.
Placing ==
  /\ \A e \in Endpoints :
       worker[e] = "placing" =>
         taken[e] \in Conns /\ home[taken[e]] = e /\ conn[taken[e]] = "accepted"
  /\ \A c \in Conns :
       conn[c] = "accepted" => worker[home[c]] = "placing" /\ taken[home[c]] = c

\* Only a session between the two steps of try_send has a permit of the log.
PushPending ==
  \A h \in Holders : sending[h] # Log!NoRecord => h \in Conns /\ conn[h] = "logging"

SessionInv == Placing /\ PushPending /\ SessionBound

-----------------------------------------------------------------------------
(* Counting sessions                                                       *)

At(places) == {d \in Conns : conn[d] \in places}

\* Moving one connection changes the number of connections at some places by
\* at most one.
LEMMA CountMoved ==
  ASSUME SensorTypeOK, NEW places, NEW c \in Conns, NEW p, MoveTo(c, p)
  PROVE  /\ Cardinality(At(places)) \in Nat
         /\ conn[c] \in places /\ p \in places =>
              Cardinality(At(places)') = Cardinality(At(places))
         /\ conn[c] \notin places /\ p \notin places =>
              Cardinality(At(places)') = Cardinality(At(places))
         /\ conn[c] \notin places /\ p \in places =>
              Cardinality(At(places)') = Cardinality(At(places)) + 1
         /\ conn[c] \in places /\ p \notin places =>
              Cardinality(At(places)') = Cardinality(At(places)) - 1
<1>1. IsFiniteSet(At(places)) /\ Cardinality(At(places)) \in Nat
  <2>1. At(places) \subseteq Conns
    BY DEF At
  <2> QED
    BY <2>1, SensorAssumption, FS_Subset, FS_CardinalityType
<1>2. /\ conn'[c] = p
      /\ \A d \in Conns : d # c => conn'[d] = conn[d]
  BY DEF MoveTo, SensorTypeOK
<1>3. (conn[c] \in places <=> p \in places) => At(places)' = At(places)
  BY <1>2 DEF At
<1>4. conn[c] \notin places /\ p \in places =>
        At(places)' = At(places) \cup {c} /\ c \notin At(places)
  BY <1>2 DEF At
<1>5. conn[c] \in places /\ p \notin places =>
        At(places)' = At(places) \ {c} /\ c \in At(places)
  BY <1>2 DEF At
<1> QED
  BY <1>1, <1>3, <1>4, <1>5, FS_AddElement, FS_RemoveElement

-----------------------------------------------------------------------------
(* Types                                                                   *)

\* The steps of the log writer change nothing of the tasks.
LEMMA WriterFrame ==
  ASSUME WriterStep \/ WriterFails \/ OrphanLands
  PROVE  UNCHANGED <<sessionVars, taskVars, mainVars, cancelled>>
BY DEF WriterStep, WriterFails, OrphanLands

\* What an endpoint may do at any time.
EndpointActs(e) ==
  \/ PollToken(e) \/ Wait(e) \/ AcceptFails(e) \/ Admit(e)
  \/ \E c \in Conns : Accept(e, c)

\* The steps of a session change nothing of the other tasks.
LEMMA SessionFrame ==
  ASSUME NEW c, SessionStep(c) \/ PanicSession(c)
  PROVE  UNCHANGED <<home, taskVars, mainVars, cancelled>>
BY DEF SessionStep, StartSession, CloseSession, LogSession, PushRecord, EndSession,
   AbortSession, PanicSession, Unwind, TasksUntouched

\* The steps of the main task, but for the abort of the server, change nothing
\* of sessions and server task.
LEMMA MainFrame ==
  ASSUME MainStep \/ Signal \/ SignalFails \/ AbortLogger
  PROVE  UNCHANGED <<sessionVars, taskVars, sending>>
BY DEF MainStep, ServerFirst, LoggerFirst, CancelShutdown, FinishServer, DropState,
   FinishLogger, Signal, SignalFails, AbortLogger, Log!Abort, Log!callVars, logVars,
   logCallVars

\* The steps of the server task and of what may befall a worker change nothing
\* of the sessions and of the log.
LEMMA TaskFrame ==
  ASSUME \/ \E w \in Workers : AuxStep(w) \/ WorkerPanics(w) \/ AbortWorker(w)
         \/ ManagementFails \/ ServerStep \/ AbortServer
  PROVE  UNCHANGED <<sessionVars, taken, logVars>>
BY DEF AuxStep, AuxStops, WorkerPanics, AbortWorker, ManagementFails, ServerStep,
   SpawnWorkers, CheckCancelled, SetReady, ServerWaits, ServerStops, CancelAll,
   ServerReturns, WorkerLost, JoinWorker, AbortServer

\* The types are kept.
LEMMA TypesKept ==
  ASSUME SensorTypeOK, [Next]_vars
  PROVE  SensorTypeOK'
<1> USE SensorAssumption DEF SensorTypeOK, MoveTo, Go, Unwind, Fault, Merge, Workers
<1>1. ASSUME NEW c \in Conns, SessionStep(c) PROVE SensorTypeOK'
  <2>1. CASE StartSession(c)
    BY <2>1 DEF StartSession, ConnPlaces, Live, taskVars, mainVars, logVars, logWriterVars
  <2>2. CASE CloseSession(c)
    BY <2>2 DEF CloseSession, ConnPlaces, Live, taskVars, mainVars, logVars, logWriterVars
  <2>3. CASE LogSession(c)
    BY <2>3 DEF LogSession, TasksUntouched, ConnPlaces, Live, taskVars, mainVars,
       Log!Log, Log!LogClosed, Log!LogFull, Log!LogPermit, Log!writerVars
  <2>4. CASE PushRecord(c)
    BY <2>4 DEF PushRecord, TasksUntouched, ConnPlaces, Live, taskVars, mainVars,
       Log!LogPush, Log!writerVars
  <2>5. CASE EndSession(c)
    BY <2>5 DEF EndSession, ConnPlaces, Gone, taskVars, mainVars, logVars, logWriterVars
  <2>6. CASE AbortSession(c)
    BY <2>6 DEF AbortSession, ConnPlaces, Gone, taskVars, mainVars, logVars, logWriterVars
  <2> QED
    BY <1>1, <2>1, <2>2, <2>3, <2>4, <2>5, <2>6 DEF SessionStep
<1>2. ASSUME NEW e \in Endpoints, EndpointStep(e) PROVE SensorTypeOK'
  <2>1. CASE StopAccepting(e) \/ Drained(e)
    BY <2>1 DEF StopAccepting, Drained, WorkerPlaces, Ended, mainVars, sessionVars,
       logVars, logWriterVars
  <2>2. CASE Reject(e)
    <3>1. conn' \in [Conns -> ConnPlaces]
      BY <2>2 DEF Reject, ConnPlaces
    <3> QED
      BY <2>2, <3>1 DEF Reject, WorkerPlaces, mainVars, logVars, logWriterVars
  <2>3. ASSUME NEW c \in Conns, JoinSession(e, c) PROVE SensorTypeOK'
    BY <2>3 DEF JoinSession, ConnPlaces, WorkerPlaces, mainVars, logVars, logWriterVars
  <2>4. ASSUME NEW c \in Conns, JoinPanicked(e, c) PROVE SensorTypeOK'
    <3>1. cancelled' \in BOOLEAN
      BY <2>4 DEF JoinPanicked
    <3> QED
      BY <2>4, <3>1 DEF JoinPanicked, ConnPlaces, WorkerPlaces, mainVars, logVars,
         logWriterVars
  <2> QED
    BY <1>2, <2>1, <2>2, <2>3, <2>4 DEF EndpointStep
<1>3. ASSUME NEW w \in Workers, AuxStep(w) PROVE SensorTypeOK'
  BY <1>3 DEF AuxStep, AuxStops, WorkerPlaces, Ended, sessionVars, mainVars, logVars,
     logWriterVars
<1>4. CASE ServerStep
  <2>1. CASE SpawnWorkers
    BY <2>1 DEF SpawnWorkers, WorkerPlaces, ServerPlaces, sessionVars, mainVars, logVars,
       logWriterVars
  <2>2. CASE CheckCancelled \/ SetReady \/ ServerWaits \/ ServerStops \/ CancelAll
             \/ ServerReturns
    BY <2>2 DEF CheckCancelled, SetReady, ServerWaits, ServerStops, CancelAll,
       ServerReturns, ServerPlaces, sessionVars, mainVars, logVars, logWriterVars
  <2>3. ASSUME NEW w \in Workers, WorkerLost(w) \/ JoinWorker(w) PROVE SensorTypeOK'
    BY <2>3 DEF WorkerLost, JoinWorker, WorkerPlaces, Ended, ServerPlaces, sessionVars,
       mainVars, logVars, logWriterVars
  <2> QED
    BY <1>4, <2>1, <2>2, <2>3 DEF ServerStep
<1>5. CASE MainStep
  BY <1>5 DEF MainStep, ServerFirst, LoggerFirst, CancelShutdown, FinishServer, DropState,
     FinishLogger, MainPlaces, sessionVars, taskVars, logVars, logWriterVars
<1>6. CASE WriterStep
  BY <1>6, WriterFrame DEF WriterStep, sessionVars, taskVars, mainVars,
     Log!Recv, Log!RecvNone, Log!WriteSink, Log!WriteDone, Log!MarkFailed, Log!CountError,
     Log!CountLost
<1>7. CASE Environment
  <2>1. ASSUME NEW e \in Endpoints,
               \/ PollToken(e) \/ Wait(e) \/ AcceptFails(e) \/ Admit(e)
               \/ \E c \in Conns : Accept(e, c)
        PROVE  SensorTypeOK'
    <3>1. CASE PollToken(e) \/ Wait(e)
      BY <3>1 DEF PollToken, Wait, WorkerPlaces, sessionVars, mainVars, logVars,
         logWriterVars
    <3>2. CASE AcceptFails(e)
      BY <3>2 DEF AcceptFails, WorkerPlaces, FaultKinds, sessionVars, mainVars, logVars,
         logWriterVars
    <3>3. CASE Admit(e)
      <4>1. conn' \in [Conns -> ConnPlaces]
        BY <3>3 DEF Admit, ConnPlaces, Live
      <4>2. permits' \in Nat
        BY <3>3 DEF Admit
      <4> QED
        BY <3>3, <4>1, <4>2 DEF Admit, WorkerPlaces, mainVars, logVars, logWriterVars
    <3>4. ASSUME NEW c \in Conns, Accept(e, c) PROVE SensorTypeOK'
      BY <3>4 DEF Accept, ConnPlaces, WorkerPlaces, mainVars, logVars, logWriterVars
    <3> QED
      BY <2>1, <3>1, <3>2, <3>3, <3>4
  <2>2. ASSUME NEW c \in Conns, PanicSession(c) PROVE SensorTypeOK'
    BY <2>2 DEF PanicSession, ConnPlaces, Gone, FaultKinds, taskVars, mainVars, logVars,
       logWriterVars
  <2>3. ASSUME NEW w \in Workers, WorkerPanics(w) \/ AbortWorker(w) PROVE SensorTypeOK'
    <3>1. CASE WorkerPanics(w)
      BY <3>1 DEF WorkerPanics, WorkerPlaces, Ended, FaultKinds, sessionVars, mainVars,
         logVars, logWriterVars
    <3>2. CASE AbortWorker(w)
      BY <3>2 DEF AbortWorker, WorkerPlaces, Ended, sessionVars, mainVars, logVars,
         logWriterVars
    <3> QED
      BY <2>3, <3>1, <3>2
  <2>4. CASE ManagementFails
    BY <2>4 DEF ManagementFails, WorkerPlaces, Ended, FaultKinds, sessionVars, mainVars,
       logVars, logWriterVars
  <2>5. CASE WriterFails \/ OrphanLands
    <3>1. CASE WriterFails
      BY <3>1, WriterFrame DEF WriterFails, Log!WriteFail, FaultKinds, sessionVars, taskVars,
         mainVars
    <3>2. CASE OrphanLands
      BY <3>2, WriterFrame DEF OrphanLands, Log!OrphanLands, sessionVars, taskVars, mainVars
    <3> QED
      BY <2>5, <3>1, <3>2
  <2>6. CASE Signal \/ SignalFails \/ AbortServer \/ AbortLogger
    <3>1. CASE Signal
      BY <3>1 DEF Signal, MainPlaces, FaultKinds, sessionVars, taskVars, logVars, logWriterVars
    <3>2. CASE AbortServer
      BY <3>2 DEF AbortServer, ServerPlaces, MainPlaces, FaultKinds, sessionVars, logVars,
         logWriterVars
    <3>3. CASE AbortLogger
      BY <3>3 DEF AbortLogger, Log!Abort, MainPlaces, FaultKinds, sessionVars, taskVars,
         logVars, logWriterVars
    <3>4. CASE SignalFails
      BY <3>4 DEF SignalFails, MainPlaces, FaultKinds, sessionVars, taskVars, logVars,
         logWriterVars
    <3> QED
      BY <2>6, <3>1, <3>2, <3>3, <3>4
  <2> QED
    BY <1>7, <2>1, <2>2, <2>3, <2>4, <2>5, <2>6 DEF Environment
<1>8. CASE UNCHANGED vars
  BY <1>8 DEF vars, sessionVars, taskVars, mainVars, logVars, logWriterVars
<1> QED
  BY <1>1, <1>2, <1>3, <1>4, <1>5, <1>6, <1>7, <1>8 DEF Next, Exited

-----------------------------------------------------------------------------
(* Permits, gauge and connections in hand                                  *)

\* Until the server task has spawned its workers, there are none.
Unspawned == server = "spawn" => \A w \in Workers : worker[w] = "unborn"

\* Steps that leave the connections and the accounts of the sessions alone.
LEMMA AccountsUntouched ==
  ASSUME SessionBound, UNCHANGED <<conn, permits, active>>
  PROVE  SessionBound'
BY DEF SessionBound

\* A move of a connection keeps SessionBound if permits and gauge follow it.
LEMMA AccountsFollow ==
  ASSUME SensorTypeOK, SessionBound, NEW c \in Conns, NEW p, MoveTo(c, p),
         permits' = permits + (IF conn[c] \in Live THEN 1 ELSE 0)
                            - (IF p \in Live THEN 1 ELSE 0),
         active' = active + (IF p \in Running THEN 1 ELSE 0)
                          - (IF conn[c] \in Running THEN 1 ELSE 0)
  PROVE  SessionBound'
<1>1. /\ permits \in Nat /\ active \in Int /\ max_sessions \in Nat
      /\ permits + Cardinality(At(Live)) = max_sessions
      /\ active = Cardinality(At(Running))
  BY SensorAssumption DEF SessionBound, SensorTypeOK, At
<1>2. permits' + Cardinality(At(Live)') = max_sessions
  <2>1. Cardinality(At(Live)) \in Nat
    BY CountMoved
  <2>2. CASE conn[c] \in Live /\ p \in Live
    <3>1. Cardinality(At(Live)') = Cardinality(At(Live))
      BY <2>2, CountMoved
    <3> QED
      BY <1>1, <2>1, <2>2, <3>1
  <2>3. CASE conn[c] \notin Live /\ p \notin Live
    <3>1. Cardinality(At(Live)') = Cardinality(At(Live))
      BY <2>3, CountMoved
    <3> QED
      BY <1>1, <2>1, <2>3, <3>1
  <2>4. CASE conn[c] \notin Live /\ p \in Live
    <3>1. Cardinality(At(Live)') = Cardinality(At(Live)) + 1
      BY <2>4, CountMoved
    <3> QED
      BY <1>1, <2>1, <2>4, <3>1
  <2>5. CASE conn[c] \in Live /\ p \notin Live
    <3>1. Cardinality(At(Live)') = Cardinality(At(Live)) - 1
      BY <2>5, CountMoved
    <3> QED
      BY <1>1, <2>1, <2>5, <3>1
  <2> QED
    BY <2>2, <2>3, <2>4, <2>5
<1>3. active' = Cardinality(At(Running)')
  <2>1. Cardinality(At(Running)) \in Nat
    BY CountMoved
  <2>2. CASE conn[c] \in Running /\ p \in Running
    <3>1. Cardinality(At(Running)') = Cardinality(At(Running))
      BY <2>2, CountMoved
    <3> QED
      BY <1>1, <2>1, <2>2, <3>1
  <2>3. CASE conn[c] \notin Running /\ p \notin Running
    <3>1. Cardinality(At(Running)') = Cardinality(At(Running))
      BY <2>3, CountMoved
    <3> QED
      BY <1>1, <2>1, <2>3, <3>1
  <2>4. CASE conn[c] \notin Running /\ p \in Running
    <3>1. Cardinality(At(Running)') = Cardinality(At(Running)) + 1
      BY <2>4, CountMoved
    <3> QED
      BY <1>1, <2>1, <2>4, <3>1
  <2>5. CASE conn[c] \in Running /\ p \notin Running
    <3>1. Cardinality(At(Running)') = Cardinality(At(Running)) - 1
      BY <2>5, CountMoved
    <3> QED
      BY <1>1, <2>1, <2>5, <3>1
  <2> QED
    BY <2>2, <2>3, <2>4, <2>5
<1> QED
  BY <1>2, <1>3 DEF SessionBound, At

\* Every move of a connection takes or gives back its permit, and moves the
\* gauge, with it.
LEMMA SessionBoundKept ==
  ASSUME SensorTypeOK, Placing, SessionBound, [Next]_vars
  PROVE  SessionBound'
<1> USE DEF Live, Running, SensorTypeOK
<1>1. ASSUME NEW c \in Conns, SessionStep(c) PROVE SessionBound'
  <2>0. permits \in Nat /\ active \in Int
    OBVIOUS
  <2>1. CASE StartSession(c)
    BY <2>0, <2>1, AccountsFollow DEF StartSession
  <2>2. CASE CloseSession(c)
    BY <2>0, <2>2, AccountsFollow DEF CloseSession
  <2>3. CASE LogSession(c)
    BY <2>0, <2>3, AccountsFollow DEF LogSession, TasksUntouched
  <2>4. CASE PushRecord(c)
    BY <2>0, <2>4, AccountsFollow DEF PushRecord, TasksUntouched
  <2>5. CASE EndSession(c)
    BY <2>0, <2>5, AccountsFollow DEF EndSession, Unwind
  <2>6. CASE AbortSession(c)
    BY <2>0, <2>6, AccountsFollow DEF AbortSession, Abortable, Unwind
  <2> QED
    BY <1>1, <2>1, <2>2, <2>3, <2>4, <2>5, <2>6 DEF SessionStep
<1>2. ASSUME NEW e \in Endpoints, EndpointStep(e) PROVE SessionBound'
  <2>0. permits \in Nat /\ active \in Int
    OBVIOUS
  <2>1. CASE StopAccepting(e) \/ Drained(e)
    BY <2>1, AccountsUntouched DEF StopAccepting, Drained, sessionVars
  <2>2. CASE Reject(e)
    <3>1. taken[e] \in Conns /\ conn[taken[e]] = "accepted"
      BY <2>2 DEF Reject, Placing
    <3> QED
      BY <2>0, <2>2, <3>1, AccountsFollow DEF Reject
  <2>3. ASSUME NEW c \in Conns, JoinSession(e, c) \/ JoinPanicked(e, c)
        PROVE  SessionBound'
    BY <2>0, <2>3, AccountsFollow DEF JoinSession, JoinPanicked
  <2> QED
    BY <1>2, <2>1, <2>2, <2>3 DEF EndpointStep
<1>3. ASSUME NEW e \in Endpoints,
             \/ PollToken(e) \/ Wait(e) \/ AcceptFails(e) \/ Admit(e)
             \/ \E c \in Conns : Accept(e, c)
      PROVE  SessionBound'
  <2>0. permits \in Nat /\ active \in Int
    OBVIOUS
  <2>1. CASE PollToken(e) \/ Wait(e) \/ AcceptFails(e)
    BY <2>1, AccountsUntouched DEF PollToken, Wait, AcceptFails, sessionVars
  <2>2. CASE Admit(e)
    <3>1. taken[e] \in Conns /\ conn[taken[e]] = "accepted"
      BY <2>2 DEF Admit, Placing
    <3> QED
      BY <2>0, <2>2, <3>1, AccountsFollow DEF Admit
  <2>3. ASSUME NEW c \in Conns, Accept(e, c) PROVE SessionBound'
    BY <2>0, <2>3, AccountsFollow DEF Accept
  <2> QED
    BY <1>3, <2>1, <2>2, <2>3
<1>4. ASSUME NEW c \in Conns, PanicSession(c) PROVE SessionBound'
  BY <1>4, AccountsFollow DEF PanicSession, Unwind
<1>5. CASE \/ ServerStep \/ MainStep
           \/ \E w \in Workers : AuxStep(w) \/ WorkerPanics(w) \/ AbortWorker(w)
           \/ ManagementFails \/ Signal \/ SignalFails \/ AbortServer \/ AbortLogger
           \/ WriterStep \/ WriterFails \/ OrphanLands
           \/ UNCHANGED vars
  <2>1. UNCHANGED sessionVars
    BY <1>5, WriterFrame DEF ServerStep, SpawnWorkers, CheckCancelled, SetReady,
       ServerWaits, ServerStops, CancelAll, ServerReturns, WorkerLost, JoinWorker,
       MainStep, ServerFirst, LoggerFirst, CancelShutdown, FinishServer, DropState,
       FinishLogger, AuxStep, AuxStops, WorkerPanics, AbortWorker, ManagementFails,
       Signal, SignalFails, AbortServer, AbortLogger, vars
  <2> QED
    BY <2>1, AccountsUntouched DEF sessionVars
<1> QED
  BY <1>1, <1>2, <1>3, <1>4, <1>5 DEF Next, Environment, Exited, Workers

\* Moves of connections that are not in the hand of an endpoint, and moves of
\* workers that have none in hand.
LEMMA HandsUntouched ==
  ASSUME SensorTypeOK, Placing, UNCHANGED <<home, taken>>,
         \/ conn' = conn
         \/ \E c \in Conns : \E p : conn[c] # "accepted" /\ p # "accepted" /\ MoveTo(c, p),
         \/ worker' = worker
         \/ \E w \in Workers : \E p : worker[w] # "placing" /\ p # "placing" /\ Go(w, p)
  PROVE  Placing'
<1>1. \A c \in Conns : conn'[c] = "accepted" <=> conn[c] = "accepted"
  BY DEF MoveTo, SensorTypeOK
<1>2. \A e \in Endpoints : worker'[e] = "placing" <=> worker[e] = "placing"
  BY DEF Go, SensorTypeOK, Workers
<1> QED
  BY <1>1, <1>2 DEF Placing, SensorTypeOK

\* A connection stays in exactly the hand that accepted it until it is placed.
LEMMA PlacingKept ==
  ASSUME SensorTypeOK, Placing, Unspawned, [Next]_vars
  PROVE  Placing'
<1>1. ASSUME NEW c \in Conns, SessionStep(c) \/ PanicSession(c) PROVE Placing'
  <2>1. UNCHANGED <<home, taken, worker>>
    BY <1>1 DEF SessionStep, StartSession, CloseSession, LogSession, PushRecord,
       EndSession, AbortSession, PanicSession, Unwind, TasksUntouched, taskVars
  <2>2. \E p : conn[c] # "accepted" /\ p # "accepted" /\ MoveTo(c, p)
    BY <1>1 DEF SessionStep, StartSession, CloseSession, LogSession, PushRecord,
       EndSession, AbortSession, PanicSession, Unwind, Abortable
  <2> QED
    BY <2>1, <2>2, HandsUntouched
<1>2. ASSUME NEW e \in Endpoints, StopAccepting(e) \/ Drained(e) \/ PollToken(e)
                                  \/ Wait(e) \/ AcceptFails(e)
      PROVE  Placing'
  <2>1. UNCHANGED <<home, taken, conn>>
    BY <1>2 DEF StopAccepting, Drained, PollToken, Wait, AcceptFails, sessionVars
  <2>2. \E p : worker[e] # "placing" /\ p # "placing" /\ Go(e, p)
    BY <1>2 DEF StopAccepting, Drained, PollToken, Wait, AcceptFails
  <2> QED
    BY <2>1, <2>2, HandsUntouched DEF Workers
<1>3. ASSUME NEW e \in Endpoints, NEW c \in Conns, JoinSession(e, c) \/ JoinPanicked(e, c)
      PROVE  Placing'
  <2>1. UNCHANGED <<home, taken>>
    BY <1>3 DEF JoinSession, JoinPanicked
  <2>2. conn[c] # "accepted" /\ MoveTo(c, "gone")
    BY <1>3 DEF JoinSession, JoinPanicked
  <2>3. \E p : worker[e] # "placing" /\ p # "placing" /\ Go(e, p)
    BY <1>3 DEF JoinSession, JoinPanicked, Go
  <2> QED
    BY <2>1, <2>2, <2>3, HandsUntouched DEF Workers
<1>4. ASSUME NEW e \in Endpoints, Reject(e) \/ Admit(e) PROVE Placing'
  <2>1. PICK p \in {"rejected", "spawned"} :
          /\ worker[e] = "placing"
          /\ MoveTo(taken[e], p)
          /\ taken' = [taken EXCEPT ![e] = NoConn]
          /\ Go(e, "loop")
          /\ home' = home
    BY <1>4 DEF Reject, Admit
  <2>2. /\ taken[e] \in Conns /\ home[taken[e]] = e
        /\ \A c \in Conns : conn[c] = "accepted" /\ home[c] = e => taken[e] = c
    BY <2>1 DEF Placing
  <2>3. /\ conn'[taken[e]] = p
        /\ \A c \in Conns : c # taken[e] => conn'[c] = conn[c]
        /\ worker'[e] = "loop"
        /\ \A f \in Endpoints : f # e => worker'[f] = worker[f] /\ taken'[f] = taken[f]
    BY <2>1, <2>2 DEF MoveTo, Go, SensorTypeOK, Workers
  <2> QED
    BY <2>1, <2>2, <2>3 DEF Placing, SensorTypeOK
<1>5. ASSUME NEW e \in Endpoints, NEW c \in Conns, Accept(e, c) PROVE Placing'
  <2>1. /\ worker[e] = "polled" /\ home[c] = e /\ conn[c] = "idle"
        /\ conn'[c] = "accepted" /\ taken'[e] = c /\ worker'[e] = "placing"
        /\ \A d \in Conns : d # c => conn'[d] = conn[d]
        /\ \A f \in Endpoints : f # e => worker'[f] = worker[f] /\ taken'[f] = taken[f]
        /\ home' = home
    BY <1>5 DEF Accept, MoveTo, Go, SensorTypeOK, Workers
  <2> QED
    BY <2>1 DEF Placing, SensorTypeOK
<1>6. CASE SpawnWorkers
  <2>1. \A c \in Conns : conn[c] # "accepted"
    BY <1>6 DEF SpawnWorkers, Unspawned, Placing, SensorTypeOK, Workers
  <2> QED
    BY <1>6, <2>1 DEF SpawnWorkers, Placing, sessionVars, Workers
<1>7. ASSUME NEW w \in Workers, \/ AuxStep(w) \/ WorkerPanics(w) \/ AbortWorker(w)
                                \/ WorkerLost(w) \/ JoinWorker(w)
      PROVE  Placing'
  <2>1. UNCHANGED <<home, taken, conn>>
    BY <1>7 DEF AuxStep, AuxStops, WorkerPanics, AbortWorker, WorkerLost, JoinWorker, sessionVars
  <2>2. \E p : worker[w] # "placing" /\ p # "placing" /\ Go(w, p)
    BY <1>7 DEF AuxStep, AuxStops, WorkerPanics, AbortWorker, WorkerLost, JoinWorker, Joinable
  <2> QED
    BY <2>1, <2>2, HandsUntouched
<1>8. CASE ManagementFails
  <2>1. UNCHANGED <<home, taken, conn>>
    BY <1>8 DEF ManagementFails, sessionVars
  <2>2. worker[Management] # "placing" /\ Go(Management, "err") /\ Management \in Workers
    BY <1>8 DEF ManagementFails, Workers
  <2> QED
    BY <2>1, <2>2, HandsUntouched
<1>9. CASE \/ CheckCancelled \/ SetReady \/ ServerWaits \/ ServerStops \/ CancelAll
           \/ ServerReturns \/ MainStep
           \/ Signal \/ SignalFails \/ AbortServer \/ AbortLogger
           \/ WriterStep \/ WriterFails \/ OrphanLands
           \/ UNCHANGED vars
  <2>1. UNCHANGED <<conn, home, worker, taken>>
    BY <1>9, WriterFrame DEF CheckCancelled, SetReady,
       ServerWaits, ServerStops, CancelAll, ServerReturns,
       MainStep, ServerFirst, LoggerFirst, CancelShutdown, FinishServer, DropState,
       FinishLogger, Signal, SignalFails, AbortServer, AbortLogger, vars,
       sessionVars, taskVars
  <2> QED
    BY <2>1 DEF Placing
<1> QED
  BY <1>1, <1>2, <1>3, <1>4, <1>5, <1>6, <1>7, <1>8, <1>9
  DEF Next, EndpointStep, ServerStep, Environment, Exited, Workers

\* Until the server task spawns its workers, no worker can take a step.
LEMMA UnspawnedKept ==
  ASSUME SensorTypeOK, Unspawned, [Next]_vars
  PROVE  Unspawned'
<1>1. ASSUME NEW e \in Endpoints, EndpointStep(e) \/ EndpointActs(e) PROVE Unspawned'
  <2>1. worker[e] # "unborn" /\ server' = server
    BY <1>1 DEF EndpointStep, EndpointActs, StopAccepting, Reject, Drained, JoinSession,
       JoinPanicked, PollToken, Wait, AcceptFails, Admit, Accept
  <2> QED
    BY <2>1 DEF Unspawned, Workers
<1>2. ASSUME NEW w \in Workers, AuxStep(w) \/ WorkerPanics(w) \/ AbortWorker(w)
      PROVE  Unspawned'
  <2>1. worker[w] # "unborn" /\ server' = server
    BY <1>2 DEF AuxStep, AuxStops, WorkerPanics, AbortWorker
  <2> QED
    BY <2>1 DEF Unspawned
<1>3. CASE ManagementFails
  BY <1>3 DEF ManagementFails, Unspawned, Workers
<1>4. CASE ServerStep \/ AbortServer
  <2>1. server' # "spawn"
    BY <1>4 DEF ServerStep, SpawnWorkers, CheckCancelled, SetReady, ServerWaits,
       ServerStops, CancelAll, ServerReturns, WorkerLost, JoinWorker, AbortServer
  <2> QED
    BY <2>1 DEF Unspawned
<1>5. CASE \/ \E c \in Conns : SessionStep(c) \/ PanicSession(c)
           \/ MainStep \/ Signal \/ SignalFails \/ AbortLogger
           \/ WriterStep \/ WriterFails \/ OrphanLands
           \/ UNCHANGED vars
  <2>1. UNCHANGED <<worker, server>>
    BY <1>5, SessionFrame, MainFrame, WriterFrame DEF vars, taskVars
  <2> QED
    BY <2>1 DEF Unspawned
<1> QED
  BY <1>1, <1>2, <1>3, <1>4, <1>5 DEF Next, Environment, EndpointActs, Exited, Workers

\* Who may be between the two steps of try_send: a session that logs.
LEMMA PushPendingKept ==
  ASSUME SensorTypeOK, Placing, PushPending, [Next]_vars,
         sending \in [Holders -> Nat]
  PROVE  PushPending'
<1> USE DEF SensorTypeOK, PushPending, MoveTo, Holders, Log!NoRecord
<1>1. ASSUME NEW c \in Conns, LogSession(c) PROVE PushPending'
  <2>1. PICK p \in {"logging", "logged"} :
          MoveTo(c, p) /\ (p = "logging" <=> sending'[c] # 0)
    BY <1>1 DEF LogSession
  <2>2. \A h \in Holders : h # c => sending'[h] = sending[h]
    BY <1>1 DEF LogSession, Log!Log, Log!LogClosed, Log!LogFull, Log!LogPermit
  <2>3. conn[c] = "closing"
    BY <1>1 DEF LogSession
  <2> QED
    BY <2>1, <2>2, <2>3
<1>2. ASSUME NEW c \in Conns, PushRecord(c) PROVE PushPending'
  <2>1. sending' = [sending EXCEPT ![c] = 0] /\ MoveTo(c, "logged")
    BY <1>2 DEF PushRecord, Log!LogPush
  <2> QED
    BY <2>1
<1>3. ASSUME NEW c \in Conns, \/ StartSession(c) \/ CloseSession(c) \/ EndSession(c)
                              \/ AbortSession(c) \/ PanicSession(c)
      PROVE  PushPending'
  <2>1. sending' = sending
    BY <1>3 DEF StartSession, CloseSession, EndSession, AbortSession, PanicSession, logVars,
       logCallVars
  <2>2. conn[c] # "logging" /\ \E p : MoveTo(c, p)
    BY <1>3 DEF StartSession, CloseSession, EndSession, AbortSession, PanicSession, Unwind,
       Abortable
  <2> QED
    BY <2>1, <2>2
<1>4. ASSUME NEW e \in Endpoints, EndpointStep(e) \/ EndpointActs(e) PROVE PushPending'
  <2>1. sending' = sending
    BY <1>4 DEF EndpointStep, EndpointActs, StopAccepting, Reject, Drained, JoinSession,
       JoinPanicked, PollToken, Wait, AcceptFails, Admit, Accept, logVars, logCallVars
  <2>2. CASE Reject(e) \/ Admit(e)
    <3>1. taken[e] \in Conns /\ conn[taken[e]] = "accepted"
      BY <2>2 DEF Reject, Admit, Placing
    <3>2. \E p \in {"rejected", "spawned"} : conn' = [conn EXCEPT ![taken[e]] = p]
      BY <2>2 DEF Reject, Admit
    <3> QED
      BY <2>1, <3>1, <3>2
  <2>3. CASE ~(Reject(e) \/ Admit(e))
    <3>1. \/ conn' = conn
          \/ \E c \in Conns : \E p \in {"gone", "accepted"} :
                conn[c] # "logging" /\ conn' = [conn EXCEPT ![c] = p]
      BY <1>4, <2>3 DEF EndpointStep, EndpointActs, StopAccepting, Drained, JoinSession,
         JoinPanicked, PollToken, Wait, AcceptFails, Accept, sessionVars
    <3> QED
      BY <2>1, <3>1
  <2> QED
    BY <2>2, <2>3
<1>5. CASE \/ \E w \in Workers : AuxStep(w) \/ WorkerPanics(w) \/ AbortWorker(w)
           \/ ManagementFails \/ ServerStep \/ AbortServer
           \/ MainStep \/ Signal \/ SignalFails \/ AbortLogger
           \/ WriterStep \/ WriterFails \/ OrphanLands
           \/ UNCHANGED vars
  <2>1. conn' = conn
    BY <1>5, TaskFrame, MainFrame, WriterFrame DEF vars, sessionVars
  <2>2. sending' = sending
    BY <1>5, TaskFrame, MainFrame DEF WriterStep, WriterFails, OrphanLands, vars, logVars,
       logCallVars, Log!Recv, Log!RecvNone, Log!WriteSink, Log!WriteDone,
       Log!MarkFailed, Log!CountLost, Log!WriteFail, Log!OrphanLands, Log!callVars
  <2> QED
    BY <2>1, <2>2
<1> QED
  BY <1>1, <1>2, <1>3, <1>4, <1>5
  DEF Next, Environment, EndpointActs, SessionStep, Exited, Workers

-----------------------------------------------------------------------------
(* The sensor uses the log as module Logger allows.                        *)

\* What Logger asks of its constants holds of the sensor's.
LEMMA LogAssumption == LogProofs!LoggerAssumption
<1>1. IsFiniteSet(Holders)
  <2>1. IsFiniteSet({Main}) /\ IsFiniteSet({Server})
    BY FS_Singleton
  <2>2. IsFiniteSet({Main} \cup {Server})
    BY <2>1, FS_Union
  <2>3. IsFiniteSet(Conns \cup Endpoints)
    BY SensorAssumption, FS_Union
  <2>4. Holders = (Conns \cup Endpoints) \cup ({Main} \cup {Server})
    BY DEF Holders
  <2> QED
    BY <2>2, <2>3, <2>4, FS_Union
<1>2. Cardinality(Conns) \in Nat
  BY SensorAssumption, FS_CardinalityType
<1>3. LogProofs!IsFiniteSet(Holders) <=> IsFiniteSet(Holders)
  BY DEF LogProofs!IsFiniteSet, IsFiniteSet
<1> QED
  BY <1>1, <1>2, <1>3, SensorAssumption DEF LogProofs!LoggerAssumption

\* The error counter says whether the writer has failed.
ErrorsInv == errors = IF writer \in {"count", "failed"} THEN 1 ELSE 0

\* What the steps of the sensor need to be steps of the log.
UseInv == SensorTypeOK /\ Placing /\ Unspawned /\ PushPending /\ ErrorsInv

-----------------------------------------------------------------------------
(* Every step of the sensor is a step of the log, or none                  *)

LogUntouched == UNCHANGED <<StateHolders, logVars>>

\* A step that changes neither the holders nor the log is none of the log.
LEMMA LogStutters ==
  ASSUME LogUntouched
  PROVE  UNCHANGED LogProofs!vars
BY DEF LogUntouched, LogProofs!vars, logVars, logCallVars, logWriterVars

\* A task that is dropped takes its handle with it.
LEMMA HandleDropped ==
  ASSUME NEW h \in Holders, h \in StateHolders, sending[h] = Log!NoRecord,
         StateHolders' = StateHolders \ {h}, UNCHANGED logVars
  PROVE  LogProofs!Next
<1>1. LogProofs!DropHandle(h)
  BY DEF LogProofs!DropHandle, LogProofs!NoRecord, Log!NoRecord, LogProofs!writerVars,
     logVars, logCallVars, logWriterVars
<1> QED
  BY <1>1 DEF LogProofs!Next

\* Tasks that are spawned get their handles from a task that has one.
LEMMA HandlesCloned ==
  ASSUME NEW new \in SUBSET Holders, StateHolders # {}, new # {},
         new \cap StateHolders = {},
         StateHolders' = StateHolders \cup new, UNCHANGED logVars
  PROVE  LogProofs!Next
BY DEF LogProofs!Next, LogProofs!CloneHandles, LogProofs!writerVars, logVars,
   logCallVars, logWriterVars

\* The steps of a session.
LEMMA SessionUsesLog ==
  ASSUME UseInv, NEW c \in Conns, SessionStep(c) \/ PanicSession(c)
  PROVE  LogProofs!Next \/ UNCHANGED LogProofs!vars
<1> USE DEF UseInv, SensorTypeOK, MoveTo
<1>1. CASE StartSession(c) \/ CloseSession(c)
  <2>1. StateHolders' = StateHolders
    BY <1>1 DEF StartSession, CloseSession, StateHolders, Live, taskVars, mainVars
  <2> QED
    BY <1>1, <2>1, LogStutters DEF StartSession, CloseSession, LogUntouched
<1>2. CASE LogSession(c)
  <2>1. Log!Log(c)
    BY <1>2 DEF LogSession
  <2>2. LogProofs!Log(c)
    BY <2>1 DEF Log!Log, Log!LogClosed, Log!LogFull, Log!LogPermit, Log!Calls, Log!RxOpen,
       Log!HasPermit, Log!Reserved, Log!Overflow, Log!Drop, Log!writerVars, Log!NoRecord,
       Log!Cardinality,
       LogProofs!Log, LogProofs!LogClosed, LogProofs!LogFull, LogProofs!LogPermit,
       LogProofs!Calls, LogProofs!RxOpen, LogProofs!HasPermit, LogProofs!Reserved,
       LogProofs!Overflow, LogProofs!Drop, LogProofs!writerVars, LogProofs!NoRecord,
       LogProofs!Cardinality
  <2> QED
    BY <2>2 DEF LogProofs!Next, Holders
<1>3. CASE PushRecord(c)
  <2>1. LogProofs!LogPush(c)
    BY <1>3 DEF PushRecord, Log!LogPush, Log!RxAlive, Log!writerVars, Log!NoRecord,
       LogProofs!LogPush, LogProofs!RxAlive, LogProofs!writerVars, LogProofs!NoRecord
  <2> QED
    BY <2>1 DEF LogProofs!Next, Holders
<1>4. CASE EndSession(c) \/ AbortSession(c) \/ PanicSession(c)
  <2>1. conn[c] \in Live /\ conn[c] # "logging"
    BY <1>4 DEF EndSession, AbortSession, PanicSession, Abortable, Live
  <2>2. \E p \in Gone : MoveTo(c, p)
    BY <1>4 DEF EndSession, AbortSession, PanicSession, Unwind, Gone
  <2>3. UNCHANGED <<worker, server, main>>
    BY <1>4 DEF EndSession, AbortSession, PanicSession, taskVars, mainVars
  <2>4. StateHolders' = StateHolders \ {c}
    BY <2>1, <2>2, <2>3, SensorAssumption DEF StateHolders, Live, Gone
  <2>5. c \in StateHolders /\ c \in Holders /\ sending[c] = Log!NoRecord
    BY <2>1 DEF StateHolders, Holders, PushPending
  <2>6. UNCHANGED logVars
    BY <1>4 DEF EndSession, AbortSession, PanicSession
  <2> QED
    BY <2>4, <2>5, <2>6, HandleDropped
<1> QED
  BY <1>1, <1>2, <1>3, <1>4 DEF SessionStep

\* The steps of an endpoint.
LEMMA EndpointUsesLog ==
  ASSUME UseInv, NEW e \in Endpoints, EndpointStep(e) \/ EndpointActs(e)
  PROVE  LogProofs!Next \/ UNCHANGED LogProofs!vars
<1> USE DEF UseInv, SensorTypeOK, MoveTo, Go, Workers
<1>1. UNCHANGED <<server, main, logVars>>
  BY DEF EndpointStep, EndpointActs, StopAccepting, Reject, Drained, JoinSession,
     JoinPanicked, PollToken, Wait, AcceptFails, Admit, Accept, mainVars
<1>2. CASE Drained(e)
  <2>1. e \in StateHolders /\ e \in Holders /\ sending[e] = Log!NoRecord
    BY <1>2, SensorAssumption DEF Drained, StateHolders, Holders, Ended, PushPending
  <2>2. worker' = [worker EXCEPT ![e] = IF e \in failed THEN "err" ELSE "ok"]
    BY <1>2 DEF Drained
  <2>3. StateHolders' = StateHolders \ {e}
    BY <1>1, <1>2, <2>2, SensorAssumption DEF Drained, StateHolders, Ended, sessionVars
  <2> QED
    BY <1>1, <2>1, <2>3, HandleDropped
<1>3. CASE Admit(e)
  <2>1. taken[e] \in Conns /\ conn[taken[e]] = "accepted"
    BY <1>3 DEF Admit, Placing
  <2>2. StateHolders' = StateHolders \cup {taken[e]}
    BY <1>1, <1>3, <2>1, SensorAssumption DEF Admit, StateHolders, Ended, Live
  <2>3. e \in StateHolders /\ taken[e] \in Holders /\ taken[e] \notin StateHolders
    BY <1>3, <2>1, SensorAssumption DEF Admit, StateHolders, Holders, Ended, Live
  <2>4. /\ {taken[e]} \in SUBSET Holders /\ {taken[e]} # {}
        /\ {taken[e]} \cap StateHolders = {} /\ StateHolders # {}
    BY <2>3
  <2> QED
    BY <1>1, <2>2, <2>4, HandlesCloned
<1>4. CASE Reject(e)
  <2>1. taken[e] \in Conns /\ conn[taken[e]] = "accepted"
    BY <1>4 DEF Reject, Placing
  <2>2. StateHolders' = StateHolders
    BY <1>1, <1>4, <2>1 DEF Reject, StateHolders, Ended, Live
  <2> QED
    BY <1>1, <2>2, LogStutters DEF LogUntouched
<1>5. CASE StopAccepting(e) \/ PollToken(e) \/ Wait(e) \/ AcceptFails(e)
  <2>1. StateHolders' = StateHolders
    BY <1>1, <1>5 DEF StopAccepting, PollToken, Wait, AcceptFails, StateHolders, Ended,
       sessionVars
  <2> QED
    BY <1>1, <2>1, LogStutters DEF LogUntouched
<1>6. CASE \E c \in Conns : JoinSession(e, c) \/ JoinPanicked(e, c) \/ Accept(e, c)
  <2>1. \A d \in Conns : conn'[d] \in Live <=> conn[d] \in Live
    BY <1>6 DEF JoinSession, JoinPanicked, Accept, Live
  <2>2. \A f \in Endpoints : worker'[f] \in Ended \cup {"unborn"}
                               <=> worker[f] \in Ended \cup {"unborn"}
    BY <1>6 DEF JoinSession, JoinPanicked, Accept, Ended
  <2>3. StateHolders' = StateHolders
    BY <1>1, <2>1, <2>2 DEF StateHolders
  <2> QED
    BY <1>1, <2>3, LogStutters DEF LogUntouched
<1>7. \/ Drained(e) \/ Admit(e) \/ Reject(e)
      \/ StopAccepting(e) \/ PollToken(e) \/ Wait(e) \/ AcceptFails(e)
      \/ \E c \in Conns : JoinSession(e, c) \/ JoinPanicked(e, c) \/ Accept(e, c)
  BY DEF EndpointStep, EndpointActs
<1> QED
  BY <1>2, <1>3, <1>4, <1>5, <1>6, <1>7

\* The steps that befall the workers.
LEMMA WorkerUsesLog ==
  ASSUME UseInv, NEW w \in Workers,
         \/ AuxStep(w) /\ w \notin Endpoints
         \/ WorkerPanics(w) \/ AbortWorker(w) \/ WorkerLost(w) \/ JoinWorker(w)
  PROVE  LogProofs!Next \/ UNCHANGED LogProofs!vars
<1> USE DEF UseInv, SensorTypeOK, Go, Workers
<1>1. UNCHANGED <<conn, main, logVars>>
  BY DEF AuxStep, AuxStops, WorkerPanics, AbortWorker, WorkerLost, JoinWorker, mainVars,
     sessionVars
<1>2. server' \in {"ok", "err", "aborted"} <=> server \in {"ok", "err", "aborted"}
  BY DEF AuxStep, AuxStops, WorkerPanics, AbortWorker, WorkerLost, JoinWorker
<1>3. CASE w \in Endpoints /\ (WorkerPanics(w) \/ AbortWorker(w))
  <2>1. w \in StateHolders /\ w \in Holders /\ sending[w] = Log!NoRecord
    BY <1>3, SensorAssumption DEF WorkerPanics, AbortWorker, StateHolders, Holders, Ended,
       PushPending
  <2>2. \E p \in Ended : worker' = [worker EXCEPT ![w] = p]
    BY <1>3 DEF WorkerPanics, AbortWorker, Ended
  <2>3. StateHolders' = StateHolders \ {w}
    BY <1>1, <1>2, <1>3, <2>2, SensorAssumption DEF StateHolders, Ended
  <2> QED
    BY <1>1, <2>1, <2>3, HandleDropped
<1>4. CASE w \notin Endpoints \/ WorkerLost(w) \/ JoinWorker(w)
  <2>1. \E p : worker' = [worker EXCEPT ![w] = p]
    BY DEF AuxStep, AuxStops, WorkerPanics, AbortWorker, WorkerLost, JoinWorker
  <2>2. CASE w \notin Endpoints
    <3>1. StateHolders' = StateHolders
      BY <1>1, <1>2, <2>1, <2>2 DEF StateHolders
    <3> QED
      BY <1>1, <3>1, LogStutters DEF LogUntouched
  <2>3. CASE WorkerLost(w) \/ JoinWorker(w)
    <3>1. StateHolders' = StateHolders
      BY <1>1, <1>2, <2>3 DEF StateHolders, WorkerLost, JoinWorker, Joinable, Ended
    <3> QED
      BY <1>1, <3>1, LogStutters DEF LogUntouched
  <2> QED
    BY <1>4, <2>2, <2>3
<1> QED
  BY <1>3, <1>4 DEF AuxStep

\* The other steps of the server task.
LEMMA ServerUsesLog ==
  ASSUME UseInv, \/ SpawnWorkers \/ CheckCancelled \/ SetReady \/ ServerWaits
                 \/ ServerStops \/ CancelAll \/ ServerReturns \/ AbortServer
                 \/ ManagementFails
  PROVE  LogProofs!Next \/ UNCHANGED LogProofs!vars
<1> USE DEF UseInv, SensorTypeOK, Go, Workers
<1>1. UNCHANGED <<conn, logVars>>
  BY DEF SpawnWorkers, CheckCancelled, SetReady, ServerWaits, ServerStops, CancelAll,
     ServerReturns, AbortServer, ManagementFails, sessionVars
<1>2. CASE SpawnWorkers
  <2>1. Server \in StateHolders
    BY <1>2 DEF SpawnWorkers, StateHolders
  <2>2. StateHolders' = StateHolders \cup Endpoints
    BY <1>1, <1>2 DEF SpawnWorkers, StateHolders, Ended, mainVars
  <2>3. StateHolders \cap Endpoints = {} /\ Endpoints \subseteq Holders
    BY <1>2, SensorAssumption DEF SpawnWorkers, StateHolders, Unspawned, Holders
  <2>4. CASE Endpoints = {}
    BY <1>1, <2>2, <2>4, LogStutters DEF LogUntouched
  <2>5. CASE Endpoints # {}
    BY <1>1, <2>1, <2>2, <2>3, <2>5, HandlesCloned
  <2> QED
    BY <2>4, <2>5
<1>3. CASE ServerReturns \/ AbortServer
  <2>1. Server \in StateHolders /\ Server \in Holders /\ sending[Server] = Log!NoRecord
    BY <1>3, SensorAssumption DEF ServerReturns, AbortServer, StateHolders, Holders,
       PushPending
  <2>2. server' \in {"ok", "err", "aborted"} /\ worker' = worker
    BY <1>3 DEF ServerReturns, AbortServer
  <2>3. main' \in {"logger", "exit"} <=> main \in {"logger", "exit"}
    BY <1>3 DEF ServerReturns, AbortServer, mainVars
  <2>4. StateHolders' = StateHolders \ {Server}
    BY <1>1, <2>2, <2>3, SensorAssumption DEF StateHolders
  <2> QED
    BY <1>1, <2>1, <2>4, HandleDropped
<1>4. CASE CheckCancelled \/ SetReady \/ ServerWaits \/ ServerStops \/ CancelAll
  <2>1. StateHolders' = StateHolders
    BY <1>1, <1>4 DEF CheckCancelled, SetReady, ServerWaits, ServerStops, CancelAll,
       StateHolders, mainVars
  <2> QED
    BY <1>1, <2>1, LogStutters DEF LogUntouched
<1>5. CASE ManagementFails
  <2>1. StateHolders' = StateHolders
    BY <1>1, <1>5, SensorAssumption DEF ManagementFails, StateHolders, mainVars
  <2> QED
    BY <1>1, <2>1, LogStutters DEF LogUntouched
<1> QED
  BY <1>2, <1>3, <1>4, <1>5

\* The steps of the main task and of the writer.
LEMMA MainUsesLog ==
  ASSUME UseInv, \/ MainStep \/ Signal \/ SignalFails \/ AbortLogger
                 \/ WriterStep \/ WriterFails \/ OrphanLands
  PROVE  LogProofs!Next \/ UNCHANGED LogProofs!vars
<1> USE DEF UseInv, SensorTypeOK
<1>1. CASE DropState
  <2>1. Main \in StateHolders /\ Main \in Holders /\ sending[Main] = Log!NoRecord
    BY <1>1, SensorAssumption DEF DropState, StateHolders, Holders, PushPending
  <2>2. UNCHANGED <<conn, worker, server, logVars>> /\ main' = "logger"
    BY <1>1 DEF DropState, sessionVars, taskVars
  <2>3. StateHolders' = StateHolders \ {Main}
    BY <1>1, <2>2, SensorAssumption DEF DropState, StateHolders
  <2> QED
    BY <2>1, <2>2, <2>3, HandleDropped
<1>2. CASE \/ ServerFirst \/ LoggerFirst \/ CancelShutdown \/ FinishServer
           \/ FinishLogger \/ Signal \/ SignalFails
  <2>1. UNCHANGED <<conn, worker, server, logVars>>
    BY <1>2 DEF ServerFirst, LoggerFirst, CancelShutdown, FinishServer, FinishLogger,
       Signal, SignalFails, sessionVars, taskVars
  <2>2. main' \in {"logger", "exit"} <=> main \in {"logger", "exit"}
    BY <1>2 DEF ServerFirst, LoggerFirst, CancelShutdown, FinishServer, FinishLogger,
       Signal, SignalFails
  <2>3. StateHolders' = StateHolders
    BY <2>1, <2>2 DEF StateHolders
  <2> QED
    BY <2>1, <2>3, LogStutters DEF LogUntouched
<1>3. CASE AbortLogger
  <2>1. LogProofs!Abort
    BY <1>3 DEF AbortLogger, Log!Abort, Log!Leave, Log!NextSink, Log!NoRecord, Log!NoOrphan,
       Log!callVars, LogProofs!Abort, LogProofs!Leave, LogProofs!NextSink,
       LogProofs!NoRecord, LogProofs!NoOrphan, LogProofs!callVars
  <2> QED
    BY <2>1 DEF LogProofs!Next
<1>4. CASE WriterStep \/ WriterFails \/ OrphanLands
  <2>1. CASE WriterStep
    <3>1. \/ Log!Recv \/ Log!RecvNone \/ Log!WriteSink \/ Log!WriteDone
          \/ Log!MarkFailed \/ Log!CountLost
      BY <2>1 DEF WriterStep
    <3>2. ASSUME Log!MarkFailed PROVE LogProofs!MarkFailed
      <4>1. errors = 0 /\ errors' = 1
        BY <3>2 DEF Log!MarkFailed, Log!CountError, ErrorsInv
      <4> QED
        BY <3>2, <4>1 DEF Log!MarkFailed, Log!callVars, LogProofs!MarkFailed,
           LogProofs!CountError, LogProofs!callVars
    <3>3. \/ Log!Recv /\ LogProofs!Recv
          \/ Log!RecvNone /\ LogProofs!RecvNone
          \/ Log!WriteSink /\ LogProofs!WriteSink
          \/ Log!WriteDone /\ LogProofs!WriteDone
          \/ Log!MarkFailed /\ LogProofs!MarkFailed
          \/ Log!CountLost /\ LogProofs!CountLost
      BY <3>1, <3>2 DEF Log!Recv, Log!RecvNone, Log!WriteSink, Log!WriteDone, Log!CountLost,
         Log!Receivable, Log!Disconnected, Log!Leave, Log!NextSink, Log!Land, Log!Drop,
         Log!Lost, Log!callVars, Log!NoRecord,
         LogProofs!Recv, LogProofs!RecvNone, LogProofs!WriteSink, LogProofs!WriteDone,
         LogProofs!CountLost, LogProofs!Receivable, LogProofs!Disconnected, LogProofs!Leave,
         LogProofs!NextSink, LogProofs!Land, LogProofs!Drop, LogProofs!Lost,
         LogProofs!callVars, LogProofs!NoRecord
    <3> QED
      BY <3>3 DEF LogProofs!Next, LogProofs!Writer
  <2>2. CASE WriterFails
    <3>1. LogProofs!WriteFail
      BY <2>2 DEF WriterFails, Log!WriteFail, Log!NextSink, Log!NoOrphan, Log!callVars,
         LogProofs!WriteFail, LogProofs!NextSink, LogProofs!NoOrphan, LogProofs!callVars
    <3> QED
      BY <3>1 DEF LogProofs!Next, LogProofs!Writer
  <2>3. CASE OrphanLands
    <3>1. LogProofs!OrphanLands
      BY <2>3 DEF OrphanLands, Log!OrphanLands, Log!Land, Log!NoOrphan, Log!callVars,
         LogProofs!OrphanLands, LogProofs!Land, LogProofs!NoOrphan, LogProofs!callVars
    <3> QED
      BY <3>1 DEF LogProofs!Next
  <2> QED
    BY <1>4, <2>1, <2>2, <2>3
<1> QED
  BY <1>1, <1>2, <1>3, <1>4 DEF MainStep

\* Every step of the sensor is a step of the log, or none.
LEMMA StepUsesLog ==
  ASSUME UseInv, [Next]_vars
  PROVE  [LogProofs!Next]_(LogProofs!vars)
<1>1. CASE UNCHANGED vars
  <2>1. LogUntouched
    BY <1>1 DEF vars, sessionVars, taskVars, mainVars, LogUntouched, StateHolders
  <2> QED
    BY <2>1, LogStutters
<1>2. \A w \in {Management, Maintenance} : w \in Workers /\ w \notin Endpoints
  BY SensorAssumption DEF Workers
<1> QED
  BY <1>1, <1>2, SessionUsesLog, EndpointUsesLog, WorkerUsesLog, ServerUsesLog, MainUsesLog
  DEF Next, Environment, ServerStep, EndpointActs, Exited

\* The writer counts its error between the two steps that follow a failure.
LEMMA ErrorsKept ==
  ASSUME ErrorsInv, [LogProofs!Next]_(LogProofs!vars)
  PROVE  ErrorsInv'
BY DEF ErrorsInv, LogProofs!Next, LogProofs!vars, LogProofs!Log, LogProofs!LogClosed,
   LogProofs!LogFull, LogProofs!LogPermit, LogProofs!LogPush, LogProofs!CloneHandles,
   LogProofs!DropHandle, LogProofs!Writer, LogProofs!Recv, LogProofs!RecvNone,
   LogProofs!WriteSink, LogProofs!WriteDone, LogProofs!WriteFail, LogProofs!MarkFailed,
   LogProofs!CountError, LogProofs!CountLost, LogProofs!Leave, LogProofs!OrphanLands,
   LogProofs!Abort, LogProofs!Terminated, LogProofs!writerVars

\* The invariant of the log holds of the sensor's, and so do the conditions on
\* its use.
UsedLog == UseInv /\ LogProofs!IInv

\* Every step of the sensor keeps its use of the log as the log expects it.
LEMMA UsedLogKept ==
  ASSUME UsedLog, [Next]_vars
  PROVE  UsedLog'
<1>1. [LogProofs!Next]_(LogProofs!vars)
  BY StepUsesLog DEF UsedLog
<1>2. LogProofs!IInv'
  BY <1>1, LogAssumption, LogProofs!StepKeeps DEF UsedLog
<1>3. sending \in [Holders -> Nat]
  BY DEF UsedLog, LogProofs!IInv, LogProofs!LogTypeOK
<1>4. SensorTypeOK' /\ Placing' /\ Unspawned' /\ PushPending'
  BY <1>3, TypesKept, PlacingKept, UnspawnedKept, PushPendingKept DEF UsedLog, UseInv
<1>5. ErrorsInv'
  BY <1>1, ErrorsKept DEF UsedLog, UseInv
<1> QED
  BY <1>2, <1>4, <1>5 DEF UsedLog, UseInv

\* The log starts empty.
LEMMA LogStarts ==
  ASSUME Init
  PROVE  LogProofs!Init
<1>1. StateHolders = {Main, Server}
  BY DEF Init, StateHolders, Live, Workers
<1> QED
  BY <1>1, SensorAssumption DEF Init, LogProofs!Init, Log!NoRecord, Log!NoOrphan,
     Log!Reasons, LogProofs!NoRecord, LogProofs!NoOrphan, LogProofs!Reasons, Holders

\* The sensor starts with a log that is used as it should be.
LEMMA UsedLogStarts == Init => UsedLog
<1> SUFFICES ASSUME Init PROVE UsedLog
  OBVIOUS
<1>1. LogProofs!IInv
  BY LogStarts, LogAssumption, LogProofs!InitEstablishes
<1>2. SensorTypeOK
  <2>1. conn \in [Conns -> ConnPlaces] /\ home \in [Conns -> Endpoints]
        /\ reason \in [Conns -> {"none", "shutdown", "lifetime_limit", "protocol"}]
    BY DEF Init, ConnPlaces
  <2>2. worker \in [Workers -> WorkerPlaces] /\ taken \in [Endpoints -> Conns \cup {NoConn}]
    BY DEF Init, WorkerPlaces
  <2>3. permits \in Nat /\ active \in Int /\ failed \subseteq Endpoints \cup {Server}
    BY SensorAssumption DEF Init
  <2>4. server \in ServerPlaces /\ main \in MainPlaces /\ outcome \in {"ok", "err"}
    BY DEF Init, ServerPlaces, MainPlaces
  <2>5. /\ cancelled \in BOOLEAN /\ signalled \in BOOLEAN
        /\ faults \subseteq FaultKinds
        /\ ready \in {0, 1} /\ errors \in Nat
    BY DEF Init
  <2> QED
    BY <2>1, <2>2, <2>3, <2>4, <2>5 DEF SensorTypeOK
<1>3. Placing /\ Unspawned
  BY DEF Init, Placing, Unspawned, Workers
<1>4. PushPending /\ ErrorsInv
  BY DEF Init, PushPending, ErrorsInv, Holders
<1> QED
  BY <1>1, <1>2, <1>3, <1>4 DEF UsedLog, UseInv

\* The sensor uses the log as module Logger allows.
THEOREM SensorImplementsLogger == Spec => ImplementsLogger
<1>1. Init => LogProofs!Init
  BY LogStarts
<1>2. UsedLog /\ [Next]_vars => [LogProofs!Next]_(LogProofs!vars)
  BY StepUsesLog DEF UsedLog
<1>3. UsedLog /\ [Next]_vars => UsedLog'
  BY UsedLogKept
<1>4. Spec => LogProofs!Spec
  BY <1>1, <1>2, <1>3, UsedLogStarts, PTL DEF Spec, LogProofs!Spec
<1>5. LogProofs!Init <=> LogAsUsed!Init
  BY DEF LogProofs!Init, LogProofs!NoRecord, LogProofs!NoOrphan, LogProofs!Reasons,
     LogAsUsed!Init, LogAsUsed!NoRecord, LogAsUsed!NoOrphan, LogAsUsed!Reasons
<1>6. [LogProofs!Next]_(LogProofs!vars) <=> [LogAsUsed!Next]_(LogAsUsed!vars)
  BY DEF LogProofs!vars, LogAsUsed!vars, LogProofs!Next, LogAsUsed!Next,
     LogProofs!Log, LogAsUsed!Log, LogProofs!LogClosed, LogAsUsed!LogClosed,
     LogProofs!LogFull, LogAsUsed!LogFull, LogProofs!LogPermit, LogAsUsed!LogPermit,
     LogProofs!LogPush, LogAsUsed!LogPush, LogProofs!CloneHandles,
     LogAsUsed!CloneHandles, LogProofs!DropHandle, LogAsUsed!DropHandle,
     LogProofs!Calls, LogAsUsed!Calls, LogProofs!Overflow, LogAsUsed!Overflow,
     LogProofs!Drop, LogAsUsed!Drop, LogProofs!HasPermit, LogAsUsed!HasPermit,
     LogProofs!Reserved, LogAsUsed!Reserved, LogProofs!RxOpen, LogAsUsed!RxOpen,
     LogProofs!RxAlive, LogAsUsed!RxAlive, LogProofs!Writer, LogAsUsed!Writer,
     LogProofs!Recv, LogAsUsed!Recv, LogProofs!RecvNone, LogAsUsed!RecvNone,
     LogProofs!WriteSink, LogAsUsed!WriteSink, LogProofs!WriteDone,
     LogAsUsed!WriteDone, LogProofs!WriteFail, LogAsUsed!WriteFail,
     LogProofs!MarkFailed, LogAsUsed!MarkFailed, LogProofs!CountError,
     LogAsUsed!CountError, LogProofs!CountLost, LogAsUsed!CountLost, LogProofs!Lost,
     LogAsUsed!Lost, LogProofs!Leave, LogAsUsed!Leave, LogProofs!Land,
     LogAsUsed!Land, LogProofs!NextSink, LogAsUsed!NextSink, LogProofs!Receivable,
     LogAsUsed!Receivable, LogProofs!Disconnected, LogAsUsed!Disconnected,
     LogProofs!OrphanLands, LogAsUsed!OrphanLands, LogProofs!Abort, LogAsUsed!Abort,
     LogProofs!Terminated, LogAsUsed!Terminated, LogProofs!Over, LogAsUsed!Over,
     LogProofs!callVars, LogAsUsed!callVars, LogProofs!writerVars,
     LogAsUsed!writerVars, LogProofs!NoRecord, LogAsUsed!NoRecord,
     LogProofs!NoOrphan, LogAsUsed!NoOrphan, LogProofs!Cardinality,
     LogAsUsed!Cardinality
<1> QED
  BY <1>4, <1>5, <1>6, PTL DEF ImplementsLogger, LogProofs!Spec, LogAsUsed!Spec

-----------------------------------------------------------------------------
(* The end of the sensor: what a server that has returned leaves behind,   *)
(* which failures reach the exit status, what a clean exit promises, and   *)
(* what /readyz says meanwhile.                                            *)

\* No connection of an endpoint is in any task.
Quiet(e) ==
  \A c \in Conns : home[c] = e => conn[c] \in {"idle", "rejected", "gone"}

\* What has asked everything to stop.
StopInv ==
  /\ \A w \in Workers : worker[w] \in {"ok", "err", "drain"} => cancelled
  /\ server \in {"drain", "ok", "err"} => cancelled
  /\ main \notin {"select", "cancel"} => cancelled

\* An endpoint returns when its sessions have ended; one that panicked does
\* not, but is noticed when it is joined.  The server joins every worker.
DrainInv ==
  /\ \A e \in Endpoints :
       /\ worker[e] \in {"ok", "err"} => Quiet(e)
       /\ worker[e] = "reaped" =>
            Quiet(e) \/ ("worker" \in faults /\ Server \in failed)
  /\ server \in {"ok", "err"} => \A w \in Workers : worker[w] = "reaped"

\* No task fails, panics, is aborted or sets its `failure` without a fault.
BlameInv ==
  /\ \A w \in Workers :
       /\ worker[w] = "panicked" => "worker" \in faults
       /\ worker[w] = "err" => faults # {}
       /\ worker[w] = "aborted" => server = "aborted"
  /\ \A c \in Conns : conn[c] = "panicked" => "panic" \in faults
  /\ failed # {} => faults # {}
  /\ server = "err" => Server \in failed
  /\ server = "ok" => Server \notin failed
  /\ server = "aborted" <=> "server_grace" \in faults
  /\ writer \in {"mark", "count", "failed"} <=> "writer" \in faults
  /\ writer = "aborted" => main = "exit"
  /\ outcome = "err" => faults # {}

\* A fault that the server has not noticed and that did not end it is still
\* before the eyes of the task that has to notice it.
Noticeable ==
  /\ "accept" \in faults => failed # {}
  /\ "panic" \in faults => failed # {} \/ \E c \in Conns : conn[c] = "panicked"
  /\ "management" \in faults => worker[Management] = "err"
  /\ "worker" \in faults => \E w \in Workers : worker[w] = "panicked"
  /\ \A e \in failed : worker[e] \in {"drain", "err"}

\* No fault is forgotten on its way to the outcome of main.
AlarmInv ==
  /\ "signal" \in faults \/ "logger_grace" \in faults => outcome = "err"
  /\ server = "aborted" => outcome = "err"
  /\ Server \notin failed /\ server # "aborted" => Noticeable
  /\ main \in {"drop", "logger", "exit"} =>
       /\ server \in {"ok", "err", "aborted"}
       /\ server = "err" => outcome = "err"
  /\ main = "exit" => Log!Over /\ (writer # "ended" => outcome = "err")

\* The gauge is up only while the server runs, and a server that has still to
\* be aborted where it waits has it down already.
ReadyInv ==
  /\ ready = 1 => server \in {"poll", "select", "stop"}
  /\ main \notin {"select", "cancel"} /\ ready = 1 => server \in {"poll", "stop"}

-----------------------------------------------------------------------------
(* Stopping and draining                                                   *)

\* The shutdown token is never taken back.
LEMMA StaysCancelled ==
  ASSUME SensorTypeOK, [Next]_vars, cancelled
  PROVE  cancelled'
<1>1. ASSUME NEW e \in Endpoints, EndpointStep(e) \/ EndpointActs(e) PROVE cancelled'
  BY <1>1 DEF EndpointStep, EndpointActs, StopAccepting, Reject, Drained, JoinSession,
     JoinPanicked, PollToken, Wait, AcceptFails, Admit, Accept
<1>2. CASE \/ \E w \in Workers : AuxStep(w) \/ WorkerPanics(w) \/ AbortWorker(w)
           \/ ManagementFails \/ ServerStep \/ AbortServer
  BY <1>2 DEF AuxStep, AuxStops, WorkerPanics, AbortWorker, ManagementFails, ServerStep,
     SpawnWorkers, CheckCancelled, SetReady, ServerWaits, ServerStops, CancelAll,
     ServerReturns, WorkerLost, JoinWorker, AbortServer
<1>3. CASE MainStep \/ Signal \/ SignalFails \/ AbortLogger
  BY <1>3 DEF MainStep, ServerFirst, LoggerFirst, CancelShutdown, FinishServer, DropState,
     FinishLogger, Signal, SignalFails, AbortLogger
<1>4. CASE \/ \E c \in Conns : SessionStep(c) \/ PanicSession(c)
           \/ WriterStep \/ WriterFails \/ OrphanLands \/ UNCHANGED vars
  BY <1>4, SessionFrame, WriterFrame DEF vars
<1> QED
  BY <1>1, <1>2, <1>3, <1>4 DEF Next, Environment, EndpointActs, Exited, Workers

\* Whoever stops for the shutdown, or makes others stop, leaves it requested.
LEMMA StopKept ==
  ASSUME SensorTypeOK, StopInv, [Next]_vars
  PROVE  StopInv'
<1> USE DEF SensorTypeOK, Go, Workers
<1>1. CASE cancelled
  BY <1>1, StaysCancelled DEF StopInv
<1>2. CASE ~cancelled
  <2>1. ASSUME NEW e \in Endpoints, EndpointStep(e) \/ EndpointActs(e) PROVE StopInv'
    BY <1>2, <2>1 DEF StopInv, EndpointStep, EndpointActs, StopAccepting, Reject, Drained,
       JoinSession, JoinPanicked, PollToken, Wait, AcceptFails, Admit, Accept, mainVars
  <2>2. ASSUME NEW w \in Workers, \/ AuxStep(w) \/ WorkerPanics(w) \/ AbortWorker(w)
                                  \/ WorkerLost(w) \/ JoinWorker(w)
        PROVE  StopInv'
    BY <1>2, <2>2 DEF StopInv, AuxStep, AuxStops, WorkerPanics, AbortWorker, WorkerLost,
       JoinWorker, mainVars
  <2>3. CASE \/ ManagementFails \/ SpawnWorkers \/ CheckCancelled \/ SetReady
             \/ ServerWaits \/ ServerStops \/ CancelAll \/ ServerReturns
    BY <1>2, <2>3 DEF StopInv, ManagementFails, SpawnWorkers, CheckCancelled, SetReady,
       ServerWaits, ServerStops, CancelAll, ServerReturns, mainVars
  <2>4. CASE MainStep \/ Signal \/ SignalFails \/ AbortLogger \/ AbortServer
    BY <1>2, <2>4 DEF StopInv, MainStep, ServerFirst, LoggerFirst, CancelShutdown,
       FinishServer, DropState, FinishLogger, Signal, SignalFails, AbortLogger, AbortServer,
       taskVars
  <2>5. CASE \/ \E c \in Conns : SessionStep(c) \/ PanicSession(c)
             \/ WriterStep \/ WriterFails \/ OrphanLands \/ UNCHANGED vars
    BY <2>5, SessionFrame, WriterFrame DEF StopInv, vars, taskVars, mainVars
  <2> QED
    BY <2>1, <2>2, <2>3, <2>4, <2>5
    DEF Next, Environment, EndpointActs, ServerStep, Exited
<1> QED
  BY <1>1, <1>2

\* Faults are remembered, and so is the failure of the server.
LEMMA FaultsStay ==
  ASSUME [Next]_vars
  PROVE  faults \subseteq faults' /\ failed \subseteq failed'
<1>1. ASSUME NEW e \in Endpoints, EndpointStep(e) \/ EndpointActs(e)
      PROVE  faults \subseteq faults' /\ failed \subseteq failed'
  BY <1>1 DEF EndpointStep, EndpointActs, StopAccepting, Reject, Drained, JoinSession,
     JoinPanicked, PollToken, Wait, AcceptFails, Admit, Accept, Fault
<1>2. CASE \/ \E w \in Workers : AuxStep(w) \/ WorkerPanics(w) \/ AbortWorker(w)
           \/ ManagementFails \/ ServerStep \/ AbortServer
  BY <1>2 DEF AuxStep, AuxStops, WorkerPanics, AbortWorker, ManagementFails, ServerStep,
     SpawnWorkers, CheckCancelled, SetReady, ServerWaits, ServerStops, CancelAll,
     ServerReturns, WorkerLost, JoinWorker, AbortServer, Fault
<1>3. CASE MainStep \/ Signal \/ SignalFails \/ AbortLogger
  BY <1>3 DEF MainStep, ServerFirst, LoggerFirst, CancelShutdown, FinishServer, DropState,
     FinishLogger, Signal, SignalFails, AbortLogger, Fault, taskVars
<1>4. CASE \/ \E c \in Conns : SessionStep(c) \/ PanicSession(c)
           \/ WriterStep \/ WriterFails \/ OrphanLands \/ UNCHANGED vars
  BY <1>4 DEF vars, taskVars, SessionStep, StartSession, CloseSession, LogSession,
     PushRecord, EndSession, AbortSession, PanicSession, TasksUntouched, WriterStep,
     WriterFails, OrphanLands, Fault, Log!Log, Log!LogClosed, Log!LogFull, Log!LogPermit,
     Log!LogPush
<1> QED
  BY <1>1, <1>2, <1>3, <1>4 DEF Next, Environment, EndpointActs, Exited, Workers

\* Each endpoint that has returned has drained its sessions, and the server
\* returns when every worker has.
LEMMA DrainKept ==
  ASSUME SensorTypeOK, Placing, Unspawned, BlameInv, DrainInv, [Next]_vars
  PROVE  DrainInv'
<1> USE DEF SensorTypeOK, Go, MoveTo, Workers
<1>f. faults \subseteq faults' /\ failed \subseteq failed'
  BY FaultsStay
<1>1. ASSUME NEW c \in Conns, SessionStep(c) \/ PanicSession(c) PROVE DrainInv'
  <2>1. UNCHANGED <<home, worker, server>>
    BY <1>1, SessionFrame DEF taskVars
  <2>2. conn[c] \in Live /\ \E p : MoveTo(c, p)
    BY <1>1 DEF SessionStep, StartSession, CloseSession, LogSession, PushRecord, EndSession,
       AbortSession, PanicSession, Unwind, Abortable, Live
  <2>3. ~Quiet(home[c])
    BY <2>2 DEF Quiet, Live
  <2>4. \A e \in Endpoints : Quiet(e) => Quiet(e)'
    BY <2>1, <2>2, <2>3 DEF Quiet
  <2> QED
    BY <1>f, <2>1, <2>4 DEF DrainInv
<1>2. ASSUME NEW e \in Endpoints, EndpointStep(e) \/ EndpointActs(e) PROVE DrainInv'
  <2>1. home' = home /\ server' = server /\ worker[e] \in {"loop", "polled", "placing", "drain"}
    BY <1>2 DEF EndpointStep, EndpointActs, StopAccepting, Reject, Drained, JoinSession,
       JoinPanicked, PollToken, Wait, AcceptFails, Admit, Accept, sessionVars
  <2>2. \/ \E p \in {"loop", "polled", "placing", "drain"} : Go(e, p)
        \/ Drained(e)
    BY <1>2 DEF EndpointStep, EndpointActs, StopAccepting, Reject, JoinSession,
       JoinPanicked, PollToken, Wait, AcceptFails, Admit, Accept
  <2>3. conn' = conn \/ \E c \in Conns : \E p : home[c] = e /\ MoveTo(c, p)
    <3>1. CASE Reject(e) \/ Admit(e)
      <4>1. taken[e] \in Conns /\ home[taken[e]] = e
        BY <3>1 DEF Reject, Admit, Placing
      <4>2. MoveTo(taken[e], "rejected") \/ MoveTo(taken[e], "spawned")
        BY <3>1 DEF Reject, Admit
      <4> QED
        BY <4>1, <4>2
    <3>2. CASE \E c \in Conns : JoinSession(e, c) \/ JoinPanicked(e, c) \/ Accept(e, c)
      <4>1. \E c \in Conns : home[c] = e /\ (MoveTo(c, "gone") \/ MoveTo(c, "accepted"))
        BY <3>2 DEF JoinSession, JoinPanicked, Accept
      <4> QED
        BY <4>1
    <3>3. CASE StopAccepting(e) \/ Drained(e) \/ PollToken(e) \/ Wait(e) \/ AcceptFails(e)
      BY <3>3 DEF StopAccepting, Drained, PollToken, Wait, AcceptFails, sessionVars
    <3> QED
      BY <1>2, <3>1, <3>2, <3>3 DEF EndpointStep, EndpointActs
  <2>4. \A f \in Endpoints : f # e => worker'[f] = worker[f] /\ (Quiet(f) => Quiet(f)')
    BY <2>1, <2>2, <2>3 DEF Quiet, Drained
  <2>5. server \notin {"ok", "err"}
    BY <2>1 DEF DrainInv
  <2>6. CASE \E p \in {"loop", "polled", "placing", "drain"} : Go(e, p)
    BY <1>f, <2>1, <2>4, <2>5, <2>6 DEF DrainInv
  <2>7. CASE Drained(e)
    <3>1. Quiet(e)'
      BY <2>1, <2>7 DEF Drained, AllJoined, SessionsOf, Quiet, Placing, sessionVars, ConnPlaces
    <3>2. worker'[e] \in {"ok", "err"}
      BY <2>7 DEF Drained
    <3> QED
      BY <1>f, <2>1, <2>4, <2>5, <3>1, <3>2 DEF DrainInv
  <2> QED
    BY <2>2, <2>6, <2>7
<1>3. ASSUME NEW w \in Workers, \/ AuxStep(w) /\ w \notin Endpoints
                                \/ WorkerPanics(w) \/ AbortWorker(w)
                                \/ WorkerLost(w) \/ JoinWorker(w)
      PROVE  DrainInv'
  <2>1. UNCHANGED <<conn, home>> /\ worker[w] # "reaped"
    BY <1>3 DEF AuxStep, AuxStops, WorkerPanics, AbortWorker, WorkerLost, JoinWorker, Joinable,
       sessionVars
  <2>2. server \notin {"ok", "err"} /\ server' \notin {"ok", "err"}
    BY <1>3, <2>1 DEF AuxStep, AuxStops, WorkerPanics, AbortWorker, WorkerLost, JoinWorker,
       DrainInv
  <2>3. \A e \in Endpoints : Quiet(e) => Quiet(e)'
    BY <2>1 DEF Quiet
  <2>4. \A e \in Endpoints : e # w => worker'[e] = worker[e]
    BY <1>3 DEF AuxStep, AuxStops, WorkerPanics, AbortWorker, WorkerLost, JoinWorker
  <2>5. CASE w \notin Endpoints
    BY <1>f, <2>2, <2>3, <2>4, <2>5 DEF DrainInv
  <2>6. CASE w \in Endpoints /\ (WorkerPanics(w) \/ AbortWorker(w))
    <3>1. worker'[w] \in {"panicked", "aborted"}
      BY <2>6 DEF WorkerPanics, AbortWorker
    <3> QED
      BY <1>f, <2>2, <2>3, <2>4, <2>6, <3>1 DEF DrainInv
  <2>7. CASE w \in Endpoints /\ (WorkerLost(w) \/ JoinWorker(w))
    <3>1. worker'[w] = "reaped"
      BY <2>7 DEF WorkerLost, JoinWorker
    <3>2. CASE worker[w] = "panicked"
      <4>1. "worker" \in faults /\ Server \in failed'
        BY <2>7, <3>2 DEF WorkerLost, JoinWorker, Failed, BlameInv
      <4> QED
        BY <1>f, <2>2, <2>3, <2>4, <2>7, <3>1, <4>1 DEF DrainInv
    <3>3. CASE worker[w] \in {"ok", "err"}
      <4>1. Quiet(w)'
        BY <2>3, <2>7, <3>3 DEF DrainInv
      <4> QED
        BY <1>f, <2>2, <2>3, <2>4, <2>7, <3>1, <4>1 DEF DrainInv
    <3> QED
      BY <2>7, <3>2, <3>3 DEF WorkerLost, JoinWorker, Joinable
  <2> QED
    BY <1>3, <2>5, <2>6, <2>7
<1>4. CASE SpawnWorkers
  BY <1>4, SensorAssumption DEF SpawnWorkers, DrainInv
<1>5. CASE \/ ManagementFails \/ CheckCancelled \/ SetReady \/ ServerWaits \/ ServerStops
           \/ CancelAll \/ ServerReturns \/ AbortServer
  <2>1. UNCHANGED <<conn, home>>
    BY <1>5 DEF ManagementFails, CheckCancelled, SetReady, ServerWaits, ServerStops,
       CancelAll, ServerReturns, AbortServer, sessionVars
  <2>2. \A e \in Endpoints : worker'[e] = worker[e] /\ (Quiet(e) => Quiet(e)')
    BY <1>5, <2>1, SensorAssumption DEF ManagementFails, CheckCancelled, SetReady,
       ServerWaits, ServerStops, CancelAll, ServerReturns, AbortServer, Quiet
  <2>3. server' \in {"ok", "err"} => \A w \in Workers : worker'[w] = "reaped"
    BY <1>5 DEF ManagementFails, CheckCancelled, SetReady, ServerWaits, ServerStops,
       CancelAll, ServerReturns, AbortServer, DrainInv
  <2> QED
    BY <1>f, <2>2, <2>3 DEF DrainInv
<1>6. CASE \/ MainStep \/ Signal \/ SignalFails \/ AbortLogger
           \/ WriterStep \/ WriterFails \/ OrphanLands \/ UNCHANGED vars
  <2>1. UNCHANGED <<conn, home, worker, server>>
    BY <1>6, MainFrame, WriterFrame DEF vars, sessionVars, taskVars
  <2> QED
    BY <1>f, <2>1 DEF DrainInv, Quiet
<1>7. \A w \in {Management, Maintenance} : w \in Workers /\ w \notin Endpoints
  BY SensorAssumption
<1> QED
  BY <1>1, <1>2, <1>3, <1>4, <1>5, <1>6, <1>7
  DEF Next, Environment, EndpointActs, ServerStep, Exited

-----------------------------------------------------------------------------
(* Faults and failures                                                     *)

\* A writer that has ended was the last to hold on to the log.
LEMMA EndedAlone ==
  ASSUME UsedLog, writer = "ended"
  PROVE  main \in {"logger", "exit"} /\ server \in {"ok", "err", "aborted"}
<1>1. StateHolders = {}
  BY DEF UsedLog, LogProofs!IInv, LogProofs!CountsInv
<1> QED
  BY <1>1 DEF StateHolders

\* No failure comes out of nothing.
LEMMA BlameKept ==
  ASSUME UsedLog, StopInv, BlameInv, [Next]_vars
  PROVE  BlameInv'
<1> USE DEF UsedLog, UseInv, SensorTypeOK, Go, MoveTo, Workers
<1>1. ASSUME NEW c \in Conns, SessionStep(c) PROVE BlameInv'
  <2>1. UNCHANGED <<worker, failed, server, main, outcome, faults>>
    BY <1>1 DEF SessionStep, StartSession, CloseSession, LogSession, PushRecord, EndSession,
       AbortSession, TasksUntouched, taskVars, mainVars, Log!Log, Log!LogClosed,
       Log!LogFull, Log!LogPermit, Log!LogPush
  <2>2. writer' = writer
    BY <1>1 DEF SessionStep, StartSession, CloseSession, LogSession, PushRecord, EndSession,
       AbortSession, logVars, logWriterVars, Log!Log, Log!LogClosed, Log!LogFull,
       Log!LogPermit, Log!LogPush, Log!writerVars
  <2>3. \A d \in Conns : conn'[d] = "panicked" => conn[d] = "panicked"
    BY <1>1 DEF SessionStep, StartSession, CloseSession, LogSession, PushRecord, EndSession,
       AbortSession, Unwind
  <2> QED
    BY <2>1, <2>2, <2>3 DEF BlameInv
<1>2. ASSUME NEW c \in Conns, PanicSession(c) PROVE BlameInv'
  BY <1>2 DEF PanicSession, Unwind, Fault, BlameInv, taskVars, mainVars, logVars,
     logWriterVars
<1>3. ASSUME NEW e \in Endpoints, EndpointStep(e) \/ EndpointActs(e) PROVE BlameInv'
  <2>1. UNCHANGED <<server, main, outcome, writer>>
    BY <1>3 DEF EndpointStep, EndpointActs, StopAccepting, Reject, Drained, JoinSession,
       JoinPanicked, PollToken, Wait, AcceptFails, Admit, Accept, mainVars, logVars,
       logWriterVars
  <2>2. CASE AcceptFails(e)
    BY <2>1, <2>2, SensorAssumption DEF AcceptFails, Fault, BlameInv, sessionVars
  <2>3. CASE Drained(e)
    BY <2>1, <2>3 DEF Drained, BlameInv, sessionVars
  <2>4. CASE Reject(e) \/ Admit(e)
    BY <2>1, <2>4 DEF Reject, Admit, BlameInv
  <2>5. CASE StopAccepting(e) \/ PollToken(e) \/ Wait(e)
    BY <2>1, <2>5 DEF StopAccepting, PollToken, Wait, BlameInv, sessionVars
  <2>6. ASSUME NEW c \in Conns, JoinSession(e, c) \/ JoinPanicked(e, c) \/ Accept(e, c)
        PROVE  BlameInv'
    BY <2>1, <2>6, SensorAssumption DEF JoinSession, JoinPanicked, Accept, BlameInv
  <2> QED
    BY <1>3, <2>2, <2>3, <2>4, <2>5, <2>6 DEF EndpointStep, EndpointActs
<1>4. ASSUME NEW w \in Workers, \/ AuxStep(w) \/ WorkerPanics(w) \/ AbortWorker(w)
                                \/ WorkerLost(w) \/ JoinWorker(w)
      PROVE  BlameInv'
  <2>1. UNCHANGED <<conn, main, outcome, writer>>
    BY <1>4 DEF AuxStep, AuxStops, WorkerPanics, AbortWorker, WorkerLost, JoinWorker,
       sessionVars, mainVars, logVars, logWriterVars
  <2>2. CASE AuxStep(w) \/ WorkerPanics(w) \/ AbortWorker(w)
    BY <2>1, <2>2 DEF AuxStep, AuxStops, WorkerPanics, AbortWorker, Fault, BlameInv
  <2>3. CASE WorkerLost(w) \/ JoinWorker(w)
    <3>1. faults' = faults /\ server \notin {"ok", "err", "aborted"}
                           /\ server' \notin {"ok", "err", "aborted"}
      BY <2>3 DEF WorkerLost, JoinWorker
    <3>2. failed' # {} => faults # {}
      BY <2>3 DEF WorkerLost, JoinWorker, Joinable, Failed, StopInv, BlameInv
    <3>3. \A v \in Workers : v # w => worker'[v] = worker[v]
      BY <2>3 DEF WorkerLost, JoinWorker
    <3>4. worker'[w] = "reaped"
      BY <2>3 DEF WorkerLost, JoinWorker
    <3> QED
      BY <2>1, <3>1, <3>2, <3>3, <3>4 DEF BlameInv
  <2> QED
    BY <1>4, <2>2, <2>3
<1>5. CASE \/ SpawnWorkers \/ CheckCancelled \/ SetReady \/ ServerWaits \/ ServerStops
           \/ CancelAll \/ ServerReturns
  BY <1>5 DEF SpawnWorkers, CheckCancelled, SetReady, ServerWaits, ServerStops, CancelAll,
     ServerReturns, BlameInv, sessionVars, mainVars, logVars, logWriterVars
<1>6. CASE ManagementFails
  BY <1>6 DEF ManagementFails, Fault, BlameInv, sessionVars, mainVars, logVars, logWriterVars
<1>7. CASE MainStep
  <2>1. UNCHANGED <<conn, worker, failed, server, faults, writer>>
    BY <1>7 DEF MainStep, ServerFirst, LoggerFirst, CancelShutdown, FinishServer, DropState,
       FinishLogger, sessionVars, taskVars, logVars, logWriterVars
  <2>2. outcome' = "err" => faults # {}
    <3>1. CASE ServerFirst \/ FinishServer
      BY <3>1 DEF ServerFirst, FinishServer, Merge, BlameInv
    <3>2. CASE LoggerFirst
      BY <3>2, EndedAlone DEF LoggerFirst, Log!Over, BlameInv
    <3>3. CASE FinishLogger
      BY <3>3 DEF FinishLogger, Merge, BlameInv
    <3>4. CASE CancelShutdown \/ DropState
      BY <3>4 DEF CancelShutdown, DropState, BlameInv
    <3> QED
      BY <1>7, <3>1, <3>2, <3>3, <3>4 DEF MainStep
  <2>3. main = "exit" => main' = "exit"
    BY <1>7 DEF MainStep, ServerFirst, LoggerFirst, CancelShutdown, FinishServer, DropState,
       FinishLogger
  <2> QED
    BY <2>1, <2>2, <2>3 DEF BlameInv
<1>8. CASE Signal \/ SignalFails \/ AbortServer
  BY <1>8 DEF Signal, SignalFails, AbortServer, Fault, Merge, BlameInv, sessionVars, taskVars,
     logVars, logWriterVars
<1>9. CASE AbortLogger
  <2>1. /\ UNCHANGED <<conn, worker, failed, server>> /\ main' = "exit"
        /\ faults' = faults \cup {"logger_grace"}
    BY <1>9 DEF AbortLogger, Fault, sessionVars, taskVars
  <2>2. writer \in {"recv", "write"} /\ writer' = "aborted"
    BY <1>9 DEF AbortLogger, Log!Abort, Log!Leave
  <2> QED
    BY <2>1, <2>2 DEF BlameInv
<1>10. CASE WriterStep \/ OrphanLands
  <2>1. UNCHANGED <<conn, worker, failed, server, main, outcome, faults>>
    BY <1>10 DEF WriterStep, OrphanLands, sessionVars, taskVars, mainVars
  <2>2. writer' \in {"mark", "count", "failed"} <=> writer \in {"mark", "count", "failed"}
    BY <1>10 DEF WriterStep, OrphanLands, Log!Recv, Log!RecvNone, Log!WriteSink,
       Log!WriteDone, Log!MarkFailed, Log!CountLost, Log!Leave, Log!OrphanLands
  <2>3. writer' = "aborted" => writer = "aborted"
    BY <1>10 DEF WriterStep, OrphanLands, Log!Recv, Log!RecvNone, Log!WriteSink,
       Log!WriteDone, Log!MarkFailed, Log!CountLost, Log!Leave, Log!OrphanLands
  <2> QED
    BY <2>1, <2>2, <2>3 DEF BlameInv
<1>11. CASE WriterFails
  BY <1>11 DEF WriterFails, Fault, Log!WriteFail, BlameInv, sessionVars, taskVars, mainVars
<1>12. CASE UNCHANGED vars
  BY <1>12 DEF vars, sessionVars, taskVars, mainVars, logVars, logWriterVars, BlameInv
<1> QED
  BY <1>1, <1>2, <1>3, <1>4, <1>5, <1>6, <1>7, <1>8, <1>9, <1>10, <1>11, <1>12
  DEF Next, Environment, EndpointActs, ServerStep, Exited

\* Until the server has noticed a failure, what it has to notice stays.
LEMMA NoticeKept ==
  ASSUME UsedLog, StopInv, BlameInv, AlarmInv, [Next]_vars,
         Server \notin failed', server' # "aborted"
  PROVE  Noticeable'
<1> USE DEF UsedLog, UseInv, SensorTypeOK, Go, MoveTo, Workers
<1>n. Noticeable
  <2>1. Server \notin failed
    BY FaultsStay
  <2>2. server # "aborted"
    <3>1. server = "aborted" => "server_grace" \in faults'
      BY FaultsStay DEF BlameInv
    <3>2. "server_grace" \in faults' => server' = "aborted"
      BY BlameKept DEF BlameInv
    <3> QED
      BY <3>1, <3>2
  <2> QED
    BY <2>1, <2>2 DEF AlarmInv
<1>e. failed \subseteq Endpoints /\ failed' \subseteq Endpoints
  BY FaultsStay, TypesKept
<1>1. ASSUME NEW c \in Conns, SessionStep(c) PROVE Noticeable'
  <2>1. UNCHANGED <<worker, failed, faults>>
    BY <1>1 DEF SessionStep, StartSession, CloseSession, LogSession, PushRecord, EndSession,
       AbortSession, TasksUntouched, taskVars, Log!Log, Log!LogClosed, Log!LogFull,
       Log!LogPermit, Log!LogPush
  <2>2. conn[c] # "panicked" /\ \E p : MoveTo(c, p)
    BY <1>1 DEF SessionStep, StartSession, CloseSession, LogSession, PushRecord, EndSession,
       AbortSession, Unwind, Abortable
  <2> QED
    BY <1>n, <2>1, <2>2 DEF Noticeable
<1>2. ASSUME NEW c \in Conns, PanicSession(c) PROVE Noticeable'
  <2>1. UNCHANGED <<worker, failed>> /\ faults' = faults \cup {"panic"}
    BY <1>2 DEF PanicSession, Fault, taskVars
  <2>2. conn'[c] = "panicked"
    BY <1>2 DEF PanicSession, Unwind
  <2> QED
    BY <1>n, <2>1, <2>2 DEF Noticeable
<1>3. ASSUME NEW e \in Endpoints, EndpointStep(e) \/ EndpointActs(e) PROVE Noticeable'
  <2>1. /\ worker[e] \notin {"err", "panicked"} /\ e # Management
        /\ \A w \in Workers : w # e => worker'[w] = worker[w]
    BY <1>3, SensorAssumption DEF EndpointStep, EndpointActs, StopAccepting, Reject, Drained,
       JoinSession, JoinPanicked, PollToken, Wait, AcceptFails, Admit, Accept
  <2>2. CASE AcceptFails(e)
    BY <1>n, <1>e, <2>1, <2>2 DEF AcceptFails, Fault, Noticeable, sessionVars
  <2>3. CASE \E c \in Conns : JoinPanicked(e, c)
    <3>1. failed' = failed \cup {e} /\ faults' = faults /\ worker'[e] = "drain"
      BY <2>3 DEF JoinPanicked
    <3> QED
      BY <1>n, <1>e, <2>1, <3>1 DEF Noticeable
  <2>4. CASE \/ StopAccepting(e) \/ Drained(e) \/ PollToken(e) \/ Wait(e)
             \/ Reject(e) \/ Admit(e)
             \/ \E c \in Conns : JoinSession(e, c) \/ Accept(e, c)
    <3>1. failed' = failed /\ faults' = faults
      BY <2>4 DEF StopAccepting, Drained, PollToken, Wait, Reject, Admit, JoinSession, Accept
    <3>2. e \in failed => worker'[e] \in {"drain", "err"}
      BY <1>n, <2>4 DEF StopAccepting, Drained, PollToken, Wait, Reject, Admit, JoinSession,
         Accept, Noticeable
    <3>3. \A c \in Conns : conn[c] = "panicked" => conn'[c] = "panicked"
      <4>1. CASE Reject(e) \/ Admit(e)
        <5>1. conn[taken[e]] = "accepted"
          BY <4>1 DEF Reject, Admit, Placing
        <5>2. MoveTo(taken[e], "rejected") \/ MoveTo(taken[e], "spawned")
          BY <4>1 DEF Reject, Admit
        <5> QED
          BY <5>1, <5>2
      <4>2. CASE \E c \in Conns : JoinSession(e, c) \/ Accept(e, c)
        <5>1. \E c \in Conns : conn[c] # "panicked" /\ (MoveTo(c, "gone") \/ MoveTo(c, "accepted"))
          BY <4>2 DEF JoinSession, Accept
        <5> QED
          BY <5>1
      <4>3. CASE StopAccepting(e) \/ Drained(e) \/ PollToken(e) \/ Wait(e)
        BY <4>3 DEF StopAccepting, Drained, PollToken, Wait, sessionVars
      <4> QED
        BY <2>4, <4>1, <4>2, <4>3
    <3> QED
      BY <1>n, <1>e, <2>1, <3>1, <3>2, <3>3 DEF Noticeable
  <2> QED
    BY <1>3, <2>2, <2>3, <2>4 DEF EndpointStep, EndpointActs
<1>4. ASSUME NEW w \in Workers, \/ AuxStep(w) \/ WorkerPanics(w) \/ AbortWorker(w)
                                \/ WorkerLost(w) \/ JoinWorker(w)
      PROVE  Noticeable'
  <2>1. conn' = conn /\ \A v \in Workers : v # w => worker'[v] = worker[v]
    BY <1>4 DEF AuxStep, AuxStops, WorkerPanics, AbortWorker, WorkerLost, JoinWorker,
       sessionVars
  <2>2. CASE AuxStep(w)
    BY <1>n, <1>e, <2>1, <2>2 DEF AuxStep, AuxStops, Noticeable
  <2>3. CASE WorkerPanics(w)
    <3>1. /\ worker[w] \in {"loop", "polled"} /\ worker'[w] = "panicked"
          /\ faults' = faults \cup {"worker"} /\ failed' = failed
      BY <2>3 DEF WorkerPanics, Fault
    <3> QED
      BY <1>n, <1>e, <2>1, <3>1 DEF Noticeable
  <2>4. CASE AbortWorker(w)
    BY <2>4 DEF AbortWorker
  <2>5. CASE WorkerLost(w)
    BY <2>5 DEF WorkerLost
  <2>6. CASE JoinWorker(w)
    <3>1. worker[w] = "ok" /\ failed' = failed /\ faults' = faults
      BY <2>6 DEF JoinWorker, Failed
    <3> QED
      BY <1>n, <1>e, <2>1, <3>1, SensorAssumption DEF Noticeable
  <2> QED
    BY <1>4, <2>2, <2>3, <2>4, <2>5, <2>6
<1>5. CASE SpawnWorkers
  <2>1. \A w \in Workers : worker[w] = "unborn"
    BY <1>5 DEF SpawnWorkers, Unspawned
  <2>2. failed = {}
    BY <1>n, <1>e, <2>1 DEF Noticeable
  <2>3. UNCHANGED <<conn, failed, faults>>
    BY <1>5 DEF SpawnWorkers, sessionVars
  <2> QED
    BY <1>n, <2>1, <2>2, <2>3 DEF Noticeable
<1>6. CASE ManagementFails
  <2>1. /\ worker[Management] = "loop" /\ worker'[Management] = "err"
        /\ \A w \in Workers : w # Management => worker'[w] = worker[w]
        /\ faults' = faults \cup {"management"}
        /\ UNCHANGED <<conn, failed>>
    BY <1>6 DEF ManagementFails, Fault, sessionVars
  <2> QED
    BY <1>n, <1>e, <2>1 DEF Noticeable
<1>7. CASE \/ CheckCancelled \/ SetReady \/ ServerWaits \/ ServerStops \/ CancelAll
           \/ ServerReturns \/ MainStep \/ Signal \/ WriterStep \/ OrphanLands
           \/ UNCHANGED vars
  <2>1. UNCHANGED <<conn, worker, failed, faults>>
    BY <1>7 DEF CheckCancelled, SetReady, ServerWaits, ServerStops, CancelAll, ServerReturns,
       MainStep, ServerFirst, LoggerFirst, CancelShutdown, FinishServer, DropState,
       FinishLogger, Signal, WriterStep, OrphanLands, vars, sessionVars, taskVars
  <2> QED
    BY <1>n, <2>1 DEF Noticeable
<1>8. CASE SignalFails \/ AbortLogger \/ WriterFails \/ AbortServer
  <2>1. /\ UNCHANGED <<conn, worker, failed>>
        /\ \E f \in {"signal", "logger_grace", "writer", "server_grace"} :
              faults' = faults \cup {f}
    BY <1>8 DEF SignalFails, AbortLogger, WriterFails, AbortServer, Fault, sessionVars, taskVars
  <2> QED
    BY <1>n, <2>1 DEF Noticeable
<1> QED
  BY <1>1, <1>2, <1>3, <1>4, <1>5, <1>6, <1>7, <1>8
  DEF Next, Environment, EndpointActs, ServerStep, Exited

\* What the sessions, the endpoints, the workers, the server and the writer do
\* leaves the main task alone, and the server where it has ended.
LEMMA OthersFrame ==
  ASSUME SensorTypeOK,
         \/ \E c \in Conns : SessionStep(c) \/ PanicSession(c)
         \/ \E e \in Endpoints : EndpointStep(e) \/ EndpointActs(e)
         \/ \E w \in Workers : AuxStep(w) \/ WorkerPanics(w) \/ AbortWorker(w)
         \/ ManagementFails \/ ServerStep
         \/ WriterStep \/ WriterFails \/ OrphanLands
  PROVE  /\ UNCHANGED mainVars
         /\ faults' \ faults \subseteq {"panic", "accept", "worker", "management", "writer"}
         /\ server \in {"ok", "err", "aborted"} => server' = server
         /\ server' = "aborted" => server = "aborted"
<1>1. CASE \E c \in Conns : SessionStep(c) \/ PanicSession(c)
  <2>1. faults' = faults \/ faults' = faults \cup {"panic"}
    BY <1>1 DEF SessionStep, StartSession, CloseSession, LogSession, PushRecord, EndSession,
       AbortSession, PanicSession, TasksUntouched, Fault, Log!Log, Log!LogClosed, Log!LogFull,
       Log!LogPermit, Log!LogPush
  <2> QED
    BY <1>1, <2>1, SessionFrame DEF taskVars
<1>2. ASSUME NEW e \in Endpoints, EndpointStep(e) \/ EndpointActs(e)
      PROVE  /\ UNCHANGED <<mainVars, server>>
             /\ faults' = faults \/ faults' = faults \cup {"accept"}
  BY <1>2 DEF EndpointStep, EndpointActs, StopAccepting, Reject, Drained, JoinSession,
     JoinPanicked, PollToken, Wait, AcceptFails, Admit, Accept, Fault
<1>3. CASE \/ \E w \in Workers : AuxStep(w) \/ WorkerPanics(w) \/ AbortWorker(w)
           \/ ManagementFails
  BY <1>3 DEF AuxStep, AuxStops, WorkerPanics, AbortWorker, ManagementFails, Fault
<1>4. CASE ServerStep
  BY <1>4 DEF ServerStep, SpawnWorkers, CheckCancelled, SetReady, ServerWaits, ServerStops,
     CancelAll, ServerReturns, WorkerLost, JoinWorker
<1>5. CASE WriterStep \/ WriterFails \/ OrphanLands
  BY <1>5, WriterFrame DEF taskVars, WriterStep, WriterFails, OrphanLands, Fault
<1> QED
  BY <1>1, <1>2, <1>3, <1>4, <1>5

\* A failure that was noticed reaches the outcome of main.
LEMMA AlarmKept ==
  ASSUME UsedLog, StopInv, BlameInv, AlarmInv, [Next]_vars
  PROVE  AlarmInv'
<1> USE DEF UsedLog, UseInv, SensorTypeOK
<1>n. (Server \notin failed /\ server # "aborted" => Noticeable)'
  BY NoticeKept
<1>1. CASE /\ main # "exit"
           /\ \/ \E c \in Conns : SessionStep(c) \/ PanicSession(c)
              \/ \E e \in Endpoints : EndpointStep(e) \/ EndpointActs(e)
              \/ \E w \in Workers : AuxStep(w) \/ WorkerPanics(w) \/ AbortWorker(w)
              \/ ManagementFails \/ ServerStep
              \/ WriterStep \/ WriterFails \/ OrphanLands
  <2>1. /\ UNCHANGED mainVars
        /\ faults' \ faults \subseteq {"panic", "accept", "worker", "management", "writer"}
        /\ server \in {"ok", "err", "aborted"} => server' = server
        /\ server' = "aborted" => server = "aborted"
    BY <1>1, OthersFrame
  <2> QED
    BY <1>1, <1>n, <2>1 DEF AlarmInv, mainVars
<1>2. CASE main # "exit" /\ (MainStep \/ Signal)
  <2>1. UNCHANGED <<server, faults>>
    BY <1>2 DEF MainStep, ServerFirst, LoggerFirst, CancelShutdown, FinishServer, DropState,
       FinishLogger, Signal, taskVars
  <2>2. CASE ServerFirst \/ LoggerFirst \/ CancelShutdown \/ FinishServer \/ DropState \/ Signal
    BY <1>2, <1>n, <2>1, <2>2 DEF ServerFirst, LoggerFirst, CancelShutdown, FinishServer,
       DropState, Signal, Merge, AlarmInv
  <2>3. CASE FinishLogger
    <3>1. writer \in {"ended", "failed", "aborted"} /\ writer' = writer
      BY <2>3 DEF FinishLogger, LoggerJoined, Log!Over, logVars, logWriterVars
    <3>2. main = "logger" /\ Merge(IF writer \in {"failed", "aborted"} THEN "err" ELSE "ok")
      BY <2>3 DEF FinishLogger
    <3> QED
      BY <1>n, <2>1, <3>1, <3>2 DEF AlarmInv, Log!Over, Merge
  <2> QED
    BY <1>2, <2>2, <2>3 DEF MainStep
<1>3. CASE main # "exit" /\ (SignalFails \/ AbortServer)
  BY <1>3, <1>n DEF SignalFails, AbortServer, Merge, Fault, AlarmInv, taskVars
<1>4. CASE main # "exit" /\ AbortLogger
  <2>1. main = "logger" /\ outcome' = "err" /\ server' = server
    BY <1>4 DEF AbortLogger, Merge, taskVars
  <2>2. writer' = "aborted"
    BY <1>4 DEF AbortLogger, Log!Abort, Log!Leave
  <2> QED
    BY <1>n, <2>1, <2>2 DEF AlarmInv, Log!Over
<1>5. CASE UNCHANGED vars
  BY <1>5, <1>n DEF vars, taskVars, mainVars, logVars, logWriterVars, AlarmInv, Log!Over
<1> QED
  BY <1>1, <1>2, <1>3, <1>4, <1>5 DEF Next, Environment, EndpointActs, Exited, Workers

\* A server that is still to be waited for does not raise the gauge again.
LEMMA ReadyKept ==
  ASSUME UsedLog, StopInv, AlarmInv, ReadyInv, [Next]_vars
  PROVE  ReadyInv'
<1> USE DEF UsedLog, UseInv, SensorTypeOK
<1>1. CASE \/ \E c \in Conns : SessionStep(c) \/ PanicSession(c)
           \/ \E e \in Endpoints : EndpointStep(e) \/ EndpointActs(e)
           \/ \E w \in Workers : AuxStep(w) \/ WorkerPanics(w) \/ AbortWorker(w)
           \/ ManagementFails
  <2>1. UNCHANGED <<server, main>>
    <3>1. ASSUME NEW e \in Endpoints, EndpointStep(e) \/ EndpointActs(e)
          PROVE  UNCHANGED <<server, main>>
      BY <3>1 DEF EndpointStep, EndpointActs, StopAccepting, Reject, Drained, JoinSession,
         JoinPanicked, PollToken, Wait, AcceptFails, Admit, Accept, mainVars
    <3>2. CASE \/ \E w \in Workers : AuxStep(w) \/ WorkerPanics(w) \/ AbortWorker(w)
               \/ ManagementFails
      BY <3>2 DEF AuxStep, AuxStops, WorkerPanics, AbortWorker, ManagementFails, mainVars
    <3> QED
      BY <1>1, <3>1, <3>2, SessionFrame DEF taskVars, mainVars
  <2>2. ready' = ready
    <3>1. ASSUME NEW e \in Endpoints, EndpointStep(e) \/ EndpointActs(e)
          PROVE  ready' = ready
      BY <3>1 DEF EndpointStep, EndpointActs, StopAccepting, Reject, Drained, JoinSession,
         JoinPanicked, PollToken, Wait, AcceptFails, Admit, Accept
    <3>2. CASE \/ \E w \in Workers : AuxStep(w) \/ WorkerPanics(w) \/ AbortWorker(w)
               \/ ManagementFails
      BY <3>2 DEF AuxStep, AuxStops, WorkerPanics, AbortWorker, ManagementFails
    <3>3. CASE \E c \in Conns : SessionStep(c) \/ PanicSession(c)
      BY <3>3 DEF SessionStep, StartSession, CloseSession, LogSession, PushRecord, EndSession,
         AbortSession, PanicSession, Log!Log, Log!LogClosed, Log!LogFull, Log!LogPermit,
         Log!LogPush, Log!writerVars
    <3> QED
      BY <1>1, <3>1, <3>2, <3>3
  <2> QED
    BY <2>1, <2>2 DEF ReadyInv
<1>2. CASE ServerStep
  BY <1>2 DEF ServerStep, SpawnWorkers, CheckCancelled, SetReady, ServerWaits, ServerStops,
     CancelAll, ServerReturns, WorkerLost, JoinWorker, mainVars, ReadyInv, StopInv
<1>3. CASE MainStep \/ Signal \/ SignalFails \/ AbortServer \/ AbortLogger
  BY <1>3 DEF MainStep, ServerFirst, LoggerFirst, CancelShutdown, FinishServer, DropState,
     FinishLogger, Signal, SignalFails, AbortServer, AbortLogger, Log!Abort, taskVars, ReadyInv
<1>4. CASE WriterStep \/ WriterFails \/ OrphanLands \/ UNCHANGED vars
  <2>1. UNCHANGED <<server, main>>
    BY <1>4, WriterFrame DEF vars, taskVars, mainVars
  <2>2. ready' \in {ready, 0}
    BY <1>4 DEF WriterStep, WriterFails, OrphanLands, vars, Log!Recv, Log!RecvNone,
       Log!WriteSink, Log!WriteDone, Log!WriteFail, Log!MarkFailed, Log!CountLost,
       Log!OrphanLands
  <2> QED
    BY <2>1, <2>2 DEF ReadyInv
<1> QED
  BY <1>1, <1>2, <1>3, <1>4 DEF Next, Environment, EndpointActs, Exited, Workers

-----------------------------------------------------------------------------
(* Sessions and their calls of log                                         *)

\* The sessions that have called log.
Logged == {c \in Conns : reason[c] # "none" /\ conn[c] # "closing"}

\* A session has a reason from the select that ends it on, and calls log once.
LoggedInv ==
  /\ attempts = Cardinality(Logged)
  /\ \A c \in Conns :
       /\ conn[c] \in {"closing", "logging", "logged", "done"} => reason[c] # "none"
       /\ conn[c] \in {"idle", "accepted", "rejected", "spawned", "running", "panicked"} =>
            reason[c] = "none"

\* Every session calls log exactly once, with its reason.
LEMMA LoggedKept ==
  ASSUME UsedLog, LoggedInv, [Next]_vars
  PROVE  LoggedInv'
<1> USE DEF UsedLog, UseInv, SensorTypeOK, MoveTo
<1>1. ASSUME NEW c \in Conns, LogSession(c) PROVE LoggedInv'
  <2>1. conn[c] = "closing" /\ reason' = reason
    BY <1>1 DEF LogSession, TasksUntouched
  <2>2. \E p \in {"logging", "logged"} : conn' = [conn EXCEPT ![c] = p]
    BY <1>1 DEF LogSession
  <2>3. attempts' = attempts + 1
    BY <1>1 DEF LogSession, Log!Log, Log!LogClosed, Log!LogFull, Log!LogPermit, Log!Calls
  <2>4. Logged' = Logged \cup {c} /\ c \notin Logged
    BY <2>1, <2>2 DEF Logged, LoggedInv
  <2>5. IsFiniteSet(Logged)
    BY SensorAssumption, FS_Subset DEF Logged
  <2>6. attempts' = Cardinality(Logged')
    BY <2>3, <2>4, <2>5, FS_AddElement DEF LoggedInv
  <2> QED
    BY <2>1, <2>2, <2>6 DEF LoggedInv
<1>2. ASSUME NEW c \in Conns, StartSession(c) \/ CloseSession(c) \/ PushRecord(c)
                              \/ EndSession(c) \/ AbortSession(c) \/ PanicSession(c)
      PROVE  LoggedInv'
  <2>1. attempts' = attempts
    BY <1>2 DEF StartSession, CloseSession, PushRecord, EndSession, AbortSession, PanicSession,
       Log!LogPush, logVars, logCallVars
  <2>2. CASE CloseSession(c)
    <3>1. conn[c] = "running" /\ conn' = [conn EXCEPT ![c] = "closing"]
      BY <2>2 DEF CloseSession
    <3>2. \E r \in {"shutdown", "lifetime_limit", "protocol"} :
            reason' = [reason EXCEPT ![c] = r]
      BY <2>2 DEF CloseSession
    <3>3. Logged' = Logged
      BY <3>1, <3>2 DEF Logged, LoggedInv
    <3> QED
      BY <2>1, <3>1, <3>2, <3>3 DEF LoggedInv
  <2>3. CASE \/ StartSession(c) \/ PushRecord(c) \/ EndSession(c) \/ AbortSession(c)
             \/ PanicSession(c)
    <3>1. reason' = reason
      BY <2>3 DEF StartSession, PushRecord, EndSession, AbortSession, PanicSession, Unwind,
         TasksUntouched
    <3>2. \/ conn[c] = "spawned" /\ conn' = [conn EXCEPT ![c] = "running"]
          \/ conn[c] = "logging" /\ conn' = [conn EXCEPT ![c] = "logged"]
          \/ conn[c] = "logged" /\ conn' = [conn EXCEPT ![c] = "done"]
          \/ conn[c] \in {"spawned", "running"} /\ conn' = [conn EXCEPT ![c] = "aborted"]
          \/ conn[c] = "running" /\ conn' = [conn EXCEPT ![c] = "panicked"]
      BY <2>3 DEF StartSession, PushRecord, EndSession, AbortSession, PanicSession, Unwind,
         Abortable
    <3>3. Logged' = Logged
      BY <3>1, <3>2 DEF Logged
    <3> QED
      BY <2>1, <3>1, <3>2, <3>3 DEF LoggedInv
  <2> QED
    BY <1>2, <2>2, <2>3
<1>3. ASSUME NEW e \in Endpoints, EndpointStep(e) \/ EndpointActs(e) PROVE LoggedInv'
  <2>1. UNCHANGED <<reason, attempts>>
    BY <1>3 DEF EndpointStep, EndpointActs, StopAccepting, Reject, Drained, JoinSession,
       JoinPanicked, PollToken, Wait, AcceptFails, Admit, Accept, sessionVars, logVars,
       logCallVars
  <2>2. \/ conn' = conn
        \/ \E c \in Conns :
             \/ /\ conn[c] = "accepted"
                /\ \E p \in {"rejected", "spawned"} : conn' = [conn EXCEPT ![c] = p]
             \/ conn[c] = "idle" /\ conn' = [conn EXCEPT ![c] = "accepted"]
             \/ conn[c] \in {"done", "panicked"} /\ conn' = [conn EXCEPT ![c] = "gone"]
    <3>1. CASE Reject(e) \/ Admit(e)
      <4>1. taken[e] \in Conns /\ conn[taken[e]] = "accepted"
        BY <3>1 DEF Reject, Admit, Placing
      <4>2. \E p \in {"rejected", "spawned"} : conn' = [conn EXCEPT ![taken[e]] = p]
        BY <3>1 DEF Reject, Admit
      <4> QED
        BY <4>1, <4>2
    <3>2. CASE \E c \in Conns : JoinSession(e, c) \/ JoinPanicked(e, c) \/ Accept(e, c)
      BY <3>2 DEF JoinSession, JoinPanicked, Accept
    <3>3. CASE StopAccepting(e) \/ Drained(e) \/ PollToken(e) \/ Wait(e) \/ AcceptFails(e)
      BY <3>3 DEF StopAccepting, Drained, PollToken, Wait, AcceptFails, sessionVars
    <3> QED
      BY <1>3, <3>1, <3>2, <3>3 DEF EndpointStep, EndpointActs
  <2>3. Logged' = Logged
    BY <2>1, <2>2 DEF Logged
  <2> QED
    BY <2>1, <2>2, <2>3 DEF LoggedInv
<1>4. CASE \/ \E w \in Workers : AuxStep(w) \/ WorkerPanics(w) \/ AbortWorker(w)
           \/ ManagementFails \/ ServerStep \/ AbortServer
           \/ MainStep \/ Signal \/ SignalFails \/ AbortLogger
           \/ WriterStep \/ WriterFails \/ OrphanLands \/ UNCHANGED vars
  <2>1. UNCHANGED <<conn, reason>>
    BY <1>4, TaskFrame, MainFrame, WriterFrame DEF vars, sessionVars
  <2>2. attempts' = attempts
    <3>1. CASE WriterStep \/ WriterFails \/ OrphanLands
      BY <3>1 DEF WriterStep, WriterFails, OrphanLands, Log!Recv, Log!RecvNone, Log!WriteSink,
         Log!WriteDone, Log!MarkFailed, Log!CountLost, Log!WriteFail, Log!OrphanLands,
         Log!callVars
    <3>2. CASE MainStep \/ Signal \/ SignalFails \/ AbortLogger
      BY <3>2 DEF MainStep, ServerFirst, LoggerFirst, CancelShutdown, FinishServer, DropState,
         FinishLogger, Signal, SignalFails, AbortLogger, Log!Abort, Log!callVars, logVars,
         logCallVars
    <3> QED
      BY <1>4, <3>1, <3>2, TaskFrame DEF vars, logVars, logCallVars
  <2> QED
    BY <2>1, <2>2 DEF LoggedInv, Logged
<1> QED
  BY <1>1, <1>2, <1>3, <1>4 DEF Next, Environment, EndpointActs, SessionStep, Exited, Workers

-----------------------------------------------------------------------------
(* Theorems                                                                *)

\* The inductive invariant of the sensor.
IInv ==
  /\ UsedLog /\ SessionBound
  /\ StopInv /\ DrainInv /\ BlameInv /\ AlarmInv
  /\ ReadyInv /\ LoggedInv

\* The inductive invariant holds initially.
LEMMA InitEstablishes == Init => IInv
<1> SUFFICES ASSUME Init PROVE IInv
  OBVIOUS
<1>1. UsedLog
  BY UsedLogStarts
<1>2. SessionBound
  <2>1. {c \in Conns : conn[c] \in Live} = {} /\ {c \in Conns : conn[c] \in Running} = {}
    BY DEF Init, Live, Running
  <2>2. permits = max_sessions /\ active = 0 /\ max_sessions \in Nat
    BY SensorAssumption DEF Init
  <2>3. Cardinality({}) = 0
    BY FS_EmptySet
  <2> QED
    BY <2>1, <2>2, <2>3 DEF SessionBound
<1>3. LoggedInv
  <2>1. Logged = {}
    BY DEF Init, Logged
  <2> QED
    BY <2>1, FS_EmptySet DEF Init, LoggedInv
<1>4. StopInv /\ DrainInv /\ BlameInv /\ AlarmInv /\ ReadyInv
  BY DEF Init, StopInv, DrainInv, BlameInv, AlarmInv, Noticeable, ReadyInv, Workers
<1> QED
  BY <1>1, <1>2, <1>3, <1>4 DEF IInv

\* The invariant of the sensor holds in every reachable state, for all numbers
\* of connections, endpoints, permits and faults.
THEOREM SensorInvariant == Spec => []IInv
<1>1. IInv /\ [Next]_vars => IInv'
  <2> SUFFICES ASSUME IInv, [Next]_vars PROVE IInv'
    OBVIOUS
  <2>1. UsedLog'
    BY UsedLogKept DEF IInv
  <2>2. SessionBound'
    BY SessionBoundKept DEF IInv, UsedLog, UseInv
  <2>3. StopInv' /\ DrainInv'
    BY StopKept, DrainKept DEF IInv, UsedLog, UseInv
  <2>4. BlameInv' /\ AlarmInv'
    BY BlameKept, AlarmKept DEF IInv
  <2>5. ReadyInv' /\ LoggedInv'
    BY ReadyKept, LoggedKept DEF IInv
  <2> QED
    BY <2>1, <2>2, <2>3, <2>4, <2>5 DEF IInv
<1> QED
  BY <1>1, InitEstablishes, PTL DEF Spec

\* max_sessions bounds the sessions of all endpoints together, and permits and
\* gauge follow them on every way out of a session.
THEOREM SessionsAreBounded == Spec => []SessionBound
<1>1. IInv => SessionBound
  BY DEF IInv
<1> QED
  BY <1>1, SensorInvariant, PTL

\* A server that has returned by itself has left no session behind, unless a
\* worker panicked.
THEOREM ServerLeavesNoSession == Spec => []NoSessionOutlivesServer
<1>1. IInv => NoSessionOutlivesServer
  <2> SUFFICES ASSUME IInv, server \in {"ok", "err"}, "worker" \notin faults,
                      NEW c \in Conns
               PROVE  conn[c] \notin {"accepted"} \cup Live \cup Gone
    BY DEF NoSessionOutlivesServer
  <2>1. home[c] \in Endpoints
    BY DEF IInv, UsedLog, UseInv, SensorTypeOK
  <2>2. Quiet(home[c])
    BY <2>1 DEF IInv, DrainInv, Workers
  <2> QED
    BY <2>2 DEF Quiet, Live, Gone
<1> QED
  BY <1>1, SensorInvariant, PTL

\* The process ends in failure exactly when something went wrong.
LEMMA StatusIsTrue ==
  ASSUME IInv
  PROVE  ExitStatus
<1> SUFFICES ASSUME main = "exit" PROVE outcome = "err" <=> faults # {}
  BY DEF ExitStatus
<1>1. outcome = "err" => faults # {}
  BY DEF IInv, BlameInv
<1>2. ASSUME outcome # "err" PROVE faults = {}
  <2>1. writer = "ended" /\ server = "ok"
    BY <1>2 DEF IInv, AlarmInv
  <2>2. Server \notin failed /\ \A w \in Workers : worker[w] = "reaped"
    BY <2>1 DEF IInv, BlameInv, DrainInv
  <2>3. Noticeable
    BY <2>1, <2>2 DEF IInv, AlarmInv
  <2>4. failed = {}
    BY <2>2, <2>3 DEF Noticeable, IInv, UsedLog, UseInv, SensorTypeOK, Workers
  <2>5. \A c \in Conns : conn[c] # "panicked"
    <3> SUFFICES ASSUME NEW c \in Conns PROVE conn[c] # "panicked"
      OBVIOUS
    <3>1. home[c] \in Endpoints
      BY DEF IInv, UsedLog, UseInv, SensorTypeOK
    <3>2. Quiet(home[c])
      BY <2>2, <3>1 DEF IInv, DrainInv, Workers
    <3> QED
      BY <3>2 DEF Quiet
  <2>6. {"panic", "accept", "management", "worker"} \cap faults = {}
    BY <2>2, <2>3, <2>4, <2>5 DEF Noticeable, Workers
  <2>7. {"server_grace", "writer", "signal", "logger_grace"} \cap faults = {}
    BY <1>2, <2>1 DEF IInv, BlameInv, AlarmInv
  <2> QED
    BY <2>6, <2>7 DEF IInv, UsedLog, UseInv, SensorTypeOK, FaultKinds
<1> QED
  BY <1>1, <1>2

\* The process exits with an error exactly when something failed: no panic,
\* abort or error is lost on its way through the joins to main, and a signal
\* alone ends in success.
THEOREM ExitStatusIsTrue == Spec => []ExitStatus
<1>1. IInv => ExitStatus
  BY StatusIsTrue
<1> QED
  BY <1>1, SensorInvariant, PTL

\* /readyz answers "ready" only while the writer has not recorded a failure and
\* has not ended.
THEOREM ReadyzIsTruthful == Spec => []ReadyzTruthful
<1>1. IInv => ReadyzTruthful
  <2> SUFFICES ASSUME IInv, ready = 1, errors = 0
               PROVE  writer \in {"recv", "write", "mark"}
    BY DEF ReadyzTruthful, Readyz
  <2>1. server \in {"poll", "select", "stop"}
    BY DEF IInv, ReadyInv
  <2>2. writer # "ended"
    BY <2>1, EndedAlone DEF IInv
  <2>3. writer # "aborted"
    BY <2>1 DEF IInv, BlameInv, AlarmInv
  <2>4. writer \notin {"count", "failed"}
    BY DEF IInv, UsedLog, UseInv, ErrorsInv
  <2>5. writer \in {"recv", "write", "mark", "count", "ended", "failed", "aborted"}
    BY DEF IInv, UsedLog, LogProofs!IInv, LogProofs!LogTypeOK
  <2> QED
    BY <2>2, <2>3, <2>4, <2>5
<1> QED
  BY <1>1, SensorInvariant, PTL

\* A process that exits with success has ended every session it admitted, and
\* the record of each is in every sink or was counted as queue_full.
THEOREM CleanExitIsComplete == Spec => []CleanExitLosesNothing
<1>1. IInv => CleanExitLosesNothing
  <2> SUFFICES ASSUME IInv, main = "exit", outcome = "ok"
               PROVE  /\ \A c \in Conns : conn[c] \in {"idle", "rejected", "gone"}
                      /\ \A k \in Sinks : sunk[k] = accepted
                      /\ Cardinality({c \in Conns : reason[c] # "none"})
                           = written + dropped["queue_full"]
                      /\ written = Len(accepted)
    BY DEF CleanExitLosesNothing
  <2>1. writer = "ended" /\ server = "ok" /\ faults = {}
    BY StatusIsTrue DEF IInv, AlarmInv, ExitStatus
  <2>2. ASSUME NEW c \in Conns PROVE conn[c] \in {"idle", "rejected", "gone"}
    <3>1. home[c] \in Endpoints
      BY DEF IInv, UsedLog, UseInv, SensorTypeOK
    <3>2. Quiet(home[c])
      BY <2>1, <3>1 DEF IInv, DrainInv, Workers
    <3> QED
      BY <3>2 DEF Quiet
  <2>3. LogProofs!EndsClean
    BY LogAssumption, LogProofs!EndedIsClean DEF IInv, UsedLog
  <2>4. {c \in Conns : reason[c] # "none"} = Logged
    BY <2>2 DEF Logged
  <2>5. attempts = Cardinality(Logged)
    BY DEF IInv, LoggedInv
  <2> QED
    BY <2>1, <2>2, <2>3, <2>4, <2>5 DEF LogProofs!EndsClean
<1> QED
  BY <1>1, SensorInvariant, PTL

=============================================================================
