------------------------------- MODULE Sensor -------------------------------
(***************************************************************************)
(* The running sensor: main.rs (run, finish, merge), the server task and   *)
(* its workers (server.rs: run, run_endpoint, handle_session), and the log *)
(* writer, which is module Logger with every task that owns an             *)
(* Arc<AppState> as the holder of a Logger handle.                         *)
(*                                                                         *)
(* Tasks run on several threads.  A step of the model is what a task does  *)
(* between two points at which another task could change what it reads.    *)
(* The verdict of the rate limiter and the bytes of a session are left     *)
(* open here: an admission may be refused for a reason of the limiter, and *)
(* a protocol handler may return at any time.                              *)
(***************************************************************************)
EXTENDS Integers, Sequences, FiniteSets

CONSTANTS Conns,        \* connections clients may open
          Endpoints,    \* endpoint workers
          Management,   \* the management worker
          Maintenance,  \* the maintenance worker
          Main, Server, \* the main task and the server task
          NoConn,       \* no connection in hand
          max_sessions, \* permits of the session semaphore
          Sinks, buffer_size,
          MaxFaults     \* bound on failures of the environment

Workers == Endpoints \cup {Management, Maintenance}
Holders == Conns \cup Endpoints \cup {Main, Server}

ASSUME SensorAssumption ==
  /\ IsFiniteSet(Conns) /\ IsFiniteSet(Endpoints)
  /\ Management # Maintenance
  /\ {Management, Maintenance} \cap Endpoints = {}
  /\ NoConn \notin Conns
  /\ Conns \cap Endpoints = {}
  /\ Main # Server /\ {Main, Server} \cap (Conns \cup Endpoints) = {}
  /\ max_sessions \in Nat \ {0}
  /\ Sinks \subseteq {"file", "stdout"} /\ Sinks # {}
  /\ buffer_size \in Nat \ {0}
  /\ MaxFaults \in Nat

VARIABLES
  conn,      \* where each connection is
  home,      \* the endpoint of a connection
  reason,    \* CloseReason of a session
  permits,   \* free permits of the session semaphore
  active,    \* metrics.active_sessions
  worker,    \* where each worker is
  taken,     \* the connection an endpoint has accepted and not yet placed
  failed,    \* tasks whose local `failure` is set
  server,    \* where BoundServer::run is
  main,      \* where main.rs run is
  outcome,   \* its `outcome`
  cancelled, \* the shutdown token
  signalled, \* a signal was delivered
  faults     \* history: what went wrong

\* State of the log writer, module Logger.
VARIABLES sending, attempts, queue, accepted, writer, current, todo, orphan,
          sunk, written, dropped, errors, ready

sessionVars == <<conn, home, reason, permits, active>>
taskVars == <<worker, taken, failed, server>>
mainVars == <<main, outcome, signalled>>
logCallVars == <<sending, attempts, queue, accepted, dropped>>
logWriterVars == <<writer, current, todo, orphan, sunk, written, errors>>
logVars == <<logCallVars, logWriterVars>>
vars == <<sessionVars, taskVars, mainVars, cancelled, faults, logVars, ready>>

Live == {"spawned", "running", "closing", "logging", "logged"}
Gone == {"done", "panicked", "aborted"}

SessionsOf(e) == {c \in Conns : home[c] = e}
Ended == {"ok", "err", "panicked", "aborted", "reaped"}

\* The tasks that still own the state, and with it a Logger handle.
StateHolders ==
  {c \in Conns : conn[c] \in Live}
    \cup {e \in Endpoints : worker[e] \notin Ended \cup {"unborn"}}
    \cup (IF server \in {"ok", "err", "aborted"} THEN {} ELSE {Server})
    \cup (IF main \in {"logger", "exit"} THEN {} ELSE {Main})

Log == INSTANCE Logger
  WITH Senders <- Holders, handles <- StateHolders,
       MaxRecords <- Cardinality(Conns)

Init ==
  /\ conn = [c \in Conns |-> "idle"]
  /\ home \in [Conns -> Endpoints]
  /\ reason = [c \in Conns |-> "none"]
  /\ permits = max_sessions
  /\ active = 0
  /\ worker = [w \in Workers |-> "unborn"]
  /\ taken = [e \in Endpoints |-> NoConn]
  /\ failed = {}
  /\ server = "spawn"
  /\ main = "select"
  /\ outcome = "ok"
  /\ cancelled = FALSE
  /\ signalled = FALSE
  /\ faults = {}
  /\ sending = [h \in Holders |-> Log!NoRecord]
  /\ attempts = 0
  /\ queue = <<>>
  /\ accepted = <<>>
  /\ writer = "recv"
  /\ current = Log!NoRecord
  /\ todo = {}
  /\ orphan = Log!NoOrphan
  /\ sunk = [k \in Sinks |-> <<>>]
  /\ written = 0
  /\ dropped = [r \in Log!Reasons |-> 0]
  /\ errors = 0
  /\ ready = 0

-----------------------------------------------------------------------------
(* handle_session                                                          *)

MoveTo(c, place) == conn' = [conn EXCEPT ![c] = place]

FaultsLeft == Cardinality(faults) < MaxFaults

Fault(f) ==
  /\ FaultsLeft
  /\ faults' = faults \cup {f}

\* The session task starts: ActiveGuard and SessionState.
StartSession(c) ==
  /\ conn[c] = "spawned"
  /\ MoveTo(c, "running")
  /\ active' = active + 1
  /\ UNCHANGED <<home, reason, permits, taskVars, mainVars, cancelled, faults, logVars, ready>>

\* The biased select: shutdown, then the lifetime, then the handler.
CloseSession(c) ==
  /\ conn[c] = "running"
  /\ \/ cancelled /\ reason' = [reason EXCEPT ![c] = "shutdown"]
     \/ /\ ~cancelled
        /\ \E r \in {"lifetime_limit", "protocol"} : reason' = [reason EXCEPT ![c] = r]
  /\ MoveTo(c, "closing")
  /\ UNCHANGED <<home, permits, active, taskVars, mainVars, cancelled, faults, logVars, ready>>

\* A call of log changes nothing of the tasks around it.
TasksUntouched == UNCHANGED <<home, reason, permits, active, taskVars, mainVars, cancelled, faults>>

\* logger.log(session.finalize(reason)): Logger's two steps.  The metrics
\* between the select and this call are left out.
LogSession(c) ==
  /\ conn[c] = "closing"
  /\ \E place \in {"logging", "logged"} :
       /\ MoveTo(c, place)
       /\ TasksUntouched
       /\ Log!Log(c)
       /\ place = "logging" <=> sending'[c] # Log!NoRecord

PushRecord(c) ==
  /\ conn[c] = "logging"
  /\ MoveTo(c, "logged")
  /\ TasksUntouched
  /\ Log!LogPush(c)

\* (mutant) the gauge goes down for sessions that never raised it
Unwind_unguarded(c, place) ==
  /\ MoveTo(c, place)
  /\ permits' = permits + 1
  /\ active' = active - 1
  /\ UNCHANGED <<home, reason>>

\* Dropping the task's locals gives back the guard and the permit.
Unwind(c, place) ==
  /\ MoveTo(c, place)
  /\ permits' = permits + 1
  /\ active' = IF conn[c] = "spawned" THEN active ELSE active - 1
  /\ UNCHANGED <<home, reason>>

EndSession(c) ==
  /\ conn[c] = "logged"
  /\ Unwind(c, "done")
  /\ UNCHANGED <<taskVars, mainVars, cancelled, faults, logVars, ready>>

PanicSession(c) ==
  /\ conn[c] = "running"
  /\ Fault("panic")
  /\ Unwind(c, "panicked")
  /\ UNCHANGED <<taskVars, mainVars, cancelled, logVars, ready>>

\* (mutant) a task can be dropped between the two steps of try_send
Abortable_anywhere == {"spawned", "running", "logging"}

\* Where a session has an await point.
Abortable == {"spawned", "running"}

\* The endpoint that owns the session is gone, and its JoinSet with it: the
\* session is dropped at its next await point.
AbortSession(c) ==
  /\ conn[c] \in Abortable
  /\ worker[home[c]] \in {"aborted", "panicked", "reaped"}
  /\ Unwind(c, "aborted")
  /\ UNCHANGED <<taskVars, mainVars, cancelled, faults, logVars, ready>>

-----------------------------------------------------------------------------
(* run_endpoint                                                            *)

Go(w, place) == worker' = [worker EXCEPT ![w] = place]

\* The biased select sees no shutdown request ...
PollToken(e) ==
  /\ worker[e] = "loop"
  /\ ~cancelled
  /\ Go(e, "polled")
  /\ UNCHANGED <<sessionVars, taken, failed, server, mainVars, cancelled, faults, logVars, ready>>

\* ... or sees one, and the endpoint stops accepting.
StopAccepting(e) ==
  /\ worker[e] = "loop"
  /\ cancelled
  /\ Go(e, "drain")
  /\ UNCHANGED <<sessionVars, taken, failed, server, mainVars, cancelled, faults, logVars, ready>>

\* Nothing is ready: the task waits and will poll the token first again.
Wait(e) ==
  /\ worker[e] = "polled"
  /\ \A c \in SessionsOf(e) : conn[c] \notin Gone
  /\ Go(e, "loop")
  /\ UNCHANGED <<sessionVars, taken, failed, server, mainVars, cancelled, faults, logVars, ready>>

\* A session has ended well.
JoinSession(e, c) ==
  /\ worker[e] \in {"polled", "drain"}
  /\ home[c] = e /\ conn[c] = "done"
  /\ MoveTo(c, "gone")
  /\ worker' = [worker EXCEPT ![e] = IF @ = "polled" THEN "loop" ELSE @]
  /\ UNCHANGED <<home, reason, permits, active, taken, failed, server, mainVars, cancelled, faults, logVars, ready>>

\* A session has panicked: the endpoint fails and cancels everything.  While
\* it drains it only remembers the failure.
JoinPanicked(e, c) ==
  /\ worker[e] \in {"polled", "drain"}
  /\ home[c] = e /\ conn[c] = "panicked"
  /\ MoveTo(c, "gone")
  /\ failed' = failed \cup {e}
  /\ Go(e, "drain")
  /\ cancelled' = (cancelled \/ worker[e] = "polled")
  /\ UNCHANGED <<home, reason, permits, active, taken, server, mainVars, faults, logVars, ready>>

Accept(e, c) ==
  /\ worker[e] = "polled"
  /\ home[c] = e /\ conn[c] = "idle"
  /\ MoveTo(c, "accepted")
  /\ taken' = [taken EXCEPT ![e] = c]
  /\ Go(e, "placing")
  /\ UNCHANGED <<home, reason, permits, active, failed, server, mainVars, cancelled, faults, logVars, ready>>

AcceptFails(e) ==
  /\ worker[e] = "polled"
  /\ Fault("accept")
  /\ failed' = failed \cup {e}
  /\ cancelled' = TRUE
  /\ Go(e, "drain")
  /\ UNCHANGED <<sessionVars, taken, server, mainVars, logVars, ready>>

\* The exclusion list or the limiter refuses the peer, or no permit is free.
Reject(e) ==
  /\ worker[e] = "placing"
  /\ MoveTo(taken[e], "rejected")
  /\ taken' = [taken EXCEPT ![e] = NoConn]
  /\ Go(e, "loop")
  /\ UNCHANGED <<home, reason, permits, active, failed, server, mainVars, cancelled, faults, logVars, ready>>

Admit(e) ==
  /\ worker[e] = "placing"
  /\ permits > 0
  /\ permits' = permits - 1
  /\ MoveTo(taken[e], "spawned")
  /\ taken' = [taken EXCEPT ![e] = NoConn]
  /\ Go(e, "loop")
  /\ UNCHANGED <<home, reason, active, failed, server, mainVars, cancelled, faults, logVars, ready>>

\* (mutant) the endpoint waits for those only that it can join at once
AllJoined_now(e) == \A c \in SessionsOf(e) : conn[c] \notin Gone

\* Every session of the endpoint has ended and been joined.
AllJoined(e) == \A c \in SessionsOf(e) : conn[c] \notin Live \cup Gone

Drained(e) ==
  /\ worker[e] = "drain"
  /\ AllJoined(e)
  /\ Go(e, IF e \in failed THEN "err" ELSE "ok")
  /\ UNCHANGED <<sessionVars, taken, failed, server, mainVars, cancelled, faults, logVars, ready>>

-----------------------------------------------------------------------------
(* The management and maintenance workers, as far as shutdown goes          *)

AuxStops(w) ==
  /\ worker[w] = "loop"
  /\ cancelled
  /\ Go(w, "ok")
  /\ UNCHANGED <<sessionVars, taken, failed, server, mainVars, cancelled, faults, logVars, ready>>

\* metrics::serve fails to accept, or one of its tasks panicked.
ManagementFails ==
  /\ worker[Management] = "loop"
  /\ Fault("management")
  /\ cancelled' = TRUE
  /\ Go(Management, "err")
  /\ UNCHANGED <<sessionVars, taken, failed, server, mainVars, logVars, ready>>

\* A worker panics; unlike a failure this cancels nothing by itself.
WorkerPanics(w) ==
  /\ worker[w] \in {"loop", "polled"}
  /\ Fault("worker")
  /\ Go(w, "panicked")
  /\ UNCHANGED <<sessionVars, taken, failed, server, mainVars, cancelled, logVars, ready>>

\* run has been aborted, and its JoinSet with it: the worker is dropped at
\* its next await point.
AbortWorker(w) ==
  /\ worker[w] \in {"loop", "drain"}
  /\ server = "aborted"
  /\ Go(w, "aborted")
  /\ UNCHANGED <<sessionVars, taken, failed, server, mainVars, cancelled, faults, logVars, ready>>

-----------------------------------------------------------------------------
(* BoundServer::run                                                        *)

SpawnWorkers ==
  /\ server = "spawn"
  /\ worker' = [w \in Workers |-> "loop"]
  /\ server' = "check"
  /\ UNCHANGED <<sessionVars, taken, failed, mainVars, cancelled, faults, logVars, ready>>

\* if !state.shutdown.is_cancelled() { ready.set(1) } is a test and a set.
CheckCancelled ==
  /\ server = "check"
  /\ server' = IF cancelled THEN "poll" ELSE "set_ready"
  /\ UNCHANGED <<sessionVars, worker, taken, failed, mainVars, cancelled, faults, logVars, ready>>

SetReady ==
  /\ server = "set_ready"
  /\ ready' = 1
  /\ server' = "poll"
  /\ UNCHANGED <<sessionVars, worker, taken, failed, mainVars, cancelled, faults, logVars>>

\* The select finds nothing and run is suspended.
ServerWaits ==
  /\ server = "poll"
  /\ ~cancelled
  /\ server' = "select"
  /\ UNCHANGED <<sessionVars, worker, taken, failed, mainVars, cancelled, faults, logVars, ready>>

ServerStops ==
  /\ server \in {"poll", "select"}
  /\ cancelled
  /\ server' = "stop"
  /\ UNCHANGED <<sessionVars, worker, taken, failed, mainVars, cancelled, faults, logVars, ready>>

\* (mutant) a panicked worker is not noticed
Joinable_returned == {"ok", "err"}

\* What the JoinSet of run yields.
Joinable == {"ok", "err", "panicked"}

WorkerLost(w) ==
  /\ server \in {"poll", "select"}
  /\ ~cancelled
  /\ worker[w] \in Joinable
  /\ Go(w, "reaped")
  /\ failed' = failed \cup {Server}
  /\ server' = "stop"
  /\ UNCHANGED <<sessionVars, taken, mainVars, cancelled, faults, logVars, ready>>

\* ready.set(0) and shutdown.cancel().
CancelAll ==
  /\ server = "stop"
  /\ ready' = 0
  /\ cancelled' = TRUE
  /\ server' = "drain"
  /\ UNCHANGED <<sessionVars, worker, taken, failed, mainVars, faults, logVars>>

\* (mutant) a panic met while draining is dropped
Failed_returned(w) == worker[w] = "err"

Failed(w) == worker[w] # "ok"

JoinWorker(w) ==
  /\ server = "drain"
  /\ worker[w] \in Joinable
  /\ Go(w, "reaped")
  /\ failed' = IF Failed(w) THEN failed \cup {Server} ELSE failed
  /\ UNCHANGED <<sessionVars, taken, server, mainVars, cancelled, faults, logVars, ready>>

ServerReturns ==
  /\ server = "drain"
  /\ \A w \in Workers : worker[w] = "reaped"
  /\ server' = IF Server \in failed THEN "err" ELSE "ok"
  /\ UNCHANGED <<sessionVars, worker, taken, failed, mainVars, cancelled, faults, logVars, ready>>

-----------------------------------------------------------------------------
(* main.rs: run                                                            *)

\* The unbiased select over the signal, the server and the logger.
Signal ==
  /\ main = "select"
  /\ main' = "cancel"
  /\ signalled' = TRUE
  /\ UNCHANGED <<sessionVars, taskVars, outcome, cancelled, faults, logVars, ready>>

SignalFails ==
  /\ main = "select"
  /\ Fault("signal")
  /\ outcome' = "err"
  /\ main' = "cancel"
  /\ UNCHANGED <<sessionVars, taskVars, signalled, cancelled, logVars, ready>>

Merge(result) == outcome' = IF result = "ok" THEN outcome ELSE "err"

ServerFirst ==
  /\ main = "select"
  /\ server \in {"ok", "err"}
  /\ Merge(server)
  /\ main' = "cancel"
  /\ UNCHANGED <<sessionVars, taskVars, signalled, cancelled, faults, logVars, ready>>

\* The logger ending while producers are alive is an error in itself.
LoggerFirst ==
  /\ main = "select"
  /\ Log!Over
  /\ Merge("err")
  /\ main' = "cancel"
  /\ UNCHANGED <<sessionVars, taskVars, signalled, cancelled, faults, logVars, ready>>

\* shutdown.cancel() and ready.set(0).
CancelShutdown ==
  /\ main = "cancel"
  /\ cancelled' = TRUE
  /\ ready' = 0
  /\ main' = "server"
  /\ UNCHANGED <<sessionVars, taskVars, outcome, signalled, faults, logVars>>

\* finish(server_handle): joined in time, or aborted after the grace period.
\* A server that main has already joined falls through.
FinishServer ==
  /\ main = "server"
  /\ server \in {"ok", "err"}
  /\ Merge(server)
  /\ main' = "drop"
  /\ UNCHANGED <<sessionVars, taskVars, signalled, cancelled, faults, logVars, ready>>

\* The grace period is over: run is aborted where it is suspended.
AbortServer ==
  /\ main = "server"
  /\ server \in {"spawn", "select", "drain"}
  /\ Fault("server_grace")
  /\ server' = "aborted"
  /\ Merge("err")
  /\ main' = "drop"
  /\ UNCHANGED <<sessionVars, worker, taken, failed, signalled, cancelled, logVars, ready>>

\* drop(state): main gives up its own handle.
DropState ==
  /\ main = "drop"
  /\ main' = "logger"
  /\ UNCHANGED <<sessionVars, taskVars, outcome, signalled, cancelled, faults, logVars, ready>>

\* (mutant) the logger task is detached instead of joined
LoggerJoined_detached == TRUE

LoggerJoined == Log!Over

FinishLogger ==
  /\ main = "logger"
  /\ LoggerJoined
  /\ Merge(IF writer \in {"failed", "aborted"} THEN "err" ELSE "ok")
  /\ main' = "exit"
  /\ UNCHANGED <<sessionVars, taskVars, signalled, cancelled, faults, logVars, ready>>

AbortLogger ==
  /\ main = "logger"
  /\ Fault("logger_grace")
  /\ Merge("err")
  /\ main' = "exit"
  /\ UNCHANGED <<sessionVars, taskVars, signalled, cancelled>>
  /\ Log!Abort

-----------------------------------------------------------------------------

\* The writer's own steps, with the holders of the state left alone.
WriterStep ==
  /\ UNCHANGED <<sessionVars, taskVars, mainVars, cancelled, faults>>
  /\ \/ Log!Recv \/ Log!RecvNone \/ Log!WriteSink \/ Log!WriteDone
     \/ Log!MarkFailed \/ Log!CountLost

WriterFails ==
  /\ Fault("writer")
  /\ UNCHANGED <<sessionVars, taskVars, mainVars, cancelled>>
  /\ Log!WriteFail

OrphanLands ==
  /\ UNCHANGED <<sessionVars, taskVars, mainVars, cancelled, faults>>
  /\ Log!OrphanLands

SessionStep(c) ==
  \/ StartSession(c) \/ CloseSession(c) \/ LogSession(c) \/ PushRecord(c)
  \/ EndSession(c) \/ AbortSession(c)

EndpointStep(e) ==
  \/ StopAccepting(e) \/ Reject(e) \/ Drained(e)
  \/ \E c \in Conns : JoinSession(e, c) \/ JoinPanicked(e, c)

AuxStep(w) == AuxStops(w)

ServerStep ==
  \/ SpawnWorkers \/ CheckCancelled \/ SetReady \/ ServerWaits \/ ServerStops
  \/ CancelAll \/ ServerReturns
  \/ \E w \in Workers : WorkerLost(w) \/ JoinWorker(w)

MainStep ==
  \/ ServerFirst \/ LoggerFirst \/ CancelShutdown \/ FinishServer
  \/ DropState \/ FinishLogger

\* Clients, the operator and failing components.
Environment ==
  \/ \E e \in Endpoints :
        \/ PollToken(e) \/ Wait(e) \/ AcceptFails(e) \/ Admit(e)
        \/ \E c \in Conns : Accept(e, c)
  \/ \E c \in Conns : PanicSession(c)
  \/ \E w \in Workers : WorkerPanics(w) \/ AbortWorker(w)
  \/ ManagementFails
  \/ WriterFails
  \/ OrphanLands
  \/ Signal \/ SignalFails
  \/ AbortServer \/ AbortLogger

\* The process has exited.
Exited == main = "exit" /\ UNCHANGED vars

Next ==
  \/ /\ main # "exit"
     /\ \/ \E c \in Conns : SessionStep(c)
        \/ \E e \in Endpoints : EndpointStep(e)
        \/ \E w \in {Management, Maintenance} : AuxStep(w)
        \/ ServerStep
        \/ MainStep
        \/ WriterStep
        \/ Environment
  \/ Exited

\* Every task that can run is polled; sessions end by their lifetime at the
\* latest, and a write by its deadline.  Nothing is assumed of clients,
\* signals or the grace timers.
Fairness ==
  /\ \A c \in Conns : WF_vars(SessionStep(c) /\ main # "exit")
  /\ \A e \in Endpoints : WF_vars(EndpointStep(e) /\ main # "exit")
  /\ \A e \in Endpoints : WF_vars((PollToken(e) \/ Wait(e)) /\ main # "exit")
  /\ \A w \in Workers : WF_vars(AbortWorker(w) /\ main # "exit")
  /\ \A w \in {Management, Maintenance} : WF_vars(AuxStep(w) /\ main # "exit")
  /\ WF_vars(ServerStep /\ main # "exit")
  /\ WF_vars(MainStep)
  /\ WF_vars(WriterStep /\ main # "exit")

Spec == Init /\ [][Next]_vars
FairSpec == Spec /\ Fairness

-----------------------------------------------------------------------------
(* Properties                                                              *)

Running == {"running", "closing", "logging", "logged"}

\* max_sessions bounds the sessions of all endpoints together, on every way
\* out of a session (return, panic, abort): each live session task holds one
\* permit, and the active gauge counts exactly the sessions in progress.
SessionBound ==
  /\ permits + Cardinality({c \in Conns : conn[c] \in Live}) = max_sessions
  /\ active = Cardinality({c \in Conns : conn[c] \in Running})

\* When the server task has returned by itself, no session is left behind,
\* unless a worker panicked and dropped its sessions.
NoSessionOutlivesServer ==
  server \in {"ok", "err"} /\ "worker" \notin faults =>
    \A c \in Conns : conn[c] \notin {"accepted"} \cup Live \cup Gone

\* "shutdown complete; queued records flushed" (main.rs:204): when the
\* process exits with success, each session that was admitted ended by
\* itself, and its record is in every sink or was counted as queue_full.
CleanExitLosesNothing ==
  main = "exit" /\ outcome = "ok" =>
    /\ \A c \in Conns : conn[c] \in {"idle", "rejected", "gone"}
    /\ \A k \in Sinks : sunk[k] = accepted
    /\ Cardinality({c \in Conns : reason[c] # "none"})
         = written + dropped["queue_full"]
    /\ written = Len(accepted)

\* The exit status tells the truth: it is a failure exactly when a task
\* panicked, failed or had to be aborted; a failure seen by any task reaches
\* main through every join, and a signal alone ends in success.
ExitStatus == main = "exit" => (outcome = "err" <=> faults # {})

\* "One when listeners are started and the writer is healthy" (metrics.rs:117).
ReadyMeansWriterHealthy == ready = 1 => writer \in {"recv", "write", "mark"}

\* metrics.rs handle: GET /readyz asks the error counter too.
Readyz == ready = 1 /\ errors = 0

\* What the gauge alone does not give, /readyz does: it never answers "ready"
\* once the writer has recorded its failure, nor after it has ended, although
\* the server may set the gauge after the writer has cleared it.
ReadyzTruthful == Readyz => writer \in {"recv", "write", "mark"}

\* The sensor uses the log as module Logger says it may be used: a task that
\* owns the state holds a handle, tasks get theirs from tasks that have one,
\* and whatever drops a task (a return, a panic, an abort, drop(state) in
\* main) drops one handle, never between the two steps of try_send.  The gauge
\* ready is left to the writer here, which Logger knows alone.
LogAsUsed == INSTANCE Logger
  WITH Senders <- Holders, handles <- StateHolders,
       MaxRecords <- Cardinality(Conns),
       ready <- 1 - errors

ImplementsLogger == LogAsUsed!Spec

\* A signal, or the failure of any task, stops the whole process.
StopsWhenTold == (signalled \/ faults # {}) ~> main = "exit"

=============================================================================
