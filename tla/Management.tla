----------------------------- MODULE Management -----------------------------
(***************************************************************************)
(* The management endpoint (src/metrics.rs: serve): a loop that polls, in  *)
(* this order, the shutdown token, its connection tasks and its listener,  *)
(* spawns at most max_connections tasks, each with a deadline, and drains  *)
(* them at the end.                                                        *)
(*                                                                         *)
(* Other tasks run between the polls of one round.  What hyper does with a *)
(* request is left out: a connection ends answered, broken or late, at any *)
(* time, and its slot is what counts here.  The answer of /readyz is in    *)
(* HealthCheck; the worker that serve is to the process is in Sensor.      *)
(***************************************************************************)
EXTENDS Naturals, FiniteSets

CONSTANTS Clients,         \* peers, each with one connection at a time
          max_connections

ASSUME ManagementAssumption ==
  /\ IsFiniteSet(Clients)
  /\ max_connections \in Nat \ {0}

VARIABLES
  conn,      \* client -> where its connection is
  server,    \* where serve is
  token,     \* the shutdown token
  failure,   \* serve's variable of this name is not None
  active,    \* the gauge metrics_active_connections
  trouble    \* history: a task has panicked or an accept has failed

vars == <<conn, server, token, failure, active, trouble>>

In(places) == {c \in Clients : conn[c] \in places}

\* tasks: what the JoinSet holds, finished tasks included until they are joined.
Finished == In({"done", "panicked"})
Tasks == In({"spawned", "serving"}) \cup Finished

MoveTo(c, place) == conn' = [conn EXCEPT ![c] = place]

Init ==
  /\ conn = [c \in Clients |-> "idle"]
  /\ server = "token"
  /\ token = FALSE
  /\ failure = FALSE
  /\ active = 0
  /\ trouble = FALSE

-----------------------------------------------------------------------------
(* The clients and the other parts of the process                          *)

\* A client connects, and waits in the listener's backlog (external).
Connect(c) ==
  /\ conn[c] = "idle"
  /\ server \notin {"drain", "ok", "err"}
  /\ MoveTo(c, "backlog")
  /\ UNCHANGED <<server, token, failure, active, trouble>>

Shutdown ==
  /\ ~token
  /\ token' = TRUE
  /\ UNCHANGED <<conn, server, failure, active, trouble>>

-----------------------------------------------------------------------------
(* A connection task                                                       *)

\* Its first poll: the guard raises the gauge.
Begin(c) ==
  /\ conn[c] = "spawned"
  /\ active' = active + 1
  /\ MoveTo(c, "serving")
  /\ UNCHANGED <<server, token, failure, trouble>>

\* (mutant) the gauge is lowered by the last statement and not by a guard
Leave_unguarded(c, place) ==
  /\ conn[c] = "serving"
  /\ active' = IF place = "panicked" THEN active ELSE active - 1
  /\ MoveTo(c, place)
  /\ UNCHANGED <<server, token, failure>>

\* However the task ends, its guard is dropped.
Leave(c, place) ==
  /\ conn[c] = "serving"
  /\ active' = active - 1
  /\ MoveTo(c, place)
  /\ UNCHANGED <<server, token, failure>>

\* Answered, closed, past its deadline or cancelled.
End(c) == Leave(c, "done") /\ UNCHANGED trouble

Panic(c) == Leave(c, "panicked") /\ trouble' = TRUE

-----------------------------------------------------------------------------
(* serve                                                                   *)

\* The listener is dropped, and with it the connections in its backlog.
Break ==
  /\ server' = "drain"
  /\ conn' = [c \in Clients |-> IF conn[c] = "backlog" THEN "idle" ELSE conn[c]]

PollToken ==
  /\ server = "token"
  /\ \/ token /\ Break
     \/ ~token /\ server' = "join" /\ UNCHANGED conn
  /\ UNCHANGED <<token, failure, active, trouble>>

\* (mutant) the listener is polled before the tasks
Joinable_last == IF In({"backlog"}) = {} THEN Finished ELSE {}

\* The tasks a poll of join_next can return.
Joinable == Finished

\* A panic stops everything.
JoinFailed(c) ==
  /\ conn[c] = "panicked"
  /\ server' = "drain"
  /\ conn' = [k \in Clients |-> IF k = c \/ conn[k] = "backlog" THEN "idle" ELSE conn[k]]
  /\ token' = TRUE
  /\ failure' = TRUE

JoinDone(c) ==
  /\ conn[c] = "done"
  /\ MoveTo(c, "idle")
  /\ server' = "token"
  /\ UNCHANGED <<token, failure>>

\* One finished task is joined; with none, the listener is next.
PollJoin ==
  /\ server = "join"
  /\ \/ \E c \in Joinable : JoinDone(c) \/ JoinFailed(c)
     \/ /\ Joinable = {}
        /\ server' = "accept"
        /\ UNCHANGED <<conn, token, failure>>
  /\ UNCHANGED <<active, trouble>>

\* (mutant) running tasks are counted by the gauge, which lags behind a spawn
AtCapacity_gauge == active >= max_connections

AtCapacity == Cardinality(Tasks) >= max_connections

PollAccept ==
  /\ server = "accept"
  /\ \/ \E c \in In({"backlog"}) :
          /\ MoveTo(c, IF AtCapacity THEN "idle" ELSE "spawned")
          /\ server' = "token"
     \/ /\ In({"backlog"}) = {}
        /\ server' = "wait"
        /\ UNCHANGED conn
  /\ UNCHANGED <<token, failure, active, trouble>>

AcceptFails ==
  /\ server = "accept"
  /\ Break
  /\ token' = TRUE
  /\ failure' = TRUE
  /\ trouble' = TRUE
  /\ UNCHANGED active

\* Nothing was ready; one of the three becomes so and the loop is polled again.
Wake ==
  /\ server = "wait"
  /\ token \/ Finished # {} \/ In({"backlog"}) # {}
  /\ server' = "token"
  /\ UNCHANGED <<conn, token, failure, active, trouble>>

\* (mutant) a panic is heard by the loop alone
DrainOne_deaf ==
  /\ server = "drain"
  /\ \E c \in Finished : MoveTo(c, "idle")
  /\ UNCHANGED <<server, token, failure, active, trouble>>

\* The drain joins every task and keeps the first failure.
DrainOne ==
  /\ server = "drain"
  /\ \E c \in Finished :
       /\ failure' = (failure \/ conn[c] = "panicked")
       /\ MoveTo(c, "idle")
  /\ UNCHANGED <<server, token, active, trouble>>

AllJoined == Tasks = {}

Drained ==
  /\ server = "drain"
  /\ AllJoined
  /\ server' = IF failure THEN "err" ELSE "ok"
  /\ UNCHANGED <<conn, token, failure, active, trouble>>

Serve == PollToken \/ PollJoin \/ PollAccept \/ Wake \/ DrainOne \/ Drained

Ended == server \in {"ok", "err"}

\* The server is gone, and nothing is left to happen.
Rest == Ended /\ token /\ UNCHANGED vars

Next ==
  \/ \E c \in Clients : Connect(c) \/ Begin(c) \/ End(c) \/ Panic(c)
  \/ Shutdown
  \/ Serve
  \/ AcceptFails
  \/ Rest

\* Tasks are polled, and each connection has a deadline.  Nothing is assumed
\* of clients: they may connect for ever, or never.
Fairness ==
  /\ WF_vars(Serve)
  /\ \A c \in Clients : WF_vars(Begin(c)) /\ WF_vars(End(c))

Spec == Init /\ [][Next]_vars /\ Fairness

-----------------------------------------------------------------------------
(* Properties                                                              *)

\* Type correctness; the gauge counts the tasks that are being served.
TypeOK ==
  /\ conn \in [Clients -> {"idle", "backlog", "spawned", "serving", "done", "panicked"}]
  /\ server \in {"token", "join", "accept", "wait", "drain", "ok", "err"}
  /\ token \in BOOLEAN /\ failure \in BOOLEAN /\ trouble \in BOOLEAN
  /\ active = Cardinality(In({"serving"}))

\* However many clients connect, at most max_connections tasks exist, also
\* before the first poll of a task and before the join of a finished one.
CapHolds == Cardinality(Tasks) <= max_connections

\* serve returns only when the shutdown was told to everyone and no task of
\* its own is left, and it returns an error exactly if an accept failed or a
\* task panicked at any time: in the loop, or while others were drained.
EndsAsPromised ==
  Ended => /\ token
           /\ Tasks = {} /\ active = 0
           /\ server = "err" <=> trouble

\* A full management endpoint becomes free again, or stops: slow clients lose
\* their slots at the deadline, and a flood of new connections does not keep
\* the loop from joining what has ended.
SlotsComeBack == AtCapacity ~> (~AtCapacity \/ Ended)

=============================================================================
