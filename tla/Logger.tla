------------------------------- MODULE Logger -------------------------------
(***************************************************************************)
(* The session log of src/logger.rs: Logger::log, which sessions call and  *)
(* which never waits, a bounded channel, and run_writer, the one task that *)
(* moves records from the channel to the configured sinks.                 *)
(*                                                                         *)
(* The channel is tokio's bounded mpsc, modelled from how the code uses it *)
(* (external): try_send first takes a permit and then pushes the record,   *)
(* and on a multi-threaded runtime the writer can run between the two.     *)
(* What a sink does with a record is FileSink's subject; here a write of   *)
(* one record succeeds, or fails (an I/O error or the write deadline) with *)
(* the record landed or not.  A holder of a handle may clone it.           *)
(***************************************************************************)
EXTENDS Integers, Sequences, FiniteSets

CONSTANTS Senders,      \* the holders of a Logger handle
          Sinks,        \* configured sinks, from {"file", "stdout"}
          buffer_size,  \* capacity of the channel
          MaxRecords    \* bound on calls of log, for TLC

ASSUME LoggerAssumption ==
  /\ IsFiniteSet(Senders)
  /\ Sinks \subseteq {"file", "stdout"} /\ Sinks # {}
  /\ buffer_size \in Nat \ {0}
  /\ MaxRecords \in Nat

VARIABLES
  handles,   \* senders that have not dropped their handle
  sending,   \* the record each sender has a permit for, else NoRecord
  attempts,  \* calls of log so far; the n-th call logs record n
  queue,     \* the channel, oldest record first
  accepted,  \* history: records log returned true for, in channel order
  writer,    \* where run_writer is
  current,   \* the record run_writer has received, else NoRecord
  todo,      \* sinks run_writer has still to write current to
  orphan,    \* a sink write given up by its task that may still land
  sunk,      \* what each sink holds
  written,   \* logger_written_total
  dropped,   \* logger_dropped_total, by reason
  errors,    \* logger_errors_total
  ready      \* metrics.ready, as far as the writer drives it

vars == <<handles, sending, attempts, queue, accepted, writer, current, todo,
          orphan, sunk, written, dropped, errors, ready>>

callVars == <<handles, sending, attempts, accepted>>
writerVars == <<writer, current, todo, orphan, sunk, written, errors, ready>>

NoRecord == 0
NoOrphan == <<>>
Reasons == {"queue_full", "channel_closed", "writer_error"}

Init ==
  /\ handles \in SUBSET Senders /\ handles # {}
  /\ sending = [s \in Senders |-> NoRecord]
  /\ attempts = 0
  /\ queue = <<>>
  /\ accepted = <<>>
  /\ writer = "recv"
  /\ current = NoRecord
  /\ todo = {}
  /\ orphan = NoOrphan
  /\ sunk = [k \in Sinks |-> <<>>]
  /\ written = 0
  /\ dropped = [r \in Reasons |-> 0]
  /\ errors = 0
  /\ ready = 1

-----------------------------------------------------------------------------
(* The channel (tokio::sync::mpsc, external)                               *)

Reserved == {s \in Senders : sending[s] # NoRecord}

\* The receiver still accepts records: rx.close() was not called and the
\* receiver was not dropped.
RxOpen == writer \in {"recv", "write"}

\* The receiver exists, so that a pushed record enters the queue.
RxAlive == writer \in {"recv", "write", "mark", "count"}

HasPermit == Len(queue) + Cardinality(Reserved) < buffer_size

-----------------------------------------------------------------------------
(* Logger::log                                                             *)

Calls(s) ==
  /\ s \in handles
  /\ sending[s] = NoRecord
  /\ attempts < MaxRecords
  /\ attempts' = attempts + 1

Drop(reason, n) == dropped' = [dropped EXCEPT ![reason] = @ + n]

LogClosed(s) ==
  /\ Calls(s)
  /\ ~RxOpen
  /\ Drop("channel_closed", 1)
  /\ UNCHANGED <<handles, sending, queue, accepted, writerVars>>

\* (mutant) the oldest record makes room for the new one
Overflow_displace ==
  /\ queue # <<>>
  /\ queue' = Append(Tail(queue), attempts') /\ accepted' = Append(accepted, attempts')

\* The records in the channel stay, and the new one is dropped.
Overflow == UNCHANGED <<queue, accepted>>

LogFull(s) ==
  /\ Calls(s)
  /\ RxOpen
  /\ ~HasPermit
  /\ Overflow
  /\ Drop("queue_full", 1)
  /\ UNCHANGED <<handles, sending, writerVars>>

LogPermit(s) ==
  /\ Calls(s)
  /\ RxOpen
  /\ HasPermit
  /\ sending' = [sending EXCEPT ![s] = attempts']
  /\ UNCHANGED <<handles, queue, accepted, dropped, writerVars>>

\* The record enters the channel, or vanishes with a receiver that has been
\* dropped since the permit was taken; log returns true either way.
LogPush(s) ==
  /\ sending[s] # NoRecord
  /\ sending' = [sending EXCEPT ![s] = NoRecord]
  /\ queue' = IF RxAlive THEN Append(queue, sending[s]) ELSE queue
  /\ accepted' = Append(accepted, sending[s])
  /\ UNCHANGED <<handles, attempts, dropped, writerVars>>

\* New tasks get clones of the state (external); one step of a task may spawn
\* several.
CloneHandles(new) ==
  /\ handles # {}
  /\ new # {} /\ new \cap handles = {}
  /\ handles' = handles \cup new
  /\ UNCHANGED <<sending, attempts, queue, accepted, dropped, writerVars>>

\* A sender drops its handle; the last one closes the channel.
DropHandle(s) ==
  /\ s \in handles
  /\ sending[s] = NoRecord
  /\ handles' = handles \ {s}
  /\ UNCHANGED <<sending, attempts, queue, accepted, dropped, writerVars>>

-----------------------------------------------------------------------------
(* run_writer                                                              *)

\* The writer gives up what it holds, and the receiver is dropped with it.
Leave(place) ==
  /\ writer' = place
  /\ queue' = <<>>
  /\ current' = NoRecord
  /\ todo' = {}

\* (mutant) the writer waits for a batch of two
Receivable_batch == Len(queue) >= 2

Receivable == queue # <<>>

Recv ==
  /\ writer = "recv"
  /\ Receivable
  /\ current' = Head(queue)
  /\ queue' = Tail(queue)
  /\ todo' = Sinks
  /\ writer' = "write"
  /\ UNCHANGED <<callVars, orphan, sunk, written, dropped, errors, ready>>

\* (mutant) the end of the channel is noticed only after a success
Disconnected_lazy == queue = <<>> /\ handles = {} /\ written > 0

\* Every handle is dropped and the channel is empty.
Disconnected == queue = <<>> /\ handles = {}

\* recv returns None.
RecvNone ==
  /\ writer = "recv"
  /\ Disconnected
  /\ Leave("ended")
  /\ UNCHANGED <<callVars, orphan, sunk, written, dropped, errors, ready>>

\* The file is written before stdout.
NextSink == IF "file" \in todo THEN "file" ELSE "stdout"

Land(k, record) == sunk' = [sunk EXCEPT ![k] = Append(@, record)]

WriteSink ==
  /\ writer = "write"
  /\ todo # {}
  /\ Land(NextSink, current)
  /\ todo' = todo \ {NextSink}
  /\ UNCHANGED <<callVars, queue, writer, current, orphan, written, dropped, errors, ready>>

WriteDone ==
  /\ writer = "write"
  /\ todo = {}
  /\ written' = written + 1
  /\ writer' = "recv"
  /\ current' = NoRecord
  /\ UNCHANGED <<callVars, queue, todo, orphan, sunk, dropped, errors, ready>>

\* A sink fails or the deadline of the record passes.  The file operation
\* runs on a blocking thread that nothing cancels, so the write under way
\* may land later all the same.  rx.close() comes first.
WriteFail ==
  /\ writer = "write"
  /\ todo # {}
  /\ orphan' \in {NoOrphan, <<NextSink, current>>}
  /\ writer' = "mark"
  /\ UNCHANGED <<callVars, queue, current, todo, sunk, written, dropped, errors, ready>>

OrphanLands ==
  /\ orphan # NoOrphan
  /\ Land(orphan[1], orphan[2])
  /\ orphan' = NoOrphan
  /\ UNCHANGED <<callVars, queue, writer, current, todo, written, dropped, errors, ready>>

\* (mutant) the error is not counted
CountError_not == UNCHANGED errors

CountError == errors' = errors + 1

\* metrics.ready.set(0) and logger_errors_total.inc().
MarkFailed ==
  /\ writer = "mark"
  /\ ready' = 0
  /\ CountError
  /\ writer' = "count"
  /\ UNCHANGED <<callVars, queue, current, todo, orphan, sunk, written, dropped>>

\* (mutant) the record that failed is left out of the count
Lost_less == Len(queue)

\* The current record and the queued ones.
Lost == 1 + Len(queue)

CountLost ==
  /\ writer = "count"
  /\ Drop("writer_error", Lost)
  /\ Leave("failed")
  /\ UNCHANGED <<callVars, orphan, sunk, written, errors, ready>>

\* The task is aborted at an await point (main.rs, finish): nothing is
\* counted, and the write under way may still land.
Abort ==
  /\ \/ /\ writer = "recv"
        /\ orphan' = orphan
     \/ /\ writer = "write"
        /\ todo # {}
        /\ orphan' \in {NoOrphan, <<NextSink, current>>}
  /\ Leave("aborted")
  /\ UNCHANGED <<callVars, sunk, written, dropped, errors, ready>>

-----------------------------------------------------------------------------

Log(s) == LogClosed(s) \/ LogFull(s) \/ LogPermit(s)

Writer == Recv \/ RecvNone \/ WriteSink \/ WriteDone \/ WriteFail
            \/ MarkFailed \/ CountLost

Over == writer \in {"ended", "failed", "aborted"}

\* Everything has stopped: no handle is left and the writer is gone.
Terminated ==
  /\ Over
  /\ handles = {}
  /\ UNCHANGED vars

Next ==
  \/ \E s \in Senders : Log(s) \/ LogPush(s) \/ DropHandle(s)
  \/ \E new \in SUBSET Senders : CloneHandles(new)
  \/ Writer
  \/ OrphanLands
  \/ Abort
  \/ Terminated

\* The runtime schedules the writer, and no sender stops inside try_send.
\* Nothing is assumed of sinks, except that a write ends one way or another:
\* run_writer puts a deadline on it.
Fairness ==
  /\ WF_vars(Writer)
  /\ \A s \in Senders : WF_vars(LogPush(s))

Spec == Init /\ [][Next]_vars
FairSpec == Spec /\ Fairness

-----------------------------------------------------------------------------
(* Properties                                                              *)

IsPrefixOf(u, v) == Len(u) <= Len(v) /\ \A k \in 1..Len(u) : u[k] = v[k]

\* "A full queue drops the NEW record; existing records are never displaced"
\* (config.rs:72): every sink holds the accepted records in channel order,
\* none skipped and none repeated, whatever was dropped in between.
DeliveredInOrder == \A k \in Sinks : IsPrefixOf(sunk[k], accepted)

DroppedTotal ==
  dropped["queue_full"] + dropped["channel_closed"] + dropped["writer_error"]

InHand == IF current = NoRecord THEN 0 ELSE 1

\* Records offered to log that are neither written, nor counted as dropped,
\* nor still on their way.
Unaccounted ==
  attempts - (written + DroppedTotal + Len(queue) + InHand + Cardinality(Reserved))

\* Accounting of every call of log across senders and writer: nothing is
\* lost or counted twice until the writer stops, a clean stop loses nothing,
\* a failed one loses without a count at most the records whose senders held
\* one of the channel's permits at that moment, and an aborted one at most the
\* channel and the record in hand.
Accounting ==
  /\ Unaccounted >= 0
  /\ writer \notin {"failed", "aborted"} => Unaccounted = 0
  /\ writer = "failed" =>
       Unaccounted + Cardinality(Reserved) <= buffer_size
  /\ writer = "aborted" => Unaccounted <= buffer_size + 1

\* logger_dropped_total is documented as "records not delivered to all
\* sinks" (metrics.rs:102): once the writer has failed and no call of log is
\* under way, each record was written or counted.
LossCounted ==
  writer = "failed" /\ Reserved = {} => Unaccounted = 0

\* Every record log accepted is written to all sinks, unless the writer
\* fails or is aborted: a record is never stuck in the channel.
AcceptedRecordWritten ==
  \A n \in 1..MaxRecords :
    Len(accepted) >= n ~> (written >= n \/ writer \in {"failed", "aborted"})

\* Dropping the last handle ends the writer.
WriterEnds == (handles = {}) ~> Over

=============================================================================
