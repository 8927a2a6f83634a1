---------------------------- MODULE LoggerProofs ----------------------------
(***************************************************************************)
(* Proofs about Logger for every finite set of senders, every choice of    *)
(* sinks and every capacity of the channel.                                *)
(***************************************************************************)
EXTENDS Logger, FiniteSetTheorems, SequenceTheorems, TLAPS

\* Records are numbered from 1, so that none is NoRecord.
Records == Nat \ {0}

LogTypeOK ==
  /\ handles \subseteq Senders
  /\ sending \in [Senders -> Nat]
  /\ attempts \in Nat
  /\ queue \in Seq(Records) /\ accepted \in Seq(Records)
  /\ writer \in {"recv", "write", "mark", "count", "ended", "failed", "aborted"}
  /\ current \in Nat
  /\ todo \subseteq Sinks
  /\ orphan # NoOrphan => orphan \in Sinks \X Records
  /\ sunk \in [Sinks -> Seq(Records)]
  /\ written \in Nat
  /\ dropped \in [Reasons -> Nat]

\* The channel holds the accepted records that the writer has not received;
\* the one in its hand is the first that is not written.
ChannelInv ==
  /\ current # NoRecord <=> writer \in {"write", "mark", "count"}
  /\ RxAlive =>
       /\ Len(accepted) = written + InHand + Len(queue)
       /\ \A k \in 1..Len(queue) : queue[k] = accepted[written + InHand + k]
       /\ InHand = 1 => current = accepted[written + 1]
  /\ ~RxAlive => queue = <<>>

\* Each sink has the records written, and perhaps the one in hand.  A write
\* that was given up is of the record after the last one in its sink.
SinksInv ==
  /\ DeliveredInOrder
  /\ writer = "recv" =>
       todo = {} /\ orphan = NoOrphan /\ \A k \in Sinks : Len(sunk[k]) = written
  /\ writer = "write" =>
       /\ orphan = NoOrphan
       /\ \A k \in Sinks : Len(sunk[k]) = IF k \in todo THEN written ELSE written + 1
  /\ orphan # NoOrphan =>
       /\ Len(sunk[orphan[1]]) = written
       /\ Len(accepted) > written
       /\ accepted[written + 1] = orphan[2]

\* A permit is a place in the channel, and goes with a handle.  Accounting,
\* with the permits that outlive the receiver.
CountsInv ==
  /\ \A s \in Senders : sending[s] # NoRecord => s \in handles
  /\ writer = "ended" => handles = {}
  /\ Len(queue) + Cardinality(Reserved) <= buffer_size
  /\ Unaccounted >= 0
  /\ writer \notin {"failed", "aborted"} => Unaccounted = 0
  /\ writer = "failed" => Unaccounted + Cardinality(Reserved) <= buffer_size
  /\ writer = "aborted" => Unaccounted + Cardinality(Reserved) <= buffer_size + 1

\* A channel that is open refuses nothing as closed, and a writer that has not
\* failed counts no loss of its own; one that ended had nothing left to do.
EndInv ==
  /\ writer \in {"recv", "write", "ended"} =>
       dropped["channel_closed"] = 0 /\ dropped["writer_error"] = 0
  /\ writer = "ended" =>
       /\ Len(accepted) = written
       /\ orphan = NoOrphan
       /\ \A k \in Sinks : Len(sunk[k]) = written

\* The inductive invariant of the log.
IInv == LogTypeOK /\ ChannelInv /\ SinksInv /\ CountsInv /\ EndInv

-----------------------------------------------------------------------------
(* The operators the actions are built from                                *)

\* The sink the writer turns to is one of those it has to write.
LEMMA NextSinkIsToDo ==
  ASSUME todo \subseteq Sinks, todo # {}
  PROVE  NextSink \in todo /\ NextSink \in Sinks
  BY LoggerAssumption DEF NextSink

\* Permits are held by senders, so that there are finitely many.
LEMMA ReservedFinite ==
  /\ IsFiniteSet(Reserved)
  /\ Cardinality(Reserved) \in Nat
<1>1. Reserved \subseteq Senders
  BY DEF Reserved
<1> QED
  BY <1>1, LoggerAssumption, FS_Subset, FS_CardinalityType

\* A permit taken is one more.
LEMMA PermitTaken ==
  ASSUME LogTypeOK, NEW s \in Senders, sending[s] = NoRecord,
         sending' = [sending EXCEPT ![s] = attempts + 1]
  PROVE  Cardinality(Reserved') = Cardinality(Reserved) + 1
<1>1. Reserved' = Reserved \cup {s} /\ s \notin Reserved
  BY DEF Reserved, LogTypeOK, NoRecord
<1> QED
  BY <1>1, ReservedFinite, FS_AddElement

\* A permit used is one less.
LEMMA PermitUsed ==
  ASSUME LogTypeOK, NEW s \in Senders, sending[s] # NoRecord,
         sending' = [sending EXCEPT ![s] = NoRecord]
  PROVE  /\ Cardinality(Reserved') = Cardinality(Reserved) - 1
         /\ Cardinality(Reserved) >= 1
<1>1. Reserved' = Reserved \ {s} /\ s \in Reserved
  BY DEF Reserved, LogTypeOK, NoRecord
<1>2. Cardinality(Reserved') = Cardinality(Reserved) - 1
  BY <1>1, ReservedFinite, FS_RemoveElement
<1>3. Cardinality(Reserved') \in Nat
  BY <1>1, ReservedFinite, FS_RemoveElement, FS_CardinalityType
<1> QED
  BY <1>2, <1>3, ReservedFinite

\* Where no handle is left, no permit is.
LEMMA NoHandleNoPermit ==
  ASSUME CountsInv, handles = {}
  PROVE  Cardinality(Reserved) = 0
<1>1. Reserved = {}
  BY DEF CountsInv, Reserved
<1> QED
  BY <1>1, FS_EmptySet

\* Records dropped for a reason add to the total of all reasons.
LEMMA DropAdds ==
  ASSUME dropped \in [Reasons -> Nat], NEW reason \in Reasons, NEW n \in Nat,
         Drop(reason, n)
  PROVE  /\ dropped' \in [Reasons -> Nat]
         /\ DroppedTotal \in Nat
         /\ DroppedTotal' = DroppedTotal + n
<1>1. dropped' = [dropped EXCEPT ![reason] = @ + n]
  BY DEF Drop
<1>2. /\ dropped["queue_full"] \in Nat
      /\ dropped["channel_closed"] \in Nat
      /\ dropped["writer_error"] \in Nat
  BY DEF Reasons
<1>3. dropped' \in [Reasons -> Nat]
  BY <1>1 DEF Reasons
<1>4. DroppedTotal' = DroppedTotal + n
  BY <1>1, <1>2 DEF Reasons, DroppedTotal
<1> QED
  BY <1>2, <1>3, <1>4 DEF DroppedTotal

\* The numbers that are added up are numbers.
LEMMA TotalsTyped ==
  ASSUME LogTypeOK
  PROVE  /\ attempts \in Nat /\ written \in Nat
         /\ DroppedTotal \in Nat /\ Len(queue) \in Nat /\ InHand \in 0..1
<1>1. /\ dropped["queue_full"] \in Nat
      /\ dropped["channel_closed"] \in Nat
      /\ dropped["writer_error"] \in Nat
  BY DEF LogTypeOK, Reasons
<1> QED
  BY <1>1 DEF DroppedTotal, InHand, LogTypeOK

\* A longer channel history keeps every prefix of it.
LEMMA PrefixOfLonger ==
  ASSUME NEW u \in Seq(Records), NEW v \in Seq(Records), NEW e \in Records,
         IsPrefixOf(u, v)
  PROVE  IsPrefixOf(u, Append(v, e))
  BY AppendProperties DEF IsPrefixOf

\* A prefix followed by the next element is a prefix.
LEMMA PrefixGrows ==
  ASSUME NEW u \in Seq(Records), NEW v \in Seq(Records), IsPrefixOf(u, v),
         Len(u) < Len(v)
  PROVE  IsPrefixOf(Append(u, v[Len(u) + 1]), v)
<1> DEFINE e == v[Len(u) + 1]
           w == Append(u, e)
<1>1. e \in Records
  BY ElementOfSeq
<1>2. /\ Len(w) = Len(u) + 1
      /\ \A i \in 1..Len(u) : w[i] = u[i]
      /\ w[Len(u) + 1] = e
  BY <1>1, AppendProperties
<1> QED
  BY <1>2 DEF IsPrefixOf
-----------------------------------------------------------------------------
(* Every step keeps the invariant                                          *)

\* Logger::log up to the push: a refused record is counted, an admitted one
\* gets a permit.
LEMMA LogKeeps ==
  ASSUME IInv, NEW s \in Senders, Log(s)
  PROVE  IInv'
<1> USE DEF IInv
<1>t. /\ attempts \in Nat /\ written \in Nat
      /\ DroppedTotal \in Nat /\ Len(queue) \in Nat /\ InHand \in 0..1
      /\ Cardinality(Reserved) \in Nat
  BY TotalsTyped, ReservedFinite
<1>1. CASE LogClosed(s) \/ LogFull(s)
  <2>1. PICK reason \in Reasons : Drop(reason, 1)
    BY <1>1 DEF LogClosed, LogFull, Reasons
  <2>2. /\ attempts' = attempts + 1
        /\ UNCHANGED <<handles, sending, queue, accepted, writerVars>>
    BY <1>1 DEF LogClosed, LogFull, Calls, Overflow
  <2>3. /\ dropped' \in [Reasons -> Nat]
        /\ DroppedTotal' = DroppedTotal + 1
    BY <2>1, DropAdds DEF LogTypeOK
  <2>4. LogTypeOK'
    BY <2>2, <2>3 DEF LogTypeOK, writerVars
  <2>5. ChannelInv' /\ SinksInv'
    BY <2>2 DEF ChannelInv, SinksInv, DeliveredInOrder, RxAlive, InHand, writerVars
  <2>6. Unaccounted' = Unaccounted /\ Reserved' = Reserved
    <3>1. Reserved' = Reserved
      BY <2>2 DEF Reserved
    <3>2. InHand' = InHand /\ written' = written /\ Len(queue)' = Len(queue)
      BY <2>2 DEF InHand, writerVars
    <3> QED
      BY <3>1, <3>2, <2>2, <2>3, <1>t DEF Unaccounted
  <2>7. CountsInv'
    BY <2>2, <2>6 DEF CountsInv, writerVars
  <2>8. EndInv'
    <3>1. /\ writer' = writer /\ s \in handles
          /\ writer \in {"recv", "write"} => Drop("queue_full", 1)
      BY <1>1, <2>2 DEF LogClosed, LogFull, Calls, RxOpen, writerVars
    <3>2. writer # "ended"
      BY <3>1 DEF CountsInv
    <3>3. Drop("queue_full", 1) =>
            /\ dropped'["channel_closed"] = dropped["channel_closed"]
            /\ dropped'["writer_error"] = dropped["writer_error"]
      BY DEF Drop, LogTypeOK, Reasons
    <3> QED
      BY <3>1, <3>2, <3>3 DEF EndInv
  <2> QED
    BY <2>4, <2>5, <2>7, <2>8
<1>2. CASE LogPermit(s)
  <2>1. /\ s \in handles /\ sending[s] = NoRecord
        /\ HasPermit
        /\ RxOpen
        /\ attempts' = attempts + 1
        /\ sending' = [sending EXCEPT ![s] = attempts + 1]
        /\ UNCHANGED <<handles, queue, accepted, dropped, writerVars>>
    BY <1>2 DEF LogPermit, Calls
  <2>2. LogTypeOK'
    BY <2>1 DEF LogTypeOK, writerVars
  <2>3. ChannelInv' /\ SinksInv'
    BY <2>1 DEF ChannelInv, SinksInv, DeliveredInOrder, RxAlive, InHand, writerVars
  <2>4. Cardinality(Reserved') = Cardinality(Reserved) + 1
    BY <2>1, PermitTaken
  <2>5. Unaccounted' = Unaccounted
    <3>1. InHand' = InHand /\ written' = written /\ DroppedTotal' = DroppedTotal
      BY <2>1 DEF InHand, DroppedTotal, writerVars
    <3> QED
      BY <3>1, <2>1, <2>4, <1>t DEF Unaccounted
  <2>6. Len(queue)' + Cardinality(Reserved)' <= buffer_size
    BY <2>1, <2>4, <1>t, LoggerAssumption DEF HasPermit
  <2>7. \A t \in Senders : sending'[t] # NoRecord => t \in handles'
    BY <2>1 DEF CountsInv, LogTypeOK
  <2>8. CountsInv'
    BY <2>1, <2>5, <2>6, <2>7 DEF CountsInv, RxOpen, writerVars
  <2>9. EndInv'
    BY <2>1 DEF EndInv, writerVars
  <2> QED
    BY <2>2, <2>3, <2>8, <2>9
<1> QED
  BY <1>1, <1>2 DEF Log

\* The push enters the record in the channel, or loses it with the receiver.
LEMMA PushKeeps ==
  ASSUME IInv, NEW s \in Senders, LogPush(s)
  PROVE  IInv'
<1> USE DEF IInv
<1>t. /\ attempts \in Nat /\ written \in Nat
      /\ DroppedTotal \in Nat /\ Len(queue) \in Nat /\ InHand \in 0..1
      /\ Cardinality(Reserved) \in Nat
  BY TotalsTyped, ReservedFinite
<1>1. /\ sending[s] # NoRecord
      /\ sending' = [sending EXCEPT ![s] = NoRecord]
      /\ queue' = IF RxAlive THEN Append(queue, sending[s]) ELSE queue
      /\ accepted' = Append(accepted, sending[s])
      /\ UNCHANGED <<handles, attempts, dropped, writerVars>>
  BY DEF LogPush
<1>2. sending[s] \in Records /\ queue \in Seq(Records) /\ accepted \in Seq(Records)
  BY <1>1 DEF LogTypeOK, Records, NoRecord
<1>3. /\ accepted' \in Seq(Records)
      /\ Len(accepted') = Len(accepted) + 1
      /\ \A k \in 1..Len(accepted) : accepted'[k] = accepted[k]
      /\ accepted'[Len(accepted) + 1] = sending[s]
  BY <1>1, <1>2, AppendProperties
<1>4. /\ queue' \in Seq(Records)
      /\ RxAlive => /\ Len(queue') = Len(queue) + 1
                    /\ \A k \in 1..Len(queue) : queue'[k] = queue[k]
                    /\ queue'[Len(queue) + 1] = sending[s]
      /\ ~RxAlive => queue' = queue
  BY <1>1, <1>2, AppendProperties
<1>5. sending' \in [Senders -> Nat]
  BY <1>1 DEF LogTypeOK, NoRecord
<1>6. LogTypeOK'
  BY <1>1, <1>3, <1>4, <1>5 DEF LogTypeOK, writerVars
<1>7. RxAlive' = RxAlive /\ InHand' = InHand /\ DroppedTotal' = DroppedTotal
  BY <1>1 DEF RxAlive, InHand, DroppedTotal, writerVars
<1>8. ChannelInv'
  <2>1. ASSUME RxAlive
        PROVE  /\ Len(accepted') = written' + InHand' + Len(queue')
               /\ \A k \in 1..Len(queue') : queue'[k] = accepted'[written' + InHand' + k]
               /\ InHand' = 1 => current' = accepted'[written' + 1]
    <3>1. /\ written \in Nat /\ InHand \in 0..1
          /\ Len(accepted) \in Nat /\ Len(queue) \in Nat
          /\ Len(accepted) = written + InHand + Len(queue)
          /\ \A k \in 1..Len(queue) : queue[k] = accepted[written + InHand + k]
          /\ InHand = 1 => current = accepted[written + 1]
      BY <1>2, <2>1, <1>t DEF ChannelInv, LogTypeOK
    <3>2. written' = written /\ current' = current
      BY <1>1 DEF writerVars
    <3>3. ASSUME NEW k \in 1..Len(queue')
          PROVE  queue'[k] = accepted'[written + InHand + k]
      <4>1. CASE k \in 1..Len(queue)
        BY <4>1, <3>1, <1>3, <1>4, <2>1
      <4>2. CASE k = Len(queue) + 1
        BY <4>2, <3>1, <1>3, <1>4, <2>1
      <4> QED
        BY <4>1, <4>2, <3>1, <1>4, <2>1
    <3>4. Len(accepted') = written' + InHand' + Len(queue')
      BY <1>t, <3>1, <3>2, <1>3, <1>4, <1>7, <2>1
    <3>5. InHand' = 1 => current' = accepted'[written' + 1]
      BY <3>1, <3>2, <1>3, <1>7
    <3> QED
      BY <3>2, <3>3, <3>4, <3>5, <1>7
  <2> QED
    BY <2>1, <1>1, <1>4, <1>7 DEF ChannelInv, writerVars
<1>9. SinksInv'
  <2>1. DeliveredInOrder'
    <3>1. ASSUME NEW k \in Sinks
          PROVE  IsPrefixOf(sunk[k], Append(accepted, sending[s]))
      BY <1>2, PrefixOfLonger DEF SinksInv, DeliveredInOrder, LogTypeOK
    <3> QED
      BY <3>1, <1>1 DEF DeliveredInOrder, writerVars
  <2>2. Len(accepted) \in Nat /\ written \in Nat
    BY <1>2 DEF LogTypeOK
  <2>3. Len(accepted) > written => accepted'[written + 1] = accepted[written + 1]
    BY <2>2, <1>3
  <2> QED
    BY <2>1, <2>2, <2>3, <1>1, <1>3 DEF SinksInv, writerVars
<1>10. CountsInv'
  <2>1. /\ Cardinality(Reserved') = Cardinality(Reserved) - 1
        /\ Cardinality(Reserved) >= 1
    BY <1>1, PermitUsed
  <2>a. /\ attempts' = attempts /\ written' = written
        /\ Len(queue)' = IF RxAlive THEN Len(queue) + 1 ELSE Len(queue)
    BY <1>1, <1>4 DEF writerVars
  <2>2. RxAlive => Unaccounted' = Unaccounted
    BY <2>a, <2>1, <1>7, <1>t DEF Unaccounted
  <2>3. ~RxAlive => Unaccounted' = Unaccounted + 1
    BY <2>a, <2>1, <1>7, <1>t DEF Unaccounted
  <2>4. Unaccounted \in Int
    BY <1>t DEF Unaccounted
  <2>5. writer # "ended"
    BY <2>1, NoHandleNoPermit DEF CountsInv
  <2>6. Len(queue') + Cardinality(Reserved') <= buffer_size
    BY <2>1, <1>4, <1>t, LoggerAssumption DEF CountsInv
  <2>7. \A t \in Senders : sending'[t] # NoRecord => t \in handles'
    BY <1>1 DEF CountsInv, LogTypeOK
  <2>8. Unaccounted' >= 0
    BY <2>2, <2>3, <2>4 DEF CountsInv
  <2>9. writer' \notin {"failed", "aborted"} => Unaccounted' = 0
    BY <2>2, <2>5, <1>1 DEF CountsInv, RxAlive, writerVars, LogTypeOK
  <2>10. /\ writer' = "failed" => Unaccounted' + Cardinality(Reserved') <= buffer_size
         /\ writer' = "aborted" =>
              Unaccounted' + Cardinality(Reserved') <= buffer_size + 1
    BY <2>1, <2>3, <2>4, <1>1, ReservedFinite DEF CountsInv, RxAlive, writerVars
  <2> QED
    BY <2>5, <2>6, <2>7, <2>8, <2>9, <2>10, <1>1 DEF CountsInv, writerVars
<1>11. EndInv'
  <2>1. writer # "ended"
    BY <1>1, PermitUsed, NoHandleNoPermit DEF CountsInv
  <2> QED
    BY <2>1, <1>1 DEF EndInv, writerVars
<1> QED
  BY <1>6, <1>8, <1>9, <1>10, <1>11

\* Handles are cloned, and dropped by senders that are not inside try_send.
LEMMA HandleKeeps ==
  ASSUME IInv,
         \/ \E new \in SUBSET Senders : CloneHandles(new)
         \/ \E s \in Senders : DropHandle(s)
  PROVE  IInv'
<1> USE DEF IInv
<1>1. UNCHANGED <<sending, attempts, queue, accepted, dropped, writerVars>>
  BY DEF CloneHandles, DropHandle
<1>2. LogTypeOK'
  BY <1>1 DEF LogTypeOK, writerVars, CloneHandles, DropHandle
<1>3. ChannelInv' /\ SinksInv'
  BY <1>1 DEF ChannelInv, SinksInv, DeliveredInOrder, RxAlive, InHand, writerVars
<1>4. Unaccounted' = Unaccounted /\ Reserved' = Reserved
  BY <1>1 DEF Unaccounted, InHand, Reserved, DroppedTotal, writerVars
<1>5. \A t \in Senders : sending'[t] # NoRecord => t \in handles'
  BY <1>1 DEF CountsInv, CloneHandles, DropHandle
<1>6. writer' = "ended" => handles' = {}
  BY <1>1 DEF CountsInv, CloneHandles, DropHandle, writerVars
<1>7. CountsInv'
  BY <1>1, <1>4, <1>5, <1>6 DEF CountsInv, writerVars
<1>8. EndInv'
  BY <1>1 DEF EndInv, writerVars
<1> QED
  BY <1>2, <1>3, <1>7, <1>8

\* The writer receives the oldest record: it moves from the channel to its hand.
LEMMA RecvKeeps ==
  ASSUME IInv, Recv
  PROVE  IInv'
<1> USE DEF IInv
<1>t. /\ attempts \in Nat /\ written \in Nat
      /\ DroppedTotal \in Nat /\ Len(queue) \in Nat /\ InHand \in 0..1
      /\ Cardinality(Reserved) \in Nat
  BY TotalsTyped, ReservedFinite
<1>1. /\ writer = "recv" /\ queue # <<>>
      /\ current' = Head(queue) /\ queue' = Tail(queue)
      /\ todo' = Sinks /\ writer' = "write"
      /\ UNCHANGED <<callVars, orphan, sunk, written, dropped, errors, ready>>
  BY DEF Recv, Receivable
<1>2. queue \in Seq(Records) /\ current = NoRecord /\ InHand = 0
  BY <1>1 DEF LogTypeOK, ChannelInv, InHand
<1>3. /\ current' \in Records
      /\ queue' \in Seq(Records)
      /\ Len(queue') = Len(queue) - 1
      /\ current' = queue[1]
      /\ \A k \in 1..Len(queue') : queue'[k] = queue[k + 1]
  BY <1>1, <1>2, HeadTailProperties, ElementOfSeq
<1>4. InHand' = 1 /\ Len(queue) >= 1
  BY <1>3, <1>1, <1>2, EmptySeq DEF InHand, Records, NoRecord
<1>5. LogTypeOK'
  BY <1>1, <1>3 DEF LogTypeOK, callVars, Records
<1>6. ChannelInv'
  <2>1. /\ Len(accepted) = written + Len(queue)
        /\ \A k \in 1..Len(queue) : queue[k] = accepted[written + k]
    BY <1>1, <1>2, <1>t DEF ChannelInv, RxAlive
  <2>2. Len(accepted) = written + 1 + Len(queue')
    BY <2>1, <1>3, <1>t
  <2>3. current' = accepted[written + 1]
    BY <2>1, <1>3, <1>4, <1>t
  <2>4. ASSUME NEW k \in 1..Len(queue')
        PROVE  queue'[k] = accepted[written + 1 + k]
    <3>1. k + 1 \in 1..Len(queue) /\ queue'[k] = queue[k + 1]
      BY <1>3, <1>t
    <3> QED
      BY <3>1, <2>1, <1>t
  <2> QED
    BY <1>1, <1>3, <1>4, <2>2, <2>3, <2>4
    DEF ChannelInv, RxAlive, callVars, Records, NoRecord
<1>7. SinksInv'
  BY <1>1 DEF SinksInv, DeliveredInOrder, callVars
<1>8. CountsInv'
  <2>1. /\ Len(queue)' = Len(queue) - 1 /\ InHand' = InHand + 1
        /\ attempts' = attempts /\ written' = written
        /\ DroppedTotal' = DroppedTotal /\ Reserved' = Reserved
    BY <1>1, <1>2, <1>3, <1>4 DEF callVars, DroppedTotal, Reserved
  <2>2. Unaccounted' = Unaccounted
    BY <2>1, <1>t DEF Unaccounted
  <2>3. Len(queue)' + Cardinality(Reserved)' <= buffer_size
    BY <2>1, <1>t, LoggerAssumption DEF CountsInv
  <2> QED
    BY <2>2, <2>3, <1>1 DEF CountsInv, callVars
<1>9. EndInv'
  BY <1>1 DEF EndInv, callVars
<1> QED
  BY <1>5, <1>6, <1>7, <1>8, <1>9

\* The end of the channel is reached only when nothing is on its way.
LEMMA RecvNoneKeeps ==
  ASSUME IInv, RecvNone
  PROVE  IInv'
<1> USE DEF IInv
<1>t. /\ attempts \in Nat /\ written \in Nat
      /\ DroppedTotal \in Nat /\ Len(queue) \in Nat /\ InHand \in 0..1
      /\ Cardinality(Reserved) \in Nat
  BY TotalsTyped, ReservedFinite
<1>1. /\ writer = "recv" /\ queue = <<>> /\ handles = {}
      /\ writer' = "ended" /\ queue' = <<>> /\ current' = NoRecord /\ todo' = {}
      /\ UNCHANGED <<callVars, orphan, sunk, written, dropped, errors, ready>>
  BY DEF RecvNone, Disconnected, Leave
<1>2. LogTypeOK'
  BY <1>1 DEF LogTypeOK, callVars, NoRecord
<1>3. ChannelInv'
  BY <1>1 DEF ChannelInv, RxAlive
<1>4. SinksInv'
  BY <1>1 DEF SinksInv, DeliveredInOrder, callVars
<1>5. CountsInv'
  <2>1. /\ queue' = queue /\ InHand' = InHand
        /\ attempts' = attempts /\ written' = written
        /\ DroppedTotal' = DroppedTotal /\ Reserved' = Reserved
    BY <1>1 DEF callVars, DroppedTotal, Reserved, ChannelInv, InHand
  <2>2. Unaccounted' = Unaccounted
    BY <2>1 DEF Unaccounted
  <2> QED
    BY <2>1, <2>2, <1>1 DEF CountsInv, callVars
<1>6. EndInv'
  BY <1>1, <1>t, EmptySeq DEF EndInv, callVars, ChannelInv, SinksInv, RxAlive, InHand
<1> QED
  BY <1>2, <1>3, <1>4, <1>5, <1>6

\* A record that lands in a sink right after the records written extends the
\* prefix the sink holds.
LEMMA LandKeepsOrder ==
  ASSUME LogTypeOK, DeliveredInOrder, NEW k \in Sinks,
         Len(sunk[k]) = written, Len(accepted) > written,
         Land(k, accepted[written + 1]), accepted' = accepted
  PROVE  /\ DeliveredInOrder'
         /\ sunk' \in [Sinks -> Seq(Records)]
         /\ Len(sunk'[k]) = written + 1
         /\ \A j \in Sinks \ {k} : sunk'[j] = sunk[j]
<1> DEFINE e == accepted[written + 1]
<1>1. /\ written \in Nat /\ accepted \in Seq(Records) /\ sunk[k] \in Seq(Records)
      /\ sunk \in [Sinks -> Seq(Records)]
  BY DEF LogTypeOK
<1>2. e \in Records
  BY <1>1, ElementOfSeq
<1>3. /\ Append(sunk[k], e) \in Seq(Records)
      /\ Len(Append(sunk[k], e)) = written + 1
  BY <1>1, <1>2, AppendProperties
<1>4. sunk' = [sunk EXCEPT ![k] = Append(sunk[k], e)]
  BY DEF Land
<1>5. /\ sunk' \in [Sinks -> Seq(Records)]
      /\ sunk'[k] = Append(sunk[k], e)
      /\ \A j \in Sinks \ {k} : sunk'[j] = sunk[j]
  BY <1>1, <1>3, <1>4
<1>6. IsPrefixOf(Append(sunk[k], e), accepted)
  BY <1>1, PrefixGrows DEF DeliveredInOrder
<1> QED
  BY <1>3, <1>5, <1>6 DEF DeliveredInOrder

\* The writer gives the record in its hand to the next sink.
LEMMA WriteSinkKeeps ==
  ASSUME IInv, WriteSink
  PROVE  IInv'
<1> USE DEF IInv
<1>t. /\ attempts \in Nat /\ written \in Nat
      /\ DroppedTotal \in Nat /\ Len(queue) \in Nat /\ InHand \in 0..1
      /\ Cardinality(Reserved) \in Nat
  BY TotalsTyped, ReservedFinite
<1> DEFINE k == NextSink
<1>1. /\ writer = "write" /\ todo # {}
      /\ Land(k, current)
      /\ todo' = todo \ {k}
      /\ UNCHANGED <<callVars, queue, writer, current, orphan, written, dropped,
                     errors, ready>>
  BY DEF WriteSink
<1>2. k \in todo /\ k \in Sinks
  BY <1>1, NextSinkIsToDo DEF LogTypeOK
<1>3. InHand = 1
  BY <1>1 DEF ChannelInv, InHand
<1>4. Len(accepted) > written /\ current = accepted[written + 1]
  BY <1>1, <1>3, <1>t DEF ChannelInv, RxAlive
<1>5. Len(sunk[k]) = written
  BY <1>1, <1>2 DEF SinksInv
<1>6. /\ DeliveredInOrder'
      /\ sunk' \in [Sinks -> Seq(Records)]
      /\ Len(sunk'[k]) = written + 1
      /\ \A j \in Sinks \ {k} : sunk'[j] = sunk[j]
  BY <1>1, <1>2, <1>4, <1>5, LandKeepsOrder DEF SinksInv, callVars
<1>7. LogTypeOK'
  BY <1>1, <1>6 DEF LogTypeOK, callVars
<1>8. ChannelInv'
  BY <1>1 DEF ChannelInv, RxAlive, InHand, callVars
<1>9. SinksInv'
  BY <1>1, <1>6 DEF SinksInv
<1>10. CountsInv'
  BY <1>1 DEF CountsInv, Unaccounted, InHand, DroppedTotal, Reserved, callVars
<1>11. EndInv'
  BY <1>1 DEF EndInv, callVars
<1> QED
  BY <1>7, <1>8, <1>9, <1>10, <1>11

\* A write that was given up lands where its record belongs.
LEMMA OrphanLandsKeeps ==
  ASSUME IInv, OrphanLands
  PROVE  IInv'
<1> USE DEF IInv
<1>t. /\ attempts \in Nat /\ written \in Nat
      /\ DroppedTotal \in Nat /\ Len(queue) \in Nat /\ InHand \in 0..1
      /\ Cardinality(Reserved) \in Nat
  BY TotalsTyped, ReservedFinite
<1> DEFINE k == orphan[1]
<1>1. /\ orphan # NoOrphan
      /\ Land(k, orphan[2])
      /\ orphan' = NoOrphan
      /\ UNCHANGED <<callVars, queue, writer, current, todo, written, dropped,
                     errors, ready>>
  BY DEF OrphanLands
<1>2. k \in Sinks
  BY <1>1 DEF LogTypeOK
<1>3. /\ Len(sunk[k]) = written /\ Len(accepted) > written
      /\ accepted[written + 1] = orphan[2]
      /\ writer \notin {"recv", "write"}
  BY <1>1 DEF SinksInv
<1>4. DeliveredInOrder' /\ sunk' \in [Sinks -> Seq(Records)]
  BY <1>1, <1>2, <1>3, LandKeepsOrder DEF SinksInv, callVars
<1>5. LogTypeOK'
  BY <1>1, <1>4 DEF LogTypeOK, callVars
<1>6. ChannelInv'
  BY <1>1 DEF ChannelInv, RxAlive, InHand, callVars
<1>7. SinksInv'
  BY <1>1, <1>3, <1>4 DEF SinksInv
<1>8. CountsInv'
  BY <1>1 DEF CountsInv, Unaccounted, InHand, DroppedTotal, Reserved, callVars
<1>9. EndInv'
  BY <1>1 DEF EndInv, callVars
<1> QED
  BY <1>5, <1>6, <1>7, <1>8, <1>9

\* A record that is in every sink counts as written.
LEMMA WriteDoneKeeps ==
  ASSUME IInv, WriteDone
  PROVE  IInv'
<1> USE DEF IInv
<1>t. /\ attempts \in Nat /\ written \in Nat
      /\ DroppedTotal \in Nat /\ Len(queue) \in Nat /\ InHand \in 0..1
      /\ Cardinality(Reserved) \in Nat
  BY TotalsTyped, ReservedFinite
<1>1. /\ writer = "write" /\ todo = {}
      /\ written' = written + 1
      /\ writer' = "recv" /\ current' = NoRecord
      /\ UNCHANGED <<callVars, queue, todo, orphan, sunk, dropped, errors, ready>>
  BY DEF WriteDone
<1>2. InHand = 1 /\ InHand' = 0
  BY <1>1 DEF ChannelInv, InHand
<1>3. LogTypeOK'
  BY <1>1, <1>t DEF LogTypeOK, callVars, NoRecord
<1>4. ChannelInv'
  <2>1. /\ Len(accepted) = written + 1 + Len(queue)
        /\ \A j \in 1..Len(queue) : queue[j] = accepted[written + 1 + j]
    BY <1>1, <1>2 DEF ChannelInv, RxAlive
  <2>2. /\ Len(accepted) = written' + 0 + Len(queue)
        /\ \A j \in 1..Len(queue) : queue[j] = accepted[written' + 0 + j]
    BY <2>1, <1>1, <1>t
  <2> QED
    BY <2>2, <1>1, <1>2 DEF ChannelInv, RxAlive, callVars
<1>5. SinksInv'
  BY <1>1 DEF SinksInv, DeliveredInOrder, callVars
<1>6. CountsInv'
  <2>1. /\ InHand' = InHand - 1 /\ written' = written + 1
        /\ attempts' = attempts /\ queue' = queue
        /\ DroppedTotal' = DroppedTotal /\ Reserved' = Reserved
    BY <1>1, <1>2 DEF callVars, DroppedTotal, Reserved
  <2>2. Unaccounted' = Unaccounted
    BY <2>1, <1>t DEF Unaccounted
  <2> QED
    BY <2>1, <2>2, <1>1 DEF CountsInv, callVars
<1>7. EndInv'
  BY <1>1 DEF EndInv, callVars
<1> QED
  BY <1>3, <1>4, <1>5, <1>6, <1>7

\* A write is given up: it may be of the record in hand, to a sink that lacks it.
LEMMA WriteFailKeeps ==
  ASSUME IInv, WriteFail
  PROVE  IInv'
<1> USE DEF IInv
<1>t. /\ attempts \in Nat /\ written \in Nat
      /\ DroppedTotal \in Nat /\ Len(queue) \in Nat /\ InHand \in 0..1
      /\ Cardinality(Reserved) \in Nat
  BY TotalsTyped, ReservedFinite
<1>1. /\ writer = "write" /\ todo # {}
      /\ orphan' \in {NoOrphan, <<NextSink, current>>}
      /\ writer' = "mark"
      /\ UNCHANGED <<callVars, queue, current, todo, sunk, written, dropped,
                     errors, ready>>
  BY DEF WriteFail
<1>2. NextSink \in todo /\ NextSink \in Sinks
  BY <1>1, NextSinkIsToDo DEF LogTypeOK
<1>3. /\ current \in Records /\ InHand = 1
      /\ Len(accepted) > written /\ current = accepted[written + 1]
      /\ Len(sunk[NextSink]) = written
  BY <1>1, <1>2, <1>t DEF ChannelInv, RxAlive, InHand, SinksInv, LogTypeOK, Records, NoRecord
<1>4. LogTypeOK'
  BY <1>1, <1>2, <1>3 DEF LogTypeOK, callVars
<1>5. ChannelInv'
  BY <1>1 DEF ChannelInv, RxAlive, InHand, callVars
<1>6. SinksInv'
  BY <1>1, <1>3 DEF SinksInv, DeliveredInOrder, callVars
<1>7. CountsInv'
  BY <1>1 DEF CountsInv, Unaccounted, InHand, DroppedTotal, Reserved, callVars
<1>8. EndInv'
  BY <1>1 DEF EndInv, callVars
<1> QED
  BY <1>4, <1>5, <1>6, <1>7, <1>8

\* The failure is marked in the metrics.
LEMMA MarkFailedKeeps ==
  ASSUME IInv, MarkFailed
  PROVE  IInv'
<1> USE DEF IInv
<1>1. /\ writer = "mark" /\ writer' = "count"
      /\ UNCHANGED <<callVars, queue, current, todo, orphan, sunk, written, dropped>>
  BY DEF MarkFailed
<1>2. LogTypeOK'
  BY <1>1 DEF LogTypeOK, callVars
<1>3. ChannelInv'
  BY <1>1 DEF ChannelInv, RxAlive, InHand, callVars
<1>4. SinksInv'
  BY <1>1 DEF SinksInv, DeliveredInOrder, callVars
<1>5. CountsInv'
  BY <1>1 DEF CountsInv, Unaccounted, InHand, DroppedTotal, Reserved, callVars
<1>6. EndInv'
  BY <1>1 DEF EndInv, callVars
<1> QED
  BY <1>2, <1>3, <1>4, <1>5, <1>6

\* The record in hand and the channel are counted as dropped.
LEMMA CountLostKeeps ==
  ASSUME IInv, CountLost
  PROVE  IInv'
<1> USE DEF IInv
<1>t. /\ attempts \in Nat /\ written \in Nat
      /\ DroppedTotal \in Nat /\ Len(queue) \in Nat /\ InHand \in 0..1
      /\ Cardinality(Reserved) \in Nat
  BY TotalsTyped, ReservedFinite
<1>1. /\ writer = "count" /\ writer' = "failed"
      /\ Drop("writer_error", Lost)
      /\ queue' = <<>> /\ current' = NoRecord /\ todo' = {}
      /\ UNCHANGED <<callVars, orphan, sunk, written, errors, ready>>
  BY DEF CountLost, Leave
<1>2. Lost \in Nat /\ Lost = 1 + Len(queue)
  BY <1>t DEF Lost
<1>3. /\ dropped' \in [Reasons -> Nat]
      /\ DroppedTotal' = DroppedTotal + Lost
  BY <1>1, <1>2, DropAdds DEF Reasons, LogTypeOK
<1>4. InHand = 1 /\ InHand' = 0 /\ Len(queue)' = 0
  BY <1>1, EmptySeq DEF ChannelInv, InHand
<1>5. LogTypeOK'
  BY <1>1, <1>3 DEF LogTypeOK, callVars, NoRecord
<1>6. ChannelInv'
  BY <1>1 DEF ChannelInv, RxAlive
<1>7. SinksInv'
  BY <1>1 DEF SinksInv, DeliveredInOrder, callVars
<1>8. CountsInv'
  <2>1. /\ attempts' = attempts /\ written' = written /\ Reserved' = Reserved
    BY <1>1 DEF callVars, Reserved
  <2>2. Unaccounted = 0
    BY <1>1 DEF CountsInv
  <2>3. Unaccounted' = 0
    BY <2>1, <2>2, <1>2, <1>3, <1>4, <1>t DEF Unaccounted
  <2>4. Len(queue)' + Cardinality(Reserved)' <= buffer_size
    BY <2>1, <1>4, <1>t, LoggerAssumption DEF CountsInv
  <2> QED
    BY <2>1, <2>3, <2>4, <1>1, <1>4, <1>t DEF CountsInv, callVars
<1>9. EndInv'
  BY <1>1 DEF EndInv
<1> QED
  BY <1>5, <1>6, <1>7, <1>8, <1>9

\* An aborted writer loses the channel and the record in its hand.
LEMMA AbortKeeps ==
  ASSUME IInv, Abort
  PROVE  IInv'
<1> USE DEF IInv
<1>t. /\ attempts \in Nat /\ written \in Nat
      /\ DroppedTotal \in Nat /\ Len(queue) \in Nat /\ InHand \in 0..1
      /\ Cardinality(Reserved) \in Nat
  BY TotalsTyped, ReservedFinite
<1>1. /\ writer \in {"recv", "write"} /\ writer' = "aborted"
      /\ queue' = <<>> /\ current' = NoRecord /\ todo' = {}
      /\ UNCHANGED <<callVars, sunk, written, dropped, errors, ready>>
  BY DEF Abort, Leave
<1>2. \/ orphan' = NoOrphan
      \/ /\ writer = "write" /\ todo # {}
         /\ orphan' = <<NextSink, current>>
  BY DEF Abort, SinksInv
<1>3. ASSUME writer = "write", todo # {}, orphan' = <<NextSink, current>>
      PROVE  LogTypeOK' /\ SinksInv'
  <2>1. NextSink \in todo /\ NextSink \in Sinks
    BY <1>3, NextSinkIsToDo DEF LogTypeOK
  <2>2. /\ current \in Records
        /\ Len(accepted) > written /\ current = accepted[written + 1]
        /\ Len(sunk[NextSink]) = written
    BY <1>3, <2>1, <1>t
    DEF ChannelInv, RxAlive, InHand, SinksInv, LogTypeOK, Records, NoRecord
  <2>3. LogTypeOK'
    BY <1>1, <1>3, <2>1, <2>2 DEF LogTypeOK, callVars, NoRecord
  <2>4. SinksInv'
    BY <1>1, <1>3, <2>2 DEF SinksInv, DeliveredInOrder, callVars
  <2> QED
    BY <2>3, <2>4
<1>4. ASSUME orphan' = NoOrphan
      PROVE  LogTypeOK' /\ SinksInv'
  <2>1. LogTypeOK'
    BY <1>1, <1>4 DEF LogTypeOK, callVars, NoRecord
  <2>2. SinksInv'
    BY <1>1, <1>4 DEF SinksInv, DeliveredInOrder, callVars
  <2> QED
    BY <2>1, <2>2
<1>5. LogTypeOK' /\ SinksInv'
  BY <1>2, <1>3, <1>4
<1>6. ChannelInv'
  BY <1>1 DEF ChannelInv, RxAlive
<1>7. CountsInv'
  <2>1. /\ attempts' = attempts /\ written' = written /\ Reserved' = Reserved
        /\ DroppedTotal' = DroppedTotal
    BY <1>1 DEF callVars, Reserved, DroppedTotal
  <2>2. InHand' = 0 /\ Len(queue)' = 0
    BY <1>1, EmptySeq DEF InHand
  <2>3. Unaccounted = 0
    BY <1>1 DEF CountsInv
  <2>4. Unaccounted' = Len(queue) + InHand
    BY <2>1, <2>2, <2>3, <1>t DEF Unaccounted
  <2>5. Len(queue) + Cardinality(Reserved) <= buffer_size
    BY DEF CountsInv
  <2>6. /\ Unaccounted' >= 0
        /\ Unaccounted' + Cardinality(Reserved)' <= buffer_size + 1
        /\ Len(queue)' + Cardinality(Reserved)' <= buffer_size
    BY <2>1, <2>2, <2>4, <2>5, <1>t, LoggerAssumption
  <2> QED
    BY <2>1, <2>6, <1>1 DEF CountsInv, callVars
<1>8. EndInv'
  BY <1>1 DEF EndInv
<1> QED
  BY <1>5, <1>6, <1>7, <1>8

\* A step that changes nothing.
LEMMA StutterKeeps ==
  ASSUME IInv, UNCHANGED vars
  PROVE  IInv'
BY DEF IInv, LogTypeOK, ChannelInv, SinksInv, CountsInv, EndInv, DeliveredInOrder, RxAlive,
       InHand, Unaccounted, DroppedTotal, Reserved, vars

-----------------------------------------------------------------------------
(* The theorems                                                            *)

\* The log starts in the invariant, with every queue empty and nothing counted.
LEMMA InitEstablishes == Init => IInv
<1> SUFFICES ASSUME Init PROVE IInv
  OBVIOUS
<1>1. /\ queue = <<>> /\ accepted = <<>> /\ Len(queue) = 0 /\ Len(accepted) = 0
      /\ <<>> \in Seq(Records)
      /\ \A k \in Sinks : Len(sunk[k]) = 0
  BY EmptySeq DEF Init
<1>2. LogTypeOK
  BY <1>1 DEF Init, LogTypeOK, Reasons, NoRecord
<1>3. Reserved = {} /\ Cardinality(Reserved) = 0 /\ InHand = 0 /\ DroppedTotal = 0
  <2>1. Reserved = {} /\ InHand = 0
    BY DEF Init, Reserved, InHand
  <2>2. DroppedTotal = 0
    BY DEF Init, DroppedTotal, Reasons
  <2> QED
    BY <2>1, <2>2, FS_EmptySet
<1>4. ChannelInv
  BY <1>1, <1>3 DEF Init, ChannelInv, RxAlive
<1>5. DeliveredInOrder
  BY <1>1 DEF DeliveredInOrder, IsPrefixOf
<1>6. SinksInv
  BY <1>1, <1>5 DEF Init, SinksInv
<1>7. CountsInv
  <2>1. Unaccounted = 0
    BY <1>1, <1>3 DEF Init, Unaccounted
  <2> QED
    BY <2>1, <1>1, <1>3, LoggerAssumption DEF Init, CountsInv
<1>8. EndInv
  BY DEF Init, EndInv, Reasons
<1> QED
  BY <1>2, <1>4, <1>6, <1>7, <1>8 DEF IInv

\* Every step of the log keeps the invariant.
LEMMA StepKeeps ==
  ASSUME IInv, [Next]_vars
  PROVE  IInv'
<1>1. CASE \/ \E s \in Senders : Log(s) \/ LogPush(s) \/ DropHandle(s)
           \/ \E new \in SUBSET Senders : CloneHandles(new)
  BY <1>1, LogKeeps, PushKeeps, HandleKeeps
<1>2. CASE Writer
  BY <1>2, RecvKeeps, RecvNoneKeeps, WriteSinkKeeps, WriteDoneKeeps,
     WriteFailKeeps, MarkFailedKeeps, CountLostKeeps DEF Writer
<1>3. CASE OrphanLands
  BY <1>3, OrphanLandsKeeps
<1>4. CASE Abort
  BY <1>4, AbortKeeps
<1>5. CASE Terminated \/ UNCHANGED vars
  BY <1>5, StutterKeeps DEF Terminated
<1> QED
  BY <1>1, <1>2, <1>3, <1>4, <1>5 DEF Next

\* The invariant of Logger::log, the channel and run_writer: whatever the
\* interleaving of senders, permits, sink failures, writes that land late and
\* aborts, what the channel and the sinks hold and what the counters say agree
\* with the records accepted.
THEOREM LoggerInvariant == Spec => []IInv
<1>1. IInv /\ [Next]_vars => IInv'
  BY StepKeeps
<1> QED
  BY <1>1, InitEstablishes, PTL DEF Spec

\* Every sink holds the accepted records in channel order, none skipped and
\* none repeated, also those that landed after their write was given up
\* (write_entry, and the queue that drops the new record).
THEOREM LoggerDeliversInOrder == Spec => []DeliveredInOrder
<1>1. IInv => DeliveredInOrder
  BY DEF IInv, SinksInv
<1> QED
  BY <1>1, LoggerInvariant, PTL

\* Every call of log is written, counted as dropped or still on its way; what
\* a writer that failed or was aborted loses without a count is bounded by the
\* capacity of the channel (Logger::log and run_writer's exit paths).
THEOREM LoggerAccounts == Spec => []Accounting
<1>1. IInv => Accounting
  <2> SUFFICES ASSUME IInv PROVE Accounting
    OBVIOUS
  <2>1. /\ Cardinality(Reserved) \in Nat
        /\ attempts \in Nat /\ written \in Nat /\ DroppedTotal \in Nat
        /\ Len(queue) \in Nat /\ InHand \in 0..1
    BY ReservedFinite, TotalsTyped DEF IInv
  <2>2. Unaccounted \in Int
    BY <2>1 DEF Unaccounted
  <2>3. writer = "aborted" => Unaccounted <= buffer_size + 1
    BY <2>1, <2>2, LoggerAssumption DEF IInv, CountsInv
  <2> QED
    BY <2>3 DEF Accounting, IInv, CountsInv
<1> QED
  BY <1>1, LoggerInvariant, PTL

\* What a writer that has ended leaves behind: the records accepted, in every
\* sink, and no call of log that was not written or counted as queue_full.
EndsClean ==
  writer = "ended" =>
    /\ \A k \in Sinks : sunk[k] = accepted
    /\ written = Len(accepted)
    /\ attempts = written + dropped["queue_full"]

\* The invariant says so.
LEMMA EndedIsClean ==
  ASSUME IInv
  PROVE  EndsClean
<1> SUFFICES ASSUME writer = "ended" PROVE EndsClean
  BY DEF EndsClean
<1>t. /\ attempts \in Nat /\ written \in Nat
      /\ DroppedTotal \in Nat /\ Len(queue) \in Nat /\ InHand \in 0..1
      /\ Cardinality(Reserved) \in Nat
  BY TotalsTyped, ReservedFinite DEF IInv
<1>1. ASSUME NEW k \in Sinks PROVE sunk[k] = accepted
  <2>1. sunk[k] \in Seq(Records) /\ accepted \in Seq(Records)
    BY DEF IInv, LogTypeOK
  <2>2. Len(sunk[k]) = Len(accepted)
    BY DEF IInv, EndInv
  <2>3. \A i \in 1..Len(sunk[k]) : sunk[k][i] = accepted[i]
    BY DEF IInv, SinksInv, DeliveredInOrder, IsPrefixOf
  <2> QED
    BY <2>1, <2>2, <2>3, SeqEqual
<1>2. Len(queue) = 0 /\ InHand = 0 /\ Cardinality(Reserved) = 0 /\ Unaccounted = 0
  <2>1. handles = {} /\ queue = <<>>
    BY DEF IInv, CountsInv, ChannelInv, RxAlive
  <2> QED
    BY <2>1, NoHandleNoPermit, EmptySeq DEF IInv, CountsInv, ChannelInv, InHand
<1>3. DroppedTotal = dropped["queue_full"]
  BY DEF IInv, EndInv, LogTypeOK, DroppedTotal, Reasons
<1>4. attempts = written + dropped["queue_full"]
  BY <1>t, <1>2, <1>3 DEF Unaccounted
<1> QED
  BY <1>1, <1>4 DEF EndsClean, IInv, EndInv

\* A clean end of run_writer loses nothing: the sinks are equal, and every call
\* of log is either in them or was refused because the queue was full.
THEOREM LoggerEndsClean == Spec => []EndsClean
<1>1. IInv => EndsClean
  BY EndedIsClean
<1> QED
  BY <1>1, LoggerInvariant, PTL

=============================================================================
