----------------------- MODULE EventCollectionProofs -----------------------
(***************************************************************************)
(* Proofs about EventCollection: type correctness, the agreement of worker *)
(* and controller on the event in hand, that events are deleted only once  *)
(* stored, that the queue of manual reads matches their table, and that a  *)
(* read that reports an empty FIFO has journalled all it owed, for any     *)
(* number of controllers, frames, jobs and faults.                         *)
(***************************************************************************)
EXTENDS EventCollection, TLAPS, SequenceTheorems

-----------------------------------------------------------------------------
\* Type correctness.

\* Ending a round leaves the worker well typed, with no job in hand.
LEMMA EndRoundType ==
  ASSUME WorkerType, EndRound
  PROVE  WorkerType' /\ cur' = NoEvent
BY CollectionAssumption DEF WorkerType, EndRound, NoEvent

\* Ending a job takes it off the queue and settles its table entry.
LEMMA EndJobType ==
  ASSUME WorkerType, JobType, EndJob("fifo_empty") \/ EndJob("communication_error")
            \/ EndJob("storage_error") \/ EndJob("delete_error"), owed' = owed
  PROVE  WorkerType' /\ JobType'
<1> USE CollectionAssumption
<1>1. PICK st \in {"fifo_empty", "communication_error", "storage_error", "delete_error"} :
        EndJob(st)
  OBVIOUS
<1>2. WorkerType' /\ cur' = NoEvent
  BY <1>1, EndRoundType DEF EndJob
<1>3. JobsAfter(cur.job, st) \in [JobId -> Job]
  <2>1. CASE cur.job \in JobId /\ Running(cur.job)
    <3>1. jobs[cur.job] \in Job
      BY <2>1 DEF JobType
    <3>2. [jobs[cur.job] EXCEPT !.state = "completed", !.status = st] \in Job
      BY <1>1, <3>1 DEF Job
    <3>3. JobsAfter(cur.job, st)
            = [jobs EXCEPT ![cur.job]
                 = [jobs[cur.job] EXCEPT !.state = "completed", !.status = st]]
      BY <2>1, <3>1 DEF JobsAfter, JobType, Job
    <3>4. QED
      BY <3>2, <3>3 DEF JobType
  <2>2. CASE ~(cur.job \in JobId /\ Running(cur.job))
    BY <2>2 DEF JobsAfter, JobType
  <2>3. QED
    BY <2>1, <2>2
<1>4. queue' \in Seq([id : JobId, node : Node]) /\ jobs' \in [JobId -> Job]
  <2>1. CASE cur.job = 0
    BY <1>1, <2>1 DEF EndJob, JobType
  <2>2. CASE cur.job # 0
    <3>1. Tail(queue) \in Seq([id : JobId, node : Node])
      BY <2>2, HeadTailProperties DEF JobType
    <3>2. QED
      BY <1>1, <1>3, <2>2, <3>1 DEF EndJob
  <2>3. QED
    BY <2>1, <2>2
<1>5. QED
  BY <1>1, <1>2, <1>4 DEF EndJob, JobType, NoEvent

\* Going on to the next event keeps worker and jobs well typed.
LEMMA NextEventType ==
  ASSUME WorkerType, JobType, pc # "sweep", NextEvent, UNCHANGED <<jobVars, owed>>
  PROVE  WorkerType' /\ JobType'
<1>1. CASE left > 0
  BY <1>1 DEF NextEvent, WorkerType, JobType, jobVars
<1>2. CASE ~(left > 0)
  BY <1>2, EndRoundType DEF NextEvent, JobType, jobVars, NoEvent
<1>3. QED
  BY <1>1, <1>2

\* A failed event keeps worker and jobs well typed.
LEMMA EventFailedType ==
  ASSUME WorkerType, JobType, pc # "sweep", owed' = owed,
         EventFailed("storage_error") \/ EventFailed("delete_error")
  PROVE  WorkerType' /\ JobType'
BY EndJobType, NextEventType DEF EventFailed, jobVars

\* The state of every variable satisfies its type in every reachable state,
\* and a manual job in hand is the front of the queue (ControllerManager's
\* worker, job table and queue, the controllers' FIFOs and the line).
THEOREM TypeCorrect == Spec => []TypeOK
<1> USE CollectionAssumption
<1>1. Init => TypeOK
  BY DEF Init, TypeOK, LineType, WorkerType, JobType, DurableType, NoEvent,
         AbsentJob, Job, JobId, Reply
<1>2. TypeOK /\ [Next]_vars => TypeOK'
  <2> SUFFICES ASSUME TypeOK, [Next]_vars PROVE TypeOK'
    OBVIOUS
  <2> USE DEF TypeOK
  <2>1. CASE BeginBatch
    <3>1. Head(queue) \in [id : JobId, node : Node]
      BY <2>1, HeadTailProperties DEF BeginBatch, JobType
    <3>2. WorkerType'
      BY <2>1, <3>1 DEF BeginBatch, WorkerType, JobId
    <3>3. jobs' \in [JobId -> Job]
      <4>1. jobs[Head(queue).id] \in Job
        BY <3>1 DEF JobType
      <4>2. [jobs[Head(queue).id] EXCEPT !.state = "running"] \in Job
        BY <4>1 DEF Job
      <4>3. jobs' = jobs
              \/ jobs' = [jobs EXCEPT ![Head(queue).id]
                            = [jobs[Head(queue).id] EXCEPT !.state = "running"]]
        BY <2>1 DEF BeginBatch
      <4>4. QED
        BY <4>2, <4>3 DEF JobType
    <3>4. ToSet(fifo[Head(queue).node]) \in SUBSET Frame
      BY <3>1 DEF LineType, ToSet
    <3>5. owed' \in [JobId -> SUBSET Frame]
      BY <2>1, <3>1, <3>4 DEF BeginBatch, JobType
    <3>6. QED
      BY <2>1, <3>2, <3>3, <3>5 DEF BeginBatch, lineVars, boundVars, LineType,
                                    JobType, DurableType
  <2>2. CASE BeginSweep
    BY <2>2 DEF BeginSweep, lineVars, jobVars, boundVars, LineType, WorkerType,
                JobType, DurableType
  <2>3. ASSUME NEW n \in Node, PollNode(n) PROVE TypeOK'
    BY <2>3 DEF PollNode, lineVars, jobVars, boundVars, LineType, WorkerType,
                JobType, DurableType
  <2>4. CASE AskOldest
    <3>1. OldestReply(cur.node) \in Reply
      BY <2>4 DEF AskOldest, OldestReply, Reply, LineType, WorkerType
    <3>2. air' \in Seq(Reply)
      <4>1. Append(air, OldestReply(cur.node)) \in Seq(Reply)
        BY <3>1, AppendProperties DEF LineType
      <4>2. QED
        BY <2>4, <4>1 DEF AskOldest, LineType
    <3>3. faults' \in 0 .. MaxFaults
      BY <2>4 DEF AskOldest, Fault, DurableType
    <3>4. QED
      BY <2>4, <3>2, <3>3 DEF AskOldest, jobVars, LineType, WorkerType, JobType,
                              DurableType
  <2>5. CASE OldestAnswered
    <3>1. LineType' /\ DurableType'
      BY <2>5 DEF OldestAnswered, boundVars, LineType, DurableType
    <3>2. Head(rx) \in Reply
      BY <2>5 DEF OldestAnswered, LineType
    <3>3. CASE Head(rx).kind = "event"
      BY <2>5, <3>1, <3>2, <3>3 DEF OldestAnswered, jobVars, WorkerType, JobType, Reply
    <3>4. CASE Head(rx).kind # "event"
      BY <2>5, <3>1, <3>4, EndJobType DEF OldestAnswered
    <3>5. QED
      BY <3>3, <3>4
  <2>6. CASE OldestTimedOut
    BY <2>6, EndJobType DEF OldestTimedOut, lineVars, boundVars, LineType, DurableType
  <2>7. CASE StoreEvent
    BY <2>7 DEF StoreEvent, lineVars, jobVars, boundVars, LineType, WorkerType,
                JobType, DurableType
  <2>8. CASE StoreFails
    <3>1. LineType' /\ DurableType'
      BY <2>8 DEF StoreFails, Fault, lineVars, LineType, DurableType
    <3>2. QED
      BY <2>8, <3>1, EventFailedType DEF StoreFails
  <2>9. CASE SendRemove
    <3>1. cur.node \in Node
      BY <2>9 DEF SendRemove, WorkerType
    <3>2. fifo' \in [Node -> Seq(Frame)]
      <4>1. fifo[cur.node] # <<>> => Tail(fifo[cur.node]) \in Seq(Frame)
        BY <3>1, HeadTailProperties DEF LineType
      <4>2. QED
        BY <2>9, <3>1, <4>1 DEF SendRemove, LineType
    <3>3. air' \in Seq(Reply)
      <4>1. ASSUME NEW k \in {"short", "nack"}
            PROVE  Append(air, [kind |-> k, node |-> cur.node, frame |-> None])
                     \in Seq(Reply)
        <5>1. [kind |-> k, node |-> cur.node, frame |-> None] \in Reply
          BY <3>1 DEF Reply
        <5>2. QED
          BY <5>1, AppendProperties DEF LineType
      <4>2. QED
        BY <2>9, <4>1 DEF SendRemove, LineType
    <3>4. faults' \in 0 .. MaxFaults
      BY <2>9 DEF SendRemove, Fault, DurableType
    <3>5. QED
      BY <2>9, <3>2, <3>3, <3>4 DEF SendRemove, jobVars, LineType, WorkerType,
                                    JobType, DurableType
  <2>10. CASE RemoveAnswered
    <3>1. LineType' /\ DurableType'
      BY <2>10 DEF RemoveAnswered, boundVars, LineType, DurableType
    <3>2. WorkerType' /\ JobType'
      BY <2>10, EventFailedType, NextEventType DEF RemoveAnswered
    <3>3. QED
      BY <3>1, <3>2
  <2>11. CASE RemoveTimedOut
    <3>1. LineType' /\ DurableType'
      BY <2>11 DEF RemoveTimedOut, lineVars, boundVars, LineType, DurableType
    <3>2. QED
      BY <2>11, <3>1, EventFailedType DEF RemoveTimedOut
  <2>12. ASSUME NEW n \in Node, NEW f \in Frame, Swipe(n, f) PROVE TypeOK'
    BY <2>12 DEF Swipe, lineVars, jobVars, LineType, WorkerType, JobType, DurableType
  <2>13. CASE Deliver
    BY <2>13 DEF Deliver, jobVars, boundVars, LineType, WorkerType, JobType, DurableType
  <2>14. CASE LoseReply
    BY <2>14 DEF LoseReply, jobVars, Fault, LineType, WorkerType, JobType, DurableType
  <2>15. ASSUME NEW n \in Node, QueueAttendanceRead(n) PROVE TypeOK'
    <3>1. jobs' \in [JobId -> Job]
      BY <2>15 DEF QueueAttendanceRead, JobType, Job, AbsentJob, JobId
    <3>2. /\ queue' \in Seq([id : JobId, node : Node])
          /\ queue # <<>> => queue' # <<>> /\ Head(queue') = Head(queue)
      <4> DEFINE j == [id |-> nextId, node |-> n]
      <4>1. j \in [id : JobId, node : Node] /\ queue' = Append(queue, j)
        BY <2>15 DEF QueueAttendanceRead
      <4>2. queue \in Seq([id : JobId, node : Node])
        BY DEF JobType
      <4> HIDE DEF j
      <4>3. Append(queue, j) \in Seq([id : JobId, node : Node]) /\ Append(queue, j) # <<>>
        BY <4>1, <4>2, AppendProperties
      <4>4. queue # <<>> => Head(Append(queue, j)) = Head(queue)
        BY <4>2, HeadTailAppend
      <4>5. QED
        BY <4>1, <4>3, <4>4
    <3>3. cur'.job # 0 => queue' # <<>> /\ Head(queue').id = cur'.job
      BY <2>15, <3>2 DEF QueueAttendanceRead, JobType
    <3>4. nextId' \in Nat \ {0} /\ owed' = owed /\ cur' = cur
      BY <2>15 DEF QueueAttendanceRead, JobType
    <3>5. LineType' /\ WorkerType' /\ DurableType'
      BY <2>15 DEF QueueAttendanceRead, lineVars, boundVars, LineType, WorkerType,
                   DurableType
    <3>6. QED
      BY <3>1, <3>2, <3>3, <3>4, <3>5 DEF JobType
  <2>16. CASE Restart
    BY <2>16 DEF Restart, Fault, NoEvent, AbsentJob, Job, JobId, LineType,
                 WorkerType, JobType, DurableType
  <2>17. CASE UNCHANGED vars
    BY <2>17 DEF vars, LineType, WorkerType, JobType, DurableType
  <2>18. QED
    BY <2>1, <2>2, <2>3, <2>4, <2>5, <2>6, <2>7, <2>8, <2>9, <2>10, <2>11, <2>12,
       <2>13, <2>14, <2>15, <2>16, <2>17 DEF Next, Worker
<1>3. QED
  BY <1>1, <1>2, PTL DEF Spec

-----------------------------------------------------------------------------
\* The worker and the controller agree on the event in hand.

\* Nothing outstanding and no event in hand: there is nothing to agree on.
LEMMA QuietAgrees ==
  ASSUME air' = <<>>, rx' = <<>>, pc' \in {"sweep", "ask"}
  PROVE  HeadInHand'
BY DEF HeadInHand

\* However a round goes on, the worker holds no event afterwards.
LEMMA RoundContinues ==
  ASSUME NEW st, EndJob(st) \/ EventFailed(st) \/ NextEvent
  PROVE  pc' \in {"sweep", "ask"}
BY DEF EndJob, EventFailed, NextEvent, EndRound

\* A single reply leaves nothing behind once it is taken.
LEMMA OneReply ==
  ASSUME NEW r \in Reply
  PROVE  /\ Append(<<>>, r) # <<>>
         /\ Head(Append(<<>>, r)) = r
         /\ Tail(Append(<<>>, r)) = <<>>
<1>1. <<>> \in Seq(Reply)
  BY EmptySeq
<1>2. QED
  BY <1>1, AppendProperties, HeadTailAppend

\* Between a request and the verdict on it the only reply under way is the
\* answer to that request, so a 37H is sent for exactly the event that was
\* stored (transact, getOldestEvent, handleControllerEvent, removeOldestEvent).
THEOREM HeadInHandAlways == Spec => []HeadInHand
<1> USE CollectionAssumption
<1>1. Init => HeadInHand
  BY DEF Init, HeadInHand
<1>2. TypeOK /\ HeadInHand /\ [Next]_vars => HeadInHand'
  <2> SUFFICES ASSUME TypeOK, HeadInHand, [Next]_vars, ~LateReplies PROVE HeadInHand'
    BY DEF HeadInHand
  <2>a. /\ air \in Seq(Reply) /\ rx \in Seq(Reply)
        /\ fifo \in [Node -> Seq(Frame)]
        /\ pc # "sweep" => cur.node \in Node
    BY DEF TypeOK, LineType, WorkerType
  <2>b. pc \notin {"await25", "await37"} => air = <<>> /\ rx = <<>>
    BY DEF HeadInHand
  <2>1. CASE BeginBatch \/ BeginSweep \/ \E n \in Node : PollNode(n)
    BY <2>1, <2>b, QuietAgrees DEF BeginBatch, BeginSweep, PollNode, lineVars
  <2>2. CASE AskOldest
    <3> DEFINE r == OldestReply(cur.node)
    <3>1. /\ r \in Reply
          /\ r.node = cur.node
          /\ r.kind = "event" =>
               fifo[cur.node] # <<>> /\ Head(fifo[cur.node]) = r.frame
      BY <2>2, <2>a, HeadTailProperties DEF AskOldest, OldestReply, Reply
    <3>2. /\ pc' = "await25" /\ rx' = <<>> /\ cur' = cur /\ fifo' = fifo
          /\ air' = Append(<<>>, r) \/ air' = <<>>
      BY <2>2, <2>b DEF AskOldest
    <3> HIDE DEF r
    <3>3. air' # <<>> => Tail(air') = <<>> /\ Head(air') = r
      BY <3>1, <3>2, OneReply
    <3>4. QED
      BY <3>1, <3>2, <3>3 DEF HeadInHand, Genuine
  <2>3. CASE OldestAnswered
    <3>1. rx' = <<>> /\ air' = <<>> /\ Genuine(Head(rx)) /\ fifo' = fifo
      BY <2>3 DEF OldestAnswered, HeadInHand
    <3>2. CASE Head(rx).kind = "event"
      <4>1. /\ pc' = "store" /\ cur'.node = cur.node
            /\ cur'.frame = Head(rx).frame
        BY <2>3, <3>2 DEF OldestAnswered, TypeOK, WorkerType
      <4>2. QED
        BY <2>3, <3>1, <3>2, <4>1 DEF OldestAnswered, HeadInHand, Genuine
    <3>3. CASE Head(rx).kind # "event"
      BY <2>3, <3>1, <3>3, RoundContinues, QuietAgrees DEF OldestAnswered
    <3>4. QED
      BY <3>2, <3>3
  <2>4. CASE OldestTimedOut
    BY <2>4, RoundContinues, QuietAgrees DEF OldestTimedOut, TimedOut, lineVars
  <2>5. CASE StoreEvent
    BY <2>5, <2>b DEF StoreEvent, lineVars, HeadInHand
  <2>6. CASE StoreFails
    BY <2>6, <2>b, RoundContinues, QuietAgrees DEF StoreFails, lineVars
  <2>7. CASE SendRemove
    <3>1. /\ pc' = "await37" /\ rx' = <<>> /\ cur' = cur
          /\ \/ air' = <<>>
             \/ \E k \in {"short", "nack"} :
                  air' = Append(<<>>, [kind |-> k, node |-> cur.node, frame |-> None])
      BY <2>7, <2>b DEF SendRemove
    <3>2. ASSUME NEW k \in {"short", "nack"},
                 air' = Append(<<>>, [kind |-> k, node |-> cur.node, frame |-> None])
          PROVE  Tail(air') = <<>> /\ Head(air').node = cur.node
      <4> DEFINE r == [kind |-> k, node |-> cur.node, frame |-> None]
      <4>1. r \in Reply /\ r.node = cur.node
        BY <2>7, <2>a DEF SendRemove, Reply
      <4>2. air' = Append(<<>>, r)
        BY <3>2
      <4> HIDE DEF r
      <4>3. QED
        BY <4>1, <4>2, OneReply
    <3>3. QED
      BY <3>1, <3>2 DEF HeadInHand, Genuine
  <2>8. CASE RemoveAnswered
    <3>1. rx' = <<>> /\ air' = <<>>
      BY <2>8 DEF RemoveAnswered, HeadInHand
    <3>2. pc' \in {"sweep", "ask"}
      BY <2>8, RoundContinues DEF RemoveAnswered
    <3>3. QED
      BY <3>1, <3>2, QuietAgrees
  <2>9. CASE RemoveTimedOut
    BY <2>9, RoundContinues, QuietAgrees DEF RemoveTimedOut, TimedOut, lineVars
  <2>10. ASSUME NEW n \in Node, NEW f \in Frame, Swipe(n, f) PROVE HeadInHand'
    <3>1. /\ UNCHANGED <<air, rx, pc, cur, journal>>
          /\ fifo' = [fifo EXCEPT ![n] = Append(@, f)]
      BY <2>10 DEF Swipe, lineVars
    <3>2. ASSUME NEW m \in Node, fifo[m] # <<>>
          PROVE  fifo'[m] # <<>> /\ Head(fifo'[m]) = Head(fifo[m])
      <4>1. /\ Append(fifo[m], f) # <<>>
            /\ Head(Append(fifo[m], f)) = Head(fifo[m])
        BY <2>a, <3>2, AppendProperties, HeadTailAppend
      <4>2. fifo'[m] = fifo[m] \/ fifo'[m] = Append(fifo[m], f)
        BY <2>a, <3>1
      <4>3. QED
        BY <3>2, <4>1, <4>2
    <3>3. \A line \in {air, rx} : line # <<>> =>
             pc \in {"await25", "await37"} /\ Genuine(Head(line))
      BY DEF HeadInHand
    <3>4. ASSUME NEW line \in {air, rx}, line # <<>> PROVE Genuine(Head(line))'
      <4>1. Head(line)' = Head(line)
        BY <3>1, <3>4
      <4>2. QED
        BY <2>a, <3>1, <3>2, <3>3, <3>4, <4>1 DEF Genuine
    <3>5. QED
      BY <2>a, <3>1, <3>2, <3>4 DEF HeadInHand
  <2>11. CASE Deliver
    <3>1. /\ rx = <<>> /\ air' = <<>> /\ rx' = Append(<<>>, Head(air))
          /\ Genuine(Head(air)) /\ pc \in {"await25", "await37"}
          /\ UNCHANGED <<fifo, pc, cur, journal>>
      BY <2>11 DEF Deliver, HeadInHand
    <3>2. Head(air) \in Reply
      BY <2>11, <2>a, HeadTailProperties DEF Deliver
    <3>3. Tail(rx') = <<>> /\ Head(rx') = Head(air)
      BY <3>1, <3>2, OneReply
    <3>4. QED
      BY <3>1, <3>3 DEF HeadInHand, Genuine
  <2>12. CASE LoseReply
    BY <2>12 DEF LoseReply, HeadInHand, Genuine
  <2>13. ASSUME NEW n \in Node, QueueAttendanceRead(n) PROVE HeadInHand'
    BY <2>13 DEF QueueAttendanceRead, lineVars, HeadInHand, Genuine
  <2>14. CASE Restart
    BY <2>14, QuietAgrees DEF Restart
  <2>15. CASE UNCHANGED vars
    BY <2>15 DEF vars, HeadInHand, Genuine
  <2>16. QED
    BY <2>1, <2>2, <2>3, <2>4, <2>5, <2>6, <2>7, <2>8, <2>9, <2>10, <2>11, <2>12,
       <2>13, <2>14, <2>15 DEF Next, Worker
<1>3. QED
  BY <1>1, <1>2, TypeCorrect, PTL DEF Spec

-----------------------------------------------------------------------------
\* Collection implements the ledger.

\* Provided no reply outlives the wait for it, every step of collection is a
\* step of the ledger or leaves FIFOs and journal alone: events are recorded
\* oldest first, and forgotten only once recorded.
THEOREM CollectionImplementsLedger == ~LateReplies => (Spec => LedgerSpec)
<1> SUFFICES ASSUME ~LateReplies PROVE Spec => LedgerSpec
  OBVIOUS
<1> USE CollectionAssumption
<1>1. Init => Ledger!Init
  BY DEF Init, Ledger!Init
<1>2. TypeOK /\ HeadInHand /\ [Next]_vars => [Ledger!Next]_(Ledger!vars)
  <2> SUFFICES ASSUME TypeOK, HeadInHand, [Next]_vars
               PROVE  Ledger!Next \/ UNCHANGED <<fifo, journal>>
    BY DEF Ledger!vars
  <2>a. pc # "sweep" => cur.node \in Node
    BY DEF TypeOK, WorkerType
  <2>1. CASE StoreEvent
    <3>1. Ledger!Record(cur.node)
      BY <2>1 DEF StoreEvent, HeadInHand, Ledger!Record
    <3>2. QED
      BY <2>1, <2>a, <3>1 DEF StoreEvent, Ledger!Next
  <2>2. CASE SendRemove
    <3>1. Ledger!Forget(cur.node) \/ UNCHANGED <<fifo, journal>>
      BY <2>2 DEF SendRemove, HeadInHand, Ledger!Forget
    <3>2. QED
      BY <2>2, <2>a, <3>1 DEF SendRemove, Ledger!Next
  <2>3. ASSUME NEW n \in Node, NEW f \in Frame, Swipe(n, f) PROVE Ledger!Next
    BY <2>3 DEF Swipe, Ledger!Next, Ledger!Occur
  <2>4. CASE \/ BeginBatch \/ BeginSweep \/ AskOldest \/ OldestAnswered
             \/ OldestTimedOut \/ StoreFails \/ RemoveAnswered \/ RemoveTimedOut
             \/ \E n \in Node : PollNode(n) \/ QueueAttendanceRead(n)
    BY <2>4 DEF BeginBatch, BeginSweep, AskOldest, OldestAnswered, OldestTimedOut,
                StoreFails, RemoveAnswered, RemoveTimedOut, PollNode,
                QueueAttendanceRead
  <2>5. CASE Deliver \/ LoseReply \/ Restart \/ UNCHANGED vars
    BY <2>5 DEF Deliver, LoseReply, Restart, vars
  <2>6. QED
    BY <2>1, <2>2, <2>3, <2>4, <2>5 DEF Next, Worker
<1>3. QED
  BY <1>1, <1>2, TypeCorrect, HeadInHandAlways, PTL DEF Spec, LedgerSpec, Ledger!Spec

\* "FIFO events are removed by 37H only after durable local storage succeeds":
\* true of every run in which no reply outlives the wait for it.
THEOREM NoUnstoredDeletion == ~LateReplies => (Spec => DeletedOnlyIfStored)
<1> SUFFICES ASSUME ~LateReplies PROVE Spec => DeletedOnlyIfStored
  OBVIOUS
<1> DEFINE Kept == \A n \in Node : Len(fifo'[n]) < Len(fifo[n])
                                     => <<n, Head(fifo[n])>> \in journal
<1>1. TypeOK /\ [Ledger!Next]_(Ledger!vars) => [Kept]_vars
  <2> SUFFICES ASSUME TypeOK, [Ledger!Next]_(Ledger!vars), NEW n \in Node,
                      Len(fifo'[n]) < Len(fifo[n])
               PROVE  <<n, Head(fifo[n])>> \in journal
    OBVIOUS
  <2>1. fifo \in [Node -> Seq(Frame)] /\ Len(fifo[n]) \in Nat
    BY LenProperties DEF TypeOK, LineType
  <2>2. ASSUME NEW m \in Node, NEW f \in Frame, Ledger!Occur(m, f) PROVE FALSE
    <3>1. Len(Append(fifo[n], f)) = Len(fifo[n]) + 1
      BY <2>1, AppendProperties
    <3>2. fifo'[n] = fifo[n] \/ fifo'[n] = Append(fifo[n], f)
      BY <2>1, <2>2 DEF Ledger!Occur
    <3>3. QED
      BY <2>1, <3>1, <3>2
  <2>3. ASSUME NEW m \in Node, Ledger!Forget(m)
        PROVE  <<n, Head(fifo[n])>> \in journal
    <3>1. m = n
      BY <2>1, <2>3 DEF Ledger!Forget
    <3>2. QED
      BY <2>3, <3>1 DEF Ledger!Forget
  <2>4. ASSUME NEW m \in Node, Ledger!Record(m) PROVE FALSE
    BY <2>1, <2>4 DEF Ledger!Record
  <2>5. CASE UNCHANGED Ledger!vars
    BY <2>1, <2>5 DEF Ledger!vars
  <2>6. QED
    BY <2>2, <2>3, <2>4, <2>5 DEF Ledger!Next
<1>2. QED
  BY <1>1, TypeCorrect, CollectionImplementsLedger, PTL
     DEF LedgerSpec, Ledger!Spec, DeletedOnlyIfStored

-----------------------------------------------------------------------------
\* The queue of manual jobs and the table of jobs agree.

\* A job's number is taken once: queued jobs have numbers given already, and
\* the table has no entry for a number to come.
NumbersTaken ==
  /\ \A a \in DOMAIN queue : queue[a].id < nextId
  /\ \A i \in JobId : i >= nextId => ~Running(i)

QueueInv == QueueMatchesTable /\ NumbersTaken

\* The elements of the queue, by index.
LEMMA QueueElements ==
  ASSUME TypeOK
  PROVE  /\ DOMAIN queue = 1 .. Len(queue) /\ Len(queue) \in Nat
         /\ \A a \in DOMAIN queue : queue[a].id \in JobId /\ queue[a].node \in Node
         /\ nextId \in Nat \ {0}
         /\ queue # <<>> => Head(queue) = queue[1] /\ 1 \in DOMAIN queue
<1>1. queue \in Seq([id : JobId, node : Node])
  BY DEF TypeOK, JobType
<1>2. \A a \in 1 .. Len(queue) : queue[a] \in [id : JobId, node : Node]
  BY <1>1, ElementOfSeq
<1>3. QED
  BY <1>1, <1>2, LenProperties DEF TypeOK, JobType

\* Taking the front off the queue.
LEMMA QueueTail ==
  ASSUME TypeOK, queue # <<>>, queue' = Tail(queue)
  PROVE  /\ DOMAIN queue' = 1 .. Len(queue) - 1
         /\ \A a \in 1 .. Len(queue) - 1 : queue'[a] = queue[a + 1]
<1>1. queue \in Seq([id : JobId, node : Node])
  BY DEF TypeOK, JobType
<1>2. QED
  BY <1>1, HeadTailProperties, LenProperties

\* The table after a job's end differs in that job's entry only.
LEMMA JobsAfterEnd ==
  ASSUME TypeOK, NEW st, NEW id \in JobId
  PROVE  /\ \A i \in JobId : i # id => JobsAfter(id, st)[i] = jobs[i]
         /\ JobsAfter(id, st)[id].node = jobs[id].node
         /\ Running(id) => /\ JobsAfter(id, st)[id].state = "completed"
                           /\ JobsAfter(id, st)[id].status = st
         /\ ~Running(id) => JobsAfter(id, st)[id] = jobs[id]
<1>1. jobs \in [JobId -> Job] /\ jobs[id] \in Job
  BY DEF TypeOK, JobType
<1>2. CASE Running(id)
  BY <1>1, <1>2 DEF JobsAfter, Job
<1>3. CASE ~Running(id)
  BY <1>1, <1>3 DEF JobsAfter
<1>4. QED
  BY <1>2, <1>3

\* The end of a job in hand takes its number off the queue.
LEMMA EndJobQueue ==
  ASSUME TypeOK, QueueInv, NEW st, EndJob(st)
  PROVE  QueueInv'
<1>1. CASE cur.job = 0
  BY <1>1 DEF EndJob, QueueInv, QueueMatchesTable, NumbersTaken, Running
<1>2. CASE cur.job # 0
  <2>1. /\ queue' = Tail(queue) /\ jobs' = JobsAfter(cur.job, st) /\ nextId' = nextId
        /\ queue # <<>> /\ Head(queue).id = cur.job
    BY <1>2 DEF EndJob, TypeOK, JobType
  <2>2. PICK N \in Nat : N = Len(queue)
    BY QueueElements
  <2>3. /\ DOMAIN queue = 1 .. N /\ DOMAIN queue' = 1 .. N - 1 /\ N >= 1
        /\ \A a \in 1 .. N - 1 : queue'[a] = queue[a + 1]
        /\ queue[1].id = cur.job /\ cur.job \in JobId
        /\ \A a \in 1 .. N : queue[a].id \in JobId
    BY <2>1, <2>2, QueueElements, QueueTail
  <2>4. PICK c \in JobId : c = cur.job
    BY <2>3
  <2>5. /\ \A i \in JobId : i # c => jobs'[i] = jobs[i]
        /\ Running(c) => jobs'[c].state = "completed"
        /\ ~Running(c) => jobs'[c] = jobs[c]
    BY <2>1, <2>4, JobsAfterEnd
  <2>6. \A i \in JobId : Running(i)' <=> Running(i)
    BY <2>5 DEF Running
  <2>7. \A a, b \in 1 .. N : a < b => queue[a].id < queue[b].id
    BY <2>3 DEF QueueInv, QueueMatchesTable
  <2>8. \A a, b \in DOMAIN queue' : a < b => queue'[a].id < queue'[b].id
    BY <2>3, <2>7
  <2>9. ASSUME NEW i \in JobId, Running(i)
        PROVE  jobs'[i].state # "completed" <=> \E a \in DOMAIN queue' : queue'[a].id = i
    <3>1. jobs[i].state # "completed" <=> \E a \in 1 .. N : queue[a].id = i
      BY <2>3, <2>9 DEF QueueInv, QueueMatchesTable
    <3>2. CASE i = c
      <4>1. \A a \in 1 .. N - 1 : queue[1].id < queue[a + 1].id
        BY <2>3, <2>7
      <4>2. \A a \in DOMAIN queue' : queue'[a].id # i
        BY <2>3, <2>4, <3>2, <4>1 DEF JobId
      <4>3. QED
        BY <2>5, <2>9, <3>2, <4>2
    <3>3. CASE i # c
      <4>1. (\E a \in 1 .. N : queue[a].id = i) <=> \E a \in 1 .. N - 1 : queue[a + 1].id = i
        <5>1. ASSUME NEW a \in 1 .. N, queue[a].id = i
              PROVE  \E b \in 1 .. N - 1 : queue[b + 1].id = i
          <6>1. a # 1
            BY <2>3, <2>4, <3>3, <5>1
          <6>2. a - 1 \in 1 .. N - 1 /\ (a - 1) + 1 = a
            BY <6>1
          <6>3. QED
            BY <5>1, <6>2
        <5>2. \A a \in 1 .. N - 1 : a + 1 \in 1 .. N
          OBVIOUS
        <5>3. QED
          BY <5>1, <5>2
      <4>2. (\E a \in 1 .. N - 1 : queue[a + 1].id = i)
              <=> \E a \in DOMAIN queue' : queue'[a].id = i
        BY <2>3
      <4>3. QED
        BY <2>5, <3>1, <3>3, <4>1, <4>2
    <3>4. QED
      BY <3>2, <3>3
  <2>10. NumbersTaken'
    <3>1. \A a \in 1 .. N - 1 : a + 1 \in 1 .. N
      OBVIOUS
    <3>2. \A a \in DOMAIN queue' : queue'[a].id < nextId'
      BY <2>1, <2>3, <3>1 DEF QueueInv, NumbersTaken
    <3>3. \A i \in JobId : i >= nextId' => ~Running(i)'
      BY <2>1, <2>6 DEF QueueInv, NumbersTaken
    <3>4. QED
      BY <3>2, <3>3 DEF NumbersTaken
  <2>11. QED
    BY <2>6, <2>8, <2>9, <2>10 DEF QueueInv, QueueMatchesTable
<1>3. QED
  BY <1>1, <1>2

\* Neither queue nor table moves, or the job in hand ends.
LEMMA EventFailedQueue ==
  ASSUME TypeOK, QueueInv, NEW st, EventFailed(st)
  PROVE  QueueInv'
BY EndJobQueue DEF EventFailed, jobVars, QueueInv, QueueMatchesTable, NumbersTaken, Running

\* A job that is being carried out is still unfinished.
LEMMA BeginBatchQueue ==
  ASSUME TypeOK, QueueInv, BeginBatch
  PROVE  QueueInv'
<1>1. PICK c \in JobId : c = Head(queue).id
  BY QueueElements DEF BeginBatch
<1>2. /\ UNCHANGED <<queue, nextId>> /\ jobs \in [JobId -> Job]
      /\ jobs' = IF Running(c) THEN [jobs EXCEPT ![c].state = "running"] ELSE jobs
      /\ 1 \in DOMAIN queue /\ queue[1].id = c
  BY <1>1, QueueElements DEF BeginBatch, TypeOK, JobType
<1>3. \A i \in JobId : i # c => jobs'[i] = jobs[i]
  BY <1>2
<1>4. jobs[c] \in Job
  BY <1>2
<1>5. /\ Running(c) => jobs'[c].state = "running"
      /\ ~Running(c) => jobs'[c] = jobs[c]
  BY <1>2, <1>4 DEF Job
<1>6. \A i \in JobId : Running(i)' <=> Running(i)
  BY <1>3, <1>5 DEF Running
<1>7. Running(c) => jobs[c].state # "completed"
  BY <1>2 DEF QueueInv, QueueMatchesTable
<1>8. \A i \in JobId : Running(i) => (jobs'[i].state # "completed" <=> jobs[i].state # "completed")
  BY <1>3, <1>5, <1>7
<1>9. \A i \in JobId : Running(i) =>
        (jobs[i].state # "completed" <=> \E a \in DOMAIN queue : queue[a].id = i)
  BY DEF QueueInv, QueueMatchesTable
<1>10. QED
  BY <1>2, <1>6, <1>8, <1>9 DEF QueueInv, QueueMatchesTable, NumbersTaken

\* A new job takes a number greater than all before it; a job dropped from the
\* table says nothing any more.
LEMMA QueueReadQueue ==
  ASSUME TypeOK, QueueInv, NEW n \in Node, QueueAttendanceRead(n)
  PROVE  QueueInv'
<1> USE CollectionAssumption
<1>1. PICK N \in Nat : N = Len(queue)
  BY QueueElements
<1>2. PICK k \in JobId : k = nextId
  BY DEF QueueAttendanceRead
<1>3. /\ queue \in Seq([id : JobId, node : Node])
      /\ DOMAIN queue = 1 .. N
      /\ \A a \in 1 .. N : queue[a].id \in JobId /\ queue[a].id < k
      /\ k \in Nat /\ nextId' = k + 1
  BY <1>1, <1>2, QueueElements DEF QueueInv, NumbersTaken, JobId, QueueAttendanceRead, TypeOK, JobType
<1>4. PICK j \in [id : JobId, node : Node] : j = [id |-> k, node |-> n]
  BY <1>2
<1>5. /\ DOMAIN queue' = 1 .. N + 1
      /\ \A a \in 1 .. N : queue'[a] = queue[a]
      /\ queue'[N + 1].id = k
  BY <1>1, <1>2, <1>3, <1>4, AppendProperties DEF QueueAttendanceRead
<1>6. ASSUME NEW i \in JobId
      PROVE  /\ i = k => jobs'[i].state = "queued"
             /\ i > k => ~Running(i)'
             /\ i # k /\ Running(i)' => i < k /\ jobs'[i] = jobs[i]
  <2>1. jobs'[i] = CASE i = k -> [node |-> n, state |-> "queued", status |-> "none"]
                     [] i + MaxJobs <= k -> AbsentJob
                     [] OTHER -> jobs[i]
    BY <1>2 DEF QueueAttendanceRead
  <2>2. i > k => ~Running(i)
    BY <1>2, <1>3 DEF QueueInv, NumbersTaken, JobId
  <2>3. CASE i = k
    BY <1>3, <2>1, <2>3 DEF JobId
  <2>4. CASE i # k
    <3>1. jobs'[i] = AbsentJob \/ jobs'[i] = jobs[i]
      BY <2>1, <2>4
    <3>2. i > k \/ i < k
      BY <1>3, <2>4 DEF JobId
    <3>3. jobs'[i] = AbsentJob => ~Running(i)'
      BY DEF AbsentJob, Running
    <3>4. jobs'[i] = jobs[i] => (Running(i)' <=> Running(i))
      BY DEF Running
    <3>5. QED
      BY <2>2, <2>4, <3>1, <3>2, <3>3, <3>4
  <2>5. QED
    BY <2>3, <2>4
<1>7. \A a, b \in DOMAIN queue' : a < b => queue'[a].id < queue'[b].id
  <2>1. \A a, b \in 1 .. N : a < b => queue[a].id < queue[b].id
    BY <1>3 DEF QueueInv, QueueMatchesTable
  <2>2. \A a \in 1 .. N + 1 : a \in 1 .. N \/ a = N + 1
    OBVIOUS
  <2>3. SUFFICES ASSUME NEW a \in 1 .. N + 1, NEW b \in 1 .. N + 1, a < b
                 PROVE  queue'[a].id < queue'[b].id
    BY <1>5
  <2>4. a \in 1 .. N
    BY <2>2, <2>3
  <2>5. CASE b \in 1 .. N
    BY <1>5, <2>1, <2>3, <2>4, <2>5
  <2>6. CASE b = N + 1
    BY <1>3, <1>5, <2>4, <2>6
  <2>7. QED
    BY <2>2, <2>5, <2>6
<1>8. ASSUME NEW i \in JobId, Running(i)'
      PROVE  jobs'[i].state # "completed" <=> \E a \in DOMAIN queue' : queue'[a].id = i
  <2>1. CASE i = k
    <3>1. N + 1 \in DOMAIN queue'
      BY <1>5
    <3>2. QED
      BY <1>5, <1>6, <2>1, <3>1
  <2>2. CASE i # k
    <3>1. i < k /\ jobs'[i] = jobs[i] /\ Running(i)
      BY <1>6, <1>8, <2>2 DEF Running
    <3>2. jobs[i].state # "completed" <=> \E a \in 1 .. N : queue[a].id = i
      BY <1>3, <3>1 DEF QueueInv, QueueMatchesTable
    <3>3. \A a \in 1 .. N + 1 : a \in 1 .. N \/ a = N + 1
      OBVIOUS
    <3>4. \A a \in 1 .. N : a \in 1 .. N + 1
      OBVIOUS
    <3>5. (\E a \in 1 .. N : queue[a].id = i) <=> \E a \in DOMAIN queue' : queue'[a].id = i
      BY <1>5, <2>2, <3>3, <3>4
    <3>6. QED
      BY <3>1, <3>2, <3>5
  <2>3. QED
    BY <2>1, <2>2
<1>9. NumbersTaken'
  <2>1. \A a \in 1 .. N + 1 : a \in 1 .. N \/ a = N + 1
    OBVIOUS
  <2>2. \A a \in DOMAIN queue' : queue'[a].id < k + 1
    BY <1>3, <1>5, <2>1 DEF JobId
  <2>3. \A i \in JobId : i >= k + 1 => ~Running(i)'
    BY <1>3, <1>6 DEF JobId
  <2>4. QED
    BY <1>3, <2>2, <2>3 DEF NumbersTaken
<1>10. QED
  BY <1>7, <1>8, <1>9 DEF QueueInv, QueueMatchesTable

\* The rest of the worker, the line and the controllers leave both alone.
LEMMA JobsKept ==
  ASSUME QueueInv, UNCHANGED jobVars
  PROVE  QueueInv'
BY DEF jobVars, QueueInv, QueueMatchesTable, NumbersTaken, Running

\* Every step keeps queue and table in agreement.
LEMMA QueueStep ==
  TypeOK /\ QueueInv /\ [Next]_vars => QueueInv'
<1> USE CollectionAssumption
<1> SUFFICES ASSUME TypeOK, QueueInv, [Next]_vars PROVE QueueInv'
  OBVIOUS
<1>1. CASE BeginBatch
  BY <1>1, BeginBatchQueue
<1>2. CASE OldestAnswered
  BY <1>2, EndJobQueue, JobsKept DEF OldestAnswered
<1>3. CASE OldestTimedOut
  BY <1>3, EndJobQueue DEF OldestTimedOut
<1>4. CASE StoreFails
  BY <1>4, EventFailedQueue DEF StoreFails
<1>5. CASE RemoveAnswered
  BY <1>5, EventFailedQueue, JobsKept DEF RemoveAnswered
<1>6. CASE RemoveTimedOut
  BY <1>6, EventFailedQueue DEF RemoveTimedOut
<1>7. ASSUME NEW n \in Node, QueueAttendanceRead(n) PROVE QueueInv'
  BY <1>7, QueueReadQueue
<1>8. CASE Restart
  BY <1>8 DEF Restart, QueueInv, QueueMatchesTable, NumbersTaken, Running, AbsentJob
<1>9. CASE \/ BeginSweep \/ AskOldest \/ StoreEvent \/ SendRemove \/ Deliver \/ LoseReply
           \/ \E n \in Node : PollNode(n)
           \/ \E n \in Node, f \in Frame : Swipe(n, f)
           \/ UNCHANGED vars
  <2>1. UNCHANGED jobVars
    BY <1>9 DEF BeginSweep, AskOldest, StoreEvent, SendRemove, Deliver, LoseReply,
                PollNode, Swipe, vars, jobVars
  <2>2. QED
    BY <2>1, JobsKept
<1>10. QED
  BY <1>1, <1>2, <1>3, <1>4, <1>5, <1>6, <1>7, <1>8, <1>9 DEF Next, Worker

\* The queue holds each job once and in order, and a job of the table is in it
\* exactly while it is unfinished (queueAttendanceRead, processAttendanceReadBatch,
\* completeAttendanceRead), through evictions, failures and restarts.
THEOREM QueueMatchesTableAlways == Spec => []QueueMatchesTable
<1> USE CollectionAssumption
<1>1. Init => QueueInv
  BY DEF Init, QueueInv, QueueMatchesTable, NumbersTaken, Running, AbsentJob
<1>2. QED
  BY <1>1, QueueStep, TypeCorrect, PTL DEF Spec, QueueInv

-----------------------------------------------------------------------------
\* A manual read that found the FIFO empty has journalled what it owed.

\* The entry of a queued job is fresh, an entry names the controller its job was
\* queued for, and the job in hand is being carried out at that controller.
JobsInHand ==
  /\ \A i \in JobId : jobs[i].state = "queued" => jobs[i].status = "none"
  /\ \A i \in JobId : Running(i) => jobs[i].node \in Node
  /\ \A a \in DOMAIN queue :
       Running(queue[a].id) => jobs[queue[a].id].node = queue[a].node
  /\ cur.job # 0 => /\ cur.node = Head(queue).node
                    /\ Running(cur.job) => jobs[cur.job].state = "running"

Journalled(i) == \A f \in owed[i] : <<jobs[i].node, f>> \in journal

\* What a job under way owes is journalled or still with the controller.
OwedHeld ==
  \A i \in JobId : jobs[i].state = "running" =>
    \A f \in owed[i] :
      <<jobs[i].node, f>> \in journal \/ f \in ToSet(fifo[jobs[i].node])

\* An answer to 25H without an event was given by an empty FIFO.
EmptyMeansDone ==
  pc = "await25" => \A line \in {air, rx} :
    line # <<>> /\ Head(line).kind # "event" =>
      \A i \in JobId : jobs[i].state = "running" /\ jobs[i].node = cur.node => Journalled(i)

ReadInv == JobsInHand /\ OwedHeld /\ EmptyMeansDone /\ ReadJobComplete

\* The elements of a sequence: of its tail and head, and after an append.
LEMMA ToSetTail ==
  ASSUME NEW S, NEW s \in Seq(S), s # <<>>, NEW f \in ToSet(s)
  PROVE  f = Head(s) \/ f \in ToSet(Tail(s))
<1>1. PICK i \in 1 .. Len(s) : f = s[i]
  BY DEF ToSet
<1>2. PICK N \in Nat : N = Len(s)
  BY LenProperties
<1>3. Len(Tail(s)) = N - 1 /\ \A j \in 1 .. N - 1 : Tail(s)[j] = s[j + 1]
  BY <1>2, HeadTailProperties
<1>4. CASE i = 1
  BY <1>1, <1>4
<1>5. CASE i # 1
  <2>1. i - 1 \in 1 .. N - 1 /\ (i - 1) + 1 = i
    BY <1>1, <1>2, <1>5
  <2>2. Tail(s)[i - 1] = f
    BY <1>1, <1>3, <2>1
  <2>3. DOMAIN Tail(s) = 1 .. N - 1
    BY <1>3, HeadTailProperties, LenProperties
  <2>4. QED
    BY <2>1, <2>2, <2>3 DEF ToSet
<1>6. QED
  BY <1>4, <1>5

LEMMA ToSetAppend ==
  ASSUME NEW S, NEW s \in Seq(S), NEW e \in S, NEW f \in ToSet(s)
  PROVE  f \in ToSet(Append(s, e))
<1>1. PICK i \in 1 .. Len(s) : f = s[i]
  BY DEF ToSet
<1>2. /\ DOMAIN Append(s, e) = 1 .. Len(s) + 1 /\ Len(s) \in Nat
      /\ Append(s, e)[i] = s[i]
  BY <1>1, AppendProperties, LenProperties
<1>3. i \in 1 .. Len(s) + 1
  BY <1>1, <1>2
<1>4. QED
  BY <1>1, <1>2, <1>3 DEF ToSet

\* A step that leaves jobs and queue alone keeps what is owed, as long as
\* events leave a controller for the journal only.
LEMMA OwedKept ==
  ASSUME ReadInv, TypeOK, UNCHANGED <<jobVars, owed>>,
         journal \subseteq journal',
         cur'.job = 0 \/ (cur'.job = cur.job /\ cur'.node = cur.node),
         \A n \in Node : \A f \in ToSet(fifo[n]) :
           f \in ToSet(fifo'[n]) \/ <<n, f>> \in journal',
         EmptyMeansDone'
  PROVE  ReadInv'
<1>1. JobsInHand'
  BY DEF ReadInv, JobsInHand, jobVars, Running
<1>2. ReadJobComplete'
  BY DEF ReadInv, ReadJobComplete, jobVars
<1>3. OwedHeld'
  <2> SUFFICES ASSUME NEW i \in JobId, jobs[i].state = "running", NEW f \in owed[i]
               PROVE  <<jobs[i].node, f>> \in journal' \/ f \in ToSet(fifo'[jobs[i].node])
    BY DEF OwedHeld, jobVars
  <2>1. jobs[i].node \in Node
    BY DEF ReadInv, JobsInHand, Running
  <2>2. <<jobs[i].node, f>> \in journal \/ f \in ToSet(fifo[jobs[i].node])
    BY DEF ReadInv, OwedHeld
  <2>3. QED
    BY <2>1, <2>2
<1>4. QED
  BY <1>1, <1>2, <1>3 DEF ReadInv

\* Nobody is waiting for an answer to 25H: EmptyMeansDone has nothing to say.
LEMMA NotAsking ==
  ASSUME pc' # "await25"
  PROVE  EmptyMeansDone'
BY DEF EmptyMeansDone

\* The end of a job settles its entry; "fifo_empty" is its verdict only when
\* everything it owed is journalled.
LEMMA EndJobOwed ==
  ASSUME ReadInv, TypeOK, QueueInv, NEW st, EndJob(st),
         UNCHANGED <<fifo, owed>>, journal \subseteq journal',
         st = "fifo_empty" /\ cur.job # 0 /\ Running(cur.job) => Journalled(cur.job)
  PROVE  ReadInv'
<1>1. pc' = "sweep" /\ cur' = NoEvent
  BY DEF EndJob, EndRound
<1>2. EmptyMeansDone'
  BY <1>1, NotAsking
<1>3. CASE cur.job = 0
  BY <1>1, <1>2, <1>3, OwedKept DEF EndJob, jobVars, NoEvent
<1>4. CASE cur.job # 0
  <2>1. /\ queue' = Tail(queue) /\ jobs' = JobsAfter(cur.job, st)
        /\ queue # <<>> /\ Head(queue).id = cur.job
    BY <1>4 DEF EndJob, TypeOK, JobType
  <2>2. PICK c \in JobId : c = cur.job
    BY <2>1, QueueElements
  <2>3. /\ \A i \in JobId : i # c => jobs'[i] = jobs[i]
        /\ Running(c) => jobs'[c].state = "completed" /\ jobs'[c].status = st
        /\ ~Running(c) => jobs'[c] = jobs[c]
        /\ jobs'[c].node = jobs[c].node
    BY <2>1, <2>2, JobsAfterEnd
  <2>4. \A i \in JobId : jobs'[i].node = jobs[i].node /\ (Running(i)' <=> Running(i))
    BY <2>3 DEF Running
  <2>5. JobsInHand'
    <3>1. \A i \in JobId : jobs'[i].state = "queued" => jobs'[i].status = "none"
      <4>1. ASSUME NEW i \in JobId, jobs'[i].state = "queued" PROVE jobs'[i] = jobs[i]
        BY <2>3, <4>1
      <4>2. QED
        BY <4>1 DEF ReadInv, JobsInHand
    <3>2. \A i \in JobId : Running(i)' => jobs'[i].node \in Node
      BY <2>4 DEF ReadInv, JobsInHand
    <3>3. ASSUME NEW a \in DOMAIN queue', jobs'[queue'[a].id].state # "absent"
          PROVE  jobs'[queue'[a].id].node = queue'[a].node
      <4>1. PICK N \in Nat : N = Len(queue)
        BY QueueElements
      <4>2. a \in 1 .. N - 1 /\ queue'[a] = queue[a + 1] /\ a + 1 \in 1 .. N
            /\ 1 .. N = DOMAIN queue
        BY <2>1, <4>1, QueueElements, QueueTail
      <4>3. queue[a + 1].id \in JobId
        BY <4>2, QueueElements
      <4>4. PICK i \in JobId : i = queue[a + 1].id
        BY <4>3
      <4>5. Running(i)
        BY <2>4, <3>3, <4>2, <4>4 DEF Running
      <4>6. jobs[i].node = queue[a + 1].node
        BY <4>2, <4>4, <4>5 DEF ReadInv, JobsInHand
      <4>7. QED
        BY <2>4, <4>2, <4>4, <4>6
    <3>4. QED
      BY <1>1, <3>1, <3>2, <3>3 DEF JobsInHand, NoEvent, Running
  <2>6. OwedHeld'
    <3> SUFFICES ASSUME NEW i \in JobId, jobs'[i].state = "running", NEW f \in owed[i]
                 PROVE  <<jobs'[i].node, f>> \in journal' \/ f \in ToSet(fifo[jobs'[i].node])
      BY DEF OwedHeld
    <3>1. jobs'[i] = jobs[i]
      BY <2>3
    <3>2. QED
      BY <3>1 DEF ReadInv, OwedHeld
  <2>7. ReadJobComplete'
    <3> SUFFICES ASSUME NEW i \in JobId, jobs'[i].status = "fifo_empty", NEW f \in owed[i]
                 PROVE  <<jobs'[i].node, f>> \in journal'
      BY DEF ReadJobComplete
    <3>1. CASE jobs'[i] = jobs[i]
      BY <3>1 DEF ReadInv, ReadJobComplete
    <3>2. CASE i = c /\ Running(c)
      BY <1>4, <2>2, <2>3, <3>2 DEF Journalled
    <3>3. QED
      BY <2>3, <3>1, <3>2
  <2>8. QED
    BY <1>2, <2>5, <2>6, <2>7 DEF ReadInv
<1>5. QED
  BY <1>3, <1>4

\* Going on to the next event, or to the next round.
LEMMA NextEventOwed ==
  ASSUME ReadInv, TypeOK, NextEvent, UNCHANGED <<jobVars, fifo, owed>>,
         journal \subseteq journal'
  PROVE  ReadInv'
<1>1. pc' \in {"ask", "sweep"}
  BY DEF NextEvent, EndRound
<1>2. cur'.job = 0 \/ (cur'.job = cur.job /\ cur'.node = cur.node)
  BY DEF NextEvent, EndRound, NoEvent, TypeOK, WorkerType
<1>3. EmptyMeansDone'
  BY <1>1, NotAsking
<1>4. QED
  BY <1>2, <1>3, OwedKept

LEMMA EventFailedOwed ==
  ASSUME ReadInv, TypeOK, QueueInv,
         EventFailed("storage_error") \/ EventFailed("delete_error"),
         UNCHANGED <<fifo, owed>>, journal \subseteq journal'
  PROVE  ReadInv'
BY EndJobOwed, NextEventOwed DEF EventFailed

\* A job begins: from now on it owes what the controller holds.
LEMMA BeginBatchOwed ==
  ASSUME ReadInv, TypeOK, QueueInv, BeginBatch
  PROVE  ReadInv'
<1>1. PICK c \in JobId : c = Head(queue).id
  BY QueueElements DEF BeginBatch
<1>2. PICK n \in Node : n = Head(queue).node
  BY QueueElements DEF BeginBatch
<1>3. /\ UNCHANGED <<fifo, journal, queue>> /\ jobs \in [JobId -> Job]
      /\ jobs' = IF Running(c) THEN [jobs EXCEPT ![c].state = "running"] ELSE jobs
      /\ 1 \in DOMAIN queue /\ queue[1].id = c /\ queue[1].node = n
      /\ cur' = [node |-> n, frame |-> None, job |-> c] /\ pc' = "ask"
      /\ owed' = IF jobs[c].state = "queued" THEN [owed EXCEPT ![c] = ToSet(fifo[n])] ELSE owed
      /\ owed \in [JobId -> SUBSET Frame]
  BY <1>1, <1>2, QueueElements DEF BeginBatch, TypeOK, JobType
<1>4. jobs[c] \in Job
  BY <1>3
<1>5. /\ \A i \in JobId : i # c => jobs'[i] = jobs[i] /\ owed'[i] = owed[i]
      /\ ~Running(c) => jobs'[c] = jobs[c]
      /\ Running(c) => jobs'[c].state = "running"
      /\ jobs'[c].node = jobs[c].node /\ jobs'[c].status = jobs[c].status
      /\ owed'[c] = IF jobs[c].state = "queued" THEN ToSet(fifo[n]) ELSE owed[c]
  BY <1>3, <1>4 DEF Job
<1>6. \A i \in JobId : Running(i)' <=> Running(i)
  BY <1>5 DEF Running
<1>7. Running(c) => jobs[c].node = n
  BY <1>3 DEF ReadInv, JobsInHand
<1>8. Running(c) => jobs[c].state \in {"queued", "running"}
  BY <1>3, <1>4 DEF QueueInv, QueueMatchesTable, Running, Job
<1>9. EmptyMeansDone'
  BY <1>3, NotAsking
<1>10. JobsInHand'
  <2>1. \A i \in JobId : jobs'[i].state = "queued" => jobs'[i].status = "none"
    <3>1. ASSUME NEW i \in JobId, jobs'[i].state = "queued" PROVE jobs'[i] = jobs[i]
      BY <1>5, <3>1
    <3>2. QED
      BY <3>1 DEF ReadInv, JobsInHand
  <2>2. \A i \in JobId : Running(i)' => jobs'[i].node \in Node
    BY <1>5, <1>6 DEF ReadInv, JobsInHand
  <2>3. \A a \in DOMAIN queue : queue[a].id \in JobId
    BY QueueElements
  <2>4. \A i \in JobId : jobs'[i].node = jobs[i].node
    BY <1>5
  <2>5. ASSUME NEW a \in DOMAIN queue, jobs'[queue[a].id].state # "absent"
        PROVE  jobs'[queue[a].id].node = queue[a].node
    <3>1. PICK i \in JobId : i = queue[a].id
      BY <2>3
    <3>2. Running(i)'
      BY <2>5, <3>1 DEF Running
    <3>3. jobs[i].node = queue[a].node
      BY <1>6, <3>1, <3>2 DEF ReadInv, JobsInHand
    <3>4. QED
      BY <2>4, <3>1, <3>3
  <2>6. \A a \in DOMAIN queue' :
          jobs'[queue'[a].id].state # "absent" => jobs'[queue'[a].id].node = queue'[a].node
    BY <1>3, <2>5
  <2>7. /\ cur'.node = Head(queue').node
        /\ jobs'[cur'.job].state # "absent" => jobs'[cur'.job].state = "running"
    BY <1>2, <1>3, <1>5, <1>6 DEF Running
  <2>8. QED
    BY <2>1, <2>2, <2>6, <2>7 DEF JobsInHand, Running
<1>11. OwedHeld'
  <2> SUFFICES ASSUME NEW i \in JobId, jobs'[i].state = "running", NEW f \in owed'[i]
               PROVE  <<jobs'[i].node, f>> \in journal \/ f \in ToSet(fifo[jobs'[i].node])
    BY <1>3 DEF OwedHeld
  <2>1. CASE i # c \/ jobs[c].state # "queued"
    <3>1. jobs[i].state = "running" /\ jobs'[i].node = jobs[i].node /\ owed'[i] = owed[i]
      BY <1>5, <1>8, <2>1 DEF Running
    <3>2. QED
      BY <3>1 DEF ReadInv, OwedHeld
  <2>2. CASE i = c /\ jobs[c].state = "queued"
    BY <1>5, <1>7, <2>2 DEF Running
  <2>3. QED
    BY <2>1, <2>2
<1>12. ReadJobComplete'
  <2> SUFFICES ASSUME NEW i \in JobId, jobs'[i].status = "fifo_empty", NEW f \in owed'[i]
               PROVE  <<jobs'[i].node, f>> \in journal
    BY <1>3 DEF ReadJobComplete
  <2>1. jobs[i].status = "fifo_empty" /\ jobs'[i].node = jobs[i].node
    BY <1>5
  <2>2. owed'[i] = owed[i]
    BY <1>5, <2>1 DEF ReadInv, JobsInHand
  <2>3. QED
    BY <2>1, <2>2 DEF ReadInv, ReadJobComplete
<1>13. QED
  BY <1>9, <1>10, <1>11, <1>12 DEF ReadInv

\* A new job owes nothing yet, and its entry is fresh.
LEMMA QueueReadOwed ==
  ASSUME ReadInv, TypeOK, QueueInv, NEW n \in Node, QueueAttendanceRead(n)
  PROVE  ReadInv'
<1> USE CollectionAssumption
<1>1. PICK N \in Nat : N = Len(queue)
  BY QueueElements
<1>2. PICK k \in JobId : k = nextId
  BY DEF QueueAttendanceRead
<1>3. PICK j \in [id : JobId, node : Node] : j = [id |-> k, node |-> n]
  BY <1>2
<1>4. /\ UNCHANGED <<fifo, air, rx, pc, cur, journal, owed>>
      /\ queue \in Seq([id : JobId, node : Node]) /\ queue' = Append(queue, j)
      /\ DOMAIN queue = 1 .. N /\ k \in Nat
      /\ \A a \in 1 .. N : queue[a].id \in JobId /\ queue[a].id < k
  BY <1>1, <1>2, <1>3, QueueElements DEF QueueAttendanceRead, lineVars, TypeOK, JobType,
     QueueInv, NumbersTaken
<1>5. /\ DOMAIN queue' = 1 .. N + 1
      /\ \A a \in 1 .. N : queue'[a] = queue[a]
      /\ queue'[N + 1] = j
      /\ queue # <<>> => Head(queue') = Head(queue)
  BY <1>1, <1>4, AppendProperties, HeadTailAppend
<1>6. ASSUME NEW i \in JobId
      PROVE  \/ i # k /\ jobs'[i] = jobs[i]
             \/ i # k /\ ~Running(i)' /\ jobs'[i] = AbsentJob
             \/ i = k /\ jobs'[i] = [node |-> n, state |-> "queued", status |-> "none"]
  <2>1. jobs'[i] = CASE i = k -> [node |-> n, state |-> "queued", status |-> "none"]
                     [] i + MaxJobs <= k -> AbsentJob
                     [] OTHER -> jobs[i]
    BY <1>2 DEF QueueAttendanceRead
  <2>2. jobs'[i] = AbsentJob => ~Running(i)'
    BY DEF AbsentJob, Running
  <2>3. CASE i = k
    BY <1>4, <2>1, <2>3
  <2>4. CASE i # k
    <3>1. jobs'[i] = AbsentJob \/ jobs'[i] = jobs[i]
      BY <2>1, <2>4
    <3>2. QED
      BY <2>2, <2>4, <3>1
  <2>5. QED
    BY <2>3, <2>4
<1>7. ASSUME NEW i \in JobId, i # k, Running(i)' PROVE jobs'[i] = jobs[i] /\ Running(i)
  BY <1>6, <1>7 DEF Running
<1>8. EmptyMeansDone'
  <2>1. \A i \in JobId : jobs'[i].state = "running" => jobs'[i] = jobs[i]
    BY <1>6 DEF AbsentJob
  <2>2. QED
    BY <1>4, <2>1 DEF ReadInv, EmptyMeansDone, Journalled
<1>9. JobsInHand'
  <2>1. \A i \in JobId : jobs'[i].state = "queued" => jobs'[i].status = "none"
    BY <1>6 DEF AbsentJob, ReadInv, JobsInHand
  <2>2. ASSUME NEW i \in JobId, Running(i)' PROVE jobs'[i].node \in Node
    <3>1. jobs'[k] = [node |-> n, state |-> "queued", status |-> "none"]
      BY <1>6
    <3>2. i # k => jobs'[i] = jobs[i] /\ Running(i)
      BY <1>7, <2>2
    <3>3. QED
      BY <3>1, <3>2 DEF ReadInv, JobsInHand
  <2>3. ASSUME NEW a \in DOMAIN queue', jobs'[queue'[a].id].state # "absent"
        PROVE  jobs'[queue'[a].id].node = queue'[a].node
    <3>1. CASE a \in 1 .. N
      <4>1. PICK i \in JobId : i = queue[a].id /\ queue'[a] = queue[a] /\ i < k
        BY <1>4, <1>5, <3>1
      <4>2. Running(i)' /\ i # k
        BY <1>4, <2>3, <4>1 DEF Running, JobId
      <4>3. jobs'[i] = jobs[i] /\ Running(i)
        BY <1>7, <4>2
      <4>4. jobs[i].node = queue[a].node
        BY <1>4, <3>1, <4>1, <4>3 DEF ReadInv, JobsInHand
      <4>5. QED
        BY <4>1, <4>3, <4>4
    <3>2. CASE a = N + 1
      <4>1. jobs'[k] = [node |-> n, state |-> "queued", status |-> "none"]
        BY <1>6
      <4>2. QED
        BY <1>3, <1>5, <3>2, <4>1
    <3>3. QED
      BY <1>5, <3>1, <3>2
  <2>4. ASSUME cur.job # 0
        PROVE  /\ cur.node = Head(queue').node
               /\ jobs'[cur.job].state # "absent" => jobs'[cur.job].state = "running"
    <3>1. /\ queue # <<>> /\ Head(queue).id = cur.job
          /\ cur.node = Head(queue).node
          /\ Running(cur.job) => jobs[cur.job].state = "running"
      BY <2>4 DEF TypeOK, JobType, ReadInv, JobsInHand
    <3>2. cur.job \in JobId /\ cur.job # k
      BY <1>4, <3>1, QueueElements DEF JobId
    <3>3. jobs'[cur.job].state # "absent" => jobs'[cur.job] = jobs[cur.job] /\ Running(cur.job)
      <4>1. PICK i \in JobId : i = cur.job
        BY <3>2
      <4>2. Running(i)' => jobs'[i] = jobs[i] /\ Running(i)
        BY <1>7, <3>2, <4>1
      <4>3. QED
        BY <4>1, <4>2 DEF Running
    <3>4. QED
      BY <1>5, <3>1, <3>3
  <2>5. QED
    BY <1>4, <2>1, <2>2, <2>3, <2>4 DEF JobsInHand, Running
<1>10. OwedHeld'
  <2>1. \A i \in JobId : jobs'[i].state = "running" => jobs'[i] = jobs[i]
    BY <1>6 DEF AbsentJob
  <2>2. QED
    BY <1>4, <2>1 DEF ReadInv, OwedHeld
<1>11. ReadJobComplete'
  <2>1. \A i \in JobId : jobs'[i].status = "fifo_empty" => jobs'[i] = jobs[i]
    BY <1>6 DEF AbsentJob
  <2>2. QED
    BY <1>4, <2>1 DEF ReadInv, ReadJobComplete
<1>12. QED
  BY <1>8, <1>9, <1>10, <1>11 DEF ReadInv

\* A manual read that reports fifo_empty has journalled every event the
\* controller held when the job was started, whatever was lost, refused or
\* presented meanwhile, as long as no reply is taken for a later request's
\* (processAttendanceReadBatch, handleControllerEvent).
THEOREM ReadJobCompleteAlways == ~LateReplies => (Spec => []ReadJobComplete)
<1> SUFFICES ASSUME ~LateReplies PROVE Spec => []ReadJobComplete
  OBVIOUS
<1> USE CollectionAssumption
<1>1. Init => QueueInv /\ ReadInv
  BY DEF Init, QueueInv, QueueMatchesTable, NumbersTaken, Running, AbsentJob, ReadInv,
         JobsInHand, OwedHeld, EmptyMeansDone, ReadJobComplete, NoEvent
<1>2. TypeOK /\ HeadInHand /\ QueueInv /\ ReadInv /\ [Next]_vars => ReadInv'
  <2> SUFFICES ASSUME TypeOK, HeadInHand, QueueInv, ReadInv, [Next]_vars PROVE ReadInv'
    OBVIOUS
  <2>a. /\ air \in Seq(Reply) /\ rx \in Seq(Reply)
        /\ fifo \in [Node -> Seq(Frame)]
        /\ pc # "sweep" => cur.node \in Node
    BY DEF TypeOK, LineType, WorkerType
  <2>b. pc \notin {"await25", "await37"} => air = <<>> /\ rx = <<>>
    BY DEF HeadInHand
  <2>1. CASE BeginBatch
    BY <2>1, BeginBatchOwed
  <2>2. CASE BeginSweep
    BY <2>2, NotAsking, OwedKept DEF BeginSweep
  <2>3. ASSUME NEW n \in Node, PollNode(n) PROVE ReadInv'
    BY <2>3, NotAsking, OwedKept DEF PollNode
  <2>4. CASE AskOldest
    <3>1. /\ UNCHANGED <<fifo, rx, cur, jobVars, journal, owed>> /\ rx = <<>>
          /\ air' = Append(<<>>, OldestReply(cur.node)) \/ air' = <<>>
      BY <2>4, <2>b DEF AskOldest
    <3>2. OldestReply(cur.node) \in Reply
      BY <2>4, <2>a, HeadTailProperties DEF AskOldest, OldestReply, Reply
    <3>3. air' # <<>> => Head(air') = OldestReply(cur.node)
      BY <3>1, <3>2, OneReply
    <3>4. fifo[cur.node] = <<>> => ToSet(fifo[cur.node]) = {}
      BY DEF ToSet
    <3>5. EmptyMeansDone'
      <4>1. SUFFICES ASSUME air' # <<>>, Head(air').kind # "event", NEW i \in JobId,
                            jobs[i].state = "running", jobs[i].node = cur.node,
                            NEW f \in owed[i]
                     PROVE  <<jobs[i].node, f>> \in journal
        BY <3>1 DEF EmptyMeansDone, Journalled, jobVars
      <4>2. fifo[cur.node] = <<>>
        BY <3>3, <4>1 DEF OldestReply
      <4>3. QED
        BY <3>4, <4>1, <4>2 DEF ReadInv, OwedHeld
    <3>6. QED
      BY <3>1, <3>5, OwedKept
  <2>5. CASE OldestAnswered
    <3>1. UNCHANGED <<fifo, journal, owed>> /\ pc' # "await25"
      BY <2>5 DEF OldestAnswered, EndJob, EndRound
    <3>2. CASE Head(rx).kind = "event"
      <4>1. cur'.job = cur.job /\ cur'.node = cur.node /\ UNCHANGED jobVars
        BY <2>5, <3>2 DEF OldestAnswered, TypeOK, WorkerType
      <4>2. QED
        BY <3>1, <4>1, NotAsking, OwedKept
    <3>3. CASE Head(rx).kind # "event"
      <4>1. ASSUME cur.job # 0, Running(cur.job) PROVE Journalled(cur.job)
        <5>1. /\ cur.node = Head(queue).node /\ jobs[cur.job].state = "running"
              /\ queue # <<>> /\ Head(queue).id = cur.job
          BY <4>1 DEF TypeOK, JobType, ReadInv, JobsInHand
        <5>2. 1 \in DOMAIN queue /\ queue[1].id = cur.job /\ queue[1].node = cur.node
              /\ cur.job \in JobId
          BY <5>1, QueueElements
        <5>3. jobs[cur.job].node = cur.node
          BY <4>1, <5>2 DEF ReadInv, JobsInHand
        <5>4. QED
          BY <2>5, <3>3, <5>1, <5>2, <5>3 DEF OldestAnswered, ReadInv, EmptyMeansDone
      <4>2. QED
        BY <2>5, <3>1, <3>3, <4>1, EndJobOwed DEF OldestAnswered
    <3>4. QED
      BY <3>2, <3>3
  <2>6. CASE OldestTimedOut
    BY <2>6, EndJobOwed DEF OldestTimedOut
  <2>7. CASE StoreEvent
    BY <2>7, NotAsking, OwedKept DEF StoreEvent
  <2>8. CASE StoreFails
    BY <2>8, EventFailedOwed DEF StoreFails
  <2>9. CASE SendRemove
    <3>1. pc' = "await37" /\ UNCHANGED <<cur, jobVars, journal, owed>> /\ cur.node \in Node
      BY <2>9, <2>a DEF SendRemove
    <3>2. fifo[cur.node] # <<>> /\ <<cur.node, Head(fifo[cur.node])>> \in journal
      BY <2>9 DEF SendRemove, HeadInHand
    <3>3. ASSUME NEW n \in Node, NEW f \in ToSet(fifo[n])
          PROVE  f \in ToSet(fifo'[n]) \/ <<n, f>> \in journal
      <4>1. fifo'[n] = fifo[n] \/ (n = cur.node /\ fifo'[n] = Tail(fifo[n]))
        BY <2>9, <2>a, <3>1, <3>2 DEF SendRemove
      <4>2. ASSUME n = cur.node PROVE f = Head(fifo[n]) \/ f \in ToSet(Tail(fifo[n]))
        BY <2>a, <3>2, <4>2, ToSetTail
      <4>3. QED
        BY <3>2, <4>1, <4>2
    <3>4. QED
      BY <3>1, <3>3, NotAsking, OwedKept
  <2>10. CASE RemoveAnswered
    BY <2>10, EventFailedOwed, NextEventOwed DEF RemoveAnswered
  <2>11. CASE RemoveTimedOut
    BY <2>11, EventFailedOwed DEF RemoveTimedOut
  <2>12. ASSUME NEW n \in Node, NEW f \in Frame, Swipe(n, f) PROVE ReadInv'
    <3>1. /\ UNCHANGED <<air, rx, pc, cur, jobVars, journal, owed>>
          /\ fifo' = [fifo EXCEPT ![n] = Append(@, f)]
      BY <2>12 DEF Swipe, lineVars
    <3>2. ASSUME NEW m \in Node, NEW g \in ToSet(fifo[m]) PROVE g \in ToSet(fifo'[m])
      <4>1. g \in ToSet(Append(fifo[m], f))
        BY <2>a, ToSetAppend
      <4>2. fifo'[m] = fifo[m] \/ fifo'[m] = Append(fifo[m], f)
        BY <2>a, <3>1
      <4>3. QED
        BY <4>1, <4>2
    <3>3. EmptyMeansDone'
      BY <3>1 DEF ReadInv, EmptyMeansDone, Journalled, jobVars
    <3>4. QED
      BY <3>1, <3>2, <3>3, OwedKept
  <2>13. CASE Deliver
    <3>1. /\ rx = <<>> /\ air' = <<>> /\ rx' = Append(<<>>, Head(air)) /\ air # <<>>
          /\ UNCHANGED <<fifo, pc, cur, jobVars, journal, owed>>
      BY <2>13 DEF Deliver, HeadInHand
    <3>2. Head(air) \in Reply
      BY <2>a, <3>1, HeadTailProperties
    <3>3. Head(rx') = Head(air)
      BY <3>1, <3>2, OneReply
    <3>4. EmptyMeansDone'
      BY <3>1, <3>3 DEF ReadInv, EmptyMeansDone, Journalled, jobVars
    <3>5. QED
      BY <3>1, <3>4, OwedKept
  <2>14. CASE LoseReply
    <3>1. air' = <<>> /\ UNCHANGED <<fifo, rx, pc, cur, jobVars, journal, owed>>
      BY <2>14 DEF LoseReply, HeadInHand
    <3>2. EmptyMeansDone'
      BY <3>1 DEF ReadInv, EmptyMeansDone, Journalled, jobVars
    <3>3. QED
      BY <3>1, <3>2, OwedKept
  <2>15. ASSUME NEW n \in Node, QueueAttendanceRead(n) PROVE ReadInv'
    BY <2>15, QueueReadOwed
  <2>16. CASE Restart
    BY <2>16 DEF Restart, ReadInv, JobsInHand, OwedHeld, EmptyMeansDone, ReadJobComplete,
                 Running, AbsentJob, NoEvent
  <2>17. CASE UNCHANGED vars
    <3>1. UNCHANGED <<fifo, air, rx, pc, cur, jobVars, journal, owed>>
      BY <2>17 DEF vars, jobVars
    <3>2. EmptyMeansDone'
      BY <3>1 DEF ReadInv, EmptyMeansDone, Journalled, jobVars
    <3>3. QED
      BY <3>1, <3>2, OwedKept
  <2>18. QED
    BY <2>1, <2>2, <2>3, <2>4, <2>5, <2>6, <2>7, <2>8, <2>9, <2>10, <2>11, <2>12, <2>13,
       <2>14, <2>15, <2>16, <2>17 DEF Next, Worker
<1>3. TypeOK /\ QueueInv /\ [Next]_vars => QueueInv'
  BY QueueStep
<1>4. QED
  BY <1>1, <1>2, <1>3, TypeCorrect, HeadInHandAlways, PTL DEF Spec, ReadInv
=============================================================================
