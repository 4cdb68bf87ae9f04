-------------------------- MODULE EventCollection --------------------------
(***************************************************************************)
(* Collection of access events from UNEX 721 controllers: the serial       *)
(* worker of ControllerManager asks a controller for its oldest event      *)
(* (25H), stores it, and deletes it from the controller (37H).  Background *)
(* polling and the manual "read attendance" jobs share the worker and the  *)
(* one RS-485 line.                                                        *)
(*                                                                         *)
(* A reply is in flight (air) until it reaches the receive buffer of the   *)
(* serial port (rx); the worker takes the head of rx for the answer to     *)
(* whatever it asked last.  Node addresses of replies are carried here     *)
(* because the frames carry them; the code does not look at them.          *)
(* 24H probes and 23H clock writes use the same exchange and touch neither *)
(* the FIFOs nor the journal; they are left out.                           *)
(***************************************************************************)
EXTENDS Naturals, Sequences, SequencesExt

CONSTANTS
    Node,         \* enabled controllers
    Frame,        \* raw 25H event frames
    None,         \* no node, no frame
    BatchSize,    \* events read by one manual batch (20 in the code)
    MaxJobs,      \* manual jobs remembered (20 in the code)
    LateReplies,  \* may a reply arrive after the worker stopped waiting?
    MaxSwipes,    \* bound: events a controller holds at a time
    MaxOccur,     \* bound: events that occur at all
    MaxRequests,  \* bound: manual jobs requested between two restarts
    MaxFaults     \* bound: lost frames, failed inserts and restarts

ASSUME CollectionAssumption ==
    /\ None \notin Node
    /\ None \notin Frame
    /\ BatchSize \in Nat \ {0}
    /\ MaxJobs \in Nat \ {0}
    /\ MaxSwipes \in Nat
    /\ MaxOccur \in Nat
    /\ MaxRequests \in Nat
    /\ MaxFaults \in Nat
    /\ LateReplies \in BOOLEAN

VARIABLES
    \* the controllers and the line
    fifo,      \* fifo[n]: events held by controller n, oldest first
    air,       \* replies sent and not yet received
    rx,        \* replies in the receive buffer of the serial port
    \* the worker thread
    pc,        \* where the worker stands
    cur,       \* the event in hand: [node, frame, job]; job 0 is background polling
    left,      \* events the manual batch may still ask for
    todo,      \* nodes the current sweep has still to poll
    \* manual jobs, shared with the web threads under attendance_read_mu_
    queue,     \* pending jobs, [id, node]
    jobs,      \* job table
    nextId,    \* next_attendance_read_id_
    \* durable storage
    journal,   \* <<n, f>>: a row for frame f of controller n exists
    \* history and bounds
    owed,      \* owed[id]: events the controller held when job id was started
    occurred,  \* number of events so far
    faults     \* number of faults so far

lineVars   == <<air, rx>>
jobVars    == <<queue, jobs, nextId>>
boundVars  == <<occurred, faults>>
vars == <<fifo, air, rx, pc, cur, left, todo, queue, jobs, nextId,
          journal, owed, occurred, faults>>

JobId == 1 .. MaxRequests

\* A reply as the controller builds it: its oldest event, a short reply
\* (no event, or the acknowledgement of a deletion) or a NACK.
Reply ==
    [kind : {"event"}, node : Node, frame : Frame]
      \union [kind : {"short", "nack"}, node : Node, frame : {None}]

Job ==
    [node : Node \union {None},
     state : {"absent", "queued", "running", "completed"},
     status : {"none", "communication_error", "fifo_empty",
               "storage_error", "delete_error"}]

AbsentJob == [node |-> None, state |-> "absent", status |-> "none"]
NoEvent == [node |-> None, frame |-> None, job |-> 0]

\* Types, by the part of the system they describe.
LineType ==
    /\ fifo \in [Node -> Seq(Frame)]
    /\ air \in Seq(Reply)
    /\ rx \in Seq(Reply)

WorkerType ==
    /\ pc \in {"sweep", "ask", "await25", "store", "remove", "await37"}
    /\ cur \in [node : Node \union {None}, frame : Frame \union {None},
                job : 0 .. MaxRequests]
    /\ pc # "sweep" => cur.node \in Node
    /\ pc \in {"store", "remove", "await37"} => cur.frame \in Frame
    /\ left \in Nat
    /\ todo \in SUBSET Node

JobType ==
    /\ queue \in Seq([id : JobId, node : Node])
    /\ jobs \in [JobId -> Job]
    /\ nextId \in Nat \ {0}
    /\ owed \in [JobId -> SUBSET Frame]
    /\ cur.job # 0 => queue # <<>> /\ Head(queue).id = cur.job

DurableType ==
    /\ journal \in SUBSET (Node \X Frame)
    /\ occurred \in 0 .. MaxOccur
    /\ faults \in 0 .. MaxFaults

\* The type invariant; a manual job in hand is the front of the queue.
TypeOK == LineType /\ WorkerType /\ JobType /\ DurableType

Init ==
    /\ fifo = [n \in Node |-> <<>>]
    /\ air = <<>>
    /\ rx = <<>>
    /\ pc = "sweep"
    /\ cur = NoEvent
    /\ left = 0
    /\ todo = {}
    /\ queue = <<>>
    /\ jobs = [i \in JobId |-> AbsentJob]
    /\ nextId = 1
    /\ journal = {}
    /\ owed = [i \in JobId |-> {}]
    /\ occurred = 0
    /\ faults = 0

-----------------------------------------------------------------------------
\* Controllers and line (outside the program).

\* A card is presented to controller n.
Swipe(n, f) ==
    /\ occurred < MaxOccur
    /\ Len(fifo[n]) < MaxSwipes
    /\ fifo' = [fifo EXCEPT ![n] = Append(@, f)]
    /\ occurred' = occurred + 1
    /\ UNCHANGED <<lineVars, pc, cur, left, todo, jobVars, journal, owed, faults>>

\* The oldest reply in flight reaches the receive buffer.
Deliver ==
    /\ air # <<>>
    /\ rx' = Append(rx, Head(air))
    /\ air' = Tail(air)
    /\ UNCHANGED <<fifo, pc, cur, left, todo, jobVars, journal, owed, boundVars>>

Fault ==
    /\ faults < MaxFaults
    /\ faults' = faults + 1

\* A reply is lost, or so damaged that validFrame drops it.
LoseReply ==
    /\ Fault
    /\ air # <<>>
    /\ air' = Tail(air)
    /\ UNCHANGED <<fifo, rx, pc, cur, left, todo, jobVars, journal, owed, occurred>>

OldestReply(n) ==
    IF fifo[n] = <<>>
    THEN [kind |-> "short", node |-> n, frame |-> None]
    ELSE [kind |-> "event", node |-> n, frame |-> Head(fifo[n])]

-----------------------------------------------------------------------------
\* Manual jobs.

Running(id) == jobs[id].state # "absent"

\* queueAttendanceRead: a web request; the oldest job is dropped from the
\* table once it holds more than MaxJobs, whatever its state.
QueueAttendanceRead(n) ==
    /\ nextId \in JobId
    /\ queue' = Append(queue, [id |-> nextId, node |-> n])
    /\ jobs' = [i \in JobId |->
                  CASE i = nextId -> [node |-> n, state |-> "queued", status |-> "none"]
                    [] i + MaxJobs <= nextId -> AbsentJob
                    [] OTHER -> jobs[i]]
    /\ nextId' = nextId + 1
    /\ UNCHANGED <<fifo, lineVars, pc, cur, left, todo, journal, owed, boundVars>>

\* The job's entry after it ended with this status; a dropped job has none.
JobsAfter(id, status) ==
    IF id \in JobId /\ Running(id)
    THEN [jobs EXCEPT ![id].state = "completed", ![id].status = status]
    ELSE jobs

\* The worker's round for cur.node is over.  After a manual batch all nodes
\* but that one are polled.
EndRound ==
    /\ pc' = "sweep"
    /\ cur' = NoEvent
    /\ left' = 0
    /\ todo' = IF cur.job = 0 THEN todo ELSE Node \ {cur.node}

\* Faulty variant of EndJob: the finished job stays at the front of the queue.
EndJobKeepsFront(status) ==
    /\ EndRound
    /\ IF cur.job = 0 THEN UNCHANGED jobs ELSE jobs' = JobsAfter(cur.job, status)
    /\ UNCHANGED <<queue, nextId>>

\* The round ends and, in a manual job, so does the job.
EndJob(status) ==
    /\ EndRound
    /\ IF cur.job = 0
       THEN UNCHANGED <<queue, jobs>>
       ELSE /\ queue' = Tail(queue)
            /\ jobs' = JobsAfter(cur.job, status)
    /\ UNCHANGED nextId

\* After one event: a manual batch goes on to the next one while it may.
NextEvent ==
    IF left > 0
    THEN /\ pc' = "ask"
         /\ cur' = [cur EXCEPT !.frame = None]
         /\ UNCHANGED <<left, todo>>
    ELSE EndRound

\* An event could not be stored or deleted.  The error ends a manual job only
\* if the job is still in the table; otherwise the batch goes on.
EventFailed(status) ==
    IF cur.job = 0 \/ Running(cur.job)
    THEN EndJob(status)
    ELSE NextEvent /\ UNCHANGED jobVars

-----------------------------------------------------------------------------
\* The worker.

\* Top of the loop with a manual job pending: one batch of it.
BeginBatch ==
    /\ pc = "sweep" /\ todo = {} /\ queue # <<>>
    /\ LET j == Head(queue) IN
         /\ cur' = [node |-> j.node, frame |-> None, job |-> j.id]
         /\ jobs' = IF Running(j.id) THEN [jobs EXCEPT ![j.id].state = "running"]
                                     ELSE jobs
         /\ owed' = IF jobs[j.id].state = "queued"
                    THEN [owed EXCEPT ![j.id] = ToSet(fifo[j.node])]
                    ELSE owed
    /\ left' = BatchSize
    /\ pc' = "ask"
    /\ UNCHANGED <<fifo, lineVars, todo, queue, nextId, journal, boundVars>>

\* Top of the loop without one: poll every enabled node.
BeginSweep ==
    /\ pc = "sweep" /\ todo = {} /\ queue = <<>>
    /\ todo' = Node
    /\ UNCHANGED <<fifo, lineVars, pc, cur, left, jobVars, journal, owed, boundVars>>

PollNode(n) ==
    /\ pc = "sweep" /\ n \in todo
    /\ todo' = todo \ {n}
    /\ cur' = [node |-> n, frame |-> None, job |-> 0]
    /\ pc' = "ask"
    /\ UNCHANGED <<fifo, lineVars, left, jobVars, journal, owed, boundVars>>

\* Faulty variant of AskOldest: the batch counter runs below zero.
AskOldestNoFloor ==
    /\ pc = "ask"
    /\ pc' = "await25"
    /\ left' = left - 1
    /\ air' = Append(air, OldestReply(cur.node))
    /\ UNCHANGED <<fifo, rx, cur, todo, jobVars, journal, owed, boundVars>>

\* getOldestEvent: 25H is written and the controller answers it, or the
\* request is lost on the line.
AskOldest ==
    /\ pc = "ask"
    /\ pc' = "await25"
    /\ left' = IF left > 0 THEN left - 1 ELSE 0
    /\ \/ /\ air' = Append(air, OldestReply(cur.node))
          /\ UNCHANGED faults
       \/ Fault /\ UNCHANGED air
    /\ UNCHANGED <<fifo, rx, cur, todo, jobVars, journal, owed, occurred>>

\* transact gives up waiting.
TimedOut ==
    /\ rx = <<>>
    /\ air = <<>> \/ LateReplies

\* transact returns the oldest valid frame received: nothing ties it to the
\* request, and the node of the event is the node that was asked.
OldestAnswered ==
    /\ pc = "await25" /\ rx # <<>>
    /\ rx' = Tail(rx)
    /\ IF Head(rx).kind = "event"
       THEN /\ pc' = "store"
            /\ cur' = [cur EXCEPT !.frame = Head(rx).frame]
            /\ UNCHANGED <<left, todo, jobVars>>
       ELSE EndJob("fifo_empty")
    /\ UNCHANGED <<fifo, air, journal, owed, boundVars>>

\* Faulty variant of OldestTimedOut: silence is taken for an empty FIFO.
SilenceIsEmpty ==
    /\ pc = "await25" /\ TimedOut
    /\ EndJob("fifo_empty")
    /\ UNCHANGED <<fifo, lineVars, journal, owed, boundVars>>

\* No answer to 25H.
OldestTimedOut ==
    /\ pc = "await25" /\ TimedOut
    /\ EndJob("communication_error")
    /\ UNCHANGED <<fifo, lineVars, journal, owed, boundVars>>

\* Faulty variant of StoreEvent: an event that has a row already is not deleted.
StoreOnlyNew ==
    /\ pc = "store"
    /\ journal' = journal \union {<<cur.node, cur.frame>>}
    /\ IF <<cur.node, cur.frame>> \in journal
       THEN EventFailed("storage_error")
       ELSE pc' = "remove" /\ UNCHANGED <<cur, left, todo, jobVars>>
    /\ UNCHANGED <<fifo, lineVars, owed, boundVars>>

\* The event has a row already, or gets one now: 37H may follow.
StoreEvent ==
    /\ pc = "store"
    /\ journal' = journal \union {<<cur.node, cur.frame>>}
    /\ pc' = "remove"
    /\ UNCHANGED <<fifo, lineVars, cur, left, todo, jobVars, owed, boundVars>>

\* Faulty variant of StoreFails: the result of appendEvent is ignored.
StoreFailureIgnored ==
    /\ pc = "store"
    /\ <<cur.node, cur.frame>> \notin journal
    /\ Fault
    /\ pc' = "remove"
    /\ UNCHANGED <<fifo, lineVars, cur, left, todo, jobVars, journal, owed, occurred>>

\* The row is not there and the insert fails: no 37H.
StoreFails ==
    /\ pc = "store"
    /\ <<cur.node, cur.frame>> \notin journal
    /\ Fault
    /\ EventFailed("storage_error")
    /\ UNCHANGED <<fifo, lineVars, journal, owed, occurred>>

\* removeOldestEvent: 37H deletes whatever the controller holds as oldest; the
\* request may be lost.
SendRemove ==
    /\ pc = "remove"
    /\ pc' = "await37"
    /\ \/ /\ fifo' = [fifo EXCEPT ![cur.node] = IF @ = <<>> THEN @ ELSE Tail(@)]
          /\ \E k \in {"short", "nack"} :
               /\ k = "nack" => fifo[cur.node] = <<>>
               /\ air' = Append(air, [kind |-> k, node |-> cur.node, frame |-> None])
          /\ UNCHANGED faults
       \/ Fault /\ UNCHANGED <<fifo, air>>
    /\ UNCHANGED <<rx, cur, left, todo, jobVars, journal, owed, occurred>>

\* Any valid frame but a NACK counts as the confirmation.
RemoveAnswered ==
    /\ pc = "await37" /\ rx # <<>>
    /\ rx' = Tail(rx)
    /\ IF Head(rx).kind = "nack"
       THEN EventFailed("delete_error")
       ELSE NextEvent /\ UNCHANGED jobVars
    /\ UNCHANGED <<fifo, air, journal, owed, boundVars>>

\* Faulty variant of RemoveTimedOut: 37H is repeated until it is confirmed.
RemoveRetried ==
    /\ pc = "await37" /\ TimedOut
    /\ pc' = "remove"
    /\ UNCHANGED <<fifo, lineVars, cur, left, todo, jobVars, journal, owed, boundVars>>

\* No answer to 37H: it is not repeated, the event will be read again.
RemoveTimedOut ==
    /\ pc = "await37" /\ TimedOut
    /\ EventFailed("delete_error")
    /\ UNCHANGED <<fifo, lineVars, journal, owed, boundVars>>

\* The server dies and is started again.  Jobs and the worker are lost; the
\* port is flushed when it is opened, long after any reply still in flight.
Restart ==
    /\ Fault
    /\ air' = <<>> /\ rx' = <<>>
    /\ pc' = "sweep" /\ cur' = NoEvent /\ left' = 0 /\ todo' = {}
    /\ queue' = <<>> /\ jobs' = [i \in JobId |-> AbsentJob] /\ nextId' = 1
    /\ owed' = [i \in JobId |-> {}]
    /\ UNCHANGED <<fifo, journal, occurred>>

Worker ==
    \/ BeginBatch
    \/ BeginSweep
    \/ \E n \in Node : PollNode(n)
    \/ AskOldest
    \/ OldestAnswered
    \/ OldestTimedOut
    \/ StoreEvent
    \/ StoreFails
    \/ SendRemove
    \/ RemoveAnswered
    \/ RemoveTimedOut

Next ==
    \/ Worker
    \/ \E n \in Node, f \in Frame : Swipe(n, f)
    \/ Deliver
    \/ LoseReply
    \/ \E n \in Node : QueueAttendanceRead(n)
    \/ Restart

Spec == Init /\ [][Next]_vars

\* The worker thread keeps running and the line keeps carrying replies.
Fairness == WF_vars(Worker) /\ WF_vars(Deliver)

FairSpec == Spec /\ Fairness

-----------------------------------------------------------------------------
\* Properties.

\* Reply r is the answer of the node that was asked; an event in the answer to
\* 25H is still the oldest event that controller holds.
Genuine(r) ==
    /\ r.node = cur.node
    /\ pc = "await25" /\ r.kind = "event" =>
         fifo[cur.node] # <<>> /\ Head(fifo[cur.node]) = r.frame

\* While replies are never late, the worker and the controller agree on what is
\* being talked about: at most one reply is outstanding, it answers the pending
\* request, and an event in hand is the one that controller holds as its
\* oldest, stored already when 37H is about to be sent.
\* (getOldestEvent, handleControllerEvent, removeOldestEvent)
HeadInHand ==
    ~LateReplies =>
      /\ air = <<>> \/ rx = <<>>
      /\ \A line \in {air, rx} : line # <<>> =>
           pc \in {"await25", "await37"} /\ Tail(line) = <<>> /\ Genuine(Head(line))
      /\ pc \in {"store", "remove"} =>
           fifo[cur.node] # <<>> /\ Head(fifo[cur.node]) = cur.frame
      /\ pc = "remove" => <<cur.node, cur.frame>> \in journal

\* "FIFO events are removed by 37H only after durable local storage succeeds":
\* no controller ever forgets an event without a journal row of its own.
DeletedOnlyIfStored ==
    [][\A n \in Node : Len(fifo'[n]) < Len(fifo[n])
                          => <<n, Head(fifo[n])>> \in journal]_vars

\* A manual read that reports "FIFO read completely" (fifo_empty) has journalled
\* everything the controller held when the job was started.
\* (processAttendanceReadBatch)
ReadJobComplete ==
    \A i \in JobId : jobs[i].status = "fifo_empty" =>
        \A f \in owed[i] : <<jobs[i].node, f>> \in journal

\* A finished manual job leaves the queue, and a job is finished only by the
\* worker's own verdict: the queue holds each job at most once, in order, and a
\* job still in the table is in the queue exactly while it is unfinished.
QueueMatchesTable ==
    /\ \A a, b \in DOMAIN queue : a < b => queue[a].id < queue[b].id
    /\ \A i \in JobId : Running(i) =>
         (jobs[i].state # "completed" <=> \E a \in DOMAIN queue : queue[a].id = i)

\* Every event a controller holds gets its journal row in the end.
EveryEventJournalled ==
    \A n \in Node, f \in Frame :
        (f \in ToSet(fifo[n])) ~> (<<n, f>> \in journal)

\* Collection implements the ledger.
Ledger == INSTANCE EventLedger
LedgerSpec == Ledger!Spec
=============================================================================
