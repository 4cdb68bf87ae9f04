------------------------- MODULE ControllersProofs -------------------------
(***************************************************************************)
(* Proofs about Controllers: type correctness, that storage holds the list *)
(* once every save has ended, and that an action reaches the devices it    *)
(* was asked for, for any number of controllers, node IDs, requests and    *)
(* restarts.                                                               *)
(***************************************************************************)
EXTENDS Controllers, TLAPS, SequenceTheorems

-----------------------------------------------------------------------------
\* Type correctness.

LEMMA ConstantTypes ==
  /\ Id \subseteq Nat /\ InitPhys \in [Device -> Id]
  /\ Disabled \subseteq InitList /\ InitList \subseteq Id
  /\ Broadcast \notin Id /\ Scan \subseteq Id \union {Broadcast}
  /\ None \notin Name /\ None \notin Entry /\ None \notin Id
  /\ None \notin Request /\ None \notin Saving
  /\ MaxRequests \in Nat /\ MaxRenames \in Nat /\ MaxRefresh \in Nat
  /\ MaxEvents \in Nat /\ MaxRestarts \in Nat
<1>1. {MaxRequests, MaxRenames, MaxRefresh, MaxEvents, MaxRestarts} \subseteq Nat
  BY ControllersAssumption
<1>2. /\ MaxRequests \in Nat /\ MaxRenames \in Nat /\ MaxRefresh \in Nat
      /\ MaxEvents \in Nat /\ MaxRestarts \in Nat
  BY <1>1
<1>3. QED
  BY ControllersAssumption, <1>2

LEMMA OtherThread ==
  /\ "web" \in Thread /\ "worker" \in Thread
  /\ Other("web") = "worker" /\ Other("worker") = "web"
  /\ \A t \in Thread : Other(t) \in Thread /\ Other(t) # t
  /\ \A t, o \in Thread : o # t => o = Other(t)
<1>1. \A t \in Thread : \E o \in Thread : o # t
  BY DEF Thread
<1>2. \A t \in Thread : Other(t) \in Thread /\ Other(t) # t
  BY <1>1 DEF Other
<1>3. QED
  BY <1>2 DEF Thread

\* The entry of a node as it is stored.
LEMMA RowType ==
  ASSUME NEW l \in [Id -> Entry \union {None}]
  PROVE  /\ Row(l) \in Stored
         /\ \A n \in Id : (Row(l)[n] = None) <=> (l[n] = None)
<1>1. \A n \in Id : l[n] # None => l[n].name \in Name
  BY DEF Entry
<1>2. QED
  BY <1>1, ConstantTypes DEF Row, Stored

\* A save that begins meets the other one, if there is one on its way.
LEMMA SnapshotEffect ==
  ASSUME StorageType, NEW t \in Thread, NEW l \in [Id -> Entry \union {None}],
         ChangeAndSnapshot(t, l)
  PROVE  /\ list' = l
         /\ save' \in [Thread -> Saving \union {None}]
         /\ save'[t] \in Saving /\ save'[t] # None /\ save'[t].snap = Row(l)
         /\ save'[t].alone => save[Other(t)] = None
         /\ save[Other(t)] = None => save'[Other(t)] = None
         /\ save[Other(t)] # None =>
              /\ save'[Other(t)] # None /\ save'[Other(t)].snap = save[Other(t)].snap
              /\ save'[Other(t)].alone = FALSE
<1> DEFINE o == Other(t)
           met == save[o] # None
           new == [snap |-> Row(l), alone |-> ~met]
           old == IF met THEN [save[o] EXCEPT !.alone = FALSE] ELSE save[o]
<1>1. o \in Thread /\ o # t
  BY OtherThread
<1>2. save' = [save EXCEPT ![t] = new, ![o] = old] /\ list' = l
  BY DEF ChangeAndSnapshot
<1>3. save \in [Thread -> Saving \union {None}]
  BY DEF StorageType
<1>4. save'[t] = new /\ save'[o] = old
  BY <1>1, <1>2, <1>3
<1>5. new \in Saving /\ new # None /\ new.snap = Row(l) /\ (new.alone => save[o] = None)
  <2>1. \A r \in Stored, b \in BOOLEAN :
          [snap |-> r, alone |-> b] \in Saving
    BY DEF Saving
  <2>2. Row(l) \in Stored /\ (~met) \in BOOLEAN
    BY RowType
  <2>3. new \in Saving
    BY <2>1, <2>2
  <2>4. new.snap = Row(l) /\ (new.alone => ~met)
    OBVIOUS
  <2>5. QED
    BY <2>3, <2>4, ConstantTypes
<1>6. met => /\ old \in Saving /\ old # None /\ old.snap = save[o].snap
             /\ old.alone = FALSE
  BY <1>1, <1>3, ConstantTypes DEF Saving
<1>7. ~met => old = None
  OBVIOUS
<1>8. save' \in [Thread -> Saving \union {None}]
  BY <1>2, <1>3, <1>5, <1>6, <1>7
<1>9. QED
  BY <1>2, <1>4, <1>5, <1>6, <1>7, <1>8

LEMMA WriteEffect ==
  ASSUME StorageType, NEW t \in Thread, NEW ok \in BOOLEAN, Write(t, ok)
  PROVE  /\ save' \in [Thread -> Saving \union {None}]
         /\ save'[t] = None /\ save'[Other(t)] = save[Other(t)]
         /\ stored' \in Stored /\ stored' \in {stored, save[t].snap}
         /\ save[t] \in Saving
<1>1. save[t] \in Saving
  BY DEF Write, StorageType
<1>2. save[t].snap \in Stored
  BY <1>1 DEF Saving
<1>3. stored' \in {stored, save[t].snap}
  BY DEF Write
<1>4. save' = [save EXCEPT ![t] = None]
  BY DEF Write
<1>5. QED
  BY <1>1, <1>2, <1>3, <1>4, OtherThread DEF StorageType

\* Actions waiting in the queue.
LEMMA HeadPending ==
  ASSUME queue \in Seq(Pending), queue # <<>>
  PROVE  /\ Head(queue) \in Pending /\ Tail(queue) \in Seq(Pending)
         /\ Len(queue) \in Nat /\ Len(Tail(queue)) = Len(queue) - 1 /\ 1 \in 1 .. Len(queue)
         /\ Head(queue) = queue[1]
         /\ \A k \in 1 .. Len(Tail(queue)) :
              Tail(queue)[k] = queue[k + 1] /\ k + 1 \in 1 .. Len(queue)
BY HeadTailProperties, LenProperties, EmptySeq

LEMMA OvertakenType ==
  ASSUME NEW waiting \in Seq(Pending), NEW a
  PROVE  /\ Overtaken(waiting, a) \in Seq(Pending)
         /\ Len(Overtaken(waiting, a)) = Len(waiting)
         /\ \A k \in 1 .. Len(waiting) :
              /\ Overtaken(waiting, a)[k].node = waiting[k].node
              /\ Overtaken(waiting, a)[k].chosen = waiting[k].chosen
              /\ ~Overtaken(waiting, a)[k].stale =>
                   ~waiting[k].stale /\ (waiting[k].node = a.node => a.new = a.node)
<1>1. \A k \in 1 .. Len(waiting) : waiting[k] \in Pending
  BY ElementOfSeq
<1>2. \A p \in Pending : /\ [p EXCEPT !.stale = TRUE] \in Pending
                         /\ [p EXCEPT !.stale = TRUE].node = p.node
                         /\ [p EXCEPT !.stale = TRUE].chosen = p.chosen
                         /\ [p EXCEPT !.stale = TRUE].stale = TRUE
  BY DEF Pending
<1>3. PICK n \in Nat : n = Len(waiting)
  BY LenProperties
<1>4. \A k \in 1 .. n : Overtaken(waiting, a)[k] \in Pending
  BY <1>1, <1>2, <1>3 DEF Overtaken
<1>5. Overtaken(waiting, a) = [k \in 1 .. n |-> Overtaken(waiting, a)[k]]
  BY <1>3 DEF Overtaken
<1>6. Overtaken(waiting, a) \in Seq(Pending) /\ Len(Overtaken(waiting, a)) = n
  BY <1>4, <1>5
<1>7. QED
  BY <1>1, <1>2, <1>3, <1>6 DEF Overtaken

\* What a renumbering may do to the bus.
LEMMA SetNodeIdEffect ==
  ASSUME BusType, NEW a \in Pending, NEW out \in SetNodeId(a)
  PROVE  /\ out.phys \in [Device -> Id] /\ out.result \in {"refused", "failed", "ok"}
         /\ \A d \in Device : out.phys[d] # phys[d] =>
              phys[d] = a.node /\ out.phys[d] = a.new /\ a.new # a.node
         /\ out.result = "refused" => out.phys = phys
         /\ out.result = "ok" => \E d \in Device : out.phys[d] = a.new
<1> DEFINE moved == [d \in Device |-> IF d \in Hear(a.node) THEN a.new ELSE phys[d]]
<1>1. a.node \in Id /\ a.new \in Id
  BY DEF Pending
<1>2. Hear(a.node) \subseteq Device /\ \A d \in Hear(a.node) : phys[d] = a.node
  BY <1>1, ConstantTypes DEF Hear, BusType
<1>3. /\ moved \in [Device -> Id]
      /\ \A d \in Device : moved[d] # phys[d] =>
           phys[d] = a.node /\ moved[d] = a.new /\ a.new # a.node
      /\ \A d \in Hear(a.node) : d \in Device /\ moved[d] = a.new
  BY <1>1, <1>2 DEF BusType
<1>4. phys \in [Device -> Id]
  BY DEF BusType
<1>5. \/ out = [phys |-> phys, result |-> "refused"]
      \/ /\ Hear(a.node) # {} /\ a.node = a.new
         /\ out = [phys |-> phys, result |-> "ok"]
      \/ /\ Hear(a.node) # {}
         /\ out \in {[phys |-> phys, result |-> "failed"],
                     [phys |-> moved, result |-> "failed"],
                     [phys |-> moved, result |-> "ok"]}
  BY DEF SetNodeId
<1> HIDE DEF moved
<1>6. CASE out = [phys |-> phys, result |-> "refused"]
  BY <1>4, <1>6
<1>7. CASE /\ Hear(a.node) # {} /\ a.node = a.new
           /\ out = [phys |-> phys, result |-> "ok"]
  BY <1>2, <1>4, <1>7
<1>8. CASE /\ Hear(a.node) # {}
           /\ out \in {[phys |-> phys, result |-> "failed"],
                       [phys |-> moved, result |-> "failed"],
                       [phys |-> moved, result |-> "ok"]}
  BY <1>3, <1>4, <1>8
<1>9. QED
  BY <1>5, <1>6, <1>7, <1>8

\* The two ends of ChangeNodeId: the list renumbered, or all but the bus left alone.
Renumbers(a) ==
  /\ result' = "ok" /\ phase' = "save"
  /\ \E d \in Device : phys'[d] = a.new
  /\ ChangeAndSnapshot("worker", Renumbered(list, a.node, a.new))
  /\ Restale
  /\ queue' = Overtaken(Tail(queue), a)

LeavesList ==
  /\ result' \in {"refused", "failed"} /\ phase' = "done"
  /\ queue' = Tail(queue)
  /\ UNCHANGED <<list, save, web>>

LEMMA ChangeNodeIdEffect ==
  ASSUME TypeOK, ChangeNodeId
  PROVE  /\ queue # <<>> /\ Head(queue) \in Pending /\ cur' = Head(queue)
         /\ phys' \in [Device -> Id]
         /\ \A d \in Device : phys'[d] # phys[d] =>
              /\ phys[d] = Head(queue).node /\ phys'[d] = Head(queue).new
              /\ ~Conflict(Head(queue)) /\ Head(queue).new # Head(queue).node
         /\ result' = "refused" => phys' = phys
         /\ (Renumbers(Head(queue)) /\ ~Conflict(Head(queue))) \/ LeavesList
<1>1. queue # <<>> /\ cur' = Head(queue)
  BY DEF ChangeNodeId
<1>2. PICK a : a = Head(queue)
  OBVIOUS
<1>3. a \in Pending
  BY <1>1, <1>2, HeadPending DEF TypeOK, RequestType
<1>4. PICK out \in (IF Conflict(a) THEN {[phys |-> phys, result |-> "refused"]}
                                   ELSE SetNodeId(a)) :
        /\ phys' = out.phys
        /\ result' = out.result
        /\ IF out.result = "ok"
           THEN /\ ChangeAndSnapshot("worker", Renumbered(list, a.node, a.new))
                /\ Restale
                /\ queue' = Overtaken(Tail(queue), a)
                /\ phase' = "save"
           ELSE /\ phase' = "done"
                /\ queue' = Tail(queue)
                /\ UNCHANGED <<list, save, web>>
  BY <1>2 DEF ChangeNodeId
<1>5. CASE Conflict(a)
  <2>1. out = [phys |-> phys, result |-> "refused"]
    BY <1>4, <1>5
  <2>2. phys' = phys /\ result' = "refused"
    BY <1>4, <2>1
  <2>3. QED
    BY <1>1, <1>2, <1>3, <1>4, <2>1, <2>2 DEF TypeOK, BusType, LeavesList
<1>6. CASE ~Conflict(a)
  <2>1. out \in SetNodeId(a)
    BY <1>4, <1>6
  <2>2. /\ out.phys \in [Device -> Id] /\ out.result \in {"refused", "failed", "ok"}
        /\ \A d \in Device : out.phys[d] # phys[d] =>
             phys[d] = a.node /\ out.phys[d] = a.new /\ a.new # a.node
        /\ out.result = "refused" => out.phys = phys
        /\ out.result = "ok" => \E d \in Device : out.phys[d] = a.new
    BY <1>3, <2>1, SetNodeIdEffect DEF TypeOK
  <2>3. out.result = "ok" => Renumbers(a)
    BY <1>4, <2>2 DEF Renumbers
  <2>4. out.result # "ok" => LeavesList
    BY <1>4, <2>2 DEF LeavesList
  <2>5. QED
    BY <1>1, <1>2, <1>3, <1>4, <1>6, <2>2, <2>3, <2>4
<1>7. QED
  BY <1>5, <1>6

\* An entry that moves to a number nobody else has.
LEMMA RenumberedType ==
  ASSUME ListType, NEW a \in Pending, ~Conflict(a)
  PROVE  /\ Renumbered(list, a.node, a.new) \in [Id -> Entry \union {None}]
         /\ \A n \in Id : n # a.node =>
              (list[n] # None => Renumbered(list, a.node, a.new)[n] # None)
         /\ \A n \in Id : a.new = a.node =>
              (list[n] # None => Renumbered(list, a.node, a.new)[n] # None)
         /\ list[a.node] # None =>
              /\ Renumbered(list, a.node, a.new)[a.new] # None
              /\ a.node = a.new \/ Renumbered(list, a.node, a.new)[a.node] = None
<1>1. a.node \in Id /\ a.new \in Id /\ list \in [Id -> Entry \union {None}]
  BY DEF Pending, ListType
<1>2. CASE list[a.node] = None
  BY <1>1, <1>2 DEF Renumbered
<1>3. CASE list[a.node] # None
  <2>1. [list[a.node] EXCEPT !.online = TRUE] \in Entry
    BY <1>1, <1>3 DEF Entry
  <2>2. PICK e \in Entry : e = [list[a.node] EXCEPT !.online = TRUE]
    BY <2>1
  <2>3. Renumbered(list, a.node, a.new)
          = [n \in Id |-> IF n = a.new THEN e ELSE IF n = a.node THEN None ELSE list[n]]
    BY <1>3, <2>2 DEF Renumbered
  <2>4. e # None
    BY ConstantTypes
  <2>5. QED
    BY <1>1, <1>3, <2>3, <2>4
<1>4. QED
  BY <1>2, <1>3

\* The controllers disabled in the configuration stay listed, in storage too, for no
\* action is queued for one of them.
StoredKept ==
  /\ \A n \in Disabled : stored[n] # None
  /\ \A t \in Thread : save[t] # None => \A n \in Disabled : save[t].snap[n] # None

NodesEnabled ==
  /\ \A k \in 1 .. Len(queue) : queue[k].node \notin Disabled
  /\ web # None => web.node \notin Disabled

\* The nodes still to poll are listed: only actions and scans renumber the list.
PollsListed == phase = "poll" => todo \subseteq Listed

TypeInv == TypeOK /\ StoredKept /\ NodesEnabled /\ PollsListed

LEMMA TypeInit == Init => TypeInv
<1> SUFFICES ASSUME Init PROVE TypeInv
  OBVIOUS
<1> DEFINE entry == [name |-> "default", online |-> FALSE]
<1>1. entry \in Entry /\ entry # None
  <2>1. entry \in Entry
    BY DEF Entry, Name
  <2>2. QED
    BY <2>1, ConstantTypes
<1>2. list \in [Id -> Entry \union {None}] /\ \A n \in InitList : list[n] # None
  BY <1>1, ConstantTypes DEF Init
<1>3. ListType
  BY <1>2, ConstantTypes DEF ListType, Listed
<1>4. stored = Row(list) /\ stored \in Stored /\ \A n \in Disabled : stored[n] # None
  BY <1>2, RowType, ConstantTypes DEF Init
<1>5. queue \in Seq(Pending) /\ Len(queue) = 0
  BY EmptySeq DEF Init
<1>6. BusType
  BY ConstantTypes DEF Init, BusType
<1>7. RequestType
  BY <1>5 DEF Init, RequestType
<1>8. WorkerType
  BY DEF Init, WorkerType, Phase, Result, NoAction
<1>9. save = [t \in Thread |-> None] /\ phase = "closed"
  BY DEF Init
<1>10. StorageType
  BY <1>4, <1>9 DEF StorageType, Thread
<1>11. HistoryType
  <2>1. /\ missed = {} /\ overlap = FALSE
        /\ requests = 0 /\ renames = 0 /\ presses = 0 /\ events = 0 /\ restarts = 0
    BY DEF Init
  <2>2. \A max \in Nat : 0 \in 0 .. max
    OBVIOUS
  <2>3. QED
    BY <2>1, <2>2, ConstantTypes DEF HistoryType
<1>12. StoredKept
  BY <1>4, <1>9 DEF StoredKept
<1>13. NodesEnabled
  BY <1>5 DEF Init, NodesEnabled
<1>14. PollsListed
  BY DEF Init, PollsListed
<1>15. QED
  BY <1>3, <1>6, <1>7, <1>8, <1>10, <1>11, <1>12, <1>13, <1>14 DEF TypeInv, TypeOK

LEMMA ChangeNodeIdType == TypeInv /\ ChangeNodeId => TypeInv'
<1> SUFFICES ASSUME TypeInv, ChangeNodeId PROVE TypeInv'
  OBVIOUS
<1>1. /\ BusType /\ ListType /\ RequestType /\ WorkerType /\ StorageType /\ HistoryType
      /\ StoredKept /\ NodesEnabled /\ PollsListed
  BY DEF TypeInv, TypeOK
<1>2. PICK a \in Pending : a = Head(queue)
  BY ChangeNodeIdEffect DEF TypeInv
<1>3. /\ queue # <<>> /\ cur' = a /\ phys' \in [Device -> Id]
      /\ (Renumbers(a) /\ ~Conflict(a)) \/ LeavesList
  BY <1>2, ChangeNodeIdEffect DEF TypeInv
<1>4. UNCHANGED <<passAny, on, dead, refresh, todo, changed, stored, overlap, missed,
                  boundVars>> /\ phase = "action"
  BY DEF ChangeNodeId
<1>5. a.node \in Id /\ a.new \in Id /\ a.node \notin Disabled /\ a # NoAction
  BY <1>1, <1>2, <1>3, HeadPending DEF NodesEnabled, RequestType, Pending, NoAction
<1>6. /\ Tail(queue) \in Seq(Pending)
      /\ \A k \in 1 .. Len(Tail(queue)) : Tail(queue)[k].node \notin Disabled
  BY <1>1, <1>3, HeadPending DEF RequestType, NodesEnabled
<1>7. BusType'
  BY <1>1, <1>3, <1>4 DEF BusType
<1>8. HistoryType'
  BY <1>1, <1>4 DEF HistoryType, boundVars
<1>9. CASE Renumbers(a) /\ ~Conflict(a)
  <2> DEFINE l == Renumbered(list, a.node, a.new)
  <2>1. l \in [Id -> Entry \union {None}] /\ \A n \in Disabled : l[n] # None
    BY <1>1, <1>5, <1>9, RenumberedType, ConstantTypes DEF ListType, Listed
  <2>2. ChangeAndSnapshot("worker", l) /\ Restale /\ queue' = Overtaken(Tail(queue), a)
        /\ result' = "ok" /\ phase' = "save"
    BY <1>9 DEF Renumbers
  <2> HIDE DEF l
  <2>3. /\ list' = l /\ save' \in [Thread -> Saving \union {None}]
        /\ save'["worker"] # None /\ save'["worker"].snap = Row(l)
        /\ save["web"] = None => save'["web"] = None
        /\ save["web"] # None => save'["web"].snap = save["web"].snap
    BY <1>1, <2>1, <2>2, SnapshotEffect, OtherThread
  <2>4. ListType'
    BY <2>1, <2>3, ConstantTypes DEF ListType, Listed
  <2>5. web' \in Request \union {None} /\ (web' # None => web # None /\ web'.node = web.node)
    BY <1>1, <2>2 DEF Restale, RequestType, Request
  <2>6. queue' \in Seq(Pending) /\ \A k \in 1 .. Len(queue') : queue'[k].node \notin Disabled
    <3>1. PICK rest \in Seq(Pending) : rest = Tail(queue)
      BY <1>6
    <3>2. PICK q : q = Overtaken(rest, a)
      OBVIOUS
    <3>3. /\ q \in Seq(Pending) /\ Len(q) = Len(rest)
          /\ \A k \in 1 .. Len(rest) : q[k].node = rest[k].node
      BY <3>2, OvertakenType
    <3>4. queue' = q
      BY <2>2, <3>1, <3>2
    <3>5. \A k \in 1 .. Len(q) : q[k].node \notin Disabled
      BY <1>6, <3>1, <3>3
    <3>6. QED
      BY <3>3, <3>4, <3>5
  <2>7. RequestType'
    BY <1>1, <1>4, <2>5, <2>6 DEF RequestType
  <2>8. NodesEnabled'
    BY <1>1, <2>5, <2>6 DEF NodesEnabled
  <2>9. WorkerType'
    BY <1>1, <1>3, <1>4, <1>5, <2>2 DEF WorkerType, Phase, Result
  <2>10. StorageType'
    BY <1>1, <1>4, <2>2, <2>3 DEF StorageType
  <2>11. \A n \in Disabled : Row(l)[n] # None
    BY <2>1, RowType, ConstantTypes
  <2>12. StoredKept'
    BY <1>1, <1>4, <2>3, <2>11 DEF StoredKept, Thread
  <2>13. QED
    BY <1>7, <1>8, <2>2, <2>4, <2>7, <2>8, <2>9, <2>10, <2>12
    DEF TypeInv, TypeOK, PollsListed
<1>10. CASE LeavesList
  <2>1. /\ result' \in {"refused", "failed"} /\ phase' = "done" /\ queue' = Tail(queue)
        /\ UNCHANGED <<list, save, web>>
    BY <1>10 DEF LeavesList
  <2>2. ListType' /\ RequestType' /\ NodesEnabled' /\ StoredKept'
    BY <1>1, <1>4, <1>6, <2>1
    DEF ListType, Listed, RequestType, NodesEnabled, StoredKept
  <2>3. WorkerType'
    BY <1>1, <1>3, <1>4, <1>5, <2>1 DEF WorkerType, Phase, Result
  <2>4. StorageType'
    BY <1>1, <1>4, <2>1 DEF StorageType
  <2>5. QED
    BY <1>7, <1>8, <2>1, <2>2, <2>3, <2>4 DEF TypeInv, TypeOK, PollsListed
<1>11. QED
  BY <1>3, <1>9, <1>10

LEMMA WriteType ==
  ASSUME TypeInv, NEW t \in Thread, NEW ok \in BOOLEAN, Write(t, ok)
  PROVE  /\ BusType' /\ ListType' /\ HistoryType' /\ NodesEnabled' /\ StoredKept'
         /\ save' \in [Thread -> Saving \union {None}]
         /\ save'[t] = None /\ save'[Other(t)] = save[Other(t)]
         /\ stored' \in Stored
         /\ UNCHANGED <<list, queue, changed, web>>
<1>1. /\ BusType /\ ListType /\ RequestType /\ StorageType /\ HistoryType
      /\ StoredKept /\ NodesEnabled /\ PollsListed
  BY DEF TypeInv, TypeOK
<1>2. UNCHANGED <<phys, passAny, on, dead, list, queue, changed, web, missed, boundVars>>
      /\ overlap' \in BOOLEAN /\ save[t] # None
  BY DEF Write, bus
<1>3. /\ save' \in [Thread -> Saving \union {None}]
      /\ save'[t] = None /\ save'[Other(t)] = save[Other(t)]
      /\ stored' \in Stored /\ stored' \in {stored, save[t].snap}
  BY <1>1, WriteEffect
<1>4. \A n \in Disabled : stored'[n] # None
  BY <1>1, <1>2, <1>3 DEF StoredKept
<1>5. \A o \in Thread : save'[o] = None \/ save'[o] = save[o]
  BY <1>3, OtherThread
<1>6. StoredKept'
  BY <1>1, <1>4, <1>5 DEF StoredKept
<1>7. QED
  BY <1>1, <1>2, <1>3, <1>6
  DEF BusType, ListType, Listed, HistoryType, NodesEnabled, boundVars

LEMMA SaveType == TypeInv /\ (SaveName \/ SaveNodeId \/ SaveScan) => TypeInv'
<1> SUFFICES ASSUME TypeInv, SaveName \/ SaveNodeId \/ SaveScan PROVE TypeInv'
  OBVIOUS
<1>1. /\ ListType /\ RequestType /\ WorkerType /\ StorageType /\ PollsListed
  BY DEF TypeInv, TypeOK
<1>2. CASE SaveName
  <2>1. UNCHANGED <<refresh, phase, todo, cur, result>>
    BY <1>2 DEF SaveName
  <2>2. PICK ok \in BOOLEAN : Write("web", ok)
    BY <1>2 DEF SaveName
  <2>3. /\ BusType' /\ ListType' /\ HistoryType' /\ NodesEnabled' /\ StoredKept'
        /\ save' \in [Thread -> Saving \union {None}]
        /\ save'["worker"] = save["worker"]
        /\ stored' \in Stored
        /\ UNCHANGED <<list, queue, changed, web>>
    BY <2>2, WriteType, OtherThread
  <2>4. RequestType' /\ WorkerType' /\ StorageType'
    BY <1>1, <2>1, <2>3 DEF RequestType, WorkerType, StorageType
  <2>5. QED
    BY <1>1, <2>1, <2>3, <2>4 DEF TypeInv, TypeOK, PollsListed, Listed
<1>3. CASE SaveNodeId
  <2>1. /\ phase = "save" /\ phase' = "done" /\ UNCHANGED <<todo, cur>>
        /\ result' \in {"ok", "unsaved"} /\ refresh' \in BOOLEAN
    BY <1>1, <1>3 DEF SaveNodeId, RequestType
  <2>2. PICK ok \in BOOLEAN : Write("worker", ok)
    BY <1>3 DEF SaveNodeId
  <2>3. /\ BusType' /\ ListType' /\ HistoryType' /\ NodesEnabled' /\ StoredKept'
        /\ save' \in [Thread -> Saving \union {None}]
        /\ save'["worker"] = None
        /\ stored' \in Stored
        /\ UNCHANGED <<list, queue, changed, web>>
    BY <2>2, WriteType, OtherThread
  <2>4. RequestType' /\ WorkerType' /\ StorageType'
    BY <1>1, <2>1, <2>3 DEF RequestType, WorkerType, StorageType, Phase, Result
  <2>5. QED
    BY <1>1, <2>1, <2>3, <2>4 DEF TypeInv, TypeOK, PollsListed, Listed
<1>4. CASE SaveScan
  <2>1. /\ phase = "save_scan" /\ UNCHANGED <<refresh, cur, result>>
        /\ phase' \in {"action", "poll"} /\ todo' \subseteq Listed /\ todo' \subseteq Id
    BY <1>4 DEF SaveScan, BeginPoll, Enabled, Listed
  <2>2. PICK ok \in BOOLEAN : Write("worker", ok)
    BY <1>4 DEF SaveScan
  <2>3. /\ BusType' /\ ListType' /\ HistoryType' /\ NodesEnabled' /\ StoredKept'
        /\ save' \in [Thread -> Saving \union {None}]
        /\ save'["worker"] = None
        /\ stored' \in Stored
        /\ UNCHANGED <<list, queue, changed, web>>
    BY <2>2, WriteType, OtherThread
  <2>4. RequestType' /\ WorkerType' /\ StorageType'
    BY <1>1, <2>1, <2>3 DEF RequestType, WorkerType, StorageType, Phase
  <2>5. QED
    BY <1>1, <2>1, <2>3, <2>4 DEF TypeInv, TypeOK, PollsListed, Listed
<1>5. QED
  BY <1>2, <1>3, <1>4

LEMMA RenameType ==
  ASSUME TypeInv, NEW n \in Id, RenameController(n)
  PROVE  TypeInv'
<1>1. /\ BusType /\ ListType /\ RequestType /\ WorkerType /\ StorageType /\ HistoryType
      /\ StoredKept /\ NodesEnabled /\ PollsListed
  BY DEF TypeInv, TypeOK
<1>2. /\ list \in [Id -> Entry \union {None}] /\ list[n] # None
      /\ list[n] \in Entry
  BY <1>1 DEF RenameController, ListType, Listed
<1>3. [list[n] EXCEPT !.name = "given"] \in Entry
  BY <1>2 DEF Entry, Name
<1>4. PICK l : l = [list EXCEPT ![n].name = "given"]
  OBVIOUS
<1>5. l \in [Id -> Entry \union {None}] /\ \A m \in Id : list[m] # None => l[m] # None
  BY <1>2, <1>3, <1>4, ConstantTypes
<1>6. /\ ChangeAndSnapshot("web", l) /\ save["web"] = None
      /\ renames < MaxRenames /\ renames' = renames + 1
      /\ UNCHANGED <<phys, passAny, on, dead, refresh, queue, workerVars, web, stored,
                     overlap, missed, requests, presses, events, restarts>>
  BY <1>4 DEF RenameController, bus
<1>7. /\ list' = l /\ save' \in [Thread -> Saving \union {None}]
      /\ save'["web"].snap = Row(l)
      /\ save["worker"] = None => save'["worker"] = None
      /\ save["worker"] # None =>
           save'["worker"] # None /\ save'["worker"].snap = save["worker"].snap
  BY <1>1, <1>5, <1>6, SnapshotEffect, OtherThread
<1>8. BusType' /\ RequestType' /\ WorkerType' /\ NodesEnabled'
  BY <1>1, <1>6 DEF BusType, RequestType, WorkerType, NodesEnabled, workerVars
<1>9. ListType'
  BY <1>1, <1>5, <1>7, ConstantTypes DEF ListType, Listed
<1>10. StorageType'
  BY <1>1, <1>6, <1>7 DEF StorageType, workerVars
<1>11. HistoryType'
  BY <1>1, <1>6, ConstantTypes DEF HistoryType
<1>12. \A m \in Disabled : Row(l)[m] # None
  BY <1>1, <1>5, RowType, ConstantTypes DEF ListType, Listed
<1>13. StoredKept'
  BY <1>1, <1>6, <1>7, <1>12 DEF StoredKept, Thread
<1>14. PollsListed'
  BY <1>1, <1>5, <1>6, <1>7 DEF PollsListed, Listed, workerVars, TypeInv
<1>15. QED
  BY <1>8, <1>9, <1>10, <1>11, <1>13, <1>14 DEF TypeInv, TypeOK

LEMMA ProbeType ==
  ASSUME BusType, NEW a
  PROVE  Probe(a) \subseteq Id \union {None}
BY DEF Probe, Hear, BusType

LEMMA SeenType ==
  ASSUME ListType, NEW id \in Id
  PROVE  /\ Seen(list, id) \in [Id -> Entry \union {None}]
         /\ Seen(list, id)[id] # None
         /\ \A n \in Id : list[n] # None => Seen(list, id)[n] # None
         /\ list[id] # None => Row(Seen(list, id)) = Row(list)
<1>1. list \in [Id -> Entry \union {None}]
  BY DEF ListType
<1> DEFINE e == IF list[id] = None THEN [name |-> "default", online |-> TRUE]
                                   ELSE [list[id] EXCEPT !.online = TRUE]
<1>2. e \in Entry
  <2>1. CASE list[id] = None
    BY <2>1 DEF Entry, Name
  <2>2. CASE list[id] # None
    <3>1. list[id] \in Entry
      BY <1>1, <2>2
    <3>2. \A x \in Entry : [x EXCEPT !.online = TRUE] \in Entry
      BY DEF Entry
    <3>3. QED
      BY <2>2, <3>1, <3>2
  <2>3. QED
    BY <2>1, <2>2
<1>3. e # None
  BY <1>2, ConstantTypes
<1>4. list[id] # None => e.name = list[id].name
  BY <1>1 DEF Entry
<1>5. Seen(list, id) = [list EXCEPT ![id] = e]
  BY <1>1 DEF Seen
<1> HIDE DEF e
<1>6. QED
  BY <1>1, <1>2, <1>3, <1>4, <1>5 DEF Row

LEMMA ScanType == TypeInv /\ (ScanAddress \/ EndScan) => TypeInv'
<1> SUFFICES ASSUME TypeInv, ScanAddress \/ EndScan PROVE TypeInv'
  OBVIOUS
<1>1. /\ BusType /\ ListType /\ RequestType /\ WorkerType /\ StorageType /\ HistoryType
      /\ StoredKept /\ NodesEnabled /\ PollsListed
  BY DEF TypeInv, TypeOK
<1>2. CASE ScanAddress
  <2>0. PICK a \in todo :
          /\ phase = "scan" /\ todo' = todo \ {a}
          /\ \E id \in Probe(a) :
               /\ IF id = None
                  THEN /\ missed' = missed \union {d \in Device : phys[d] = a}
                       /\ UNCHANGED <<list, changed, web>>
                  ELSE /\ list' = Seen(list, id)
                       /\ changed' = TRUE
                       /\ missed' = missed
                       /\ IF list[id] = None THEN Restale ELSE UNCHANGED web
    BY <1>2 DEF ScanAddress
  <2>1. PICK id \in Probe(a) :
          /\ phase = "scan" /\ todo' = todo \ {a}
          /\ IF id = None
             THEN /\ missed' = missed \union {d \in Device : phys[d] = a}
                  /\ UNCHANGED <<list, changed, web>>
             ELSE /\ list' = Seen(list, id)
                  /\ changed' = TRUE
                  /\ missed' = missed
                  /\ IF list[id] = None THEN Restale ELSE UNCHANGED web
    BY <2>0
  <2>2. UNCHANGED <<phys, passAny, on, dead, refresh, queue, phase, cur, result, save,
                    stored, overlap, boundVars>>
    BY <1>2 DEF ScanAddress, bus, storageVars
  <2>3. id \in Id \union {None}
    BY <1>1, ProbeType
  <2>4. ListType'
    <3>1. CASE id = None
      BY <1>1, <2>1, <3>1 DEF ListType, Listed
    <3>2. CASE id # None
      BY <1>1, <2>1, <2>3, <3>2, SeenType, ConstantTypes DEF ListType, Listed
    <3>3. QED
      BY <3>1, <3>2
  <2>5. web' \in Request \union {None} /\ (web' # None => web # None /\ web'.node = web.node)
    <3>1. CASE web' = web
      BY <1>1, <3>1 DEF RequestType
    <3>2. CASE Restale
      BY <1>1, <3>2 DEF Restale, RequestType, Request
    <3>3. QED
      BY <2>1, <3>1, <3>2
  <2>6. missed' \subseteq Device /\ changed' \in BOOLEAN /\ todo' \subseteq todo
    BY <1>1, <2>1 DEF HistoryType, WorkerType
  <2>7. BusType' /\ StorageType' /\ StoredKept'
    BY <1>1, <2>2 DEF BusType, StorageType, StoredKept
  <2>8. RequestType' /\ NodesEnabled'
    BY <1>1, <2>2, <2>5 DEF RequestType, NodesEnabled
  <2>9. WorkerType'
    BY <1>1, <2>2, <2>6 DEF WorkerType
  <2>10. HistoryType'
    BY <1>1, <2>2, <2>6 DEF HistoryType, boundVars
  <2>11. QED
    BY <2>1, <2>2, <2>4, <2>7, <2>8, <2>9, <2>10 DEF TypeInv, TypeOK, PollsListed
<1>3. CASE EndScan
  <2>1. UNCHANGED <<phys, passAny, on, dead, refresh, queue, cur, result, web, stored,
                    overlap, boundVars>>
        /\ phase = "scan" /\ changed' = FALSE /\ missed' = {}
    BY <1>3 DEF EndScan, bus
  <2>2. CASE changed
    <3>1. /\ phase' = "save_scan" /\ ChangeAndSnapshot("worker", list) /\ UNCHANGED todo
      BY <1>3, <2>2 DEF EndScan
    <3>2. /\ list' = list /\ save' \in [Thread -> Saving \union {None}]
          /\ save'["worker"] # None /\ save'["worker"].snap = Row(list)
          /\ save["web"] = None => save'["web"] = None
          /\ save["web"] # None => save'["web"].snap = save["web"].snap
      BY <1>1, <3>1, SnapshotEffect, OtherThread DEF ListType
    <3>3. BusType' /\ ListType' /\ RequestType' /\ NodesEnabled'
      BY <1>1, <2>1, <3>2 DEF BusType, ListType, Listed, RequestType, NodesEnabled
    <3>4. WorkerType' /\ HistoryType'
      BY <1>1, <2>1, <3>1 DEF WorkerType, Phase, HistoryType, boundVars
    <3>5. StorageType'
      BY <1>1, <2>1, <3>1, <3>2 DEF StorageType
    <3>6. \A n \in Disabled : Row(list)[n] # None
      BY <1>1, RowType, ConstantTypes DEF ListType, Listed
    <3>7. StoredKept'
      BY <1>1, <2>1, <3>2, <3>6 DEF StoredKept, Thread
    <3>8. QED
      BY <3>1, <3>3, <3>4, <3>5, <3>7 DEF TypeInv, TypeOK, PollsListed
  <2>3. CASE ~changed
    <3>1. /\ UNCHANGED <<list, save>> /\ phase' \in {"action", "poll"}
          /\ todo' \subseteq Listed /\ todo' \subseteq Id
      BY <1>3, <2>3 DEF EndScan, BeginPoll, Enabled, Listed
    <3>2. BusType' /\ ListType' /\ RequestType' /\ NodesEnabled' /\ StoredKept'
      BY <1>1, <2>1, <3>1
      DEF BusType, ListType, Listed, RequestType, NodesEnabled, StoredKept
    <3>3. WorkerType' /\ HistoryType'
      BY <1>1, <2>1, <3>1 DEF WorkerType, Phase, HistoryType, boundVars
    <3>4. StorageType'
      BY <1>1, <2>1, <3>1 DEF StorageType
    <3>5. QED
      BY <3>1, <3>2, <3>3, <3>4 DEF TypeInv, TypeOK, PollsListed, Listed
  <2>4. QED
    BY <2>2, <2>3
<1>4. QED
  BY <1>2, <1>3

\* What a poll does to the entry of its node.
LEMMA PollEffect ==
  ASSUME TypeInv, NEW n \in Id, NEW due \in BOOLEAN, PollNode(n, due)
  PROVE  /\ list \in [Id -> Entry \union {None}] /\ list[n] # None
         /\ \E e \in Entry : /\ list' = [list EXCEPT ![n] = e]
                             /\ e.name = list[n].name /\ e # None
<1>1. ListType /\ PollsListed
  BY DEF TypeInv, TypeOK
<1>2. list[n] \in Entry /\ list[n] # None /\ list \in [Id -> Entry \union {None}]
  BY <1>1 DEF PollNode, PollsListed, ListType, Listed
<1>3. PICK id \in Probe(n), answered \in {FALSE} \union {TRUE : d \in Hear(n)} :
        list' = [list EXCEPT ![n].online = answered \/ (IF due THEN id # None ELSE @)]
  BY DEF PollNode
<1>4. list[n].online \in BOOLEAN
  BY <1>2 DEF Entry
<1>5. (answered \/ (IF due THEN id # None ELSE list[n].online)) \in BOOLEAN
  BY <1>3, <1>4
<1>6. PICK b \in BOOLEAN : list' = [list EXCEPT ![n].online = b]
  BY <1>2, <1>3, <1>5
<1>7. PICK e : e = [list[n] EXCEPT !.online = b]
  OBVIOUS
<1>8. e \in Entry /\ e.name = list[n].name
  BY <1>2, <1>7 DEF Entry
<1>9. list' = [list EXCEPT ![n] = e]
  BY <1>2, <1>6, <1>7
<1>10. QED
  BY <1>2, <1>8, <1>9, ConstantTypes

\* The steps of the worker's loop that leave storage and bus alone.
LEMMA LoopType ==
  ASSUME TypeInv,
         \/ OpenPort \/ BeginRound \/ DisablePassAnyCards
         \/ \E n \in Id, due \in BOOLEAN : PollNode(n, due)
  PROVE  TypeInv'
<1>1. /\ BusType /\ ListType /\ RequestType /\ WorkerType /\ StorageType /\ HistoryType
      /\ StoredKept /\ NodesEnabled /\ PollsListed
  BY DEF TypeInv, TypeOK
<1>2. CASE OpenPort
  BY <1>1, <1>2
  DEF TypeInv, TypeOK, OpenPort, bus, storageVars, boundVars, BusType, ListType, Listed,
      RequestType, WorkerType, Phase, StorageType, HistoryType, StoredKept, NodesEnabled,
      PollsListed
<1>3. CASE BeginRound
  <2>1. /\ cur' = NoAction /\ result' = "none" /\ refresh' = FALSE
        /\ phase \in {"done", "action"} /\ phase' \in {"scan", "poll"}
        /\ todo' \subseteq Scan \union Id /\ (phase' = "poll" => todo' \subseteq Listed)
    BY <1>3 DEF BeginRound, Enabled, Listed
  <2>2. UNCHANGED <<phys, passAny, on, dead, list, queue, changed, web, save, stored,
                    overlap, missed, boundVars>>
    BY <1>3 DEF BeginRound, bus, storageVars
  <2>3. BusType' /\ ListType' /\ RequestType' /\ NodesEnabled' /\ StoredKept'
    BY <1>1, <2>1, <2>2
    DEF BusType, ListType, Listed, RequestType, NodesEnabled, StoredKept
  <2>4. WorkerType' /\ StorageType' /\ HistoryType'
    BY <1>1, <2>1, <2>2, ConstantTypes
    DEF WorkerType, Phase, Result, StorageType, HistoryType, boundVars
  <2>5. QED
    BY <2>1, <2>2, <2>3, <2>4 DEF TypeInv, TypeOK, PollsListed, Listed
<1>4. CASE DisablePassAnyCards
  <2>1. \A out \in DisablePassAny(Head(queue)) : out.result \in {"refused", "failed", "ok"}
    BY DEF DisablePassAny
  <2>2. /\ cur' = Head(queue) /\ phase = "action" /\ phase' = "done" /\ queue # <<>>
        /\ passAny' \subseteq passAny /\ result' \in Result /\ queue' = Tail(queue)
    BY <1>4, <2>1 DEF DisablePassAnyCards, Result
  <2>3. UNCHANGED <<phys, on, dead, list, refresh, todo, changed, web, save, stored,
                    overlap, missed, boundVars>>
    BY <1>4 DEF DisablePassAnyCards, storageVars
  <2>4. /\ cur' \in Pending /\ cur' # NoAction /\ queue' \in Seq(Pending)
        /\ \A k \in 1 .. Len(Tail(queue)) : Tail(queue)[k].node \notin Disabled
    BY <1>1, <2>2, HeadPending DEF RequestType, Pending, NoAction, NodesEnabled
  <2>5. BusType' /\ ListType' /\ RequestType' /\ NodesEnabled' /\ StoredKept'
    BY <1>1, <2>2, <2>3, <2>4
    DEF BusType, ListType, Listed, RequestType, NodesEnabled, StoredKept
  <2>6. WorkerType' /\ StorageType' /\ HistoryType'
    BY <1>1, <2>2, <2>3, <2>4 DEF WorkerType, Phase, StorageType, HistoryType, boundVars
  <2>7. QED
    BY <2>2, <2>5, <2>6 DEF TypeInv, TypeOK, PollsListed
<1>5. ASSUME NEW n \in Id, NEW due \in BOOLEAN, PollNode(n, due)
      PROVE  TypeInv'
  <2>1. n \in todo /\ todo' = todo \ {n} /\ phase = "poll" /\ phase' \in {"action", "poll"}
    BY <1>5 DEF PollNode
  <2>2. UNCHANGED <<phys, passAny, on, dead, refresh, queue, changed, cur, result, web,
                    save, stored, overlap, missed, boundVars>>
    BY <1>5 DEF PollNode, bus, storageVars
  <2>3. PICK e \in Entry : list' = [list EXCEPT ![n] = e] /\ e # None
    BY <1>5, PollEffect
  <2>4. list \in [Id -> Entry \union {None}]
    BY <1>1 DEF ListType
  <2>5. \A m \in Id : list[m] # None => list'[m] # None
    BY <2>3, <2>4
  <2>6. list' \in [Id -> Entry \union {None}]
    BY <2>3, <2>4
  <2>7. ListType'
    BY <1>1, <2>5, <2>6, ConstantTypes DEF ListType, Listed
  <2>8. BusType' /\ RequestType' /\ NodesEnabled' /\ StoredKept' /\ StorageType'
    BY <1>1, <2>1, <2>2 DEF BusType, RequestType, NodesEnabled, StoredKept, StorageType
  <2>9. WorkerType' /\ HistoryType'
    BY <1>1, <2>1, <2>2 DEF WorkerType, Phase, HistoryType, boundVars
  <2>10. PollsListed'
    BY <1>1, <2>1, <2>5 DEF PollsListed, Listed
  <2>11. QED
    BY <2>7, <2>8, <2>9, <2>10 DEF TypeInv, TypeOK
<1>6. QED
  BY <1>2, <1>3, <1>4, <1>5

LEMMA CrashType == TypeInv /\ Crash => TypeInv'
<1> SUFFICES ASSUME TypeInv, Crash PROVE TypeInv'
  OBVIOUS
<1>1. /\ BusType /\ RequestType /\ StorageType /\ HistoryType /\ StoredKept
  BY DEF TypeInv, TypeOK
<1>2. list' = [n \in Id |-> IF stored[n] = None THEN None
                            ELSE [name |-> stored[n], online |-> FALSE]]
  BY DEF Crash
<1>3. \A n \in Id : stored[n] # None => [name |-> stored[n], online |-> FALSE] \in Entry
  BY <1>1 DEF StorageType, Stored, Entry
<1>4. list' \in [Id -> Entry \union {None}] /\ \A n \in Id : stored[n] # None => list'[n] # None
  BY <1>2, <1>3, ConstantTypes
<1>5. ListType'
  BY <1>1, <1>4, ConstantTypes DEF ListType, Listed, StoredKept
<1>6. queue' = <<>> /\ queue' \in Seq(Pending) /\ Len(queue') = 0
  BY EmptySeq DEF Crash
<1>7. /\ phase' = "down" /\ todo' = {} /\ changed' = FALSE /\ cur' = NoAction
      /\ result' = "none" /\ refresh' = FALSE /\ dead' = FALSE /\ web' = None
      /\ save' = [t \in Thread |-> None] /\ overlap' = FALSE /\ missed' = {}
      /\ restarts < MaxRestarts /\ restarts' = restarts + 1
      /\ UNCHANGED <<phys, passAny, on, stored, requests, renames, presses, events>>
  BY DEF Crash
<1>8. BusType' /\ RequestType' /\ WorkerType' /\ NodesEnabled' /\ PollsListed'
  <2>1. BusType' /\ RequestType'
    BY <1>1, <1>6, <1>7 DEF BusType, RequestType
  <2>2. WorkerType' /\ PollsListed'
    BY <1>7 DEF WorkerType, PollsListed, Phase, Result
  <2>3. NodesEnabled'
    BY <1>6, <1>7 DEF NodesEnabled
  <2>4. QED
    BY <2>1, <2>2, <2>3
<1>9. StorageType' /\ StoredKept'
  BY <1>1, <1>7 DEF StorageType, StoredKept, Thread
<1>10. HistoryType'
  <2>1. restarts \in 0 .. MaxRestarts /\ MaxRestarts \in Nat
    BY <1>1, ConstantTypes DEF HistoryType
  <2>2. restarts' \in 0 .. MaxRestarts
    BY <1>7, <2>1
  <2>3. QED
    BY <1>1, <1>7, <2>2 DEF HistoryType
<1>11. QED
  BY <1>5, <1>8, <1>9, <1>10 DEF TypeInv, TypeOK

\* Requests, and what happens to the bus.
LEMMA RequestStepType ==
  ASSUME TypeInv,
         \/ \E r \in [kind : {"set", "pass"}, node : Id, new : Id] : Check(r)
         \/ Queue \/ RequestRefresh \/ Unplug \/ Start
         \/ \E d \in Device : Switch(d)
  PROVE  TypeInv'
<1>1. /\ BusType /\ ListType /\ RequestType /\ WorkerType /\ StorageType /\ HistoryType
      /\ StoredKept /\ NodesEnabled /\ PollsListed
  BY DEF TypeInv, TypeOK
<1>2. ASSUME NEW r \in [kind : {"set", "pass"}, node : Id, new : Id], Check(r)
      PROVE  TypeInv'
  <2>1. /\ r.node \in Enabled /\ requests < MaxRequests /\ requests' = requests + 1
        /\ web' = [kind |-> r.kind, node |-> r.node, new |-> r.new, stale |-> FALSE]
    BY <1>2 DEF Check
  <2>2. web' \in Request /\ web'.node \notin Disabled
    BY <2>1 DEF Request, Enabled
  <2>3. UNCHANGED <<phys, passAny, on, dead, list, refresh, queue, workerVars, save, stored,
                    overlap, missed, renames, presses, events, restarts>>
    BY <1>2 DEF Check, bus, storageVars
  <2>4. BusType' /\ ListType' /\ RequestType' /\ WorkerType' /\ StorageType'
    BY <1>1, <2>2, <2>3
    DEF BusType, ListType, Listed, RequestType, WorkerType, StorageType, workerVars
  <2>5. HistoryType'
    BY <1>1, <2>1, <2>3, ConstantTypes DEF HistoryType
  <2>6. StoredKept' /\ NodesEnabled' /\ PollsListed'
    BY <1>1, <2>2, <2>3 DEF StoredKept, NodesEnabled, PollsListed, Listed, workerVars
  <2>7. QED
    BY <2>4, <2>5, <2>6 DEF TypeInv, TypeOK
<1>3. CASE Queue
  <2>1. PICK p : p = [kind |-> web.kind, node |-> web.node, new |-> web.new,
                      chosen |-> {d \in Device : phys[d] = web.node}, stale |-> web.stale]
    OBVIOUS
  <2>2. web \in Request /\ web.node \notin Disabled
    BY <1>1, <1>3 DEF Queue, RequestType, NodesEnabled
  <2>3. p \in Pending /\ p.node = web.node
    BY <2>1, <2>2 DEF Request, Pending
  <2>4. queue' = Append(queue, p) /\ web' = None
    BY <1>3, <2>1 DEF Queue
  <2>5. /\ queue' \in Seq(Pending)
        /\ \A k \in 1 .. Len(queue') : queue'[k].node \notin Disabled
    <3>1. queue \in Seq(Pending) /\ \A k \in 1 .. Len(queue) : queue[k].node \notin Disabled
      BY <1>1 DEF RequestType, NodesEnabled
    <3>2. QED
      BY <2>2, <2>3, <2>4, <3>1, AppendProperties, LenProperties
  <2>6. UNCHANGED <<phys, passAny, on, dead, list, refresh, workerVars, save, stored,
                    overlap, missed, boundVars>>
    BY <1>3 DEF Queue, bus, storageVars
  <2>7. BusType' /\ ListType' /\ RequestType' /\ WorkerType' /\ StorageType'
    BY <1>1, <2>4, <2>5, <2>6
    DEF BusType, ListType, Listed, RequestType, WorkerType, StorageType, workerVars
  <2>8. HistoryType' /\ StoredKept' /\ NodesEnabled' /\ PollsListed'
    BY <1>1, <2>4, <2>5, <2>6
    DEF HistoryType, StoredKept, NodesEnabled, PollsListed, Listed, workerVars, boundVars
  <2>9. QED
    BY <2>7, <2>8 DEF TypeInv, TypeOK
<1>4. CASE RequestRefresh
  <2>1. UNCHANGED <<phys, passAny, on, dead, list, queue, workerVars, web, save, stored,
                    overlap, missed, requests, renames, events, restarts>>
        /\ refresh' = TRUE /\ presses < MaxRefresh /\ presses' = presses + 1
    BY <1>4 DEF RequestRefresh, bus, storageVars
  <2>2. BusType' /\ ListType' /\ RequestType' /\ WorkerType' /\ StorageType'
    BY <1>1, <2>1
    DEF BusType, ListType, Listed, RequestType, WorkerType, StorageType, workerVars
  <2>3. HistoryType' /\ StoredKept' /\ NodesEnabled' /\ PollsListed'
    BY <1>1, <2>1, ConstantTypes
    DEF HistoryType, StoredKept, NodesEnabled, PollsListed, Listed, workerVars
  <2>4. QED
    BY <2>2, <2>3 DEF TypeInv, TypeOK
<1>5. CASE Unplug \/ \E d \in Device : Switch(d)
  <2>1. /\ UNCHANGED <<phys, passAny, list, refresh, queue, workerVars, web, save, stored,
                       overlap, missed, requests, renames, presses, restarts>>
        /\ dead' \in {dead, TRUE} /\ on' \subseteq on \union Device
        /\ events < MaxEvents /\ events' = events + 1
    BY <1>5 DEF Unplug, Switch, storageVars
  <2>2. BusType' /\ ListType' /\ RequestType' /\ WorkerType' /\ StorageType'
    BY <1>1, <2>1
    DEF BusType, ListType, Listed, RequestType, WorkerType, StorageType, workerVars
  <2>3. HistoryType' /\ StoredKept' /\ NodesEnabled' /\ PollsListed'
    BY <1>1, <2>1, ConstantTypes
    DEF HistoryType, StoredKept, NodesEnabled, PollsListed, Listed, workerVars
  <2>4. QED
    BY <2>2, <2>3 DEF TypeInv, TypeOK
<1>6. CASE Start
  BY <1>1, <1>6
  DEF TypeInv, TypeOK, Start, bus, storageVars, boundVars, BusType, ListType, Listed,
      RequestType, WorkerType, Phase, StorageType, HistoryType, StoredKept, NodesEnabled,
      PollsListed
<1>7. QED
  BY <1>2, <1>3, <1>4, <1>5, <1>6

LEMMA TypeStep == TypeInv /\ [Next]_vars => TypeInv'
<1> SUFFICES ASSUME TypeInv, [Next]_vars PROVE TypeInv'
  OBVIOUS
<1>1. CASE ChangeNodeId
  BY <1>1, ChangeNodeIdType
<1>2. CASE SaveName \/ SaveNodeId \/ SaveScan
  BY <1>2, SaveType
<1>3. CASE \E n \in Id : RenameController(n)
  BY <1>3, RenameType
<1>4. CASE ScanAddress \/ EndScan
  BY <1>4, ScanType
<1>5. CASE \/ OpenPort \/ BeginRound \/ DisablePassAnyCards
           \/ \E n \in Id, due \in BOOLEAN : PollNode(n, due)
  BY <1>5, LoopType
<1>6. CASE Crash
  BY <1>6, CrashType
<1>7. CASE \/ \E r \in [kind : {"set", "pass"}, node : Id, new : Id] : Check(r)
           \/ Queue \/ RequestRefresh \/ Unplug \/ Start
           \/ \E d \in Device : Switch(d)
  BY <1>7, RequestStepType
<1>8. CASE UNCHANGED vars
  BY <1>8
  DEF TypeInv, TypeOK, vars, bus, workerVars, storageVars, boundVars, BusType, ListType,
      Listed, RequestType, WorkerType, StorageType, HistoryType, StoredKept, NodesEnabled,
      PollsListed
<1>9. QED
  BY <1>1, <1>2, <1>3, <1>4, <1>5, <1>6, <1>7, <1>8 DEF Next, Worker, Web, Environment

\* The worker has an action exactly while it carries one out, and every variable the
\* values the code can give it.
THEOREM TypeCorrect == Spec => []TypeOK
<1>1. Spec => []TypeInv
  BY TypeInit, TypeStep, PTL DEF Spec
<1>2. TypeInv => TypeOK
  BY DEF TypeInv
<1>3. QED
  BY <1>1, <1>2, PTL

-----------------------------------------------------------------------------
\* Storage.

\* A save that is alone has, unless the scan has since added to it, the list as its
\* snapshot, and no other save is on its way with it.
AloneCurrent ==
  \A t \in Thread : save[t] # None /\ save[t].alone =>
    save[Other(t)] = None /\ (~changed => save[t].snap = Row(list))

SaveInv == AloneCurrent /\ NumbersStored

\* A save that begins.
LEMMA SnapshotSaves ==
  ASSUME StorageType, NEW t \in Thread, NEW l \in [Id -> Entry \union {None}],
         ChangeAndSnapshot(t, l)
  PROVE  SaveInv'
<1>1. /\ list' = l /\ save'[t] # None /\ save'[t].snap = Row(l)
      /\ save'[t].alone => save[Other(t)] = None
      /\ save[Other(t)] = None => save'[Other(t)] = None
      /\ save[Other(t)] # None => save'[Other(t)].alone = FALSE
  BY SnapshotEffect
<1>2. ASSUME NEW o \in Thread, save'[o] # None, save'[o].alone
      PROVE  save'[Other(o)] = None /\ save'[o].snap = Row(list)'
  <2>1. o = t
    BY <1>1, <1>2, OtherThread
  <2>2. Row(list)' = Row(l)
    BY <1>1 DEF Row
  <2>3. QED
    BY <1>1, <1>2, <2>1, <2>2
<1>3. ~Saved'
  BY <1>1 DEF Saved
<1>4. QED
  BY <1>2, <1>3 DEF SaveInv, AloneCurrent, NumbersStored

\* A write that ends.
LEMMA WriteSaves ==
  ASSUME StorageType, SaveInv, NEW t \in Thread, NEW ok \in BOOLEAN, Write(t, ok)
  PROVE  SaveInv'
<1>1. /\ save'[t] = None /\ save'[Other(t)] = save[Other(t)]
      /\ save[t] \in Saving /\ save[t] # None
      /\ UNCHANGED <<list, changed>>
  BY WriteEffect DEF Write
<1>2. AloneCurrent'
  <2>1. SUFFICES ASSUME NEW o \in Thread, save'[o] # None, save'[o].alone
                 PROVE  save'[Other(o)] = None /\ (~changed => save'[o].snap = Row(list))
    BY <1>1 DEF AloneCurrent, Row
  <2>2. o = Other(t) /\ Other(o) = t
    BY <1>1, <2>1, OtherThread
  <2>3. QED
    BY <1>1, <2>1, <2>2 DEF SaveInv, AloneCurrent
<1>3. ASSUME Saved', ~overlap' PROVE stored' = Row(list)
  <2>1. ok /\ save[t].alone
    BY <1>3 DEF Write
  <2>2. stored' = save[t].snap
    BY <2>1 DEF Write
  <2>3. ~changed
    BY <1>1, <1>3 DEF Saved
  <2>4. QED
    BY <1>1, <2>1, <2>2, <2>3 DEF SaveInv, AloneCurrent
<1>4. Row(list)' = Row(list)
  BY <1>1 DEF Row
<1>5. QED
  BY <1>2, <1>3, <1>4 DEF SaveInv, NumbersStored

\* A step that leaves alone storage, and what is stored of the list.
LEMMA StorageKept ==
  ASSUME SaveInv, UNCHANGED <<save, stored, overlap>>,
         changed' = changed, Row(list)' = Row(list)
  PROVE  SaveInv'
BY DEF SaveInv, AloneCurrent, NumbersStored, Saved

LEMMA SaveStep == TypeInv /\ SaveInv /\ [Next]_vars => SaveInv'
<1> SUFFICES ASSUME TypeInv, SaveInv, [Next]_vars PROVE SaveInv'
  OBVIOUS
<1>1. /\ BusType /\ ListType /\ RequestType /\ WorkerType /\ StorageType
      /\ PollsListed /\ list \in [Id -> Entry \union {None}] /\ changed \in BOOLEAN
  BY DEF TypeInv, TypeOK, ListType, WorkerType
<1>2. CASE ChangeNodeId
  <2>1. PICK a \in Pending : a = Head(queue)
    BY <1>2, ChangeNodeIdEffect DEF TypeInv
  <2>2. (Renumbers(a) /\ ~Conflict(a)) \/ LeavesList
    BY <1>2, <2>1, ChangeNodeIdEffect DEF TypeInv
  <2>3. CASE Renumbers(a) /\ ~Conflict(a)
    <3>1. ChangeAndSnapshot("worker", Renumbered(list, a.node, a.new))
      BY <2>3 DEF Renumbers
    <3>2. Renumbered(list, a.node, a.new) \in [Id -> Entry \union {None}]
      BY <1>1, <2>3, RenumberedType
    <3>3. QED
      BY <1>1, <3>1, <3>2, SnapshotSaves, OtherThread
  <2>4. CASE LeavesList
    <3>1. UNCHANGED <<list, save, stored, overlap, changed>>
      BY <1>2, <2>4 DEF ChangeNodeId, LeavesList
    <3>2. Row(list)' = Row(list)
      BY <3>1 DEF Row
    <3>3. QED
      BY <3>1, <3>2, StorageKept
  <2>5. QED
    BY <2>2, <2>3, <2>4
<1>3. ASSUME NEW n \in Id, RenameController(n) PROVE SaveInv'
  <2>1. PICK l : l = [list EXCEPT ![n].name = "given"]
    OBVIOUS
  <2>2. list[n] \in Entry
    BY <1>1, <1>3 DEF RenameController, Listed
  <2>3. [list[n] EXCEPT !.name = "given"] \in Entry
    BY <2>2 DEF Entry, Name
  <2>4. l \in [Id -> Entry \union {None}]
    BY <1>1, <2>1, <2>3
  <2>5. ChangeAndSnapshot("web", l)
    BY <1>3, <2>1 DEF RenameController
  <2>6. QED
    BY <1>1, <2>4, <2>5, SnapshotSaves, OtherThread
<1>4. CASE SaveName \/ SaveNodeId \/ SaveScan
  <2>1. PICK t \in Thread, ok \in BOOLEAN : Write(t, ok)
    BY <1>4, OtherThread DEF SaveName, SaveNodeId, SaveScan
  <2>2. QED
    BY <1>1, <2>1, WriteSaves
<1>5. CASE ScanAddress
  <2>1. UNCHANGED <<save, stored, overlap>>
        /\ (changed' = TRUE \/ UNCHANGED <<list, changed>>)
    BY <1>5 DEF ScanAddress, storageVars
  <2>2. CASE changed' = TRUE
    BY <2>1, <2>2 DEF SaveInv, AloneCurrent, NumbersStored, Saved
  <2>3. CASE UNCHANGED <<list, changed>>
    <3>1. Row(list)' = Row(list)
      BY <2>3 DEF Row
    <3>2. QED
      BY <2>1, <2>3, <3>1, StorageKept
  <2>4. QED
    BY <2>1, <2>2, <2>3
<1>6. CASE EndScan
  <2>1. CASE changed
    <3>1. ChangeAndSnapshot("worker", list)
      BY <1>6, <2>1 DEF EndScan
    <3>2. QED
      BY <1>1, <3>1, SnapshotSaves, OtherThread
  <2>2. CASE ~changed
    <3>1. UNCHANGED <<list, save, stored, overlap>> /\ changed' = FALSE /\ changed = FALSE
      BY <1>1, <1>6, <2>2 DEF EndScan
    <3>2. Row(list)' = Row(list)
      BY <3>1 DEF Row
    <3>3. QED
      BY <3>1, <3>2, StorageKept
  <2>3. QED
    BY <2>1, <2>2
<1>7. ASSUME NEW n \in Id, NEW due \in BOOLEAN, PollNode(n, due) PROVE SaveInv'
  <2>1. UNCHANGED <<save, stored, overlap, changed>> /\ n \in todo /\ phase = "poll"
    BY <1>7 DEF PollNode, storageVars
  <2>2. list[n] # None
        /\ \E e \in Entry : /\ list' = [list EXCEPT ![n] = e]
                            /\ e.name = list[n].name /\ e # None
    BY <1>7, PollEffect
  <2>3. Row(list)' = Row(list)
    BY <1>1, <2>2 DEF Row
  <2>4. QED
    BY <2>1, <2>3, StorageKept
<1>8. CASE Crash
  <2>1. /\ save' = [t \in Thread |-> None] /\ UNCHANGED stored
        /\ list' = [n \in Id |-> IF stored[n] = None THEN None
                                 ELSE [name |-> stored[n], online |-> FALSE]]
    BY <1>8 DEF Crash
  <2>2. stored \in [Id -> Name \union {None}]
    BY <1>1 DEF StorageType, Stored
  <2>3. \A n \in Id : stored[n] # None => list'[n] # None /\ list'[n].name = stored[n]
    <3>1. \A n \in Id : stored[n] # None => [name |-> stored[n], online |-> FALSE] \in Entry
      BY <2>2 DEF Entry
    <3>2. QED
      BY <2>1, <3>1, ConstantTypes
  <2>4. Row(list)' = stored
    BY <2>1, <2>2, <2>3 DEF Row
  <2>5. QED
    BY <2>1, <2>4 DEF SaveInv, AloneCurrent, NumbersStored
<1>9. CASE \/ UNCHANGED vars \/ Queue \/ RequestRefresh \/ Unplug \/ Start \/ OpenPort
           \/ BeginRound \/ DisablePassAnyCards
           \/ \E r \in [kind : {"set", "pass"}, node : Id, new : Id] : Check(r)
           \/ \E d \in Device : Switch(d)
  <2>1. UNCHANGED <<list, save, stored, overlap, changed>>
    <3>1. CASE UNCHANGED vars \/ Queue \/ RequestRefresh \/ Unplug
      BY <3>1 DEF Queue, RequestRefresh, Unplug, vars, workerVars, storageVars
    <3>2. CASE Start \/ OpenPort \/ BeginRound \/ DisablePassAnyCards
      BY <3>2 DEF Start, OpenPort, BeginRound, DisablePassAnyCards, workerVars, storageVars
    <3>3. CASE \/ \E r \in [kind : {"set", "pass"}, node : Id, new : Id] : Check(r)
               \/ \E d \in Device : Switch(d)
      BY <3>3 DEF Check, Switch, workerVars, storageVars
    <3>4. QED
      BY <1>9, <3>1, <3>2, <3>3
  <2>2. Row(list)' = Row(list)
    BY <2>1 DEF Row
  <2>3. QED
    BY <2>1, <2>2, StorageKept
<1>10. QED
  BY <1>2, <1>3, <1>4, <1>5, <1>6, <1>7, <1>8, <1>9 DEF Next, Worker, Web, Environment

\* Once every save has ended, storage holds the numbers and names of the list, unless a
\* save failed or two of them met and none has succeeded alone since.
THEOREM NumbersStoredAlways == Spec => []NumbersStored
<1>1. Init => SaveInv
  BY DEF Init, SaveInv, AloneCurrent, NumbersStored, Thread
<1>2. SaveInv => NumbersStored
  BY DEF SaveInv
<1>3. QED
  BY <1>1, <1>2, TypeInit, TypeStep, SaveStep, PTL DEF Spec

-----------------------------------------------------------------------------
\* Controller actions.

\* The number of a request or an action that is not stale is listed, and an action that
\* is not stale knows every device that has its number.
ActionsCurrent ==
  /\ web # None /\ ~web.stale => web.node \in Listed
  /\ \A k \in 1 .. Len(queue) : ~queue[k].stale =>
       /\ queue[k].node \in Listed
       /\ \A d \in Device : phys[d] = queue[k].node => d \in queue[k].chosen

\* The renumbering that is being saved took place, on the bus and in the list.
NumberMoved ==
  phase = "save" /\ ~cur.stale =>
    /\ \E d \in Device : phys[d] = cur.new
    /\ list[cur.new] # None
    /\ cur.node = cur.new \/ list[cur.node] = None

ActionInv == ActionsCurrent /\ NumberMoved

\* A step that takes no number from the list and gives none on the bus.
LEMMA ActionsKept ==
  ASSUME ActionsCurrent, UNCHANGED <<phys, queue>>,
         \A n \in Listed : n \in Listed',
         web' = web \/ web' = None \/ web'.stale
  PROVE  ActionsCurrent'
<1>1. CASE web' = web
  BY <1>1 DEF ActionsCurrent
<1>2. CASE web' = None \/ web'.stale
  BY <1>2 DEF ActionsCurrent
<1>3. QED
  BY <1>1, <1>2

LEMMA ActionsLeft ==
  ASSUME RequestType, ActionsCurrent, queue # <<>>, queue' = Tail(queue),
         UNCHANGED <<list, web>>,
         \A d \in Device : phys'[d] # phys[d] => phys'[d] \notin Listed
  PROVE  ActionsCurrent'
<1>1. PICK rest : rest = Tail(queue)
  OBVIOUS
<1>2. \A k \in 1 .. Len(rest) : rest[k] = queue[k + 1] /\ k + 1 \in 1 .. Len(queue)
  BY <1>1, HeadPending DEF RequestType
<1>3. \A k \in 1 .. Len(rest) : ~rest[k].stale =>
        /\ rest[k].node \in Listed
        /\ \A d \in Device : phys[d] = rest[k].node => d \in rest[k].chosen
  BY <1>2 DEF ActionsCurrent
<1>4. \A k \in 1 .. Len(rest) : ~rest[k].stale =>
        \A d \in Device : phys'[d] = rest[k].node => d \in rest[k].chosen
  BY <1>3
<1>5. Listed' = Listed
  BY DEF Listed
<1>6. queue' = rest
  BY <1>1
<1>7. QED
  BY <1>3, <1>4, <1>5, <1>6 DEF ActionsCurrent

LEMMA ChangeNodeIdActions ==
  ASSUME TypeInv, ActionInv, ChangeNodeId
  PROVE  ActionInv'
<1>1. /\ BusType /\ ListType /\ RequestType /\ StorageType
  BY DEF TypeInv, TypeOK
<1>2. PICK a \in Pending : a = Head(queue)
  BY ChangeNodeIdEffect DEF TypeInv
<1>3. /\ queue # <<>> /\ cur' = a
      /\ \A d \in Device : phys'[d] # phys[d] =>
           phys[d] = a.node /\ phys'[d] = a.new /\ ~Conflict(a) /\ a.new # a.node
      /\ (Renumbers(a) /\ ~Conflict(a)) \/ LeavesList
  BY <1>2, ChangeNodeIdEffect DEF TypeInv
<1>4. \A d \in Device : phys'[d] # phys[d] => phys'[d] \notin Listed
  BY <1>3 DEF Conflict
<1>5. CASE Renumbers(a) /\ ~Conflict(a)
  <2>1. PICK l : l = Renumbered(list, a.node, a.new)
    OBVIOUS
  <2>2. /\ l \in [Id -> Entry \union {None}]
        /\ \A n \in Id : n # a.node \/ a.new = a.node => (list[n] # None => l[n] # None)
        /\ list[a.node] # None => /\ l[a.new] # None
                                  /\ a.node = a.new \/ l[a.node] = None
    BY <1>1, <1>5, <2>1, RenumberedType
  <2>3. ChangeAndSnapshot("worker", l) /\ Restale /\ queue' = Overtaken(Tail(queue), a)
        /\ phase' = "save" /\ \E d \in Device : phys'[d] = a.new
    BY <1>5, <2>1 DEF Renumbers
  <2>4. list' = l
    BY <2>3 DEF ChangeAndSnapshot
  <2>5. web' = None \/ web'.stale
    BY <1>1, <2>3 DEF Restale, RequestType, Request
  <2>6. PICK rest \in Seq(Pending) : rest = Tail(queue)
    BY <1>1, <1>3, HeadPending DEF RequestType
  <2>7. \A k \in 1 .. Len(rest) : rest[k] = queue[k + 1] /\ k + 1 \in 1 .. Len(queue)
    BY <1>1, <1>3, <2>6, HeadPending DEF RequestType
  <2>8. \A k \in 1 .. Len(rest) : ~rest[k].stale =>
          /\ rest[k].node \in Listed
          /\ \A d \in Device : phys[d] = rest[k].node => d \in rest[k].chosen
    BY <2>7 DEF ActionInv, ActionsCurrent
  <2>9. PICK q : q = Overtaken(rest, a)
    OBVIOUS
  <2>10. /\ Len(q) = Len(rest)
         /\ \A k \in 1 .. Len(rest) :
              /\ q[k].node = rest[k].node /\ q[k].chosen = rest[k].chosen
              /\ ~q[k].stale => ~rest[k].stale /\ (rest[k].node = a.node => a.new = a.node)
    BY <2>9, OvertakenType
  <2>11. \A n \in Listed : n # a.node \/ a.new = a.node => n \in Listed'
    BY <2>2, <2>4 DEF Listed
  <2>12. \A k \in 1 .. Len(q) : ~q[k].stale =>
           /\ q[k].node \in Listed'
           /\ \A d \in Device : phys'[d] = q[k].node => d \in q[k].chosen
    BY <1>4, <2>8, <2>10, <2>11
  <2>13. queue' = q
    BY <2>3, <2>6, <2>9
  <2>14. ActionsCurrent'
    BY <2>5, <2>12, <2>13 DEF ActionsCurrent
  <2>15. ~a.stale => list[a.node] # None
    BY <1>1, <1>2, <1>3, HeadPending DEF ActionInv, ActionsCurrent, RequestType, Listed
  <2>16. NumberMoved'
    BY <1>3, <2>2, <2>3, <2>4, <2>15 DEF NumberMoved
  <2>17. QED
    BY <2>14, <2>16 DEF ActionInv
<1>6. CASE LeavesList
  <2>1. queue' = Tail(queue) /\ UNCHANGED <<list, web>> /\ phase' = "done"
    BY <1>6 DEF LeavesList
  <2>2. ActionsCurrent'
    BY <1>1, <1>3, <1>4, <2>1, ActionsLeft DEF ActionInv
  <2>3. QED
    BY <2>1, <2>2 DEF ActionInv, NumberMoved
<1>7. QED
  BY <1>3, <1>5, <1>6

LEMMA QueueActions ==
  ASSUME TypeInv, ActionInv, Queue
  PROVE  ActionInv'
<1>1. /\ BusType /\ RequestType
  BY DEF TypeInv, TypeOK
<1>2. PICK p : p = [kind |-> web.kind, node |-> web.node, new |-> web.new,
                    chosen |-> {d \in Device : phys[d] = web.node}, stale |-> web.stale]
  OBVIOUS
<1>3. queue' = Append(queue, p) /\ web' = None /\ web # None
      /\ UNCHANGED <<phys, list, phase, cur>>
  BY <1>2 DEF Queue, bus, workerVars
<1>4. p.stale = web.stale /\ p.node = web.node
      /\ \A d \in Device : phys[d] = web.node => d \in p.chosen
  BY <1>2
<1>5. \A k \in 1 .. Len(queue') : (k <= Len(queue) /\ queue'[k] = queue[k]) \/ queue'[k] = p
  <2>1. queue \in Seq(Pending) /\ Len(queue) \in Nat
    BY <1>1, LenProperties DEF RequestType
  <2>2. QED
    BY <1>3, <2>1
<1>6. Listed' = Listed
  BY <1>3 DEF Listed
<1>7. ~p.stale => p.node \in Listed
  BY <1>3, <1>4 DEF ActionInv, ActionsCurrent
<1>8. ActionsCurrent'
  BY <1>3, <1>4, <1>5, <1>6, <1>7 DEF ActionInv, ActionsCurrent
<1>9. QED
  BY <1>3, <1>8 DEF ActionInv, NumberMoved

LEMMA ActionInvStep == TypeInv /\ ActionInv /\ [Next]_vars => ActionInv'
<1> SUFFICES ASSUME TypeInv, ActionInv, [Next]_vars PROVE ActionInv'
  OBVIOUS
<1>1. /\ BusType /\ ListType /\ RequestType /\ WorkerType /\ StorageType
      /\ list \in [Id -> Entry \union {None}]
  BY DEF TypeInv, TypeOK, ListType
<1>2. CASE ChangeNodeId
  BY <1>2, ChangeNodeIdActions
<1>3. CASE Queue
  BY <1>3, QueueActions
<1>4. CASE Crash
  BY <1>4, EmptySeq DEF Crash, ActionInv, ActionsCurrent, NumberMoved
<1>5. CASE DisablePassAnyCards
  <2>1. /\ queue # <<>> /\ queue' = Tail(queue) /\ phase' = "done"
        /\ UNCHANGED <<phys, list, web>>
    BY <1>5 DEF DisablePassAnyCards
  <2>2. ActionsCurrent'
    BY <1>1, <2>1, ActionsLeft DEF ActionInv
  <2>3. QED
    BY <2>1, <2>2 DEF ActionInv, NumberMoved
<1>6. ASSUME NEW n \in Id, RenameController(n) PROVE ActionInv'
  <2>1. PICK l : l = [list EXCEPT ![n].name = "given"]
    OBVIOUS
  <2>2. list[n] \in Entry
    BY <1>1, <1>6 DEF RenameController, Listed
  <2>3. [list[n] EXCEPT !.name = "given"] \in Entry
    BY <2>2 DEF Entry, Name
  <2>4. list' = l /\ UNCHANGED <<phys, queue, web, phase, cur>>
    BY <1>6, <2>1 DEF RenameController, ChangeAndSnapshot, bus, workerVars
  <2>5. \A m \in Id : (list'[m] = None) <=> (list[m] = None)
    BY <1>1, <2>1, <2>2, <2>3, <2>4, ConstantTypes
  <2>6. ActionsCurrent'
    BY <2>4, <2>5, ActionsKept DEF ActionInv, Listed
  <2>7. NumberMoved'
    <3>1. phase = "save" => cur.node \in Id /\ cur.new \in Id
      BY <1>1 DEF WorkerType, Pending, NoAction
    <3>2. QED
      BY <2>4, <2>5, <3>1 DEF ActionInv, NumberMoved
  <2>8. QED
    BY <2>6, <2>7 DEF ActionInv
<1>7. CASE ScanAddress
  <2>1. PICK a \in todo : \E id \in Probe(a) :
           IF id = None THEN UNCHANGED <<list, web>>
           ELSE list' = Seen(list, id) /\ IF list[id] = None THEN Restale ELSE UNCHANGED web
    BY <1>7 DEF ScanAddress
  <2>2. PICK id \in Id \union {None} :
           IF id = None THEN UNCHANGED <<list, web>>
           ELSE list' = Seen(list, id) /\ IF list[id] = None THEN Restale ELSE UNCHANGED web
    BY <1>1, <2>1, ProbeType
  <2>3. phase' = "scan" /\ UNCHANGED <<phys, queue>>
    BY <1>7 DEF ScanAddress, bus
  <2>4. \A n \in Listed : n \in Listed'
    <3>1. CASE id = None
      BY <2>2, <3>1 DEF Listed
    <3>2. CASE id # None
      BY <1>1, <2>2, <3>2, SeenType DEF Listed
    <3>3. QED
      BY <3>1, <3>2
  <2>5. web' = web \/ web' = None \/ web'.stale
    <3>1. Restale => web' = None \/ web'.stale
      BY <1>1 DEF Restale, RequestType, Request
    <3>2. QED
      BY <2>2, <3>1
  <2>6. ActionsCurrent'
    BY <2>3, <2>4, <2>5, ActionsKept DEF ActionInv
  <2>7. QED
    BY <2>3, <2>6 DEF ActionInv, NumberMoved
<1>8. ASSUME NEW n \in Id, NEW due \in BOOLEAN, PollNode(n, due) PROVE ActionInv'
  <2>1. /\ list[n] # None
        /\ \E e \in Entry : list' = [list EXCEPT ![n] = e] /\ e # None
    BY <1>8, PollEffect
  <2>2. \A m \in Listed : m \in Listed'
    BY <1>1, <2>1 DEF Listed
  <2>3. UNCHANGED <<phys, queue, web>> /\ phase' \in {"action", "poll"}
    BY <1>8 DEF PollNode, bus
  <2>4. ActionsCurrent'
    BY <2>2, <2>3, ActionsKept DEF ActionInv
  <2>5. QED
    BY <2>3, <2>4 DEF ActionInv, NumberMoved
<1>9. CASE SaveNodeId \/ EndScan \/ SaveScan \/ OpenPort \/ BeginRound \/ Start
  <2>1. UNCHANGED <<phys, queue, web, list>>
    BY <1>9
    DEF SaveNodeId, EndScan, SaveScan, OpenPort, BeginRound, Start, Write,
        ChangeAndSnapshot, bus
  <2>2. phase' # "save"
    BY <1>9 DEF SaveNodeId, EndScan, SaveScan, OpenPort, BeginRound, Start, BeginPoll
  <2>3. ActionsCurrent'
    BY <2>1, ActionsKept DEF ActionInv, Listed
  <2>4. QED
    BY <2>2, <2>3 DEF ActionInv, NumberMoved
<1>10. CASE \E r \in [kind : {"set", "pass"}, node : Id, new : Id] : Check(r)
  <2>1. UNCHANGED <<phys, queue, list, phase, cur>> /\ web' # None /\ web'.node \in Listed
    <3>1. PICK r \in [kind : {"set", "pass"}, node : Id, new : Id] : Check(r)
      BY <1>10
    <3>2. web' = [kind |-> r.kind, node |-> r.node, new |-> r.new, stale |-> FALSE]
          /\ r.node \in Listed /\ UNCHANGED <<phys, queue, list, phase, cur>>
      BY <3>1 DEF Check, Enabled, bus, workerVars
    <3>3. web' \in Request
      BY <3>2 DEF Request
    <3>4. QED
      BY <3>2, <3>3, ConstantTypes
  <2>2. QED
    BY <2>1 DEF ActionInv, ActionsCurrent, NumberMoved, Listed
<1>11. CASE \/ UNCHANGED vars \/ SaveName \/ RequestRefresh \/ Unplug
            \/ \E d \in Device : Switch(d)
  <2>1. UNCHANGED <<phys, queue, web, list, phase, cur>>
    BY <1>11
    DEF vars, SaveName, Write, RequestRefresh, Unplug, Switch, bus, workerVars
  <2>2. ActionsCurrent'
    BY <2>1, ActionsKept DEF ActionInv, Listed
  <2>3. QED
    BY <2>1, <2>2 DEF ActionInv, NumberMoved
<1>12. QED
  BY <1>2, <1>3, <1>4, <1>5, <1>6, <1>7, <1>8, <1>9, <1>10, <1>11
  DEF Next, Worker, Web, Environment

\* An action reaches only devices that had its number when it was queued, however many
\* renumberings were queued before it (unless it is stale); one that is refused changes
\* nothing on the bus; a renumbering that is done has left the new number on the bus and
\* in the list, and the old one not in the list.
THEOREM ActionsAsAskedAlways == Spec => ActionsAsAsked
<1> DEFINE AsAsked ==
      /\ \A d \in Device : Touched(d) => cur'.stale \/ d \in cur'.chosen
      /\ (phase # "done" /\ phase' = "done") =>
           CASE result' = "refused" -> UNCHANGED <<phys, passAny>>
             [] result' = "ok" /\ cur'.kind = "set" /\ ~cur'.stale ->
                  /\ \E d \in Device : phys[d] = cur'.new
                  /\ list'[cur'.new] # None
                  /\ cur'.node = cur'.new \/ list'[cur'.node] = None
             [] OTHER -> TRUE
<1>1. Init => ActionInv
  BY EmptySeq DEF Init, ActionInv, ActionsCurrent, NumberMoved
<1>2. TypeInv /\ ActionInv /\ [Next]_vars => AsAsked
  <2> SUFFICES ASSUME TypeInv, ActionInv, [Next]_vars PROVE AsAsked
    OBVIOUS
  <2>1. BusType /\ RequestType
    BY DEF TypeInv, TypeOK
  <2>2. queue # <<>> => /\ Head(queue) \in Pending
                        /\ ~Head(queue).stale =>
                             \A d \in Device : phys[d] = Head(queue).node => d \in Head(queue).chosen
    BY <2>1, HeadPending DEF RequestType, ActionInv, ActionsCurrent
  <2>3. CASE ChangeNodeId
    <3>1. PICK a \in Pending : a = Head(queue)
      BY <2>3, ChangeNodeIdEffect DEF TypeInv
    <3>2. /\ queue # <<>> /\ cur' = a
          /\ \A d \in Device : phys'[d] # phys[d] => phys[d] = a.node
          /\ result' = "refused" => phys' = phys
          /\ Renumbers(a) \/ LeavesList
      BY <2>3, <3>1, ChangeNodeIdEffect DEF TypeInv
    <3>3. UNCHANGED passAny
      BY <2>3 DEF ChangeNodeId
    <3>4. \A d \in Device : Touched(d) => cur'.stale \/ d \in cur'.chosen
      BY <2>2, <3>1, <3>2, <3>3 DEF Touched
    <3>5. phase' = "done" => result' # "ok"
      BY <3>2 DEF Renumbers, LeavesList
    <3>6. QED
      BY <3>2, <3>3, <3>4, <3>5
  <2>4. CASE DisablePassAnyCards
    <3>1. PICK a \in Pending : a = Head(queue)
      BY <2>2, <2>4 DEF DisablePassAnyCards
    <3>2. queue # <<>> /\ cur' = a /\ UNCHANGED phys /\ a.kind = "pass" /\ a.node \in Id
      BY <2>4, <3>1 DEF DisablePassAnyCards, Pending
    <3>3. PICK out \in DisablePassAny(a) :
            passAny' = passAny \ out.off /\ result' = out.result
      BY <2>4, <3>1 DEF DisablePassAnyCards
    <3>4. out.off \subseteq Hear(a.node) /\ (out.result = "refused" => out.off = {})
      BY <3>3 DEF DisablePassAny
    <3>5. \A d \in Hear(a.node) : phys[d] = a.node
      BY <3>2, ConstantTypes DEF Hear
    <3>6. \A d \in Device : Touched(d) => cur'.stale \/ d \in cur'.chosen
      BY <2>2, <3>1, <3>2, <3>3, <3>4, <3>5 DEF Touched
    <3>7. result' = "refused" => passAny' = passAny
      BY <3>3, <3>4
    <3>8. QED
      BY <3>2, <3>6, <3>7
  <2>5. CASE SaveNodeId
    <3>1. /\ phase = "save" /\ result' \in {"ok", "unsaved"}
          /\ UNCHANGED <<phys, passAny, list, cur>>
      BY <2>5 DEF SaveNodeId, Write, bus
    <3>2. \A d \in Device : ~Touched(d)
      BY <3>1 DEF Touched
    <3>3. ~cur.stale => /\ \E d \in Device : phys[d] = cur.new
                        /\ list[cur.new] # None
                        /\ cur.node = cur.new \/ list[cur.node] = None
      BY <3>1 DEF ActionInv, NumberMoved
    <3>4. QED
      BY <3>1, <3>2, <3>3
  <2>6. CASE ~(ChangeNodeId \/ DisablePassAnyCards \/ SaveNodeId)
    <3>1. UNCHANGED <<phys, passAny>> /\ (phase' = "done" => phase = "done")
      <4>1. CASE OpenPort \/ BeginRound \/ ScanAddress \/ EndScan \/ SaveScan
        BY <4>1
        DEF OpenPort, BeginRound, ScanAddress, EndScan, SaveScan, BeginPoll, Write, bus
      <4>2. CASE \E n \in Id, due \in BOOLEAN : PollNode(n, due)
        BY <4>2 DEF PollNode, bus
      <4>3. CASE Queue \/ RequestRefresh \/ SaveName
        BY <4>3 DEF Queue, RequestRefresh, SaveName, Write, bus, workerVars
      <4>4. CASE \/ \E r \in [kind : {"set", "pass"}, node : Id, new : Id] : Check(r)
                 \/ \E n \in Id : RenameController(n)
        BY <4>4 DEF Check, RenameController, bus, workerVars
      <4>5. CASE (\E d \in Device : Switch(d)) \/ Unplug \/ Crash \/ Start \/ UNCHANGED vars
        BY <4>5 DEF Switch, Unplug, Crash, Start, vars, bus, workerVars
      <4>6. QED
        BY <2>6, <4>1, <4>2, <4>3, <4>4, <4>5 DEF Next, Worker, Web, Environment
    <3>2. QED
      BY <3>1 DEF Touched
  <2>7. QED
    BY <2>3, <2>4, <2>5, <2>6
<1>3. QED
  BY <1>1, <1>2, TypeInit, TypeStep, ActionInvStep, PTL DEF Spec, ActionsAsAsked
=============================================================================
