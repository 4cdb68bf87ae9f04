---------------------------- MODULE Controllers ----------------------------
(***************************************************************************)
(* The list of controllers and the RS-485 bus it describes: discovery by   *)
(* the 24H scan, the periodic 24H probe, the controller actions (a new     *)
(* node ID by 80H, Pass Any Cards off), and the saving of the list by the  *)
(* serial worker and the web server at once.                               *)
(*                                                                         *)
(* The steps of the worker's loop that other modules describe (25H and the *)
(* jobs on users) are left out; so is the clock.  A 24H or 80H exchange is *)
(* one step: the worker alone talks on the bus.  Frames are lost, but none *)
(* is late (EventCollection has those).                                    *)
(***************************************************************************)
EXTENDS Naturals, Sequences, FiniteSets

CONSTANTS
    Device,      \* controllers wired to the bus
    Id,          \* node IDs (1..254)
    InitPhys,    \* the ID each device answers to at the start
    InitList,    \* node IDs listed at the start
    Disabled,    \* those of them listed as disabled
    Scan,        \* scan_from..scan_to; Broadcast stands for 0
    Broadcast,   \* an address every device answers to
    None,
    MaxRequests, \* bound: actions requested
    MaxRenames,  \* bound: names given by an administrator
    MaxRefresh,  \* bound: presses of the Refresh button
    MaxEvents,   \* bound: devices switched on or off, the adapter unplugged
    MaxRestarts  \* bound: restarts of the server

Name == {"default", "given"}
Entry == [name : Name, online : BOOLEAN]
Stored == [Id -> Name \union {None}]

\* A snapshot of the list on its way to storage; alone: no other was on its way with it.
Saving == [snap : Stored, alone : BOOLEAN]

\* An action, with the devices that had the number when it was queued; stale: the
\* list changed between the check of the request and its queueing, or the number has
\* left the list since.
Pending == [kind : {"set", "pass"}, node : Id, new : Id,
            chosen : SUBSET Device, stale : BOOLEAN]
Request == [kind : {"set", "pass"}, node : Id, new : Id, stale : BOOLEAN]

ASSUME ControllersAssumption ==
    /\ IsFiniteSet(Device) /\ IsFiniteSet(Id) /\ Id \subseteq Nat
    /\ InitPhys \in [Device -> Id]
    /\ Disabled \subseteq InitList /\ InitList \subseteq Id
    /\ Broadcast \notin Id
    /\ Scan \subseteq Id \union {Broadcast}
    /\ None \notin Name \union Entry \union Id \union Request \union Saving
    /\ {MaxRequests, MaxRenames, MaxRefresh, MaxEvents, MaxRestarts} \subseteq Nat

VARIABLES
    \* the bus
    phys,      \* phys[d]: the node ID device d answers to
    passAny,   \* devices that open to any card
    on,        \* devices that are powered and connected
    dead,      \* the open port belongs to an adapter that was unplugged
    \* the server
    list,      \* controllers_: an entry for every listed node
    refresh,   \* refresh_requested_
    queue,     \* action_queue_
    phase,     \* where the worker's loop stands
    todo,      \* addresses still to scan, or nodes still to poll
    changed,   \* the scan in progress has to be saved
    cur,       \* the action in hand
    result,    \* its outcome
    web,       \* the request a web thread has checked and not yet queued
    save,      \* save[t]: the saving of the list by thread t
    stored,    \* the list as stored
    \* history and bounds
    missed,    \* devices of the range that the scan in progress did not hear
    overlap,   \* a save failed or met another one, and none since made up for it
    requests, renames, presses, events, restarts

bus == <<phys, passAny, on, dead>>
workerVars == <<phase, todo, changed, cur, result>>
storageVars == <<save, stored, overlap>>
boundVars == <<requests, renames, presses, events, restarts>>
vars == <<bus, list, refresh, queue, workerVars, web, storageVars, missed, boundVars>>

Thread == {"web", "worker"}
Phase == {"down", "closed", "action", "save", "done", "scan", "save_scan", "poll"}

NoAction == [kind |-> "none"]

\* refused: nothing was sent; failed: sent, not confirmed; unsaved: done, not saved.
Result == {"none", "ok", "refused", "failed", "unsaved"}

Listed == {n \in Id : list[n] # None}
Enabled == Listed \ Disabled

\* What saveControllers writes of the list.
Row(l) == [n \in Id |-> IF l[n] = None THEN None ELSE l[n].name]

BusType ==
    /\ phys \in [Device -> Id] /\ passAny \subseteq Device /\ on \subseteq Device
    /\ dead \in BOOLEAN

ListType == list \in [Id -> Entry \union {None}] /\ Disabled \subseteq Listed

RequestType ==
    /\ refresh \in BOOLEAN
    /\ queue \in Seq(Pending)
    /\ web \in Request \union {None}

WorkerType ==
    /\ phase \in Phase /\ todo \subseteq Id \union {Broadcast} /\ changed \in BOOLEAN
    /\ cur \in Pending \union {NoAction} /\ result \in Result
    /\ (cur # NoAction) <=> (phase \in {"save", "done"})

StorageType ==
    /\ save \in [Thread -> Saving \union {None}]
    /\ (save["worker"] # None) <=> (phase \in {"save", "save_scan"})
    /\ stored \in Stored

HistoryType ==
    /\ missed \subseteq Device /\ overlap \in BOOLEAN
    /\ requests \in 0 .. MaxRequests /\ renames \in 0 .. MaxRenames
    /\ presses \in 0 .. MaxRefresh /\ events \in 0 .. MaxEvents
    /\ restarts \in 0 .. MaxRestarts

\* The type invariant: the worker has an action exactly while it carries one out, and a
\* save on its way exactly while it makes one.
TypeOK ==
    BusType /\ ListType /\ RequestType /\ WorkerType /\ StorageType /\ HistoryType

Init ==
    /\ phys = InitPhys /\ passAny = Device /\ on \in SUBSET Device /\ dead = FALSE
    /\ list = [n \in Id |-> IF n \in InitList THEN [name |-> "default", online |-> FALSE]
                                              ELSE None]
    /\ stored = Row(list)
    /\ refresh = FALSE
    /\ queue = <<>>
    /\ phase = "closed" /\ todo = {} /\ changed = FALSE /\ cur = NoAction /\ result = "none"
    /\ web = None
    /\ save = [t \in Thread |-> None] /\ overlap = FALSE
    /\ missed = {}
    /\ requests = 0 /\ renames = 0 /\ presses = 0 /\ events = 0 /\ restarts = 0

-----------------------------------------------------------------------------
(***************************************************************************)
(* The bus.                                                                *)
(***************************************************************************)

\* The devices that hear a frame sent to address a.
Hear(a) == {d \in on : ~dead /\ (phys[d] = a \/ a = Broadcast)}

\* What readNodeId(a) may return: the Reader ID of a device that hears it, or None
\* when a frame is lost or several answers collide.
Probe(a) == {phys[d] : d \in Hear(a)} \union {None}

\* A device is switched on or off, or its cable is.
Switch(d) ==
    /\ events < MaxEvents
    /\ on' = IF d \in on THEN on \ {d} ELSE on \union {d}
    /\ events' = events + 1
    /\ UNCHANGED <<phys, passAny, dead, list, refresh, queue, workerVars, web,
                   storageVars, missed, requests, renames, presses, restarts>>

\* The USB adapter is unplugged.  Nothing ever closes the port: it stays dead, the
\* adapter plugged in again or not, until the server restarts.
Unplug ==
    /\ phase \notin {"down", "closed"} /\ ~dead /\ events < MaxEvents
    /\ dead' = TRUE
    /\ events' = events + 1
    /\ UNCHANGED <<phys, passAny, on, list, refresh, queue, workerVars, web,
                   storageVars, missed, requests, renames, presses, restarts>>

-----------------------------------------------------------------------------
(***************************************************************************)
(* The list and its storage.  saveControllers takes its snapshot under the *)
(* lock and writes it without: the web server and the worker may be inside *)
(* at once, and the older snapshot may be written last.  A change of the   *)
(* list and the snapshot that follows it are one step: what another thread *)
(* does between the two might as well come before both.                    *)
(***************************************************************************)

Other(t) == CHOOSE o \in Thread : o # t

\* Thread t changes the list to l and takes its snapshot.
ChangeAndSnapshot(t, l) ==
    LET met == save[Other(t)] # None IN
    /\ list' = l
    /\ save' = [save EXCEPT
                  ![t] = [snap |-> Row(l), alone |-> ~met],
                  ![Other(t)] = IF met THEN [@ EXCEPT !.alone = FALSE] ELSE @]

\* The write of the snapshot.  ok: it succeeded.
Write(t, ok) ==
    /\ save[t] # None
    /\ stored' = IF ok THEN save[t].snap ELSE stored
    /\ overlap' = ~(ok /\ save[t].alone)
    /\ save' = [save EXCEPT ![t] = None]
    /\ UNCHANGED <<bus, list, queue, changed, web, missed, boundVars>>

\* renameController changes a name, and saves the list; the request ends with the
\* write, whatever its outcome.
RenameController(n) ==
    /\ phase # "down" /\ save["web"] = None /\ renames < MaxRenames
    /\ n \in Listed
    /\ ChangeAndSnapshot("web", [list EXCEPT ![n].name = "given"])
    /\ renames' = renames + 1
    /\ UNCHANGED <<bus, refresh, queue, workerVars, web, stored, overlap, missed,
                   requests, presses, events, restarts>>

SaveName == \E ok \in BOOLEAN : Write("web", ok) /\ UNCHANGED <<refresh, phase, todo, cur, result>>

-----------------------------------------------------------------------------
(***************************************************************************)
(* Requests.  The web server checks one against a copy of the list, and    *)
(* queues the action in a second step.                                     *)
(***************************************************************************)

Check(r) ==
    /\ phase # "down" /\ web = None /\ requests < MaxRequests
    /\ r.node \in Enabled
    /\ r.kind = "set" => r.new \notin Listed \ {r.node}
    /\ web' = [kind |-> r.kind, node |-> r.node, new |-> r.new, stale |-> FALSE]
    /\ requests' = requests + 1
    /\ UNCHANGED <<bus, list, refresh, queue, workerVars, storageVars, missed,
                   renames, presses, events, restarts>>

Queue ==
    /\ web # None
    /\ queue' = Append(queue,
         [kind |-> web.kind, node |-> web.node, new |-> web.new,
          chosen |-> {d \in Device : phys[d] = web.node}, stale |-> web.stale])
    /\ web' = None
    /\ UNCHANGED <<bus, list, refresh, workerVars, storageVars, missed, boundVars>>

RequestRefresh ==
    /\ phase # "down" /\ presses < MaxRefresh
    /\ refresh' = TRUE
    /\ presses' = presses + 1
    /\ UNCHANGED <<bus, list, queue, workerVars, web, storageVars, missed, requests,
                   renames, events, restarts>>

-----------------------------------------------------------------------------
(***************************************************************************)
(* Controller actions.                                                     *)
(***************************************************************************)

\* Faulty variant of Conflict: the worker trusts the check made by the web server.
NoConflict(a) == FALSE

\* The new node is used by another listed controller; the check is repeated by the
\* worker, for the list may have changed since the request.
Conflict(a) == a.new \in Listed \ {a.node}

\* setNodeId: the IDs on the bus and the outcome.  24H first; then 80H, which every
\* device with the old number obeys, heard or not by us; then 24H to the new number.
SetNodeId(a) ==
    LET moved == [d \in Device |-> IF d \in Hear(a.node) THEN a.new ELSE phys[d]] IN
    {[phys |-> phys, result |-> "refused"]}
      \union (IF Hear(a.node) = {} THEN {}
              ELSE IF a.node = a.new THEN {[phys |-> phys, result |-> "ok"]}
              ELSE {[phys |-> phys, result |-> "failed"],
                    [phys |-> moved, result |-> "failed"],
                    [phys |-> moved, result |-> "ok"]})

\* disablePassAnyCards: 12H, then 20H, which is read back by 12H.
DisablePassAny(a) ==
    {[off |-> {}, result |-> "refused"]}
      \union (IF Hear(a.node) = {} THEN {}
              ELSE {[off |-> {}, result |-> "failed"],
                    [off |-> Hear(a.node), result |-> "failed"],
                    [off |-> Hear(a.node), result |-> "ok"]})

\* The entry moves to its new number, under the lock.
Renumbered(l, old, new) ==
    IF l[old] = None THEN l
    ELSE [n \in Id |-> IF n = new THEN [l[old] EXCEPT !.online = TRUE]
                       ELSE IF n = old THEN None ELSE l[n]]

\* A request checked against the list as it was before this step is now stale.
Restale == web' = IF web = None THEN None ELSE [web EXCEPT !.stale = TRUE]

\* The actions still queued, those marked that name the number a leaves.
Overtaken(waiting, a) ==
    [k \in 1 .. Len(waiting) |->
       IF waiting[k].node = a.node /\ a.new # a.node
       THEN [waiting[k] EXCEPT !.stale = TRUE]
       ELSE waiting[k]]

ChangeNodeId ==
    /\ phase = "action" /\ queue # <<>> /\ Head(queue).kind = "set"
    /\ LET a == Head(queue) IN
       /\ cur' = a
       /\ \E out \in (IF Conflict(a) THEN {[phys |-> phys, result |-> "refused"]}
                                     ELSE SetNodeId(a)) :
            /\ phys' = out.phys
            /\ result' = out.result
            /\ IF out.result = "ok"
               THEN /\ ChangeAndSnapshot("worker", Renumbered(list, a.node, a.new))
                    /\ Restale
                    /\ queue' = Overtaken(Tail(queue), a)
                    /\ phase' = "save"
               ELSE /\ phase' = "done"
                    /\ queue' = Tail(queue)
                    /\ UNCHANGED <<list, save, web>>
    /\ UNCHANGED <<passAny, on, dead, refresh, todo, changed, stored, overlap, missed,
                   boundVars>>

DisablePassAnyCards ==
    /\ phase = "action" /\ queue # <<>> /\ Head(queue).kind = "pass"
    /\ queue' = Tail(queue)
    /\ cur' = Head(queue)
    /\ \E out \in DisablePassAny(Head(queue)) :
         passAny' = passAny \ out.off /\ result' = out.result
    /\ phase' = "done"
    /\ UNCHANGED <<phys, on, dead, list, refresh, todo, changed, web, storageVars, missed,
                   boundVars>>

\* Faulty variant of SaveNodeId: a failed save returns to the loop at once.
SaveNodeIdReturns ==
    /\ phase = "save"
    /\ \E ok \in BOOLEAN :
         /\ Write("worker", ok)
         /\ result' = IF ok THEN "ok" ELSE "unsaved"
         /\ phase' = IF ok THEN "done" ELSE "action"
         /\ refresh' = (refresh \/ ok)
    /\ UNCHANGED <<todo, cur>>

\* The save of a renumbered list; only when it succeeds is the bus scanned again.
SaveNodeId ==
    /\ phase = "save"
    /\ \E ok \in BOOLEAN :
         /\ Write("worker", ok)
         /\ result' = IF ok THEN "ok" ELSE "unsaved"
         /\ refresh' = (refresh \/ ok)
    /\ phase' = "done" /\ UNCHANGED <<todo, cur>>

-----------------------------------------------------------------------------
(***************************************************************************)
(* Discovery and probes.                                                   *)
(***************************************************************************)

OpenPort ==
    /\ phase = "closed"
    /\ phase' = "action"
    /\ refresh' = TRUE
    /\ UNCHANGED <<bus, list, queue, todo, changed, cur, result, web, storageVars,
                   missed, boundVars>>

\* Faulty variant of BeginRound: a refresh only probes the controllers that are listed.
BeginRoundKnown ==
    /\ phase = "done" \/ (phase = "action" /\ queue = <<>>)
    /\ cur' = NoAction /\ result' = "none"
    /\ refresh' = FALSE
    /\ todo' = IF Enabled = {} THEN Scan ELSE Enabled
    /\ phase' = IF Enabled = {} THEN "scan" ELSE "poll"
    /\ UNCHANGED <<bus, list, queue, changed, web, storageVars, missed, boundVars>>

\* With no action queued or the one in hand done, the request to refresh is taken;
\* without one the bus is scanned only when no controller is enabled.
BeginRound ==
    /\ phase = "done" \/ (phase = "action" /\ queue = <<>>)
    /\ cur' = NoAction /\ result' = "none"
    /\ refresh' = FALSE
    /\ IF refresh \/ Enabled = {}
       THEN phase' = "scan" /\ todo' = Scan
       ELSE phase' = "poll" /\ todo' = Enabled
    /\ UNCHANGED <<bus, list, queue, changed, web, storageVars, missed, boundVars>>

\* The scan asks in ascending order, 0 before all others.
Asked(a) ==
    IF Broadcast \in todo THEN a = Broadcast ELSE \A b \in todo : a <= b

\* The entry of the reported ID, a new one if there is none.
Seen(l, id) ==
    [l EXCEPT ![id] = IF @ = None THEN [name |-> "default", online |-> TRUE]
                                  ELSE [@ EXCEPT !.online = TRUE]]

ScanAddress ==
    /\ phase = "scan"
    /\ \E a \in todo :
         /\ Asked(a)
         /\ todo' = todo \ {a}
         /\ \E id \in Probe(a) :
              /\ IF id = None
                 THEN /\ missed' = missed \union {d \in Device : phys[d] = a}
                      /\ UNCHANGED <<list, changed, web>>
                 ELSE /\ list' = Seen(list, id)
                      /\ changed' = TRUE
                      /\ missed' = missed
                      /\ IF list[id] = None THEN Restale ELSE UNCHANGED web
    /\ UNCHANGED <<bus, refresh, queue, phase, cur, result, storageVars, boundVars>>

\* The nodes to poll; with none the loop starts again.
BeginPoll ==
    /\ todo' = Enabled
    /\ phase' = IF Enabled = {} THEN "action" ELSE "poll"

\* Faulty variant of EndScan: what the scan found is not saved.
EndScanUnsaved ==
    /\ phase = "scan" /\ todo = {}
    /\ BeginPoll
    /\ changed' = FALSE /\ missed' = {}
    /\ UNCHANGED <<bus, list, refresh, queue, cur, result, web, storageVars, boundVars>>

\* A controller that answered, new or not, is reason to save the list, once for the whole
\* scan.
EndScan ==
    /\ phase = "scan" /\ todo = {}
    /\ IF changed
       THEN phase' = "save_scan" /\ ChangeAndSnapshot("worker", list) /\ UNCHANGED todo
       ELSE BeginPoll /\ UNCHANGED <<list, save>>
    /\ changed' = FALSE /\ missed' = {}
    /\ UNCHANGED <<bus, refresh, queue, cur, result, web, stored, overlap, boundVars>>

\* The outcome of that save is not looked at.
SaveScan ==
    /\ phase = "save_scan"
    /\ \E ok \in BOOLEAN : Write("worker", ok)
    /\ BeginPoll
    /\ UNCHANGED <<refresh, cur, result>>

\* Faulty variant of PollNode: a failed 24H leaves the controller as it was.
PollNodeOnlyUp(n, due) ==
    /\ phase = "poll" /\ n \in todo /\ \A m \in todo : n <= m
    /\ todo' = todo \ {n}
    /\ phase' = IF todo' = {} THEN "action" ELSE "poll"
    /\ \E id \in Probe(n), answered \in {FALSE} \union {TRUE : d \in Hear(n)} :
         list' = [list EXCEPT ![n].online = @ \/ answered \/ (due /\ id # None)]
    /\ UNCHANGED <<bus, refresh, queue, changed, cur, result, web, storageVars, missed,
                   boundVars>>

\* One node of the round: 24H if its 30 seconds are over, then 25H.  A controller that
\* answers either is online; only a failed 24H that no 25H makes up for is offline.
PollNode(n, due) ==
    /\ phase = "poll" /\ n \in todo /\ \A m \in todo : n <= m
    /\ todo' = todo \ {n}
    /\ phase' = IF todo' = {} THEN "action" ELSE "poll"
    /\ \E id \in Probe(n), answered \in {FALSE} \union {TRUE : d \in Hear(n)} :
         list' = [list EXCEPT ![n].online =
                    answered \/ (IF due THEN id # None ELSE @)]
    /\ UNCHANGED <<bus, refresh, queue, changed, cur, result, web, storageVars, missed,
                   boundVars>>

-----------------------------------------------------------------------------
(***************************************************************************)
(* The server stops or dies: the list is what was stored, the jobs and the *)
(* threads are gone; started again, nothing is online.                     *)
(***************************************************************************)

Crash ==
    /\ phase # "down" /\ restarts < MaxRestarts
    /\ phase' = "down"
    /\ restarts' = restarts + 1
    /\ todo' = {} /\ changed' = FALSE /\ cur' = NoAction /\ result' = "none"
    /\ queue' = <<>>
    /\ refresh' = FALSE /\ dead' = FALSE /\ web' = None
    /\ save' = [t \in Thread |-> None] /\ overlap' = FALSE
    /\ list' = [n \in Id |-> IF stored[n] = None THEN None
                             ELSE [name |-> stored[n], online |-> FALSE]]
    /\ missed' = {}
    /\ UNCHANGED <<phys, passAny, on, stored, requests, renames, presses, events>>

Start ==
    /\ phase = "down"
    /\ phase' = "closed"
    /\ UNCHANGED <<bus, list, refresh, queue, todo, changed, cur, result, web,
                   storageVars, missed, boundVars>>

Worker ==
    \/ OpenPort
    \/ ChangeNodeId \/ DisablePassAnyCards \/ SaveNodeId
    \/ BeginRound \/ ScanAddress \/ EndScan \/ SaveScan
    \/ \E n \in Id, due \in BOOLEAN : PollNode(n, due)

Web ==
    \/ \E r \in [kind : {"set", "pass"}, node : Id, new : Id] :
         (r.kind = "pass" => r.new = r.node) /\ Check(r)
    \/ Queue
    \/ RequestRefresh
    \/ \E n \in Id : RenameController(n)
    \/ SaveName

Environment == (\E d \in Device : Switch(d)) \/ Unplug \/ Crash \/ Start

Next == Worker \/ Web \/ Environment

\* The worker's loop always goes on, and 30 seconds always pass.
Fairness ==
    /\ WF_vars(Worker)
    /\ \A n \in Id : SF_vars(PollNode(n, TRUE))

Spec == Init /\ [][Next]_vars
FairSpec == Spec /\ Fairness

-----------------------------------------------------------------------------
(***************************************************************************)
(* Properties.                                                             *)
(***************************************************************************)

Touched(d) == phys'[d] # phys[d] \/ d \in passAny \ passAny'

\* An action reaches only devices that had its number when it was queued, however many
\* renumberings were queued before it and whatever the scans found in between (unless
\* the list changed between the request's check and its queueing, or the number has left
\* the list since); an action said to be refused changed nothing on the bus; a
\* renumbering said to be done left the new number on the bus and in the list, and the
\* old one not in the list.
ActionsAsAsked ==
    [][/\ \A d \in Device : Touched(d) => cur'.stale \/ d \in cur'.chosen
       /\ (phase # "done" /\ phase' = "done") =>
            CASE result' = "refused" -> UNCHANGED <<phys, passAny>>
              [] result' = "ok" /\ cur'.kind = "set" /\ ~cur'.stale ->
                   /\ \E d \in Device : phys[d] = cur'.new
                   /\ list'[cur'.new] # None
                   /\ cur'.node = cur'.new \/ list'[cur'.node] = None
              [] OTHER -> TRUE]_vars

Saved == changed = FALSE /\ \A t \in Thread : save[t] = None

\* Once every thread has ended its saving, storage holds the numbers and the names of the
\* list, unless a save failed or two of them met and none has succeeded alone since.
NumbersStored == Saved /\ ~overlap => stored = Row(list)

\* Every device in the range that the scan did not miss is listed.
Complete ==
    \A d \in Device : phys[d] \in Scan => list[phys[d]] # None \/ d \in missed

\* A request to refresh is followed by a scan that lists every controller it hears, those
\* included that were on the bus when the list already had others.
RefreshDiscovers ==
    refresh ~> (phase = "down" \/ (phase = "scan" /\ todo = {} /\ Complete))

\* An enabled controller that falls silent is in the end shown offline for good.
SilentGoesOffline ==
    \A n \in Id \ Disabled :
        <>[](phase # "down" /\ Hear(n) = {})
          => <>[](list[n] = None \/ ~list[n].online)
=============================================================================
