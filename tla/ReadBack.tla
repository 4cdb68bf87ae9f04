------------------------------ MODULE ReadBack ------------------------------
(***************************************************************************)
(* What is read back from the controllers: the users at given addresses    *)
(* (87H, compared with the registry as it was when the job was requested), *)
(* and a search of the EEPROM for a card (12H).  Both are long jobs, which *)
(* the worker's loop carries out in batches, so that polling goes on; the  *)
(* web server adds jobs meanwhile, and the job tables forget the oldest.   *)
(*                                                                         *)
(* A read is two steps, as in the code: the task is taken under the lock,  *)
(* and its result is recorded under the lock again.  Jobs and queues are   *)
(* in memory only, so a restart is a new beginning and is left out.        *)
(***************************************************************************)
EXTENDS Naturals, Sequences, FiniteSets, SequencesExt, FiniteSetsExt

CONSTANTS
    Node,            \* enabled controllers, numbered
    MaxAddr,         \* highest user address of a controller (1023)
    Locals,          \* bound: registries; what is at each address of the system
    Selections,      \* bound: the controllers selected in a request
    AddressLists,    \* bound: addresses an administrator asks for
    Searches,        \* bound: ranges and block sizes of searches
    Planted,         \* Planted[n]: where in the EEPROM of n the card's bytes begin
    PlantedRecords,  \* PlantedRecords[n]: where the 87H record of a user begins
    Length,          \* bytes of the longest pattern
    Overlap,         \* bytes read beyond a block (12)
    Size,            \* bytes of EEPROM (0x10000)
    MaxReadJobs,     \* read_jobs_ remembered (20)
    MaxSearchJobs,   \* eeprom_jobs_ remembered (12)
    ReadBatch,       \* reads of users per loop (6)
    SearchBatch,     \* blocks per loop (4)
    MaxResults,      \* matches kept (500)
    None,
    MaxReads,        \* bound: read jobs requested
    MaxSearches      \* bound: searches requested

\* At an address of the system: nobody, an enabled user with a card, or another one.
Local == {"nobody", "active", "inactive"}
Addr == 0 .. MaxAddr

ASSUME ReadBackAssumption ==
    /\ IsFiniteSet(Node) /\ Node \subseteq Nat
    /\ Selections \subseteq SUBSET Node \ {{}}
    /\ MaxAddr \in Nat
    /\ Locals \subseteq [Addr -> Local]
    /\ AddressLists \subseteq SUBSET Addr
    /\ {MaxReadJobs, MaxSearchJobs, ReadBatch, SearchBatch, MaxResults} \subseteq Nat \ {0}
    /\ {Overlap, Size, MaxReads, MaxSearches} \subseteq Nat
    /\ Length \in 1 .. Overlap + 1 /\ Length <= Size
    /\ \A x \in Searches : x.start <= x.end /\ x.end < Size /\ x.block > 0
    /\ Planted \in [Node -> SUBSET (0 .. Size - Length)]
    /\ PlantedRecords \in [Node -> SUBSET (0 .. Size - Length)]

VARIABLES
    readQueue,    \* read_queue_
    readJobs,     \* read_jobs_
    nextRead,     \* next_read_id_
    searchQueue,  \* eeprom_queue_
    searchJobs,   \* eeprom_jobs_
    nextSearch,   \* next_eeprom_id_
    turn,         \* the batch the worker is in
    left,         \* reads left of that batch
    task,         \* the read in hand
    \* history
    asked,        \* asked[j]: every controller and address of read job j, in order
    visited,      \* visited[j]: what read job j has read, in order
    searched,     \* searched[j]: the controllers of search j
    lost          \* lost[j]: the blocks search j could not read

readVars == <<readQueue, readJobs, nextRead, asked, visited>>
searchVars == <<searchQueue, searchJobs, nextSearch, searched, lost>>
workerVars == <<turn, left, task>>
vars == <<readVars, searchVars, workerVars>>

Status == {"match", "diff", "missing", "unknown", "unverified", "empty", "error"}
State == {"absent", "queued", "running", "completed"}

ReadId == 1 .. MaxReads
SearchId == 1 .. MaxSearches

\* Sets in ascending order: an administrator's selection is sorted and has no duplicates.
Ascending(S) == SetToSortSeq(S, <)
Before(x, y) == x[1] < y[1] \/ (x[1] = y[1] /\ x[2] < y[2])

ReadJob == [state : State, total : Nat, completed : Nat, count : [Status -> Nat]]
NoReadJob ==
    [state |-> "absent", total |-> 0, completed |-> 0, count |-> [t \in Status |-> 0]]
PendingRead == [id : ReadId, local : Locals, nodes : Seq(Node), addrs : Seq(Addr),
                node : Nat, addr : Nat]

\* A match: the controller, the address, and whether the 87H record matched.
Match == [node : Node, pos : 0 .. Size, record : BOOLEAN]
SearchJob == [state : State, total : Nat, completed : Nat, failed : Nat,
              matches : SUBSET Match, found : Nat, truncated : BOOLEAN,
              range : Searches \union {None}, known : SUBSET Node]
NoSearchJob ==
    [state |-> "absent", total |-> 0, completed |-> 0, failed |-> 0, matches |-> {},
     found |-> 0, truncated |-> FALSE, range |-> None, known |-> {}]
PendingSearch == [id : SearchId, range : Searches, nodes : Seq(Node), compact : BOOLEAN,
                  probed : SUBSET Node, known : SUBSET Node, node : Nat, next : Nat]

NoTask == [kind |-> "none"]
ReadTask == [kind : {"read"}, id : ReadId, node : Node, addr : Addr, local : Local,
             last : BOOLEAN]
SearchTask == [kind : {"search"}, id : SearchId, node : Node, start : Nat, range : Searches,
               probe : BOOLEAN, known : BOOLEAN, last : BOOLEAN]

\* The type invariant; the cursors of a queued job point at something to read.
TypeOK ==
    /\ readQueue \in Seq(PendingRead)
    /\ \A i \in 1 .. Len(readQueue) :
         LET p == readQueue[i] IN
         p.node \in 1 .. Len(p.nodes) + 1 /\ p.addr \in 1 .. Len(p.addrs)
    /\ readJobs \in [ReadId -> ReadJob] /\ nextRead \in Nat \ {0}
    /\ searchQueue \in Seq(PendingSearch)
    /\ \A i \in 1 .. Len(searchQueue) :
         LET p == searchQueue[i] IN
         /\ p.node \in 1 .. Len(p.nodes) + 1 /\ p.next \in p.range.start .. p.range.end
         /\ p.known \subseteq p.probed
    /\ searchJobs \in [SearchId -> SearchJob] /\ nextSearch \in Nat \ {0}
    /\ turn \in {"search", "read"} /\ left \in 0 .. ReadBatch + SearchBatch
    /\ task \in ReadTask \union SearchTask \union {NoTask}
    /\ asked \in [ReadId -> Seq(Node \X Addr)] /\ visited \in [ReadId -> Seq(Node \X Addr)]
    /\ searched \in [SearchId -> SUBSET Node]
    /\ lost \in [SearchId -> SUBSET (Node \X Nat)]

Init ==
    /\ readQueue = <<>> /\ readJobs = [j \in ReadId |-> NoReadJob] /\ nextRead = 1
    /\ searchQueue = <<>> /\ searchJobs = [j \in SearchId |-> NoSearchJob] /\ nextSearch = 1
    /\ turn = "search" /\ left = SearchBatch /\ task = NoTask
    /\ asked = [j \in ReadId |-> <<>>] /\ visited = asked
    /\ searched = [j \in SearchId |-> {}]
    /\ lost = [j \in SearchId |-> {}]

\* The table keeps the newest jobs: one that is max older than the new one is forgotten,
\* done or not.
Forget(table, new, max, absent) ==
    [j \in DOMAIN table |-> IF j + max <= new THEN absent ELSE table[j]]

-----------------------------------------------------------------------------
(***************************************************************************)
(* Reading users.                                                          *)
(***************************************************************************)

\* Address 0 is a user address like another, but queueUserRead leaves it out.
Readable(addrs) == {a \in addrs : a > 0}

QueueUserRead(nodes, addrs, local) ==
    LET as == Readable(addrs)
        state == IF as = {} THEN "completed" ELSE "queued" IN
    /\ nextRead <= MaxReads
    /\ readJobs' =
         Forget([readJobs EXCEPT ![nextRead] =
                   [NoReadJob EXCEPT !.state = state,
                                     !.total = Cardinality(nodes) * Cardinality(as)]],
                nextRead, MaxReadJobs, NoReadJob)
    /\ readQueue' =
         IF as = {} THEN readQueue
         ELSE Append(readQueue,
                [id |-> nextRead, local |-> local, nodes |-> Ascending(nodes),
                 addrs |-> Ascending(as), node |-> 1, addr |-> 1])
    /\ nextRead' = nextRead + 1
    /\ asked' = [asked EXCEPT ![nextRead] =
                    SetToSortSeq(nodes \X as, Before)]
    /\ UNCHANGED <<searchVars, workerVars, visited>>

\* Faulty variant of Advance: the last address is compared with the wrong bound.
AdvancePast(p) ==
    IF p.addr <= Len(p.addrs) THEN [p EXCEPT !.addr = @ + 1]
                              ELSE [p EXCEPT !.addr = 1, !.node = @ + 1]

\* The cursor after one address: the next address, or the first of the next controller.
Advance(p) ==
    IF p.addr < Len(p.addrs) THEN [p EXCEPT !.addr = @ + 1]
                             ELSE [p EXCEPT !.addr = 1, !.node = @ + 1]

\* Faulty variant of TakeRead: a forgotten job is skipped and stays at the head of the queue.
TakeReadOfForgotten ==
    /\ turn = "read" /\ left > 0 /\ task = NoTask /\ readQueue # <<>>
    /\ left' = left - 1
    /\ LET p == Head(readQueue)
           q == Advance(p) IN
       IF readJobs[p.id].state = "absent"
       THEN UNCHANGED <<readQueue, readJobs, task>>
       ELSE /\ readJobs' = [readJobs EXCEPT ![p.id].state = "running"]
            /\ readQueue' = <<q>> \o Tail(readQueue)
            /\ task' = [kind |-> "read", id |-> p.id, node |-> p.nodes[p.node],
                        addr |-> p.addrs[p.addr], local |-> p.local[p.addrs[p.addr]],
                        last |-> q.node > Len(q.nodes)]
    /\ UNCHANGED <<nextRead, asked, visited, searchVars, turn>>

\* The read batch begins its next read; a job the table has forgotten is given up.
TakeRead ==
    /\ turn = "read" /\ left > 0 /\ task = NoTask /\ readQueue # <<>>
    /\ left' = left - 1
    /\ LET p == Head(readQueue)
           q == Advance(p) IN
       IF readJobs[p.id].state = "absent"
       THEN /\ readQueue' = Tail(readQueue)
            /\ UNCHANGED <<readJobs, task>>
       ELSE /\ readJobs' = [readJobs EXCEPT ![p.id].state = "running"]
            /\ readQueue' = <<q>> \o Tail(readQueue)
            /\ task' = [kind |-> "read", id |-> p.id, node |-> p.nodes[p.node],
                        addr |-> p.addrs[p.addr], local |-> p.local[p.addrs[p.addr]],
                        last |-> q.node > Len(q.nodes)]
    /\ UNCHANGED <<nextRead, asked, visited, searchVars, turn>>

\* What 87H may tell: an error, an empty slot, or a record - one without a card number in
\* it, one that agrees with the user, or one that does not.
Answer == {"error", "empty", "compact", "same", "other"}

Classify(local, answer) ==
    CASE answer = "error" -> "error"
      [] answer = "empty" /\ local = "active" -> "missing"
      [] answer = "empty" /\ local = "inactive" -> "match"
      [] answer = "empty" /\ local = "nobody" -> "empty"
      [] answer \notin {"error", "empty"} /\ local = "nobody" -> "unknown"
      [] answer = "compact" /\ local # "nobody" -> "unverified"
      [] answer = "same" /\ local # "nobody" -> "match"
      [] answer = "other" /\ local # "nobody" -> "diff"

\* The result is counted, if the job is still known (the list of results, from which empty
\* slots of nobody may be left out, is not modelled).  The last read ends the job and takes
\* it off the queue.
RecordRead ==
    /\ task.kind = "read"
    /\ \E answer \in Answer :
         LET status == Classify(task.local, answer) IN
         readJobs' =
           IF readJobs[task.id].state = "absent" THEN readJobs
           ELSE [readJobs EXCEPT ![task.id] =
                   [@ EXCEPT !.completed = @ + 1,
                             !.count[status] = @ + 1,
                             !.state = IF task.last THEN "completed" ELSE @]]
    /\ visited' = [visited EXCEPT ![task.id] = Append(@, <<task.node, task.addr>>)]
    /\ readQueue' = IF task.last THEN Tail(readQueue) ELSE readQueue
    /\ left' = IF task.last THEN 0 ELSE left
    /\ task' = NoTask
    /\ UNCHANGED <<nextRead, asked, searchVars, turn>>

-----------------------------------------------------------------------------
(***************************************************************************)
(* Searching the EEPROM.                                                   *)
(***************************************************************************)

\* Blocks of a range, the last one shorter when the range is no multiple of a block.
Blocks(range) == (range.end - range.start + range.block) \div range.block

\* A search is asked for a range checked by the web server; compact: also for the 87H
\* record of a user.
QueueSearch(nodes, range, compact) ==
    /\ nextSearch <= MaxSearches
    /\ searchJobs' =
         Forget([searchJobs EXCEPT ![nextSearch] =
                   [NoSearchJob EXCEPT !.state = "queued", !.range = range,
                                       !.total = Cardinality(nodes) * Blocks(range)]],
                nextSearch, MaxSearchJobs, NoSearchJob)
    /\ searchQueue' =
         Append(searchQueue,
           [id |-> nextSearch, range |-> range, nodes |-> Ascending(nodes),
            compact |-> compact, probed |-> {}, known |-> {}, node |-> 1,
            next |-> range.start])
    /\ nextSearch' = nextSearch + 1
    /\ searched' = [searched EXCEPT ![nextSearch] = nodes]
    /\ UNCHANGED <<readVars, workerVars, lost>>

\* The cursor after one block.
NextBlock(p) ==
    IF p.next + p.range.block <= p.range.end
    THEN [p EXCEPT !.next = @ + p.range.block]
    ELSE [p EXCEPT !.next = p.range.start, !.node = @ + 1]

\* The search batch begins its next block; the first one of a controller reads the user's
\* record there before it.
TakeBlock ==
    /\ turn = "search" /\ left > 0 /\ task = NoTask /\ searchQueue # <<>>
    /\ left' = left - 1
    /\ LET p == Head(searchQueue)
           n == p.nodes[p.node]
           probe == p.compact /\ n \notin p.probed
           q == [NextBlock(p) EXCEPT !.probed = IF probe THEN @ \union {n} ELSE @] IN
       IF searchJobs[p.id].state = "absent"
       THEN /\ searchQueue' = Tail(searchQueue)
            /\ UNCHANGED <<searchJobs, task>>
       ELSE /\ searchJobs' = [searchJobs EXCEPT ![p.id].state = "running"]
            /\ searchQueue' = <<q>> \o Tail(searchQueue)
            /\ task' = [kind |-> "search", id |-> p.id, node |-> n, start |-> p.next,
                        range |-> p.range, probe |-> probe, known |-> n \in p.known,
                        last |-> q.node > Len(q.nodes)]
    /\ UNCHANGED <<nextSearch, searched, lost, readVars, turn>>

\* 87H is read for the record; the queue keeps it for the controller's other blocks and the
\* job says whether there is one (its compact_probes).
Probe ==
    /\ task.kind = "search" /\ task.probe
    /\ \E known \in BOOLEAN :
         LET Known(x) == IF known THEN [x EXCEPT !.known = @ \union {task.node}] ELSE x IN
         /\ task' = [task EXCEPT !.probe = FALSE, !.known = known]
         /\ searchQueue' = <<Known(Head(searchQueue))>> \o Tail(searchQueue)
         /\ searchJobs' = [searchJobs EXCEPT ![task.id] =
                             IF @.state = "absent" THEN @ ELSE Known(@)]
    /\ UNCHANGED <<nextSearch, searched, lost, readVars, turn, left>>

\* The bytes of the block itself, and those read: some more, for what crosses its border.
CoreLen(x) == Min({x.range.block, x.range.end - x.start + 1})

\* Faulty variant of ReadLen: nothing is read beyond the block.
ReadLenOfBlock(x) == Min({CoreLen(x), Size - x.start})

ReadLen(x) == Min({CoreLen(x) + Overlap, Size - x.start})

\* Occurrences in the bytes read that begin inside the block.
Occurrences(x, begins) ==
    {b \in begins : b \in x.start .. x.start + CoreLen(x) - 1
                    /\ b + Length <= x.start + ReadLen(x)}
Matches(x) ==
    {[node |-> x.node, pos |-> b, record |-> FALSE] : b \in Occurrences(x, Planted[x.node])}
    \union
    {[node |-> x.node, pos |-> b, record |-> TRUE] :
        b \in IF x.known THEN Occurrences(x, PlantedRecords[x.node]) ELSE {}}

\* What a job keeps of the matches found: as many as there is room for.
Kept(matches, found) ==
    {S \in SUBSET found :
        Cardinality(S) = Min({Cardinality(found), MaxResults - Cardinality(matches)})}

\* 12H fails - no answer, a refusal, too few bytes - or delivers the bytes.
ReadEeprom(x) == {[ok |-> FALSE, found |-> {}], [ok |-> TRUE, found |-> Matches(x)]}

\* The outcome of 12H is recorded if the job is still known.
RecordBlock ==
    /\ task.kind = "search" /\ ~task.probe
    /\ \E out \in ReadEeprom(task) :
         LET ok == out.ok
             found == out.found IN
         /\ \E kept \in Kept(searchJobs[task.id].matches, found) :
              searchJobs' =
                IF searchJobs[task.id].state = "absent" THEN searchJobs
                ELSE [searchJobs EXCEPT ![task.id] =
                        [@ EXCEPT !.completed = @ + 1,
                                  !.failed = IF ok THEN @ ELSE @ + 1,
                                  !.matches = @ \union kept,
                                  !.found = @ + Cardinality(kept),
                                  !.truncated = @ \/ kept # found,
                                  !.state = IF task.last THEN "completed" ELSE @]]
         /\ lost' = IF ok THEN lost
                    ELSE [lost EXCEPT ![task.id] = @ \union {<<task.node, task.start>>}]
    /\ searchQueue' = IF task.last THEN Tail(searchQueue) ELSE searchQueue
    /\ left' = IF task.last THEN 0 ELSE left
    /\ task' = NoTask
    /\ UNCHANGED <<nextSearch, searched, readVars, turn>>

-----------------------------------------------------------------------------
\* A batch ends after so many reads, with a job's last read or with nothing to do; the
\* worker does the rest of its loop and comes back.
EndBatch ==
    /\ task = NoTask
    /\ left = 0 \/ (turn = "search" /\ searchQueue = <<>>) \/ (turn = "read" /\ readQueue = <<>>)
    /\ IF turn = "search" THEN turn' = "read" /\ left' = ReadBatch
                          ELSE turn' = "search" /\ left' = SearchBatch
    /\ UNCHANGED <<readVars, searchVars, task>>

Worker == TakeRead \/ RecordRead \/ TakeBlock \/ Probe \/ RecordBlock \/ EndBatch

\* The web server takes requests for controllers that are enabled.
Web ==
    \E nodes \in Selections :
        \/ \E addrs \in AddressLists, local \in Locals : QueueUserRead(nodes, addrs, local)
        \/ \E range \in Searches, compact \in BOOLEAN : QueueSearch(nodes, range, compact)

Next == Worker \/ Web

Spec == Init /\ [][Next]_vars

\* The worker keeps looping while the port is open.
FairSpec == Spec /\ WF_vars(Worker)

-----------------------------------------------------------------------------
(***************************************************************************)
(* Properties.                                                             *)
(***************************************************************************)

\* What a job of reads says is what was done: it counts every answer once, and once it is
\* completed every address of every controller was read, once and in order - whatever other
\* jobs and batches were in between.  (Address 0 is not among them, see Readable.)
ReadsExact ==
    \A j \in ReadId : LET job == readJobs[j] IN
        job.state # "absent" =>
            /\ job.total = Len(asked[j])
            /\ job.completed = Len(visited[j])
            /\ job.completed = FoldFunction(+, 0, job.count)
            /\ IsPrefix(visited[j], asked[j])
            /\ job.state = "completed" => visited[j] = asked[j]

\* Whether a search could read the block in which position b of controller n lies.
BlockRead(j, range, n, b) ==
    <<n, range.start + range.block * ((b - range.start) \div range.block)>> \notin lost[j]

\* A search that is completed has found every occurrence in its range that begins in a block
\* it could read, one across the border of two blocks too, and none twice; fewer only if it
\* says that the list is cut off.
SearchExact ==
    \A j \in SearchId : LET job == searchJobs[j] IN
        job.state # "absent" =>
            /\ job.failed = Cardinality(lost[j])
            /\ job.completed <= job.total
            /\ job.found = Cardinality(job.matches)
            /\ job.state = "completed" =>
                 LET there ==
                       {x \in Match :
                           /\ x.node \in searched[j]
                           /\ x.pos \in job.range.start .. job.range.end
                           /\ IF x.record THEN x.node \in job.known
                                               /\ x.pos \in PlantedRecords[x.node]
                                          ELSE x.pos \in Planted[x.node]
                           /\ BlockRead(j, job.range, x.node, x.pos)} IN
                 /\ job.completed = job.total
                 /\ job.matches \subseteq there
                 /\ ~job.truncated => job.matches = there

\* Both kinds of jobs report exactly what was read.
ReadBackExact == ReadsExact /\ SearchExact

\* Every job is completed, unless newer ones pushed it out of the table.
EveryReadEnds ==
    /\ \A j \in ReadId : readJobs[j].state \in {"queued", "running"} ~>
                             readJobs[j].state \in {"completed", "absent"}
    /\ \A j \in SearchId : searchJobs[j].state \in {"queued", "running"} ~>
                               searchJobs[j].state \in {"completed", "absent"}
=============================================================================
