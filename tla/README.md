# Monk_SKUD_UNEX: TLA+ models and proofs

Monk_SKUD_UNEX is a C++ server for access control and attendance. It talks to
UNEX 721 controllers over one RS-485 line, keeps users, cards and an event
journal in MariaDB (or CSV files), derives arrivals and departures, sends
Telegram notifications and reports, and is administered over HTTP. This
directory models the parts in which several actors, failures or long
sequences of operations meet. Paths below are relative to the repository.

## 1. The system

### Components

| Component | State | Operations | Where | Module |
|---|---|---|---|---|
| Serial worker (`ControllerManager::loop`, one thread) | the port, per-node probe and clock deadlines | each turn: EEPROM batch, user-read batch, one action, one attendance batch, one deletion, one upload; then a scan if asked for, and for every enabled node 24H / 25H / 23H | `src/controllers/ControllerManager.cpp` 800-960 | one module per kind of work, below |
| Event collection | queue and table of manual read jobs; the controllers' FIFOs (outside) | 25H, `handleControllerEvent`, 37H; `queueAttendanceRead` | same file, 222-234, 637-753; `src/unex/Unex721Protocol.cpp` 100-116, 201-216 | `EventCollection` |
| Attendance engine | `states_` (presence per user, or per unowned card), `activities_`; their saved copies; the journal | `onControllerAccessEvent`, `recordControllerRawEvent`, `persistLocked`, `refreshUserMetadata`, `resetSiteActivity`, constructor, `presentUsers`, `todayAttendance` | `src/attendance/AttendanceEngine.cpp`, `src/storage/*` | `Attendance` |
| Upload and delete jobs | two queues, two tables of 20 jobs; user slots and the Pass Any Cards option of every controller (outside) | `queueUserUpload`, `queueUserDelete`, `processOneUserUpload`, `processOneUserDelete`, 83H/87H exchanges | `ControllerManager.cpp` 177-192, 236-249, 504-575, 755-799; `Unex721Protocol.cpp` 234-416 | `UserSync` |
| User registry, departments | `users_`, `departments_`, their tables or CSV files | `upsert`, `erase`, `assignCard`, `removeCard`, `ensureUserForCard`, `importCsv`, `load`, `save`; `add`, `rename`, `erase`, `ensure`; the handlers of the web server that combine them | `src/users/UserManager.cpp`, `src/departments/DepartmentManager.cpp`, `src/web/WebServer.cpp` 597-708 | `UserRegistry` |
| Saved files | `<path>` and `<path>.tmp` of every CSV and of `system.conf` | write the temporary file, rename, on failure remove and rename again; read at the start | `Config.cpp` 9-24, `FileStore.cpp` 87-99, `UserManager.cpp` 132-189, `DepartmentManager.cpp` 38, `ControllerManager.cpp` 89-131 | `CsvFile` |
| Controllers and actions | `controllers_`, `action_queue_`, `refresh_requested_`; node IDs and options of the devices (outside) | scan, 24H probe, disable Pass Any Cards, set node ID, rename, `saveControllers` | `ControllerManager.cpp` 194-216, 577-635, 800-960; `Unex721Protocol.cpp` 118-199, 303-328, 418-541 | `Controllers` |
| Read-back batches | two queues, tables of 20 and of 12 jobs | 87H reads of users, 12H search of the EEPROM | `ControllerManager.cpp` 259-502; `Unex721Protocol.cpp` 544-581 | `ReadBack` |
| Telegram notifier | queue of passes, `send_mu_` | `enqueue`, `loop`, `sendDocument` | `src/telegram/TelegramNotifier.cpp` | `Notifier` |
| Report schedule | settings, last attempt and status as keys of the configuration | `schedulerLoop`, `saveSchedule`, `isScheduleDue`, `triggerKey`, `scheduledRange`, `sendToTelegram` | `src/reports/ReportManager.cpp` | `ReportSchedule` |
| Report building, web routing and sessions, metrics, SOYAL text, codec, user interfaces, install scripts | settings and formats | I/O, parsing, formatting | `src/reports`, `src/web`, `src/system`, `src/import`, `src/utils`, `web`, `android` | not modelled (section 6) |

### How they interact

* The **worker** is the only thread that uses the serial port, and owns what is
  on the line. Web threads hand it jobs through queues, each with a mutex, and
  read job tables that the worker updates.
* `handleControllerEvent` calls the **attendance engine** between 25H and 37H;
  the engine holds its mutex from the look-up of the card to the end of
  `persistLocked`, and calls the notifier after it.
* **Web threads**, one per request, change the registry first and call
  `refreshUserMetadata` second, with nothing to keep the worker out in between.
  The managers lock a change and the snapshot that `save` takes, each by
  itself, and write the snapshot without the lock.
* The **notifier**'s thread takes passes off a queue in memory; reports and
  test messages are sent by other threads, all under `send_mu_`.
* The **scheduler**'s thread keeps its marks (last attempt, status) among the
  keys of the configuration that web threads set and replace.
* **Controllers** keep events in a FIFO until 37H and users in slots 0..1023;
  they answer, do not answer, or answer late; every device that has a node ID
  obeys a frame sent to it.
* **Storage** calls may fail; what the caller does about it differs from call
  to call (it stops at the journal insert, and ignores the saves of presence,
  of a scanned list and of the scheduler's mark).

### What is hard

At-least-once delivery of events with effects that must happen once; replies
that cannot be told from one another; a crash between any two of insert, save
and 37H; two controllers' backlogs out of order; job tables that drop entries
of running jobs; jobs that act on snapshots, and actions on a number that means
another device by then; snapshots written in another order than they were
taken; partial failures over several controllers; registry and presence changed
by different threads; settings read key by key while they are written.
PROJECT.json lists the hazards with their lines, and the properties that watch
over them.

## 2. The modules

| Module | What it is |
|---|---|
| `EventLedger` | abstract: an event leaves its controller's FIFO only from the head, and only when it is journalled; rows are never withdrawn |
| `EventCollection` | the worker's 25H / store / 37H rounds, background and manual, with the line, faults and restarts |
| `EventCollectionProofs` | proofs about it |
| `Attendance` | what becomes of an event between 25H and 37H |
| `AttendanceProofs` | proofs about it |
| `MCAttendance` | its instances: who owns which card at the start |
| `UserSync` | upload, full synchronization and deletion jobs; the registry they concern |
| `UserSyncProofs` | proofs about it |
| `MCUserSync` | its instances: two users, the forms an administrator submits |
| `UserRegistry` | users and departments under concurrent requests, their transactions, the start that merges CSV files |
| `UserRegistryProofs` | proofs about it |
| `MCUserRegistry` | its instance: fifteen requests, two users, leftover files |
| `SnapshotFile` | abstract: a file that holds one whole version, never older than one reported stored |
| `CsvFile` | how every file is saved: temporary file, rename, fallback, two threads, crashes |
| `CsvFileProofs` | proofs about it, the refinement of `SnapshotFile` among them |
| `Controllers` | the list of controllers, the bus, scan and probe, controller actions, saving of the list |
| `ControllersProofs` | proofs about it |
| `MCControllers` | its instances: what is wired |
| `ReportSchedule` | the report scheduler and the configuration it shares with the web server |
| `ReportScheduleProofs` | proofs about it |
| `Notifier` | the queue of Telegram notifications |
| `NotifierProofs` | proofs about it |
| `ReadBack` | the batches that read users and EEPROM back |
| `MCReadBack` | its instance: two controllers and a seven byte EEPROM |

The modules that model parts of one component agree on its interface. In
`EventCollection` the step `StoreEvent` is all of `handleControllerEvent`; in
`Attendance` the 25H / 37H exchange is a round that only 37H can spoil.
`UserRegistry` has the saves that `UserSync` takes as one step that may fail;
`CsvFile` has the steps of a save that `Controllers` and `ReportSchedule` take
as one.

### EventCollection

`pc` is the place of the worker: `sweep` (top of `loop`, or between two nodes),
`ask` (25H to be written), `await25`, `store` (`handleControllerEvent` up to
37H), `remove` (37H to be written), `await37`. A *round* is the time from the
choice of a node to its end; `cur` is the node and the event in hand, with the
manual job (0: background). `BeginBatch` and `NextEvent` are
`processAttendanceReadBatch`, which takes the front job without popping it and
pops it when the job ends; `EventFailed` has the code's oddity that an error
ends the batch only if the job still has a table entry. `air` and `rx` are the
line and the receive buffer: `OldestAnswered` and `RemoveAnswered` take the
first frame in `rx`, as `transact` does, without a look at its sender. With
`LateReplies = FALSE` the worker gives up (`TimedOut`) only when nothing is
under way; with `TRUE`, at any time. `journal` is the set of `(node, frame)`
pairs that have a row: `StoreEvent` covers both an insert and a duplicate,
which the code treats alike from here on. Batch sizes and the table bound are
constants.

24H and 23H exchanges in the same loop are left out: they use the same line
and touch neither FIFO nor journal. Restart clears jobs, queue and worker, and
closes the port, so the receive buffer too.

### Attendance

`pc` runs `poll -> handle -> persist -> notify -> remove -> poll`; `hold` is
the engine's mutex and says whose second half is outstanding: `states` and
`activities` are the two saves of `persistLocked` (of the worker or of a
refresh), `reset` the second half of `resetSiteActivity`. `states` is indexed
by user and by card (keys `U:` and `C:`); `NeverRead` is an absent entry, time
0 a missing `last_read`. Time is the controllers' clock, ticking between
swipes; `Repeat` is `attendance.accidental_repeat_seconds`. `owner` is the part
of the registry that `byCard` reads, `savedOwner` the same as stored. Web
requests are two steps, the change of the registry with its save (`SaveUser`,
`AssignCard`, `RemoveCard`) and then `RefreshUserMetadata`, counted in
`refreshes`. Saving a user and removing a card refresh in any case; binding a
card (`AssignCard`: the pages of cards, SOYAL records) only if the save
succeeded, and `AssignToMissing` never does. `unrefreshed` is history: the
cards whose owner such a request has left changed. `Crash` is allowed between
any two steps and rebuilds memory from the stored registry and as the
constructor does, including its rule which of two entries wins (a card's entry
beats its owner's also on equal times, because `C:` sorts before `U:`).

`era` counts resets: history, used by the properties only. So is `mixed`, the
eras in which an event took effect again that is from before their reset, or was
another user's when it was journalled. That happens: the event is journalled,
37H is lost, the site is reset or the card is bound to someone else, and when
the event is read again the query for its row fails and counts as "no row"; the
user is then present without an arrival in that era's report. `Alternate` and
`ViewsAgree` speak of the other eras. The RS-485 exchange is reliable here except for 37H;
collection has its faults.

Left out: the CSV branch of `FileStore`; `cards.auto_create_unknown` (off by
default); the catalogue of seen cards; a day boundary (all events are of one
day); `refreshUserMetadata` looks up card by card while other requests may
change the registry, and is one step here.

### UserSync

`users` and `stored` are the registry and its stored copy; `slot` and `passAny`
the controllers. A job in a queue is a snapshot of users, a set of controllers
and a flag (full synchronization; delete from the system). The worker looks at
the queues in `turn`, takes a job (`BeginDelete`, `BeginUpload`) and expands it
into `work`, a set of tasks; a task is one exchange with a controller, or one
erasure. The phases of a full synchronization - Pass Any Cards off, unused
addresses cleared, users written - are kept by `PhaseOver`, per controller;
within a phase the model takes tasks in any order, where the code takes them in
the order of the lists. `Program` is 83H: the write may take or not and may be
answered or not, and `Verified` says which of these the code accepts. A result
is counted only while the table has the job (`Counted`); where Pass Any Cards
cannot be switched off, the addresses of that controller are counted as
`Skipped`. Every user has a card of his own; addresses are forced into range by
the form, so only imported users lack one (`None`). Frames are lost, never
late. The exit of the worker in the middle of a job (`running_` false) is
`Restart`.

### UserRegistry

A request is a program: `Steps(op)` is the sequence of steps its handler takes,
each a step the code takes under one lock, and `todo[t]` what is left of it in
thread `t`. Early returns of the managers skip steps, early returns of the
handler end the request; a handler that does not look at the result of a save
goes on (`tryWriteUsers`). `snap[t]` is the snapshot of `save`, taken by
`SnapUsers` and written by `WriteUsers`, where the transaction commits or is
rolled back, always so if the keys of the tables refuse it. A SOYAL record
works on `copy[t]`, the user as he was read (`NoCopy`: none yet). An id is any
integer, as the rows of an import are not checked; `WithId` is what `upsert`
does with one below 1. `AssignToMissing` is `assignCard` for a user who is not
there, which takes the card away in memory and returns before the save. `Start`
is `App::init`: `Merged` is `load`'s merge of `users.csv` into the tables, row
by row (`WithRow`): a row fills what the table lacks of its user (`Filled`), or
adds the user, without the cards another user has (`Foreign`); the result is
read in the order of ids (`ById`). `StartFails` gives up in the middle of it
and leaves the files for the next start.

The history tells what the code can be held to. `held[s]` has `<<t, t>>` for a
thread whose snapshot is on its way, and `<<t, u>>` where that of `t` is older
than that of `u`; `late[s]` are those a newer one has overtaken, and `stale[s]`
says that the last word in storage was an older snapshot's or a failure's, or
that memory was changed by a request that does not save.
`imported` holds from an import on, whose rows are not checked. `unlisted`
holds once a department was renamed or dropped beside another request, or an
import or a rename failed half way, each of which can leave a user in a
department that is not listed.

### SnapshotFile and CsvFile

`CsvFile` has the file system at the level of inodes: `path` and `tmp` are the
names, `data` what an inode holds, `fd[t]` the inode a thread has open, so that
a thread may go on writing to a file another has renamed into place. `locked`
chooses, at the start, between `Config` and `FileStore`, whose mutex covers the
whole save, and the managers, whose mutex covers the copy. Data are versions,
numbered; 0 is a torn or empty file. `SnapshotFile` is the promise of such a
file, with `value <- Readable`: the file holds one whole version, not older
than one a save has reported stored, and a restart continues with it. The
promise is void (`spoiled`) from an overlap of two saves or a failure of the
file system to the next save that meets neither. The machine does not crash,
only the process: the code does not call `fsync`.

### Controllers

`phys[d]` is the node ID device `d` obeys, and `Hear(a)` the devices that hear
a frame sent to `a` (all of them for address 0, which the scan asks first if
`scan_from` is 0). `Probe(a)` is 24H: the ID of one of them, or silence.
`SetNodeId` and `DisablePassAny` are the outcomes of the two actions on bus and
report, lost frames included: 80H may have been obeyed and not be confirmed.
`list` is `controllers_`, its keys the listed numbers; `save[t]` the snapshot
of `saveControllers` on its way by the web server or the worker, with `alone`
and `overlap` as in the two modules before. The web server checks a request
(`Check`) and queues it (`Queue`). Two fields of a request are history:
`chosen`, the devices that had its number when it was queued, and `stale`,
which marks one whose list changed between check and queueing (`Restale`), or
whose number a renumbering took from the list while it waited (`Overtaken`).
`missed` are devices the scan did not hear. `dead`: the adapter was unplugged,
and nothing reopens the port before a restart.

Left out: 25H and the jobs on users, which other modules have (`PollNode` keeps
their effect on `online`), the clock synchronization, the table of action jobs.

### ReportSchedule

The scheduler reads its settings key by key (`ReadKey`), each under the lock of
`Config`, while `saveSchedule` writes them key by key (`SetKey`,
`ForgetAttempt`) and an import replaces them all. `Check` compares the trigger
with the last attempt; `Mark` and `SaveMark` record it before anything is sent;
`BeginReport` takes the range from the clock as it is then; `SendPart` is one
curl, of the document or of a message of its text copy; `NoteOutcome` and
`SaveOutcome` end the attempt. `served` is history: the reports begun since a
fresh run was permitted, or a setting was changed by a `SetKey`; `fresh`
excuses the one that was under way when it was permitted, and `unsaved` a mark
that a crash forgets.

### Notifier

`at` is the place of the thread with the event `hand`: it looks at the kind and
at the user's wish, at the age, and sends, up to `Retries` times, each under
`send_mu_`, which another thread may hold (`busy`). `Send` may deliver and
still count as failed. `old` grows with time and holds events of a backlog from
the start; `stale` are those found old. `chat` is what arrived.

### ReadBack

`readQueue` and `searchQueue` hold jobs with their cursors; `turn` and `left`
are the batch the worker is in and what is left of it. A read is two steps:
`TakeRead` / `TakeBlock` advance the cursor under the lock and put the read in
`task`, `RecordRead` / `RecordBlock` enter its result, if the job is still in
the table. `Classify` compares an address with the registry as it was when the
job was queued. A search reads blocks with some bytes more than the block, so
that a pattern across a border is seen, and counts the occurrences that begin
inside (`Occurrences`); `Planted` and `PlantedRecords` say where the bytes
are. `asked`, `visited`, `searched` and `lost` are history.

## 3. Runs

| Run | Instance | What it shows |
|---|---|---|
| `fifo` | 2 controllers, 2 frames, 2 events, 2 manual jobs, table of 1, batch of 2, 2 faults | `TypeOK`, `HeadInHand`, `QueueMatchesTable`, `ReadJobComplete`; collection implements `EventLedger`; every event is journalled in the end |
| `fifo_late` (violated) | the same, 3 events, late replies | `DeletedOnlyIfStored` fails |
| `attendance` | 1 controller, 2 users, one with 2 cards, 3 swipes, 3 instants, 2 faults (insert, duplicate query, save, 37H, save of the registry), 1 operation (bind, unbind, reset) | arrivals and departures alternate; list of those present and daily report agree; repeat window; metadata current |
| `restart` | 2 controllers, 2 cards, 2 users (one disabled), 2 bindings, 1 fault: crash at any step, lost 37H, failed save of the registry | one row and one notification per event; no presence kept per owned card |
| `sync` | 1 controller, 2 addresses, 2 users, 2 requests, 1 edit, 1 restart, table of 1 | a clean full synchronization leaves exactly the exported users; erased only if confirmed; the accounts of jobs add up; every job ends |
| `registry` | 2 threads, 2 cards, 2 departments, 2 stored users, leftover files, 3 of 15 requests, 1 fault, 1 restart | a card has one owner; when all is quiet storage holds what memory holds; departments stay listed; a card passes on only by a request that names it |
| `csvfile` | 2 threads, 3 versions, 4 saves, 1 failure, 2 restarts; locked and not | the file implements `SnapshotFile`; under the lock it is always there and whole |
| `controllers` | 2 devices, 3 numbers, broadcast in the scan range, 2 actions, 1 rename of a controller, 1 event | an action reaches the devices it was meant for and tells the truth; the list is stored |
| `discovery` | 3 devices, one unlisted, one disabled; 1 action, 1 refresh, 1 event, 1 restart | a refresh lists what it hears; a silent controller is shown offline in the end |
| `schedule` | 2 days, 2 slots, 1 schedule saved, 1 import, 1 restart, 2 attempts, 1 message | one report per period and settings; one that stays due is attempted |
| `notifier` | 2 events, 2 attempts, 1 change of settings, 2 other sends, 1 restart | the chat is in order, within its attempts, and without old or unwanted news; no event waits for ever |
| `reads` | 2 controllers, 3 addresses, EEPROM of 7 bytes in blocks of 3, 2 read jobs and 1 search, tables of 1 | jobs report exactly what was read, and end |

### Why the bounds are enough

The interesting cases need few objects. A reply can be mistaken for another's
only with two controllers; eviction needs one job more than the table holds, so
the table of 20 is a table of 1; a batch must be able to end with events left
over, and with none (batch of 2, up to 2 events). Alternation needs three reads
(two may be accidental repeats of one another), and the window's ends need
instants 0, 1 and 2 apart. A second card shows that presence is per user. The
duplicate query matters only after a lost 37H, hence two faults. A second user
is one whom a card may be bound to while its event is in hand or read again. Two requests
make an upload and a deletion meet; two addresses make one that a full
synchronization clears and one that it writes.

Two threads are as many as a race between two saves needs, and a third request
or save shows whether storage recovers from it; the requests of `registry` are
chosen so that each kind meets each other kind that touches the same data, and
so that a card can be assigned to a user who has just been deleted and a user
imported without an id be written back. Two
devices can be given one number, and a third number is one to move to; two
actions are one queued behind the other. Two days let a daily schedule come due
twice, and two slots are before and after its time. A saved schedule may differ in being
enabled and in its period; there is one time of day, and another one is left to
the theorem. Two events show order and overtaking, and two
attempts show that one may repeat what arrived. In `reads` a card lies across
the border of two blocks and another one across that of the range; two matches
fill the list; a read job of six addresses needs two batches of three.

Every action of every module is taken in some passing run, and every property
fails for a plausible defect of the code (`mutants` in PROJECT.json, definitions
marked "Faulty variant"). Three configurations switch the check for deadlock
off, `registry`, `csvfile` and `notifier`: with their requests, saves or events
used up nothing is left to do.

### Fairness

* `EventCollection!FairSpec`: weak fairness of the worker's steps and of
  `Deliver`. The worker is one thread in an endless loop whose every wait has a
  timeout, and the line carries what was sent. Faults are bounded, not fair: a
  controller that never answers is not covered, nor is a storage that fails for
  ever.
* `UserSync!FairSpec`, `ReadBack!FairSpec`: weak fairness of the worker only; a
  controller may fail every exchange and jobs still end.
* `Controllers!FairSpec`: weak fairness of the worker, and strong fairness of
  the poll in which a node's 24H is due: 30 seconds always pass.
* `ReportSchedule!FairSpec`: weak fairness of the scheduler, of the steps of a
  web request once begun, and of the start after a stop (`Restart=always` in
  `systemd/monk-skud-unex.service`). Time may stop.
* `Notifier!FairSpec`: weak fairness of the thread, and of the end of another
  thread's send, which `curl --max-time` bounds.

Swipes and requests are never assumed to happen. What is said of the worker
assumes that the port stays open (`serial.enabled`, a device), as `loop` does
nothing else until it is; an unplugged adapter does not close it.

## 4. What does not hold

One run ends with a counterexample, and PROJECT.json quotes the sentence it
contradicts:

* **Late replies** (`fifo_late`). A 25H answer that arrives after 120 ms is
  taken for the answer of the next controller asked; its event is stored under
  that node, and 37H deletes that controller's own oldest event, never stored.

The following were met while modelling. The properties of the passing runs are
stated so that they leave these cases out, by the constants of a run or by a
history variable, and each is seen when the restriction is lifted.

* **Crash between insert and save.** The row makes the event a duplicate after
  the restart, its effect on presence is lost, and the next read is a second
  arrival (`Alternate` with `"crash"` in `Faults`).
  Presence that was not saved is lost as well, and with it the repeat window
  (`RepeatWindow`) and the agreement of the two pages (`ViewsAgree`); a crash
  between a change of the registry and `refreshUserMetadata` leaves the card's
  former owner on the activity page (`MetadataCurrent`).
* **Binding a card that was read while unknown.** Its state, always absent,
  replaces the present user's if it was read later (`Alternate` with `"bind"`
  in `Ops` and an unowned card).
* **Backlogs of two controllers.** Events are handled in the order they are
  drained; a user's first pass of the day can be a departure, an older pass handled
  later is not taken for a repeat, and the two pages can disagree (two nodes).
* **A reset between a lost 37H and a failed duplicate query**: `mixed`, above;
  the event takes effect again and is notified a second time (`OncePerEvent`;
  its row stays one, `INSERT IGNORE`).
* **A card bound to another user between a lost 37H and a failed duplicate
  query**: the event, read again, is a pass of the new owner (`mixed` too).
* **A card bound without effect.** `assignCard` and `ensureUserForCard` change
  memory and then save; when the save fails the request ends with an error, and
  without `refreshUserMetadata` (`WebServer.cpp` 656, 663, 690, 697;
  `UserManager.cpp` 229). Memory has the new owner, the card keeps a presence
  state of its own and its former owner on the activity page (`unrefreshed`).
* **A card assigned to a user who is not there.** `assignCard` takes it from its
  owner in memory before it finds that out, and returns without a save or a
  refresh (`UserManager.cpp` 222-226): memory lacks the card and storage has it,
  until the next save of anyone makes the loss permanent or a restart undoes it
  (`stale`, `unrefreshed`).
* **Users imported without an id.** `importCsv` takes any id (`UserManager.cpp`
  101, 268). A SOYAL record that finds such a user writes him back under a new
  id, with all his cards, and leaves the old row without (197-211,
  `WebServer.cpp` 700): `CardsPassByName` exempts it.
* **A SOYAL record beside another request.** The user is read, completed and
  written back in three steps, and takes his cards from whoever was given them
  meanwhile: `CardsPassByName` exempts a user who is no longer as he was read.
* **Deletion overtakes upload.** Deletions have their own queue, looked at
  first: a deletion requested after an upload is done before it, and the upload
  restores the erased user's access.
* **Deletion at a new address.** The address is the registry's, not the one the
  user was written to: an empty slot counts as confirmation.
* **Two saves at once.** Of two snapshots the older may be written last
  (`stale`, `overlap`); in the CSV form the thread that finds no temporary file
  removes the file the other has just put in place, and a crash then loses it
  (`spoiled`).
* **Departments beside other requests** (`unlisted`): a user may keep a
  department that was renamed or dropped meanwhile.
* **Actions on a number that left the list** (`stale`). The worker checks only
  that the new number is free (`ControllerManager.cpp` 588-596). Where two
  devices share a number, and one of them is off, an action queued behind a
  renumbering of it reaches the other device; it is reported as done, and the
  list does not get the new number. Where the number has been given again by
  then, it reaches a device that did not have it when the action was queued.
* **A schedule half changed.** A save that changes the keys one by one and one
  that changes them back, or a crash in between, permits a second report of the
  same days (`served` starts anew with each key changed).
* **A renumbering that cannot be saved**: the device obeys its new number, and
  after a restart it is looked for at the old one.
* **A report that fails, or is cut off by a crash after its mark**, is not
  tried again before the next period. If the text copy failed the document has
  been sent, and a repetition that the administrator permits by saving the
  schedule sends it a second time.
* **Notifications at a stop.** The queue is in memory, and an event is taken off
  before it is sent: a restart loses what is in hand and what is queued.
* **A midnight between the due check and the range**: the report is of the next
  day or week (`day = key.day` in `OncePerRange`). A day on which the server
  was down for its whole rest is not made up for.

Also noted. `importCsv` accepts a card with two owners, which every later
transaction refuses. An id is free again when its user, if the last, was
erased, while jobs may hold it. With `database.remove_csv_after_migration`
off, erased users return from `users.csv` at the next start. `queueUserRead`
drops address 0, a valid one elsewhere. Reads classify by the registry as it
was when the job was queued. After the adapter was unplugged the port is never
reopened. Queued notifications go out although Telegram was disabled
meanwhile, and the queue has no bound. `reports.schedule.last_sent_key` is
written and never read. README.md:60 says that repeats within 60 s are
accidental, the default is 5 s (README.md:547, `App.cpp` 36); README.md:237
says that deletion clears the UID, `deleteUser` keeps it and sets mode 0
(README.md, v0.3.12).

## 5. Proofs

All theorems are checked by TLAPS, for all values of the constants that satisfy
the assumption named in the module (`CollectionAssumption`,
`AttendanceAssumption`, ...): any number of controllers, users, cards, events,
requests, faults and restarts. The assumptions give the constants their types,
keep the model values apart, and say of the initial registry what a registry
made by the program has (`RegistryAssumption` asks for one owner of each card
and id there, and of the requests only that a SOYAL record names a user above
0, which the handler checks). A hypothesis of a theorem that is more than that
stands in the table. None of these can be dropped: without it TLC finds the
property violated on an instance of the size of those in section 3 (`"check"`
for `OncePerEvent` needs a reset too, and `"bind"` for `Alternate` a fourth
instant).

| Module | Theorem | Statement |
|---|---|---|
| `EventCollectionProofs` | `TypeCorrect` | `Spec => []TypeOK` |
| | `HeadInHandAlways` | `Spec => []HeadInHand` |
| | `CollectionImplementsLedger` | `~LateReplies => (Spec => LedgerSpec)` |
| | `NoUnstoredDeletion` | `~LateReplies => (Spec => DeletedOnlyIfStored)` |
| | `QueueMatchesTableAlways` | `Spec => []QueueMatchesTable` |
| | `ReadJobCompleteAlways` | `~LateReplies => (Spec => []ReadJobComplete)` |
| `AttendanceProofs` | `TypeCorrect` | `Spec => []TypeOK` |
| | `OneStateAlways` | `Spec => []OneStatePerUser` |
| | `MetadataAlways` | `Spec => []MetadataCurrent`, without `"crash"` |
| | `OnceAlways` | `Spec => []OncePerEvent`, without `"check"` |
| | `RepeatWindowAlways` | `Spec => []RepeatWindow`, one controller, without `"crash"` |
| | `AlternateAlways` | `Spec => []Alternate`, without `"crash"` and `"bind"`; one controller or without `"check"` |
| | `ViewsAgreeAlways` | `Spec => []ViewsAgree`, one controller, without `"crash"` and `"bind"` |
| `UserSyncProofs` | `TypeCorrect` | `Spec => []TypeOK` |
| | `EraseConfirmedAlways` | `Spec => EraseConfirmed` |
| | `SyncExactAlways` | `Spec => []SyncExact` |
| | `AccountingAlways` | `Spec => []Accounting` |
| `UserRegistryProofs` | `TypeCorrect` | `Spec => []TypeOK` |
| | `OneOwnerAlways` | `Spec => []OneOwner` |
| | `OneOwnerStored` | `Spec => []OneOwnerEach(storedUsers)` |
| | `CardsPassByNameAlways` | `Spec => CardsPassByName` |
| | `StoredWhenQuietAlways` | `Spec => []StoredWhenQuiet` |
| | `DeptsListedAlways` | `Spec => []DeptsListed` |
| `CsvFileProofs` | `TypeCorrect` | `Spec => []TypeOK` |
| | `LockedFileStaysAlways` | `Spec => []LockedFileStays` |
| | `FileImplementsPromise` | `Spec => FileKeepsPromise` |
| `ControllersProofs` | `TypeCorrect` | `Spec => []TypeOK` |
| | `NumbersStoredAlways` | `Spec => []NumbersStored` |
| | `ActionsAsAskedAlways` | `Spec => ActionsAsAsked` |
| `ReportScheduleProofs` | `TypeCorrect` | `Spec => []TypeOK` |
| | `ReportedOnce` | `Spec => OncePerRange` |
| `NotifierProofs` | `TypeCorrect` | `Spec => []TypeOK` |
| | `ChatInOrderAlways` | `Spec => []ChatInOrder` |

`"crash"`: the server may die at any step; `"check"`: the query for an existing
row may fail; `"bind"`: cards may be bound and rebound.

### Arguments

Every module is laid out alike: the types of the constants; what the operators
of the model do, one lemma each; the inductive invariant; a lemma per action or
group of actions; the theorems.

**EventCollection.** `TypeOK` is inductive because one of its conjuncts ties the
worker to the queue: a manual job in hand is the front of the queue, and web
requests only append. Without it `Tail(queue)` at the end of a job could not be
shown well typed. `HeadInHand` is inductive relative to `TypeOK`: while replies
are never late at most one reply is outstanding, in `air` or `rx` but not both;
it answers the node that was asked; an event in it is the head of that
controller's FIFO, because a FIFO only grows at its end until 37H. So the event
in hand is the controller's oldest, and when 37H is to be sent it has its row.
The refinement maps `fifo` and `journal` to themselves: the step that stores is
`Record`, the one that sends 37H is `Forget` and needs the last conjunct of
`HeadInHand`, a swipe is `Occur`, and all else stutters. `NoUnstoredDeletion`
reads the same fact off the step that sends 37H. The assumption `~LateReplies`
cannot be dropped: `fifo_late` is the counterexample.

`QueueMatchesTable` needs `NumbersTaken` as well: the number of the next job is
above every queued one and has no entry in the table, which evicts old entries.
For `ReadJobComplete`, `OwedHeld` says that what a job under way owes is
journalled or still with its controller, `EmptyMeansDone` that an empty answer
under way was given by a FIFO from which all was journalled, and `JobsInHand`
that the job in hand runs at the controller being asked.

**Attendance.** A row is appended only where the look-up found none, so an event
has one (`OneRow`); what is notified has its row (`SentHaveRows`), and the event
in hand is not sent yet while it still may be (`HandNotSent`). Times are in order on one controller
only: its FIFO is (`FifoInOrder`), the event in hand is its oldest, and what
has been read or journalled is not later than what the FIFO still holds
(`ReadsPast`, `RowsPast`). `LastCovers` turns that into the repeat window: a
user's last read is not before his rows. For `Alternate`, `PresenceOfNewest`
says that a user is present exactly if his newest row of the era is an arrival;
`EraOfStates` is the era before while a reset has not cleared the states yet.
Without binding an owned card never has a state to be merged (`OwnedUnread`),
so presence changes with rows only. `OneStatePerUser` and `MetadataCurrent` rest
on the refresh each change of an owner leaves behind: it is counted in
`refreshes`, or the card is in `unrefreshed`. `ViewsAgree` follows from both, since the
first arrival and the last departure by time are those by row.

**UserSync.** `WorkOf`: what is left of a job is part of what it asks for.
`EraseInv`: a controller whose deletion task is done shows no active slot at the
address, unless the user is in `unconfirmed`; uploads cannot interfere, since
the worker has one job in hand. So when the erasing task is taken, with no other
task of the user left, all controllers have confirmed. `SyncInv`: while a full
synchronization in hand has counted no failure (`Clean`), each task no longer in
`work` has left its mark (`Done`), and the tasks to come do not undo it, as the
exported addresses are distinct (`UploadInv`) and clearing is of the others. A
job evicted from the table reports nothing, so `Clean` asks for its entry.
`AccountInv` keeps a `Book` of each job table: what is counted of the job in
hand and what is left of it to count make up its total (`Progress`), and the
table has each queued job whole or not at all (`Waiting`). Skipping a controller
counts all its addresses at once, which is right because none of them has been
begun (`Untouched`).

**UserRegistry.** `RegistryInv` is `TypeOK`, `OneOwnerEach(storedUsers)`,
`OwnersInMemory` and `ProgramInv`. Each operation of the registry has a lemma
that says what it returns (`UpsertedEffect`, `AssignedEffect`, `ErasedEffect`,
`MergedEffect`, ...): its type, that one owner for each card and id is
preserved, and who may gain a card. `ProgramInv` is about programs in the middle
of their steps: a SOYAL import reads a user before it writes one back
(`ReadFirst`), as there is nothing to write before, and none is written back
after the departments were listed (`PutBeforeList`). The stored tables need no
hypothesis, since their keys refuse the rest (`Accepted`); so a restart,
which loads them and merges `users.csv` row by row, makes memory sound again
after any import. `CardsPassByNameAlways` puts the lemmas' last parts together.
The recursion over rows (`Erased`, `Merged`) is shown to preserve soundness by a
least counterexample (`LeastNumber`, from the well-foundedness of `<`).

`StoredWhenQuiet` and `DeptsListed` depend on what a request has still to do, so
their invariants are about what is left of its program. `StepsOrdered` shows of
every handler, and `OrderInv` of every remainder, that a change is followed by a
snapshot and that by its write, and that a department brought in is listed
later with nothing on the way that ends the request (`Order`). `StoreInv` is
about one table: the threads with a snapshot are those about to write, those
overtaken are among them, and unless a snapshot has still to be taken the
newest one is of what memory holds, or all on their way are overtaken, or there
are none and the table is right or known to be stale (`Saved`). An assignment to
a user who is not there changes memory without a snapshot to come, so it makes
the table stale and overtakes every snapshot on its way. With the rest
state while the server is down that is `QuietInv`. `ListInv` says that a
department in use is listed or a thread is to list it (`Lists`: the user it
saved, an import's `readUsed`, a rename that has users to move); that a rename
or a drop runs alone, that a department about to be dropped is in no use, and
that users are moved to a listed one. A lemma per step shows both kept.

**CsvFile.** `AloneHasTmp`: a save that has been alone since it began has the
temporary file to itself. `TwoNames`: the names are of two files, so writing to
the one leaves the other. `PromiseStands`: while the promise is not void, the
file holds a version between the one promised and the one in memory, and no
save under way will write an older one. `LockHeld`: with the mutex held
throughout, saves are alone, so only a fault voids the promise. `NextRefines`
maps the renames to `Save`, `Spoil` or `Repair`, `Restart` to `Reload`, and the
writing of the temporary file to a stutter.

**Controllers.** `TypeInv` adds that entries disabled in the configuration stay
listed and stored, and that polled nodes are listed. `AloneCurrent`: a save
that is alone has the list as its snapshot unless the scan has added to it
since. `ActionsCurrent`: an action that is not stale names a listed number, and
knows every device that has it; a renumbering gives a device a number that was
not listed, so no action that is not stale names it, and the actions that name
the number it took away are stale from then on. `NumberMoved` keeps the outcome
until it has been saved.

**ReportSchedule.** `Remembered`: each report begun for a trigger of today is
recorded as the last attempt of every configuration with those settings, the
saved one too unless it could not be saved; `SettingsRead` and `KeyInHand` carry
this from the reading of the keys, one by one, to the range.

**Notifier.** Numbers ascend in the queue, in the chat, and from chat over hand
to queue (`QueueInOrder`, `ChatBehind`); copies are no more than `tries`, and
what is sent has passed both looks (`OnlyNews`).

### Only model-checked

* Liveness, which is out of the prover's reach: `EveryEventJournalled`,
  `EveryJobEnds`, `RefreshDiscovers`, `SilentGoesOffline`, `DueIsAttempted`,
  `EveryEventLeaves`, `EveryReadEnds`.
* All of `ReadBack`. `ReadBackExact` adds up a count for each kind of result
  with a fold, which is induction over data, and finds a position's block by a
  division by a constant of the model, arithmetic the solver does not finish.
  `TypeOK` rests on every finite set having a sorted list (`SetToSortSeq`),
  induction too; it has not been proved.

## 6. Plan

Done: event collection, attendance, access rights, registry and departments,
saved files, controllers and their actions, the schedule and the notifier, with
proofs of every safety property they have; the read-back, model-checked. What
would come next:

1. `Controllers` composed with `EventCollection`: a device is renumbered while
   its event is stored and not yet deleted, and the check for a duplicate is by
   node number.
2. The codec (frames, checksums, event and timestamp decoding) and the
   intervals of `ReportManager` as operators, checked against a reference.

### Not modelled

Web routing, sessions and JSON, the building of report files and texts, user
interfaces, install scripts, metrics, the text of SOYAL files, the one-time
moves of controller lists and journal to MariaDB: formatting and I/O, or a
sequence that runs before any thread starts. The clock synchronization (23H)
depends on intervals of the wall clock and touches no other state. The
controllers' firmware is modelled as far as the code relies on it. Parts that
are left out of a modelled component are named in section 2 and in the notes of
PROJECT.json.

## 7. Running

    tlc -config EventCollection.cfg EventCollection.tla
    tlc -config Attendance.cfg MCAttendance.tla
    tlc -config AttendanceRestart.cfg MCAttendance.tla
    tlc -config UserSync.cfg MCUserSync.tla
    tlc -config UserRegistry.cfg MCUserRegistry.tla
    tlc -config CsvFile.cfg CsvFile.tla
    tlc -config Controllers.cfg MCControllers.tla
    tlc -config Discovery.cfg MCControllers.tla
    tlc -config ReportSchedule.cfg ReportSchedule.tla
    tlc -config Notifier.cfg Notifier.tla
    tlc -config ReadBack.cfg MCReadBack.tla
    tlapm EventCollectionProofs.tla
    tlapm AttendanceProofs.tla
    tlapm UserSyncProofs.tla
    tlapm UserRegistryProofs.tla
    tlapm CsvFileProofs.tla
    tlapm ControllersProofs.tla
    tlapm ReportScheduleProofs.tla
    tlapm NotifierProofs.tla

each at most a few minutes; `EventCollectionLate.cfg` is the run that
ends with a counterexample.
