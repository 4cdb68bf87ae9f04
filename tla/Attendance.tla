----------------------------- MODULE Attendance -----------------------------
(***************************************************************************)
(* AttendanceEngine: what becomes of an access event between 25H and 37H.  *)
(* The serial worker decides arrival, departure, accidental repeat or      *)
(* unknown card, appends the journal row, saves presence and card activity *)
(* and hands passes to Telegram; web requests bind and unbind cards,       *)
(* refresh user metadata and reset the site; the server may die between    *)
(* any two of these steps.  Storage is MariaDB; the RS-485 exchange is     *)
(* reliable here (EventCollection has its faults).                         *)
(***************************************************************************)
EXTENDS Naturals, Sequences, SequencesExt

CONSTANTS
    Node,       \* controllers
    Card,       \* physical cards
    User,       \* users of the registry
    Enabled,    \* users that are enabled
    None,       \* no user
    Unseen,     \* a card without an activity entry
    InitOwner,  \* who owns which card at the start
    Codes,      \* event codes: "access" (0BH, card decoded) and "other"
    Repeat,     \* attendance.accidental_repeat_seconds
    Ops,        \* administrators' operations: "bind", "unbind", "reset"
    Faults,     \* what may fail: "append", "check", "save", "remove", "registry", "crash"
    MaxTime,    \* bound: the controllers' clock
    MaxSwipes,  \* bound: events altogether
    MaxOps,     \* bound: administrators' operations altogether
    MaxFaults   \* bound: faults altogether

ASSUME AttendanceAssumption ==
    /\ User \intersect Card = {}
    /\ {None, Unseen} \intersect User = {} /\ None # Unseen
    /\ Enabled \subseteq User
    /\ InitOwner \in [Card -> User \union {None}]
    /\ Codes \subseteq {"access", "other"}
    /\ Repeat \in Nat
    /\ MaxTime \in Nat \ {0} /\ {MaxSwipes, MaxOps, MaxFaults} \subseteq Nat

VARIABLES
    clock,          \* the controllers' clock
    fifo,           \* fifo[n]: events controller n holds, oldest first
    pc,             \* where the serial worker stands
    cur,            \* the event it handles
    hold,           \* what the holder of the engine's mutex does, "free" if nobody
    states,         \* presence and last read, per user and per unknown card
    activity,       \* activity[c]: user shown for card c
    saved,          \* states as stored
    savedActivity,  \* activity as stored
    journal,        \* rows of skud_attendance_events, in order of insertion
    owner,          \* owner[c]: user byCard finds for card c
    savedOwner,     \* the same in the stored registry
    refreshes,      \* web requests that changed the registry and still have to refresh
    unrefreshed,    \* cards whose owner changed in requests that failed, with no refresh since
    sent,           \* events handed to the Telegram notifier, in order
    era,            \* resets of the site so far
    mixed,          \* the eras in which an event took effect again that is of an older era,
                    \* or was another user's then
    swipes, ops, faults  \* bounds

engineVars  == <<states, activity>>
storageVars == <<saved, savedActivity, journal>>
webVars     == <<owner, savedOwner, refreshes, unrefreshed>>
eraVars     == <<era, mixed>>
boundVars   == <<swipes, ops, faults>>
vars == <<clock, fifo, pc, cur, hold, engineVars, storageVars, webVars, sent,
          eraVars, boundVars>>

Time == 1 .. MaxTime

Frame == [card : Card, time : Time, code : Codes]

\* Time 0 stands for "never read" (has_last is false).
State == [present : BOOLEAN, last : 0 .. MaxTime]
NeverRead == [present |-> FALSE, last |-> 0]
Nobody == [k \in User \union Card |-> NeverRead]

Pass == {"arrival", "departure"}
Type == Pass \union {"accidental", "unknown_card", "raw"}

Row == [node : Node, frame : Frame, user : User \union {None}, type : Type, era : Nat]

Event == [node : Node, frame : Frame]
NoEvent == [node |-> None, frame |-> None, type |-> "raw", manual |-> FALSE]

Current == [node : Node, frame : Frame, type : Type, manual : BOOLEAN]

\* The worker has an event in hand exactly while it handles one; it persists only what it
\* holds the lock for.
WorkerType ==
    /\ fifo \in [Node -> Seq(Frame)]
    /\ pc \in {"poll", "handle", "persist", "notify", "remove"}
    /\ pc # "poll" => cur \in Current
    /\ hold \in {"free", "states", "activities", "reset"}
    /\ pc = "persist" => hold \in {"states", "activities"}

EngineType ==
    /\ states \in [User \union Card -> State]
    /\ saved \in [User \union Card -> State]
    /\ activity \in [Card -> User \union {None, Unseen}]
    /\ savedActivity \in [Card -> User \union {None, Unseen}]

HistoryType ==
    /\ journal \in Seq(Row)
    /\ sent \in Seq(Event)
    /\ mixed \subseteq 0 .. MaxOps

TypeOK ==
    /\ clock \in Time
    /\ WorkerType /\ EngineType /\ HistoryType
    /\ owner \in [Card -> User \union {None}] /\ savedOwner \in [Card -> User \union {None}]
    /\ unrefreshed \subseteq Card
    /\ refreshes \in 0 .. MaxOps /\ era \in 0 .. MaxOps
    /\ swipes \in 0 .. MaxSwipes /\ ops \in 0 .. MaxOps /\ faults \in 0 .. MaxFaults

Init ==
    /\ clock = 1
    /\ fifo = [n \in Node |-> <<>>]
    /\ pc = "poll"
    /\ cur = NoEvent
    /\ hold = "free"
    /\ states = Nobody /\ saved = Nobody
    /\ activity = [c \in Card |-> Unseen] /\ savedActivity = activity
    /\ journal = <<>>
    /\ owner = InitOwner /\ savedOwner = InitOwner
    /\ refreshes = 0 /\ unrefreshed = {}
    /\ sent = <<>>
    /\ era = 0 /\ mixed = {}
    /\ swipes = 0 /\ ops = 0 /\ faults = 0

-----------------------------------------------------------------------------
\* Controllers (outside the program).

Tick ==
    /\ clock < MaxTime
    /\ clock' = clock + 1
    /\ UNCHANGED <<fifo, pc, cur, hold, engineVars, storageVars, webVars, sent,
                   eraVars, boundVars>>

Swipe(n, c, k) ==
    /\ swipes < MaxSwipes
    /\ swipes' = swipes + 1
    /\ fifo' = [fifo EXCEPT ![n] = Append(@, [card |-> c, time |-> clock, code |-> k])]
    /\ UNCHANGED <<clock, pc, cur, hold, engineVars, storageVars, webVars, sent,
                   eraVars, ops, faults>>

Fault(what) ==
    /\ what \in Faults
    /\ faults < MaxFaults
    /\ faults' = faults + 1

-----------------------------------------------------------------------------
\* The serial worker.

\* 25H: by a manual job (which sends no notifications) or by the poll cycle.
Poll(n, manual) ==
    /\ pc = "poll" /\ fifo[n] # <<>>
    /\ cur' = [node |-> n, frame |-> Head(fifo[n]), type |-> "raw", manual |-> manual]
    /\ pc' = "handle"
    /\ UNCHANGED <<clock, fifo, hold, engineVars, storageVars, webVars, sent, eraVars,
                   boundVars>>

\* 25H finds the FIFOs empty.
PollEmpty ==
    /\ pc = "poll" /\ \A n \in Node : fifo[n] = <<>>
    /\ UNCHANGED vars

\* Faulty variant of Stored: only the newest row is compared.
StoredLast ==
    /\ journal # <<>>
    /\ Last(journal).node = cur.node /\ Last(journal).frame = cur.frame

\* hasControllerEvent: a row for this frame of this controller exists.
Stored == \E i \in DOMAIN journal :
              journal[i].node = cur.node /\ journal[i].frame = cur.frame

\* The event was stored before: nothing but 37H is left to do.
SkipDuplicate ==
    /\ pc = "handle" /\ Stored
    /\ pc' = "remove"
    /\ UNCHANGED <<clock, fifo, cur, hold, engineVars, storageVars, webVars, sent,
                   eraVars, boundVars>>

\* The insert fails: no state changes and the event stays in the FIFO.
AppendFails ==
    /\ pc = "handle" /\ ~Stored
    /\ cur.frame.code = "access" => hold = "free"
    /\ Fault("append")
    /\ pc' = "poll"
    /\ cur' = NoEvent
    /\ UNCHANGED <<clock, fifo, hold, engineVars, storageVars, webVars, sent, eraVars,
                   swipes, ops>>

NewRow(user, type) ==
    [node |-> cur.node, frame |-> cur.frame, user |-> user, type |-> type, era |-> era]

\* recordControllerRawEvent.
RecordRaw ==
    /\ pc = "handle" /\ ~Stored
    /\ cur.frame.code = "other"
    /\ journal' = Append(journal, NewRow(None, "raw"))
    /\ pc' = "remove"
    /\ UNCHANGED <<clock, fifo, cur, hold, engineVars, saved, savedActivity,
                   webVars, sent, eraVars, boundVars>>

\* Faulty variant of StateKey: presence per card.
StateKeyPerCard(c) == c

\* Presence is kept per user, and per card only while nobody owns the card.
StateKey(c) == IF owner[c] = None THEN c ELSE owner[c]

\* Faulty variants of Accidental: the window is open at its end, at its start.
AccidentalOpenEnd(st, t) == st.last # 0 /\ t >= st.last /\ t - st.last < Repeat
AccidentalOpenStart(st, t) == st.last # 0 /\ t > st.last /\ t - st.last <= Repeat

\* A read is accidental when it follows the last one within the repeat window.
Accidental(st, t) == st.last # 0 /\ t >= st.last /\ t - st.last <= Repeat

EventType(c, t) ==
    LET st == states[StateKey(c)] IN
    IF owner[c] = None THEN "unknown_card"
    ELSE IF owner[c] \notin Enabled THEN "raw"
    ELSE IF Accidental(st, t) THEN "accidental"
    ELSE IF st.present THEN "departure"
    ELSE "arrival"

\* The read of card c at time t takes effect in memory; saving it is to follow
\* under the same lock.
TakeEffect(c, t, type) ==
    /\ states' = [states EXCEPT
                    ![StateKey(c)] = [present |-> type = "arrival"
                                                    \/ (@.present /\ type # "departure"),
                                      last |-> t]]
    /\ activity' = [activity EXCEPT ![c] = owner[c]]
    /\ cur' = [cur EXCEPT !.type = type]
    /\ hold' = "states"
    /\ pc' = "persist"

\* onControllerAccessEvent up to persistLocked, for an event without a row.
RecordAccess ==
    /\ pc = "handle" /\ ~Stored
    /\ cur.frame.code = "access"
    /\ hold = "free"
    /\ LET c == cur.frame.card
           type == EventType(c, cur.frame.time) IN
         /\ journal' = Append(journal, NewRow(owner[c], type))
         /\ TakeEffect(c, cur.frame.time, type)
    /\ UNCHANGED <<clock, fifo, saved, savedActivity, webVars, sent, eraVars, boundVars>>

\* The same for an event that has a row, when the query for it fails: a failed
\* query counts as "no row", and INSERT IGNORE then succeeds without inserting.
RecordAccessAgain ==
    /\ pc = "handle" /\ Stored
    /\ cur.frame.code = "access"
    /\ hold = "free"
    /\ Fault("check")
    /\ TakeEffect(cur.frame.card, cur.frame.time,
                  EventType(cur.frame.card, cur.frame.time))
    /\ mixed' = IF \E i \in DOMAIN journal :
                      /\ journal[i] = NewRow(journal[i].user, journal[i].type)
                      /\ owner[cur.frame.card] \in {None, journal[i].user}
                THEN mixed ELSE mixed \union {era}
    /\ UNCHANGED <<clock, fifo, storageVars, webVars, sent, era, swipes, ops>>

\* notifier_(e), outside the lock.
Notify ==
    /\ pc = "notify"
    /\ sent' = IF cur.type \in Pass /\ ~cur.manual
               THEN Append(sent, [node |-> cur.node, frame |-> cur.frame])
               ELSE sent
    /\ pc' = "remove"
    /\ UNCHANGED <<clock, fifo, cur, hold, engineVars, storageVars, webVars, eraVars,
                   boundVars>>

\* 37H.
RemoveOldest ==
    /\ pc = "remove"
    /\ \/ fifo' = [fifo EXCEPT ![cur.node] = Tail(@)] /\ UNCHANGED faults
       \/ Fault("remove") /\ UNCHANGED fifo
    /\ pc' = "poll"
    /\ cur' = NoEvent
    /\ UNCHANGED <<clock, hold, engineVars, storageVars, webVars, sent, eraVars, swipes, ops>>

-----------------------------------------------------------------------------
\* persistLocked: states, then activities; neither result is looked at.

SaveStates ==
    /\ hold = "states"
    /\ hold' = "activities"
    /\ \/ saved' = states /\ UNCHANGED faults
       \/ Fault("save") /\ UNCHANGED saved
    /\ UNCHANGED <<clock, fifo, pc, cur, engineVars, savedActivity, journal,
                   webVars, sent, eraVars, swipes, ops>>

\* Faulty variant of SaveActivities: the lock is released in mid-event.
SaveActivitiesEarlyUnlock ==
    /\ hold = "activities"
    /\ hold' = "free"
    /\ savedActivity' = activity
    /\ UNCHANGED <<clock, fifo, pc, cur, engineVars, saved, journal, webVars, sent,
                   eraVars, boundVars>>

SaveActivities ==
    /\ hold = "activities"
    /\ hold' = "free"
    /\ pc' = IF pc = "persist" THEN "notify" ELSE pc
    /\ \/ savedActivity' = activity /\ UNCHANGED faults
       \/ Fault("save") /\ UNCHANGED savedActivity
    /\ UNCHANGED <<clock, fifo, cur, engineVars, saved, journal, webVars, sent,
                   eraVars, swipes, ops>>

-----------------------------------------------------------------------------
\* Web requests.

Operation(what) ==
    /\ what \in Ops
    /\ ops < MaxOps
    /\ ops' = ops + 1

\* UserManager::save: the whole registry is stored, or the storage fails.
SaveRegistry ==
    \/ savedOwner' = owner' /\ UNCHANGED faults
    \/ Fault("registry") /\ UNCHANGED savedOwner

\* /api/users/save: card c goes to user u; the result of the save is not looked at, and a
\* refresh follows.
SaveUser(c, u) ==
    /\ Operation("bind")
    /\ owner' = [owner EXCEPT ![c] = u]
    /\ SaveRegistry
    /\ refreshes' = refreshes + 1
    /\ UNCHANGED <<clock, fifo, pc, cur, hold, engineVars, storageVars, unrefreshed, sent,
                   eraVars, swipes>>

\* Faulty variant of AssignCard: no refresh follows.
AssignCardNoRefresh(c, u) ==
    /\ Operation("bind")
    /\ owner' = [owner EXCEPT ![c] = u]
    /\ savedOwner' = owner'
    /\ UNCHANGED <<clock, fifo, pc, cur, hold, engineVars, storageVars, refreshes,
                   unrefreshed, sent, eraVars, swipes, faults>>

\* /api/cards/assign, /api/cards/create-user, a SOYAL record: a refresh follows if the
\* registry was saved.  If not, the request ends with an error, and memory has the new owner.
AssignCard(c, u) ==
    /\ Operation("bind")
    /\ owner' = [owner EXCEPT ![c] = u]
    /\ \/ /\ savedOwner' = owner'
          /\ refreshes' = refreshes + 1
          /\ UNCHANGED <<unrefreshed, faults>>
       \/ /\ Fault("registry")
          /\ unrefreshed' = unrefreshed \union {c}
          /\ UNCHANGED <<savedOwner, refreshes>>
    /\ UNCHANGED <<clock, fifo, pc, cur, hold, engineVars, storageVars, sent, eraVars, swipes>>

\* The same for a user who is not there (any more): assignCard has taken the card from its
\* owner when it finds that out, and neither a save nor a refresh follows.
AssignToMissing(c) ==
    /\ Operation("bind")
    /\ owner[c] # None
    /\ owner' = [owner EXCEPT ![c] = None]
    /\ unrefreshed' = unrefreshed \union {c}
    /\ UNCHANGED <<clock, fifo, pc, cur, hold, engineVars, storageVars, savedOwner, refreshes,
                   sent, eraVars, swipes, faults>>

\* /api/cards/delete: a refresh follows in any case.
RemoveCard(c) ==
    /\ Operation("unbind")
    /\ owner[c] # None
    /\ owner' = [owner EXCEPT ![c] = None]
    /\ SaveRegistry
    /\ refreshes' = refreshes + 1
    /\ UNCHANGED <<clock, fifo, pc, cur, hold, engineVars, storageVars, unrefreshed, sent,
                   eraVars, swipes>>

\* State a replaces state b if it is of a later read, or of the same when ties
\* go to a.
Beats(a, b, ties) == a.last > b.last \/ (ties /\ a.last = b.last)

\* s with the state of every owned card moved to its owner (own says whose it is), if it
\* beats the owner's own state.
Migrated(s, own, ties) ==
    LET Rivals(u) ==
          {c \in Card : own[c] = u /\ s[c].last # 0 /\ Beats(s[c], s[u], ties)} IN
    [k \in User \union Card |->
       CASE k \in Card /\ own[k] # None -> NeverRead
         [] k \in User /\ Rivals(k) # {} ->
              s[CHOOSE c \in Rivals(k) : \A d \in Rivals(k) : s[d].last <= s[c].last]
         [] OTHER -> s[k]]

\* refreshUserMetadata up to persistLocked.
RefreshUserMetadata ==
    /\ refreshes > 0
    /\ hold = "free"
    /\ refreshes' = refreshes - 1
    /\ unrefreshed' = {}
    /\ activity' = [c \in Card |-> IF activity[c] = Unseen THEN Unseen ELSE owner[c]]
    /\ states' = Migrated(states, owner, FALSE)
    /\ hold' = "states"
    /\ UNCHANGED <<clock, fifo, pc, cur, storageVars, owner, savedOwner, sent, eraVars,
                   boundVars>>

\* resetSiteActivity, first half: the stored states are emptied (if that fails
\* nothing has happened).  The maps in memory are cleared under the lock, where
\* nobody sees them before the second half decides.
ResetStates ==
    /\ hold = "free"
    /\ Operation("reset")
    /\ saved' = Nobody
    /\ hold' = "reset"
    /\ era' = era + 1
    /\ UNCHANGED <<clock, fifo, pc, cur, engineVars, savedActivity, journal,
                   webVars, sent, mixed, swipes, faults>>

\* Faulty variant of ResetActivities: the states in memory survive the reset.
ResetActivitiesKeepsStates ==
    /\ hold = "reset"
    /\ hold' = "free"
    /\ savedActivity' = [c \in Card |-> Unseen]
    /\ activity' = [c \in Card |-> Unseen]
    /\ UNCHANGED <<clock, fifo, pc, cur, states, saved, journal, webVars, sent, eraVars,
                   boundVars>>

\* Second half: the stored activities are emptied too.
ResetActivities ==
    /\ hold = "reset"
    /\ hold' = "free"
    /\ savedActivity' = [c \in Card |-> Unseen]
    /\ activity' = [c \in Card |-> Unseen]
    /\ states' = Nobody
    /\ UNCHANGED <<clock, fifo, pc, cur, saved, journal, webVars, sent, eraVars, boundVars>>

\* Or that fails, and everything is put back.
ResetRolledBack ==
    /\ hold = "reset"
    /\ Fault("save")
    /\ hold' = "free"
    /\ saved' = states
    /\ savedActivity' = activity
    /\ era' = era - 1
    /\ UNCHANGED <<clock, fifo, pc, cur, engineVars, journal, webVars, sent, mixed,
                   swipes, ops>>

-----------------------------------------------------------------------------
\* Faulty variant of Crash: stored states are loaded as they are.
CrashNoMigration ==
    /\ Fault("crash")
    /\ pc' = "poll"
    /\ cur' = NoEvent
    /\ hold' = "free"
    /\ states' = saved
    /\ activity' = savedActivity
    /\ owner' = savedOwner
    /\ refreshes' = 0 /\ unrefreshed' = {}
    /\ UNCHANGED <<clock, fifo, storageVars, savedOwner, sent, eraVars, swipes, ops>>

\* The server dies and starts again; the registry and the constructor load what was stored.
Crash ==
    /\ Fault("crash")
    /\ pc' = "poll"
    /\ cur' = NoEvent
    /\ hold' = "free"
    /\ states' = Migrated(saved, savedOwner, TRUE)
    /\ activity' = savedActivity
    /\ owner' = savedOwner
    /\ refreshes' = 0 /\ unrefreshed' = {}
    /\ UNCHANGED <<clock, fifo, storageVars, savedOwner, sent, eraVars, swipes, ops>>

Next ==
    \/ Tick
    \/ \E n \in Node, c \in Card, k \in Codes : Swipe(n, c, k)
    \/ \E n \in Node, manual \in BOOLEAN : Poll(n, manual)
    \/ PollEmpty
    \/ SkipDuplicate
    \/ AppendFails
    \/ RecordRaw
    \/ RecordAccess
    \/ RecordAccessAgain
    \/ Notify
    \/ RemoveOldest
    \/ SaveStates
    \/ SaveActivities
    \/ \E c \in Card, u \in User : SaveUser(c, u) \/ AssignCard(c, u)
    \/ \E c \in Card : AssignToMissing(c) \/ RemoveCard(c)
    \/ RefreshUserMetadata
    \/ ResetStates
    \/ ResetActivities
    \/ ResetRolledBack
    \/ Crash

Spec == Init /\ [][Next]_vars

-----------------------------------------------------------------------------
\* The report of the day (loadDailyAttendance): the passes of user u are taken
\* in the order of their times, rows of one time in the order of insertion.

PassesOf(u) == {i \in DOMAIN journal : journal[i].user = u /\ journal[i].type \in Pass}

TimeOf(i) == journal[i].frame.time

Before(i, j) == TimeOf(i) < TimeOf(j) \/ (TimeOf(i) = TimeOf(j) /\ i < j)

LastPass(u) ==
    CHOOSE i \in PassesOf(u) : \A j \in PassesOf(u) \ {i} : Before(j, i)

FirstArrival(u) ==
    CHOOSE i \in PassesOf(u) :
        /\ journal[i].type = "arrival"
        /\ \A j \in PassesOf(u) \ {i} : journal[j].type = "arrival" => Before(i, j)

DailyAttendance(u) ==
    LET last == LastPass(u) IN
    [present   |-> journal[last].type = "arrival",
     arrival   |-> TimeOf(FirstArrival(u)),
     departure |-> IF journal[last].type = "departure" THEN TimeOf(last) ELSE 0]

-----------------------------------------------------------------------------
\* Properties.

\* Passes i and j of one user, in one era, with no pass of that user between.
Consecutive(i, j) ==
    /\ i < j
    /\ journal[i].user \in User /\ journal[i].user = journal[j].user
    /\ journal[i].type \in Pass /\ journal[j].type \in Pass
    /\ journal[i].era = journal[j].era
    /\ \A k \in i + 1 .. j - 1 : k \notin PassesOf(journal[i].user)

\* "The first read is an arrival, the next one changes the state, whichever of
\* his cards the user presents": between two resets the arrivals and
\* departures of a user alternate in the journal, beginning with an arrival,
\* unless an event from before a reset took effect again after it, or one of a
\* former owner of the card.
\* (onControllerAccessEvent, state per user)
Alternate ==
    /\ \A i, j \in DOMAIN journal :
         Consecutive(i, j) /\ journal[i].era \notin mixed =>
           journal[i].type # journal[j].type
    /\ \A i \in DOMAIN journal :
         journal[i].type = "departure" /\ journal[i].era \notin mixed =>
           \E h \in 1 .. i - 1 : Consecutive(h, i)

\* The two pages show the same: a user is in the list of those present exactly
\* if his report of the day ends with an arrival of the current era, and his
\* departure is later than his arrival.
\* (presentUsers, resetSiteActivity, loadDailyAttendance)
ViewsAgree ==
    hold # "reset" /\ era \notin mixed =>
      \A u \in User :
        IF PassesOf(u) = {} \/ journal[LastPass(u)].era # era
        THEN ~states[u].present
        ELSE /\ states[u].present = DailyAttendance(u).present
             /\ ~states[u].present =>
                  DailyAttendance(u).arrival < DailyAttendance(u).departure

\* Two passes of a user are never within the repeat window of each other, even
\* when a backlog is drained in an instant.
RepeatWindow ==
    \A i, j \in DOMAIN journal :
        Consecutive(i, j) => TimeOf(j) > TimeOf(i) + Repeat

\* A physical event has one row at most, and is notified at most once, and only
\* when its row says arrival or departure - however often 37H fails or the
\* server restarts between insert and deletion.
\* (hasControllerEvent, appendEvent, Notify)
OncePerEvent ==
    /\ \A i, j \in DOMAIN journal :
         journal[i].node = journal[j].node /\ journal[i].frame = journal[j].frame => i = j
    /\ IsInjective(sent)
    /\ \A k \in DOMAIN sent :
         \E i \in DOMAIN journal :
            /\ journal[i].node = sent[k].node /\ journal[i].frame = sent[k].frame
            /\ journal[i].type \in Pass

\* Once the requests that changed the registry have refreshed, every card on the
\* activity page is shown with its present owner, no matter how the worker's
\* reads fell between a change and its refresh - but for cards whose request
\* failed after it had changed their owner.
\* (refreshUserMetadata)
MetadataCurrent ==
    refreshes = 0 => \A c \in Card \ unrefreshed : activity[c] \in {Unseen, owner[c]}

\* And a card that has an owner keeps no presence state of its own, after a
\* restart as well: all cards of a user share one state, again but for cards
\* whose request failed and was not followed by a refresh or a restart.
\* (refreshUserMetadata, constructor)
OneStatePerUser ==
    refreshes = 0 =>
      \A c \in Card \ unrefreshed : owner[c] # None => states[c] = NeverRead
=============================================================================
