------------------------------ MODULE Notifier ------------------------------
(***************************************************************************)
(* Notifications of arrivals and departures.  The attendance engine puts   *)
(* its events in a queue in memory; one thread takes them off, drops those *)
(* nobody wants and those too old to be news, and sends the others to      *)
(* Telegram, each with a few attempts.  Reports and tests are sent by      *)
(* other threads, one at a time with the notifications (send_mu_).         *)
(***************************************************************************)
EXTENDS Naturals, Sequences, FiniteSets, SequencesExt

CONSTANTS
    Retries,      \* telegram.retry_count
    None,
    MaxEvents,    \* bound: events of the attendance engine
    MaxSettings,  \* bound: changes of the settings
    MaxOthers,    \* bound: sends of other threads
    MaxRestarts   \* bound: restarts of the server

Kind == {"arrival", "departure"}

\* An event, by its number; wanted: notifications of its kind are on for this user.
Event == [no : 1 .. MaxEvents, kind : Kind, wanted : BOOLEAN]

ASSUME NotifierAssumption ==
    /\ Retries \in Nat \ {0}
    /\ {MaxEvents, MaxSettings, MaxOthers, MaxRestarts} \subseteq Nat
    /\ None \notin Event

VARIABLES
    up,       \* the server runs
    enabled,  \* telegram.enabled
    notify,   \* the kinds of notify_arrival and notify_departure
    q,        \* q_
    hand,     \* the event taken off the queue
    at,       \* what the thread does with it: "filter", "age", "send"
    tries,    \* attempts made to send it
    busy,     \* another thread holds send_mu_
    old,      \* events past telegram.notify_recent_minutes
    \* history and bounds
    chat,     \* the notifications that reached the chat
    stale,    \* events that were old when their age was looked at
    count, settings, others, restarts

threadVars == <<hand, at, tries>>
settingVars == <<enabled, notify, settings>>
vars == <<up, settingVars, q, threadVars, busy, old, chat, stale, count, others, restarts>>

SettingType ==
    /\ up \in BOOLEAN /\ enabled \in BOOLEAN /\ busy \in BOOLEAN
    /\ notify \subseteq Kind

\* The thread has an event in hand exactly while it deals with it.
ThreadType ==
    /\ hand \in Event \union {None}
    /\ at \in {"take", "filter", "age", "send"} /\ ((at = "take") <=> (hand = None))
    /\ tries \in 0 .. Retries - 1

TypeOK ==
    /\ SettingType /\ ThreadType
    /\ q \in Seq(Event) /\ chat \in Seq(Event)
    /\ old \subseteq 1 .. MaxEvents /\ stale \subseteq old
    /\ count \in 0 .. MaxEvents /\ settings \in 0 .. MaxSettings
    /\ others \in 0 .. MaxOthers /\ restarts \in 0 .. MaxRestarts

Init ==
    /\ up = TRUE /\ enabled = TRUE /\ notify = Kind
    /\ q = <<>> /\ hand = None /\ at = "take" /\ tries = 0
    /\ busy = FALSE /\ old = {} /\ chat = <<>> /\ stale = {}
    /\ count = 0 /\ settings = 0 /\ others = 0 /\ restarts = 0

-----------------------------------------------------------------------------
\* The attendance engine's callback; an event of a backlog is old from the start.
Enqueue ==
    /\ up /\ count < MaxEvents
    /\ count' = count + 1
    /\ \E kind \in Kind, wanted \in BOOLEAN :
         q' = IF enabled THEN Append(q, [no |-> count', kind |-> kind, wanted |-> wanted])
                         ELSE q
    /\ \E backlog \in BOOLEAN : old' = IF backlog THEN old \union {count'} ELSE old
    /\ UNCHANGED <<up, settingVars, threadVars, busy, chat, stale, others, restarts>>

\* Time passes.
GrowOld(n) ==
    /\ n \in 1 .. count \ old
    /\ old' = old \union {n}
    /\ UNCHANGED <<up, settingVars, q, threadVars, busy, chat, stale, count, others, restarts>>

\* The settings are replaced; what is queued already is not looked through again.
ChangeSettings ==
    /\ up /\ settings < MaxSettings
    /\ enabled' \in BOOLEAN /\ notify' \in SUBSET Kind
    /\ settings' = settings + 1
    /\ UNCHANGED <<up, q, threadVars, busy, old, chat, stale, count, others, restarts>>

-----------------------------------------------------------------------------
\* The event is taken off the queue before anything is done with it.
Take ==
    /\ up /\ at = "take" /\ q # <<>>
    /\ hand' = Head(q) /\ q' = Tail(q)
    /\ at' = "filter"
    /\ UNCHANGED <<up, settingVars, tries, busy, old, chat, stale, count, others, restarts>>

Drop == hand' = None /\ at' = "take"

\* Faulty variant of Filter: an unwanted event is not put down.
FilterKeeps ==
    /\ up /\ at = "filter"
    /\ at' = IF hand.kind \in notify /\ hand.wanted THEN "age" ELSE "take"
    /\ UNCHANGED <<up, settingVars, q, hand, tries, busy, old, chat, stale, count, others,
                   restarts>>

Filter ==
    /\ up /\ at = "filter"
    /\ IF hand.kind \in notify /\ hand.wanted
       THEN at' = "age" /\ UNCHANGED hand
       ELSE Drop
    /\ UNCHANGED <<up, settingVars, q, tries, busy, old, chat, stale, count, others, restarts>>

CheckAge ==
    /\ up /\ at = "age"
    /\ IF hand.no \in old
       THEN Drop /\ stale' = stale \union {hand.no}
       ELSE at' = "send" /\ UNCHANGED <<hand, stale>>
    /\ UNCHANGED <<up, settingVars, q, tries, busy, old, chat, count, others, restarts>>

\* Faulty variant of Send: an event that could not be sent goes back to the queue.
SendAgainLater ==
    /\ up /\ at = "send" /\ ~busy
    /\ \E delivered \in BOOLEAN, ok \in BOOLEAN :
         /\ ok => delivered
         /\ chat' = IF delivered THEN Append(chat, hand) ELSE chat
         /\ Drop /\ tries' = 0
         /\ q' = IF ok \/ hand \in ToSet(q) THEN q ELSE Append(q, hand)
    /\ UNCHANGED <<up, settingVars, busy, old, stale, count, others, restarts>>

\* Faulty variant of Send: it is tried until it succeeds.
SendForever ==
    /\ up /\ at = "send" /\ ~busy
    /\ \E delivered \in BOOLEAN :
         /\ chat' = IF delivered THEN Append(chat, hand) ELSE chat
         /\ IF delivered THEN Drop /\ tries' = 0
            ELSE tries' = (tries + 1) % Retries /\ UNCHANGED <<hand, at>>
    /\ UNCHANGED <<up, settingVars, q, busy, old, stale, count, others, restarts>>

\* One curl.  It may deliver the message and still fail, when the answer is lost.
Send ==
    /\ up /\ at = "send" /\ ~busy
    /\ \E delivered \in BOOLEAN, ok \in BOOLEAN :
         /\ ok => delivered
         /\ chat' = IF delivered THEN Append(chat, hand) ELSE chat
         /\ IF ok \/ tries + 1 = Retries
            THEN Drop /\ tries' = 0
            ELSE tries' = tries + 1 /\ UNCHANGED <<hand, at>>
    /\ UNCHANGED <<up, settingVars, q, busy, old, stale, count, others, restarts>>

\* A report, one of its messages or a test is being sent.
BeginOther ==
    /\ up /\ ~busy /\ others < MaxOthers
    /\ busy' = TRUE
    /\ others' = others + 1
    /\ UNCHANGED <<up, settingVars, q, threadVars, old, chat, stale, count, restarts>>

\* curl gives up after 15 or 30 seconds.
EndOther ==
    /\ busy
    /\ busy' = FALSE
    /\ UNCHANGED <<up, settingVars, q, threadVars, old, chat, stale, count, others, restarts>>

-----------------------------------------------------------------------------
\* The queue, and the event in hand, are in memory only.
Stop ==
    /\ up /\ restarts < MaxRestarts
    /\ up' = FALSE
    /\ q' = <<>> /\ hand' = None /\ at' = "take" /\ tries' = 0 /\ busy' = FALSE
    /\ restarts' = restarts + 1
    /\ UNCHANGED <<settingVars, old, chat, stale, count, others>>

Start ==
    /\ ~up
    /\ up' = TRUE
    /\ UNCHANGED <<settingVars, q, threadVars, busy, old, chat, stale, count, others, restarts>>

Thread == Take \/ Filter \/ CheckAge \/ Send

Next ==
    \/ Enqueue \/ (\E n \in 1 .. MaxEvents : GrowOld(n)) \/ ChangeSettings
    \/ Thread \/ BeginOther \/ EndOther
    \/ Stop \/ Start

\* The thread goes on, and no curl lasts for ever.
Fairness == WF_vars(Thread) /\ WF_vars(EndOther)

Spec == Init /\ [][Next]_vars
FairSpec == Spec /\ Fairness

-----------------------------------------------------------------------------
(***************************************************************************)
(* Properties.                                                             *)
(***************************************************************************)

\* The chat tells what happened in the order it happened, whatever was dropped, failed or
\* was lost in between: no notification overtakes another, none is repeated more often
\* than it was attempted, and none is about an event that was old or unwanted when the
\* thread looked at it.
ChatInOrder ==
    /\ \A i, j \in 1 .. Len(chat) : i < j => chat[i].no <= chat[j].no
    /\ \A i \in 1 .. Len(chat) :
         /\ Cardinality({j \in 1 .. Len(chat) : chat[j] = chat[i]}) <= Retries
         /\ chat[i].wanted /\ chat[i].no \notin stale

Waiting(n) == n \in {e.no : e \in ToSet(q)} \/ (hand # None /\ hand.no = n)

\* No event waits for ever, even if Telegram never answers and reports are sent meanwhile.
EveryEventLeaves == \A n \in 1 .. MaxEvents : Waiting(n) ~> ~Waiting(n)
=============================================================================
