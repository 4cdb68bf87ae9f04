--------------------------- MODULE ReportSchedule ---------------------------
(***************************************************************************)
(* The scheduled attendance report.  The scheduler thread reads the        *)
(* settings key by key, while a web thread may be writing them key by key; *)
(* it marks the trigger it is about to serve in the configuration, saves   *)
(* it, and sends the report to Telegram, with retries.  The server may     *)
(* stop at any point and start again from the saved configuration; an      *)
(* administrator may import an older configuration.                        *)
(*                                                                         *)
(* Days are numbered from a Monday, and a day has slots: a schedule with   *)
(* time t is due from slot t on.  A monthly schedule is like a weekly one  *)
(* and is left out; so is last_sent_key, which nothing reads.  Saving a    *)
(* configuration is one step here (CsvFile has the steps).                 *)
(***************************************************************************)
EXTENDS Integers

CONSTANTS
    Time,        \* times of day a schedule may have
    Weekday,     \* the day of a weekly schedule (1 = Monday)
    Retries,     \* telegram.retry_count
    Messages,    \* messages of the text copy (0: reports.report_text_copy is off)
    InitTime,    \* the time of the daily schedule at the start
    None,
    MaxDay,      \* bound: days
    MaxSaves,    \* bound: schedules saved by an administrator
    MaxImports,  \* bound: imports of the configuration
    MaxRestarts  \* bound: restarts of the server

VARIABLES
    day, slot,  \* the clock
    conf,       \* the keys reports.schedule.* of the configuration in memory
    file,       \* the same in system.conf
    web,        \* the change a web thread is in the middle of
    pc,         \* where the scheduler stands
    s,          \* its copy of the settings
    key,        \* the trigger it serves
    range,      \* the days the report covers
    tries,      \* attempts made with the document or message being sent
    part,       \* 0: the document; then the messages
    \* history and bounds
    unsaved,    \* the last save failed
    fresh,      \* a fresh run was permitted since the scheduler found its trigger
    served,     \* reports begun, by settings and days, since the settings changed or a
                \* fresh run was permitted
    saves, imports, restarts

clock == <<day, slot>>
sendVars == <<range, tries, part>>
schedulerVars == <<pc, s, key, sendVars>>
ghostVars == <<fresh, served>>
boundVars == <<saves, imports, restarts>>
vars == <<clock, conf, file, web, schedulerVars, unsaved, ghostVars, boundVars>>

Period == {"daily", "weekly"}
Setting == [enabled : BOOLEAN, period : Period, time : Time]

\* A trigger: the settings that were due, and the day.
Key == [period : Period, day : Nat, time : Time]
Conf == [enabled : BOOLEAN, period : Period, time : Time, attempt : Key \union {None},
         status : {"", "running", "ok", "error"}]

ASSUME ScheduleAssumption ==
    /\ Time \subseteq Nat \ {0}
    /\ InitTime \in Time
    /\ Weekday \in 1 .. 7
    /\ Retries \in Nat \ {0}
    /\ Messages \in Nat
    /\ MaxDay \in Nat \ {0} /\ {MaxSaves, MaxImports, MaxRestarts} \subseteq Nat
    /\ None \notin Key

Slot == {0} \union Time
Days == [period : Period, from : Nat]
Step == {"down", "enabled", "period", "time", "check", "mark", "save", "range", "send",
         "sent", "failed", "end"}

ConfType ==
    /\ conf \in Conf /\ file \in Conf
    /\ web \in [at : {"idle", "save"}]
              \union [at : {"enabled", "period", "time", "attempt"}, new : Setting]

\* A report is under way only for a trigger.
SchedulerType ==
    /\ pc \in Step /\ s \in Setting
    /\ key \in Key \union {None}
    /\ (key # None) <=> pc \in {"mark", "save", "range", "send", "sent", "failed"}

SendType ==
    /\ range \in Days \union {None} /\ tries \in 0 .. Retries - 1 /\ part \in 0 .. Messages

HistoryType ==
    /\ unsaved \in BOOLEAN /\ fresh \in BOOLEAN
    /\ served \subseteq [period : Period, time : Time, range : Days]

TypeOK ==
    /\ day \in 1 .. MaxDay /\ slot \in Slot
    /\ ConfType /\ SchedulerType /\ SendType /\ HistoryType
    /\ saves \in 0 .. MaxSaves /\ imports \in 0 .. MaxImports /\ restarts \in 0 .. MaxRestarts

SettingOf(c) == [enabled |-> c.enabled, period |-> c.period, time |-> c.time]

InitConf ==
    [enabled |-> TRUE, period |-> "daily", time |-> InitTime, attempt |-> None, status |-> ""]

Init ==
    /\ day = 1 /\ slot = 0
    /\ conf = InitConf
    /\ file = conf
    /\ web = [at |-> "idle"]
    /\ pc = "enabled" /\ s = SettingOf(conf) /\ key = None
    /\ range = None /\ tries = 0 /\ part = 0
    /\ unsaved = FALSE /\ fresh = FALSE /\ served = {}
    /\ saves = 0 /\ imports = 0 /\ restarts = 0

-----------------------------------------------------------------------------
\* Time passes: to a later slot of the day, or to the next morning.
Tick ==
    /\ \/ \E t \in Slot : t > slot /\ slot' = t /\ day' = day
       \/ day < MaxDay /\ day' = day + 1 /\ slot' = 0
    /\ UNCHANGED <<conf, file, web, schedulerVars, unsaved, ghostVars, boundVars>>

\* Config::save writes all keys at once, under the lock, or fails.
SaveConfig ==
    \/ file' = conf /\ unsaved' = FALSE
    \/ file' = file /\ unsaved' = TRUE

-----------------------------------------------------------------------------
(***************************************************************************)
(* The web server: saveSchedule, and the import of settings.               *)
(***************************************************************************)

BeginSaveSchedule ==
    /\ pc # "down" /\ web.at = "idle" /\ saves < MaxSaves
    /\ \E new \in Setting : web' = [at |-> "enabled", new |-> new]
    /\ saves' = saves + 1
    /\ UNCHANGED <<clock, conf, file, schedulerVars, unsaved, ghostVars, imports,
                   restarts>>

\* One cfg_.set of saveSchedule; the weekday and the day of the month are as the time.
SetKey ==
    /\ \/ /\ web.at = "enabled"
          /\ conf' = [conf EXCEPT !.enabled = web.new.enabled]
          /\ web' = [web EXCEPT !.at = "period"]
       \/ /\ web.at = "period"
          /\ conf' = [conf EXCEPT !.period = web.new.period]
          /\ web' = [web EXCEPT !.at = "time"]
       \/ /\ web.at = "time"
          /\ conf' = [conf EXCEPT !.time = web.new.time]
          /\ web' = [web EXCEPT !.at = "attempt"]
    /\ served' = IF SettingOf(conf') = SettingOf(conf) THEN served ELSE {}
    /\ UNCHANGED <<clock, file, schedulerVars, unsaved, fresh, boundVars>>

\* The attempt is forgotten: a fresh run is permitted.
ForgetAttempt ==
    /\ web.at = "attempt"
    /\ conf' = [conf EXCEPT !.attempt = None]
    /\ web' = [at |-> "save"]
    /\ fresh' = TRUE /\ served' = {}
    /\ UNCHANGED <<clock, file, schedulerVars, unsaved, boundVars>>

SaveByWeb ==
    /\ web.at = "save"
    /\ SaveConfig
    /\ web' = [at |-> "idle"]
    /\ UNCHANGED <<clock, conf, schedulerVars, ghostVars, boundVars>>

\* replaceRaw: all keys are replaced, those the scheduler keeps included.  The imported
\* configuration is the one the server started with.
Import ==
    /\ pc # "down" /\ web.at = "idle" /\ imports < MaxImports
    /\ conf' = InitConf
    /\ web' = [at |-> "save"]
    /\ fresh' = TRUE /\ served' = {}
    /\ imports' = imports + 1
    /\ UNCHANGED <<clock, file, schedulerVars, unsaved, saves, restarts>>

-----------------------------------------------------------------------------
(***************************************************************************)
(* The scheduler.                                                          *)
(***************************************************************************)

\* schedule() reads key after key, each under the lock of its own.
ReadKey ==
    /\ \/ pc = "enabled" /\ s' = [s EXCEPT !.enabled = conf.enabled] /\ pc' = "period"
       \/ pc = "period" /\ s' = [s EXCEPT !.period = conf.period] /\ pc' = "time"
       \/ pc = "time" /\ s' = [s EXCEPT !.time = conf.time] /\ pc' = "check"
    /\ UNCHANGED <<clock, conf, file, web, key, sendVars, unsaved, ghostVars, boundVars>>

\* isScheduleDue
IsScheduleDue(set) ==
    /\ set.enabled
    /\ slot >= set.time
    /\ set.period = "weekly" => ((day - 1) % 7) + 1 = Weekday

TriggerKey(set) == [period |-> set.period, day |-> day, time |-> set.time]

\* Faulty variant of Check: one attempt a day, whatever the settings.
CheckDay ==
    /\ pc = "check"
    /\ IF IsScheduleDue(s) /\ (conf.attempt = None \/ conf.attempt.day # day)
       THEN key' = TriggerKey(s) /\ pc' = "mark"
       ELSE key' = None /\ pc' = "enabled"
    /\ fresh' = FALSE
    /\ UNCHANGED <<clock, conf, file, web, s, sendVars, unsaved, served, boundVars>>

Check ==
    /\ pc = "check"
    /\ IF IsScheduleDue(s) /\ conf.attempt # TriggerKey(s)
       THEN key' = TriggerKey(s) /\ pc' = "mark"
       ELSE key' = None /\ pc' = "enabled"
    /\ fresh' = FALSE
    /\ UNCHANGED <<clock, conf, file, web, s, sendVars, unsaved, served, boundVars>>

\* Faulty variant of Mark: the mark is left to be saved with the outcome.
MarkUnsaved ==
    /\ pc = "mark"
    /\ conf' = [conf EXCEPT !.attempt = key, !.status = "running"]
    /\ pc' = "range"
    /\ UNCHANGED <<clock, file, web, s, key, sendVars, unsaved, ghostVars, boundVars>>

\* The trigger is marked as attempted before anything is sent.
Mark ==
    /\ pc = "mark"
    /\ conf' = [conf EXCEPT !.attempt = key, !.status = "running"]
    /\ pc' = "save"
    /\ UNCHANGED <<clock, file, web, s, key, sendVars, unsaved, ghostVars, boundVars>>

\* Whether the configuration could be saved is not looked at.
SaveMark ==
    /\ pc = "save"
    /\ SaveConfig
    /\ pc' = "range"
    /\ UNCHANGED <<clock, conf, web, s, key, sendVars, ghostVars, boundVars>>

\* The day before, or the Monday of the week before.
ScheduledRange(period, today) ==
    [period |-> period,
     from |-> IF period = "daily" THEN today - 1 ELSE (today - 1) \div 7]

\* The range follows from the day it is now, not from the trigger's; a midnight may have
\* passed.  Then the report is built, which may fail.
BeginReport ==
    /\ pc = "range"
    /\ range' = ScheduledRange(s.period, day)
    /\ tries' = 0 /\ part' = 0
    /\ \E built \in BOOLEAN : pc' = IF built THEN "send" ELSE "failed"
    /\ served' = IF day # key.day \/ fresh THEN served
                 ELSE served \union {[period |-> s.period, time |-> s.time, range |-> range']}
    /\ UNCHANGED <<clock, conf, file, web, s, key, unsaved, fresh, boundVars>>

\* The document, and then the messages in order, each tried up to Retries times; one that
\* fails for good fails the report, although the document has arrived.
SendPart ==
    /\ pc = "send"
    /\ \/ /\ tries' = 0
          /\ part' = IF part = Messages THEN 0 ELSE part + 1
          /\ pc' = IF part = Messages THEN "sent" ELSE "send"
       \/ /\ tries + 1 < Retries
          /\ tries' = tries + 1
          /\ UNCHANGED <<part, pc>>
       \/ /\ tries + 1 = Retries
          /\ tries' = 0 /\ part' = 0
          /\ pc' = "failed"
    /\ UNCHANGED <<clock, conf, file, web, s, key, range, unsaved, ghostVars, boundVars>>

\* Faulty variant of NoteOutcome: the trigger stays in hand after a failure.
NoteOutcomeOfSuccess ==
    /\ pc \in {"sent", "failed"}
    /\ conf' = [conf EXCEPT !.status = IF pc = "sent" THEN "ok" ELSE "error"]
    /\ key' = (IF pc = "sent" THEN None ELSE key) /\ range' = None
    /\ pc' = "end"
    /\ UNCHANGED <<clock, file, web, s, tries, part, unsaved, ghostVars, boundVars>>

NoteOutcome ==
    /\ pc \in {"sent", "failed"}
    /\ conf' = [conf EXCEPT !.status = IF pc = "sent" THEN "ok" ELSE "error"]
    /\ key' = None /\ range' = None
    /\ pc' = "end"
    /\ UNCHANGED <<clock, file, web, s, tries, part, unsaved, ghostVars, boundVars>>

SaveOutcome ==
    /\ pc = "end"
    /\ SaveConfig
    /\ pc' = "enabled"
    /\ UNCHANGED <<clock, conf, web, s, key, sendVars, ghostVars, boundVars>>

-----------------------------------------------------------------------------
\* The server stops or dies.  A trigger whose mark could not be saved is forgotten.
Crash ==
    /\ pc # "down" /\ restarts < MaxRestarts
    /\ pc' = "down" /\ key' = None /\ range' = None /\ tries' = 0 /\ part' = 0
    /\ web' = [at |-> "idle"]
    /\ conf' = file
    /\ served' = IF unsaved THEN {} ELSE served
    /\ unsaved' = FALSE /\ fresh' = FALSE
    /\ restarts' = restarts + 1
    /\ UNCHANGED <<clock, file, s, saves, imports>>

Start ==
    /\ pc = "down"
    /\ pc' = "enabled"
    /\ UNCHANGED <<clock, conf, file, web, s, key, sendVars, unsaved, ghostVars, boundVars>>

Scheduler ==
    ReadKey \/ Check \/ Mark \/ SaveMark \/ BeginReport \/ SendPart \/ NoteOutcome
      \/ SaveOutcome

Web == BeginSaveSchedule \/ SetKey \/ ForgetAttempt \/ SaveByWeb \/ Import

Next == Tick \/ Web \/ Scheduler \/ Crash \/ Start

\* The scheduler goes on, a request once begun is carried out, a stopped server is
\* started again.
Fairness ==
    /\ WF_vars(Scheduler)
    /\ WF_vars(SetKey \/ ForgetAttempt \/ SaveByWeb)
    /\ WF_vars(Start)

Spec == Init /\ [][Next]_vars
FairSpec == Spec /\ Fairness

-----------------------------------------------------------------------------
(***************************************************************************)
(* Properties.                                                             *)
(***************************************************************************)

\* A schedule sends the report of a period once: through failures to send and restarts at
\* any point, in the middle of a save as well, the same settings begin no second report of
\* the same days, unless the settings were changed, a schedule saved or a configuration
\* imported after the first was triggered, or the server died while its configuration could
\* not be saved; a report triggered just before midnight and built just after it is another
\* matter.
OncePerRange ==
    [][pc = "range" /\ pc' # "down" /\ pc' # "range" /\ day = key.day /\ ~fresh =>
         [period |-> s.period, time |-> s.time, range |-> range'] \notin served]_vars

\* A schedule that is due and stays due is attempted in the end, even if the server was
\* down or busy when its time came, or the settings were changed meanwhile.
DueIsAttempted ==
    \A k \in [period : Period, day : 1 .. MaxDay, time : Time] :
        <>[](IsScheduleDue(SettingOf(conf)) /\ TriggerKey(SettingOf(conf)) = k)
          => <>[](conf.attempt = k)
=============================================================================
