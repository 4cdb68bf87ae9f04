------------------------ MODULE ReportScheduleProofs ------------------------
(***************************************************************************)
(* Proofs about ReportSchedule, for any times, number of retries, days,    *)
(* changes and restarts: type correctness, and that a schedule sends the   *)
(* report of a period once.                                                *)
(***************************************************************************)
EXTENDS ReportSchedule, TLAPS

-----------------------------------------------------------------------------
\* The inductive invariant.

\* The report a trigger stands for, and whether its schedule was due that day.
RecordOf(k) ==
    [period |-> k.period, time |-> k.time, range |-> ScheduledRange(k.period, k.day)]
DueOn(k) == k.period = "weekly" => ((k.day - 1) % 7) + 1 = Weekday

Reported == {k \in Key : DueOn(k) /\ RecordOf(k) \in served}

\* No configuration, in memory or saved, has a schedule that today has been reported by
\* already, unless it says so itself.
Blocked(c) ==
    \A k \in Reported : k.day = day => k = c.attempt \/ c.period # k.period \/ c.time # k.time
Remembered ==
    /\ \A k \in Reported : k.day <= day
    /\ Blocked(conf) /\ (~unsaved => Blocked(file))

\* Since a report was begun the settings have not changed: what the scheduler has read of
\* them again is as in the configuration.
SettingsRead ==
    served # {} =>
        /\ pc \in {"time", "check", "mark", "save", "range"} => s.period = conf.period
        /\ pc \in {"check", "mark", "save", "range"} => s.time = conf.time

\* The trigger in hand: its report was not begun, and nothing later was; and from its mark
\* on the configuration has it, the saved one too if it could be saved.
KeyInHand ==
    pc \in {"mark", "save", "range"} =>
        /\ key.period = s.period /\ key.time = s.time /\ key.day <= day /\ DueOn(key)
        /\ \A k \in Reported : k.day <= key.day
        /\ ~fresh /\ key.day = day => RecordOf(key) \notin served
        /\ ~fresh /\ pc \in {"save", "range"} => conf.attempt = key
        /\ ~fresh /\ ~unsaved /\ pc = "range" => file.attempt = key

Inv == TypeOK /\ Remembered /\ SettingsRead /\ KeyInHand

-----------------------------------------------------------------------------
\* What the assumption on the constants gives the steps below.
LEMMA ConstantTypes ==
    /\ Time \subseteq Nat \ {0} /\ InitTime \in Time /\ Weekday \in 1 .. 7
    /\ Retries \in Nat \ {0} /\ Messages \in Nat /\ MaxDay \in Nat \ {0}
    /\ MaxSaves \in Nat /\ MaxImports \in Nat /\ MaxRestarts \in Nat
    /\ None \notin Key
<1>1. {MaxSaves, MaxImports, MaxRestarts} \subseteq Nat
  BY ScheduleAssumption
<1>2. MaxSaves \in Nat /\ MaxImports \in Nat /\ MaxRestarts \in Nat
  BY <1>1
<1>3. QED
  BY ScheduleAssumption, <1>2

\* The settings, and the days of a report, are of their types; the configuration at the
\* start too.
LEMMA SettingTypes ==
    /\ \A c \in Conf : SettingOf(c) \in Setting
    /\ \A p \in Period, d \in Nat \ {0} : ScheduledRange(p, d) \in Days
    /\ InitConf \in Conf
<1> USE ConstantTypes DEF Period
<1>1. ASSUME NEW c \in Conf PROVE SettingOf(c) \in Setting
  BY DEF Conf, Setting, SettingOf
<1>2. ASSUME NEW p \in Period, NEW d \in Nat \ {0} PROVE ScheduledRange(p, d) \in Days
  <2>1. d - 1 \in Nat /\ (d - 1) \div 7 \in Nat
    OBVIOUS
  <2>2. QED
    BY <2>1 DEF ScheduledRange, Days
<1>3. InitConf \in Conf
  BY DEF InitConf, Conf
<1>4. QED
  BY <1>1, <1>2, <1>3

\* A due trigger is known by its report: a schedule is due on one day of the days it covers.
LEMMA ReportIsOfOneTrigger ==
    ASSUME NEW k \in Key, NEW l \in Key, DueOn(k), DueOn(l), RecordOf(k) = RecordOf(l)
    PROVE  k = l
<1>1. k.period = l.period /\ k.time = l.time
  BY DEF RecordOf
<1>2. ScheduledRange(k.period, k.day) = ScheduledRange(l.period, l.day)
  BY DEF RecordOf
<1>3. k.day \in Nat /\ l.day \in Nat
  BY DEF Key
<1>4. CASE k.period = "daily"
  <2>1. k.day - 1 = l.day - 1
    BY <1>1, <1>2, <1>4 DEF ScheduledRange
  <2>2. QED
    BY <1>1, <1>3, <2>1 DEF Key
<1>5. CASE k.period = "weekly"
  <2>1. (k.day - 1) \div 7 = (l.day - 1) \div 7
    BY <1>1, <1>2, <1>5 DEF ScheduledRange
  <2>2. (k.day - 1) % 7 = (l.day - 1) % 7
    <3>1. (k.day - 1) % 7 \in Int /\ (l.day - 1) % 7 \in Int /\ Weekday \in Int
      BY <1>3, ConstantTypes
    <3>2. QED
      BY <1>1, <1>5, <3>1 DEF DueOn
  <2>3. k.day - 1 = l.day - 1
    BY <1>3, <2>1, <2>2
  <2>4. QED
    BY <1>1, <1>3, <2>3 DEF Key
<1>6. QED
  BY <1>4, <1>5 DEF Key, Period

-----------------------------------------------------------------------------
\* Type correctness.

\* The server starts well typed.
LEMMA InitType == Init => TypeOK
<1> SUFFICES ASSUME Init PROVE TypeOK
  OBVIOUS
<1> USE ConstantTypes, SettingTypes
<1>1. ConfType
  BY DEF Init, ConfType
<1>2. SchedulerType
  BY DEF Init, SchedulerType, Step
<1>3. SendType
  BY DEF Init, SendType
<1>4. HistoryType
  BY DEF Init, HistoryType
<1>5. QED
  BY <1>1, <1>2, <1>3, <1>4 DEF Init, TypeOK, Slot

\* Every step of the clock, the web server, the scheduler and the server keeps the types.
LEMMA TypeNext == TypeOK /\ [Next]_vars => TypeOK'
<1> SUFFICES ASSUME TypeOK, [Next]_vars PROVE TypeOK'
  OBVIOUS
<1> USE ConstantTypes DEF TypeOK, clock, sendVars, schedulerVars, ghostVars, boundVars
<1>1. CASE Tick
  <2> USE <1>1 DEF Tick
  <2>1. ConfType' /\ SchedulerType' /\ SendType' /\ HistoryType'
    BY DEF ConfType, SchedulerType, SendType, HistoryType
  <2>2. QED
    BY <2>1 DEF Slot
<1>2. CASE BeginSaveSchedule
  <2> USE <1>2 DEF BeginSaveSchedule
  <2>1. ConfType'
    BY DEF ConfType
  <2>2. SchedulerType' /\ SendType' /\ HistoryType'
    BY DEF SchedulerType, SendType, HistoryType
  <2>3. QED
    BY <2>1, <2>2
<1>3. CASE SetKey
  <2> USE <1>3 DEF SetKey
  <2>1. ConfType'
    <3>1. PICK new \in Setting : web = [at |-> web.at, new |-> new]
      BY DEF ConfType
    <3>2. /\ web' \in [at : {"period", "time", "attempt"}, new : Setting]
          /\ file' = file
      BY <3>1
    <3>3. /\ conf.enabled \in BOOLEAN /\ conf.period \in Period /\ conf.time \in Time
          /\ new.enabled \in BOOLEAN /\ new.period \in Period /\ new.time \in Time
      BY DEF ConfType, Conf, Setting
    <3>4. web.new = new
      BY <3>1
    <3>5. \/ conf' = [conf EXCEPT !.enabled = new.enabled]
          \/ conf' = [conf EXCEPT !.period = new.period]
          \/ conf' = [conf EXCEPT !.time = new.time]
      BY <3>4
    <3>6. conf \in Conf
      BY DEF ConfType
    <3>7. \A e \in BOOLEAN : [conf EXCEPT !.enabled = e] \in Conf
      BY <3>6 DEF Conf
    <3>8. \A p \in Period, t \in Time :
            [conf EXCEPT !.period = p] \in Conf /\ [conf EXCEPT !.time = t] \in Conf
      BY <3>6 DEF Conf
    <3>9. conf' \in Conf
      BY <3>3, <3>5, <3>7, <3>8
    <3>10. QED
      BY <3>2, <3>9 DEF ConfType
  <2>2. HistoryType'
    BY DEF HistoryType
  <2>3. SchedulerType' /\ SendType'
    BY DEF SchedulerType, SendType
  <2>4. QED
    BY <2>1, <2>2, <2>3
<1>4. CASE ForgetAttempt
  <2> USE <1>4 DEF ForgetAttempt
  <2>1. ConfType'
    BY DEF Conf, ConfType
  <2>2. HistoryType'
    BY DEF HistoryType
  <2>3. SchedulerType' /\ SendType'
    BY DEF SchedulerType, SendType
  <2>4. QED
    BY <2>1, <2>2, <2>3
<1>5. CASE SaveByWeb
  <2> USE <1>5 DEF SaveByWeb
  <2>1. ConfType'
    BY DEF SaveConfig, ConfType
  <2>2. HistoryType'
    BY DEF SaveConfig, HistoryType
  <2>3. SchedulerType' /\ SendType'
    BY DEF SchedulerType, SendType
  <2>4. QED
    BY <2>1, <2>2, <2>3
<1>6. CASE Import
  <2> USE <1>6 DEF Import
  <2>1. ConfType'
    BY SettingTypes DEF ConfType
  <2>2. HistoryType'
    BY DEF HistoryType
  <2>3. SchedulerType' /\ SendType'
    BY DEF SchedulerType, SendType
  <2>4. QED
    BY <2>1, <2>2, <2>3
<1>7. CASE ReadKey
  <2> USE <1>7 DEF ReadKey
  <2>1. SchedulerType'
    <3>1. conf.enabled \in BOOLEAN /\ conf.period \in Period /\ conf.time \in Time
      BY DEF ConfType, Conf
    <3>2. s' \in Setting
      BY <3>1 DEF SchedulerType, Setting
    <3>3. pc' \in {"period", "time", "check"} /\ key' = key /\ key = None
      BY DEF SchedulerType
    <3>4. QED
      BY <3>2, <3>3 DEF SchedulerType, Step
  <2>2. ConfType' /\ SendType' /\ HistoryType'
    BY DEF ConfType, SendType, HistoryType
  <2>3. QED
    BY <2>1, <2>2
<1>8. CASE Check
  <2> USE <1>8 DEF Check
  <2>1. SchedulerType'
    <3>1. TriggerKey(s) \in Key
      BY DEF TriggerKey, Key, SchedulerType, Setting
    <3>2. QED
      BY <3>1 DEF Step, SchedulerType
  <2>2. HistoryType'
    BY DEF HistoryType
  <2>3. ConfType' /\ SendType'
    BY DEF ConfType, SendType
  <2>4. QED
    BY <2>1, <2>2, <2>3
<1>9. CASE Mark
  <2> USE <1>9 DEF Mark
  <2>1. ConfType'
    BY DEF Conf, SchedulerType, ConfType
  <2>2. SchedulerType'
    BY DEF Step, SchedulerType
  <2>3. SendType' /\ HistoryType'
    BY DEF SendType, HistoryType
  <2>4. QED
    BY <2>1, <2>2, <2>3
<1>10. CASE SaveMark
  <2> USE <1>10 DEF SaveMark
  <2>1. ConfType'
    BY DEF SaveConfig, ConfType
  <2>2. SchedulerType'
    BY DEF Step, SchedulerType
  <2>3. HistoryType'
    BY DEF SaveConfig, HistoryType
  <2>4. SendType'
    BY DEF SendType
  <2>5. QED
    BY <2>1, <2>2, <2>3, <2>4
<1>11. CASE BeginReport
  <2> USE <1>11 DEF BeginReport
  <2>1. SchedulerType'
    BY DEF Step, SchedulerType
  <2>2. range' \in Days /\ s.period \in Period /\ s.time \in Time
    BY SettingTypes DEF SchedulerType, Setting
  <2>3. SendType'
    BY <2>2 DEF SendType
  <2>4. HistoryType'
    <3>1. [period |-> s.period, time |-> s.time, range |-> range']
            \in [period : Period, time : Time, range : Days]
      BY <2>2
    <3>2. QED
      BY <3>1 DEF HistoryType
  <2>5. ConfType'
    BY DEF ConfType
  <2>6. QED
    BY <2>1, <2>3, <2>4, <2>5
<1>12. CASE SendPart
  <2> USE <1>12 DEF SendPart
  <2>1. SchedulerType'
    BY DEF Step, SchedulerType
  <2>2. SendType'
    BY DEF SendType
  <2>3. ConfType' /\ HistoryType'
    BY DEF ConfType, HistoryType
  <2>4. QED
    BY <2>1, <2>2, <2>3
<1>13. CASE NoteOutcome
  <2> USE <1>13 DEF NoteOutcome
  <2>1. ConfType'
    BY DEF Conf, ConfType
  <2>2. SchedulerType'
    BY DEF Step, SchedulerType
  <2>3. SendType'
    BY DEF SendType
  <2>4. HistoryType'
    BY DEF HistoryType
  <2>5. QED
    BY <2>1, <2>2, <2>3, <2>4
<1>14. CASE SaveOutcome
  <2> USE <1>14 DEF SaveOutcome
  <2>1. ConfType'
    BY DEF SaveConfig, ConfType
  <2>2. SchedulerType'
    BY DEF Step, SchedulerType
  <2>3. HistoryType'
    BY DEF SaveConfig, HistoryType
  <2>4. SendType'
    BY DEF SendType
  <2>5. QED
    BY <2>1, <2>2, <2>3, <2>4
<1>15. CASE Crash
  <2> USE <1>15 DEF Crash
  <2>1. ConfType'
    BY DEF ConfType
  <2>2. SchedulerType'
    BY DEF Step, SchedulerType
  <2>3. SendType'
    BY DEF SendType
  <2>4. HistoryType'
    BY DEF HistoryType
  <2>5. QED
    BY <2>1, <2>2, <2>3, <2>4
<1>16. CASE Start
  <2> USE <1>16 DEF Start
  <2>1. SchedulerType'
    BY DEF Step, SchedulerType
  <2>2. ConfType' /\ SendType' /\ HistoryType'
    BY DEF ConfType, SendType, HistoryType
  <2>3. QED
    BY <2>1, <2>2
<1>17. CASE UNCHANGED vars
  BY <1>17 DEF vars, ConfType, SchedulerType, SendType, HistoryType
<1>18. QED
  BY <1>1, <1>2, <1>3, <1>4, <1>5, <1>6, <1>7, <1>8, <1>9, <1>10, <1>11, <1>12, <1>13, <1>14, <1>15, <1>16, <1>17 DEF Next, Web, Scheduler

-----------------------------------------------------------------------------
\* The invariant.

\* Nothing has been reported at the start.
LEMMA InitInv == Init => Inv
<1>1. Init => Reported = {}
  BY DEF Init, Reported
<1>2. QED
  BY <1>1, InitType DEF Init, Inv, Remembered, Blocked, SettingsRead, KeyInHand

\* A step that begins no report leaves nothing reported that was not.
LEMMA ReportedShrinks == served' \subseteq served => Reported' \subseteq Reported
BY DEF Reported, RecordOf, DueOn, ScheduledRange

\* Every step of the clock, the web server, the scheduler and the server preserves the
\* invariant.
LEMMA InvNext == Inv /\ [Next]_vars => Inv'
<1> SUFFICES ASSUME Inv, [Next]_vars PROVE Remembered' /\ SettingsRead' /\ KeyInHand'
  BY TypeNext DEF Inv
<1> USE ConstantTypes
<1>a. TypeOK /\ TypeOK'
  BY TypeNext DEF Inv
<1>b. \A k \in Key : k.day \in Nat
  BY DEF Key
<1>c. day \in Nat /\ day' \in Nat
  BY <1>a DEF TypeOK
<1>d. Reported # {} => served # {}
  BY DEF Reported
<1>e. Reported \subseteq Key
  BY DEF Reported
<1> DEFINE Kept == UNCHANGED <<conf, file, web, pc, s, key, unsaved, fresh, served>>
<1>1. CASE Tick
  <2>1. Kept /\ day' >= day /\ Reported' = Reported
    BY <1>1, <1>c DEF Tick, clock, schedulerVars, ghostVars, Reported, RecordOf, DueOn,
       ScheduledRange
  <2>2. Remembered'
    BY <1>b, <1>c, <1>e, <2>1 DEF Inv, Remembered, Blocked
  <2>3. SettingsRead'
    BY <2>1 DEF Inv, SettingsRead
  <2>4. KeyInHand'
    <3>1. pc \in {"mark", "save", "range"} => key \in Key
      BY <1>a DEF TypeOK, SchedulerType
    <3>2. QED
      BY <1>b, <1>c, <2>1, <3>1 DEF Inv, KeyInHand, DueOn, RecordOf, ScheduledRange
  <2>5. QED
    BY <2>2, <2>3, <2>4
<1>2. CASE Kept /\ UNCHANGED day
  BY <1>2 DEF Inv, Remembered, Blocked, SettingsRead, KeyInHand, Reported, RecordOf, DueOn,
     ScheduledRange
<1>3. CASE BeginSaveSchedule
  <2>1. UNCHANGED <<conf, file, pc, s, key, unsaved, fresh, served, day>>
    BY <1>3 DEF BeginSaveSchedule, clock, schedulerVars, ghostVars
  <2>2. QED
    BY <2>1 DEF Inv, Remembered, Blocked, SettingsRead, KeyInHand, Reported, RecordOf, DueOn,
       ScheduledRange
<1>4. CASE SetKey
  <2>1. /\ UNCHANGED <<file, pc, s, key, unsaved, fresh, day>>
        /\ conf'.attempt = conf.attempt
        /\ \/ served' = {}
           \/ served' = served /\ conf'.period = conf.period /\ conf'.time = conf.time
    BY <1>4, <1>a DEF SetKey, SettingOf, clock, schedulerVars, TypeOK, ConfType, Conf
  <2>2. CASE served' = {}
    <3>1. Reported' = {}
      BY <2>2 DEF Reported
    <3>2. QED
      BY <2>1, <2>2, <3>1 DEF Inv, Remembered, Blocked, SettingsRead, KeyInHand, RecordOf,
         DueOn, ScheduledRange
  <2>3. CASE served' = served /\ conf'.period = conf.period /\ conf'.time = conf.time
    BY <2>1, <2>3 DEF Inv, Remembered, Blocked, SettingsRead, KeyInHand, Reported, RecordOf,
       DueOn, ScheduledRange
  <2>4. QED
    BY <2>1, <2>2, <2>3
<1>5. CASE ForgetAttempt \/ Import
  <2>1. served' = {} /\ fresh' /\ UNCHANGED <<pc, s, key, day>>
    BY <1>5 DEF ForgetAttempt, Import, clock, schedulerVars
  <2>2. Reported' = {}
    BY <2>1 DEF Reported
  <2>3. QED
    BY <2>1, <2>2 DEF Inv, Remembered, Blocked, SettingsRead, KeyInHand, RecordOf, DueOn,
       ScheduledRange
<1>6. CASE SaveByWeb \/ SaveMark \/ SaveOutcome
  <2>1. /\ UNCHANGED <<conf, s, key, fresh, served, day>>
        /\ (file' = conf /\ unsaved' = FALSE) \/ (file' = file /\ unsaved' = TRUE)
        /\ pc' = pc \/ (pc = "save" /\ pc' = "range") \/ (pc = "end" /\ pc' = "enabled")
    BY <1>6 DEF SaveByWeb, SaveMark, SaveOutcome, SaveConfig, clock, schedulerVars, ghostVars
  <2>2. Reported' = Reported
    BY <2>1 DEF Reported, RecordOf, DueOn, ScheduledRange
  <2>3. Remembered'
    BY <2>1, <2>2 DEF Inv, Remembered, Blocked
  <2>4. SettingsRead'
    BY <2>1 DEF Inv, SettingsRead
  <2>5. KeyInHand'
    BY <2>1, <2>2 DEF Inv, KeyInHand, RecordOf, DueOn, ScheduledRange
  <2>6. QED
    BY <2>3, <2>4, <2>5
<1>7. CASE ReadKey
  <2>1. /\ UNCHANGED <<conf, file, key, unsaved, fresh, served, day>>
        /\ pc' \in {"period", "time", "check"}
    BY <1>7 DEF ReadKey, clock, ghostVars
  <2>2. Reported' = Reported
    BY <2>1 DEF Reported, RecordOf, DueOn, ScheduledRange
  <2>3. SettingsRead'
    BY <1>7, <1>a DEF ReadKey, Inv, SettingsRead, ghostVars, TypeOK, SchedulerType, Setting
  <2>4. QED
    BY <2>1, <2>2, <2>3 DEF Inv, Remembered, Blocked, KeyInHand
<1>8. CASE Check
  <2>1. /\ UNCHANGED <<conf, file, s, unsaved, served, day>> /\ ~fresh'
        /\ pc = "check"
        /\ \/ IsScheduleDue(s) /\ conf.attempt # TriggerKey(s) /\ key' = TriggerKey(s)
              /\ pc' = "mark"
           \/ pc' = "enabled"
    BY <1>8 DEF Check, clock
  <2>2. Reported' = Reported
    BY <2>1 DEF Reported, RecordOf, DueOn, ScheduledRange
  <2>3. Remembered' /\ SettingsRead'
    BY <2>1, <2>2 DEF Inv, Remembered, Blocked, SettingsRead
  <2>4. ASSUME pc' = "mark" PROVE KeyInHand'
    <3>1. /\ key'.period = s.period /\ key'.time = s.time /\ key'.day = day /\ key' \in Key
          /\ DueOn(key') /\ conf.attempt # key'
      BY <1>a, <2>1, <2>4 DEF TriggerKey, IsScheduleDue, DueOn, TypeOK, SchedulerType, Setting,
         Key
    <3>2. RecordOf(key') \notin served
      <4>1. SUFFICES ASSUME key' \in Reported PROVE FALSE
        BY <3>1 DEF Reported
      <4>2. conf.period = s.period /\ conf.time = s.time
        BY <1>d, <2>1, <4>1 DEF Inv, SettingsRead
      <4>3. QED
        BY <3>1, <4>1, <4>2 DEF Inv, Remembered, Blocked
    <3>3. DueOn(key)' /\ RecordOf(key)' = RecordOf(key')
      BY <3>1 DEF DueOn, RecordOf, ScheduledRange
    <3>4. key'.day <= day' /\ \A k \in Reported' : k.day <= key'.day
      BY <1>c, <2>1, <2>2, <3>1 DEF Inv, Remembered
    <3>5. QED
      BY <2>1, <2>4, <3>1, <3>2, <3>3, <3>4 DEF KeyInHand
  <2>5. QED
    BY <2>1, <2>3, <2>4 DEF KeyInHand
<1>9. CASE Mark
  <2>1. /\ UNCHANGED <<file, s, key, unsaved, fresh, served, day>>
        /\ pc = "mark" /\ pc' = "save"
        /\ conf'.attempt = key /\ conf'.period = conf.period /\ conf'.time = conf.time
    BY <1>9, <1>a DEF Mark, clock, sendVars, ghostVars, TypeOK, ConfType, Conf
  <2>2. Reported' = Reported
    BY <2>1 DEF Reported, RecordOf, DueOn, ScheduledRange
  <2>3. key \in Key
    BY <1>a, <2>1 DEF TypeOK, SchedulerType
  <2>4. Blocked(conf)'
    <3>1. SUFFICES ASSUME NEW k \in Reported, k.day = day,
                          conf'.period = k.period, conf'.time = k.time
                   PROVE  k = key
      BY <2>1, <2>2 DEF Blocked
    <3>2. k.period = key.period /\ k.time = key.time
      BY <1>d, <2>1, <3>1 DEF Inv, SettingsRead, KeyInHand
    <3>3. k.day = key.day
      BY <1>b, <1>c, <1>e, <2>1, <2>3, <3>1 DEF Inv, KeyInHand
    <3>4. QED
      BY <1>e, <2>3, <3>2, <3>3 DEF Key
  <2>5. Remembered'
    BY <2>1, <2>2, <2>4 DEF Inv, Remembered, Blocked
  <2>6. SettingsRead' /\ KeyInHand'
    BY <2>1, <2>2 DEF Inv, SettingsRead, KeyInHand, RecordOf, DueOn, ScheduledRange
  <2>7. QED
    BY <2>5, <2>6
<1>10. CASE BeginReport
  <2>1. /\ UNCHANGED <<conf, file, s, key, unsaved, fresh, day>>
        /\ pc = "range" /\ pc' \in {"send", "failed"}
        /\ served' = IF day # key.day \/ fresh THEN served
                     ELSE served \union {RecordOf(key)}
    BY <1>10 DEF BeginReport, clock, RecordOf, Inv, KeyInHand
  <2>2. SettingsRead' /\ KeyInHand'
    BY <2>1 DEF SettingsRead, KeyInHand
  <2>3. CASE day # key.day \/ fresh
    <3>1. Reported' = Reported
      BY <2>1, <2>3 DEF Reported, RecordOf, DueOn, ScheduledRange
    <3>2. QED
      BY <2>1, <2>2, <3>1 DEF Inv, Remembered, Blocked
  <2>4. CASE day = key.day /\ ~fresh
    <3>1. key \in Key /\ DueOn(key) /\ conf.attempt = key /\ (~unsaved => file.attempt = key)
      BY <1>a, <2>1, <2>4 DEF TypeOK, SchedulerType, Inv, KeyInHand
    <3>2. Reported' \subseteq Reported \union {key}
      <4>1. ASSUME NEW k \in Key, DueOn(k), RecordOf(k) \in served', k \notin Reported
            PROVE  k = key
        <5>1. RecordOf(k) = RecordOf(key)
          BY <2>1, <2>4, <4>1 DEF Reported
        <5>2. QED
          BY <3>1, <4>1, <5>1, ReportIsOfOneTrigger
      <4>2. QED
        BY <4>1 DEF Reported, RecordOf, DueOn, ScheduledRange
    <3>3. QED
      BY <1>c, <2>1, <2>2, <2>4, <3>1, <3>2 DEF Inv, Remembered, Blocked
  <2>5. QED
    BY <2>3, <2>4
<1>11. CASE SendPart
  <2>1. /\ UNCHANGED <<conf, file, s, key, unsaved, served, day>>
        /\ pc' \in {"send", "sent", "failed"}
    BY <1>11 DEF SendPart, clock, ghostVars
  <2>2. QED
    BY <2>1 DEF Inv, Remembered, Blocked, SettingsRead, KeyInHand, Reported, RecordOf, DueOn,
       ScheduledRange
<1>12. CASE NoteOutcome
  <2>1. /\ UNCHANGED <<file, s, unsaved, served, day>> /\ pc' = "end"
        /\ conf'.attempt = conf.attempt /\ conf'.period = conf.period
        /\ conf'.time = conf.time
    BY <1>12, <1>a DEF NoteOutcome, clock, ghostVars, TypeOK, ConfType, Conf
  <2>2. QED
    BY <2>1 DEF Inv, Remembered, Blocked, SettingsRead, KeyInHand, Reported, RecordOf, DueOn,
       ScheduledRange
<1>13. CASE Crash
  <2>1. /\ UNCHANGED <<file, day>> /\ pc' = "down" /\ conf' = file /\ ~unsaved'
        /\ served' = {} \/ (~unsaved /\ served' = served)
    BY <1>13 DEF Crash, clock
  <2>2. SettingsRead' /\ KeyInHand'
    BY <2>1 DEF SettingsRead, KeyInHand
  <2>3. Reported' = {} \/ (~unsaved /\ Reported' = Reported)
    BY <2>1 DEF Reported, RecordOf, DueOn, ScheduledRange
  <2>4. QED
    BY <2>1, <2>2, <2>3 DEF Inv, Remembered, Blocked
<1>14. CASE Start
  <2>1. /\ UNCHANGED <<conf, file, s, unsaved, served, day>> /\ pc' = "enabled"
    BY <1>14 DEF Start, clock, ghostVars
  <2>2. QED
    BY <2>1 DEF Inv, Remembered, Blocked, SettingsRead, KeyInHand, Reported, RecordOf, DueOn,
       ScheduledRange
<1>15. CASE UNCHANGED vars
  BY <1>2, <1>15 DEF vars, clock, schedulerVars, ghostVars
<1>16. QED
  BY <1>1, <1>3, <1>4, <1>5, <1>6, <1>7, <1>8, <1>9, <1>10, <1>11, <1>12, <1>13, <1>14, <1>15
     DEF Next, Web, Scheduler

\* The invariant holds in every reachable state.
LEMMA Invariance == Spec => []Inv
BY InitInv, InvNext, PTL DEF Spec

\* Whatever is changed, imported, sent and restarted, every variable keeps its type, and a
\* report is under way only for a trigger.
THEOREM TypeCorrect == Spec => []TypeOK
<1>1. Inv => TypeOK
  BY DEF Inv
<1>2. QED
  BY <1>1, Invariance, PTL

\* A schedule sends the report of a period once, through failures to send and restarts at
\* any point, for any times, days and number of changes: while the settings stay as they
\* are, the mark in the configuration, in memory and in the file, keeps out the second run.
THEOREM ReportedOnce == Spec => OncePerRange
<1> DEFINE Once == pc = "range" /\ pc' # "down" /\ pc' # "range" /\ day = key.day /\ ~fresh =>
                     [period |-> s.period, time |-> s.time, range |-> range'] \notin served
<1>1. Inv /\ [Next]_vars => [Once]_vars
  <2> SUFFICES ASSUME Inv, Next, pc = "range", pc' # "down", pc' # "range", day = key.day,
                      ~fresh
               PROVE  [period |-> s.period, time |-> s.time, range |-> range'] \notin served
    OBVIOUS
  <2>1. range' = ScheduledRange(s.period, day)
    BY DEF Next, Web, Scheduler, Tick, BeginSaveSchedule, SetKey, ForgetAttempt, SaveByWeb,
       Import, ReadKey, Check, Mark, SaveMark, BeginReport, SendPart, NoteOutcome, SaveOutcome,
       Crash, Start, schedulerVars
  <2>2. QED
    BY <2>1 DEF Inv, KeyInHand, RecordOf
<1>2. QED
  BY <1>1, Invariance, PTL DEF Spec, OncePerRange
=============================================================================
