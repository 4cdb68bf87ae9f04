-------------------------- MODULE AttendanceProofs --------------------------
(***************************************************************************)
(* Proofs about Attendance, for any number of controllers, cards, users,   *)
(* swipes, operations and faults.                                          *)
(***************************************************************************)
EXTENDS Attendance, TLAPS, SequenceTheorems, WellFoundedInduction

-----------------------------------------------------------------------------
\* The inductive invariant of the types: an era or a refresh that is outstanding has its
\* operation, a reset under way its era, and the event in hand is still in its FIFO.
Counted ==
    /\ refreshes <= ops /\ era <= ops
    /\ hold = "reset" => era > 0
    /\ pc # "poll" => fifo[cur.node] # <<>>

TypeInv == TypeOK /\ Counted

-----------------------------------------------------------------------------
\* What the assumption on the constants gives the steps below.
LEMMA ConstantTypes ==
    /\ Repeat \in Nat /\ MaxTime \in Nat \ {0} /\ MaxSwipes \in Nat /\ MaxOps \in Nat
    /\ MaxFaults \in Nat
    /\ InitOwner \in [Card -> User \union {None}]
    /\ User \intersect Card = {} /\ None \notin User /\ Unseen \notin User /\ None # Unseen
    /\ Codes \subseteq {"access", "other"}
<1>1. {MaxSwipes, MaxOps, MaxFaults} \subseteq Nat /\ {None, Unseen} \intersect User = {}
  BY AttendanceAssumption
<1>2. /\ MaxSwipes \in Nat /\ MaxOps \in Nat /\ MaxFaults \in Nat
      /\ None \notin User /\ Unseen \notin User
  BY <1>1
<1>3. QED
  BY <1>2, AttendanceAssumption

\* Every set of natural numbers that is not empty has a least one.
LEMMA LeastNumber ==
    ASSUME NEW S \in SUBSET Nat, S # {}
    PROVE  \E m \in S : \A k \in S : m <= k
<1> DEFINE Less == OpToRel(<, Nat)
<1>1. IsWellFoundedOn(Less, Nat)
  BY NatLessThanWellFounded
<1>2. \A x, y \in Nat : x < y => <<x, y>> \in Less
  BY DEF OpToRel
<1> HIDE DEF Less
<1>3. PICK m \in S : \A k \in S : <<k, m>> \notin Less
  BY <1>1, WFMin
<1>4. \A k \in S : ~(k < m)
  BY <1>2, <1>3
<1>5. QED
  BY <1>4

\* Where the state of k comes from when cards are moved to their owners.
LEMMA MigratedFrom ==
    ASSUME NEW s \in [User \union Card -> State], NEW own \in [Card -> User \union {None}],
           NEW ties \in BOOLEAN, NEW k \in User \union Card
    PROVE  \/ Migrated(s, own, ties)[k] = s[k]
           \/ k \in Card /\ Migrated(s, own, ties)[k] = NeverRead
           \/ k \in User /\ \E c \in Card : Beats(s[c], s[k], ties) /\ Migrated(s, own, ties)[k] = s[c]
<1> DEFINE Rivals(u) == {c \in Card : own[c] = u /\ s[c].last # 0 /\ Beats(s[c], s[u], ties)}
<1>1. ASSUME k \in User, Rivals(k) # {}
      PROVE  \E c \in Rivals(k) : \A d \in Rivals(k) : s[d].last <= s[c].last
  <2>1. \A c \in Card : s[c].last \in 0 .. MaxTime
    BY DEF State
  <2> DEFINE Slack == {MaxTime - s[c].last : c \in Rivals(k)}
  <2>2. Slack \in SUBSET Nat /\ Slack # {}
    BY <1>1, <2>1, ConstantTypes
  <2>3. PICK m \in Slack : \A x \in Slack : m <= x
    BY <2>2, LeastNumber
  <2>4. PICK c \in Rivals(k) : m = MaxTime - s[c].last
    BY <2>3
  <2>5. ASSUME NEW d \in Rivals(k) PROVE s[d].last <= s[c].last
    <3>1. m <= MaxTime - s[d].last
      BY <2>3
    <3>2. QED
      BY <2>1, <2>4, <3>1, ConstantTypes
  <2>6. QED
    BY <2>5
<1>2. CASE k \in User /\ Rivals(k) # {}
  <2> DEFINE latest == CHOOSE c \in Rivals(k) : \A d \in Rivals(k) : s[d].last <= s[c].last
  <2>1. latest \in Rivals(k)
    BY <1>1, <1>2
  <2>2. Migrated(s, own, ties)[k] = s[latest]
    BY <1>2, ConstantTypes DEF Migrated
  <2>3. QED
    BY <1>2, <2>1, <2>2
<1>3. CASE k \in User /\ Rivals(k) = {}
  BY <1>3, ConstantTypes DEF Migrated
<1>4. CASE k \in Card
  BY <1>4, ConstantTypes DEF Migrated
<1>5. QED
  BY <1>2, <1>3, <1>4

\* The states after cards have been moved to their owners are states.
LEMMA MigratedType ==
    ASSUME NEW s \in [User \union Card -> State], NEW own \in [Card -> User \union {None}],
           NEW ties \in BOOLEAN
    PROVE  Migrated(s, own, ties) \in [User \union Card -> State]
<1>1. NeverRead \in State
  BY ConstantTypes DEF NeverRead, State
<1>2. \A k \in User \union Card : Migrated(s, own, ties)[k] \in State
  BY <1>1, MigratedFrom
<1>3. Migrated(s, own, ties) = [k \in User \union Card |-> Migrated(s, own, ties)[k]]
  BY DEF Migrated
<1>4. QED
  BY <1>2, <1>3

\* A read that takes effect leaves states, activities and the event in hand of their types.
LEMMA TakeEffectType ==
    ASSUME TypeOK, pc = "handle",
           NEW t \in Time, NEW type \in Type, TakeEffect(cur.frame.card, t, type)
    PROVE  /\ states' \in [User \union Card -> State]
           /\ activity' \in [Card -> User \union {None, Unseen}]
           /\ cur' \in Current
<1> DEFINE c == cur.frame.card
<1>1. cur \in Current /\ c \in Card
  BY DEF TypeOK, WorkerType, Current, Frame
<1>2. owner[c] \in User \union {None} /\ StateKey(c) \in User \union Card
  BY <1>1 DEF TypeOK, StateKey
<1>3. t \in 0 .. MaxTime
  BY DEF Time
<1>4. states' \in [User \union Card -> State]
  <2> DEFINE new == [present |-> type = "arrival"
                                   \/ (states[StateKey(c)].present /\ type # "departure"),
                     last |-> t]
  <2>1. states[StateKey(c)].present \in BOOLEAN
    BY <1>2 DEF TypeOK, EngineType, State
  <2>2. (type = "arrival" \/ (states[StateKey(c)].present /\ type # "departure")) \in BOOLEAN
    BY <2>1
  <2>3. new \in State
    BY <1>3, <2>2 DEF State
  <2> HIDE DEF new
  <2>4. states' = [states EXCEPT ![StateKey(c)] = new]
    BY DEF TakeEffect, new
  <2>5. QED
    BY <2>3, <2>4 DEF TypeOK, EngineType
<1>5. activity' \in [Card -> User \union {None, Unseen}]
  BY <1>1, <1>2 DEF TypeOK, EngineType, TakeEffect
<1>6. cur' \in Current
  BY <1>1 DEF TakeEffect, Current
<1>7. QED
  BY <1>4, <1>5, <1>6

-----------------------------------------------------------------------------
\* Type correctness.

LEMMA TypeInit == Init => TypeInv
<1> SUFFICES ASSUME Init PROVE TypeInv
  OBVIOUS
<1> USE ConstantTypes
<1>1. WorkerType
  BY DEF Init, WorkerType
<1>2. EngineType
  BY DEF Init, EngineType, Nobody, NeverRead, State
<1>3. HistoryType
  BY DEF Init, HistoryType
<1>4. QED
  BY <1>1, <1>2, <1>3 DEF Init, TypeInv, TypeOK, Counted, Time

LEMMA TypeNext == TypeInv /\ [Next]_vars => TypeInv'
<1> SUFFICES ASSUME TypeInv, [Next]_vars PROVE TypeInv'
  OBVIOUS
<1> USE ConstantTypes
<1> USE DEF TypeInv
<1>1. CASE Tick
  BY <1>1 DEF Tick, TypeOK, WorkerType, EngineType, HistoryType, Counted, Time, engineVars,
              storageVars, webVars, eraVars, boundVars
<1>2. CASE \E n \in Node, c \in Card, k \in Codes : Swipe(n, c, k)
  <2>1. PICK n \in Node, c \in Card, k \in Codes : Swipe(n, c, k)
    BY <1>2
  <2>2. fifo' \in [Node -> Seq(Frame)]
    <3>1. [card |-> c, time |-> clock, code |-> k] \in Frame
      BY DEF TypeOK, Frame
    <3>2. fifo[n] \in Seq(Frame)
      BY DEF TypeOK, WorkerType
    <3>3. Append(fifo[n], [card |-> c, time |-> clock, code |-> k]) \in Seq(Frame)
      BY <3>1, <3>2
    <3>4. QED
      BY <2>1, <3>3 DEF Swipe, TypeOK, WorkerType
  <2>3. swipes' \in 0 .. MaxSwipes
    BY <2>1 DEF Swipe, TypeOK
  <2>4. Counted'
    <3>1. \A m \in Node : fifo[m] # <<>> => fifo'[m] # <<>>
      BY <2>1, AppendProperties DEF Swipe, TypeOK, WorkerType, Frame
    <3>2. QED
      BY <2>1, <3>1 DEF Swipe, TypeOK, WorkerType, Current, Counted, webVars, eraVars
  <2>5. QED
    BY <2>1, <2>2, <2>3, <2>4 DEF Swipe, TypeOK, WorkerType, EngineType, HistoryType,
              engineVars, storageVars, webVars, eraVars
<1>3. CASE \E n \in Node, manual \in BOOLEAN : Poll(n, manual)
  <2>1. PICK n \in Node, manual \in BOOLEAN : Poll(n, manual)
    BY <1>3
  <2>2. Head(fifo[n]) \in Frame
    BY <2>1, HeadTailProperties DEF Poll, TypeOK, WorkerType
  <2>3. cur' \in Current
    BY <2>1, <2>2 DEF Poll, Current, Type
  <2>4. QED
    BY <2>1, <2>3 DEF Poll, TypeOK, WorkerType, EngineType, HistoryType, Counted,
              engineVars, storageVars, webVars, eraVars, boundVars
<1>4. CASE SkipDuplicate
  BY <1>4 DEF SkipDuplicate, TypeOK, WorkerType, EngineType, HistoryType, Counted,
              engineVars, storageVars, webVars, eraVars, boundVars
<1>5. CASE AppendFails
  BY <1>5 DEF AppendFails, Fault, TypeOK, WorkerType, EngineType, HistoryType, Counted,
              engineVars, storageVars, webVars, eraVars
<1>6. CASE RecordRaw
  <2>1. NewRow(None, "raw") \in Row
    BY <1>6 DEF RecordRaw, TypeOK, WorkerType, Current, NewRow, Row, Type
  <2>2. journal' \in Seq(Row)
    BY <1>6, <2>1 DEF RecordRaw, TypeOK, HistoryType
  <2>3. QED
    BY <1>6, <2>2 DEF RecordRaw, TypeOK, WorkerType, EngineType, HistoryType, Counted,
              engineVars, webVars, eraVars, boundVars
<1>7. CASE RecordAccess
  <2> DEFINE c == cur.frame.card
             type == EventType(c, cur.frame.time)
  <2>1. pc = "handle" /\ cur \in Current /\ c \in Card /\ cur.frame.time \in Time
    BY <1>7 DEF RecordAccess, TypeOK, WorkerType, Current, Frame
  <2>2. type \in Type
    BY DEF EventType, Type, Pass
  <2>3. TakeEffect(c, cur.frame.time, type)
    BY <1>7 DEF RecordAccess
  <2>4. NewRow(owner[c], type) \in Row
    BY <2>1, <2>2 DEF TypeOK, Current, NewRow, Row
  <2>5. journal' \in Seq(Row)
    BY <1>7, <2>4 DEF RecordAccess, TypeOK, HistoryType
  <2>6. /\ states' \in [User \union Card -> State]
        /\ activity' \in [Card -> User \union {None, Unseen}]
        /\ cur' \in Current
    BY <2>1, <2>2, <2>3, TakeEffectType
  <2>7. pc' = "persist" /\ hold' = "states"
    BY <2>3 DEF TakeEffect
  <2>8. cur'.node = cur.node
    BY <2>1, <2>3 DEF TakeEffect, Current
  <2> HIDE DEF c, type
  <2>9. QED
    BY <1>7, <2>5, <2>6, <2>7, <2>8 DEF RecordAccess, TypeOK, WorkerType, EngineType, HistoryType,
              Counted, webVars, eraVars, boundVars
<1>8. CASE RecordAccessAgain
  <2> DEFINE c == cur.frame.card
             type == EventType(c, cur.frame.time)
  <2>1. pc = "handle" /\ cur \in Current /\ c \in Card /\ cur.frame.time \in Time
    BY <1>8 DEF RecordAccessAgain, TypeOK, WorkerType, Current, Frame
  <2>2. type \in Type
    BY DEF EventType, Type, Pass
  <2>3. TakeEffect(c, cur.frame.time, type)
    BY <1>8 DEF RecordAccessAgain
  <2>4. mixed' \subseteq 0 .. MaxOps
    BY <1>8 DEF RecordAccessAgain, TypeOK, HistoryType
  <2>5. faults' \in 0 .. MaxFaults
    BY <1>8 DEF RecordAccessAgain, Fault, TypeOK
  <2>6. /\ states' \in [User \union Card -> State]
        /\ activity' \in [Card -> User \union {None, Unseen}]
        /\ cur' \in Current
    BY <2>1, <2>2, <2>3, TakeEffectType
  <2>7. pc' = "persist" /\ hold' = "states"
    BY <2>3 DEF TakeEffect
  <2>8. cur'.node = cur.node
    BY <2>1, <2>3 DEF TakeEffect, Current
  <2> HIDE DEF c, type
  <2>9. QED
    BY <1>8, <2>4, <2>5, <2>6, <2>7, <2>8 DEF RecordAccessAgain, TypeOK, WorkerType, EngineType,
              HistoryType, Counted, storageVars, webVars
<1>9. CASE Notify
  <2>1. cur \in Current
    BY <1>9 DEF Notify, TypeOK, WorkerType
  <2>2. [node |-> cur.node, frame |-> cur.frame] \in Event
    BY <2>1 DEF Current, Event
  <2>3. sent' \in Seq(Event)
    BY <1>9, <2>2 DEF Notify, TypeOK, HistoryType
  <2>4. QED
    BY <1>9, <2>3 DEF Notify, TypeOK, WorkerType, EngineType, HistoryType, Counted,
              engineVars, storageVars, webVars, eraVars, boundVars
<1>10. CASE RemoveOldest
  <2>1. cur.node \in Node
    BY <1>10 DEF RemoveOldest, TypeOK, WorkerType, Current
  <2>2. fifo' \in [Node -> Seq(Frame)]
    <3>1. fifo[cur.node] \in Seq(Frame)
      BY <2>1 DEF TypeOK, WorkerType
    <3>2. Tail(fifo[cur.node]) \in Seq(Frame)
      BY <1>10, <3>1, HeadTailProperties DEF RemoveOldest, Counted
    <3>3. QED
      BY <1>10, <2>1, <3>2 DEF RemoveOldest, TypeOK, WorkerType
  <2>3. faults' \in 0 .. MaxFaults
    BY <1>10 DEF RemoveOldest, Fault, TypeOK
  <2>4. QED
    BY <1>10, <2>2, <2>3 DEF RemoveOldest, TypeOK, WorkerType, EngineType, HistoryType,
              Counted, engineVars, storageVars, webVars, eraVars
<1>11. CASE SaveStates
  BY <1>11 DEF SaveStates, Fault, TypeOK, WorkerType, EngineType, HistoryType, Counted,
              engineVars, webVars, eraVars
<1>12. CASE SaveActivities
  BY <1>12 DEF SaveActivities, Fault, TypeOK, WorkerType, EngineType, HistoryType, Counted,
              engineVars, webVars, eraVars
<1>13. CASE \E c \in Card, u \in User : SaveUser(c, u)
  BY <1>13 DEF SaveUser, SaveRegistry, Fault, Operation, TypeOK, WorkerType, EngineType,
              HistoryType, Counted, engineVars, storageVars, eraVars
<1>14. CASE \E c \in Card, u \in User : AssignCard(c, u)
  <2>1. PICK c \in Card, u \in User : AssignCard(c, u)
    BY <1>14
  <2>2. /\ owner' \in [Card -> User \union {None}] /\ savedOwner' \in [Card -> User \union {None}]
        /\ unrefreshed' \subseteq Card
    BY <2>1 DEF AssignCard, TypeOK
  <2>3. /\ refreshes' \in 0 .. MaxOps /\ refreshes' <= ops' /\ era <= ops'
        /\ ops' \in 0 .. MaxOps /\ faults' \in 0 .. MaxFaults
    BY <2>1 DEF AssignCard, Operation, Fault, TypeOK, Counted
  <2>4. QED
    BY <2>1, <2>2, <2>3 DEF AssignCard, TypeOK, WorkerType, EngineType, HistoryType, Counted,
              engineVars, storageVars, eraVars
<1>15. CASE \E c \in Card : AssignToMissing(c)
  BY <1>15 DEF AssignToMissing, Operation, TypeOK, WorkerType, EngineType, HistoryType, Counted,
              engineVars, storageVars, eraVars
<1>16. CASE \E c \in Card : RemoveCard(c)
  <2>1. PICK c \in Card : RemoveCard(c)
    BY <1>16
  <2>2. owner' \in [Card -> User \union {None}] /\ savedOwner' \in [Card -> User \union {None}]
    BY <2>1 DEF RemoveCard, SaveRegistry, TypeOK
  <2>3. /\ refreshes' \in 0 .. MaxOps /\ refreshes' <= ops' /\ era <= ops'
        /\ ops' \in 0 .. MaxOps /\ faults' \in 0 .. MaxFaults
    BY <2>1 DEF RemoveCard, SaveRegistry, Operation, Fault, TypeOK, Counted
  <2>4. QED
    BY <2>1, <2>2, <2>3 DEF RemoveCard, TypeOK, WorkerType, EngineType, HistoryType, Counted,
              engineVars, storageVars, eraVars
<1>17. CASE RefreshUserMetadata
  <2>1. states' \in [User \union Card -> State]
    BY <1>17, MigratedType DEF RefreshUserMetadata, TypeOK, EngineType
  <2>2. activity' \in [Card -> User \union {None, Unseen}]
    BY <1>17 DEF RefreshUserMetadata, TypeOK, EngineType
  <2>3. refreshes' \in 0 .. MaxOps /\ refreshes' <= ops
    BY <1>17 DEF RefreshUserMetadata, TypeOK, Counted
  <2>4. QED
    BY <1>17, <2>1, <2>2, <2>3 DEF RefreshUserMetadata, TypeOK, WorkerType, EngineType,
              HistoryType, Counted, storageVars, eraVars, boundVars
<1>18. CASE ResetStates
  <2>1. Nobody \in [User \union Card -> State]
    BY DEF Nobody, NeverRead, State
  <2>2. era' \in 0 .. MaxOps /\ ops' \in 0 .. MaxOps /\ era' <= ops' /\ refreshes <= ops' /\ era' > 0
    BY <1>18 DEF ResetStates, Operation, TypeOK, Counted
  <2>3. QED
    BY <1>18, <2>1, <2>2 DEF ResetStates, TypeOK, WorkerType, EngineType, HistoryType,
              Counted, engineVars, webVars
<1>19. CASE ResetActivities
  <2>1. Nobody \in [User \union Card -> State]
    BY DEF Nobody, NeverRead, State
  <2>2. QED
    BY <1>19, <2>1 DEF ResetActivities, TypeOK, WorkerType, EngineType, HistoryType,
              Counted, webVars, eraVars, boundVars
<1>20. CASE ResetRolledBack
  <2>1. era' \in 0 .. MaxOps /\ era' <= ops /\ faults' \in 0 .. MaxFaults
    BY <1>20 DEF ResetRolledBack, Fault, TypeOK, Counted
  <2>2. QED
    BY <1>20, <2>1 DEF ResetRolledBack, TypeOK, WorkerType, EngineType, HistoryType,
              Counted, engineVars, webVars
<1>21. CASE Crash
  <2>1. states' \in [User \union Card -> State]
    BY <1>21, MigratedType DEF Crash, TypeOK, EngineType
  <2>2. faults' \in 0 .. MaxFaults
    BY <1>21 DEF Crash, Fault, TypeOK
  <2>3. activity' \in [Card -> User \union {None, Unseen}]
    BY <1>21 DEF Crash, TypeOK, EngineType
  <2>4. WorkerType' /\ HistoryType'
    BY <1>21 DEF Crash, TypeOK, WorkerType, HistoryType, storageVars, eraVars
  <2>5. EngineType'
    BY <1>21, <2>1, <2>3 DEF Crash, TypeOK, EngineType, storageVars
  <2>6. QED
    BY <1>21, <2>2, <2>4, <2>5 DEF Crash, TypeOK, Counted, eraVars
<1>22. CASE PollEmpty \/ UNCHANGED vars
  BY <1>22 DEF PollEmpty, vars, TypeOK, WorkerType, EngineType, HistoryType, Counted,
              engineVars, storageVars, webVars, eraVars, boundVars
<1>23. QED
  BY <1>1, <1>2, <1>3, <1>4, <1>5, <1>6, <1>7, <1>8, <1>9, <1>10, <1>11, <1>12, <1>13,
     <1>14, <1>15, <1>16, <1>17, <1>18, <1>19, <1>20, <1>21, <1>22 DEF Next

\* The engine, the worker and the history stay of their types, whatever fails.
THEOREM TypeCorrect == Spec => []TypeOK
<1>1. TypeInv => TypeOK
  BY DEF TypeInv
<1>2. QED
  BY <1>1, TypeInit, TypeNext, PTL DEF Spec

-----------------------------------------------------------------------------
\* One state per user.

\* Migrated leaves an owned card without a state.
LEMMA MigratedEmptiesOwned ==
    ASSUME NEW s, NEW own, NEW ties \in BOOLEAN, NEW c \in Card, own[c] # None
    PROVE  Migrated(s, own, ties)[c] = NeverRead
<1>1. c \in User \union Card /\ c \notin User
  BY ConstantTypes
<1>2. QED
  BY <1>1 DEF Migrated

LEMMA OneStateNext ==
    ASSUME TypeOK, OneStatePerUser, [Next]_vars
    PROVE  OneStatePerUser'
<1> USE ConstantTypes
<1>1. ASSUME NEW c \in Card, NEW t \in Time, NEW type, TakeEffect(c, t, type),
             UNCHANGED <<owner, refreshes, unrefreshed>>
      PROVE  OneStatePerUser'
  <2>1. \A d \in Card : owner[d] # None => StateKey(c) # d
    BY DEF StateKey, TypeOK
  <2>2. \A d \in Card : owner[d] # None => states'[d] = states[d]
    BY <1>1, <2>1 DEF TakeEffect, TypeOK, EngineType
  <2>3. QED
    BY <1>1, <2>2 DEF OneStatePerUser
<1>2. CASE RecordAccess
  <2>1. cur.frame.card \in Card /\ cur.frame.time \in Time
    BY <1>2 DEF RecordAccess, TypeOK, WorkerType, Current, Frame
  <2>2. QED
    BY <1>1, <1>2, <2>1 DEF RecordAccess, webVars
<1>3. CASE RecordAccessAgain
  <2>1. cur.frame.card \in Card /\ cur.frame.time \in Time
    BY <1>3 DEF RecordAccessAgain, TypeOK, WorkerType, Current, Frame
  <2>2. QED
    BY <1>1, <1>3, <2>1 DEF RecordAccessAgain, webVars
<1>4. CASE \E c \in Card, u \in User : SaveUser(c, u) \/ AssignCard(c, u)
  BY <1>4 DEF SaveUser, AssignCard, engineVars, OneStatePerUser, TypeOK
<1>5. CASE \E c \in Card : AssignToMissing(c) \/ RemoveCard(c)
  BY <1>5 DEF AssignToMissing, RemoveCard, engineVars, OneStatePerUser, TypeOK
<1>6. CASE RefreshUserMetadata
  BY <1>6, MigratedEmptiesOwned DEF RefreshUserMetadata, OneStatePerUser
<1>7. CASE ResetActivities
  BY <1>7 DEF ResetActivities, OneStatePerUser, Nobody, webVars
<1>8. CASE Crash
  BY <1>8, MigratedEmptiesOwned DEF Crash, OneStatePerUser
<1>9. CASE UNCHANGED <<states, owner, refreshes, unrefreshed>>
  BY <1>9 DEF OneStatePerUser
<1>10. QED
  BY <1>2, <1>3, <1>4, <1>5, <1>6, <1>7, <1>8, <1>9
  DEF Next, vars, Tick, Swipe, Poll, PollEmpty, SkipDuplicate, AppendFails, RecordRaw, Notify,
      RemoveOldest, SaveStates, SaveActivities, ResetStates, ResetRolledBack,
      engineVars, webVars

\* A card that has an owner keeps no presence of its own once the requests have refreshed,
\* after any number of bindings, failed saves of the registry, resets and restarts - but for
\* the cards whose own request failed after it had changed their owner, until the next refresh
\* or restart.
THEOREM OneStateAlways == Spec => []OneStatePerUser
<1>1. Init => OneStatePerUser
  BY DEF Init, OneStatePerUser, Nobody
<1>2. TypeInv /\ OneStatePerUser /\ [Next]_vars => OneStatePerUser'
  BY OneStateNext DEF TypeInv
<1>3. QED
  BY <1>1, <1>2, TypeInit, TypeNext, PTL DEF Spec

-----------------------------------------------------------------------------
\* The page of card activity.

LEMMA MetadataNext ==
    ASSUME "crash" \notin Faults, TypeOK, MetadataCurrent, [Next]_vars
    PROVE  MetadataCurrent'
<1>1. ASSUME NEW c \in Card, NEW t, NEW type, TakeEffect(c, t, type),
             UNCHANGED <<owner, refreshes, unrefreshed>>
      PROVE  MetadataCurrent'
  <2>1. \A d \in Card : activity'[d] = IF d = c THEN owner[c] ELSE activity[d]
    BY <1>1 DEF TakeEffect, TypeOK, EngineType
  <2>2. QED
    BY <1>1, <2>1 DEF MetadataCurrent
<1>2. CASE RecordAccess
  <2>1. cur.frame.card \in Card
    BY <1>2 DEF RecordAccess, TypeOK, WorkerType, Current, Frame
  <2>2. QED
    BY <1>1, <1>2, <2>1 DEF RecordAccess, webVars
<1>3. CASE RecordAccessAgain
  <2>1. cur.frame.card \in Card
    BY <1>3 DEF RecordAccessAgain, TypeOK, WorkerType, Current, Frame
  <2>2. QED
    BY <1>1, <1>3, <2>1 DEF RecordAccessAgain, webVars
<1>4. CASE \E c \in Card, u \in User : SaveUser(c, u) \/ AssignCard(c, u)
  BY <1>4, ConstantTypes DEF SaveUser, AssignCard, engineVars, MetadataCurrent, TypeOK
<1>5. CASE \E c \in Card : AssignToMissing(c) \/ RemoveCard(c)
  BY <1>5, ConstantTypes DEF AssignToMissing, RemoveCard, engineVars, MetadataCurrent, TypeOK
<1>6. CASE RefreshUserMetadata
  BY <1>6 DEF RefreshUserMetadata, MetadataCurrent
<1>7. CASE ResetActivities
  BY <1>7 DEF ResetActivities, MetadataCurrent, webVars
<1>8. ~Crash
  BY DEF Crash, Fault
<1>9. CASE UNCHANGED <<activity, owner, refreshes, unrefreshed>>
  BY <1>9 DEF MetadataCurrent
<1>10. QED
  BY <1>2, <1>3, <1>4, <1>5, <1>6, <1>7, <1>8, <1>9
  DEF Next, vars, Tick, Swipe, Poll, PollEmpty, SkipDuplicate, AppendFails, RecordRaw, Notify,
      RemoveOldest, SaveStates, SaveActivities, ResetStates, ResetRolledBack,
      engineVars, webVars

\* Without a crash, the page of card activity shows every card with its present owner as
\* soon as the requests that changed the registry have refreshed - but for the cards whose own
\* request failed after it had changed their owner, until the next refresh.
THEOREM MetadataAlways == "crash" \notin Faults => (Spec => []MetadataCurrent)
<1> SUFFICES ASSUME "crash" \notin Faults PROVE Spec => []MetadataCurrent
  OBVIOUS
<1>1. Init => MetadataCurrent
  BY DEF Init, MetadataCurrent
<1>2. TypeInv /\ MetadataCurrent /\ [Next]_vars => MetadataCurrent'
  BY MetadataNext DEF TypeInv
<1>3. QED
  BY <1>1, <1>2, TypeInit, TypeNext, PTL DEF Spec

-----------------------------------------------------------------------------
\* Once per event.

\* Row i is the row of frame f of controller n.
RowOf(i, n, f) == journal[i].node = n /\ journal[i].frame = f

OneRow ==
    \A i, j \in DOMAIN journal :
        journal[i].node = journal[j].node /\ journal[i].frame = journal[j].frame => i = j

SentHaveRows ==
    \A k \in DOMAIN sent :
      \E i \in DOMAIN journal : RowOf(i, sent[k].node, sent[k].frame) /\ journal[i].type \in Pass

\* While the event in hand may still be notified, its row has its type, and it is not yet sent.
HandNotSent ==
    pc \in {"persist", "notify"} =>
      /\ \E i \in DOMAIN journal : RowOf(i, cur.node, cur.frame) /\ journal[i].type = cur.type
      /\ \A k \in DOMAIN sent : ~(sent[k].node = cur.node /\ sent[k].frame = cur.frame)

OnceInv == OneRow /\ SentHaveRows /\ IsInjective(sent) /\ HandNotSent

\* The row of the event in hand is appended, and only if there was none.
LEMMA OnceAppend ==
    ASSUME TypeOK, OnceInv, ~Stored, pc = "handle",
           NEW user \in User \union {None}, NEW type \in Type,
           journal' = Append(journal, NewRow(user, type)), UNCHANGED sent
    PROVE  /\ OneRow' /\ SentHaveRows'
           /\ \E i \in DOMAIN journal' : /\ journal'[i].node = cur.node
                                          /\ journal'[i].frame = cur.frame
                                          /\ journal'[i].type = type
           /\ \A k \in DOMAIN sent : ~(sent[k].node = cur.node /\ sent[k].frame = cur.frame)
<1> DEFINE row == NewRow(user, type)
           n == Len(journal)
<1>1. journal \in Seq(Row) /\ cur \in Current /\ row \in Row
  BY DEF TypeOK, WorkerType, HistoryType, Current, NewRow, Row
<1>2. /\ DOMAIN journal = 1 .. n /\ n \in Nat
      /\ DOMAIN journal' = 1 .. n + 1
      /\ \A i \in 1 .. n : journal'[i] = journal[i]
      /\ journal'[n + 1] = row
  BY <1>1, AppendProperties, LenProperties
<1>3. row.node = cur.node /\ row.frame = cur.frame /\ row.type = type
  BY DEF NewRow
<1>4. \A i \in 1 .. n : ~(journal[i].node = cur.node /\ journal[i].frame = cur.frame)
  BY <1>2 DEF Stored
<1> HIDE DEF row, n
<1>5. OneRow'
  <2> SUFFICES ASSUME NEW i \in 1 .. n + 1, NEW j \in 1 .. n + 1,
                      journal'[i].node = journal'[j].node, journal'[i].frame = journal'[j].frame
               PROVE  i = j
    BY <1>2 DEF OneRow
  <2>1. CASE i \in 1 .. n /\ j \in 1 .. n
    BY <1>2, <2>1 DEF OnceInv, OneRow
  <2>2. CASE i = n + 1 /\ j \in 1 .. n
    BY <1>2, <1>3, <1>4, <2>2
  <2>3. CASE j = n + 1 /\ i \in 1 .. n
    BY <1>2, <1>3, <1>4, <2>3
  <2>4. QED
    BY <1>2, <2>1, <2>2, <2>3
<1>6. SentHaveRows'
  <2> SUFFICES ASSUME NEW k \in DOMAIN sent
               PROVE  \E i \in DOMAIN journal' :
                         /\ journal'[i].node = sent[k].node /\ journal'[i].frame = sent[k].frame
                         /\ journal'[i].type \in Pass
    BY DEF SentHaveRows, RowOf
  <2>1. PICK i \in 1 .. n : RowOf(i, sent[k].node, sent[k].frame) /\ journal[i].type \in Pass
    BY <1>2 DEF OnceInv, SentHaveRows
  <2>2. i \in 1 .. n + 1
    BY <1>2
  <2>3. QED
    BY <1>2, <2>1, <2>2 DEF RowOf
<1>7. n + 1 \in DOMAIN journal'
  BY <1>2
<1>8. \A k \in DOMAIN sent : ~(sent[k].node = cur.node /\ sent[k].frame = cur.frame)
  BY <1>2, <1>4 DEF OnceInv, SentHaveRows, RowOf
<1>9. QED
  BY <1>2, <1>3, <1>5, <1>6, <1>7, <1>8 DEF RowOf

LEMMA OnceNext ==
    ASSUME "check" \notin Faults, TypeOK, OnceInv, [Next]_vars
    PROVE  OnceInv'
<1> USE ConstantTypes
<1>1. CASE RecordRaw
  <2>1. OneRow' /\ SentHaveRows'
    <3>1. "raw" \in Type
      BY DEF Type
    <3>2. QED
      BY <1>1, <3>1, OnceAppend DEF RecordRaw
  <2>2. QED
    BY <1>1, <2>1 DEF RecordRaw, OnceInv, HandNotSent
<1>2. CASE RecordAccess
  <2> DEFINE c == cur.frame.card
             type == EventType(c, cur.frame.time)
  <2>1. cur \in Current /\ c \in Card /\ type \in Type
    BY <1>2 DEF RecordAccess, TypeOK, WorkerType, Current, Frame, EventType, Type, Pass
  <2>2. owner[c] \in User \union {None}
    BY <2>1 DEF TypeOK
  <2>3. /\ journal' = Append(journal, NewRow(owner[c], type)) /\ UNCHANGED sent
        /\ pc = "handle" /\ ~Stored
        /\ cur' = [cur EXCEPT !.type = type]
    BY <1>2 DEF RecordAccess, TakeEffect
  <2>4. cur'.node = cur.node /\ cur'.frame = cur.frame /\ cur'.type = type
    BY <2>1, <2>3 DEF Current
  <2> HIDE DEF c, type
  <2>5. /\ OneRow' /\ SentHaveRows'
        /\ \E i \in DOMAIN journal' : /\ journal'[i].node = cur.node
                                       /\ journal'[i].frame = cur.frame
                                       /\ journal'[i].type = type
        /\ \A k \in DOMAIN sent : ~(sent[k].node = cur.node /\ sent[k].frame = cur.frame)
    BY <2>1, <2>2, <2>3, OnceAppend
  <2>6. HandNotSent'
    BY <2>3, <2>4, <2>5 DEF HandNotSent, RowOf
  <2>7. QED
    BY <2>3, <2>5, <2>6 DEF OnceInv
<1>3. CASE Notify
  <2>1. OneRow' /\ HandNotSent'
    BY <1>3 DEF Notify, OnceInv, OneRow, HandNotSent, storageVars
  <2>2. CASE sent' = sent
    BY <1>3, <2>1, <2>2 DEF Notify, OnceInv, SentHaveRows, RowOf, storageVars
  <2>3. CASE cur.type \in Pass /\ sent' = Append(sent, [node |-> cur.node, frame |-> cur.frame])
    <3> DEFINE e == [node |-> cur.node, frame |-> cur.frame]
               n == Len(sent)
    <3>1. sent \in Seq(Event) /\ e \in Event
      BY <1>3 DEF Notify, TypeOK, WorkerType, HistoryType, Current, Event
    <3>2. /\ DOMAIN sent = 1 .. n /\ n \in Nat
          /\ DOMAIN sent' = 1 .. n + 1
          /\ \A k \in 1 .. n : sent'[k] = sent[k]
          /\ sent'[n + 1] = e
      BY <2>3, <3>1, AppendProperties, LenProperties
    <3>3. \A k \in 1 .. n : sent[k] # e
      BY <1>3, <3>2 DEF Notify, OnceInv, HandNotSent
    <3>4. e.node = cur.node /\ e.frame = cur.frame
      OBVIOUS
    <3> HIDE DEF e, n
    <3>5. IsInjective(sent')
      <4> SUFFICES ASSUME NEW i \in 1 .. n + 1, NEW j \in 1 .. n + 1, sent'[i] = sent'[j]
                   PROVE  i = j
        BY <3>2 DEF IsInjective
      <4>1. CASE i \in 1 .. n /\ j \in 1 .. n
        BY <3>2, <4>1 DEF OnceInv, IsInjective
      <4>2. CASE i = n + 1 /\ j \in 1 .. n
        BY <3>2, <3>3, <4>2
      <4>3. CASE j = n + 1 /\ i \in 1 .. n
        BY <3>2, <3>3, <4>3
      <4>4. QED
        BY <3>2, <4>1, <4>2, <4>3
    <3>6. SentHaveRows'
      <4> SUFFICES ASSUME NEW k \in 1 .. n + 1
                   PROVE  \E i \in DOMAIN journal :
                             /\ journal[i].node = sent'[k].node
                             /\ journal[i].frame = sent'[k].frame
                             /\ journal[i].type \in Pass
        BY <1>3, <3>2 DEF Notify, storageVars, SentHaveRows, RowOf
      <4>1. CASE k \in 1 .. n
        BY <3>2, <4>1 DEF OnceInv, SentHaveRows, RowOf
      <4>2. CASE k = n + 1
        BY <1>3, <2>3, <3>2, <3>4, <4>2 DEF Notify, OnceInv, HandNotSent, RowOf
      <4>3. QED
        BY <3>2, <4>1, <4>2
    <3>7. QED
      BY <2>1, <3>5, <3>6 DEF OnceInv
  <2>4. QED
    BY <1>3, <2>2, <2>3 DEF Notify
<1>4. CASE SaveActivities
  <2>1. UNCHANGED <<journal, sent, cur>>
    BY <1>4 DEF SaveActivities
  <2>2. OneRow' /\ SentHaveRows' /\ IsInjective(sent')
    BY <2>1 DEF OnceInv, OneRow, SentHaveRows, RowOf
  <2>3. HandNotSent'
    BY <1>4, <2>1 DEF SaveActivities, OnceInv, HandNotSent, RowOf
  <2>4. QED
    BY <2>2, <2>3 DEF OnceInv
<1>5. ASSUME UNCHANGED <<journal, sent>>, pc' \notin {"persist", "notify"}
      PROVE  OnceInv'
  BY <1>5 DEF OnceInv, OneRow, SentHaveRows, HandNotSent, RowOf
<1>6. ASSUME UNCHANGED <<journal, sent, pc, cur>> PROVE OnceInv'
  BY <1>6 DEF OnceInv, OneRow, SentHaveRows, HandNotSent, RowOf
<1>7. ~RecordAccessAgain
  BY DEF RecordAccessAgain, Fault
<1>8. CASE (\E n \in Node, manual \in BOOLEAN : Poll(n, manual)) \/ SkipDuplicate \/ AppendFails
           \/ RemoveOldest \/ Crash
  BY <1>5, <1>8 DEF Poll, SkipDuplicate, AppendFails, RemoveOldest, Crash, storageVars
<1>9. CASE Tick \/ (\E n \in Node, c \in Card, k \in Codes : Swipe(n, c, k)) \/ PollEmpty
           \/ SaveStates \/ (\E c \in Card, u \in User : SaveUser(c, u) \/ AssignCard(c, u))
           \/ (\E c \in Card : AssignToMissing(c) \/ RemoveCard(c)) \/ RefreshUserMetadata
           \/ ResetStates \/ ResetActivities \/ ResetRolledBack \/ UNCHANGED vars
  BY <1>6, <1>9 DEF Tick, Swipe, PollEmpty, SaveStates, SaveUser, AssignCard, AssignToMissing, RemoveCard,
      RefreshUserMetadata, ResetStates, ResetActivities, ResetRolledBack, vars, storageVars
<1>10. QED
  BY <1>1, <1>2, <1>3, <1>4, <1>7, <1>8, <1>9 DEF Next

\* As long as the query for an existing row is answered, an event has one row at most and is
\* notified at most once, however often 37H is lost or the server restarts.
THEOREM OnceAlways == "check" \notin Faults => (Spec => []OncePerEvent)
<1> SUFFICES ASSUME "check" \notin Faults PROVE Spec => []OncePerEvent
  OBVIOUS
<1>1. Init => OnceInv
  BY DEF Init, OnceInv, OneRow, SentHaveRows, HandNotSent, IsInjective
<1>2. TypeInv /\ OnceInv /\ [Next]_vars => OnceInv'
  BY OnceNext DEF TypeInv
<1>3. OnceInv => OncePerEvent
  BY DEF OnceInv, OneRow, SentHaveRows, RowOf, OncePerEvent
<1>4. QED
  BY <1>1, <1>2, <1>3, TypeInit, TypeNext, PTL DEF Spec

-----------------------------------------------------------------------------
\* What reads and rows do.

\* What a read does to the state of a user: it is his who owns the card that changes.
LEMMA ReadOfUser ==
    ASSUME TypeOK, NEW c \in Card, NEW t \in Time, NEW type \in Type, TakeEffect(c, t, type),
           NEW u \in User
    PROVE  /\ u # owner[c] => states'[u] = states[u]
           /\ u = owner[c] => /\ states'[u].present
                                   <=> type = "arrival"
                                         \/ (states[u].present /\ type # "departure")
                              /\ states'[u].last = t
<1> USE ConstantTypes
<1>1. CASE u = owner[c]
  <2>1. StateKey(c) = u
    BY <1>1 DEF StateKey
  <2> DEFINE p == type = "arrival" \/ (states[u].present /\ type # "departure")
  <2>2. states'[u] = [present |-> p, last |-> t]
    BY <2>1 DEF TakeEffect, TypeOK, EngineType
  <2> HIDE DEF p
  <2>3. states'[u].present = p /\ states'[u].last = t
    BY <2>2
  <2>4. states'[u].present <=> p
    BY <2>3
  <2>5. QED
    BY <1>1, <2>3, <2>4 DEF p
<1>2. CASE u # owner[c]
  <2>1. StateKey(c) # u
    BY <1>2 DEF StateKey
  <2>2. QED
    BY <1>2, <2>1 DEF TakeEffect, TypeOK, EngineType
<1>3. QED
  BY <1>1, <1>2

\* And an owned card's own state stays.
LEMMA ReadOfCard ==
    ASSUME TypeOK, NEW c \in Card, NEW t \in Time, NEW type \in Type, TakeEffect(c, t, type),
           NEW d \in Card, owner[d] # None
    PROVE  states'[d] = states[d]
<1>1. StateKey(c) # d
  BY ConstantTypes DEF StateKey, TypeOK
<1>2. QED
  BY <1>1, ConstantTypes DEF TakeEffect, TypeOK, EngineType

\* Every state's last read stays or becomes the time of the event.
LEMMA LastAfterRead ==
    ASSUME TypeOK, NEW c \in Card, NEW t \in Time, NEW type \in Type, TakeEffect(c, t, type),
           NEW k \in User \union Card
    PROVE  states'[k].last \in {states[k].last, t}
<1>1. CASE StateKey(c) = k
  <2> DEFINE p == type = "arrival" \/ (states[k].present /\ type # "departure")
  <2>1. states'[k] = [present |-> p, last |-> t]
    BY <1>1 DEF TakeEffect, TypeOK, EngineType
  <2> HIDE DEF p
  <2>2. QED
    BY <2>1
<1>2. CASE StateKey(c) # k
  BY <1>2 DEF TakeEffect, TypeOK, EngineType
<1>3. QED
  BY <1>1, <1>2

\* The journal after a row is appended.
LEMMA AppendedRow ==
    ASSUME TypeOK, NEW row \in Row, journal' = Append(journal, row)
    PROVE  /\ Len(journal) \in Nat /\ DOMAIN journal = 1 .. Len(journal)
           /\ DOMAIN journal' = 1 .. Len(journal) + 1
           /\ \A i \in 1 .. Len(journal) : journal'[i] = journal[i]
           /\ journal'[Len(journal) + 1] = row
BY AppendProperties, LenProperties DEF TypeOK, HistoryType


-----------------------------------------------------------------------------
\* Eras.

\* The era the states in memory belong to: a reset under way has not cleared them yet.
EraOfStates == IF hold = "reset" THEN era - 1 ELSE era

\* No row of a user is of an era that has not begun for the states.
ErasBounded ==
    \A i \in DOMAIN journal : journal[i].user \in User => journal[i].era <= EraOfStates

LEMMA ErasNext ==
    ASSUME TypeInv, ErasBounded, [Next]_vars
    PROVE  ErasBounded'
<1> USE DEF TypeInv
<1> USE ConstantTypes
<1>1. \A i \in DOMAIN journal : journal[i].era \in Nat
  <2>1. \A i \in DOMAIN journal : journal[i] \in Row
    BY DEF TypeOK, HistoryType
  <2>2. QED
    BY <2>1 DEF Row
<1>2. era \in Nat /\ EraOfStates \in Int
  BY DEF TypeOK, EraOfStates
<1>3. ASSUME NEW row \in Row, journal' = Append(journal, row), EraOfStates' = EraOfStates,
             row.user \in User => row.era <= EraOfStates
      PROVE  ErasBounded'
  <2>1. PICK n : n = Len(journal)
    OBVIOUS
  <2>2. /\ n \in Nat /\ DOMAIN journal = 1 .. n /\ DOMAIN journal' = 1 .. n + 1
        /\ \A k \in 1 .. n : journal'[k] = journal[k]
        /\ journal'[n + 1] = row
    BY <1>3, <2>1, AppendedRow
  <2>3. \A i \in 1 .. n + 1 : i \in 1 .. n \/ i = n + 1
    BY <2>2
  <2>4. QED
    BY <1>3, <2>2, <2>3 DEF ErasBounded
<1>4. CASE RecordAccess
  <2> DEFINE c == cur.frame.card
             type == EventType(c, cur.frame.time)
  <2>1. c \in Card /\ type \in Type
    BY <1>4 DEF RecordAccess, TypeOK, WorkerType, Current, Frame, EventType, Type, Pass
  <2>2. NewRow(owner[c], type) \in Row /\ NewRow(owner[c], type).era = era
    BY <1>4, <2>1 DEF RecordAccess, TypeOK, WorkerType, Current, NewRow, Row
  <2>3. journal' = Append(journal, NewRow(owner[c], type))
    BY <1>4 DEF RecordAccess
  <2> HIDE DEF type, c
  <2>4. EraOfStates = era /\ EraOfStates' = era
    BY <1>4 DEF RecordAccess, TakeEffect, EraOfStates, eraVars
  <2>5. QED
    BY <1>2, <1>3, <2>2, <2>3, <2>4
<1>5. CASE RecordRaw
  <2>1. NewRow(None, "raw") \in Row /\ NewRow(None, "raw").user \notin User
    BY <1>5 DEF RecordRaw, TypeOK, WorkerType, Current, NewRow, Row, Type
  <2>2. EraOfStates' = EraOfStates /\ journal' = Append(journal, NewRow(None, "raw"))
    BY <1>5 DEF RecordRaw, EraOfStates, eraVars
  <2>3. QED
    BY <1>3, <2>1, <2>2
<1>6. ASSUME journal' = journal, EraOfStates' = EraOfStates \/ EraOfStates' = EraOfStates + 1
      PROVE  ErasBounded'
  BY <1>1, <1>2, <1>6 DEF ErasBounded
<1>7. CASE ResetActivities
  BY <1>2, <1>6, <1>7 DEF ResetActivities, EraOfStates, eraVars
<1>8. CASE Crash
  BY <1>2, <1>6, <1>8 DEF Crash, EraOfStates, eraVars, storageVars
<1>9. CASE ResetStates
  BY <1>2, <1>6, <1>9 DEF ResetStates, EraOfStates
<1>10. CASE ResetRolledBack
  BY <1>2, <1>6, <1>10 DEF ResetRolledBack, EraOfStates
<1>11. CASE RecordAccessAgain \/ SaveStates \/ SaveActivities \/ RefreshUserMetadata
  BY <1>6, <1>11 DEF RecordAccessAgain, TakeEffect, SaveStates, SaveActivities,
      RefreshUserMetadata, EraOfStates, eraVars, storageVars
<1>12. CASE UNCHANGED <<journal, hold, era>>
  BY <1>6, <1>12 DEF EraOfStates
<1>13. QED
  BY <1>4, <1>5, <1>7, <1>8, <1>9, <1>10, <1>11, <1>12
  DEF Next, vars, Tick, Swipe, Poll, PollEmpty, SkipDuplicate, AppendFails, Notify, RemoveOldest,
      SaveUser, AssignCard, AssignToMissing, RemoveCard, storageVars, eraVars

-----------------------------------------------------------------------------
\* Time, where there is one controller: its FIFO is in the order of its clock.

OneController == \A m, n \in Node : m = n

\* Instant t is not later than the clock, nor than any event that waits.
Ahead(t) == t <= clock /\ \A n \in Node : \A a \in DOMAIN fifo[n] : t <= fifo[n][a].time

FifoInOrder ==
    \A n \in Node : \A a \in DOMAIN fifo[n] :
        /\ fifo[n][a].time <= clock
        /\ \A b \in DOMAIN fifo[n] : a < b => fifo[n][a].time <= fifo[n][b].time

\* What a FIFO holds after the oldest event is taken.
LEMMA TailOf ==
    ASSUME NEW q \in Seq(Frame), q # <<>>, NEW a \in DOMAIN Tail(q)
    PROVE  a \in Nat /\ a + 1 \in DOMAIN q /\ Tail(q)[a] = q[a + 1]
<1>1. /\ Tail(q) \in Seq(Frame) /\ Len(Tail(q)) = Len(q) - 1
      /\ \A i \in 1 .. Len(Tail(q)) : Tail(q)[i] = q[i + 1]
  BY HeadTailProperties
<1>2. DOMAIN Tail(q) = 1 .. Len(q) - 1 /\ DOMAIN q = 1 .. Len(q) /\ Len(q) \in Nat
  BY <1>1, LenProperties
<1>3. QED
  BY <1>1, <1>2

\* And after one more.
LEMMA AppendOf ==
    ASSUME NEW q \in Seq(Frame), NEW f \in Frame, NEW a \in DOMAIN Append(q, f)
    PROVE  \/ a \in DOMAIN q /\ Append(q, f)[a] = q[a]
           \/ /\ Append(q, f)[a] = f
              /\ \A b \in DOMAIN Append(q, f) : b <= a
<1>1. DOMAIN q = 1 .. Len(q) /\ Len(q) \in Nat /\ DOMAIN Append(q, f) = 1 .. Len(q) + 1
  BY AppendProperties, LenProperties
<1>2. QED
  BY <1>1, AppendProperties

LEMMA AheadStays ==
    ASSUME TypeInv, NEW t \in Nat, Ahead(t), [Next]_vars
    PROVE  Ahead(t)'
<1>1. clock \in Nat /\ fifo \in [Node -> Seq(Frame)]
  BY ConstantTypes DEF TypeInv, TypeOK, WorkerType, Time
<1>2. CASE Tick
  BY <1>1, <1>2 DEF Tick, Ahead
<1>3. ASSUME NEW n \in Node, NEW c \in Card, NEW k \in Codes, Swipe(n, c, k)
      PROVE  Ahead(t)'
  <2> DEFINE f == [card |-> c, time |-> clock, code |-> k]
  <2>1. f \in Frame /\ f.time = clock
    BY DEF TypeInv, TypeOK, Frame
  <2>2. fifo' = [fifo EXCEPT ![n] = Append(fifo[n], f)] /\ clock' = clock
    BY <1>3 DEF Swipe
  <2> HIDE DEF f
  <2>3. ASSUME NEW a \in DOMAIN Append(fifo[n], f)
        PROVE  t <= Append(fifo[n], f)[a].time
    <3>1. (a \in DOMAIN fifo[n] /\ Append(fifo[n], f)[a] = fifo[n][a])
            \/ Append(fifo[n], f)[a] = f
      BY <1>1, <2>1, AppendOf
    <3>2. QED
      BY <2>1, <3>1 DEF Ahead
  <2>4. QED
    BY <1>1, <2>2, <2>3 DEF Ahead
<1>4. CASE RemoveOldest
  <2>1. cur.node \in Node /\ fifo[cur.node] # <<>> /\ clock' = clock
    BY <1>4 DEF RemoveOldest, TypeInv, TypeOK, WorkerType, Counted, Current
  <2>2. fifo' = [fifo EXCEPT ![cur.node] = Tail(fifo[cur.node])] \/ fifo' = fifo
    BY <1>4 DEF RemoveOldest
  <2>3. \A a \in DOMAIN Tail(fifo[cur.node]) : t <= Tail(fifo[cur.node])[a].time
    BY <1>1, <2>1, TailOf DEF Ahead
  <2>4. QED
    BY <1>1, <2>1, <2>2, <2>3 DEF Ahead
<1>5. CASE UNCHANGED <<clock, fifo>>
  BY <1>5 DEF Ahead
<1>6. QED
  BY <1>2, <1>3, <1>4, <1>5
  DEF Next, vars, Poll, PollEmpty, SkipDuplicate, AppendFails, RecordRaw, RecordAccess,
      RecordAccessAgain, Notify, SaveStates, SaveActivities, SaveUser, AssignCard,
      AssignToMissing, RemoveCard,
      RefreshUserMetadata, ResetStates, ResetActivities, ResetRolledBack, Crash

LEMMA FifoNext ==
    ASSUME TypeInv, FifoInOrder, [Next]_vars
    PROVE  FifoInOrder'
<1>1. clock \in Nat /\ fifo \in [Node -> Seq(Frame)]
  BY ConstantTypes DEF TypeInv, TypeOK, WorkerType, Time
<1>2. \A n \in Node : \A a \in DOMAIN fifo[n] : fifo[n][a].time \in Nat
  <2>1. \A n \in Node : \A a \in DOMAIN fifo[n] : fifo[n][a] \in Frame
    BY <1>1
  <2>2. QED
    BY <2>1, ConstantTypes DEF Frame, Time
<1>3. CASE Tick
  BY <1>1, <1>2, <1>3 DEF Tick, FifoInOrder
<1>4. ASSUME NEW n \in Node, NEW c \in Card, NEW k \in Codes, Swipe(n, c, k)
      PROVE  FifoInOrder'
  <2> DEFINE f == [card |-> c, time |-> clock, code |-> k]
  <2>1. f \in Frame /\ f.time = clock
    BY DEF TypeInv, TypeOK, Frame
  <2>2. fifo' = [fifo EXCEPT ![n] = Append(fifo[n], f)] /\ clock' = clock
    BY <1>4 DEF Swipe
  <2> HIDE DEF f
  <2>3. PICK q : q = Append(fifo[n], f)
    OBVIOUS
  <2>4. \A a \in DOMAIN q : \/ a \in DOMAIN fifo[n] /\ q[a] = fifo[n][a]
                            \/ q[a] = f /\ \A b \in DOMAIN q : b <= a
    BY <1>1, <2>1, <2>3, AppendOf
  <2>5. \A a \in DOMAIN q : a \in Nat
    BY <1>1, <2>1, <2>3, AppendProperties, LenProperties
  <2>6. \A a \in DOMAIN q : q[a].time <= clock
    BY <1>1, <2>1, <2>4 DEF FifoInOrder
  <2>7. ASSUME NEW a \in DOMAIN q, NEW b \in DOMAIN q, a < b PROVE q[a].time <= q[b].time
    <3>1. ~(b <= a)
      BY <2>5, <2>7
    <3>2. a \in DOMAIN fifo[n] /\ q[a] = fifo[n][a]
      BY <2>4, <3>1
    <3>3. CASE b \in DOMAIN fifo[n] /\ q[b] = fifo[n][b]
      BY <2>7, <3>2, <3>3 DEF FifoInOrder
    <3>4. CASE q[b] = f
      BY <2>1, <2>6, <3>4
    <3>5. QED
      BY <2>4, <3>3, <3>4
  <2>8. QED
    BY <1>1, <2>2, <2>3, <2>6, <2>7 DEF FifoInOrder
<1>5. CASE RemoveOldest
  <2>1. cur.node \in Node /\ fifo[cur.node] # <<>> /\ clock' = clock
    BY <1>5 DEF RemoveOldest, TypeInv, TypeOK, WorkerType, Counted, Current
  <2>2. PICK n \in Node : n = cur.node
    BY <2>1
  <2>3. PICK q : q = Tail(fifo[n])
    OBVIOUS
  <2>4. fifo' = [fifo EXCEPT ![n] = q] \/ fifo' = fifo
    BY <1>5, <2>2, <2>3 DEF RemoveOldest
  <2>5. \A a \in DOMAIN q : a \in Nat /\ a + 1 \in DOMAIN fifo[n] /\ q[a] = fifo[n][a + 1]
    BY <1>1, <2>1, <2>2, <2>3, TailOf
  <2>6. \A a, b \in DOMAIN q : a < b => a + 1 < b + 1
    BY <2>5
  <2>7. \A a \in DOMAIN q : /\ q[a].time <= clock
                            /\ \A b \in DOMAIN q : a < b => q[a].time <= q[b].time
    BY <2>5, <2>6 DEF FifoInOrder
  <2>8. QED
    BY <1>1, <2>1, <2>4, <2>7 DEF FifoInOrder
<1>6. CASE UNCHANGED <<clock, fifo>>
  BY <1>6 DEF FifoInOrder
<1>7. QED
  BY <1>3, <1>4, <1>5, <1>6
  DEF Next, vars, Poll, PollEmpty, SkipDuplicate, AppendFails, RecordRaw, RecordAccess,
      RecordAccessAgain, Notify, SaveStates, SaveActivities, SaveUser, AssignCard,
      AssignToMissing, RemoveCard,
      RefreshUserMetadata, ResetStates, ResetActivities, ResetRolledBack, Crash

\* The event in hand is the oldest of its controller.
HandOldest == pc # "poll" => cur.frame = Head(fifo[cur.node])

ReadsPast == \A k \in User \union Card : Ahead(states[k].last)

RowsPast == \A i \in DOMAIN journal : Ahead(TimeOf(i))

RowsInOrder == \A i, j \in DOMAIN journal : i < j => TimeOf(i) <= TimeOf(j)

\* A user's last read is not before any row of his of the era of the states.
LastCovers ==
    \A i \in DOMAIN journal :
        journal[i].user \in User /\ journal[i].era = EraOfStates =>
          TimeOf(i) <= states[journal[i].user].last

TimeInv ==
    /\ ErasBounded /\ FifoInOrder /\ HandOldest /\ ReadsPast
    /\ RowsPast /\ RowsInOrder /\ LastCovers /\ RepeatWindow

LEMMA HandOldestNext ==
    ASSUME TypeInv, HandOldest, [Next]_vars
    PROVE  HandOldest'
<1> USE DEF TypeInv
<1>1. fifo \in [Node -> Seq(Frame)] /\ (pc # "poll" => cur \in Current /\ cur.node \in Node)
  BY DEF TypeOK, WorkerType, Current
<1>2. CASE \E n \in Node, manual \in BOOLEAN : Poll(n, manual)
  BY <1>2 DEF Poll, HandOldest
<1>3. ASSUME NEW n \in Node, NEW c \in Card, NEW k \in Codes, Swipe(n, c, k)
      PROVE  HandOldest'
  <2> DEFINE f == [card |-> c, time |-> clock, code |-> k]
  <2>1. f \in Frame
    BY DEF TypeOK, Frame
  <2>2. fifo' = [fifo EXCEPT ![n] = Append(fifo[n], f)] /\ pc' = pc /\ cur' = cur
    BY <1>3 DEF Swipe
  <2> HIDE DEF f
  <2>3. fifo[n] # <<>> => Head(Append(fifo[n], f)) = Head(fifo[n])
    BY <1>1, <2>1, AppendProperties, LenProperties, EmptySeq
  <2>4. pc # "poll" => fifo'[cur.node] = fifo[cur.node]
                         \/ (cur.node = n /\ fifo'[cur.node] = Append(fifo[n], f))
    BY <1>1, <2>2
  <2>5. pc # "poll" => fifo[cur.node] # <<>>
    BY DEF Counted
  <2>6. QED
    BY <2>2, <2>3, <2>4, <2>5 DEF HandOldest
<1>4. CASE RecordAccess \/ RecordAccessAgain
  <2>1. pc = "handle" /\ fifo' = fifo
    BY <1>4 DEF RecordAccess, RecordAccessAgain
  <2>2. cur'.node = cur.node /\ cur'.frame = cur.frame
    BY <1>1, <1>4, <2>1 DEF RecordAccess, RecordAccessAgain, TakeEffect, Current
  <2>3. QED
    BY <2>1, <2>2 DEF HandOldest
<1>5. CASE AppendFails \/ RemoveOldest \/ Crash
  BY <1>5 DEF AppendFails, RemoveOldest, Crash, HandOldest
<1>6. ASSUME UNCHANGED <<fifo, cur>>, pc # "poll" \/ pc' = pc PROVE HandOldest'
  BY <1>6 DEF HandOldest
<1>7. QED
  BY <1>2, <1>3, <1>4, <1>5, <1>6
  DEF Next, vars, Tick, PollEmpty, SkipDuplicate, RecordRaw, Notify, SaveStates, SaveActivities,
      SaveUser, AssignCard, AssignToMissing, RemoveCard, RefreshUserMetadata, ResetStates,
      ResetActivities, ResetRolledBack

\* Nothing is later than the event in hand that is ahead of none.
LEMMA HandAhead ==
    ASSUME TypeInv, FifoInOrder, HandOldest, OneController, pc # "poll"
    PROVE  /\ cur.frame.time \in Time /\ cur.frame.time \in Nat /\ Ahead(cur.frame.time)
           /\ \A t \in Nat : Ahead(t) => t <= cur.frame.time
<1>1. /\ fifo \in [Node -> Seq(Frame)] /\ cur \in Current /\ cur.node \in Node
      /\ cur.frame \in Frame
  BY DEF TypeInv, TypeOK, WorkerType, Current
<1>2. fifo[cur.node] # <<>> /\ cur.frame = Head(fifo[cur.node])
  BY DEF TypeInv, Counted, HandOldest
<1>3. fifo[cur.node] \in Seq(Frame)
  BY <1>1
<1>4. 1 \in DOMAIN fifo[cur.node] /\ cur.frame = fifo[cur.node][1]
      /\ \A a \in DOMAIN fifo[cur.node] : a \in Nat /\ (a = 1 \/ 1 < a)
  BY <1>2, <1>3, LenProperties, EmptySeq
<1>5. cur.frame.time \in Time /\ cur.frame.time \in Nat
  BY <1>1, ConstantTypes DEF Frame, Time
<1>6. \A n \in Node : n = cur.node
  BY <1>1 DEF OneController
<1>7. \A a \in DOMAIN fifo[cur.node] : cur.frame.time <= fifo[cur.node][a].time
  BY <1>1, <1>4, <1>5 DEF FifoInOrder
<1>8. cur.frame.time <= clock
  BY <1>1, <1>4 DEF FifoInOrder
<1>9. Ahead(cur.frame.time)
  BY <1>6, <1>7, <1>8 DEF Ahead
<1>10. \A t \in Nat : Ahead(t) => t <= cur.frame.time
  BY <1>1, <1>4 DEF Ahead
<1>11. QED
  BY <1>5, <1>9, <1>10

\* Last reads come from earlier ones, or from the event in hand.
LEMMA LastNext ==
    ASSUME TypeInv, "crash" \notin Faults, [Next]_vars
    PROVE  /\ \A k \in User \union Card :
                \/ \E l \in User \union Card : states'[k].last = states[l].last
                \/ states'[k].last = 0
                \/ pc = "handle" /\ states'[k].last = cur.frame.time
           /\ \/ ResetActivities
              \/ \E t \in Time : /\ TakeEffect(cur.frame.card, t, EventType(cur.frame.card, t))
                                 /\ pc = "handle" /\ t = cur.frame.time
              \/ \A u \in User : states[u].last <= states'[u].last
<1> USE DEF TypeInv
<1>1. states \in [User \union Card -> State]
  BY DEF TypeOK, EngineType
<1>2. \A k \in User \union Card : states[k].last \in Nat
  BY <1>1, ConstantTypes DEF State
<1>3. CASE RecordAccess \/ RecordAccessAgain
  <2>1. cur \in Current /\ cur.frame.card \in Card /\ cur.frame.time \in Time /\ pc = "handle"
    BY <1>3 DEF RecordAccess, RecordAccessAgain, TypeOK, WorkerType, Current, Frame
  <2>2. EventType(cur.frame.card, cur.frame.time) \in Type
    BY DEF EventType, Type, Pass
  <2>3. TakeEffect(cur.frame.card, cur.frame.time, EventType(cur.frame.card, cur.frame.time))
    BY <1>3 DEF RecordAccess, RecordAccessAgain
  <2>4. \A k \in User \union Card : states'[k].last \in {states[k].last, cur.frame.time}
    BY <2>1, <2>2, <2>3, LastAfterRead
  <2>5. QED
    BY <2>1, <2>3, <2>4
<1>4. CASE RefreshUserMetadata
  <2>1. states' = Migrated(states, owner, FALSE)
    BY <1>4 DEF RefreshUserMetadata
  <2>2. NeverRead.last = 0
    BY DEF NeverRead
  <2> DEFINE From(k) ==
        \/ states'[k] = states[k]
        \/ k \in Card /\ states'[k] = NeverRead
        \/ k \in User /\ \E c \in Card : Beats(states[c], states[k], FALSE) /\ states'[k] = states[c]
  <2>3. \A k \in User \union Card : From(k)
    <3> SUFFICES ASSUME NEW k \in User \union Card PROVE From(k)
      OBVIOUS
    <3>1. owner \in [Card -> User \union {None}]
      BY DEF TypeOK
    <3>2. QED
      BY <1>1, <2>1, <3>1, MigratedFrom
  <2>4. \A k \in User \union Card :
          \/ \E l \in User \union Card : states'[k].last = states[l].last
          \/ states'[k].last = 0
    BY <2>2, <2>3
  <2>5. \A u \in User : states[u].last <= states'[u].last
    <3> SUFFICES ASSUME NEW u \in User PROVE states[u].last <= states'[u].last
      OBVIOUS
    <3>1. u \notin Card
      BY ConstantTypes
    <3>2. \/ states'[u] = states[u]
          \/ \E c \in Card : Beats(states[c], states[u], FALSE) /\ states'[u] = states[c]
      BY <2>3, <3>1
    <3>3. \A c \in Card : Beats(states[c], states[u], FALSE) => states[u].last <= states[c].last
      BY <1>2 DEF Beats
    <3>4. CASE states'[u] = states[u]
      BY <1>2, <3>4
    <3>5. CASE \E c \in Card : Beats(states[c], states[u], FALSE) /\ states'[u] = states[c]
      BY <3>3, <3>5
    <3>6. QED
      BY <3>2, <3>4, <3>5
  <2>6. QED
    BY <2>4, <2>5
<1>5. CASE ResetActivities
  <2>1. \A k \in User \union Card : states'[k].last = 0
    BY <1>5 DEF ResetActivities, Nobody, NeverRead
  <2>2. QED
    BY <1>5, <2>1
<1>6. ~Crash
  BY DEF Crash, Fault
<1>7. CASE UNCHANGED states
  BY <1>2, <1>7
<1>8. QED
  BY <1>3, <1>4, <1>5, <1>6, <1>7
  DEF Next, vars, Tick, Swipe, Poll, PollEmpty, SkipDuplicate, AppendFails, RecordRaw, Notify,
      RemoveOldest, SaveStates, SaveActivities, SaveUser, AssignCard, AssignToMissing, RemoveCard,
      ResetStates,
      ResetRolledBack, engineVars

LEMMA ReadsNext ==
    ASSUME TypeInv, TimeInv, OneController, "crash" \notin Faults, [Next]_vars
    PROVE  ReadsPast'
<1> SUFFICES ASSUME NEW k \in User \union Card PROVE Ahead(states[k].last)'
  BY DEF ReadsPast
<1>1. states \in [User \union Card -> State] /\ states' \in [User \union Card -> State]
  BY TypeNext DEF TypeInv, TypeOK, EngineType
<1>2. \A l \in User \union Card : states[l].last \in Nat /\ Ahead(states[l].last)
  BY <1>1, ConstantTypes DEF State, TimeInv, ReadsPast
<1>3. Ahead(0)
  <2>1. clock \in Nat /\ fifo \in [Node -> Seq(Frame)]
    BY ConstantTypes DEF TypeInv, TypeOK, WorkerType, Time
  <2>2. \A n \in Node : \A a \in DOMAIN fifo[n] : fifo[n][a] \in Frame
    BY <2>1
  <2>3. \A n \in Node : \A a \in DOMAIN fifo[n] : fifo[n][a].time \in Nat
    BY <2>2, ConstantTypes DEF Frame, Time
  <2>4. QED
    BY <2>1, <2>3 DEF Ahead
<1>4. pc # "poll" => cur.frame.time \in Nat /\ Ahead(cur.frame.time)
  BY HandAhead DEF TimeInv
<1>5. PICK t : t = states'[k].last
  OBVIOUS
<1>6. t \in Nat /\ Ahead(t)
  BY <1>2, <1>3, <1>4, <1>5, LastNext
<1>7. Ahead(t)'
  BY <1>6, AheadStays
<1>8. QED
  BY <1>5, <1>7 DEF Ahead

\* A row of the event in hand is not before any other.
LEMMA RowsAppend ==
    ASSUME TypeInv, TimeInv, OneController, [Next]_vars, pc = "handle",
           NEW row \in Row, row.frame = cur.frame, journal' = Append(journal, row)
    PROVE  RowsPast' /\ RowsInOrder'
<1>1. /\ cur.frame.time \in Nat /\ Ahead(cur.frame.time)
      /\ \A t \in Nat : Ahead(t) => t <= cur.frame.time
  BY HandAhead DEF TimeInv
<1>2. PICK n : n = Len(journal)
  OBVIOUS
<1>3. /\ n \in Nat /\ DOMAIN journal = 1 .. n /\ DOMAIN journal' = 1 .. n + 1
      /\ \A k \in 1 .. n : journal'[k] = journal[k]
      /\ journal'[n + 1] = row
  BY <1>2, AppendedRow DEF TypeInv
<1>4. \A i \in 1 .. n : journal[i] \in Row
  BY <1>3 DEF TypeInv, TypeOK, HistoryType
<1>5. \A i \in 1 .. n : journal[i].frame.time \in Nat
  BY <1>4, ConstantTypes DEF Row, Frame, Time
<1>6. PICK at \in [1 .. n + 1 -> Nat] : \A i \in 1 .. n + 1 : at[i] = journal'[i].frame.time
  <2> DEFINE f == [i \in 1 .. n + 1 |-> journal'[i].frame.time]
  <2>1. \A i \in 1 .. n + 1 : journal'[i].frame.time \in Nat
    BY <1>1, <1>3, <1>5
  <2>2. f \in [1 .. n + 1 -> Nat] /\ \A i \in 1 .. n + 1 : f[i] = journal'[i].frame.time
    BY <2>1
  <2>3. QED
    BY <2>2
<1>7. at[n + 1] = cur.frame.time /\ \A i \in 1 .. n : at[i] = TimeOf(i)
  BY <1>3, <1>6 DEF TimeOf
<1>8. \A i \in 1 .. n + 1 : Ahead(at[i]) /\ at[i] <= at[n + 1]
  <2> SUFFICES ASSUME NEW i \in 1 .. n + 1 PROVE Ahead(at[i]) /\ at[i] <= at[n + 1]
    OBVIOUS
  <2>1. CASE i \in 1 .. n
    <3>1. Ahead(TimeOf(i)) /\ at[i] = TimeOf(i) /\ at[i] \in Nat
      BY <1>3, <1>6, <1>7, <2>1 DEF TimeInv, RowsPast
    <3>2. Ahead(at[i])
      BY <3>1
    <3>3. QED
      BY <1>1, <1>7, <3>1, <3>2
  <2>2. CASE i = n + 1
    <3>1. at[i] = cur.frame.time
      BY <1>7, <2>2
    <3>2. QED
      BY <1>1, <2>2, <3>1
  <2>3. QED
    BY <1>3, <2>1, <2>2
<1>9. ASSUME NEW i \in 1 .. n + 1 PROVE Ahead(TimeOf(i))'
  <2>1. PICK t \in Nat : t = at[i]
    BY <1>6
  <2>2. Ahead(t)'
    BY <1>8, <2>1, AheadStays
  <2>3. t = journal'[i].frame.time
    BY <1>6, <2>1
  <2>4. QED
    BY <2>2, <2>3 DEF Ahead, TimeOf
<1>10. RowsPast'
  BY <1>3, <1>9 DEF RowsPast
<1>11. \A i, j \in 1 .. n + 1 : i < j => at[i] <= at[j]
  <2> SUFFICES ASSUME NEW i \in 1 .. n + 1, NEW j \in 1 .. n + 1, i < j PROVE at[i] <= at[j]
    OBVIOUS
  <2>1. CASE j = n + 1
    BY <1>8, <2>1
  <2>2. CASE j # n + 1
    <3>1. i \in 1 .. n /\ j \in 1 .. n
      BY <1>3, <2>2
    <3>2. QED
      BY <1>3, <1>7, <3>1 DEF TimeInv, RowsInOrder
  <2>3. QED
    BY <2>1, <2>2
<1>12. RowsInOrder'
  BY <1>3, <1>6, <1>11 DEF RowsInOrder, TimeOf
<1>13. QED
  BY <1>10, <1>12

\* The row of an access event, and what is read into it.
LEMMA AccessRow ==
    ASSUME TypeInv, RecordAccess
    PROVE  \E w \in User \union {None}, t \in Time, type \in Type, row \in Row :
             /\ w = owner[cur.frame.card] /\ t = cur.frame.time
             /\ type = EventType(cur.frame.card, t)
             /\ row.node = cur.node /\ row.frame = cur.frame
             /\ row.user = w /\ row.type = type /\ row.era = era
             /\ cur.frame.card \in Card
             /\ journal' = Append(journal, row)
             /\ TakeEffect(cur.frame.card, t, type)
             /\ pc = "handle" /\ hold = "free" /\ hold' = "states"
             /\ UNCHANGED <<owner, era, mixed>>
<1> USE ConstantTypes DEF TypeInv
<1> DEFINE c == cur.frame.card
           type == EventType(c, cur.frame.time)
           row == NewRow(owner[c], type)
<1>1. c \in Card /\ cur.frame.time \in Time /\ type \in Type
  BY DEF RecordAccess, TypeOK, WorkerType, Current, Frame, EventType, Type, Pass
<1>2. owner[c] \in User \union {None}
  BY <1>1 DEF TypeOK
<1>3. /\ row \in Row /\ row.node = cur.node /\ row.frame = cur.frame
      /\ row.user = owner[c] /\ row.type = type /\ row.era = era
  BY <1>1, <1>2 DEF RecordAccess, TypeOK, WorkerType, Current, NewRow, Row
<1>4. /\ journal' = Append(journal, row)
      /\ TakeEffect(c, cur.frame.time, type)
      /\ pc = "handle" /\ hold = "free" /\ hold' = "states"
      /\ UNCHANGED <<owner, era, mixed>>
  BY DEF RecordAccess, TakeEffect, webVars, eraVars
<1> HIDE DEF row, type, c
<1>5. QED
  BY <1>1, <1>2, <1>3, <1>4 DEF type, c

\* A pass follows the last read of its user by more than the repeat window.
LEMMA PassIsLater ==
    ASSUME TypeOK, NEW c \in Card, NEW t \in Time, EventType(c, t) \in Pass,
           states[owner[c]].last # 0, states[owner[c]].last <= t
    PROVE  t - states[owner[c]].last > Repeat
<1>1. owner[c] # None /\ ~Accidental(states[StateKey(c)], t)
  BY DEF EventType, Pass
<1>2. owner[c] \in User /\ StateKey(c) = owner[c]
  BY <1>1 DEF StateKey, TypeOK
<1>3. states[owner[c]].last \in Nat /\ t \in Nat /\ Repeat \in Nat
  BY <1>2, ConstantTypes DEF TypeOK, EngineType, State, Time
<1>4. QED
  BY <1>1, <1>2, <1>3 DEF Accidental

\* How the passes of a user grow with a row.
LEMMA PassesGrow ==
    ASSUME TypeOK, NEW row \in Row, journal' = Append(journal, row), NEW u \in User
    PROVE  PassesOf(u)' = PassesOf(u) \union (IF row.user = u /\ row.type \in Pass
                                              THEN {Len(journal) + 1} ELSE {})
<1> DEFINE n == Len(journal)
<1>1. /\ n \in Nat /\ DOMAIN journal = 1 .. n /\ DOMAIN journal' = 1 .. n + 1
      /\ \A i \in 1 .. n : journal'[i] = journal[i]
      /\ journal'[n + 1] = row
  BY AppendedRow
<1> HIDE DEF n
<1>2. 1 .. n + 1 = (1 .. n) \union {n + 1}
  BY <1>1
<1>3. PassesOf(u)' = {i \in 1 .. n + 1 : journal'[i].user = u /\ journal'[i].type \in Pass}
  BY <1>1 DEF PassesOf
<1>4. PassesOf(u) = {i \in 1 .. n : journal[i].user = u /\ journal[i].type \in Pass}
  BY <1>1 DEF PassesOf
<1>5. QED
  BY <1>1, <1>2, <1>3, <1>4 DEF n

\* Rows that follow one another stay so, whatever is appended.
LEMMA ConsecutiveStays ==
    ASSUME TypeOK, NEW row \in Row, journal' = Append(journal, row),
           NEW i \in 1 .. Len(journal), NEW j \in 1 .. Len(journal)
    PROVE  Consecutive(i, j)' <=> Consecutive(i, j)
<1> DEFINE n == Len(journal)
<1>1. /\ n \in Nat /\ DOMAIN journal = 1 .. n /\ DOMAIN journal' = 1 .. n + 1
      /\ \A k \in 1 .. n : journal'[k] = journal[k]
  BY AppendedRow
<1> HIDE DEF n
<1>2. journal'[i] = journal[i] /\ journal'[j] = journal[j]
  BY <1>1 DEF n
<1>3. ASSUME journal[i].user \in User
      PROVE  \A k \in i + 1 .. j - 1 : k \in PassesOf(journal[i].user)'
                                         <=> k \in PassesOf(journal[i].user)
  <2> DEFINE u == journal[i].user
  <2>1. PICK v \in User : v = u
    BY <1>3
  <2>2. PassesOf(v)' = PassesOf(v) \union (IF row.user = v /\ row.type \in Pass
                                           THEN {n + 1} ELSE {})
    BY PassesGrow DEF n
  <2>3. \A k \in i + 1 .. j - 1 : k # n + 1
    BY <1>1 DEF n
  <2>4. \A k \in i + 1 .. j - 1 : k \in PassesOf(v)' <=> k \in PassesOf(v)
    BY <2>2, <2>3
  <2>5. PassesOf(journal[i].user)' = PassesOf(v)'
    BY <1>2, <2>1
  <2>6. QED
    BY <2>1, <2>4, <2>5
<1>4. QED
  BY <1>2, <1>3 DEF Consecutive

\* What the time of a user's rows is to his last read.
LEMMA CoversRecord ==
    ASSUME TypeInv, TimeInv, OneController, RecordAccess
    PROVE  LastCovers' /\ RepeatWindow'
<1> USE DEF TypeInv
<1>1. PICK w \in User \union {None}, t \in Time, type \in Type, row \in Row :
             /\ w = owner[cur.frame.card] /\ t = cur.frame.time
             /\ type = EventType(cur.frame.card, t)
             /\ row.node = cur.node /\ row.frame = cur.frame
             /\ row.user = w /\ row.type = type /\ row.era = era
             /\ cur.frame.card \in Card
             /\ journal' = Append(journal, row)
             /\ TakeEffect(cur.frame.card, t, type)
             /\ pc = "handle" /\ hold = "free" /\ hold' = "states"
             /\ UNCHANGED <<owner, era, mixed>>
  BY AccessRow
<1>2. PICK n : n = Len(journal)
  OBVIOUS
<1>3. /\ n \in Nat /\ DOMAIN journal = 1 .. n /\ DOMAIN journal' = 1 .. n + 1
      /\ \A k \in 1 .. n : journal'[k] = journal[k]
      /\ journal'[n + 1] = row
  BY <1>1, <1>2, AppendedRow
<1>4. EraOfStates = era /\ EraOfStates' = era
  BY <1>1 DEF EraOfStates
<1>5. /\ t \in Nat /\ Repeat \in Nat
      /\ \A k \in User \union Card : states[k].last \in Nat /\ states[k].last <= t
  <2>1. \A k \in User \union Card : states[k].last \in Nat
    BY ConstantTypes DEF TypeOK, EngineType, State
  <2>2. \A x \in Nat : Ahead(x) => x <= t
    BY <1>1, HandAhead DEF TimeInv
  <2>3. QED
    BY <2>1, <2>2, ConstantTypes DEF TimeInv, ReadsPast, Time
<1>6. \A u \in User : /\ u # w => states'[u].last = states[u].last
                      /\ u = w => states'[u].last = t
  BY <1>1, ReadOfUser
<1>7. \A i \in 1 .. n : /\ journal[i] \in Row /\ TimeOf(i) \in Nat \ {0}
                        /\ TimeOf(i)' = TimeOf(i)
  <2>1. \A i \in 1 .. n : journal[i] \in Row
    BY <1>3 DEF TypeOK, HistoryType
  <2>2. \A i \in 1 .. n : journal[i].frame.time \in Nat \ {0}
    BY <2>1, ConstantTypes DEF Row, Frame, Time
  <2>3. QED
    BY <1>3, <2>1, <2>2 DEF TimeOf
<1>8. TimeOf(n + 1)' = t /\ journal'[n + 1].user = w /\ journal'[n + 1].type = type
        /\ journal'[n + 1].era = era
  BY <1>1, <1>3 DEF TimeOf
<1>9. LastCovers'
  <2> SUFFICES ASSUME NEW i \in 1 .. n + 1, journal'[i].user \in User, journal'[i].era = era
               PROVE  TimeOf(i)' <= states'[journal'[i].user].last
    BY <1>3, <1>4 DEF LastCovers
  <2>1. CASE i \in 1 .. n
    <3>1. PICK u \in User : u = journal[i].user
      BY <1>3, <2>1
    <3>2. TimeOf(i) <= states[u].last
      BY <1>3, <1>4, <2>1, <3>1 DEF TimeInv, LastCovers
    <3>3. TimeOf(i)' <= states'[u].last
      BY <1>5, <1>6, <1>7, <2>1, <3>2
    <3>4. QED
      BY <1>3, <2>1, <3>1, <3>3
  <2>2. CASE i = n + 1
    <3>1. w \in User /\ states'[w].last = t
      BY <1>6, <1>8, <2>2
    <3>2. QED
      BY <1>5, <1>8, <2>2, <3>1
  <2>3. QED
    BY <1>3, <2>1, <2>2
<1>10. ASSUME NEW i \in 1 .. n, Consecutive(i, n + 1)'
       PROVE  TimeOf(n + 1)' > TimeOf(i)' + Repeat
  <2>1. journal[i].user = w /\ w \in User /\ type \in Pass /\ journal[i].era = era
    BY <1>3, <1>8, <1>10 DEF Consecutive
  <2>2. TimeOf(i) <= states[w].last
    BY <1>3, <1>4, <2>1 DEF TimeInv, LastCovers
  <2>3. states[w].last # 0 /\ states[w].last <= t
    BY <1>5, <1>7, <2>1, <2>2
  <2>4. t - states[w].last > Repeat
    BY <1>1, <2>1, <2>3, PassIsLater
  <2>5. states[w].last \in Nat /\ TimeOf(i) \in Nat
    BY <1>5, <1>7, <2>1
  <2>6. t > TimeOf(i) + Repeat
    BY <1>5, <2>2, <2>4, <2>5
  <2>7. QED
    BY <1>7, <1>8, <2>6
<1>11. \A i, j \in 1 .. n : Consecutive(i, j)' <=> Consecutive(i, j)
  BY <1>1, <1>2, ConsecutiveStays
<1>12. RepeatWindow'
  <2> SUFFICES ASSUME NEW i \in 1 .. n + 1, NEW j \in 1 .. n + 1, Consecutive(i, j)'
               PROVE  TimeOf(j)' > TimeOf(i)' + Repeat
    BY <1>3 DEF RepeatWindow
  <2>1. i < j
    BY DEF Consecutive
  <2>2. CASE j = n + 1
    <3>1. i \in 1 .. n
      BY <1>3, <2>1, <2>2
    <3>2. QED
      BY <1>10, <2>2, <3>1
  <2>3. CASE j # n + 1
    <3>1. i \in 1 .. n /\ j \in 1 .. n
      BY <1>3, <2>1, <2>3
    <3>2. QED
      BY <1>3, <1>7, <1>11, <3>1 DEF TimeInv, RepeatWindow
  <2>4. QED
    BY <2>2, <2>3
<1>13. QED
  BY <1>9, <1>12

LEMMA TimeNext ==
    ASSUME TypeInv, TimeInv, OneController, "crash" \notin Faults, [Next]_vars
    PROVE  TimeInv'
<1>1. ErasBounded' /\ FifoInOrder' /\ HandOldest' /\ ReadsPast'
  BY ErasNext, FifoNext, HandOldestNext, ReadsNext DEF TimeInv
<1>2. CASE RecordAccess
  <2>1. PICK row \in Row : /\ row.frame = cur.frame /\ journal' = Append(journal, row)
                           /\ pc = "handle"
    BY <1>2, AccessRow
  <2>2. RowsPast' /\ RowsInOrder'
    BY <2>1, RowsAppend
  <2>3. QED
    BY <1>1, <1>2, <2>2, CoversRecord DEF TimeInv
<1>3. CASE RecordRaw
  <2> DEFINE row == NewRow(None, "raw")
  <2>1. /\ row \in Row /\ row.frame = cur.frame /\ row.user \notin User
        /\ row.type \notin Pass
    BY <1>3, ConstantTypes
       DEF RecordRaw, TypeInv, TypeOK, WorkerType, Current, NewRow, Row, Type, Pass
  <2>2. /\ journal' = Append(journal, row) /\ pc = "handle"
        /\ UNCHANGED <<states, hold, era>>
    BY <1>3 DEF RecordRaw, engineVars, eraVars
  <2> HIDE DEF row
  <2>3. RowsPast' /\ RowsInOrder'
    BY <2>1, <2>2, RowsAppend
  <2>4. PICK n : n = Len(journal)
    OBVIOUS
  <2>5. /\ n \in Nat /\ DOMAIN journal = 1 .. n /\ DOMAIN journal' = 1 .. n + 1
        /\ \A k \in 1 .. n : journal'[k] = journal[k]
        /\ journal'[n + 1] = row
    BY <2>1, <2>2, <2>4, AppendedRow DEF TypeInv
  <2>6. \A i, j \in 1 .. n : Consecutive(i, j)' <=> Consecutive(i, j)
    BY <2>1, <2>2, <2>4, ConsecutiveStays DEF TypeInv
  <2>7. \A i \in 1 .. n + 1 : i \in 1 .. n \/ i = n + 1
    BY <2>5
  <2>8. EraOfStates' = EraOfStates
    BY <2>2 DEF EraOfStates
  <2>9. LastCovers'
    <3> SUFFICES ASSUME NEW i \in 1 .. n + 1, journal'[i].user \in User,
                        journal'[i].era = EraOfStates
                 PROVE  TimeOf(i)' <= states[journal'[i].user].last
      BY <2>2, <2>5, <2>8 DEF LastCovers
    <3>1. i \in 1 .. n
      BY <2>1, <2>5, <2>7
    <3>2. QED
      BY <2>5, <3>1 DEF TimeInv, LastCovers, TimeOf
  <2>10. RepeatWindow'
    <3> SUFFICES ASSUME NEW i \in 1 .. n + 1, NEW j \in 1 .. n + 1, Consecutive(i, j)'
                 PROVE  TimeOf(j)' > TimeOf(i)' + Repeat
      BY <2>5 DEF RepeatWindow
    <3>1. i # n + 1 /\ j # n + 1
      BY <2>1, <2>5 DEF Consecutive
    <3>2. i \in 1 .. n /\ j \in 1 .. n
      BY <2>7, <3>1
    <3>3. TimeOf(j) > TimeOf(i) + Repeat
      BY <2>5, <2>6, <3>2 DEF TimeInv, RepeatWindow
    <3>4. QED
      BY <2>5, <3>2, <3>3 DEF TimeOf
  <2>11. QED
    BY <1>1, <2>3, <2>9, <2>10 DEF TimeInv
<1>4. ASSUME journal' = journal, \/ ResetActivities
                                 \/ EraOfStates' = EraOfStates
      PROVE  TimeInv'
  <2>1. DOMAIN journal' = DOMAIN journal
    BY <1>4
  <2>2. RowsInOrder'
    BY <1>4 DEF TimeInv, RowsInOrder, TimeOf
  <2>3. RowsPast'
    <3> SUFFICES ASSUME NEW i \in DOMAIN journal PROVE Ahead(TimeOf(i))'
      BY <1>4 DEF RowsPast
    <3>1. PICK t : t = TimeOf(i)
      OBVIOUS
    <3>2. journal[i] \in Row
      BY DEF TypeInv, TypeOK, HistoryType
    <3>3. t \in Nat
      BY <3>1, <3>2, ConstantTypes DEF TimeOf, Row, Frame, Time
    <3>4. Ahead(t)
      BY <3>1 DEF TimeInv, RowsPast
    <3>5. Ahead(t)'
      BY <3>3, <3>4, AheadStays
    <3>6. t = TimeOf(i)'
      BY <1>4, <3>1 DEF TimeOf
    <3>7. QED
      BY <3>5, <3>6 DEF Ahead
  <2>4. RepeatWindow'
    <3>1. \A x, y : Consecutive(x, y)' <=> Consecutive(x, y)
      BY <1>4 DEF Consecutive, PassesOf
    <3>2. QED
      BY <1>4, <3>1 DEF TimeInv, RepeatWindow, TimeOf
  <2>5. LastCovers'
    <3> SUFFICES ASSUME NEW i \in DOMAIN journal, journal[i].user \in User,
                        journal[i].era = EraOfStates'
                 PROVE  TimeOf(i) <= states'[journal[i].user].last
      BY <1>4 DEF LastCovers, TimeOf
    <3>1. CASE ResetActivities
      <4>1. EraOfStates' = EraOfStates + 1 /\ EraOfStates \in Int
        BY <3>1 DEF ResetActivities, EraOfStates, eraVars, TypeInv, TypeOK
      <4>2. journal[i].era <= EraOfStates
        BY DEF TimeInv, ErasBounded
      <4>3. QED
        BY <4>1, <4>2
    <3>2. CASE EraOfStates' = EraOfStates /\ ~ResetActivities
      <4>1. PICK u \in User : u = journal[i].user
        OBVIOUS
      <4>2. TimeOf(i) <= states[u].last
        BY <3>2, <4>1 DEF TimeInv, LastCovers
      <4>3. states[u].last <= states'[u].last
        <5>1. CASE \E t \in Time : /\ TakeEffect(cur.frame.card, t,
                                                 EventType(cur.frame.card, t))
                                   /\ pc = "handle" /\ t = cur.frame.time
          <6>1. PICK t \in Time : /\ TakeEffect(cur.frame.card, t,
                                                 EventType(cur.frame.card, t))
                                  /\ pc = "handle" /\ t = cur.frame.time
            BY <5>1
          <6>2. cur.frame.card \in Card /\ EventType(cur.frame.card, t) \in Type
            BY <6>1 DEF TypeInv, TypeOK, WorkerType, Current, Frame, EventType, Type, Pass
          <6>3. states'[u].last = states[u].last \/ states'[u].last = t
            BY <6>1, <6>2, ReadOfUser DEF TypeInv
          <6>4. states[u].last \in Nat /\ Ahead(states[u].last)
            BY ConstantTypes DEF TypeInv, TypeOK, EngineType, State, TimeInv, ReadsPast
          <6>5. states[u].last <= t
            BY <6>1, <6>4, HandAhead DEF TimeInv
          <6>6. QED
            BY <6>3, <6>4, <6>5
        <5>2. CASE \A v \in User : states[v].last <= states'[v].last
          BY <5>2
        <5>3. QED
          BY <3>2, <5>1, <5>2, LastNext
      <4>4. TimeOf(i) \in Nat /\ states[u].last \in Nat /\ states'[u].last \in Nat
        <5>1. journal[i] \in Row
          BY DEF TypeInv, TypeOK, HistoryType
        <5>2. TimeOf(i) \in Nat
          BY <5>1, ConstantTypes DEF TimeOf, Row, Frame, Time
        <5>3. states \in [User \union Card -> State] /\ states' \in [User \union Card -> State]
          BY TypeNext DEF TypeInv, TypeOK, EngineType
        <5>4. QED
          BY <5>2, <5>3, ConstantTypes DEF State
      <4>5. QED
        BY <4>1, <4>2, <4>3, <4>4
    <3>3. QED
      BY <1>4, <3>1, <3>2
  <2>6. QED
    BY <1>1, <2>2, <2>3, <2>4, <2>5 DEF TimeInv
<1>5. CASE RecordAccessAgain \/ SaveStates \/ SaveActivities \/ RefreshUserMetadata
  BY <1>4, <1>5 DEF RecordAccessAgain, TakeEffect, SaveStates, SaveActivities,
      RefreshUserMetadata, EraOfStates, eraVars, storageVars
<1>6. CASE ResetStates \/ ResetRolledBack \/ ResetActivities
  BY <1>4, <1>6 DEF ResetStates, ResetRolledBack, ResetActivities, EraOfStates, TypeInv, TypeOK
<1>7. ~Crash
  BY DEF Crash, Fault
<1>8. CASE UNCHANGED <<journal, hold, era>>
  BY <1>4, <1>8 DEF EraOfStates
<1>9. QED
  BY <1>2, <1>3, <1>5, <1>6, <1>7, <1>8
  DEF Next, vars, Tick, Swipe, Poll, PollEmpty, SkipDuplicate, AppendFails, Notify, RemoveOldest,
      SaveUser, AssignCard, AssignToMissing, RemoveCard, storageVars, eraVars

LEMMA TimeInit == Init => TimeInv
<1> SUFFICES ASSUME Init PROVE TimeInv
  OBVIOUS
<1>1. DOMAIN journal = {} /\ \A n \in Node : DOMAIN fifo[n] = {}
  BY DEF Init
<1>2. ReadsPast
  BY <1>1 DEF Init, ReadsPast, Ahead, Nobody, NeverRead
<1>3. QED
  BY <1>1, <1>2 DEF Init, TimeInv, ErasBounded, FifoInOrder, HandOldest, RowsPast, RowsInOrder,
     LastCovers, RepeatWindow

\* On one controller two passes of a user are never within the repeat window of each other,
\* whatever fails but the server itself, and however cards are bound meanwhile.
THEOREM RepeatWindowAlways ==
    OneController /\ "crash" \notin Faults => (Spec => []RepeatWindow)
<1> SUFFICES ASSUME OneController, "crash" \notin Faults PROVE Spec => []RepeatWindow
  OBVIOUS
<1>1. TypeInv /\ TimeInv /\ [Next]_vars => TimeInv'
  BY TimeNext
<1>2. TimeInv => RepeatWindow
  BY DEF TimeInv
<1>3. QED
  BY <1>1, <1>2, TimeInit, TypeInit, TypeNext, PTL DEF Spec

-----------------------------------------------------------------------------
\* Arrivals and departures alternate.

OwnedUnread == \A c \in Card : owner[c] # None => states[c] = NeverRead

\* Row i is the newest pass of user u.
Newest(u, i) == i \in PassesOf(u) /\ \A k \in PassesOf(u) : k <= i

\* A user is present exactly if his newest pass is an arrival of the era of the states.
PresenceOfNewest ==
    EraOfStates \notin mixed =>
      \A u \in User :
        states[u].present <=>
          \E i \in DOMAIN journal : Newest(u, i) /\ journal[i].era = EraOfStates
                                                 /\ journal[i].type = "arrival"

\* Without binding, the owner of a card is who he was when its rows were written, or nobody.
RowsOfOwner ==
    \A i \in DOMAIN journal :
        journal[i].frame.code = "access" =>
          owner[journal[i].frame.card] \in {journal[i].user, None}

AlternateInv == OwnedUnread /\ RowsOfOwner /\ PresenceOfNewest /\ Alternate

\* While no owned card has a state, there is nothing to move.
LEMMA MigratedIdentity ==
    ASSUME TypeOK, OwnedUnread, NEW ties \in BOOLEAN
    PROVE  Migrated(states, owner, ties) = states
<1> USE ConstantTypes
<1> DEFINE Rivals(u) ==
      {c \in Card : owner[c] = u /\ states[c].last # 0 /\ Beats(states[c], states[u], ties)}
<1>1. \A u \in User : Rivals(u) = {}
  BY DEF OwnedUnread, NeverRead
<1>2. \A c \in Card : owner[c] # None => states[c] = NeverRead
  BY DEF OwnedUnread
<1>3. states = [k \in User \union Card |-> states[k]]
  BY DEF TypeOK, EngineType
<1>4. \A k \in User \union Card : Migrated(states, owner, ties)[k] = states[k]
  BY <1>1, <1>2 DEF Migrated
<1>5. Migrated(states, owner, ties) = [k \in User \union Card |-> Migrated(states, owner, ties)[k]]
  BY DEF Migrated
<1>6. QED
  BY <1>3, <1>4, <1>5

LEMMA AlternateRecord ==
    ASSUME TypeInv, AlternateInv, RecordAccess
    PROVE  AlternateInv'
<1> USE ConstantTypes DEF TypeInv
<1>1. PICK w \in User \union {None}, t \in Time, type \in Type, row \in Row :
             /\ w = owner[cur.frame.card] /\ t = cur.frame.time
             /\ type = EventType(cur.frame.card, t)
             /\ row.node = cur.node /\ row.frame = cur.frame
             /\ row.user = w /\ row.type = type /\ row.era = era
             /\ cur.frame.card \in Card
             /\ journal' = Append(journal, row)
             /\ TakeEffect(cur.frame.card, t, type)
             /\ pc = "handle" /\ hold = "free" /\ hold' = "states"
             /\ UNCHANGED <<owner, era, mixed>>
  BY AccessRow
<1>2. PICK c \in Card : c = cur.frame.card
  BY <1>1
<1>3. type \in Pass => w \in User /\ (type = "departure" <=> states[w].present)
  BY <1>1, <1>2 DEF EventType, StateKey, Pass
<1>4. /\ journal' = Append(journal, row) /\ TakeEffect(c, t, type)
      /\ hold = "free" /\ hold' = "states" /\ UNCHANGED <<owner, era, mixed>>
      /\ row.user = w /\ row.type = type /\ row.era = era /\ row.frame.card = c
      /\ w = owner[c]
  BY <1>1, <1>2
<1>5. EraOfStates = era /\ EraOfStates' = era
  BY <1>4 DEF EraOfStates
<1>6. PICK n : n = Len(journal)
  OBVIOUS
<1>7. /\ n \in Nat /\ DOMAIN journal = 1 .. n /\ DOMAIN journal' = 1 .. n + 1
      /\ \A k \in 1 .. n : journal'[k] = journal[k]
      /\ journal'[n + 1] = row
  BY <1>4, <1>6, AppendedRow
<1>8. \A u \in User : PassesOf(u)' = PassesOf(u) \union (IF w = u /\ type \in Pass
                                                         THEN {n + 1} ELSE {})
  BY <1>4, <1>6, PassesGrow
<1>9. \A i, j \in 1 .. n : Consecutive(i, j)' <=> Consecutive(i, j)
  BY <1>4, <1>6, ConsecutiveStays
<1>10. \A u \in User : PassesOf(u) \subseteq 1 .. n
  BY <1>7 DEF PassesOf
<1>11. OwnedUnread'
  BY <1>4, ReadOfCard DEF AlternateInv, OwnedUnread
<1>12. RowsOfOwner'
  <2> SUFFICES ASSUME NEW i \in 1 .. n + 1, journal'[i].frame.code = "access"
               PROVE  owner[journal'[i].frame.card] \in {journal'[i].user, None}
    BY <1>4, <1>7 DEF RowsOfOwner
  <2>1. CASE i \in 1 .. n
    BY <1>7, <2>1 DEF AlternateInv, RowsOfOwner
  <2>2. CASE i = n + 1
    BY <1>4, <1>7, <2>2
  <2>3. QED
    BY <1>7, <2>1, <2>2
<1>13. PresenceOfNewest'
  <2> SUFFICES ASSUME era \notin mixed, NEW u \in User
               PROVE  states'[u].present
                        <=> \E i \in 1 .. n + 1 : /\ Newest(u, i)'
                                                  /\ journal'[i].era = era
                                                  /\ journal'[i].type = "arrival"
    BY <1>4, <1>5, <1>7 DEF PresenceOfNewest
  <2>1. /\ u # w => states'[u] = states[u]
        /\ u = w => (states'[u].present <=> type = "arrival"
                                              \/ (states[u].present /\ type # "departure"))
    BY <1>4, ReadOfUser
  <2>2. CASE u = w /\ type \in Pass
    <3>1. PassesOf(u)' = PassesOf(u) \union {n + 1}
      BY <1>8, <2>2
    <3>2. \A i \in 1 .. n + 1 : Newest(u, i)' <=> i = n + 1
      <4>1. \A k \in PassesOf(u)' : k \in 1 .. n + 1
        BY <1>7, <1>10, <3>1
      <4>2. \A i \in 1 .. n + 1 : i # n + 1 => ~(n + 1 <= i)
        BY <1>7
      <4>3. \A k \in 1 .. n + 1 : k <= n + 1
        BY <1>7
      <4>4. \A i \in 1 .. n + 1 : i # n + 1 => ~Newest(u, i)'
        BY <3>1, <4>2 DEF Newest
      <4>5. Newest(u, n + 1)'
        BY <3>1, <4>1, <4>3 DEF Newest
      <4>6. QED
        BY <4>4, <4>5
    <3>3. states'[u].present <=> type = "arrival"
      BY <2>1, <2>2 DEF Pass
    <3>4. n + 1 \in 1 .. n + 1
      BY <1>7
    <3>5. QED
      BY <1>4, <1>7, <3>2, <3>3, <3>4
  <2>3. CASE ~(u = w /\ type \in Pass)
    <3>1. PassesOf(u)' = PassesOf(u)
      BY <1>8, <2>3
    <3>2. \A i \in 1 .. n + 1 : Newest(u, i)' <=> Newest(u, i)
      BY <3>1 DEF Newest
    <3>3. states'[u].present <=> states[u].present
      BY <2>1, <2>3 DEF Pass
    <3>4. \A i : Newest(u, i) => i \in 1 .. n /\ journal'[i] = journal[i]
      BY <1>7, <1>10 DEF Newest
    <3>5. states[u].present <=> \E i \in 1 .. n : Newest(u, i) /\ journal[i].era = era
                                                            /\ journal[i].type = "arrival"
      BY <1>5, <1>7 DEF AlternateInv, PresenceOfNewest
    <3>6. 1 .. n \subseteq 1 .. n + 1
      BY <1>7
    <3>7. QED
      BY <3>2, <3>3, <3>4, <3>5, <3>6
  <2>4. QED
    BY <2>2, <2>3
<1>14. journal'[n + 1].user = w /\ journal'[n + 1].type = type /\ journal'[n + 1].era = era
  BY <1>4, <1>7
\* The newest pass before the new one.
<1>15. ASSUME NEW i \in 1 .. n, Consecutive(i, n + 1)'
       PROVE  Newest(w, i) /\ w \in User /\ type \in Pass /\ journal[i].era = era
                           /\ journal[i].type \in Pass
  <2>1. /\ journal[i].user = w /\ w \in User /\ type \in Pass
        /\ journal[i].type \in Pass /\ journal[i].era = era
        /\ \A k \in i + 1 .. (n + 1) - 1 : k \notin PassesOf(w)'
    <3>1. journal'[i] = journal[i]
      BY <1>7
    <3>2. journal[i].user \in User /\ journal[i].user = w
      BY <1>14, <1>15, <3>1 DEF Consecutive
    <3>3. \A k \in i + 1 .. (n + 1) - 1 : k \notin PassesOf(journal[i].user)'
      BY <1>15 DEF Consecutive
    <3>4. PassesOf(journal[i].user)' = PassesOf(w)'
      BY <3>1, <3>2
    <3>5. journal[i].type \in Pass /\ type \in Pass /\ journal[i].era = era
      BY <1>14, <1>15, <3>1 DEF Consecutive
    <3>6. QED
      BY <3>2, <3>3, <3>4, <3>5
  <2>2. i \in PassesOf(w)
    BY <1>7, <2>1 DEF PassesOf
  <2>3. \A k \in PassesOf(w) : k \in PassesOf(w)' /\ k \in 1 .. n
    BY <1>8, <1>10, <2>1
  <2>4. \A k \in PassesOf(w) : k <= i
    BY <1>7, <2>1, <2>3
  <2>5. QED
    BY <2>1, <2>2, <2>4 DEF Newest
<1>16. ASSUME era \notin mixed, NEW i \in 1 .. n, Consecutive(i, n + 1)'
       PROVE  journal[i].type # type
  <2>1. Newest(w, i) /\ w \in User /\ type \in Pass /\ journal[i].era = era
                     /\ journal[i].type \in Pass
    BY <1>15, <1>16
  <2>2. states[w].present <=> \E k \in 1 .. n : Newest(w, k) /\ journal[k].era = era
                                                          /\ journal[k].type = "arrival"
    BY <1>5, <1>7, <1>16, <2>1 DEF AlternateInv, PresenceOfNewest
  <2>3. \A k \in 1 .. n : Newest(w, k) => k = i
    BY <2>1 DEF Newest, PassesOf
  <2>4. states[w].present <=> journal[i].type = "arrival"
    BY <2>1, <2>2, <2>3
  <2>5. QED
    BY <1>3, <2>1, <2>4 DEF Pass
<1>17. ASSUME era \notin mixed, type = "departure" PROVE \E h \in 1 .. n : Consecutive(h, n + 1)'
  <2>1. w \in User /\ states[w].present
    BY <1>3, <1>17 DEF Pass
  <2>2. PICK h \in 1 .. n : Newest(w, h) /\ journal[h].era = era /\ journal[h].type = "arrival"
    BY <1>5, <1>7, <1>17, <2>1 DEF AlternateInv, PresenceOfNewest
  <2>3. journal'[h] = journal[h] /\ journal[h].user = w /\ h < n + 1
    BY <1>7, <2>2 DEF Newest, PassesOf
  <2>4. \A k \in h + 1 .. (n + 1) - 1 : k \notin PassesOf(w)'
    BY <1>7, <1>8, <1>10, <2>1, <2>2 DEF Newest
  <2>5. PassesOf(journal[h].user)' = PassesOf(w)'
    BY <2>3
  <2>6. journal[h].type \in Pass /\ type \in Pass
    BY <1>17, <2>2 DEF Pass
  <2>7. Consecutive(h, n + 1)'
    BY <1>14, <2>1, <2>2, <2>3, <2>4, <2>5, <2>6 DEF Consecutive
  <2>8. QED
    BY <2>7
<1>18. Alternate'
  <2>1. ASSUME NEW i \in 1 .. n + 1, NEW j \in 1 .. n + 1, Consecutive(i, j)',
               journal'[i].era \notin mixed
        PROVE  journal'[i].type # journal'[j].type
    <3>1. i < j
      BY <2>1 DEF Consecutive
    <3>2. CASE j \in 1 .. n
      <4>1. i \in 1 .. n
        BY <1>7, <3>1, <3>2
      <4>2. QED
        BY <1>7, <1>9, <2>1, <3>2, <4>1 DEF AlternateInv, Alternate
    <3>3. CASE j = n + 1
      <4>1. i \in 1 .. n
        BY <1>7, <3>1, <3>3
      <4>2. journal[i].era = era /\ journal'[i] = journal[i]
        BY <1>7, <1>15, <2>1, <3>3, <4>1
      <4>3. QED
        BY <1>14, <1>16, <2>1, <3>3, <4>1, <4>2
    <3>4. QED
      BY <1>7, <3>2, <3>3
  <2>2. ASSUME NEW i \in 1 .. n + 1, journal'[i].type = "departure", journal'[i].era \notin mixed
        PROVE  \E h \in 1 .. i - 1 : Consecutive(h, i)'
    <3>1. CASE i \in 1 .. n
      <4>1. PICK h \in 1 .. i - 1 : Consecutive(h, i)
        BY <1>7, <2>2, <3>1 DEF AlternateInv, Alternate
      <4>2. h \in 1 .. n
        BY <1>7, <3>1
      <4>3. QED
        BY <1>9, <3>1, <4>1, <4>2
    <3>2. CASE i = n + 1
      <4>1. type = "departure" /\ era \notin mixed /\ i - 1 = n
        BY <1>7, <1>14, <2>2, <3>2
      <4>2. QED
        BY <1>17, <3>2, <4>1
    <3>3. QED
      BY <1>7, <3>1, <3>2
  <2>3. QED
    BY <1>4, <1>7, <2>1, <2>2 DEF Alternate
<1>19. QED
  BY <1>11, <1>12, <1>13, <1>18 DEF AlternateInv

\* It all stays when journal, owners, states and their era do.
LEMMA AlternateFrame ==
    ASSUME AlternateInv, UNCHANGED <<journal, owner, states, mixed>>, EraOfStates' = EraOfStates
    PROVE  AlternateInv'
<1>1. OwnedUnread' /\ RowsOfOwner'
  BY DEF AlternateInv, OwnedUnread, RowsOfOwner
<1>2. \A u, i : Newest(u, i)' <=> Newest(u, i)
  BY DEF Newest, PassesOf
<1>3. PresenceOfNewest'
  BY <1>2 DEF AlternateInv, PresenceOfNewest
<1>4. \A i, j : Consecutive(i, j)' <=> Consecutive(i, j)
  BY DEF Consecutive, PassesOf
<1>5. Alternate'
  BY <1>4 DEF AlternateInv, Alternate
<1>6. QED
  BY <1>1, <1>3, <1>5 DEF AlternateInv

LEMMA AlternateRaw ==
    ASSUME TypeOK, AlternateInv, RecordRaw
    PROVE  AlternateInv'
<1> DEFINE row == NewRow(None, "raw")
<1>1. row \in Row /\ row.type = "raw" /\ row.frame.code = "other"
  BY DEF RecordRaw, TypeOK, WorkerType, Current, NewRow, Row, Type
<1>2. journal' = Append(journal, row) /\ UNCHANGED <<owner, states, hold, era, mixed>>
  BY DEF RecordRaw, engineVars, webVars, eraVars
<1>3. EraOfStates' = EraOfStates
  BY <1>2 DEF EraOfStates
<1> HIDE DEF row
<1>4. PICK n : n = Len(journal)
  OBVIOUS
<1>5. /\ n \in Nat /\ DOMAIN journal = 1 .. n /\ DOMAIN journal' = 1 .. n + 1
      /\ \A k \in 1 .. n : journal'[k] = journal[k]
      /\ journal'[n + 1] = row
  BY <1>1, <1>2, <1>4, AppendedRow
<1>6. \A u \in User : PassesOf(u)' = PassesOf(u)
  BY <1>1, <1>2, PassesGrow DEF Pass
<1>7. \A i, j \in 1 .. n : Consecutive(i, j)' <=> Consecutive(i, j)
  BY <1>1, <1>2, <1>4, ConsecutiveStays
<1>8. journal'[n + 1].type \notin Pass /\ journal'[n + 1].type # "departure"
  BY <1>1, <1>5 DEF Pass
<1>9. OwnedUnread'
  BY <1>2 DEF AlternateInv, OwnedUnread
<1>10. RowsOfOwner'
  <2> SUFFICES ASSUME NEW i \in 1 .. n + 1, journal'[i].frame.code = "access"
               PROVE  owner[journal'[i].frame.card] \in {journal'[i].user, None}
    BY <1>2, <1>5 DEF RowsOfOwner
  <2>1. i \in 1 .. n
    BY <1>1, <1>5
  <2>2. QED
    BY <1>5, <2>1 DEF AlternateInv, RowsOfOwner
<1>11. PresenceOfNewest'
  <2>1. \A u \in User : \A i : Newest(u, i)' <=> Newest(u, i)
    BY <1>6 DEF Newest
  <2>2. \A u \in User : \A i : Newest(u, i) => i \in 1 .. n /\ journal'[i] = journal[i]
    BY <1>5 DEF Newest, PassesOf
  <2>3. 1 .. n \subseteq 1 .. n + 1
    BY <1>5
  <2>4. ASSUME EraOfStates \notin mixed, NEW u \in User
        PROVE  states'[u].present
                 <=> \E i \in 1 .. n + 1 : /\ Newest(u, i)'
                                           /\ journal'[i].era = EraOfStates
                                           /\ journal'[i].type = "arrival"
    <3>1. states[u].present <=> \E i \in 1 .. n : /\ Newest(u, i)
                                                  /\ journal[i].era = EraOfStates
                                                  /\ journal[i].type = "arrival"
      BY <1>5, <2>4 DEF AlternateInv, PresenceOfNewest
    <3>2. QED
      BY <1>2, <2>1, <2>2, <2>3, <3>1
  <2>5. QED
    BY <1>2, <1>3, <1>5, <2>4 DEF PresenceOfNewest
<1>12. Alternate'
  <2>1. ASSUME NEW i \in 1 .. n + 1, NEW j \in 1 .. n + 1, Consecutive(i, j)',
               journal'[i].era \notin mixed
        PROVE  journal'[i].type # journal'[j].type
    <3>1. i # n + 1 /\ j # n + 1
      BY <1>8, <2>1 DEF Consecutive
    <3>2. i \in 1 .. n /\ j \in 1 .. n
      BY <1>5, <3>1
    <3>3. QED
      BY <1>5, <1>7, <2>1, <3>2 DEF AlternateInv, Alternate
  <2>2. ASSUME NEW i \in 1 .. n + 1, journal'[i].type = "departure", journal'[i].era \notin mixed
        PROVE  \E h \in 1 .. i - 1 : Consecutive(h, i)'
    <3>1. i \in 1 .. n
      BY <1>5, <1>8, <2>2
    <3>2. PICK h \in 1 .. i - 1 : Consecutive(h, i)
      BY <1>5, <2>2, <3>1 DEF AlternateInv, Alternate
    <3>3. h \in 1 .. n
      BY <1>5, <3>1
    <3>4. QED
      BY <1>7, <3>1, <3>2, <3>3
  <2>3. QED
    BY <1>2, <1>5, <2>1, <2>2 DEF Alternate
<1>13. QED
  BY <1>9, <1>10, <1>11, <1>12 DEF AlternateInv

\* A reset empties the states before its era begins for them.
LEMMA AlternateReset ==
    ASSUME TypeOK, ErasBounded, AlternateInv, ResetActivities
    PROVE  AlternateInv'
<1>1. /\ hold = "reset" /\ hold' = "free" /\ states' = Nobody
      /\ UNCHANGED <<journal, owner, era, mixed>>
  BY DEF ResetActivities, webVars, eraVars
<1>2. EraOfStates = era - 1 /\ EraOfStates' = era /\ era \in Nat
  BY <1>1 DEF EraOfStates, TypeOK
<1>3. \A i \in DOMAIN journal : journal[i].era \in Nat
  <2>1. \A i \in DOMAIN journal : journal[i] \in Row
    BY DEF TypeOK, HistoryType
  <2>2. QED
    BY <2>1 DEF Row
<1>4. \A i \in DOMAIN journal : journal[i].user \in User => journal[i].era # era
  BY <1>2, <1>3 DEF ErasBounded
<1>5. PresenceOfNewest'
  <2>1. \A u \in User : ~states'[u].present
    BY <1>1 DEF Nobody, NeverRead
  <2>2. \A u \in User : \A i \in DOMAIN journal : Newest(u, i)' => journal[i].era # era
    BY <1>1, <1>4 DEF Newest, PassesOf
  <2>3. QED
    BY <1>1, <1>2, <2>1, <2>2 DEF PresenceOfNewest
<1>6. OwnedUnread' /\ RowsOfOwner'
  BY <1>1 DEF OwnedUnread, Nobody, AlternateInv, RowsOfOwner
<1>7. \A i, j : Consecutive(i, j)' <=> Consecutive(i, j)
  BY <1>1 DEF Consecutive, PassesOf
<1>8. Alternate'
  BY <1>1, <1>7 DEF AlternateInv, Alternate
<1>9. QED
  BY <1>5, <1>6, <1>8 DEF AlternateInv

\* On one controller, an event of this era that takes effect a second time is an accidental
\* repeat of itself; one of an earlier era mixes the eras.
LEMMA AlternateAgain ==
    ASSUME TypeInv, TimeInv, OneController, AlternateInv, RecordAccessAgain
    PROVE  AlternateInv'
<1> USE ConstantTypes DEF TypeInv
<1>1. PICK c \in Card, t \in Time, type \in Type :
        /\ c = cur.frame.card /\ t = cur.frame.time /\ type = EventType(c, t)
        /\ TakeEffect(c, t, type)
  <2>1. cur.frame.card \in Card /\ cur.frame.time \in Time
    BY DEF RecordAccessAgain, TypeOK, WorkerType, Current, Frame
  <2>2. EventType(cur.frame.card, cur.frame.time) \in Type
    BY DEF EventType, Type, Pass
  <2>3. QED
    BY <2>1, <2>2 DEF RecordAccessAgain
<1>2. /\ pc = "handle" /\ hold = "free" /\ hold' = "states" /\ cur.frame.code = "access"
      /\ UNCHANGED <<journal, owner, era>>
      /\ mixed' = IF \E i \in DOMAIN journal :
                       /\ journal[i] = NewRow(journal[i].user, journal[i].type)
                       /\ owner[cur.frame.card] \in {None, journal[i].user}
                  THEN mixed ELSE mixed \union {era}
  BY DEF RecordAccessAgain, TakeEffect, storageVars, webVars
<1>3. EraOfStates = era /\ EraOfStates' = era
  BY <1>2 DEF EraOfStates
<1>4. OwnedUnread' /\ RowsOfOwner'
  BY <1>1, <1>2, ReadOfCard DEF AlternateInv, OwnedUnread, RowsOfOwner
<1>5. \A i, j : Consecutive(i, j)' <=> Consecutive(i, j)
  BY <1>2 DEF Consecutive, PassesOf
<1>6. mixed \subseteq mixed'
  BY <1>2
<1>7. Alternate'
  BY <1>2, <1>5, <1>6 DEF AlternateInv, Alternate
<1>8. ASSUME era \notin mixed' PROVE \A u \in User : states'[u].present <=> states[u].present
  <2>1. PICK i \in DOMAIN journal : journal[i] = NewRow(journal[i].user, journal[i].type)
    BY <1>2, <1>8
  <2>2. journal[i].frame = cur.frame /\ journal[i].era = era
    BY <2>1 DEF NewRow
  <2>3. owner[c] \in {journal[i].user, None}
    BY <1>1, <1>2, <2>2 DEF AlternateInv, RowsOfOwner
  <2>4. ASSUME owner[c] \in User PROVE type \notin Pass
    <3>1. PICK w \in User : w = owner[c]
      BY <2>4
    <3>2. journal[i].user = w
      BY <2>3, <3>1
    <3>3. t <= states[w].last
      BY <1>1, <1>3, <2>2, <3>2 DEF TimeInv, LastCovers, TimeOf
    <3>4. states[w].last \in Nat /\ Ahead(states[w].last) /\ t \in Nat \ {0} /\ Repeat \in Nat
      BY DEF TypeOK, EngineType, State, Time, TimeInv, ReadsPast
    <3>5. states[w].last <= t
      BY <1>1, <1>2, <3>4, HandAhead DEF TimeInv
    <3>6. states[w].last # 0 /\ ~(t - states[w].last > Repeat)
      BY <3>3, <3>4, <3>5
    <3>7. QED
      BY <1>1, <3>1, <3>5, <3>6, PassIsLater
  <2>5. ASSUME NEW u \in User PROVE states'[u].present <=> states[u].present
    <3>1. CASE u # owner[c]
      BY <1>1, <3>1, ReadOfUser
    <3>2. CASE u = owner[c]
      BY <1>1, <2>4, <3>2, ReadOfUser DEF Pass
    <3>3. QED
      BY <3>1, <3>2
  <2>6. QED
    BY <2>5
<1>9. \A u, i : Newest(u, i)' <=> Newest(u, i)
  BY <1>2 DEF Newest, PassesOf
<1>10. PresenceOfNewest'
  BY <1>2, <1>3, <1>6, <1>8, <1>9 DEF AlternateInv, PresenceOfNewest
<1>11. QED
  BY <1>4, <1>7, <1>10 DEF AlternateInv

LEMMA AlternateNext ==
    ASSUME "crash" \notin Faults, "bind" \notin Ops, OneController \/ "check" \notin Faults,
           TypeInv, ErasBounded, OneController => TimeInv, AlternateInv, [Next]_vars
    PROVE  AlternateInv'
<1> USE DEF TypeInv
<1>1. /\ ~Crash
      /\ \A c \in Card, u \in User : ~SaveUser(c, u) /\ ~AssignCard(c, u)
      /\ \A c \in Card : ~AssignToMissing(c)
  BY DEF Crash, Fault, SaveUser, AssignCard, AssignToMissing, Operation
<1>2. CASE RecordAccess
  BY <1>2, AlternateRecord
<1>3. CASE RecordRaw
  BY <1>3, AlternateRaw
<1>4. CASE ResetActivities
  BY <1>4, AlternateReset
<1>5. CASE RecordAccessAgain
  <2>1. OneController
    BY <1>5 DEF RecordAccessAgain, Fault
  <2>2. QED
    BY <1>5, <2>1, AlternateAgain
<1>6. CASE \E c \in Card : RemoveCard(c)
  <2>1. PICK c \in Card : RemoveCard(c)
    BY <1>6
  <2>2. /\ owner' = [owner EXCEPT ![c] = None]
        /\ UNCHANGED <<journal, states, hold, era, mixed>>
    BY <2>1 DEF RemoveCard, engineVars, storageVars, eraVars
  <2>3. \A d \in Card : owner'[d] \in {owner[d], None}
    BY <2>2 DEF TypeOK
  <2>4. OwnedUnread'
    BY <2>2, <2>3 DEF AlternateInv, OwnedUnread
  <2>5. RowsOfOwner'
    <3>1. \A i \in DOMAIN journal : journal[i] \in Row
      BY DEF TypeOK, HistoryType
    <3>2. \A i \in DOMAIN journal : journal[i].frame.card \in Card
      BY <3>1 DEF Row, Frame
    <3>3. QED
      BY <2>2, <2>3, <3>2 DEF AlternateInv, RowsOfOwner
  <2>6. EraOfStates' = EraOfStates
    BY <2>2 DEF EraOfStates
  <2>7. \A u, i : Newest(u, i)' <=> Newest(u, i)
    BY <2>2 DEF Newest, PassesOf
  <2>8. PresenceOfNewest'
    BY <2>2, <2>6, <2>7 DEF AlternateInv, PresenceOfNewest
  <2>9. \A i, j : Consecutive(i, j)' <=> Consecutive(i, j)
    BY <2>2 DEF Consecutive, PassesOf
  <2>10. Alternate'
    BY <2>2, <2>9 DEF AlternateInv, Alternate
  <2>11. QED
    BY <2>4, <2>5, <2>8, <2>10 DEF AlternateInv
<1>7. CASE RefreshUserMetadata
  <2>1. states' = states
    BY <1>7, MigratedIdentity DEF RefreshUserMetadata, AlternateInv
  <2>2. EraOfStates' = EraOfStates /\ UNCHANGED <<journal, owner, mixed>>
    BY <1>7 DEF RefreshUserMetadata, EraOfStates, storageVars, eraVars
  <2>3. QED
    BY <2>1, <2>2, AlternateFrame
<1>8. CASE ResetStates
  <2>1. EraOfStates' = EraOfStates
    BY <1>8 DEF ResetStates, EraOfStates, TypeOK
  <2>2. QED
    BY <1>8, <2>1, AlternateFrame DEF ResetStates, engineVars, webVars
<1>9. CASE ResetRolledBack
  <2>1. EraOfStates' = EraOfStates
    BY <1>9 DEF ResetRolledBack, EraOfStates
  <2>2. QED
    BY <1>9, <2>1, AlternateFrame DEF ResetRolledBack, engineVars, webVars
<1>10. CASE SaveStates \/ SaveActivities
  <2>1. EraOfStates' = EraOfStates
    BY <1>10 DEF SaveStates, SaveActivities, EraOfStates, eraVars
  <2>2. QED
    BY <1>10, <2>1, AlternateFrame DEF SaveStates, SaveActivities, engineVars, webVars, eraVars
<1>11. CASE UNCHANGED <<journal, owner, states, hold, eraVars>>
  BY <1>11, AlternateFrame DEF EraOfStates, eraVars
<1>12. QED
  BY <1>1, <1>2, <1>3, <1>4, <1>5, <1>6, <1>7, <1>8, <1>9, <1>10, <1>11
  DEF Next, vars, Tick, Swipe, Poll, PollEmpty, SkipDuplicate, AppendFails, Notify,
      RemoveOldest, engineVars, storageVars, webVars

LEMMA AlternateInit == Init => AlternateInv /\ ErasBounded
<1> SUFFICES ASSUME Init PROVE AlternateInv /\ ErasBounded
  OBVIOUS
<1>1. DOMAIN journal = {}
  BY DEF Init
<1>2. OwnedUnread /\ \A u \in User : ~states[u].present
  BY DEF Init, OwnedUnread, Nobody, NeverRead
<1>3. QED
  BY <1>1, <1>2 DEF AlternateInv, RowsOfOwner, PresenceOfNewest, Alternate, ErasBounded

\* A user's arrivals and departures alternate and begin with an arrival, with any number of
\* cards and resets, while the server does not die and no card is bound; with several
\* controllers, while the query for an existing row does not fail either.
THEOREM AlternateAlways ==
    /\ "crash" \notin Faults /\ "bind" \notin Ops
    /\ OneController \/ "check" \notin Faults
    => (Spec => []Alternate)
<1> SUFFICES ASSUME "crash" \notin Faults, "bind" \notin Ops,
                    OneController \/ "check" \notin Faults
             PROVE  Spec => []Alternate
  OBVIOUS
<1> DEFINE AllInv == TypeInv /\ ErasBounded /\ (OneController => TimeInv) /\ AlternateInv
<1>1. Init => AllInv
  BY TypeInit, AlternateInit, TimeInit
<1>2. AllInv /\ [Next]_vars => AllInv'
  <2> SUFFICES ASSUME AllInv, [Next]_vars PROVE AllInv'
    OBVIOUS
  <2>1. TypeInv' /\ ErasBounded' /\ AlternateInv'
    BY TypeNext, ErasNext, AlternateNext
  <2>2. OneController => TimeInv'
    BY TimeNext
  <2>3. OneController' = OneController
    BY DEF OneController
  <2>4. QED
    BY <2>1, <2>2, <2>3
<1>3. AllInv => Alternate
  BY DEF AlternateInv
<1>4. QED
  BY <1>1, <1>2, <1>3, PTL DEF Spec

-----------------------------------------------------------------------------
\* The two pages.

LEMMA RowTimes ==
    ASSUME TypeOK
    PROVE  DOMAIN journal \subseteq Nat /\ \A i \in DOMAIN journal : TimeOf(i) \in Nat
<1>1. journal \in Seq(Row)
  BY DEF TypeOK, HistoryType
<1>2. \A i \in DOMAIN journal : i \in Nat /\ journal[i] \in Row
  BY <1>1, LenProperties
<1>3. QED
  BY <1>2, ConstantTypes DEF TimeOf, Row, Frame, Time

\* While rows are in the order of time, the report's last pass is the newest.
LEMMA LastPassNewest ==
    ASSUME TypeOK, RowsInOrder, NEW u \in User, PassesOf(u) # {}
    PROVE  Newest(u, LastPass(u))
<1>1. PassesOf(u) \subseteq DOMAIN journal
  BY DEF PassesOf
<1>2. PICK n \in Nat : DOMAIN journal = 1 .. n
  BY LenProperties DEF TypeOK, HistoryType
<1>3. PICK m \in PassesOf(u) : \A k \in PassesOf(u) : k <= m
  <2> DEFINE Left == {n - k : k \in PassesOf(u)}
  <2>1. Left \in SUBSET Nat /\ Left # {}
    BY <1>1, <1>2
  <2>2. PICK x \in Left : \A y \in Left : x <= y
    BY <2>1, LeastNumber
  <2>3. PICK m \in PassesOf(u) : x = n - m
    BY <2>2
  <2>4. ASSUME NEW k \in PassesOf(u) PROVE k <= m
    <3>1. x <= n - k
      BY <2>2
    <3>2. k \in Nat /\ m \in Nat
      BY <1>1, <1>2
    <3>3. QED
      BY <2>3, <3>1, <3>2
  <2>5. QED
    BY <2>4
<1>4. \A i, j \in PassesOf(u) : i < j => Before(i, j) /\ ~Before(j, i)
  <2> SUFFICES ASSUME NEW i \in PassesOf(u), NEW j \in PassesOf(u), i < j
               PROVE  Before(i, j) /\ ~Before(j, i)
    OBVIOUS
  <2>1. TimeOf(i) <= TimeOf(j) /\ TimeOf(i) \in Nat /\ TimeOf(j) \in Nat
    BY <1>1, RowTimes DEF RowsInOrder
  <2>2. i \in Nat /\ j \in Nat
    BY <1>1, <1>2
  <2>3. QED
    BY <2>1, <2>2 DEF Before
<1>5. \A k \in PassesOf(u) \ {m} : k < m
  BY <1>1, <1>2, <1>3
<1>6. \A k \in PassesOf(u) \ {m} : Before(k, m) /\ ~Before(m, k)
  BY <1>4, <1>5
<1>7. LastPass(u) \in PassesOf(u) /\ \A k \in PassesOf(u) \ {LastPass(u)} : Before(k, LastPass(u))
  BY <1>6 DEF LastPass
<1>8. LastPass(u) = m
  BY <1>6, <1>7
<1>9. QED
  BY <1>3, <1>8 DEF Newest

\* And its first arrival is not later than any other.
LEMMA FirstArrivalFirst ==
    ASSUME TypeOK, RowsInOrder, NEW u \in User,
           NEW h \in PassesOf(u), journal[h].type = "arrival"
    PROVE  TimeOf(FirstArrival(u)) \in Nat /\ TimeOf(FirstArrival(u)) <= TimeOf(h)
<1> DEFINE Arrivals == {i \in PassesOf(u) : journal[i].type = "arrival"}
<1>1. Arrivals \subseteq DOMAIN journal /\ DOMAIN journal \subseteq Nat /\ h \in Arrivals
  BY RowTimes DEF PassesOf
<1>2. Arrivals \in SUBSET Nat /\ Arrivals # {}
  BY <1>1
<1>3. PICK m \in Arrivals : \A k \in Arrivals : m <= k
  BY <1>2, LeastNumber
<1>4. \A k \in Arrivals : k # m => Before(m, k)
  <2> SUFFICES ASSUME NEW k \in Arrivals, k # m PROVE Before(m, k)
    OBVIOUS
  <2>1. m < k /\ k \in Nat /\ m \in Nat
    BY <1>1, <1>3
  <2>2. TimeOf(m) <= TimeOf(k) /\ TimeOf(m) \in Nat /\ TimeOf(k) \in Nat
    BY <1>1, <2>1, RowTimes DEF RowsInOrder
  <2>3. QED
    BY <2>1, <2>2 DEF Before
<1> DEFINE f == FirstArrival(u)
<1>5. /\ f \in PassesOf(u) /\ journal[f].type = "arrival"
      /\ \A j \in PassesOf(u) \ {f} : journal[j].type = "arrival" => Before(f, j)
  BY <1>3, <1>4 DEF FirstArrival
<1>6. f \in DOMAIN journal
  BY <1>5 DEF PassesOf
<1> HIDE DEF f
<1>7. TimeOf(f) \in Nat /\ TimeOf(h) \in Nat
  BY <1>1, <1>6, RowTimes
<1>8. f = h \/ Before(f, h)
  BY <1>5
<1>9. TimeOf(f) <= TimeOf(h)
  BY <1>7, <1>8 DEF Before
<1>10. QED
  BY <1>7, <1>9 DEF f

LEMMA PagesAgree ==
    ASSUME TypeInv, TimeInv, AlternateInv
    PROVE  ViewsAgree
<1> SUFFICES ASSUME hold # "reset", era \notin mixed, NEW u \in User
             PROVE  IF PassesOf(u) = {} \/ journal[LastPass(u)].era # era
                    THEN ~states[u].present
                    ELSE /\ states[u].present = DailyAttendance(u).present
                         /\ ~states[u].present =>
                              DailyAttendance(u).arrival < DailyAttendance(u).departure
  BY DEF ViewsAgree
<1> USE DEF TypeInv, TimeInv
<1>1. EraOfStates = era
  BY DEF EraOfStates
<1>2. states[u].present
        <=> \E i \in DOMAIN journal : Newest(u, i) /\ journal[i].era = era
                                                   /\ journal[i].type = "arrival"
  BY <1>1 DEF AlternateInv, PresenceOfNewest
<1>3. states[u].present \in BOOLEAN
  BY DEF TypeOK, EngineType, State
<1>4. CASE PassesOf(u) = {}
  BY <1>2, <1>4 DEF Newest
<1>5. CASE PassesOf(u) # {}
  <2>1. PICK m : m = LastPass(u)
    OBVIOUS
  <2>2. Newest(u, m)
    BY <1>5, <2>1, LastPassNewest
  <2>3. /\ m \in PassesOf(u) /\ m \in DOMAIN journal /\ m \in Nat
        /\ journal[m].user = u /\ journal[m].type \in Pass
    BY <2>2, RowTimes DEF Newest, PassesOf
  <2>4. \A i \in DOMAIN journal : Newest(u, i) => i = m
    BY <2>2, <2>3, RowTimes DEF Newest
  <2>5. states[u].present <=> journal[m].era = era /\ journal[m].type = "arrival"
    BY <1>2, <2>2, <2>3, <2>4
  <2>6. CASE journal[m].era # era
    BY <1>5, <2>1, <2>5, <2>6
  <2>7. CASE journal[m].era = era
    <3> DEFINE p == journal[m].type = "arrival"
    <3>1. DailyAttendance(u).present = p
      <4>1. DailyAttendance(u).present = (journal[LastPass(u)].type = "arrival")
        BY DEF DailyAttendance
      <4>2. QED
        BY <2>1, <4>1
    <3>2. states[u].present = p
      BY <1>3, <2>5, <2>7
    <3>3. ASSUME ~states[u].present
          PROVE  DailyAttendance(u).arrival < DailyAttendance(u).departure
      <4>1. journal[m].type = "departure"
        BY <2>3, <2>5, <2>7, <3>3 DEF Pass
      <4>2. PICK h \in 1 .. m - 1 : Consecutive(h, m)
        BY <2>3, <2>7, <4>1 DEF AlternateInv, Alternate
      <4>3. PICK n \in Nat : DOMAIN journal = 1 .. n
        BY LenProperties DEF TypeOK, HistoryType
      <4>4. h \in DOMAIN journal
        BY <2>3, <4>2, <4>3
      <4>5. journal[h].user = u /\ journal[h].type \in Pass /\ journal[h].era = era
        BY <2>3, <2>7, <4>2 DEF Consecutive
      <4>6. journal[h].type = "arrival"
        BY <2>3, <4>1, <4>2, <4>4, <4>5 DEF AlternateInv, Alternate, Pass
      <4>7. TimeOf(m) > TimeOf(h) + Repeat
        BY <2>3, <4>2, <4>4 DEF RepeatWindow
      <4>8. h \in PassesOf(u)
        BY <4>4, <4>5 DEF PassesOf
      <4>9. TimeOf(FirstArrival(u)) \in Nat /\ TimeOf(FirstArrival(u)) <= TimeOf(h)
        BY <4>6, <4>8, FirstArrivalFirst
      <4>10. TimeOf(h) \in Nat /\ TimeOf(m) \in Nat /\ Repeat \in Nat
        BY <2>3, <4>4, RowTimes, ConstantTypes
      <4>11. TimeOf(FirstArrival(u)) < TimeOf(m)
        BY <4>7, <4>9, <4>10
      <4>12. /\ DailyAttendance(u).arrival = TimeOf(FirstArrival(u))
             /\ DailyAttendance(u).departure = TimeOf(m)
        BY <2>1, <4>1 DEF DailyAttendance
      <4>13. QED
        BY <4>11, <4>12
    <3>4. states[u].present = DailyAttendance(u).present
      BY <3>1, <3>2
    <3>5. QED
      BY <1>5, <2>1, <2>7, <3>3, <3>4
  <2>8. QED
    BY <2>6, <2>7
<1>6. QED
  BY <1>4, <1>5

\* On one controller, while the server does not die and no card is bound, the list of those
\* present and the report of the day agree about every user.
THEOREM ViewsAgreeAlways ==
    OneController /\ "crash" \notin Faults /\ "bind" \notin Ops => (Spec => []ViewsAgree)
<1> SUFFICES ASSUME OneController, "crash" \notin Faults, "bind" \notin Ops
             PROVE  Spec => []ViewsAgree
  OBVIOUS
<1> DEFINE AllInv == TypeInv /\ TimeInv /\ AlternateInv
<1>1. Init => AllInv
  BY TypeInit, AlternateInit, TimeInit
<1>2. AllInv /\ [Next]_vars => AllInv'
  <2> SUFFICES ASSUME AllInv, [Next]_vars PROVE AllInv'
    OBVIOUS
  <2>1. ErasBounded
    BY DEF TimeInv
  <2>2. TypeInv' /\ TimeInv' /\ AlternateInv'
    BY <2>1, TypeNext, TimeNext, AlternateNext
  <2>3. QED
    BY <2>2
<1>3. AllInv => ViewsAgree
  BY PagesAgree
<1>4. QED
  BY <1>1, <1>2, <1>3, PTL DEF Spec
=============================================================================
