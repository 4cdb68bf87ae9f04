---------------------------- MODULE NotifierProofs ----------------------------
(***************************************************************************)
(* Proofs about Notifier, for any number of events, attempts, settings,    *)
(* sends of other threads and restarts: type correctness, and that the     *)
(* chat tells what happened in the order it happened.                      *)
(***************************************************************************)
EXTENDS Notifier, TLAPS, FiniteSetTheorems, SequenceTheorems

-----------------------------------------------------------------------------
\* The inductive invariant.

\* Events are queued in the order of their numbers, behind the one in hand.
QueueInOrder ==
    /\ \A i, j \in 1 .. Len(q) : i < j => q[i].no < q[j].no
    /\ \A i \in 1 .. Len(q) : q[i].no <= count
    /\ hand # None => hand.no <= count /\ \A i \in 1 .. Len(q) : hand.no < q[i].no

\* The chat is in order, and is about events before those in the queue and the one in
\* hand, which it may have too only once that is being sent.
ChatBehind ==
    /\ \A c, d \in 1 .. Len(chat) : c < d => chat[c].no <= chat[d].no
    /\ \A c \in 1 .. Len(chat) :
         /\ chat[c].no <= count
         /\ \A i \in 1 .. Len(q) : chat[c].no < q[i].no
         /\ hand # None => chat[c].no < hand.no \/ (at = "send" /\ chat[c] = hand)

Copies(e) == {c \in 1 .. Len(chat) : chat[c] = e}

\* An event is not in the chat more often than attempts were made to send it.
CopiesBounded ==
    /\ \A e \in Event : Cardinality(Copies(e)) <= Retries
    /\ hand # None => Cardinality(Copies(hand)) <= tries

\* What is sent was wanted, and news, when the thread looked at it.
OnlyNews ==
    /\ \A c \in 1 .. Len(chat) : chat[c].wanted /\ chat[c].no \notin stale
    /\ at \in {"age", "send"} => hand.wanted
    /\ at = "send" => hand.no \notin stale

Inv == TypeOK /\ QueueInOrder /\ ChatBehind /\ CopiesBounded /\ OnlyNews

-----------------------------------------------------------------------------
\* What the assumption on the constants gives the steps below.
LEMMA ConstantTypes ==
    /\ Retries \in Nat \ {0} /\ MaxEvents \in Nat /\ MaxSettings \in Nat
    /\ MaxOthers \in Nat /\ MaxRestarts \in Nat /\ None \notin Event
<1>1. {MaxEvents, MaxSettings, MaxOthers, MaxRestarts} \subseteq Nat
  BY NotifierAssumption
<1>2. MaxEvents \in Nat /\ MaxSettings \in Nat /\ MaxOthers \in Nat /\ MaxRestarts \in Nat
  BY <1>1
<1>3. QED
  BY NotifierAssumption, <1>2

\* The copies of an event in the chat are finitely many.
LEMMA CopiesFinite ==
    ASSUME TypeOK, NEW e
    PROVE  IsFiniteSet(Copies(e)) /\ Cardinality(Copies(e)) \in Nat
<1>1. IsFiniteSet(1 .. Len(chat))
  BY LenProperties, FS_Interval DEF TypeOK
<1>2. Copies(e) \subseteq 1 .. Len(chat)
  BY DEF Copies
<1>3. QED
  BY <1>1, <1>2, FS_Subset, FS_CardinalityType

\* A message that is delivered adds one copy of the event in hand, and none of another.
LEMMA CopiesGrow ==
    ASSUME TypeOK, NEW h \in Event, chat' = Append(chat, h), NEW e \in Event
    PROVE  /\ e # h => Copies(e)' = Copies(e)
           /\ Cardinality(Copies(h)') = Cardinality(Copies(h)) + 1
<1>1. /\ Len(chat) \in Nat /\ Len(chat') = Len(chat) + 1
      /\ \A c \in 1 .. Len(chat) : chat'[c] = chat[c]
      /\ chat'[Len(chat) + 1] = h
  BY AppendProperties, LenProperties DEF TypeOK
<1>2. e # h => Copies(e)' = Copies(e)
  BY <1>1 DEF Copies
<1>3. Copies(h)' = Copies(h) \union {Len(chat) + 1}
  BY <1>1 DEF Copies
<1>4. Len(chat) + 1 \notin Copies(h)
  BY <1>1 DEF Copies
<1>5. QED
  BY <1>2, <1>3, <1>4, CopiesFinite, FS_AddElement

-----------------------------------------------------------------------------
\* The server starts with nothing queued and an empty chat.
LEMMA InitInv == Init => Inv
<1> SUFFICES ASSUME Init PROVE Inv
  OBVIOUS
<1> USE ConstantTypes
<1>1. /\ <<>> \in Seq(Event) /\ Len(<<>>) = 0
  BY EmptySeq
<1>2. TypeOK
  <2>1. SettingType
    BY DEF Init, SettingType
  <2>2. ThreadType
    BY DEF Init, ThreadType
  <2>3. QED
    BY <1>1, <2>1, <2>2 DEF Init, TypeOK
<1>3. QueueInOrder /\ ChatBehind /\ OnlyNews
  BY <1>1 DEF Init, QueueInOrder, ChatBehind, OnlyNews
<1>4. CopiesBounded
  <2>1. \A e \in Event : Copies(e) = {}
    BY <1>1 DEF Init, Copies
  <2>2. QED
    BY <2>1, FS_EmptySet DEF Init, CopiesBounded
<1>5. QED
  BY <1>2, <1>3, <1>4 DEF Inv

\* Every step of the engine, the thread, the other senders and the server preserves the
\* invariant.
LEMMA InvNext == Inv /\ [Next]_vars => Inv'
<1> SUFFICES ASSUME Inv, [Next]_vars PROVE Inv'
  OBVIOUS
<1> USE ConstantTypes
<1>a. Len(q) \in Nat /\ Len(chat) \in Nat
  BY LenProperties DEF Inv, TypeOK
<1>b. /\ \A i \in 1 .. Len(q) : q[i] \in Event
      /\ \A c \in 1 .. Len(chat) : chat[c] \in Event
  BY ElementOfSeq DEF Inv, TypeOK
<1>1. CASE Enqueue
  <2> USE <1>1 DEF Enqueue, settingVars, threadVars
  <2>1. PICK e \in Event : e.no = count' /\ (q' = q \/ q' = Append(q, e))
    <3>1. count' \in 1 .. MaxEvents
      BY DEF Inv, TypeOK
    <3>2. PICK kind \in Kind, wanted \in BOOLEAN :
             q' = q \/ q' = Append(q, [no |-> count', kind |-> kind, wanted |-> wanted])
      OBVIOUS
    <3>3. [no |-> count', kind |-> kind, wanted |-> wanted] \in Event
      BY <3>1 DEF Event
    <3>4. QED
      BY <3>2, <3>3
  <2>2. TypeOK'
    <3>1. q' \in Seq(Event)
      BY <2>1, AppendProperties DEF Inv, TypeOK
    <3>2. SettingType' /\ ThreadType'
      BY DEF Inv, TypeOK, SettingType, ThreadType
    <3>3. QED
      BY <3>1, <3>2 DEF Inv, TypeOK
  <2>3. CopiesBounded' /\ OnlyNews'
    BY DEF Inv, CopiesBounded, OnlyNews, Copies
  <2>4. CASE q' = q
    <3>1. count \in Nat /\ count' = count + 1 /\ UNCHANGED <<chat, hand, at>>
      BY DEF Inv, TypeOK
    <3>2. /\ \A i \in 1 .. Len(q) : q[i].no \in Nat
          /\ \A c \in 1 .. Len(chat) : chat[c].no \in Nat
          /\ hand # None => hand.no \in Nat
      <4>1. \A e2 \in Event : e2.no \in Nat
        BY DEF Event
      <4>2. hand # None => hand \in Event
        BY DEF Inv, TypeOK, ThreadType
      <4>3. QED
        BY <1>b, <4>1, <4>2
    <3>3. QueueInOrder'
      BY <2>4, <3>1, <3>2 DEF Inv, QueueInOrder
    <3>4. ChatBehind'
      BY <2>4, <3>1, <3>2 DEF Inv, ChatBehind
    <3>5. QED
      BY <2>2, <2>3, <3>3, <3>4 DEF Inv
  <2>5. CASE q' = Append(q, e)
    <3>1. /\ Len(q') = Len(q) + 1 /\ \A i \in 1 .. Len(q) : q'[i] = q[i]
          /\ q'[Len(q) + 1] = e
      BY <2>5, AppendProperties DEF Inv, TypeOK
    <3>2. \A i \in 1 .. Len(q) : q[i].no < e.no
      BY <2>1, <1>b DEF Inv, TypeOK, QueueInOrder, Event
    <3>3. QueueInOrder'
      <4>1. \A i, j \in 1 .. Len(q') : i < j => q'[i].no < q'[j].no
        BY <1>a, <3>1, <3>2 DEF Inv, QueueInOrder
      <4>2. \A i \in 1 .. Len(q') : q'[i].no <= count'
        <5>1. count \in Nat /\ \A i \in 1 .. Len(q) : q[i].no \in Nat /\ q[i].no <= count
          BY <1>b DEF Inv, TypeOK, QueueInOrder, Event
        <5>2. QED
          BY <1>a, <2>1, <3>1, <5>1
      <4>3. hand # None => hand.no <= count' /\ \A i \in 1 .. Len(q') : hand.no < q'[i].no
        BY <1>a, <2>1, <3>1 DEF Inv, TypeOK, ThreadType, QueueInOrder, Event
      <4>4. QED
        BY <4>1, <4>2, <4>3 DEF QueueInOrder
    <3>4. ChatBehind'
      BY <1>a, <1>b, <2>1, <3>1 DEF Inv, TypeOK, ChatBehind, Event
    <3>5. QED
      BY <2>2, <2>3, <3>3, <3>4 DEF Inv
  <2>6. QED
    BY <2>1, <2>4, <2>5
<1>2. ASSUME NEW n \in 1 .. MaxEvents, GrowOld(n) PROVE Inv'
  <2>1. TypeOK'
    <3>1. SettingType' /\ ThreadType'
      BY <1>2 DEF GrowOld, settingVars, threadVars, Inv, TypeOK, SettingType, ThreadType
    <3>2. QED
      BY <1>2, <3>1 DEF GrowOld, settingVars, Inv, TypeOK
  <2>2. QED
    BY <1>2, <2>1 DEF GrowOld, settingVars, threadVars, Inv, QueueInOrder, ChatBehind,
       CopiesBounded, Copies, OnlyNews
<1>3. CASE ChangeSettings
  <2>1. TypeOK'
    <3>1. SettingType' /\ ThreadType'
      BY <1>3 DEF ChangeSettings, threadVars, Inv, TypeOK, SettingType, ThreadType
    <3>2. QED
      BY <1>3, <3>1 DEF ChangeSettings, Inv, TypeOK
  <2>2. QED
    BY <1>3, <2>1 DEF ChangeSettings, threadVars, Inv, QueueInOrder, ChatBehind,
       CopiesBounded, Copies, OnlyNews
<1>4. CASE Take
  <2> USE <1>4 DEF Take, settingVars
  <2>1. /\ Head(q) \in Event /\ Tail(q) \in Seq(Event) /\ Head(q) = q[1]
        /\ Len(q') = Len(q) - 1 /\ Len(q) > 0
        /\ \A i \in 1 .. Len(q') : q'[i] = q[i + 1]
    BY HeadTailProperties, EmptySeq, <1>a DEF Inv, TypeOK
  <2>2. TypeOK'
    <3>1. SettingType' /\ ThreadType'
      BY <2>1 DEF Inv, TypeOK, SettingType, ThreadType
    <3>2. QED
      BY <2>1, <3>1 DEF Inv, TypeOK
  <2>3. QueueInOrder'
    BY <1>a, <2>1 DEF Inv, QueueInOrder
  <2>4. ChatBehind'
    BY <1>a, <2>1 DEF Inv, ChatBehind
  <2>5. CopiesBounded'
    <3>1. Copies(hand') = {}
      BY <1>a, <1>b, <2>1 DEF Inv, ChatBehind, Copies, Event
    <3>2. Cardinality(Copies(hand')) <= tries
      <4>1. Cardinality({}) = 0 /\ tries \in Nat
        BY FS_EmptySet DEF Inv, TypeOK, ThreadType
      <4>2. Cardinality(Copies(hand')) = 0
        BY <3>1, <4>1
      <4>3. QED
        BY <4>1, <4>2
    <3>3. QED
      BY <3>2 DEF Inv, CopiesBounded, Copies
  <2>6. OnlyNews'
    BY DEF Inv, OnlyNews
  <2>7. QED
    BY <2>2, <2>3, <2>4, <2>5, <2>6 DEF Inv
<1>5. CASE Filter
  <2> USE <1>5 DEF Filter, Drop, settingVars
  <2>1. TypeOK'
    <3>1. SettingType' /\ ThreadType'
      BY DEF Inv, TypeOK, SettingType, ThreadType
    <3>2. QED
      BY <3>1 DEF Inv, TypeOK
  <2>2. QueueInOrder' /\ ChatBehind'
    BY DEF Inv, QueueInOrder, ChatBehind
  <2>3. CopiesBounded' /\ OnlyNews'
    BY DEF Inv, CopiesBounded, Copies, OnlyNews
  <2>4. QED
    BY <2>1, <2>2, <2>3 DEF Inv
<1>6. CASE CheckAge
  <2> USE <1>6 DEF CheckAge, Drop, settingVars
  <2>1. TypeOK'
    <3>1. SettingType' /\ ThreadType'
      BY DEF Inv, TypeOK, SettingType, ThreadType
    <3>2. QED
      BY <3>1 DEF Inv, TypeOK
  <2>2. QueueInOrder' /\ ChatBehind'
    BY DEF Inv, QueueInOrder, ChatBehind
  <2>3. CopiesBounded'
    BY DEF Inv, CopiesBounded, Copies
  <2>4. OnlyNews'
    BY <1>a, <1>b DEF Inv, TypeOK, ThreadType, ChatBehind, OnlyNews, Event
  <2>5. QED
    BY <2>1, <2>2, <2>3, <2>4 DEF Inv
<1>7. CASE Send
  <2> USE <1>7 DEF Send, Drop, settingVars
  <2>1. hand \in Event /\ hand # None
    BY DEF Inv, TypeOK, ThreadType
  <2>2. hand' = hand \/ hand' = None
    OBVIOUS
  <2>3. /\ at' \in {"take", "send"} /\ (hand' = hand => at' = "send" /\ tries' = tries + 1)
        /\ (hand' # None => hand' = hand)
    BY <2>1
  <2>4. TypeOK'
    <3>1. chat' \in Seq(Event)
      BY <2>1, AppendProperties DEF Inv, TypeOK
    <3>2. SettingType' /\ ThreadType'
      BY <2>1 DEF Inv, TypeOK, SettingType, ThreadType
    <3>3. QED
      BY <3>1, <3>2 DEF Inv, TypeOK
  <2>5. QueueInOrder'
    BY <2>3 DEF Inv, QueueInOrder
  <2>6. CASE chat' = chat
    <3>1. ChatBehind' /\ OnlyNews'
      BY <2>3, <2>6 DEF Inv, ChatBehind, OnlyNews
    <3>2. Cardinality(Copies(hand)) \in Nat /\ tries \in Nat
      BY CopiesFinite DEF Inv, TypeOK, ThreadType
    <3>3. CopiesBounded'
      <4>1. \A e \in Event : Copies(e)' = Copies(e)
        BY <2>6 DEF Copies
      <4>2. hand' # None => Cardinality(Copies(hand)') <= tries'
        <5>1. hand' # None => Copies(hand)' = Copies(hand)
          BY <2>3, <2>6 DEF Copies
        <5>2. QED
          BY <2>1, <2>3, <3>2, <5>1 DEF Inv, CopiesBounded
      <4>3. QED
        BY <4>1, <4>2 DEF Inv, CopiesBounded
    <3>4. QED
      BY <2>4, <2>5, <3>1, <3>3 DEF Inv
  <2>7. CASE chat' = Append(chat, hand)
    <3>1. /\ Len(chat') = Len(chat) + 1 /\ chat'[Len(chat) + 1] = hand
          /\ \A c \in 1 .. Len(chat) : chat'[c] = chat[c]
      BY <2>1, <2>7, AppendProperties DEF Inv, TypeOK
    <3>2. \A c \in 1 .. Len(chat) : chat[c].no <= hand.no
      BY <1>b, <2>1 DEF Inv, ChatBehind, Event
    <3>3. ChatBehind'
      BY <1>a, <2>1, <2>3, <3>1, <3>2 DEF Inv, QueueInOrder, ChatBehind
    <3>4. OnlyNews'
      BY <1>a, <2>1, <2>3, <3>1 DEF Inv, OnlyNews
    <3>5. CopiesBounded'
      <4>1. PICK h \in Event : h = hand
        BY <2>1
      <4>2. Cardinality(Copies(h)') = Cardinality(Copies(h)) + 1
        BY <2>7, <4>1, CopiesGrow DEF Inv
      <4>3. Cardinality(Copies(h)) \in Nat /\ Cardinality(Copies(h)) <= tries
        BY <2>1, <4>1, CopiesFinite DEF Inv, CopiesBounded
      <4>4. tries + 1 <= Retries /\ tries \in Nat
        BY DEF Inv, TypeOK, ThreadType
      <4>5. ASSUME NEW e \in Event PROVE Cardinality(Copies(e)') <= Retries
        <5>1. CASE e = h
          BY <4>2, <4>3, <4>4, <5>1
        <5>2. CASE e # h
          BY <2>7, <4>1, <5>2, CopiesGrow DEF Inv, CopiesBounded
        <5>3. QED
          BY <5>1, <5>2
      <4>6. hand' # None => Cardinality(Copies(hand)') <= tries'
        <5>1. hand' # None => Copies(hand)' = Copies(h)'
          BY <2>3, <4>1 DEF Copies
        <5>2. QED
          BY <2>3, <4>2, <4>3, <4>4, <5>1, <4>1
      <4>7. QED
        BY <4>5, <4>6 DEF CopiesBounded
    <3>6. QED
      BY <2>4, <2>5, <3>3, <3>4, <3>5 DEF Inv
  <2>8. QED
    BY <2>6, <2>7
<1>8. CASE BeginOther \/ EndOther \/ Start \/ UNCHANGED vars
  <2>1. UNCHANGED <<q, hand, at, tries, old, chat, stale, count, settings>>
    BY <1>8 DEF BeginOther, EndOther, Start, vars, settingVars, threadVars
  <2>2. SettingType' /\ ThreadType'
    BY <1>8 DEF BeginOther, EndOther, Start, vars, settingVars, threadVars, Inv, TypeOK,
       SettingType, ThreadType
  <2>3. TypeOK'
    BY <1>8, <2>1, <2>2 DEF BeginOther, EndOther, Start, vars, Inv, TypeOK
  <2>4. QED
    BY <2>1, <2>3 DEF Inv, QueueInOrder, ChatBehind, CopiesBounded, Copies, OnlyNews
<1>9. CASE Stop
  <2> USE <1>9 DEF Stop, settingVars
  <2>1. <<>> \in Seq(Event) /\ Len(<<>>) = 0
    BY EmptySeq
  <2>2. TypeOK'
    <3>1. SettingType'
      BY DEF Inv, TypeOK, SettingType
    <3>2. ThreadType'
      BY DEF ThreadType
    <3>3. QED
      BY <2>1, <3>1, <3>2 DEF Inv, TypeOK
  <2>3. QueueInOrder' /\ ChatBehind' /\ OnlyNews'
    BY <2>1 DEF Inv, QueueInOrder, ChatBehind, OnlyNews
  <2>4. CopiesBounded'
    BY DEF Inv, CopiesBounded, Copies
  <2>5. QED
    BY <2>2, <2>3, <2>4 DEF Inv
<1>10. QED
  BY <1>1, <1>2, <1>3, <1>4, <1>5, <1>6, <1>7, <1>8, <1>9 DEF Next, Thread

\* The invariant holds in every reachable state.
LEMMA Invariance == Spec => []Inv
BY InitInv, InvNext, PTL DEF Spec

\* Whatever is queued, dropped, sent and restarted, every variable keeps its type, and the
\* thread has an event in hand exactly while it deals with it.
THEOREM TypeCorrect == Spec => []TypeOK
<1>1. Inv => TypeOK
  BY DEF Inv
<1>2. QED
  BY <1>1, Invariance, PTL

\* No notification overtakes another, none is repeated more often than it may be attempted,
\* and none is about an event that was old or unwanted when the thread looked at it, for
\* any number of attempts, lost answers and restarts.
THEOREM ChatInOrderAlways == Spec => []ChatInOrder
<1>1. Inv => ChatInOrder
  <2> SUFFICES ASSUME Inv PROVE ChatInOrder
    OBVIOUS
  <2>1. \A c \in 1 .. Len(chat) : chat[c] \in Event
    BY ElementOfSeq DEF Inv, TypeOK
  <2>2. QED
    BY <2>1 DEF Inv, ChatInOrder, ChatBehind, CopiesBounded, OnlyNews, Copies
<1>2. QED
  BY <1>1, Invariance, PTL
=============================================================================
