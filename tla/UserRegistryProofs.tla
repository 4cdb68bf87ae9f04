------------------------- MODULE UserRegistryProofs -------------------------
(***************************************************************************)
(* Proofs about UserRegistry: type correctness; that a card has one owner  *)
(* in memory and in storage, and passes from one user to another only by a *)
(* request that names it or as CardsPassByName says; that the tables hold  *)
(* the registry once all requests have ended and no save is to be made up  *)
(* for; and that the list then has every department a user is in: for any  *)
(* number of threads, users, cards, departments, requests, failures and    *)
(* restarts.                                                               *)
(***************************************************************************)
EXTENDS UserRegistry, TLAPS, SequenceTheorems, WellFoundedInduction

-----------------------------------------------------------------------------
\* Numbers.

LEMMA ConstantTypes ==
  /\ NoDept \notin Dept /\ NoCopy \notin UserRow /\ Requests \subseteq Request
  /\ InitUsers \in Seq(UserRow) /\ LegacyUsers \in Seq(UserRow)
  /\ InitDepts \in SUBSET Dept /\ LegacyDepts \in SUBSET Dept
  /\ OneOwnerEach(InitUsers)
  /\ MaxRequests \in Nat /\ MaxFaults \in Nat /\ MaxCrashes \in Nat
<1>1. /\ {MaxRequests, MaxFaults, MaxCrashes} \subseteq Nat
      /\ {InitUsers, LegacyUsers} \subseteq Seq(UserRow)
      /\ {InitDepts, LegacyDepts} \subseteq SUBSET Dept
  BY RegistryAssumption
<1>2. /\ MaxRequests \in Nat /\ MaxFaults \in Nat /\ MaxCrashes \in Nat
      /\ InitUsers \in Seq(UserRow) /\ LegacyUsers \in Seq(UserRow)
      /\ InitDepts \in SUBSET Dept /\ LegacyDepts \in SUBSET Dept
  BY <1>1
<1>3. QED
  BY <1>2, RegistryAssumption

\* Every set of natural numbers that is not empty has a least one.
LEMMA LeastNumber ==
  ASSUME NEW S \in SUBSET Nat, S # {}
  PROVE  \E m \in S : \A k \in S : m <= k
<1> DEFINE Less == OpToRel(<, Nat)
<1>1. IsWellFoundedOn(Less, Nat)
  BY NatLessThanWellFounded
<1>2. \A x, y \in Nat : x < y => <<x, y>> \in Less
  BY DEF OpToRel
<1> HIDE DEF Less
<1>3. PICK m \in S : \A k \in S : <<k, m>> \notin Less
  BY <1>1, WFMin
<1>4. \A k \in S : ~(k < m)
  BY <1>2, <1>3
<1>5. QED
  BY <1>4

LEMMA MinOf ==
  ASSUME NEW S \in SUBSET Nat, S # {}
  PROVE  Min(S) \in S /\ \A k \in S : Min(S) <= k
BY LeastNumber DEF Min

LEMMA MaxOf ==
  ASSUME NEW S \in SUBSET Nat, S # {}, NEW b \in Nat, \A k \in S : k <= b
  PROVE  Max(S) \in S /\ \A k \in S : k <= Max(S)
<1> DEFINE Bounds == {n \in Nat : \A k \in S : k <= n}
<1>1. b \in Bounds /\ Bounds \in SUBSET Nat
  OBVIOUS
<1>2. PICK m \in Bounds : \A n \in Bounds : m <= n
  BY <1>1, LeastNumber
<1>3. m \in Nat /\ \A k \in S : k \in Nat /\ k <= m
  BY <1>2
<1>4. m \in S
  <2>1. SUFFICES ASSUME m \notin S PROVE FALSE
    OBVIOUS
  <2>2. PICK k \in S : TRUE
    OBVIOUS
  <2>3. \A x \in S : x # m
    BY <2>1
  <2>4. m # 0 /\ \A x \in S : x <= m - 1
    BY <1>3, <2>2, <2>3
  <2>5. m - 1 \in Bounds /\ ~(m <= m - 1)
    BY <1>3, <2>4
  <2>6. QED
    BY <1>2, <2>5
<1>5. QED
  BY <1>1, <1>3, <1>4 DEF Max

\* The greatest of a set of integers with 0 and a bound.
LEMMA MaxOfInts ==
  ASSUME NEW S \in SUBSET Int, 0 \in S, NEW b \in Nat, \A k \in S : k <= b
  PROVE  Max(S) \in S /\ \A k \in S : k <= Max(S)
<1> DEFINE N == {k \in S : 0 <= k}
<1>1. N \in SUBSET Nat /\ N # {} /\ \A k \in N : k <= b
  <2>1. \A k \in Int : 0 <= k => k \in Nat
    OBVIOUS
  <2>2. 0 \in N
    OBVIOUS
  <2>3. \A k \in N : k \in Int /\ 0 <= k /\ k <= b
    OBVIOUS
  <2>4. QED
    BY <2>1, <2>2, <2>3
<1>2. PICK m \in N : \A k \in N : k <= m
  BY <1>1, MaxOf
<1>3. m \in S /\ \A k \in S : k <= m
  BY <1>2
<1>4. QED
  BY <1>3 DEF Max

LEMMA SumOf == \A x, y \in Nat : x + y \in Nat
OBVIOUS

LEMMA BelowSum ==
  \A x, y \in Nat : \A k \in Int : k <= x \/ k <= y => k <= x + y
OBVIOUS

LEMMA NatAbove ==
  ASSUME NEW k \in Int
  PROVE  \E n \in Nat : k <= n
<1>1. CASE 0 <= k
  <2>1. k \in Nat /\ k <= k
    BY <1>1
  <2>2. QED
    BY <2>1
<1>2. CASE ~(0 <= k)
  <2>1. 0 \in Nat /\ k <= 0
    BY <1>2
  <2>2. QED
    BY <2>1
<1>3. QED
  BY <1>1, <1>2

\* A registry has a greatest id, so the next one is new.
LEMMA IdsBounded ==
  ASSUME NEW us \in Seq(UserRow)
  PROVE  \E b \in Nat : \A i \in DOMAIN us : us[i].id <= b
<1> DEFINE Bounded(n) == \E b \in Nat : \A i \in 1 .. n : us[i].id <= b
           Bad == {n \in 0 .. Len(us) : ~Bounded(n)}
<1>1. /\ Len(us) \in Nat /\ DOMAIN us = 1 .. Len(us)
      /\ \A i \in 1 .. Len(us) : us[i].id \in Int
  <2>1. \A r \in UserRow : r.id \in Int
    BY DEF UserRow
  <2>2. /\ Len(us) \in Nat /\ DOMAIN us = 1 .. Len(us)
        /\ \A i \in 1 .. Len(us) : us[i] \in UserRow
    BY LenProperties
  <2>3. QED
    BY <2>1, <2>2
<1>2. CASE Bad = {}
  <2>1. Len(us) \in 0 .. Len(us)
    BY <1>1
  <2>2. Bounded(Len(us))
    BY <1>2, <2>1
  <2>3. QED
    BY <1>1, <2>2
<1>3. SUFFICES ASSUME Bad # {} PROVE FALSE
  BY <1>2
<1>4. Bad \in SUBSET Nat
  BY <1>1
<1>5. PICK m \in Bad : \A n \in Bad : m <= n
  BY <1>3, <1>4, LeastNumber
<1>6. m \in 1 .. Len(us)
  <2>1. Bounded(0)
    OBVIOUS
  <2>2. QED
    BY <1>1, <1>5, <2>1
<1>7. Bounded(m - 1)
  <2>1. m - 1 \in 0 .. Len(us) /\ ~(m <= m - 1)
    BY <1>1, <1>6
  <2>2. QED
    BY <1>5, <2>1
<1>8. PICK b \in Nat : \A i \in 1 .. m - 1 : us[i].id <= b
  BY <1>7
<1>9. PICK x \in Nat : us[m].id <= x
  BY <1>1, <1>6, NatAbove
<1>10. \A i \in 1 .. m : us[i].id <= b + x
  <2>1. \A i \in 1 .. m : i \in 1 .. m - 1 \/ i = m
    BY <1>1, <1>6
  <2>2. us[m].id \in Int /\ \A i \in 1 .. m - 1 : us[i].id \in Int
    BY <1>1, <1>6
  <2>3. QED
    BY <1>8, <1>9, <2>1, <2>2, BelowSum
<1>11. Bounded(m)
  BY <1>8, <1>9, <1>10, SumOf, Zenon
<1>12. QED
  BY <1>5, <1>11

LEMMA NextIdNew ==
  ASSUME NEW us \in Seq(UserRow)
  PROVE  NextId(us) \in Int /\ NextId(us) > 0 /\ NextId(us) \notin IdsOf(us)
<1> DEFINE S == IdsOf(us) \union {0}
<1>1. S \in SUBSET Int /\ 0 \in S
  <2>1. \A r \in UserRow : r.id \in Int
    BY DEF UserRow
  <2>2. \A i \in DOMAIN us : us[i] \in UserRow
    BY LenProperties
  <2>3. QED
    BY <2>1, <2>2 DEF IdsOf
<1>2. PICK b \in Nat : \A i \in DOMAIN us : us[i].id <= b
  BY IdsBounded
<1>3. \A k \in S : k <= b
  BY <1>2 DEF IdsOf
<1>4. Max(S) \in S /\ \A k \in S : k <= Max(S)
  BY <1>1, <1>3, MaxOfInts
<1>5. Max(S) \in Int /\ 0 <= Max(S)
  BY <1>1, <1>4
<1>6. \A m \in Int : 0 <= m => m + 1 \in Int /\ m + 1 > 0 /\ ~(m + 1 <= m)
  OBVIOUS
<1>7. NextId(us) = Max(S) + 1
  BY DEF NextId
<1> HIDE DEF S
<1>8. NextId(us) \in Int /\ NextId(us) > 0 /\ NextId(us) \notin S
  BY <1>4, <1>5, <1>6, <1>7
<1>9. QED
  BY <1>8 DEF S

-----------------------------------------------------------------------------
\* Rows and registries.

LEMMA RowFields ==
  ASSUME NEW us \in Seq(UserRow)
  PROVE  /\ Len(us) \in Nat /\ DOMAIN us = 1 .. Len(us)
         /\ us \in [1 .. Len(us) -> UserRow]
         /\ \A i \in DOMAIN us :
              /\ us[i] \in UserRow
              /\ us[i].id \in Int /\ us[i].cards \in SUBSET Card
              /\ us[i].dept \in Dept \union {NoDept}
<1>1. /\ Len(us) \in Nat /\ DOMAIN us = 1 .. Len(us)
      /\ us \in [1 .. Len(us) -> UserRow]
  BY LenProperties
<1>2. \A r \in UserRow :
        /\ r.id \in Int /\ r.cards \in SUBSET Card /\ r.dept \in Dept \union {NoDept}
  BY DEF UserRow
<1>3. QED
  BY <1>1, <1>2

LEMMA RowWith ==
  ASSUME NEW r \in UserRow, NEW cs \in SUBSET Card
  PROVE  /\ [r EXCEPT !.cards = cs] \in UserRow
         /\ [r EXCEPT !.cards = cs].id = r.id /\ [r EXCEPT !.cards = cs].cards = cs
         /\ [r EXCEPT !.cards = cs].dept = r.dept
BY DEF UserRow

LEMMA RowIn ==
  ASSUME NEW r \in UserRow, NEW d \in Dept \union {NoDept}
  PROVE  /\ [r EXCEPT !.dept = d] \in UserRow
         /\ [r EXCEPT !.dept = d].id = r.id /\ [r EXCEPT !.dept = d].cards = r.cards
BY DEF UserRow

\* A function on the rows of a registry with rows as values is a registry.
LEMMA RowsAgain ==
  ASSUME NEW us \in Seq(UserRow), NEW f, f \in [DOMAIN us -> UserRow]
  PROVE  f \in Seq(UserRow) /\ Len(f) = Len(us) /\ DOMAIN f = DOMAIN us
<1>1. Len(us) \in Nat /\ DOMAIN us = 1 .. Len(us)
  BY RowFields
<1>2. QED
  BY <1>1

\* The first row with an id, if there is one.
LEMMA FirstRow ==
  ASSUME NEW us \in Seq(UserRow), NEW id \in IdsOf(us)
  PROVE  /\ {k \in 1 .. Len(us) : us[k].id = id} # {}
         /\ Min({k \in 1 .. Len(us) : us[k].id = id}) \in DOMAIN us
         /\ us[Min({k \in 1 .. Len(us) : us[k].id = id})].id = id
<1> DEFINE I == {k \in 1 .. Len(us) : us[k].id = id}
<1>1. Len(us) \in Nat /\ DOMAIN us = 1 .. Len(us)
  BY RowFields
<1>2. I # {} /\ I \in SUBSET Nat
  BY <1>1 DEF IdsOf
<1>3. Min(I) \in I
  BY <1>2, MinOf
<1>4. QED
  BY <1>1, <1>2, <1>3

\* What is left of a registry when cards are taken from all users but one.
LEMMA DetachEffect ==
  ASSUME NEW us \in Seq(UserRow), NEW id \in Int, NEW cs \in SUBSET Card,
         NEW ds, ds = Detach(us, id, cs)
  PROVE  /\ ds \in Seq(UserRow) /\ Len(ds) = Len(us) /\ DOMAIN ds = DOMAIN us
         /\ \A i \in DOMAIN us :
              /\ ds[i] \in UserRow /\ ds[i].id = us[i].id /\ ds[i].dept = us[i].dept
              /\ us[i].id = id => ds[i].cards = us[i].cards
              /\ us[i].id # id => ds[i].cards = us[i].cards \ cs
         /\ IdsOf(ds) = IdsOf(us)
<1>1. ds = [i \in DOMAIN us |-> IF us[i].id = id THEN us[i]
                                ELSE [us[i] EXCEPT !.cards = us[i].cards \ cs]]
  BY DEF Detach
<1>2. \A i \in DOMAIN us : us[i] \in UserRow /\ us[i].cards \ cs \in SUBSET Card
  BY RowFields
<1>3. \A i \in DOMAIN us :
        /\ ds[i] \in UserRow /\ ds[i].id = us[i].id /\ ds[i].dept = us[i].dept
        /\ us[i].id = id => ds[i].cards = us[i].cards
        /\ us[i].id # id => ds[i].cards = us[i].cards \ cs
  <2>1. TAKE i \in DOMAIN us
  <2>2. /\ us[i].cards \ cs \in SUBSET Card /\ us[i] \in UserRow
        /\ us[i].dept \in Dept \union {NoDept}
    BY <1>2, RowFields
  <2>3. CASE us[i].id = id
    BY <1>1, <2>2, <2>3
  <2>4. CASE us[i].id # id
    <3>1. ds[i] = [us[i] EXCEPT !.cards = us[i].cards \ cs]
      BY <1>1, <2>4
    <3>2. PICK r \in UserRow : r = us[i]
      BY <2>2
    <3>3. PICK d \in SUBSET Card : d = us[i].cards \ cs
      BY <2>2
    <3>4. ds[i] = [r EXCEPT !.cards = d]
      BY <3>1, <3>2, <3>3
    <3>5. ds[i] \in UserRow /\ ds[i].id = r.id /\ ds[i].dept = r.dept /\ ds[i].cards = d
      BY <3>4 DEF UserRow
    <3>6. QED
      BY <2>4, <3>2, <3>3, <3>5
  <2>5. QED
    BY <2>3, <2>4
<1>4. ds \in [DOMAIN us -> UserRow]
  BY <1>1, <1>3
<1>5. ds \in Seq(UserRow) /\ Len(ds) = Len(us) /\ DOMAIN ds = DOMAIN us
  BY <1>4, RowsAgain
<1>6. IdsOf(ds) = IdsOf(us)
  BY <1>3, <1>5 DEF IdsOf
<1>7. QED
  BY <1>3, <1>5, <1>6

\* A row is replaced, or added at the end.
LEMMA PutEffect ==
  ASSUME NEW us \in Seq(UserRow), NEW u \in UserRow
  PROVE  \/ u.id \notin IdsOf(us) /\ Put(us, u) = Append(us, u)
         \/ \E k \in DOMAIN us : us[k].id = u.id /\ Put(us, u) = [us EXCEPT ![k] = u]
<1>1. CASE u.id \notin IdsOf(us)
  BY <1>1 DEF Put
<1>2. CASE u.id \in IdsOf(us)
  <2> DEFINE k == Min({j \in 1 .. Len(us) : us[j].id = u.id})
  <2>1. Put(us, u) = [us EXCEPT ![SelectInSeq(us, LAMBDA x : x.id = u.id)] = u]
    BY <1>2 DEF Put
  <2>2. SelectInSeq(us, LAMBDA x : x.id = u.id) = k
    BY <1>2, FirstRow DEF SelectInSeq
  <2>3. k \in DOMAIN us /\ us[k].id = u.id
    BY <1>2, FirstRow
  <2>4. QED
    BY <2>1, <2>2, <2>3
<1>3. QED
  BY <1>1, <1>2

LEMMA PutType ==
  ASSUME NEW us \in Seq(UserRow), NEW u \in UserRow
  PROVE  /\ Put(us, u) \in Seq(UserRow)
         /\ \A i \in DOMAIN Put(us, u) :
              \/ Put(us, u)[i] = u
              \/ i \in DOMAIN us /\ Put(us, u)[i] = us[i]
<1>1. CASE Put(us, u) = Append(us, u)
  BY <1>1, RowFields, AppendProperties
<1>2. CASE \E k \in DOMAIN us : Put(us, u) = [us EXCEPT ![k] = u]
  <2>1. PICK k \in DOMAIN us : Put(us, u) = [us EXCEPT ![k] = u]
    BY <1>2
  <2>2. k \in 1 .. Len(us) /\ DOMAIN us = 1 .. Len(us)
    BY RowFields
  <2>3. /\ [us EXCEPT ![k] = u] \in Seq(UserRow)
        /\ Len([us EXCEPT ![k] = u]) = Len(us)
        /\ \A j \in 1 .. Len(us) : [us EXCEPT ![k] = u][j] = IF j = k THEN u ELSE us[j]
    BY <2>2, ExceptSeq
  <2>4. DOMAIN Put(us, u) = DOMAIN us
    BY <2>1, <2>2, <2>3
  <2>5. QED
    BY <2>1, <2>2, <2>3, <2>4
<1>3. QED
  BY <1>1, <1>2, PutEffect

LEMMA PutOneOwner ==
  ASSUME NEW us \in Seq(UserRow), NEW u \in UserRow, OneOwnerEach(us),
         \A i \in DOMAIN us : us[i].id # u.id => us[i].cards \intersect u.cards = {}
  PROVE  OneOwnerEach(Put(us, u))
<1> DEFINE vs == Put(us, u)
<1>0. Len(us) \in Nat /\ DOMAIN us = 1 .. Len(us)
  BY RowFields
<1>1. SUFFICES ASSUME NEW i \in DOMAIN vs, NEW j \in DOMAIN vs, i # j
               PROVE  vs[i].id # vs[j].id /\ vs[i].cards \intersect vs[j].cards = {}
  BY DEF OneOwnerEach
<1>2. CASE u.id \notin IdsOf(us) /\ vs = Append(us, u)
  <2>1. /\ DOMAIN vs = 1 .. Len(us) + 1
        /\ \A k \in 1 .. Len(us) : vs[k] = us[k]
        /\ vs[Len(us) + 1] = u
    <3>1. /\ Append(us, u) \in Seq(UserRow) /\ Len(Append(us, u)) = Len(us) + 1
          /\ \A k \in 1 .. Len(us) : Append(us, u)[k] = us[k]
          /\ Append(us, u)[Len(us) + 1] = u
      BY AppendProperties
    <3>2. QED
      BY <1>2, <3>1, LenProperties
  <2>2. \A k \in 1 .. Len(us) : us[k].id # u.id
    BY <1>0, <1>2 DEF IdsOf
  <2>3. \A k \in 1 .. Len(us) + 1 : k \in 1 .. Len(us) \/ k = Len(us) + 1
    BY <1>0
  <2>4. CASE i \in 1 .. Len(us) /\ j \in 1 .. Len(us)
    BY <1>0, <1>1, <2>1, <2>4 DEF OneOwnerEach
  <2>5. CASE i \in 1 .. Len(us) /\ j = Len(us) + 1
    BY <1>0, <2>1, <2>2, <2>5
  <2>6. CASE j \in 1 .. Len(us) /\ i = Len(us) + 1
    BY <1>0, <2>1, <2>2, <2>6
  <2> HIDE DEF vs
  <2>7. QED
    BY <1>1, <2>1, <2>3, <2>4, <2>5, <2>6
<1>3. CASE \E k \in DOMAIN us : us[k].id = u.id /\ vs = [us EXCEPT ![k] = u]
  <2>1. PICK k \in DOMAIN us : us[k].id = u.id /\ vs = [us EXCEPT ![k] = u]
    BY <1>3
  <2>2. us \in [DOMAIN us -> UserRow]
    BY RowFields
  <2>3. DOMAIN vs = DOMAIN us /\ vs[k] = u /\ \A l \in DOMAIN us : l # k => vs[l] = us[l]
    BY <2>1, <2>2
  <2>4. \A l \in DOMAIN us : l # k => us[l].id # u.id /\ us[l].cards \intersect u.cards = {}
    BY <2>1 DEF OneOwnerEach
  <2> HIDE DEF vs
  <2>5. CASE i # k /\ j # k
    BY <1>1, <2>3, <2>5 DEF OneOwnerEach
  <2>6. CASE i = k
    BY <1>1, <2>3, <2>4, <2>6
  <2>7. CASE j = k
    BY <1>1, <2>3, <2>4, <2>7
  <2>8. QED
    BY <2>5, <2>6, <2>7
<1>4. QED
  BY <1>2, <1>3, PutEffect

\* upsert(): the user gets an id if he has none, and takes his cards from their owners.
LEMMA UpsertedEffect ==
  ASSUME NEW us \in Seq(UserRow), NEW u \in UserRow
  PROVE  /\ Upserted(us, u) \in Seq(UserRow)
         /\ OneOwnerEach(us) => OneOwnerEach(Upserted(us, u))
         /\ \A c, y : y \in Owners(Upserted(us, u), c) /\ y \notin Owners(us, c)
              => c \in u.cards /\ (u.id > 0 => y = u.id)
<1> DEFINE v == WithId(us, u)
           ds == Detach(us, v.id, v.cards)
<1>1. v \in UserRow /\ v.cards = u.cards /\ (u.id > 0 => v.id = u.id)
  <2>1. NextId(us) \in Int /\ NextId(us) > 0
    BY NextIdNew
  <2>2. QED
    BY <2>1 DEF WithId, UserRow
<1>2. Upserted(us, u) = Put(ds, v)
  BY DEF Upserted
<1> HIDE DEF v
<1>8. PICK id \in Int, cs \in SUBSET Card : id = v.id /\ cs = v.cards
  BY <1>1 DEF UserRow
<1>9. ds = Detach(us, id, cs)
  BY <1>8
<1> HIDE DEF ds
<1>3. /\ ds \in Seq(UserRow) /\ DOMAIN ds = DOMAIN us
      /\ \A i \in DOMAIN us :
           /\ ds[i].id = us[i].id
           /\ us[i].id = v.id => ds[i].cards = us[i].cards
           /\ us[i].id # v.id => ds[i].cards = us[i].cards \ v.cards
  <2>1. /\ ds \in Seq(UserRow) /\ DOMAIN ds = DOMAIN us
        /\ \A i \in DOMAIN us :
             /\ ds[i] \in UserRow /\ ds[i].id = us[i].id /\ ds[i].dept = us[i].dept
             /\ us[i].id = id => ds[i].cards = us[i].cards
             /\ us[i].id # id => ds[i].cards = us[i].cards \ cs
    BY <1>9, DetachEffect
  <2>2. QED
    BY <1>8, <2>1
<1>4. Put(ds, v) \in Seq(UserRow)
  BY <1>1, <1>3, PutType
<1>5. ASSUME OneOwnerEach(us) PROVE OneOwnerEach(Put(ds, v))
  <2>1. \A i \in DOMAIN us : ds[i].cards \subseteq us[i].cards
    BY <1>3
  <2>2. OneOwnerEach(ds)
    BY <1>3, <1>5, <2>1 DEF OneOwnerEach
  <2>3. \A i \in DOMAIN ds : ds[i].id # v.id => ds[i].cards \intersect v.cards = {}
    BY <1>3
  <2>4. QED
    BY <1>1, <1>3, <2>2, <2>3, PutOneOwner
<1>6. ASSUME NEW c, NEW y, y \in Owners(Put(ds, v), c), y \notin Owners(us, c)
      PROVE  c \in u.cards /\ (u.id > 0 => y = u.id)
  <2>1. PICK i \in DOMAIN Put(ds, v) : Put(ds, v)[i].id = y /\ c \in Put(ds, v)[i].cards
    BY <1>6 DEF Owners
  <2>2. ~(i \in DOMAIN ds /\ Put(ds, v)[i] = ds[i])
    <3>1. SUFFICES ASSUME i \in DOMAIN ds, Put(ds, v)[i] = ds[i] PROVE FALSE
      OBVIOUS
    <3>2. us[i].id = y /\ c \in us[i].cards /\ i \in DOMAIN us
      BY <1>3, <2>1, <3>1
    <3>3. QED
      BY <1>6, <3>2 DEF Owners
  <2>3. Put(ds, v)[i] = v
    BY <1>1, <1>3, <2>1, <2>2, PutType
  <2>4. QED
    BY <1>1, <2>1, <2>3
<1>7. QED
  BY <1>2, <1>4, <1>5, <1>6

\* assignCard(): the card leaves every other user and is the user's.
LEMMA AssignedEffect ==
  ASSUME NEW us \in Seq(UserRow), NEW id \in IdsOf(us), NEW c \in Card,
         NEW vs, vs = Assigned(us, id, c)
  PROVE  /\ vs \in Seq(UserRow)
         /\ OneOwnerEach(us) => OneOwnerEach(vs)
         /\ \A d, y : y \in Owners(vs, d) /\ y \notin Owners(us, d) => d = c
         /\ DOMAIN vs = DOMAIN us /\ \A k \in DOMAIN us : vs[k].dept = us[k].dept
<1> DEFINE i == Min({k \in 1 .. Len(us) : us[k].id = id})
<1>1. PICK ds : ds = Detach(us, id, {c})
  OBVIOUS
<1>2. id \in Int
  BY RowFields DEF IdsOf
<1>3. /\ ds \in Seq(UserRow) /\ Len(ds) = Len(us) /\ DOMAIN ds = DOMAIN us
      /\ \A k \in DOMAIN us :
           /\ ds[k] \in UserRow /\ ds[k].id = us[k].id
           /\ us[k].id = id => ds[k].cards = us[k].cards
           /\ us[k].id # id => ds[k].cards = us[k].cards \ {c}
  BY <1>1, <1>2, DetachEffect
<1>4. i \in DOMAIN us /\ us[i].id = id
  BY FirstRow
<1>5. SelectInSeq(us, LAMBDA x : x.id = id) = i
  BY FirstRow DEF SelectInSeq
<1>6. PICK r \in UserRow : r = [ds[i] EXCEPT !.cards = ds[i].cards \union {c}]
  <2>1. ds[i] \in UserRow /\ ds[i].cards \union {c} \in SUBSET Card
    BY <1>3, <1>4 DEF UserRow
  <2>2. QED
    BY <2>1, RowWith
<1>7. vs = [ds EXCEPT ![i] = r]
  BY <1>1, <1>5, <1>6 DEF Assigned
<1>8. r.id = id /\ r.cards = us[i].cards \union {c}
  <2>1. ds[i] \in UserRow /\ ds[i].cards = us[i].cards /\ ds[i].id = id
    BY <1>3, <1>4
  <2>2. QED
    BY <1>6, <2>1 DEF UserRow
<1> HIDE DEF i
<1>9. /\ vs \in Seq(UserRow) /\ DOMAIN vs = DOMAIN us
      /\ vs[i] = r /\ \A k \in DOMAIN us : k # i => vs[k] = ds[k]
  <2>1. i \in 1 .. Len(ds) /\ DOMAIN us = 1 .. Len(us) /\ DOMAIN ds = 1 .. Len(ds)
    BY <1>3, <1>4, RowFields
  <2>2. vs \in Seq(UserRow) /\ Len(vs) = Len(ds)
        /\ \A j \in 1 .. Len(ds) : vs[j] = IF j = i THEN r ELSE ds[j]
    BY <1>3, <1>6, <1>7, <2>1, ExceptSeq
  <2>3. DOMAIN vs = 1 .. Len(vs)
    BY <2>2, RowFields
  <2>4. QED
    BY <1>3, <2>1, <2>2, <2>3
<1>10. \A k \in DOMAIN us : vs[k].id = us[k].id
  BY <1>3, <1>4, <1>8, <1>9
<1>11. ASSUME OneOwnerEach(us) PROVE OneOwnerEach(vs)
  <2>1. SUFFICES ASSUME NEW k \in DOMAIN us, NEW l \in DOMAIN us, k # l
                 PROVE  vs[k].id # vs[l].id /\ vs[k].cards \intersect vs[l].cards = {}
    BY <1>9 DEF OneOwnerEach
  <2>2. us[k].id # us[l].id /\ us[k].cards \intersect us[l].cards = {}
    BY <1>11, <2>1 DEF OneOwnerEach
  <2>3. \A m \in DOMAIN us : m # i => vs[m].cards = us[m].cards \ {c}
    BY <1>3, <1>4, <1>9, <1>11 DEF OneOwnerEach
  <2>4. vs[i].cards = us[i].cards \union {c}
    BY <1>8, <1>9
  <2>5. CASE k = i
    BY <1>10, <2>1, <2>2, <2>3, <2>4, <2>5
  <2>6. CASE l = i
    BY <1>10, <2>1, <2>2, <2>3, <2>4, <2>6
  <2>7. CASE k # i /\ l # i
    BY <1>10, <2>1, <2>2, <2>3, <2>7
  <2>8. QED
    BY <2>5, <2>6, <2>7
<1>12. ASSUME NEW d, NEW y, y \in Owners(vs, d), y \notin Owners(us, d)
       PROVE  d = c
  <2>1. PICK k \in DOMAIN us : vs[k].id = y /\ d \in vs[k].cards
    BY <1>9, <1>12 DEF Owners
  <2>2. d \notin us[k].cards
    BY <1>10, <1>12, <2>1 DEF Owners
  <2>3. CASE k = i
    BY <1>8, <1>9, <2>1, <2>2, <2>3
  <2>4. CASE k # i
    BY <1>3, <1>9, <2>1, <2>2, <2>4
  <2>5. QED
    BY <2>3, <2>4
<1>13. \A k \in DOMAIN us : vs[k].dept = us[k].dept
  <2>1. r.dept = ds[i].dept
    BY <1>3, <1>4, <1>6 DEF UserRow
  <2>2. \A k \in DOMAIN us : ds[k].dept = us[k].dept
    BY <1>1, <1>2, DetachEffect
  <2>3. QED
    BY <1>4, <1>9, <2>1, <2>2
<1>14. QED
  BY <1>9, <1>11, <1>12, <1>13

\* removeCard(): the card leaves every user.
LEMMA ReleasedEffect ==
  ASSUME NEW us \in Seq(UserRow), NEW c \in Card, NEW vs, vs = Released(us, c)
  PROVE  /\ vs \in Seq(UserRow) /\ DOMAIN vs = DOMAIN us
         /\ OneOwnerEach(us) => OneOwnerEach(vs)
         /\ \A d, y : y \in Owners(vs, d) => y \in Owners(us, d)
         /\ \A i \in DOMAIN us : vs[i].dept = us[i].dept
<1>1. vs = [i \in DOMAIN us |-> [us[i] EXCEPT !.cards = us[i].cards \ {c}]]
  BY DEF Released
<1>2. \A i \in DOMAIN us :
        /\ vs[i] \in UserRow /\ vs[i].id = us[i].id /\ vs[i].dept = us[i].dept
        /\ vs[i].cards = us[i].cards \ {c}
  <2>1. TAKE i \in DOMAIN us
  <2>2. PICK r \in UserRow, d \in SUBSET Card : r = us[i] /\ d = us[i].cards \ {c}
    BY RowFields
  <2>3. vs[i] = [r EXCEPT !.cards = d]
    BY <1>1, <2>2
  <2>4. vs[i] \in UserRow /\ vs[i].id = r.id /\ vs[i].dept = r.dept /\ vs[i].cards = d
    BY <2>3 DEF UserRow
  <2>5. QED
    BY <2>2, <2>4
<1>3. vs \in [DOMAIN us -> UserRow]
  BY <1>1, <1>2
<1>4. vs \in Seq(UserRow) /\ DOMAIN vs = DOMAIN us
  BY <1>3, RowsAgain
<1>5. QED
  BY <1>2, <1>4 DEF OneOwnerEach, Owners

\* ensureUserForCard(): a card without an owner gets one.
LEMMA CreatedEffect ==
  ASSUME NEW us \in Seq(UserRow), NEW c \in Card, Owners(us, c) = {},
         NEW u \in UserRow, u.id = NextId(us), u.cards = {c},
         NEW vs, vs = Append(us, u)
  PROVE  /\ vs \in Seq(UserRow)
         /\ OneOwnerEach(us) => OneOwnerEach(vs)
         /\ \A d, y : y \in Owners(vs, d) /\ y \notin Owners(us, d) => d = c
<1>1. u.id \notin IdsOf(us) /\ u.cards = {c}
  BY NextIdNew
<1>2. vs = Put(us, u)
  BY <1>1 DEF Put
<1>3. /\ vs \in Seq(UserRow)
      /\ \A i \in DOMAIN vs : vs[i] = u \/ (i \in DOMAIN us /\ vs[i] = us[i])
  BY <1>2, PutType
<1>4. \A i \in DOMAIN us : us[i].cards \intersect u.cards = {}
  <2>1. \A i \in DOMAIN us : c \notin us[i].cards
    BY DEF Owners
  <2>2. QED
    BY <1>1, <2>1
<1>5. OneOwnerEach(us) => OneOwnerEach(vs)
  BY <1>1, <1>2, <1>4, PutOneOwner
<1>6. \A d, y : y \in Owners(vs, d) /\ y \notin Owners(us, d) => d = c
  BY <1>1, <1>3 DEF Owners
<1>7. QED
  BY <1>3, <1>5, <1>6

-----------------------------------------------------------------------------
\* Registries computed row by row.

\* f(k) is computed from f(k - 1), for k from 1 to n.
Computes(f, n, S, a, g) ==
    /\ f \in [0 .. n -> S] /\ f[0] = a
    /\ \A k \in 1 .. n : f[k] = g[<<f[k - 1], k>>]

\* There is such a function.
LEMMA Recursion ==
  ASSUME NEW n \in Nat, NEW S, NEW a \in S, NEW g \in [S \X (1 .. n) -> S]
  PROVE  \E f : Computes(f, n, S, a, g)
<1> DEFINE Upto(m) == \E f \in [0 .. m -> S] :
                        f[0] = a /\ \A k \in 1 .. m : f[k] = g[<<f[k - 1], k>>]
           Bad == {m \in 0 .. n : ~Upto(m)}
<1>1. CASE Bad = {}
  <2>1. n \in 0 .. n
    OBVIOUS
  <2>2. Upto(n)
    BY <1>1, <2>1
  <2>3. QED
    BY <2>2 DEF Computes
<1>2. CASE Bad # {}
  <2>1. Bad \in SUBSET Nat
    OBVIOUS
  <2>2. PICK m \in Bad : \A k \in Bad : m <= k
    BY <1>2, <2>1, LeastNumber
  <2>3. Upto(0)
    <3>1. [k \in 0 .. 0 |-> a] \in [0 .. 0 -> S] /\ [k \in 0 .. 0 |-> a][0] = a
      OBVIOUS
    <3>2. \A k \in 1 .. 0 : FALSE
      OBVIOUS
    <3>3. QED
      BY <3>1, <3>2
  <2>4. m \in 1 .. n /\ m - 1 \in 0 .. n /\ ~(m <= m - 1)
    <3>1. m \in 0 .. n /\ ~Upto(m)
      OBVIOUS
    <3>2. m # 0
      BY <2>3, <3>1
    <3>3. QED
      BY <3>1, <3>2
  <2>5. Upto(m - 1)
    BY <2>2, <2>4
  <2>6. PICK f \in [0 .. m - 1 -> S] :
          f[0] = a /\ \A k \in 1 .. m - 1 : f[k] = g[<<f[k - 1], k>>]
    BY <2>5
  <2> DEFINE h == [k \in 0 .. m |-> IF k = m THEN g[<<f[m - 1], m>>] ELSE f[k]]
  <2>7. g[<<f[m - 1], m>>] \in S
    BY <2>4, <2>6
  <2>8. h \in [0 .. m -> S]
    BY <2>4, <2>6, <2>7
  <2>9. h[0] = a
    BY <2>4, <2>6
  <2>10. \A k \in 1 .. m : h[k] = g[<<h[k - 1], k>>]
    <3>1. SUFFICES ASSUME NEW k \in 1 .. m PROVE h[k] = g[<<h[k - 1], k>>]
      OBVIOUS
    <3>2. k - 1 \in 0 .. m /\ k - 1 # m /\ k \in 0 .. m
      BY <2>4
    <3>3. h[k - 1] = f[k - 1]
      BY <3>2
    <3>4. CASE k = m
      BY <3>2, <3>3, <3>4
    <3>5. CASE k # m
      <4>1. k \in 1 .. m - 1
        BY <2>4, <3>5
      <4>2. h[k] = f[k]
        BY <3>2, <3>5
      <4>3. QED
        BY <2>6, <3>3, <4>1, <4>2
    <3>6. QED
      BY <3>4, <3>5
  <2> HIDE DEF h
  <2>11. Upto(m)
    BY <2>8, <2>9, <2>10
  <2>12. ~Upto(m)
    OBVIOUS
  <2>13. QED
    BY <2>11, <2>12
<1>3. QED
  BY <1>1, <1>2

\* erase(): the rows without the ids are left.
LEMMA ErasedSteps ==
  ASSUME NEW us \in Seq(UserRow), NEW ids
  PROVE  \E f :
           /\ f[0] = <<>> /\ Erased(us, ids) = f[Len(us)]
           /\ \A k \in 1 .. Len(us) :
                /\ us[k].id \in ids => f[k] = f[k - 1]
                /\ us[k].id \notin ids => f[k] = Append(f[k - 1], us[k])
<1> DEFINE Step(s, k) == IF us[k].id \in ids THEN s ELSE Append(s, us[k])
           g == [p \in Seq(UserRow) \X (1 .. Len(us)) |-> Step(p[1], p[2])]
           F(f) == [k \in 0 .. Len(us) |->
                      IF k = 0 THEN <<>>
                      ELSE IF us[k].id \in ids THEN f[k - 1] ELSE Append(f[k - 1], us[k])]
<1>1. Len(us) \in Nat /\ \A k \in 1 .. Len(us) : us[k] \in UserRow
  BY RowFields
<1>2. \A s \in Seq(UserRow), k \in 1 .. Len(us) : Step(s, k) \in Seq(UserRow)
  BY <1>1
<1>3. g \in [Seq(UserRow) \X (1 .. Len(us)) -> Seq(UserRow)]
  BY <1>2
<1>4. \A s \in Seq(UserRow), k \in 1 .. Len(us) : g[<<s, k>>] = Step(s, k)
  OBVIOUS
<1> HIDE DEF g
<1>5. PICK f \in [0 .. Len(us) -> Seq(UserRow)] :
        f[0] = <<>> /\ \A k \in 1 .. Len(us) : f[k] = g[<<f[k - 1], k>>]
  <2>1. <<>> \in Seq(UserRow)
    OBVIOUS
  <2>0. PICK S : S = Seq(UserRow)
    OBVIOUS
  <2>2. PICK n \in Nat, a \in S : n = Len(us) /\ a = <<>>
    BY <1>1, <2>0, <2>1
  <2>3. g \in [S \X (1 .. n) -> S]
    BY <1>3, <2>0, <2>2
  <2>4. PICK h \in [S \X (1 .. n) -> S] : h = g
    BY <2>3
  <2>5. PICK f : Computes(f, n, S, a, h)
    BY Recursion
  <2>6. QED
    BY <2>0, <2>2, <2>4, <2>5 DEF Computes
<1>6. \A k \in 1 .. Len(us) : k - 1 \in 0 .. Len(us)
  BY <1>1
<1>7. \A k \in 1 .. Len(us) : f[k] = Step(f[k - 1], k)
  BY <1>4, <1>5, <1>6
<1>8. f = F(f)
  <2>1. \A k \in 0 .. Len(us) : k # 0 => k \in 1 .. Len(us)
    BY <1>1
  <2>2. \A k \in 0 .. Len(us) :
          f[k] = IF k = 0 THEN <<>>
                 ELSE IF us[k].id \in ids THEN f[k - 1] ELSE Append(f[k - 1], us[k])
    BY <1>5, <1>7, <2>1
  <2>3. QED
    BY <2>2
<1>9. Erased(us, ids) = (CHOOSE x : x = F(x))[Len(us)]
  BY DEF Erased
<1>10. PICK e : e = (CHOOSE x : x = F(x)) /\ e = F(e)
  BY <1>8
<1>11. e[0] = <<>> /\ \A k \in 1 .. Len(us) : e[k] = Step(e[k - 1], k)
  <2>1. 0 \in 0 .. Len(us) /\ \A k \in 1 .. Len(us) : k \in 0 .. Len(us) /\ k # 0
    BY <1>1
  <2>2. \A k \in 0 .. Len(us) :
          e[k] = IF k = 0 THEN <<>>
                 ELSE IF us[k].id \in ids THEN e[k - 1] ELSE Append(e[k - 1], us[k])
    BY <1>10
  <2>3. QED
    BY <2>1, <2>2
<1>12. DOMAIN e = 0 .. Len(us)
  BY <1>10
<1>13. QED
  BY <1>9, <1>10, <1>11

LEMMA AppendOneOwner ==
  ASSUME NEW us \in Seq(UserRow), NEW u \in UserRow, OneOwnerEach(us),
         \A i \in DOMAIN us : us[i].id # u.id /\ us[i].cards \intersect u.cards = {}
  PROVE  OneOwnerEach(Append(us, u))
<1>1. u.id \notin IdsOf(us)
  BY DEF IdsOf
<1>2. Put(us, u) = Append(us, u)
  BY <1>1 DEF Put
<1>3. OneOwnerEach(Put(us, u))
  BY PutOneOwner
<1>4. QED
  BY <1>2, <1>3

LEMMA ErasedEffect ==
  ASSUME NEW us \in Seq(UserRow), NEW ids, NEW vs, vs = Erased(us, ids)
  PROVE  /\ vs \in Seq(UserRow)
         /\ OneOwnerEach(us) => OneOwnerEach(vs)
         /\ \A d, y : y \in Owners(vs, d) => y \in Owners(us, d)
         /\ \A i \in DOMAIN vs : \E j \in DOMAIN us : vs[i] = us[j]
<1>1. PICK f :
        /\ f[0] = <<>> /\ vs = f[Len(us)]
        /\ \A k \in 1 .. Len(us) :
             /\ us[k].id \in ids => f[k] = f[k - 1]
             /\ us[k].id \notin ids => f[k] = Append(f[k - 1], us[k])
  BY ErasedSteps
<1>2. /\ Len(us) \in Nat /\ DOMAIN us = 1 .. Len(us)
      /\ \A k \in 1 .. Len(us) : us[k] \in UserRow
  BY RowFields
<1> DEFINE Left(k) ==
             /\ f[k] \in Seq(UserRow)
             /\ \A i \in DOMAIN f[k] : \E j \in 1 .. k : f[k][i] = us[j]
             /\ OneOwnerEach(us) => OneOwnerEach(f[k])
           Bad == {k \in 0 .. Len(us) : ~Left(k)}
<1>3. Left(0)
  <2>1. <<>> \in Seq(UserRow) /\ DOMAIN <<>> = {}
    OBVIOUS
  <2>2. QED
    BY <1>1, <2>1 DEF OneOwnerEach
<1>4. ASSUME NEW k \in 1 .. Len(us), Left(k - 1) PROVE Left(k)
  <2>1. k - 1 \in Nat /\ \A j \in 1 .. k - 1 : j \in 1 .. k /\ j \in 1 .. Len(us) /\ j # k
    BY <1>2
  <2>2. CASE us[k].id \in ids
    <3>1. f[k] = f[k - 1]
      BY <1>1, <2>2
    <3>2. QED
      BY <1>4, <2>1, <3>1
  <2>3. CASE us[k].id \notin ids
    <3>1. f[k] = Append(f[k - 1], us[k])
      BY <1>1, <2>3
    <3>2. PICK s \in Seq(UserRow), u \in UserRow : s = f[k - 1] /\ u = us[k]
      BY <1>2, <1>4
    <3>3. /\ Append(s, u) \in Seq(UserRow) /\ DOMAIN Append(s, u) = 1 .. Len(s) + 1
          /\ Append(s, u)[Len(s) + 1] = u
          /\ \A i \in 1 .. Len(s) : Append(s, u)[i] = s[i]
      BY AppendProperties, LenProperties
    <3>4. Len(s) \in Nat /\ DOMAIN s = 1 .. Len(s)
      BY RowFields
    <3>5. \A i \in 1 .. Len(s) + 1 : i \in 1 .. Len(s) \/ i = Len(s) + 1
      BY <3>4
    <3>6. \A i \in DOMAIN s : \E j \in 1 .. k - 1 : s[i] = us[j]
      BY <1>4, <3>2
    <3>7. \A i \in 1 .. Len(s) + 1 : \E j \in 1 .. k : Append(s, u)[i] = us[j]
      <4>1. k \in 1 .. k
        BY <1>2
      <4>2. TAKE i \in 1 .. Len(s) + 1
      <4>3. CASE i = Len(s) + 1
        BY <3>2, <3>3, <4>1, <4>3
      <4>4. CASE i \in 1 .. Len(s)
        BY <2>1, <3>3, <3>4, <3>6, <4>4
      <4>5. QED
        BY <3>5, <4>3, <4>4
    <3>8. ASSUME OneOwnerEach(us) PROVE OneOwnerEach(Append(s, u))
      <4>1. OneOwnerEach(s)
        BY <1>4, <3>2, <3>8
      <4>2. \A j \in 1 .. k - 1 :
              us[j].id # us[k].id /\ us[j].cards \intersect us[k].cards = {}
        BY <1>2, <2>1, <3>8 DEF OneOwnerEach
      <4>3. \A i \in DOMAIN s : s[i].id # u.id /\ s[i].cards \intersect u.cards = {}
        BY <3>2, <3>6, <4>2
      <4>4. QED
        BY <4>1, <4>3, AppendOneOwner
    <3>9. PICK a : a = Append(s, u)
      OBVIOUS
    <3>10. /\ a \in Seq(UserRow) /\ (OneOwnerEach(us) => OneOwnerEach(a))
           /\ \A i \in DOMAIN a : \E j \in 1 .. k : a[i] = us[j]
      BY <3>3, <3>7, <3>8, <3>9
    <3>11. f[k] = a
      BY <3>1, <3>2, <3>9
    <3>12. QED
      BY <3>10, <3>11
  <2>4. QED
    BY <2>2, <2>3
<1>5. Left(Len(us))
  <2>1. CASE Bad = {}
    <3>1. Len(us) \in 0 .. Len(us)
      BY <1>2
    <3>2. QED
      BY <2>1, <3>1
  <2>2. CASE Bad # {}
    <3>1. Bad \in SUBSET Nat
      BY <1>2
    <3>2. PICK m \in Bad : \A k \in Bad : m <= k
      BY <2>2, <3>1, LeastNumber
    <3>3. m \in 0 .. Len(us) /\ ~Left(m)
      OBVIOUS
    <3> HIDE DEF Left
    <3>4. m # 0
      BY <1>3, <3>3
    <3>5. m \in 1 .. Len(us) /\ m - 1 \in 0 .. Len(us) /\ ~(m <= m - 1)
      BY <1>2, <3>3, <3>4
    <3>6. Left(m - 1)
      BY <3>2, <3>5
    <3>7. QED
      BY <1>4, <3>3, <3>5, <3>6
  <2>3. QED
    BY <2>1, <2>2
<1>6. \A i \in DOMAIN vs : \E j \in DOMAIN us : vs[i] = us[j]
  BY <1>1, <1>2, <1>5
<1>7. QED
  <2>1. \A d, y : y \in Owners(vs, d) => y \in Owners(us, d)
    BY <1>6 DEF Owners
  <2>2. QED
    BY <1>1, <1>5, <1>6, <2>1

\* A row of users.csv in a registry.
LEMMA WithRowEffect ==
  ASSUME NEW us \in Seq(UserRow), NEW u \in UserRow, NEW vs, vs = WithRow(us, u)
  PROVE  vs \in Seq(UserRow) /\ (OneOwnerEach(us) => OneOwnerEach(vs))
<1>1. Foreign(us, u) \in SUBSET u.cards
  BY DEF Foreign
<1>2. u.id \in Int /\ u.cards \in SUBSET Card /\ u.dept \in Dept \union {NoDept}
  BY DEF UserRow
<1>3. PICK own \in SUBSET Card : own = u.cards \ Foreign(us, u)
  BY <1>2
<1>4. \A i \in DOMAIN us : us[i].id # u.id => us[i].cards \intersect own = {}
  BY <1>3 DEF Foreign
<1>5. CASE u.id \notin IdsOf(us)
  <2>1. PICK v \in UserRow : v = [u EXCEPT !.cards = own]
    BY RowWith
  <2>2. v.cards = own /\ v.id = u.id
    BY <2>1, RowWith
  <2>3. vs = Append(us, v)
    BY <1>3, <1>5, <2>1 DEF WithRow
  <2>4. vs \in Seq(UserRow)
    BY <2>3, AppendProperties
  <2>5. \A i \in DOMAIN us : us[i].id # v.id /\ us[i].cards \intersect v.cards = {}
    BY <1>4, <1>5, <2>2 DEF IdsOf
  <2>6. QED
    BY <2>3, <2>4, <2>5, AppendOneOwner
<1>6. CASE u.id \in IdsOf(us)
  <2> DEFINE i == Min({k \in 1 .. Len(us) : us[k].id = u.id})
  <2>1. i \in DOMAIN us /\ us[i].id = u.id
    BY <1>6, FirstRow
  <2>2. SelectInSeq(us, LAMBDA x : x.id = u.id) = i
    BY <1>6, FirstRow DEF SelectInSeq
  <2> HIDE DEF i
  <2>3. PICK row \in UserRow : row = us[i]
    BY <2>1, RowFields
  <2>4. PICK cs \in SUBSET Card : cs = row.cards \union own
    BY <2>3 DEF UserRow
  <2>5. PICK d \in Dept \union {NoDept} : d = IF row.dept = NoDept THEN u.dept ELSE row.dept
    BY <1>2, <2>3 DEF UserRow
  <2>6. PICK v \in UserRow : v = [row EXCEPT !.cards = cs, !.dept = d]
    BY DEF UserRow
  <2>7. v.id = u.id /\ v.cards = cs
    BY <2>1, <2>3, <2>6 DEF UserRow
  <2>8. vs = [us EXCEPT ![i] = v]
    <3>1. vs = [us EXCEPT ![SelectInSeq(us, LAMBDA x : x.id = u.id)] =
                  Filled(us[SelectInSeq(us, LAMBDA x : x.id = u.id)], u,
                         u.cards \ Foreign(us, u))]
      BY <1>6, Zenon DEF WithRow
    <3>2. vs = [us EXCEPT ![i] = Filled(row, u, own)]
      BY <1>3, <2>2, <2>3, <3>1
    <3>4. Filled(row, u, own) = v
      BY <2>4, <2>5, <2>6 DEF Filled
    <3>3. QED
      BY <3>2, <3>4
  <2>9. i \in 1 .. Len(us) /\ DOMAIN us = 1 .. Len(us)
    BY <2>1, RowFields
  <2>10. vs \in Seq(UserRow) /\ DOMAIN vs = DOMAIN us
         /\ \A k \in DOMAIN us : vs[k] = IF k = i THEN v ELSE us[k]
    BY <2>8, <2>9, ExceptSeq, LenProperties
  <2>11. ASSUME OneOwnerEach(us) PROVE OneOwnerEach(vs)
    <3>1. SUFFICES ASSUME NEW k \in DOMAIN us, NEW l \in DOMAIN us, k # l
                   PROVE  vs[k].id # vs[l].id /\ vs[k].cards \intersect vs[l].cards = {}
      BY <2>10 DEF OneOwnerEach
    <3>2. us[k].id # us[l].id /\ us[k].cards \intersect us[l].cards = {}
      BY <2>11, <3>1 DEF OneOwnerEach
    <3>3. \A m \in DOMAIN us : m # i =>
            vs[m] = us[m] /\ us[m].id # u.id /\ us[m].cards \intersect cs = {}
      <4>1. TAKE m \in DOMAIN us
      <4>2. HAVE m # i
      <4>3. us[m].id # us[i].id /\ us[m].cards \intersect us[i].cards = {}
        BY <2>1, <2>11, <4>2 DEF OneOwnerEach
      <4>4. us[m].cards \intersect own = {}
        BY <1>4, <2>1, <4>3
      <4>5. us[m].cards \intersect cs = {}
        BY <2>3, <2>4, <4>3, <4>4
      <4>6. QED
        BY <2>1, <2>10, <4>2, <4>3, <4>5
    <3>4. vs[i].id = u.id /\ vs[i].cards = cs
      BY <2>1, <2>7, <2>10
    <3>5. CASE k = i
      BY <3>1, <3>3, <3>4, <3>5
    <3>6. CASE l = i
      BY <3>1, <3>3, <3>4, <3>6
    <3>7. CASE k # i /\ l # i
      BY <3>2, <3>3, <3>7
    <3>8. QED
      BY <3>5, <3>6, <3>7
  <2>12. QED
    BY <2>10, <2>11
<1>7. QED
  BY <1>5, <1>6

LEMMA MergedSteps ==
  ASSUME NEW us \in Seq(UserRow), NEW csv \in Seq(UserRow)
  PROVE  \E f :
           /\ f[0] = us /\ Merged(us, csv) = f[Len(csv)]
           /\ \A k \in 1 .. Len(csv) : f[k] = WithRow(f[k - 1], csv[k])
<1> DEFINE g == [p \in Seq(UserRow) \X (1 .. Len(csv)) |-> WithRow(p[1], csv[p[2]])]
           F(f) == [k \in 0 .. Len(csv) |->
                      IF k = 0 THEN us ELSE WithRow(f[k - 1], csv[k])]
<1>1. Len(csv) \in Nat /\ \A k \in 1 .. Len(csv) : csv[k] \in UserRow
  BY RowFields
<1>2. \A s \in Seq(UserRow), k \in 1 .. Len(csv) : WithRow(s, csv[k]) \in Seq(UserRow)
  BY <1>1, WithRowEffect
<1>3. g \in [Seq(UserRow) \X (1 .. Len(csv)) -> Seq(UserRow)]
  BY <1>2
<1>4. \A s \in Seq(UserRow), k \in 1 .. Len(csv) : g[<<s, k>>] = WithRow(s, csv[k])
  OBVIOUS
<1> HIDE DEF g
<1>5. PICK f \in [0 .. Len(csv) -> Seq(UserRow)] :
        f[0] = us /\ \A k \in 1 .. Len(csv) : f[k] = g[<<f[k - 1], k>>]
  <2>1. PICK S : S = Seq(UserRow)
    OBVIOUS
  <2>2. PICK n \in Nat, a \in S : n = Len(csv) /\ a = us
    BY <1>1, <2>1
  <2>3. g \in [S \X (1 .. n) -> S]
    BY <1>3, <2>1, <2>2
  <2>4. PICK h \in [S \X (1 .. n) -> S] : h = g
    BY <2>3
  <2>5. PICK f : Computes(f, n, S, a, h)
    BY Recursion
  <2>6. QED
    BY <2>1, <2>2, <2>4, <2>5 DEF Computes
<1>6. \A k \in 1 .. Len(csv) : k - 1 \in 0 .. Len(csv)
  BY <1>1
<1>7. \A k \in 1 .. Len(csv) : f[k] = WithRow(f[k - 1], csv[k])
  BY <1>4, <1>5, <1>6
<1>8. f = F(f)
  <2>1. \A k \in 0 .. Len(csv) : k # 0 => k \in 1 .. Len(csv)
    BY <1>1
  <2>2. \A k \in 0 .. Len(csv) :
          f[k] = IF k = 0 THEN us ELSE WithRow(f[k - 1], csv[k])
    BY <1>5, <1>7, <2>1
  <2>3. QED
    BY <2>2
<1>9. Merged(us, csv) = (CHOOSE x : x = F(x))[Len(csv)]
  BY DEF Merged
<1>10. PICK e : e = (CHOOSE x : x = F(x)) /\ e = F(e)
  BY <1>8
<1>11. e[0] = us /\ \A k \in 1 .. Len(csv) : e[k] = WithRow(e[k - 1], csv[k])
  <2>1. 0 \in 0 .. Len(csv) /\ \A k \in 1 .. Len(csv) : k \in 0 .. Len(csv) /\ k # 0
    BY <1>1
  <2>2. \A k \in 0 .. Len(csv) : e[k] = IF k = 0 THEN us ELSE WithRow(e[k - 1], csv[k])
    BY <1>10
  <2>3. QED
    BY <2>1, <2>2
<1>12. QED
  BY <1>9, <1>10, <1>11

\* load(): the merge leaves every card with one owner.
LEMMA MergedEffect ==
  ASSUME NEW us \in Seq(UserRow), NEW csv \in Seq(UserRow), OneOwnerEach(us),
         NEW vs, vs = Merged(us, csv)
  PROVE  vs \in Seq(UserRow) /\ OneOwnerEach(vs)
<1>1. PICK f :
        /\ f[0] = us /\ vs = f[Len(csv)]
        /\ \A k \in 1 .. Len(csv) : f[k] = WithRow(f[k - 1], csv[k])
  BY MergedSteps
<1>2. Len(csv) \in Nat /\ \A k \in 1 .. Len(csv) : csv[k] \in UserRow
  BY RowFields
<1> DEFINE Sound(k) == f[k] \in Seq(UserRow) /\ OneOwnerEach(f[k])
           Bad == {k \in 0 .. Len(csv) : ~Sound(k)}
<1>3. Sound(0)
  BY <1>1
<1>4. ASSUME NEW k \in 1 .. Len(csv), Sound(k - 1) PROVE Sound(k)
  <2>1. PICK s \in Seq(UserRow), u \in UserRow : s = f[k - 1] /\ u = csv[k]
    BY <1>2, <1>4
  <2>2. f[k] = WithRow(s, u)
    BY <1>1, <2>1
  <2>3. QED
    BY <1>4, <2>1, <2>2, WithRowEffect
<1>5. CASE Bad = {}
  <2>1. Len(csv) \in 0 .. Len(csv)
    BY <1>2
  <2>2. QED
    BY <1>1, <1>5, <2>1
<1>6. CASE Bad # {}
  <2>1. Bad \in SUBSET Nat
    BY <1>2
  <2>2. PICK m \in Bad : \A k \in Bad : m <= k
    BY <1>6, <2>1, LeastNumber
  <2>3. m \in 0 .. Len(csv) /\ ~Sound(m)
    OBVIOUS
  <2> HIDE DEF Sound
  <2>4. m # 0
    BY <1>3, <2>3
  <2>5. m \in 1 .. Len(csv) /\ m - 1 \in 0 .. Len(csv) /\ ~(m <= m - 1)
    BY <1>2, <2>3, <2>4
  <2>6. Sound(m - 1)
    BY <2>2, <2>5
  <2>7. QED
    BY <1>4, <2>3, <2>5, <2>6
<1>7. QED
  BY <1>5, <1>6

LEMMA ByIdEffect ==
  ASSUME NEW us \in Seq(UserRow), NEW vs \in ById(us)
  PROVE  vs \in Seq(UserRow) /\ (OneOwnerEach(us) => OneOwnerEach(vs))
<1>1. PICK p \in Injection(DOMAIN us, DOMAIN us) : vs = [i \in DOMAIN us |-> us[p[i]]]
  BY DEF ById
<1>2. /\ p \in [DOMAIN us -> DOMAIN us]
      /\ \A i, j \in DOMAIN us : p[i] = p[j] => i = j
  BY <1>1 DEF Injection, IsInjective
<1>3. \A i \in DOMAIN us : us[i] \in UserRow
  BY RowFields
<1>4. vs \in [DOMAIN us -> UserRow]
  BY <1>1, <1>2, <1>3
<1>5. vs \in Seq(UserRow) /\ DOMAIN vs = DOMAIN us
  BY <1>4, RowsAgain
<1>6. QED
  BY <1>1, <1>2, <1>5 DEF OneOwnerEach

-----------------------------------------------------------------------------
\* Programs: a user is read, or an id drawn, before he is put back; and a department is
\* listed after that.

Reads == {"copyOwner", "copyUser", "upsertNew"}

ReadFirst(p, c) ==
    \/ c # NoCopy
    \/ \A i \in DOMAIN p : p[i] = "putCopy" => \E j \in 1 .. i - 1 : p[j] \in Reads

PutBeforeList(p) ==
    \A i, j \in DOMAIN p : p[i] = "listDept" /\ p[j] = "putCopy" => j < i

HasRead(p) == \E i \in DOMAIN p : p[i] \in Reads
Lacks(p, step) == \A i \in DOMAIN p : p[i] # step

LEMMA Join ==
  ASSUME NEW p \in Seq(StepName), NEW q \in Seq(StepName), p # <<>>,
         ReadFirst(p, NoCopy), ReadFirst(q, NoCopy) \/ HasRead(p),
         PutBeforeList(p), PutBeforeList(q), Lacks(p, "listDept") \/ Lacks(q, "putCopy"),
         NEW r, r = p \o q
  PROVE  /\ r \in Seq(StepName) /\ r # <<>> /\ ReadFirst(r, NoCopy) /\ PutBeforeList(r)
         /\ HasRead(p) \/ HasRead(q) => HasRead(r)
         /\ \A s : Lacks(p, s) /\ Lacks(q, s) => Lacks(r, s)
<1>1. /\ Len(p) \in Nat \ {0} /\ Len(q) \in Nat /\ Len(r) = Len(p) + Len(q)
      /\ DOMAIN p = 1 .. Len(p) /\ DOMAIN q = 1 .. Len(q)
      /\ r \in Seq(StepName) /\ DOMAIN r = 1 .. Len(p) + Len(q)
  BY ConcatProperties, LenProperties, EmptySeq
<1>2. /\ \A i \in 1 .. Len(p) : r[i] = p[i]
      /\ \A i \in 1 .. Len(q) : r[i + Len(p)] = q[i]
  <2>1. \A i \in 1 .. Len(p) + Len(q) : r[i] = IF i <= Len(p) THEN p[i] ELSE q[i - Len(p)]
    BY ConcatProperties
  <2>2. \A i \in 1 .. Len(p) : i \in 1 .. Len(p) + Len(q) /\ i <= Len(p)
    BY <1>1
  <2>3. \A i \in 1 .. Len(q) : /\ i + Len(p) \in 1 .. Len(p) + Len(q)
                               /\ ~(i + Len(p) <= Len(p)) /\ (i + Len(p)) - Len(p) = i
    BY <1>1
  <2>4. QED
    BY <2>1, <2>2, <2>3
<1>3. \A i \in DOMAIN r : i \in 1 .. Len(p) \/ \E k \in 1 .. Len(q) : i = k + Len(p)
  <2>1. \A i \in 1 .. Len(p) + Len(q) :
          i \in 1 .. Len(p) \/ (i - Len(p) \in 1 .. Len(q) /\ i = (i - Len(p)) + Len(p))
    BY <1>1
  <2>2. QED
    BY <1>1, <2>1
<1>4. r # <<>>
  BY <1>1, EmptySeq
<1>5. ASSUME NEW i \in DOMAIN r, r[i] = "putCopy"
      PROVE  \E j \in 1 .. i - 1 : r[j] \in Reads
  <2>1. CASE i \in 1 .. Len(p)
    <3>1. PICK j \in 1 .. i - 1 : p[j] \in Reads
      BY <1>1, <1>2, <1>5, <2>1 DEF ReadFirst
    <3>2. j \in 1 .. Len(p)
      BY <1>1, <2>1
    <3>3. QED
      BY <1>2, <3>1, <3>2
  <2>2. CASE i \notin 1 .. Len(p)
    <3>1. PICK k \in 1 .. Len(q) : i = k + Len(p)
      BY <1>3, <2>2
    <3>2. q[k] = "putCopy"
      BY <1>2, <1>5, <3>1
    <3>3. CASE HasRead(p)
      <4>1. PICK j \in 1 .. Len(p) : p[j] \in Reads
        BY <1>1, <3>3 DEF HasRead
      <4>2. j \in 1 .. i - 1
        BY <1>1, <3>1
      <4>3. QED
        BY <1>2, <4>1, <4>2
    <3>4. CASE ReadFirst(q, NoCopy)
      <4>1. PICK j \in 1 .. k - 1 : q[j] \in Reads
        BY <1>1, <3>1, <3>2, <3>4 DEF ReadFirst
      <4>2. j \in 1 .. Len(q) /\ j + Len(p) \in 1 .. i - 1
        BY <1>1, <3>1
      <4>3. QED
        BY <1>2, <4>1, <4>2
    <3>5. QED
      BY <3>3, <3>4
  <2>3. QED
    BY <2>1, <2>2
<1>6. ASSUME NEW i \in DOMAIN r, NEW j \in DOMAIN r, r[i] = "listDept", r[j] = "putCopy"
      PROVE  j < i
  <2>1. CASE i \in 1 .. Len(p) /\ j \in 1 .. Len(p)
    BY <1>1, <1>2, <1>6, <2>1 DEF PutBeforeList
  <2>2. CASE i \notin 1 .. Len(p) /\ j \notin 1 .. Len(p)
    <3>1. PICK k \in 1 .. Len(q), l \in 1 .. Len(q) : i = k + Len(p) /\ j = l + Len(p)
      BY <1>3, <2>2
    <3>2. l < k
      BY <1>1, <1>2, <1>6, <3>1 DEF PutBeforeList
    <3>3. QED
      BY <1>1, <3>1, <3>2
  <2>3. CASE i \in 1 .. Len(p) /\ j \notin 1 .. Len(p)
    <3>1. PICK l \in 1 .. Len(q) : j = l + Len(p)
      BY <1>3, <2>3
    <3>2. p[i] = "listDept" /\ q[l] = "putCopy"
      BY <1>2, <1>6, <2>3, <3>1
    <3>3. QED
      BY <1>1, <2>3, <3>2 DEF Lacks
  <2>4. CASE i \notin 1 .. Len(p) /\ j \in 1 .. Len(p)
    BY <1>1, <1>3, <2>4
  <2>5. QED
    BY <2>1, <2>2, <2>3, <2>4
<1>7. HasRead(p) \/ HasRead(q) => HasRead(r)
  <2>1. \A i \in 1 .. Len(p) : i \in DOMAIN r
    BY <1>1
  <2>2. \A i \in 1 .. Len(q) : i + Len(p) \in DOMAIN r
    BY <1>1
  <2>3. QED
    BY <1>1, <1>2, <2>1, <2>2 DEF HasRead
<1>8. \A s : Lacks(p, s) /\ Lacks(q, s) => Lacks(r, s)
  BY <1>1, <1>2, <1>3 DEF Lacks
<1>9. QED
  BY <1>1, <1>4, <1>5, <1>6, <1>7, <1>8 DEF ReadFirst, PutBeforeList

LEMMA OneTuple ==
  ASSUME NEW S, NEW a \in S
  PROVE  <<a>> \in Seq(S)
OBVIOUS

LEMMA OneStep ==
  ASSUME NEW a \in StepName, NEW p, p = <<a>>
  PROVE  /\ p \in Seq(StepName) /\ p # <<>> /\ PutBeforeList(p)
         /\ a # "putCopy" => ReadFirst(p, NoCopy)
         /\ a \in Reads => HasRead(p)
         /\ \A s : a # s => Lacks(p, s)
<1>1. p \in Seq(StepName) /\ Len(p) = 1 /\ DOMAIN p = 1 .. Len(p) /\ p[1] = a
  <2>1. p \in Seq(StepName)
    BY OneTuple
  <2>2. Len(p) = 1
    OBVIOUS
  <2>3. p[1] = a
    OBVIOUS
  <2>4. QED
    BY <2>1, <2>2, <2>3, LenProperties
<1>2. \A i \in DOMAIN p : i = 1 /\ p[i] = a
  <2>1. \A i \in 1 .. 1 : i = 1
    OBVIOUS
  <2>2. QED
    BY <1>1, <2>1
<1>3. p # <<>> /\ 1 \in DOMAIN p
  BY <1>1
<1>4. QED
  BY <1>1, <1>2, <1>3 DEF PutBeforeList, ReadFirst, HasRead, Lacks

LEMMA TwoSteps ==
  ASSUME NEW a \in StepName, NEW b \in StepName, NEW p, p = <<a, b>>,
         a # "putCopy", a # "listDept", b # "listDept"
  PROVE  /\ p \in Seq(StepName) /\ p # <<>> /\ PutBeforeList(p) /\ Lacks(p, "listDept")
         /\ b # "putCopy" => ReadFirst(p, NoCopy) /\ Lacks(p, "putCopy")
         /\ a \in Reads => ReadFirst(p, NoCopy)
         /\ a \in Reads \/ b \in Reads => HasRead(p)
<1>1. p \in Seq(StepName) /\ Len(p) = 2 /\ DOMAIN p = 1 .. 2 /\ p[1] = a /\ p[2] = b
  OBVIOUS
<1>2. \A i \in DOMAIN p : (i = 1 /\ p[i] = a) \/ (i = 2 /\ p[i] = b)
  BY <1>1
<1>3. p # <<>> /\ 1 \in DOMAIN p /\ 2 \in DOMAIN p /\ 1 \in 1 .. 2 - 1
  BY <1>1
<1>4. QED
  BY <1>1, <1>2, <1>3 DEF PutBeforeList, ReadFirst, HasRead, Lacks

Program(p) == p \in Seq(StepName) /\ p # <<>> /\ ReadFirst(p, NoCopy) /\ PutBeforeList(p)

\* Programs that list no department; of these, the ones that put nobody back, and the ones
\* that read a user.
Opening(p) == Program(p) /\ Lacks(p, "listDept")
Plain(p) == Opening(p) /\ Lacks(p, "putCopy")
Reading(p) == Opening(p) /\ HasRead(p)

LEMMA Joins ==
  ASSUME NEW p, NEW q
  PROVE  /\ Plain(p) /\ Plain(q) => Plain(p \o q)
         /\ Reading(p) /\ Plain(q) => Reading(p \o q)
         /\ Plain(p) /\ Reading(q) => Reading(p \o q)
         /\ Opening(p) /\ Plain(q) => Opening(p \o q)
         /\ Program(p) /\ Plain(q) => Program(p \o q)
<1>1. CASE Program(p) /\ Plain(q)
  <2>0. PICK a \in Seq(StepName), b \in Seq(StepName) : a = p /\ b = q
    BY <1>1 DEF Program, Plain, Opening
  <2>1. PICK r : r = a \o b
    OBVIOUS
  <2>2. /\ Program(r)
        /\ HasRead(a) \/ HasRead(b) => HasRead(r)
        /\ \A s : Lacks(a, s) /\ Lacks(b, s) => Lacks(r, s)
    BY <1>1, <2>0, <2>1, Join DEF Program, Plain, Opening
  <2>3. QED
    BY <1>1, <2>0, <2>1, <2>2 DEF Plain, Opening, Reading
<1>2. CASE Plain(p) /\ Reading(q)
  <2>0. PICK a \in Seq(StepName), b \in Seq(StepName) : a = p /\ b = q
    BY <1>2 DEF Program, Plain, Opening, Reading
  <2>1. PICK r : r = a \o b
    OBVIOUS
  <2>2. /\ Program(r)
        /\ HasRead(a) \/ HasRead(b) => HasRead(r)
        /\ \A s : Lacks(a, s) /\ Lacks(b, s) => Lacks(r, s)
    BY <1>2, <2>0, <2>1, Join DEF Program, Plain, Opening, Reading
  <2>3. QED
    BY <1>2, <2>0, <2>1, <2>2 DEF Plain, Opening, Reading
<1>3. QED
  BY <1>1, <1>2 DEF Plain, Opening, Reading

\* The steps that are put last: the list of departments, or a user who was read.
LEMMA Closings ==
  ASSUME NEW p
  PROVE  /\ Opening(p) => Program(p \o <<"listDept">>)
         /\ Reading(p) => Reading(p \o <<"putCopy">>)
<1>1. PICK b \in Seq(StepName) : b = <<"listDept">>
  BY OneTuple DEF StepName
<1>2. Program(b) /\ Lacks(b, "putCopy")
  BY <1>1, OneStep DEF Program, StepName
<1>3. PICK d \in Seq(StepName) : d = <<"putCopy">>
  BY OneTuple DEF StepName
<1>4. PutBeforeList(d) /\ Lacks(d, "listDept")
  BY <1>3, OneStep DEF StepName
<1>5. ASSUME Opening(p) PROVE Program(p \o b)
  <2>0. PICK a \in Seq(StepName) : a = p
    BY <1>5 DEF Program, Opening
  <2>1. PICK r : r = a \o b
    OBVIOUS
  <2>2. Program(r)
    BY <1>2, <1>5, <2>0, <2>1, Join DEF Program, Opening
  <2>3. QED
    BY <2>0, <2>1, <2>2
<1>6. ASSUME Reading(p) PROVE Reading(p \o d)
  <2>0. PICK a \in Seq(StepName) : a = p
    BY <1>6 DEF Program, Opening, Reading
  <2>1. PICK r : r = a \o d
    OBVIOUS
  <2>2. Program(r) /\ HasRead(r) /\ Lacks(r, "listDept")
    BY <1>4, <1>6, <2>0, <2>1, Join DEF Program, Opening, Reading
  <2>3. QED
    BY <2>0, <2>1, <2>2 DEF Reading, Opening
<1>7. QED
  BY <1>1, <1>3, <1>5, <1>6

LEMMA Pieces ==
  /\ Plain(SaveUsers) /\ Plain(SaveUsersAnyway) /\ Plain(SaveDepts)
  /\ Plain(<<"readUsed", "ensureDepts">>) /\ Plain(<<"checkUse", "dropDept">>)
  /\ Reading(<<"copyOwner", "putCopy">>) /\ Reading(<<"copyUser", "putCopy">>)
  /\ Reading(<<"checkFree", "upsertNew">>)
  /\ \A a \in StepName : a \notin {"putCopy", "listDept"} => Plain(<<a>>)
  /\ Program(<<"listDept">>)
<1>1. ASSUME NEW a \in StepName, NEW b \in StepName,
             a \notin {"putCopy", "listDept"}, b \notin {"putCopy", "listDept"}
      PROVE  Plain(<<a, b>>) /\ (b \in Reads => Reading(<<a, b>>))
  <2>1. PICK p : p = <<a, b>>
    OBVIOUS
  <2>2. QED
    BY <1>1, <2>1, TwoSteps DEF Plain, Opening, Program, Reading
<1>2. ASSUME NEW a \in StepName, a \in Reads PROVE Reading(<<a, "putCopy">>)
  <2>1. PICK p : p = <<a, "putCopy">>
    OBVIOUS
  <2>2. a # "putCopy" /\ a # "listDept" /\ "putCopy" \in StepName
    BY <1>2 DEF Reads, StepName
  <2>3. QED
    BY <1>2, <2>1, <2>2, TwoSteps DEF Opening, Program, Reading
<1>3. ASSUME NEW a \in StepName
      PROVE  /\ a \notin {"putCopy", "listDept"} => Plain(<<a>>)
             /\ a = "listDept" => Program(<<a>>)
  <2>1. PICK p : p = <<a>>
    OBVIOUS
  <2>2. QED
    BY <2>1, OneStep DEF Plain, Opening, Program
<1>4. \A a \in {"snapUsers", "writeUsers", "tryWriteUsers", "snapDepts", "writeDepts",
               "readUsed", "ensureDepts", "checkUse", "dropDept", "checkFree", "upsertNew"} :
        a \in StepName /\ a \notin {"putCopy", "listDept"}
  BY DEF StepName
<1>5. Plain(SaveUsers) /\ Plain(SaveUsersAnyway) /\ Plain(SaveDepts)
  BY <1>1, <1>4 DEF SaveUsers, SaveUsersAnyway, SaveDepts
<1>6. Plain(<<"readUsed", "ensureDepts">>) /\ Plain(<<"checkUse", "dropDept">>)
  BY <1>1, <1>4
<1>7. Reading(<<"copyOwner", "putCopy">>) /\ Reading(<<"copyUser", "putCopy">>)
  BY <1>2 DEF Reads, StepName
<1>8. Reading(<<"checkFree", "upsertNew">>)
  BY <1>1, <1>4 DEF Reads
<1>9. QED
  BY <1>3, <1>5, <1>6, <1>7, <1>8 DEF StepName

LEMMA StepsSound ==
  ASSUME NEW r \in Request
  PROVE  Program(Steps(r.op))
<1>1. CASE r.op = "save"
  <2>1. PICK p1 : p1 = <<"upsert">>
    OBVIOUS
  <2>2. Plain(p1)
    BY <2>1, Pieces DEF StepName
  <2>3. PICK p3 : p3 = p1 \o SaveUsersAnyway
    OBVIOUS
  <2>4. Plain(p3)
    BY <2>2, <2>3, Joins, Pieces
  <2>5. PICK p5 : p5 = p3 \o <<"listDept">>
    OBVIOUS
  <2>6. Program(p5)
    BY <2>4, <2>5, Closings DEF Reading, Plain
  <2>7. PICK p7 : p7 = p5 \o SaveDepts
    OBVIOUS
  <2>8. Program(p7)
    BY <2>6, <2>7, Joins, Pieces
  <2>9. Steps(r.op) = p7
    BY <1>1, <2>1, <2>3, <2>5, <2>7 DEF Steps
  <2>10. QED
    BY <2>9, <2>8 DEF Plain, Opening, Reading
<1>2. CASE r.op = "delete"
  <2>1. PICK p1 : p1 = <<"erase">>
    OBVIOUS
  <2>2. Plain(p1)
    BY <2>1, Pieces DEF StepName
  <2>3. PICK p3 : p3 = p1 \o SaveUsers
    OBVIOUS
  <2>4. Plain(p3)
    BY <2>2, <2>3, Joins, Pieces
  <2>5. Steps(r.op) = p3
    BY <1>2, <2>1, <2>3 DEF Steps
  <2>6. QED
    BY <2>5, <2>4 DEF Plain, Opening, Reading
<1>3. CASE r.op = "assign"
  <2>1. PICK p1 : p1 = <<"assign">>
    OBVIOUS
  <2>2. Plain(p1)
    BY <2>1, Pieces DEF StepName
  <2>3. PICK p3 : p3 = p1 \o SaveUsers
    OBVIOUS
  <2>4. Plain(p3)
    BY <2>2, <2>3, Joins, Pieces
  <2>5. Steps(r.op) = p3
    BY <1>3, <2>1, <2>3 DEF Steps
  <2>6. QED
    BY <2>5, <2>4 DEF Plain, Opening, Reading
<1>4. CASE r.op = "remove"
  <2>1. PICK p1 : p1 = <<"release">>
    OBVIOUS
  <2>2. Plain(p1)
    BY <2>1, Pieces DEF StepName
  <2>3. PICK p3 : p3 = p1 \o SaveUsers
    OBVIOUS
  <2>4. Plain(p3)
    BY <2>2, <2>3, Joins, Pieces
  <2>5. Steps(r.op) = p3
    BY <1>4, <2>1, <2>3 DEF Steps
  <2>6. QED
    BY <2>5, <2>4 DEF Plain, Opening, Reading
<1>5. CASE r.op = "create"
  <2>1. PICK p1 : p1 = <<"ensureUser">>
    OBVIOUS
  <2>2. Plain(p1)
    BY <2>1, Pieces DEF StepName
  <2>3. PICK p3 : p3 = p1 \o SaveUsers
    OBVIOUS
  <2>4. Plain(p3)
    BY <2>2, <2>3, Joins, Pieces
  <2>5. Steps(r.op) = p3
    BY <1>5, <2>1, <2>3 DEF Steps
  <2>6. QED
    BY <2>5, <2>4 DEF Plain, Opening, Reading
<1>6. CASE r.op = "import"
  <2>1. PICK p1 : p1 = <<"replace">>
    OBVIOUS
  <2>2. Plain(p1)
    BY <2>1, Pieces DEF StepName
  <2>3. PICK p3 : p3 = p1 \o SaveUsers
    OBVIOUS
  <2>4. Plain(p3)
    BY <2>2, <2>3, Joins, Pieces
  <2>5. PICK p5 : p5 = p3 \o <<"readUsed", "ensureDepts">>
    OBVIOUS
  <2>6. Plain(p5)
    BY <2>4, <2>5, Joins, Pieces DEF StepName
  <2>7. PICK p7 : p7 = p5 \o SaveDepts
    OBVIOUS
  <2>8. Plain(p7)
    BY <2>6, <2>7, Joins, Pieces
  <2>9. Steps(r.op) = p7
    BY <1>6, <2>1, <2>3, <2>5, <2>7 DEF Steps
  <2>10. QED
    BY <2>9, <2>8 DEF Plain, Opening, Reading
<1>7. CASE r.op = "addDept"
  <2>1. PICK p1 : p1 = <<"listDept">>
    OBVIOUS
  <2>2. Program(p1)
    BY <2>1, Pieces DEF StepName
  <2>3. PICK p3 : p3 = p1 \o SaveDepts
    OBVIOUS
  <2>4. Program(p3)
    BY <2>2, <2>3, Joins, Pieces
  <2>5. Steps(r.op) = p3
    BY <1>7, <2>1, <2>3 DEF Steps
  <2>6. QED
    BY <2>5, <2>4 DEF Plain, Opening, Reading
<1>8. CASE r.op = "rename"
  <2>1. PICK p1 : p1 = <<"renameDept">>
    OBVIOUS
  <2>2. Plain(p1)
    BY <2>1, Pieces DEF StepName
  <2>3. PICK p3 : p3 = p1 \o SaveDepts
    OBVIOUS
  <2>4. Plain(p3)
    BY <2>2, <2>3, Joins, Pieces
  <2>5. PICK p5 : p5 = p3 \o <<"moveUsers">>
    OBVIOUS
  <2>6. Plain(p5)
    BY <2>4, <2>5, Joins, Pieces DEF StepName
  <2>7. PICK p7 : p7 = p5 \o SaveUsers
    OBVIOUS
  <2>8. Plain(p7)
    BY <2>6, <2>7, Joins, Pieces
  <2>9. Steps(r.op) = p7
    BY <1>8, <2>1, <2>3, <2>5, <2>7 DEF Steps
  <2>10. QED
    BY <2>9, <2>8 DEF Plain, Opening, Reading
<1>9. CASE r.op = "drop"
  <2>1. PICK p1 : p1 = <<"checkUse", "dropDept">>
    OBVIOUS
  <2>2. Plain(p1)
    BY <2>1, Pieces DEF StepName
  <2>3. PICK p3 : p3 = p1 \o SaveDepts
    OBVIOUS
  <2>4. Plain(p3)
    BY <2>2, <2>3, Joins, Pieces
  <2>5. Steps(r.op) = p3
    BY <1>9, <2>1, <2>3 DEF Steps
  <2>6. QED
    BY <2>5, <2>4 DEF Plain, Opening, Reading
<1>10. CASE r.op = "soyalMerge"
  <2>1. PICK p1 : p1 = <<"copyOwner", "putCopy">>
    OBVIOUS
  <2>2. Reading(p1)
    BY <2>1, Pieces DEF StepName
  <2>3. PICK p3 : p3 = p1 \o SaveUsersAnyway
    OBVIOUS
  <2>4. Reading(p3)
    BY <2>2, <2>3, Joins, Pieces
  <2>5. PICK p5 : p5 = p3 \o <<"listDept">>
    OBVIOUS
  <2>6. Program(p5)
    BY <2>4, <2>5, Closings DEF Reading, Plain
  <2>7. PICK p7 : p7 = p5 \o SaveDepts
    OBVIOUS
  <2>8. Program(p7)
    BY <2>6, <2>7, Joins, Pieces
  <2>9. Steps(r.op) = p7
    BY <1>10, <2>1, <2>3, <2>5, <2>7 DEF Steps
  <2>10. QED
    BY <2>9, <2>8 DEF Plain, Opening, Reading
<1>11. CASE r.op = "soyalCreate"
  <2>1. PICK p1 : p1 = <<"checkFree", "upsertNew">>
    OBVIOUS
  <2>2. Reading(p1)
    BY <2>1, Pieces DEF StepName
  <2>3. PICK p3 : p3 = p1 \o SaveUsersAnyway
    OBVIOUS
  <2>4. Reading(p3)
    BY <2>2, <2>3, Joins, Pieces
  <2>5. PICK p5 : p5 = p3 \o <<"putCopy">>
    OBVIOUS
  <2>6. Reading(p5)
    BY <2>4, <2>5, Closings
  <2>7. PICK p7 : p7 = p5 \o SaveUsersAnyway
    OBVIOUS
  <2>8. Reading(p7)
    BY <2>6, <2>7, Joins, Pieces
  <2>9. PICK p9 : p9 = p7 \o <<"listDept">>
    OBVIOUS
  <2>10. Program(p9)
    BY <2>8, <2>9, Closings DEF Reading, Plain
  <2>11. PICK p11 : p11 = p9 \o SaveDepts
    OBVIOUS
  <2>12. Program(p11)
    BY <2>10, <2>11, Joins, Pieces
  <2>13. Steps(r.op) = p11
    BY <1>11, <2>1, <2>3, <2>5, <2>7, <2>9, <2>11 DEF Steps
  <2>14. QED
    BY <2>13, <2>12 DEF Plain, Opening, Reading
<1>12. CASE r.op = "soyalAssign"
  <2>1. PICK p1 : p1 = <<"assign">>
    OBVIOUS
  <2>2. Plain(p1)
    BY <2>1, Pieces DEF StepName
  <2>3. PICK p3 : p3 = p1 \o SaveUsers
    OBVIOUS
  <2>4. Plain(p3)
    BY <2>2, <2>3, Joins, Pieces
  <2>5. PICK p5 : p5 = p3 \o <<"copyUser", "putCopy">>
    OBVIOUS
  <2>6. Reading(p5)
    BY <2>4, <2>5, Joins, Pieces
  <2>7. PICK p7 : p7 = p5 \o SaveUsersAnyway
    OBVIOUS
  <2>8. Reading(p7)
    BY <2>6, <2>7, Joins, Pieces
  <2>9. PICK p9 : p9 = p7 \o <<"listDept">>
    OBVIOUS
  <2>10. Program(p9)
    BY <2>8, <2>9, Closings DEF Reading, Plain
  <2>11. PICK p11 : p11 = p9 \o SaveDepts
    OBVIOUS
  <2>12. Program(p11)
    BY <2>10, <2>11, Joins, Pieces
  <2>13. Steps(r.op) = p11
    BY <1>12, <2>1, <2>3, <2>5, <2>7, <2>9, <2>11 DEF Steps
  <2>14. QED
    BY <2>13, <2>12 DEF Plain, Opening, Reading
<1>13. QED
  BY <1>1, <1>2, <1>3, <1>4, <1>5, <1>6, <1>7, <1>8, <1>9, <1>10, <1>11, <1>12 DEF Request

-----------------------------------------------------------------------------
\* What a thread does with its program.

ProgramInv == \A t \in Thread : ReadFirst(todo[t], copy[t]) /\ PutBeforeList(todo[t])

RequestsType ==
    /\ req \in [Thread -> Request \union {NoRequest}]
    /\ todo \in [Thread -> Seq(StepName)]
    /\ copy \in [Thread -> UserRow \union {NoCopy}]

ThreadInv == RequestsType /\ ProgramInv

\* What is left of a program after its first n steps.
Leaves(p, n, q) ==
    /\ q \in Seq(StepName)
    /\ PutBeforeList(p) => PutBeforeList(q)
    /\ \A i \in DOMAIN q : i + n \in DOMAIN p /\ q[i] = p[i + n]

LEMMA Suffix ==
  ASSUME NEW p \in Seq(StepName), NEW n \in Nat
  PROVE  Leaves(p, n, SubSeq(p, n + 1, Len(p)))
<1> DEFINE q == SubSeq(p, n + 1, Len(p))
<1>1. Len(p) \in Nat /\ DOMAIN p = 1 .. Len(p) /\ \A i \in 1 .. Len(p) : p[i] \in StepName
  BY LenProperties, ElementOfSeq
<1>2. \A i \in n + 1 .. Len(p) : i \in 1 .. Len(p) /\ p[i] \in StepName
  BY <1>1
<1>3. /\ q \in Seq(StepName) /\ Len(q) = IF n + 1 <= Len(p) THEN Len(p) - (n + 1) + 1 ELSE 0
      /\ \A i \in 1 .. Len(p) - (n + 1) + 1 : q[i] = p[(n + 1) + i - 1]
  <2>1. n + 1 \in Int /\ Len(p) \in Int
    BY <1>1
  <2>2. QED
    BY <1>2, <2>1, SubSeqProperties
<1> HIDE DEF q
<1>4. DOMAIN q = 1 .. Len(q)
  BY <1>3, LenProperties
<1>5. \A i \in 1 .. Len(q) : /\ i \in 1 .. Len(p) - (n + 1) + 1
                             /\ (n + 1) + i - 1 = i + n /\ i + n \in 1 .. Len(p)
  <2>1. PICK l \in Nat : l = Len(p)
    BY <1>1
  <2>2. CASE n + 1 <= l
    BY <1>3, <2>1, <2>2
  <2>3. CASE ~(n + 1 <= l)
    <3>1. 1 .. Len(q) = {}
      BY <1>3, <2>1, <2>3
    <3>2. QED
      BY <3>1
  <2>4. QED
    BY <2>2, <2>3
<1>6. \A i \in DOMAIN q : i \in Nat /\ i + n \in DOMAIN p /\ q[i] = p[i + n]
  <2>1. TAKE i \in DOMAIN q
  <2>2. i \in 1 .. Len(q) /\ i \in Nat
    BY <1>4
  <2>3. /\ i \in 1 .. Len(p) - (n + 1) + 1
        /\ (n + 1) + i - 1 = i + n /\ i + n \in 1 .. Len(p)
    BY <1>5, <2>2
  <2>4. q[i] = p[(n + 1) + i - 1]
    BY <1>3, <2>3
  <2>5. QED
    BY <1>1, <2>2, <2>3, <2>4
<1>7. ASSUME PutBeforeList(p) PROVE PutBeforeList(q)
  <2>1. \A i, j \in Nat : j + n < i + n => j < i
    OBVIOUS
  <2>2. QED
    BY <1>6, <1>7, <2>1 DEF PutBeforeList
<1>8. Leaves(p, n, q)
  BY <1>3, <1>6, <1>7 DEF Leaves
<1>9. QED
  BY <1>8 DEF q

LEMMA TailSuffix ==
  ASSUME NEW p \in Seq(StepName), p # <<>>
  PROVE  Tail(p) = SubSeq(p, 1 + 1, Len(p)) /\ Head(p) = p[1] /\ Head(p) \in StepName
<1>1. 1 + 1 = 2
  OBVIOUS
<1>2. QED
  BY <1>1, TailIsSubSeq, HeadTailProperties

\* The request is answered.
LEMMA EndsKeeps ==
  ASSUME ThreadInv, NEW t \in Thread, Ends(t)
  PROVE  ThreadInv'
<1>1. /\ req' \in [Thread -> Request \union {NoRequest}] /\ todo' \in [Thread -> Seq(StepName)]
      /\ copy' \in [Thread -> UserRow \union {NoCopy}]
      /\ todo'[t] = <<>>
      /\ \A s \in Thread : s # t => todo'[s] = todo[s] /\ copy'[s] = copy[s]
  <2>1. <<>> \in Seq(StepName)
    OBVIOUS
  <2>2. QED
    BY <2>1 DEF ThreadInv, RequestsType, Ends
<1>2. ReadFirst(todo'[t], copy'[t]) /\ PutBeforeList(todo'[t])
  <2>1. DOMAIN todo'[t] = {}
    BY <1>1
  <2>2. QED
    BY <2>1 DEF ReadFirst, PutBeforeList
<1>3. \A s \in Thread : ReadFirst(todo'[s], copy'[s]) /\ PutBeforeList(todo'[s])
  BY <1>1, <1>2 DEF ThreadInv, ProgramInv
<1>4. QED
  BY <1>1, <1>3 DEF ThreadInv, ProgramInv, RequestsType

\* The request goes on after its first n steps, and what it read is still there, or nobody
\* was read in these steps, or nobody is put back any more.
LEMMA GoesOn ==
  ASSUME ThreadInv, NEW t \in Thread, NEW n \in Nat,
         todo' = [todo EXCEPT ![t] = SubSeq(todo[t], n + 1, Len(todo[t]))],
         NEW c \in UserRow \union {NoCopy}, copy' = [copy EXCEPT ![t] = c],
         UNCHANGED req,
         \/ c # NoCopy
         \/ c = copy[t] /\ \A i \in 1 .. n : i \in DOMAIN todo[t] => todo[t][i] \notin Reads
         \/ Lacks(todo'[t], "putCopy")
  PROVE  ThreadInv'
<1>1. PICK p \in Seq(StepName) : p = todo[t]
  BY DEF ThreadInv, RequestsType
<1>2. PICK q : q = SubSeq(p, n + 1, Len(p))
  OBVIOUS
<1>3. /\ q \in Seq(StepName)
      /\ PutBeforeList(p) => PutBeforeList(q)
      /\ \A i \in DOMAIN q : i + n \in DOMAIN p /\ q[i] = p[i + n]
  <2>1. Leaves(p, n, q)
    BY <1>2, Suffix
  <2>2. QED
    BY <2>1 DEF Leaves
<1>4. /\ req' \in [Thread -> Request \union {NoRequest}] /\ todo' \in [Thread -> Seq(StepName)]
      /\ copy' \in [Thread -> UserRow \union {NoCopy}]
      /\ todo'[t] = q /\ copy'[t] = c
      /\ \A s \in Thread : s # t => todo'[s] = todo[s] /\ copy'[s] = copy[s]
  BY <1>1, <1>2, <1>3 DEF ThreadInv, RequestsType
<1>5. PutBeforeList(q) /\ ReadFirst(p, copy[t])
  BY <1>1, <1>3 DEF ThreadInv, ProgramInv
<1>6. ReadFirst(q, c)
  <2>1. CASE c # NoCopy
    BY <2>1 DEF ReadFirst
  <2>2. CASE Lacks(todo'[t], "putCopy")
    BY <1>4, <2>2 DEF Lacks, ReadFirst
  <2>3. CASE /\ c = copy[t] /\ c = NoCopy
             /\ \A i \in 1 .. n : i \in DOMAIN todo[t] => todo[t][i] \notin Reads
    <3>1. SUFFICES ASSUME NEW i \in DOMAIN q, q[i] = "putCopy"
                   PROVE  \E j \in 1 .. i - 1 : q[j] \in Reads
      BY DEF ReadFirst
    <3>2. PICK j \in 1 .. (i + n) - 1 : p[j] \in Reads
      BY <1>3, <1>5, <2>3, <3>1 DEF ReadFirst
    <3>3. DOMAIN p = 1 .. Len(p) /\ Len(p) \in Nat /\ DOMAIN q = 1 .. Len(q) /\ Len(q) \in Nat
      BY <1>3, LenProperties
    <3>4. j \in DOMAIN p
      BY <1>3, <3>1, <3>2, <3>3
    <3>5. j \notin 1 .. n
      BY <1>1, <2>3, <3>2, <3>4
    <3>6. j - n \in 1 .. i - 1 /\ j - n \in DOMAIN q /\ (j - n) + n = j
      BY <3>1, <3>2, <3>3, <3>5
    <3>7. q[j - n] = p[j]
      BY <1>3, <3>6
    <3>8. QED
      BY <3>2, <3>6, <3>7
  <2>4. QED
    BY <2>1, <2>2, <2>3
<1>7. \A s \in Thread : ReadFirst(todo'[s], copy'[s]) /\ PutBeforeList(todo'[s])
  BY <1>4, <1>5, <1>6 DEF ThreadInv, ProgramInv
<1>8. QED
  BY <1>4, <1>7 DEF ThreadInv, ProgramInv, RequestsType

\* The step at hand is the first one of the program.
LEMMA AtFirst ==
  ASSUME ThreadInv, NEW t \in Thread, NEW step, At(t, step)
  PROVE  /\ todo[t] \in Seq(StepName) /\ todo[t] # <<>> /\ todo[t][1] = step
         /\ 1 \in DOMAIN todo[t] /\ Tail(todo[t]) = SubSeq(todo[t], 1 + 1, Len(todo[t]))
<1>1. todo[t] \in Seq(StepName) /\ todo[t] # <<>> /\ Head(todo[t]) = step
  BY DEF ThreadInv, RequestsType, At
<1>2. PICK p \in Seq(StepName) : p = todo[t]
  BY <1>1
<1>3. p # <<>> /\ Tail(p) = SubSeq(p, 1 + 1, Len(p)) /\ Head(p) = p[1]
  BY <1>1, <1>2, TailSuffix
<1>4. 1 \in DOMAIN p
  BY <1>3, LenProperties, EmptySeq
<1>5. QED
  BY <1>1, <1>2, <1>3, <1>4

LEMMA Moves ==
  ASSUME ThreadInv, NEW t \in Thread, NEW step, At(t, step),
         Advance(t) \/ todo' = [todo EXCEPT ![t] = Tail(todo[t])]
  PROVE  todo'[t] # todo[t]
<1>1. todo[t] \in Seq(StepName) /\ todo[t] # <<>> /\ t \in DOMAIN todo
  BY AtFirst DEF ThreadInv, RequestsType
<1>2. Tail(todo[t]) # todo[t]
  <2>1. Len(todo[t]) \in Nat /\ Len(Tail(todo[t])) = Len(todo[t]) - 1
    BY <1>1, HeadTailProperties, LenProperties
  <2>2. \A n \in Nat : n - 1 # n
    OBVIOUS
  <2>3. QED
    BY <2>1, <2>2
<1>3. todo'[t] = <<>> \/ todo'[t] = Tail(todo[t])
  BY <1>1 DEF Advance, Ends
<1>4. QED
  BY <1>1, <1>2, <1>3

LEMMA AdvanceKeeps ==
  ASSUME ThreadInv, NEW t \in Thread, NEW step, At(t, step), step \notin Reads, Advance(t)
  PROVE  ThreadInv'
<1>1. CASE Ends(t)
  BY <1>1, EndsKeeps
<1>2. CASE todo' = [todo EXCEPT ![t] = Tail(todo[t])] /\ UNCHANGED <<req, copy>>
  <2>1. todo' = [todo EXCEPT ![t] = SubSeq(todo[t], 1 + 1, Len(todo[t]))]
    BY <1>2, AtFirst
  <2>2. copy' = [copy EXCEPT ![t] = copy[t]] /\ copy[t] \in UserRow \union {NoCopy}
    BY <1>2 DEF ThreadInv, RequestsType
  <2>3. \A i \in 1 .. 1 : i = 1
    OBVIOUS
  <2>4. \A i \in 1 .. 1 : i \in DOMAIN todo[t] => todo[t][i] \notin Reads
    BY <2>3, AtFirst
  <2>5. UNCHANGED req /\ 1 \in Nat
    BY <1>2
  <2>6. QED
    BY <2>1, <2>2, <2>4, <2>5, GoesOn
<1>3. QED
  BY <1>1, <1>2 DEF Advance

\* A user is read, or completed: the request goes on with him.
LEMMA CopyKeeps ==
  ASSUME ThreadInv, NEW t \in Thread, NEW step, At(t, step), NEW u \in UserRow,
         copy' = [copy EXCEPT ![t] = u], todo' = [todo EXCEPT ![t] = Tail(todo[t])],
         UNCHANGED req
  PROVE  ThreadInv'
<1>1. todo' = [todo EXCEPT ![t] = SubSeq(todo[t], 1 + 1, Len(todo[t]))]
  BY AtFirst
<1>2. u # NoCopy /\ u \in UserRow \union {NoCopy} /\ 1 \in Nat
  BY ConstantTypes
<1>3. QED
  BY <1>1, <1>2, GoesOn

\* The department is listed already: saving the list is skipped.
LEMMA SkipKeeps ==
  ASSUME ThreadInv, NEW t \in Thread, At(t, "listDept"), SkipTo(t, 3)
  PROVE  ThreadInv'
<1>1. CASE Ends(t)
  BY <1>1, EndsKeeps
<1>2. CASE /\ todo' = [todo EXCEPT ![t] = SubSeq(todo[t], 3 + 1, Len(todo[t]))]
           /\ UNCHANGED <<req, copy>>
  <2>1. PICK p \in Seq(StepName) : p = todo[t]
    BY AtFirst
  <2>2. p[1] = "listDept" /\ 1 \in DOMAIN p /\ PutBeforeList(p)
    BY <2>1, AtFirst DEF ThreadInv, ProgramInv
  <2>3. PICK q : q = SubSeq(p, 3 + 1, Len(p))
    OBVIOUS
  <2>4. Leaves(p, 3, q)
    BY <2>3, Suffix
  <2>5. todo'[t] = q
    BY <1>2, <2>1, <2>3 DEF ThreadInv, RequestsType
  <2>6. \A i \in DOMAIN q : i \in Nat /\ ~(i + 3 < 1)
    <3>1. DOMAIN q = 1 .. Len(q) /\ Len(q) \in Nat
      BY <2>4, LenProperties DEF Leaves
    <3>2. QED
      BY <3>1
  <2>7. Lacks(q, "putCopy")
    BY <2>2, <2>4, <2>6 DEF Leaves, Lacks, PutBeforeList
  <2>8. copy' = [copy EXCEPT ![t] = copy[t]] /\ copy[t] \in UserRow \union {NoCopy}
    BY <1>2 DEF ThreadInv, RequestsType
  <2>9. UNCHANGED req /\ 3 \in Nat /\ Lacks(todo'[t], "putCopy")
    BY <1>2, <2>5, <2>7
  <2>10. QED
    BY <1>2, <2>8, <2>9, GoesOn
<1>3. QED
  BY <1>1, <1>2 DEF SkipTo

\* A request has its fields.
LEMMA RequestFields ==
  ASSUME ThreadInv, NEW t \in Thread
  PROVE  /\ req[t].id \in Int /\ req[t].cards \in SUBSET Card
         /\ req[t].dept \in Dept \union {NoDept} /\ req[t].to \in Dept \union {NoDept}
         /\ req[t].rows \in Seq(UserRow)
<1>1. req[t] \in Request \union {NoRequest}
  BY DEF ThreadInv, RequestsType
<1>2. CASE req[t] \in Request
  BY <1>2 DEF Request
<1>3. CASE req[t] = NoRequest
  <2>1. <<>> \in Seq(UserRow)
    OBVIOUS
  <2>2. QED
    BY <1>3, <2>1 DEF NoRequest
<1>4. QED
  BY <1>1, <1>2, <1>3

-----------------------------------------------------------------------------
\* The steps on users_.

\* Nobody gains a card but by a step of t that names the card, replaces the registry, or
\* writes back a user as he was read before, or without an id.
Gains(t) ==
    \A c, y : y \in Owners(users', c) /\ y \notin Owners(users, c) =>
        /\ todo'[t] # todo[t]
        /\ \/ c \in req[t].cards
           \/ At(t, "replace")
           \/ /\ At(t, "putCopy")
              /\ copy[t].id <= 0 \/ copy[t] \notin {users[i] : i \in DOMAIN users}

OwnersInMemory == ~imported => OneOwnerEach(users)

UserEffect(t) ==
    /\ users' \in Seq(UserRow)
    /\ imported' \in BOOLEAN
    /\ OwnersInMemory => OwnersInMemory'
    /\ ThreadInv'
    /\ Gains(t)

UsersTyped == users \in Seq(UserRow) /\ imported \in BOOLEAN /\ ThreadInv

LEMMA SameUsers ==
  ASSUME UsersTyped, NEW t \in Thread, ThreadInv', UNCHANGED <<users, imported>>
  PROVE  UserEffect(t)
BY DEF UsersTyped, UserEffect, Gains, OwnersInMemory

\* A step that goes on, and the cards it may give away.
LEMMA NewUsers ==
  ASSUME UsersTyped, NEW t \in Thread, NEW step, At(t, step), ThreadInv',
         Advance(t) \/ todo' = [todo EXCEPT ![t] = Tail(todo[t])], UNCHANGED imported,
         users' \in Seq(UserRow), OneOwnerEach(users) => OneOwnerEach(users'),
         \A c, y : y \in Owners(users', c) /\ y \notin Owners(users, c) => c \in req[t].cards
  PROVE  UserEffect(t)
<1>1. todo'[t] # todo[t]
  BY Moves DEF UsersTyped
<1>2. Gains(t)
  BY <1>1 DEF Gains
<1>3. QED
  BY <1>2 DEF UserEffect, UsersTyped, OwnersInMemory

LEMMA UpsertUserEffect ==
  ASSUME UsersTyped, NEW t \in Thread, UpsertUser(t)
  PROVE  UserEffect(t)
<1>1. PICK u \in UserRow : u = [id |-> req[t].id, cards |-> req[t].cards, dept |-> req[t].dept]
  <2>1. /\ req[t].id \in Int /\ req[t].cards \in SUBSET Card
        /\ req[t].dept \in Dept \union {NoDept}
    BY RequestFields DEF UsersTyped
  <2>2. QED
    BY <2>1 DEF UserRow
<1>2. /\ At(t, "upsert") /\ users' = Upserted(users, u) /\ Advance(t) /\ UNCHANGED imported
  BY <1>1 DEF UpsertUser
<1>3. u.cards = req[t].cards
  BY <1>1
<1>4. /\ users' \in Seq(UserRow) /\ (OneOwnerEach(users) => OneOwnerEach(users'))
      /\ \A c, y : y \in Owners(users', c) /\ y \notin Owners(users, c) => c \in req[t].cards
  BY <1>2, <1>3, UpsertedEffect DEF UsersTyped
<1>5. ThreadInv'
  BY <1>2, AdvanceKeeps DEF UsersTyped, Reads
<1>6. QED
  BY <1>2, <1>4, <1>5, NewUsers

LEMMA EraseUserEffect ==
  ASSUME UsersTyped, NEW t \in Thread, EraseUser(t)
  PROVE  UserEffect(t)
<1>1. /\ At(t, "erase") /\ users' = Erased(users, {req[t].id})
      /\ Ends(t) \/ Advance(t)
  BY DEF EraseUser
<1>2. UNCHANGED imported
  BY DEF EraseUser
<1>3. /\ users' \in Seq(UserRow) /\ (OneOwnerEach(users) => OneOwnerEach(users'))
      /\ \A c, y : y \in Owners(users', c) => y \in Owners(users, c)
  BY <1>1, ErasedEffect DEF UsersTyped
<1>4. ThreadInv'
  BY <1>1, AdvanceKeeps, EndsKeeps DEF UsersTyped, Reads
<1>5. Gains(t)
  BY <1>3 DEF Gains
<1>6. QED
  BY <1>2, <1>3, <1>4, <1>5 DEF UserEffect, UsersTyped, OwnersInMemory

LEMMA AssignCardEffect ==
  ASSUME UsersTyped, NEW t \in Thread, AssignCard(t)
  PROVE  UserEffect(t)
<1>1. At(t, "assign") /\ Advance(t) /\ UNCHANGED imported
  BY DEF AssignCard
<1>2. PICK id \in IdsOf(users) : id = req[t].id
  BY DEF AssignCard
<1>3. PICK c \in req[t].cards : users' = Assigned(users, id, c)
  BY <1>2 DEF AssignCard
<1>4. c \in Card
  BY <1>3, RequestFields DEF UsersTyped
<1>5. /\ users' \in Seq(UserRow) /\ (OneOwnerEach(users) => OneOwnerEach(users'))
      /\ \A d, y : y \in Owners(users', d) /\ y \notin Owners(users, d) => d = c
  BY <1>3, <1>4, AssignedEffect DEF UsersTyped
<1>6. ThreadInv'
  BY <1>1, AdvanceKeeps DEF UsersTyped, Reads
<1>7. \A d, y : y \in Owners(users', d) /\ y \notin Owners(users, d) => d \in req[t].cards
  BY <1>3, <1>5
<1>8. QED
  BY <1>1, <1>5, <1>6, <1>7, NewUsers

LEMMA AssignToMissingEffect ==
  ASSUME UsersTyped, NEW t \in Thread, AssignToMissing(t)
  PROVE  UserEffect(t)
<1>1. At(t, "assign") /\ Ends(t) /\ UNCHANGED imported
  BY DEF AssignToMissing
<1>2. PICK c \in req[t].cards : users' = Released(users, c)
  BY DEF AssignToMissing
<1>3. c \in Card
  BY <1>2, RequestFields DEF UsersTyped
<1>4. /\ users' \in Seq(UserRow) /\ (OneOwnerEach(users) => OneOwnerEach(users'))
      /\ \A d, y : y \in Owners(users', d) => y \in Owners(users, d)
  BY <1>2, <1>3, ReleasedEffect DEF UsersTyped
<1>5. ThreadInv'
  BY <1>1, EndsKeeps DEF UsersTyped
<1>6. Gains(t)
  BY <1>4 DEF Gains
<1>7. QED
  BY <1>1, <1>4, <1>5, <1>6 DEF UserEffect, UsersTyped, OwnersInMemory

LEMMA RemoveCardEffect ==
  ASSUME UsersTyped, NEW t \in Thread, RemoveCard(t)
  PROVE  UserEffect(t)
<1>1. At(t, "release") /\ (Ends(t) \/ Advance(t)) /\ UNCHANGED imported
  BY DEF RemoveCard
<1>2. PICK c \in req[t].cards : users' = Released(users, c)
  BY DEF RemoveCard
<1>3. c \in Card
  BY <1>2, RequestFields DEF UsersTyped
<1>4. /\ users' \in Seq(UserRow) /\ (OneOwnerEach(users) => OneOwnerEach(users'))
      /\ \A d, y : y \in Owners(users', d) => y \in Owners(users, d)
  BY <1>2, <1>3, ReleasedEffect DEF UsersTyped
<1>5. ThreadInv'
  BY <1>1, AdvanceKeeps, EndsKeeps DEF UsersTyped, Reads
<1>6. Gains(t)
  BY <1>4 DEF Gains
<1>7. QED
  BY <1>1, <1>4, <1>5, <1>6 DEF UserEffect, UsersTyped, OwnersInMemory

LEMMA EnsureUserForCardEffect ==
  ASSUME UsersTyped, NEW t \in Thread, EnsureUserForCard(t)
  PROVE  UserEffect(t)
<1>1. At(t, "ensureUser") /\ UNCHANGED imported
  BY DEF EnsureUserForCard
<1>2. PICK c \in req[t].cards :
        \/ /\ Owners(users, c) = {}
           /\ users' = Append(users, [id |-> NextId(users), cards |-> {c}, dept |-> NoDept])
           /\ Advance(t)
        \/ Ends(t) /\ UNCHANGED users
  BY DEF EnsureUserForCard
<1>3. CASE Ends(t) /\ UNCHANGED users
  BY <1>1, <1>3, EndsKeeps, SameUsers DEF UsersTyped
<1>4. CASE /\ Owners(users, c) = {}
           /\ users' = Append(users, [id |-> NextId(users), cards |-> {c}, dept |-> NoDept])
           /\ Advance(t)
  <2>1. c \in Card
    BY <1>2, RequestFields DEF UsersTyped
  <2>2. NextId(users) \in Int /\ NextId(users) > 0
    BY NextIdNew DEF UsersTyped
  <2>3. PICK u \in UserRow : u = [id |-> NextId(users), cards |-> {c}, dept |-> NoDept]
    BY <2>1, <2>2 DEF UserRow
  <2>4. u.id = NextId(users) /\ u.cards = {c} /\ users' = Append(users, u)
    BY <1>4, <2>3
  <2>5. /\ users' \in Seq(UserRow) /\ (OneOwnerEach(users) => OneOwnerEach(users'))
        /\ \A d, y : y \in Owners(users', d) /\ y \notin Owners(users, d) => d = c
    BY <1>4, <2>1, <2>4, CreatedEffect DEF UsersTyped
  <2>6. ThreadInv'
    BY <1>1, <1>4, AdvanceKeeps DEF UsersTyped, Reads
  <2>7. \A d, y : y \in Owners(users', d) /\ y \notin Owners(users, d) => d \in req[t].cards
    BY <1>2, <2>5
  <2>8. QED
    BY <1>1, <1>4, <2>5, <2>6, <2>7, NewUsers
<1>5. QED
  BY <1>2, <1>3, <1>4

LEMMA ImportCsvEffect ==
  ASSUME UsersTyped, NEW t \in Thread, ImportCsv(t)
  PROVE  UserEffect(t)
<1>1. At(t, "replace") /\ users' = req[t].rows /\ imported' = TRUE /\ Advance(t)
  BY DEF ImportCsv
<1>2. users' \in Seq(UserRow)
  BY <1>1, RequestFields DEF UsersTyped
<1>3. ThreadInv'
  BY <1>1, AdvanceKeeps DEF UsersTyped, Reads
<1>4. todo'[t] # todo[t]
  BY <1>1, Moves DEF UsersTyped
<1>5. Gains(t)
  BY <1>1, <1>4 DEF Gains
<1>6. QED
  BY <1>1, <1>2, <1>3, <1>5 DEF UserEffect, OwnersInMemory

LEMMA MoveUsersEffect ==
  ASSUME UsersTyped, NEW t \in Thread, MoveUsers(t)
  PROVE  UserEffect(t)
<1>1. /\ At(t, "moveUsers") /\ Advance(t) /\ UNCHANGED imported
      /\ users' = [i \in DOMAIN users |->
                     IF users[i].dept = req[t].dept THEN [users[i] EXCEPT !.dept = req[t].to]
                     ELSE users[i]]
  BY DEF MoveUsers
<1>2. users \in Seq(UserRow) /\ \A i \in DOMAIN users : users[i] \in UserRow
  BY RowFields DEF UsersTyped
<1>3. req[t].to \in Dept \union {NoDept}
  BY RequestFields DEF UsersTyped
<1>4. \A i \in DOMAIN users :
        /\ users'[i] \in UserRow
        /\ users'[i].id = users[i].id /\ users'[i].cards = users[i].cards
  <2>1. TAKE i \in DOMAIN users
  <2>2. PICK r \in UserRow, d \in Dept \union {NoDept} : r = users[i] /\ d = req[t].to
    BY <1>2, <1>3
  <2>3. users'[i] = r \/ users'[i] = [r EXCEPT !.dept = d]
    BY <1>1, <2>2
  <2>4. /\ [r EXCEPT !.dept = d] \in UserRow
        /\ [r EXCEPT !.dept = d].id = r.id /\ [r EXCEPT !.dept = d].cards = r.cards
    BY RowIn
  <2>5. QED
    BY <2>2, <2>3, <2>4
<1>5. PICK us : us = users'
  OBVIOUS
<1>6. us \in [DOMAIN users -> UserRow]
  BY <1>1, <1>4, <1>5
<1>7. us \in Seq(UserRow) /\ DOMAIN us = DOMAIN users
  BY <1>2, <1>6, RowsAgain
<1>8. \A i \in DOMAIN users : us[i].id = users[i].id /\ us[i].cards = users[i].cards
  BY <1>4, <1>5
<1>9. OneOwnerEach(users) => OneOwnerEach(us)
  BY <1>7, <1>8 DEF OneOwnerEach
<1>10. \A c, y : y \in Owners(us, c) => y \in Owners(users, c)
  BY <1>7, <1>8 DEF Owners
<1>11. ThreadInv'
  BY <1>1, AdvanceKeeps DEF UsersTyped, Reads
<1>12. Gains(t)
  BY <1>5, <1>10 DEF Gains
<1>13. QED
  BY <1>1, <1>5, <1>7, <1>9, <1>11, <1>12 DEF UserEffect, UsersTyped, OwnersInMemory

\* The user an import works on is one of the registry.
LEMMA OwnerRow ==
  ASSUME NEW us \in Seq(UserRow), NEW c \in Card, Owners(us, c) # {}
  PROVE  FirstUser(us, LAMBDA u : c \in u.cards) \in UserRow
<1> DEFINE I == {i \in 1 .. Len(us) : c \in us[i].cards}
<1>1. Len(us) \in Nat /\ DOMAIN us = 1 .. Len(us)
  BY RowFields
<1>2. I \in SUBSET Nat /\ I # {}
  BY <1>1 DEF Owners
<1>3. Min(I) \in I
  BY <1>2, MinOf
<1>4. SelectInSeq(us, LAMBDA u : c \in u.cards) = Min(I)
  BY <1>2 DEF SelectInSeq
<1>5. Min(I) \in DOMAIN us
  BY <1>1, <1>3
<1>6. us[Min(I)] \in UserRow
  BY <1>5, RowFields
<1>7. QED
  BY <1>4, <1>6 DEF FirstUser

LEMMA IdRow ==
  ASSUME NEW us \in Seq(UserRow), NEW id \in IdsOf(us)
  PROVE  FirstUser(us, LAMBDA u : u.id = id) \in UserRow
<1> DEFINE i == Min({k \in 1 .. Len(us) : us[k].id = id})
<1>1. i \in DOMAIN us
  BY FirstRow
<1>2. SelectInSeq(us, LAMBDA x : x.id = id) = i
  BY FirstRow DEF SelectInSeq
<1>3. us[i] \in UserRow
  BY <1>1, RowFields
<1>4. QED
  BY <1>2, <1>3 DEF FirstUser

LEMMA CopyOwnerEffect ==
  ASSUME UsersTyped, NEW t \in Thread, CopyOwner(t)
  PROVE  UserEffect(t)
<1>1. At(t, "copyOwner") /\ UNCHANGED <<users, imported>>
  BY DEF CopyOwner
<1>2. PICK c \in req[t].cards :
        \/ Ends(t)
        \/ /\ Owners(users, c) # {}
           /\ copy' = [copy EXCEPT ![t] = FirstUser(users, LAMBDA u : c \in u.cards)]
           /\ todo' = [todo EXCEPT ![t] = Tail(todo[t])]
           /\ UNCHANGED req
  BY DEF CopyOwner
<1>3. ThreadInv'
  <2>1. CASE Ends(t)
    BY <2>1, EndsKeeps DEF UsersTyped
  <2>2. CASE ~Ends(t)
    <3>1. PICK u \in UserRow : u = FirstUser(users, LAMBDA x : c \in x.cards)
      <4>1. c \in Card /\ Owners(users, c) # {} /\ users \in Seq(UserRow)
        BY <1>2, <2>2, RequestFields DEF UsersTyped
      <4>2. QED
        BY <4>1, OwnerRow
    <3>2. copy' = [copy EXCEPT ![t] = u]
      BY <1>2, <2>2, <3>1
    <3>3. QED
      BY <1>1, <1>2, <2>2, <3>2, CopyKeeps DEF UsersTyped
  <2>3. QED
    BY <2>1, <2>2
<1>4. QED
  BY <1>1, <1>3, SameUsers

LEMMA CopyUserEffect ==
  ASSUME UsersTyped, NEW t \in Thread, CopyUser(t)
  PROVE  UserEffect(t)
<1>1. At(t, "copyUser") /\ UNCHANGED <<users, imported>>
  BY DEF CopyUser
<1>2. PICK id : id = req[t].id
  OBVIOUS
<1>3. \/ Ends(t)
      \/ /\ id \in IdsOf(users)
         /\ copy' = [copy EXCEPT ![t] = FirstUser(users, LAMBDA u : u.id = id)]
         /\ todo' = [todo EXCEPT ![t] = Tail(todo[t])]
         /\ UNCHANGED req
  BY <1>2 DEF CopyUser
<1>4. ThreadInv'
  <2>1. CASE Ends(t)
    BY <2>1, EndsKeeps DEF UsersTyped
  <2>2. CASE ~Ends(t)
    <3>1. PICK u \in UserRow : u = FirstUser(users, LAMBDA x : x.id = id)
      BY <1>3, <2>2, IdRow DEF UsersTyped
    <3>2. copy' = [copy EXCEPT ![t] = u]
      BY <1>3, <2>2, <3>1
    <3>3. QED
      BY <1>1, <1>3, <2>2, <3>2, CopyKeeps DEF UsersTyped
  <2>3. QED
    BY <2>1, <2>2
<1>5. QED
  BY <1>1, <1>4, SameUsers

LEMMA CheckFreeEffect ==
  ASSUME UsersTyped, NEW t \in Thread, CheckFree(t)
  PROVE  UserEffect(t)
<1>1. At(t, "checkFree") /\ UNCHANGED <<users, imported>>
  BY DEF CheckFree
<1>2. PICK c \in req[t].cards :
        \/ Advance(t)
        \/ /\ Owners(users, c) # {}
           /\ copy' = [copy EXCEPT ![t] = FirstUser(users, LAMBDA u : c \in u.cards)]
           /\ todo' = [todo EXCEPT ![t] = SubSeq(todo[t], 5, Len(todo[t]))]
           /\ UNCHANGED req
  BY DEF CheckFree
<1>3. ThreadInv'
  <2>1. CASE Advance(t)
    BY <1>1, <2>1, AdvanceKeeps DEF UsersTyped, Reads
  <2>2. CASE ~Advance(t)
    <3>1. PICK u \in UserRow : u = FirstUser(users, LAMBDA x : c \in x.cards)
      <4>1. c \in Card /\ Owners(users, c) # {} /\ users \in Seq(UserRow)
        BY <1>2, <2>2, RequestFields DEF UsersTyped
      <4>2. QED
        BY <4>1, OwnerRow
    <3>2. copy' = [copy EXCEPT ![t] = u]
      BY <1>2, <2>2, <3>1
    <3>3. u # NoCopy /\ u \in UserRow \union {NoCopy} /\ 4 \in Nat /\ 4 + 1 = 5
      BY ConstantTypes
    <3>4. todo' = [todo EXCEPT ![t] = SubSeq(todo[t], 4 + 1, Len(todo[t]))]
      BY <1>2, <2>2, <3>3
    <3>5. QED
      BY <1>2, <2>2, <3>2, <3>3, <3>4, GoesOn DEF UsersTyped
  <2>3. QED
    BY <2>1, <2>2
<1>4. QED
  BY <1>1, <1>3, SameUsers

LEMMA UpsertNewEffect ==
  ASSUME UsersTyped, NEW t \in Thread, UpsertNew(t)
  PROVE  UserEffect(t)
<1>1. NextId(users) \in Int /\ NextId(users) > 0
  BY NextIdNew DEF UsersTyped
<1>2. req[t].cards \in SUBSET Card /\ req[t].dept \in Dept \union {NoDept}
  BY RequestFields DEF UsersTyped
<1>3. PICK u \in UserRow :
        u = [id |-> NextId(users), cards |-> req[t].cards, dept |-> req[t].dept]
  BY <1>1, <1>2 DEF UserRow
<1>4. /\ At(t, "upsertNew") /\ users' = Upserted(users, u)
      /\ copy' = [copy EXCEPT ![t] = u] /\ todo' = [todo EXCEPT ![t] = Tail(todo[t])]
      /\ UNCHANGED <<req, imported>>
  BY <1>3 DEF UpsertNew
<1>5. u.cards = req[t].cards
  BY <1>3
<1>6. /\ users' \in Seq(UserRow) /\ (OneOwnerEach(users) => OneOwnerEach(users'))
      /\ \A c, y : y \in Owners(users', c) /\ y \notin Owners(users, c) => c \in req[t].cards
  BY <1>4, <1>5, UpsertedEffect DEF UsersTyped
<1>7. ThreadInv'
  BY <1>4, CopyKeeps DEF UsersTyped
<1>8. QED
  BY <1>4, <1>6, <1>7, NewUsers

LEMMA PutCopyEffect ==
  ASSUME UsersTyped, NEW t \in Thread, PutCopy(t)
  PROVE  UserEffect(t)
<1>1. At(t, "putCopy") /\ UNCHANGED <<req, imported>>
  BY DEF PutCopy
<1>2. PICK row \in UserRow : row = copy[t]
  <2>1. todo[t][1] = "putCopy" /\ 1 \in DOMAIN todo[t]
    BY <1>1, AtFirst DEF UsersTyped
  <2>2. ~\E j \in 1 .. 1 - 1 : todo[t][j] \in Reads
    OBVIOUS
  <2>3. copy[t] # NoCopy
    BY <2>1, <2>2 DEF UsersTyped, ThreadInv, ProgramInv, ReadFirst
  <2>4. QED
    BY <2>3 DEF UsersTyped, ThreadInv, RequestsType
<1>3. PICK d \in Dept \union {NoDept} : d = IF row.dept = NoDept THEN req[t].dept ELSE row.dept
  <2>1. req[t].dept \in Dept \union {NoDept}
    BY RequestFields DEF UsersTyped
  <2>2. QED
    BY <2>1 DEF UserRow
<1>4. PICK w \in UserRow : w = [row EXCEPT !.dept = d]
  BY RowIn
<1>5. w.id = row.id /\ w.cards = row.cards /\ Completed(copy[t], req[t]) = w
  BY <1>2, <1>3, <1>4 DEF Completed, UserRow
<1>6. PICK u \in UserRow : /\ u = WithId(users, w) /\ u.cards = row.cards
                           /\ row.id > 0 => u.id = row.id
  <2>1. NextId(users) \in Int
    BY NextIdNew DEF UsersTyped
  <2>2. [w EXCEPT !.id = NextId(users)] \in UserRow
        /\ [w EXCEPT !.id = NextId(users)].cards = w.cards
    BY <2>1 DEF UserRow
  <2>3. w.id \in Int
    BY DEF UserRow
  <2>4. WithId(users, w) = w \/ (w.id <= 0 /\ WithId(users, w) = [w EXCEPT !.id = NextId(users)])
    BY DEF WithId
  <2>5. w.id <= 0 => ~(w.id > 0)
    BY <2>3
  <2>6. QED
    BY <1>5, <2>2, <2>4, <2>5
<1>7. /\ users' = Upserted(users, u)
      /\ copy' = [copy EXCEPT ![t] = u] /\ todo' = [todo EXCEPT ![t] = Tail(todo[t])]
  BY <1>5, <1>6 DEF PutCopy
<1>8. /\ users' \in Seq(UserRow) /\ (OneOwnerEach(users) => OneOwnerEach(users'))
      /\ \A c, y : y \in Owners(users', c) /\ y \notin Owners(users, c)
           => c \in u.cards /\ (u.id > 0 => y = u.id)
  BY <1>7, UpsertedEffect DEF UsersTyped
<1>9. ThreadInv'
  BY <1>1, <1>7, CopyKeeps DEF UsersTyped
<1>10. todo'[t] # todo[t]
  BY <1>1, <1>7, Moves DEF UsersTyped
<1>11. ASSUME row.id > 0, NEW c, NEW y, y \in Owners(users', c), y \notin Owners(users, c)
       PROVE  copy[t] \notin {users[i] : i \in DOMAIN users}
  <2>1. c \in row.cards /\ y = row.id
    BY <1>6, <1>8, <1>11
  <2>2. SUFFICES ASSUME NEW i \in DOMAIN users, copy[t] = users[i] PROVE FALSE
    OBVIOUS
  <2>3. users[i].id = y /\ c \in users[i].cards
    BY <1>2, <2>1, <2>2
  <2>4. QED
    BY <1>11, <2>3 DEF Owners
<1>12. row.id > 0 \/ copy[t].id <= 0
  BY <1>2 DEF UserRow
<1>13. Gains(t)
  BY <1>1, <1>10, <1>11, <1>12 DEF Gains
<1>14. QED
  BY <1>1, <1>8, <1>9, <1>13 DEF UserEffect, UsersTyped, OwnersInMemory

LEMMA UserStepEffect ==
  ASSUME UsersTyped, NEW t \in Thread, UserStep(t)
  PROVE  UserEffect(t)
BY UpsertUserEffect, EraseUserEffect, AssignCardEffect, RemoveCardEffect,
   EnsureUserForCardEffect, ImportCsvEffect, MoveUsersEffect, CopyOwnerEffect,
   CopyUserEffect, CheckFreeEffect, UpsertNewEffect, PutCopyEffect DEF UserStep

-----------------------------------------------------------------------------
\* The invariant: types, programs, and one owner in storage and in memory.

RegistryInv == TypeOK /\ ProgramInv /\ OneOwnerEach(storedUsers) /\ OwnersInMemory

SnapType == snap \in [Thread -> [users : Seq(UserRow), depts : SUBSET Dept]]

DeptsType == /\ depts \in SUBSET Dept /\ storedDepts \in SUBSET Dept
             /\ storedUsers \in Seq(UserRow)
             /\ legacy \in [users : Seq(UserRow), depts : SUBSET Dept]

SavesType == /\ held \in [Store -> SUBSET (Thread \X Thread)]
             /\ late \in [Store -> SUBSET Thread]
             /\ stale \in [Store -> BOOLEAN]

BoundsType == /\ up \in BOOLEAN /\ unlisted \in BOOLEAN
              /\ requests \in 0 .. MaxRequests /\ faults \in 0 .. MaxFaults
              /\ crashes \in 0 .. MaxCrashes

LEMMA InvParts ==
  RegistryInv <=> /\ UsersTyped /\ SnapType /\ DeptsType /\ SavesType /\ BoundsType
                  /\ OneOwnerEach(storedUsers) /\ OwnersInMemory
<1>1. {users, storedUsers} \subseteq Seq(UserRow)
        <=> users \in Seq(UserRow) /\ storedUsers \in Seq(UserRow)
  OBVIOUS
<1>2. {depts, storedDepts} \subseteq SUBSET Dept
        <=> depts \in SUBSET Dept /\ storedDepts \in SUBSET Dept
  OBVIOUS
<1>3. {up, imported, unlisted} \subseteq BOOLEAN
        <=> up \in BOOLEAN /\ imported \in BOOLEAN /\ unlisted \in BOOLEAN
  BY Zenon
<1>4. TypeOK /\ ProgramInv
        <=> UsersTyped /\ SnapType /\ DeptsType /\ SavesType /\ BoundsType
  BY <1>1, <1>2, <1>3, Zenon
  DEF TypeOK, MemoryType, ThreadType, HistoryType, UsersTyped, ThreadInv, RequestsType,
      SnapType, DeptsType, SavesType, BoundsType
<1>5. QED
  BY <1>4, Zenon DEF RegistryInv

LEMMA InvPartsNext ==
  RegistryInv' <=> /\ UsersTyped' /\ SnapType' /\ DeptsType' /\ SavesType' /\ BoundsType'
                   /\ OneOwnerEach(storedUsers)' /\ OwnersInMemory'
BY InvParts, PTL

\* The departments the users have are departments.
LEMMA UsedTyped ==
  ASSUME NEW us \in Seq(UserRow)
  PROVE  UsedDepts(us) \in SUBSET Dept
BY RowFields DEF UsedDepts

LEMMA DeptStepEffect ==
  ASSUME UsersTyped, SnapType, DeptsType, NEW t \in Thread, DeptStep(t)
  PROVE  /\ UsersTyped' /\ SnapType' /\ DeptsType'
         /\ UNCHANGED <<users, storedUsers, up, saveVars, imported, unlisted, boundVars>>
<1>1. req[t].dept \in Dept \union {NoDept} /\ req[t].to \in Dept \union {NoDept}
  BY RequestFields DEF UsersTyped
<1>2. copy[t] # NoCopy => copy[t] \in UserRow
  BY DEF UsersTyped, ThreadInv, RequestsType
<1>3. DeptToList(t) \in Dept \union {NoDept}
  <2>1. \A u \in UserRow : u.dept \in Dept \union {NoDept}
    BY DEF UserRow
  <2>2. QED
    BY <1>1, <1>2, <2>1 DEF DeptToList
<1>4. CASE AddDept(t)
  <2>1. At(t, "listDept") /\ (SkipTo(t, 3) \/ Advance(t)) /\ UNCHANGED restOfDepts
    BY <1>4 DEF AddDept
  <2>2. ThreadInv'
    BY <2>1, SkipKeeps, AdvanceKeeps DEF UsersTyped, Reads
  <2>3. depts' \in SUBSET Dept
    BY <1>3, <1>4 DEF AddDept, DeptsType
  <2>4. QED
    BY <2>1, <2>2, <2>3 DEF restOfDepts, storedVars, UsersTyped, SnapType, DeptsType
<1>5. CASE RenameDept(t)
  <2>1. At(t, "renameDept") /\ (Ends(t) \/ Advance(t)) /\ UNCHANGED restOfDepts
    BY <1>5 DEF RenameDept
  <2>2. ThreadInv'
    BY <2>1, EndsKeeps, AdvanceKeeps DEF UsersTyped, Reads
  <2>3. depts' \in SUBSET Dept
    BY <1>1, <1>5 DEF RenameDept, DeptsType
  <2>4. QED
    BY <2>1, <2>2, <2>3 DEF restOfDepts, storedVars, UsersTyped, SnapType, DeptsType
<1>6. CASE CheckUse(t)
  <2>1. At(t, "checkUse") /\ (Ends(t) \/ Advance(t)) /\ UNCHANGED <<depts, restOfDepts>>
    BY <1>6 DEF CheckUse
  <2>2. ThreadInv'
    BY <2>1, EndsKeeps, AdvanceKeeps DEF UsersTyped, Reads
  <2>3. QED
    BY <2>1, <2>2 DEF restOfDepts, storedVars, UsersTyped, SnapType, DeptsType
<1>7. CASE DropDept(t)
  <2>1. /\ At(t, "dropDept") /\ (Ends(t) \/ Advance(t)) /\ UNCHANGED restOfDepts
        /\ depts' = depts \ {req[t].dept}
    BY <1>7 DEF DropDept
  <2>2. ThreadInv'
    BY <2>1, EndsKeeps, AdvanceKeeps DEF UsersTyped, Reads
  <2>3. QED
    BY <2>1, <2>2 DEF restOfDepts, storedVars, UsersTyped, SnapType, DeptsType
<1>8. CASE ReadUsed(t)
  <2>1. /\ At(t, "readUsed") /\ Advance(t)
        /\ snap' = [snap EXCEPT ![t].depts = UsedDepts(users)]
        /\ UNCHANGED <<memoryVars, storedVars, legacy, up, saveVars, imported, unlisted,
                       boundVars>>
    BY <1>8 DEF ReadUsed
  <2>2. ThreadInv'
    BY <2>1, AdvanceKeeps DEF UsersTyped, Reads
  <2>3. UsedDepts(users) \in SUBSET Dept
    BY UsedTyped DEF UsersTyped
  <2>4. SnapType'
    BY <2>1, <2>3 DEF SnapType
  <2>5. QED
    BY <2>1, <2>2, <2>4 DEF memoryVars, storedVars, UsersTyped, DeptsType
<1>9. CASE EnsureDepts(t)
  <2>1. /\ At(t, "ensureDepts") /\ (Ends(t) \/ Advance(t)) /\ UNCHANGED restOfDepts
        /\ depts' = depts \union snap[t].depts
    BY <1>9 DEF EnsureDepts
  <2>2. ThreadInv'
    BY <2>1, EndsKeeps, AdvanceKeeps DEF UsersTyped, Reads
  <2>3. snap[t].depts \in SUBSET Dept
    BY DEF SnapType
  <2>4. QED
    BY <2>1, <2>2, <2>3 DEF restOfDepts, storedVars, UsersTyped, SnapType, DeptsType
<1>10. QED
  BY <1>4, <1>5, <1>6, <1>7, <1>8, <1>9 DEF DeptStep

LEMMA TakeSnapshotEffect ==
  ASSUME RegistryInv, NEW t \in Thread, NEW s \in Store, NEW step, At(t, step),
         step \notin Reads, TakeSnapshot(t, s)
  PROVE  RegistryInv' /\ UNCHANGED users
<1>1. UsersTyped /\ SnapType /\ DeptsType /\ SavesType /\ BoundsType
  BY InvParts
<1>2. /\ UNCHANGED <<memoryVars, storedVars, legacy, up, late, stale, imported, unlisted,
                     boundVars>>
      /\ Advance(t)
  BY DEF TakeSnapshot
<1>3. ThreadInv'
  BY <1>1, <1>2, AdvanceKeeps DEF UsersTyped
<1>4. SnapType'
  BY <1>1 DEF TakeSnapshot, SnapType, UsersTyped, DeptsType
<1>5. SavesType'
  <2>1. {<<a, t>> : a \in Holders(s) \union {t}} \in SUBSET (Thread \X Thread)
    <3>1. \A a \in Holders(s) \union {t} : <<a, t>> \in Thread \X Thread
      BY DEF Holders
    <3>2. QED
      BY <3>1
  <2>2. held' = [held EXCEPT ![s] = held[s] \union {<<a, t>> : a \in Holders(s) \union {t}}]
    BY DEF TakeSnapshot
  <2>3. held' \in [Store -> SUBSET (Thread \X Thread)]
    BY <1>1, <2>1, <2>2 DEF SavesType
  <2>4. QED
    BY <1>1, <1>2, <2>3 DEF SavesType
<1>6. UsersTyped' /\ DeptsType' /\ BoundsType' /\ UNCHANGED users
  BY <1>1, <1>2, <1>3
  DEF UsersTyped, DeptsType, BoundsType, memoryVars, storedVars, boundVars
<1>7. OneOwnerEach(storedUsers)' /\ OwnersInMemory'
  BY <1>2 DEF RegistryInv, OwnersInMemory, memoryVars, storedVars
<1>8. QED
  BY <1>4, <1>5, <1>6, <1>7, InvPartsNext

LEMMA CommitEffect ==
  ASSUME RegistryInv, NEW t \in Thread, NEW s \in Store, NEW step, At(t, step),
         step \notin Reads, Commit(t, s)
  PROVE  RegistryInv' /\ UNCHANGED users
<1>1. UsersTyped /\ SnapType /\ DeptsType /\ SavesType /\ BoundsType
  BY InvParts
<1>2. UNCHANGED <<memoryVars, legacy, up, imported, unlisted, boundVars>> /\ Advance(t)
  BY DEF Commit
<1>3. ThreadInv'
  BY <1>1, <1>2, AdvanceKeeps DEF UsersTyped
<1>4. snap[t].users \in Seq(UserRow) /\ snap[t].depts \in SUBSET Dept
  BY <1>1 DEF SnapType
<1>5. SnapType'
  <2>1. <<>> \in Seq(UserRow)
    OBVIOUS
  <2>2. EmptySnap \in [users : Seq(UserRow), depts : SUBSET Dept]
    BY <2>1 DEF EmptySnap
  <2>3. QED
    BY <1>1, <2>2 DEF Commit, SnapType
<1>6. DeptsType' /\ OneOwnerEach(storedUsers)'
  <2>1. CASE s = "users"
    BY <1>1, <1>2, <1>4, <2>1
    DEF Commit, Accepted, DeptsType, memoryVars
  <2>2. CASE s # "users"
    BY <1>1, <1>2, <1>4, <2>2
    DEF Commit, DeptsType, memoryVars, RegistryInv
  <2>3. QED
    BY <2>1, <2>2
<1>7. SavesType'
  <2>1. HeldWithout(t, s) \in SUBSET (Thread \X Thread)
    BY <1>1 DEF HeldWithout, SavesType
  <2>2. (late[s] \union HeldBefore(t, s)) \ {t} \in SUBSET Thread
    BY <1>1 DEF HeldBefore, Holders, SavesType
  <2>4. /\ held' = [held EXCEPT ![s] = HeldWithout(t, s)]
        /\ late' = [late EXCEPT ![s] = (late[s] \union HeldBefore(t, s)) \ {t}]
        /\ stale' = [stale EXCEPT ![s] = t \in late[s]]
    BY DEF Commit
  <2>5. stale' \in [Store -> BOOLEAN]
    <3>1. CASE t \in late[s]
      BY <1>1, <2>4, <3>1 DEF SavesType
    <3>2. CASE t \notin late[s]
      BY <1>1, <2>4, <3>2 DEF SavesType
    <3>3. QED
      BY <3>1, <3>2
  <2>6. held' \in [Store -> SUBSET (Thread \X Thread)] /\ late' \in [Store -> SUBSET Thread]
    BY <1>1, <2>1, <2>2, <2>4 DEF SavesType
  <2>7. QED
    BY <2>5, <2>6 DEF SavesType
<1>8. UsersTyped' /\ BoundsType' /\ UNCHANGED users /\ OwnersInMemory'
  BY <1>1, <1>2, <1>3
  DEF UsersTyped, BoundsType, memoryVars, boundVars, RegistryInv, OwnersInMemory
<1>9. QED
  BY <1>5, <1>6, <1>7, <1>8, InvPartsNext

LEMMA RollbackEffect ==
  ASSUME RegistryInv, NEW t \in Thread, NEW s \in Store, NEW step, At(t, step),
         step \notin Reads, NEW ignored, Rollback(t, s, ignored)
  PROVE  RegistryInv' /\ UNCHANGED users
<1>1. UsersTyped /\ SnapType /\ DeptsType /\ SavesType /\ BoundsType
  BY InvParts
<1>2. /\ UNCHANGED <<memoryVars, storedVars, legacy, up, imported, requests, crashes>>
      /\ Advance(t) \/ Ends(t)
  BY DEF Rollback
<1>3. ThreadInv'
  BY <1>1, <1>2, AdvanceKeeps, EndsKeeps DEF UsersTyped
<1>4. SnapType'
  <2>1. <<>> \in Seq(UserRow)
    OBVIOUS
  <2>2. EmptySnap \in [users : Seq(UserRow), depts : SUBSET Dept]
    BY <2>1 DEF EmptySnap
  <2>3. QED
    BY <1>1, <2>2 DEF Rollback, SnapType
<1>5. SavesType'
  <2>1. HeldWithout(t, s) \in SUBSET (Thread \X Thread)
    BY <1>1 DEF HeldWithout, SavesType
  <2>2. (late[s] \union Holders(s)) \ {t} \in SUBSET Thread
    BY <1>1 DEF Holders, SavesType
  <2>3. /\ held' = [held EXCEPT ![s] = HeldWithout(t, s)]
        /\ late' = [late EXCEPT ![s] = (late[s] \union Holders(s)) \ {t}]
        /\ stale' = [stale EXCEPT ![s] = TRUE]
    BY DEF Rollback
  <2>4. QED
    BY <1>1, <2>1, <2>2, <2>3 DEF SavesType
<1>6. faults' \in 0 .. MaxFaults
  BY <1>1, ConstantTypes DEF Rollback, BoundsType
<1>7. unlisted' \in BOOLEAN
  BY <1>1, Zenon DEF Rollback, BoundsType
<1>8. UsersTyped' /\ DeptsType' /\ BoundsType' /\ UNCHANGED users
  BY <1>1, <1>2, <1>3, <1>6, <1>7
  DEF UsersTyped, DeptsType, BoundsType, memoryVars, storedVars
<1>9. OneOwnerEach(storedUsers)' /\ OwnersInMemory'
  BY <1>2 DEF RegistryInv, OwnersInMemory, memoryVars, storedVars
<1>10. QED
  BY <1>4, <1>5, <1>8, <1>9, InvPartsNext

LEMMA SaveStepEffect ==
  ASSUME RegistryInv, NEW t \in Thread, SaveStep(t)
  PROVE  RegistryInv' /\ UNCHANGED users
<1>1. "users" \in Store /\ "depts" \in Store
  BY DEF Store
<1>2. CASE SnapUsers(t)
  BY <1>1, <1>2, TakeSnapshotEffect DEF SnapUsers, Reads
<1>3. CASE SnapDepts(t)
  BY <1>1, <1>3, TakeSnapshotEffect DEF SnapDepts, Reads
<1>4. CASE WriteUsers(t)
  <2>1. \E step \in {"writeUsers", "tryWriteUsers"}, ignored \in BOOLEAN :
          At(t, step) /\ (Commit(t, "users") \/ Rollback(t, "users", ignored))
    BY <1>4 DEF WriteUsers
  <2>2. PICK step \in {"writeUsers", "tryWriteUsers"}, ignored \in BOOLEAN :
          At(t, step) /\ (Commit(t, "users") \/ Rollback(t, "users", ignored))
    BY <2>1
  <2>3. step \notin Reads
    BY DEF Reads
  <2>4. QED
    BY <1>1, <2>2, <2>3, CommitEffect, RollbackEffect
<1>5. CASE WriteDepts(t)
  BY <1>1, <1>5, CommitEffect, RollbackEffect DEF WriteDepts, Reads
<1>6. QED
  BY <1>2, <1>3, <1>4, <1>5 DEF SaveStep

LEMMA ReceiveEffect ==
  ASSUME RegistryInv, NEW t \in Thread, Receive(t)
  PROVE  RegistryInv' /\ UNCHANGED users
<1>1. UsersTyped /\ SnapType /\ DeptsType /\ SavesType /\ BoundsType
  BY InvParts
<1>2. PICK r \in Requests :
        /\ req' = [req EXCEPT ![t] = r]
        /\ todo' = [todo EXCEPT ![t] = Steps(r.op)]
        /\ unlisted' = (unlisted \/ \E s \in Thread \ {t} :
                          todo[s] # <<>> /\ (Delicate(r.op) \/ Delicate(req[s].op)))
  BY DEF Receive
<1>3. /\ UNCHANGED <<memoryVars, storedVars, legacy, up, copy, snap, saveVars, imported,
                     faults, crashes>>
      /\ requests < MaxRequests /\ requests' = requests + 1
  BY DEF Receive
<1>4. r \in Request
  BY <1>2, ConstantTypes
<1>5. PICK p : p = Steps(r.op)
  OBVIOUS
<1>6. p \in Seq(StepName) /\ ReadFirst(p, NoCopy) /\ PutBeforeList(p)
  BY <1>4, <1>5, StepsSound DEF Program
<1>7. ReadFirst(p, copy[t])
  BY <1>6 DEF ReadFirst
<1>8. /\ req' \in [Thread -> Request \union {NoRequest}]
      /\ todo' \in [Thread -> Seq(StepName)] /\ copy' = copy
      /\ todo'[t] = p /\ \A s \in Thread : s # t => todo'[s] = todo[s]
  BY <1>1, <1>2, <1>3, <1>4, <1>5, <1>6 DEF UsersTyped, ThreadInv, RequestsType
<1>9. \A s \in Thread : ReadFirst(todo'[s], copy'[s]) /\ PutBeforeList(todo'[s])
  BY <1>1, <1>6, <1>7, <1>8 DEF UsersTyped, ThreadInv, ProgramInv
<1>10. ThreadInv'
  BY <1>1, <1>8, <1>9 DEF UsersTyped, ThreadInv, RequestsType, ProgramInv
<1>11. unlisted' \in BOOLEAN
  BY <1>2, Zenon
<1>12. requests' \in 0 .. MaxRequests
  BY <1>1, <1>3, ConstantTypes DEF BoundsType
<1>13. UsersTyped' /\ SnapType' /\ DeptsType' /\ SavesType' /\ BoundsType' /\ UNCHANGED users
  BY <1>1, <1>3, <1>10, <1>11, <1>12
  DEF UsersTyped, SnapType, DeptsType, SavesType, BoundsType, memoryVars, storedVars,
      saveVars
<1>14. OneOwnerEach(storedUsers)' /\ OwnersInMemory'
  BY <1>3 DEF RegistryInv, OwnersInMemory, memoryVars, storedVars
<1>15. QED
  BY <1>13, <1>14, InvPartsNext

\* No request is under way, and no snapshot is held.
LEMMA FreshThreads ==
  ASSUME NEW rq, NEW td, NEW cp, NEW sn,
         rq = [t \in Thread |-> NoRequest], td = [t \in Thread |-> <<>>],
         cp = [t \in Thread |-> NoCopy], sn = [t \in Thread |-> EmptySnap]
  PROVE  /\ rq \in [Thread -> Request \union {NoRequest}] /\ td \in [Thread -> Seq(StepName)]
         /\ cp \in [Thread -> UserRow \union {NoCopy}]
         /\ sn \in [Thread -> [users : Seq(UserRow), depts : SUBSET Dept]]
         /\ \A t \in Thread : ReadFirst(td[t], cp[t]) /\ PutBeforeList(td[t])
<1>1. <<>> \in Seq(UserRow) /\ <<>> \in Seq(StepName) /\ DOMAIN <<>> = {}
  OBVIOUS
<1>2. EmptySnap \in [users : Seq(UserRow), depts : SUBSET Dept]
  BY <1>1 DEF EmptySnap
<1>3. \A c : ReadFirst(<<>>, c) /\ PutBeforeList(<<>>)
  BY <1>1 DEF ReadFirst, PutBeforeList
<1>4. QED
  BY <1>1, <1>2, <1>3

LEMMA CrashEffect ==
  ASSUME RegistryInv, Crash
  PROVE  RegistryInv' /\ users' = <<>>
<1>1. UsersTyped /\ SnapType /\ DeptsType /\ SavesType /\ BoundsType
  BY InvParts
<1>2. /\ req' = [t \in Thread |-> NoRequest] /\ todo' = [t \in Thread |-> <<>>]
      /\ copy' = [t \in Thread |-> NoCopy] /\ snap' = [t \in Thread |-> EmptySnap]
      /\ crashes < MaxCrashes /\ crashes' = crashes + 1
      /\ users' = <<>> /\ depts' = {} /\ up' = FALSE
      /\ imported' = FALSE /\ unlisted' = FALSE
      /\ UNCHANGED <<storedVars, legacy, requests, faults>>
  BY DEF Crash
<1>3. ThreadInv' /\ SnapType'
  BY <1>2, FreshThreads DEF ThreadInv, RequestsType, ProgramInv, SnapType
<1>4. SavesType'
  BY DEF Crash, SavesType
<1>5. <<>> \in Seq(UserRow) /\ DOMAIN <<>> = {}
  OBVIOUS
<1>6. UsersTyped'
  BY <1>2, <1>3, <1>5 DEF UsersTyped
<1>7. DeptsType'
  BY <1>1, <1>2 DEF DeptsType, storedVars
<1>8. BoundsType'
  <2>1. crashes' \in 0 .. MaxCrashes
    <3>1. crashes \in 0 .. MaxCrashes /\ MaxCrashes \in Nat
      BY <1>1, ConstantTypes DEF BoundsType
    <3>2. QED
      BY <1>2, <3>1
  <2>2. QED
    BY <1>1, <1>2, <2>1 DEF BoundsType
<1>9. OneOwnerEach(storedUsers)' /\ OwnersInMemory'
  BY <1>2, <1>5 DEF RegistryInv, OwnersInMemory, OneOwnerEach, storedVars
<1>10. QED
  BY <1>2, <1>3, <1>4, <1>6, <1>7, <1>8, <1>9, InvPartsNext

\* What is loaded has one owner for every card.
LEMMA LoadedEffect ==
  ASSUME RegistryInv, NEW us \in LoadedUsers
  PROVE  us \in Seq(UserRow) /\ OneOwnerEach(us)
<1>1. /\ storedUsers \in Seq(UserRow) /\ OneOwnerEach(storedUsers)
      /\ legacy.users \in Seq(UserRow)
  BY InvParts DEF DeptsType
<1>2. PICK csv \in Seq(UserRow) : csv = legacy.users
  BY <1>1
<1>3. PICK vs : vs = Merged(storedUsers, csv)
  OBVIOUS
<1>4. vs \in Seq(UserRow) /\ OneOwnerEach(vs)
  BY <1>1, <1>3, MergedEffect
<1>5. us \in ById(vs)
  BY <1>2, <1>3 DEF LoadedUsers
<1>6. QED
  BY <1>4, <1>5, ByIdEffect

LEMMA StartFailsEffect ==
  ASSUME RegistryInv, StartFails
  PROVE  RegistryInv' /\ UNCHANGED users
<1>1. UsersTyped /\ SnapType /\ DeptsType /\ SavesType /\ BoundsType
  BY InvParts
<1>2. /\ UNCHANGED <<memoryVars, storedDepts, up, threadVars, saveVars, imported, unlisted,
                     requests, crashes>>
      /\ faults < MaxFaults /\ faults' = faults + 1
      /\ storedUsers' \in LoadedUsers
      /\ legacy' \in {legacy, [legacy EXCEPT !.users = <<>>]}
  BY DEF StartFails
<1>3. storedUsers' \in Seq(UserRow) /\ OneOwnerEach(storedUsers')
  BY <1>2, LoadedEffect
<1>4. legacy' \in [users : Seq(UserRow), depts : SUBSET Dept]
  <2>1. <<>> \in Seq(UserRow)
    OBVIOUS
  <2>2. QED
    BY <1>1, <1>2, <2>1 DEF DeptsType
<1>5. DeptsType'
  BY <1>1, <1>2, <1>3, <1>4 DEF DeptsType, memoryVars
<1>6. ThreadInv'
  BY <1>1, <1>2
  DEF UsersTyped, ThreadInv, RequestsType, ProgramInv, threadVars
<1>7. UsersTyped' /\ SnapType' /\ SavesType' /\ UNCHANGED users
  BY <1>1, <1>2, <1>6 DEF UsersTyped, SnapType, SavesType, memoryVars, threadVars, saveVars
<1>8. BoundsType'
  BY <1>1, <1>2, ConstantTypes DEF BoundsType
<1>9. OwnersInMemory'
  BY <1>2 DEF RegistryInv, OwnersInMemory, memoryVars
<1>10. QED
  BY <1>3, <1>5, <1>7, <1>8, <1>9, InvPartsNext

LEMMA StartEffect ==
  ASSUME RegistryInv, Start
  PROVE  RegistryInv' /\ ~up
<1>1. UsersTyped /\ SnapType /\ DeptsType /\ SavesType /\ BoundsType
  BY InvParts
<1>2. /\ ~up /\ up' = TRUE
      /\ users' \in LoadedUsers /\ storedUsers' = users'
      /\ depts' = LoadedDepts \union UsedDepts(users')
      /\ legacy' = [users |-> <<>>, depts |-> {}]
      /\ UNCHANGED <<threadVars, held, late, imported, unlisted, requests, crashes>>
  BY DEF Start
<1>3. \/ storedDepts' = depts' /\ UNCHANGED <<faults, stale>>
      \/ /\ faults < MaxFaults /\ storedDepts' = LoadedDepts
         /\ faults' = faults + 1
         /\ stale' = [stale EXCEPT !["depts"] = TRUE]
  BY DEF Start
<1>4. PICK us : us = users'
  OBVIOUS
<1>5. us \in Seq(UserRow) /\ OneOwnerEach(us)
  BY <1>2, <1>4, LoadedEffect
<1>6. depts' \in SUBSET Dept /\ storedDepts' \in SUBSET Dept
  <2>1. UsedDepts(us) \in SUBSET Dept
    BY <1>5, UsedTyped
  <2>2. LoadedDepts \in SUBSET Dept
    BY <1>1 DEF LoadedDepts, DeptsType
  <2>3. QED
    BY <1>2, <1>3, <1>4, <2>1, <2>2
<1>7. DeptsType'
  <2>1. <<>> \in Seq(UserRow)
    OBVIOUS
  <2>2. QED
    BY <1>2, <1>4, <1>5, <1>6, <2>1 DEF DeptsType
<1>8. ThreadInv'
  BY <1>1, <1>2 DEF UsersTyped, ThreadInv, RequestsType, ProgramInv, threadVars
<1>9. UsersTyped' /\ SnapType'
  BY <1>1, <1>2, <1>4, <1>5, <1>8 DEF UsersTyped, SnapType, threadVars
<1>10. SavesType'
  BY <1>1, <1>2, <1>3 DEF SavesType
<1>11. BoundsType'
  BY <1>1, <1>2, <1>3, ConstantTypes DEF BoundsType
<1>12. OneOwnerEach(storedUsers)' /\ OwnersInMemory'
  BY <1>2, <1>4, <1>5 DEF OwnersInMemory
<1>13. QED
  BY <1>2, <1>7, <1>9, <1>10, <1>11, <1>12, InvPartsNext

-----------------------------------------------------------------------------
\* The theorems.

LEMMA InitInv ==
  Init => RegistryInv
<1>1. SUFFICES ASSUME Init PROVE RegistryInv
  OBVIOUS
<1>2. ThreadInv /\ SnapType
  BY <1>1, FreshThreads DEF Init, ThreadInv, RequestsType, ProgramInv, SnapType
<1>3. SavesType
  BY <1>1 DEF Init, SavesType
<1>4. <<>> \in Seq(UserRow) /\ DOMAIN <<>> = {}
  OBVIOUS
<1>5. UsersTyped /\ OwnersInMemory
  BY <1>1, <1>2, <1>4 DEF Init, UsersTyped, OwnersInMemory, OneOwnerEach
<1>6. DeptsType /\ OneOwnerEach(storedUsers)
  BY <1>1, ConstantTypes DEF Init, DeptsType
<1>7. BoundsType
  <2>1. \A n \in Nat : 0 \in 0 .. n
    OBVIOUS
  <2>2. /\ up = FALSE /\ unlisted = FALSE
        /\ requests = 0 /\ faults = 0 /\ crashes = 0
    BY <1>1 DEF Init
  <2>3. QED
    BY <2>1, <2>2, ConstantTypes DEF BoundsType
<1>8. QED
  BY <1>2, <1>3, <1>5, <1>6, <1>7, InvParts

\* A step of a thread keeps the invariant, and says who may gain a card.
LEMMA ThreadStepEffect ==
  ASSUME RegistryInv, NEW t \in Thread,
         Receive(t) \/ UserStep(t) \/ AssignToMissing(t) \/ DeptStep(t) \/ SaveStep(t)
  PROVE  RegistryInv' /\ (UNCHANGED users \/ Gains(t))
<1>1. UsersTyped /\ SnapType /\ DeptsType /\ SavesType /\ BoundsType
  BY InvParts
<1>2. CASE UserStep(t)
  <2>1. UserEffect(t)
    BY <1>1, <1>2, UserStepEffect
  <2>2. UNCHANGED restOfUsers
    BY <1>2
    DEF UserStep, UpsertUser, EraseUser, AssignCard, RemoveCard, EnsureUserForCard, ImportCsv,
        MoveUsers, CopyOwner, CopyUser, CheckFree, UpsertNew, PutCopy
  <2>3. UsersTyped' /\ OwnersInMemory' /\ Gains(t)
    BY <2>1 DEF UserEffect, UsersTyped, RegistryInv
  <2>4. SnapType' /\ DeptsType' /\ SavesType' /\ BoundsType' /\ OneOwnerEach(storedUsers)'
    BY <1>1, <2>2
    DEF restOfUsers, storedVars, saveVars, boundVars, SnapType, DeptsType, SavesType,
        BoundsType, RegistryInv
  <2>5. QED
    BY <2>3, <2>4, InvPartsNext
<1>3. CASE DeptStep(t)
  <2>1. /\ UsersTyped' /\ SnapType' /\ DeptsType'
        /\ UNCHANGED <<users, storedUsers, up, saveVars, imported, unlisted, boundVars>>
    BY <1>1, <1>3, DeptStepEffect
  <2>2. /\ SavesType' /\ BoundsType' /\ OneOwnerEach(storedUsers)' /\ OwnersInMemory'
    BY <1>1, <2>1
    DEF saveVars, boundVars, SavesType, BoundsType, RegistryInv, OwnersInMemory
  <2>3. QED
    BY <2>1, <2>2, InvPartsNext
<1>4. CASE AssignToMissing(t)
  <2>1. UserEffect(t)
    BY <1>1, <1>4, AssignToMissingEffect
  <2>2. UsersTyped' /\ OwnersInMemory' /\ Gains(t)
    BY <2>1 DEF UserEffect, UsersTyped, RegistryInv
  <2>3. UNCHANGED <<depts, storedVars, legacy, up, snap, held, imported, unlisted, boundVars>>
    BY <1>4 DEF AssignToMissing
  <2>4. Holders("users") \in SUBSET Thread /\ "users" \in Store
    BY DEF Holders, Store
  <2>5. SavesType'
    BY <1>1, <1>4, <2>4 DEF AssignToMissing, SavesType
  <2>6. SnapType' /\ DeptsType' /\ BoundsType' /\ OneOwnerEach(storedUsers)'
    BY <1>1, <2>3
    DEF storedVars, boundVars, SnapType, DeptsType, BoundsType, RegistryInv
  <2>7. QED
    BY <2>2, <2>5, <2>6, InvPartsNext
<1>5. QED
  BY <1>2, <1>3, <1>4, SaveStepEffect, ReceiveEffect

LEMMA NextInv ==
  RegistryInv /\ [Next]_vars => RegistryInv'
<1>1. SUFFICES ASSUME RegistryInv, [Next]_vars PROVE RegistryInv'
  OBVIOUS
<1>2. CASE UNCHANGED vars
  <2>1. UsersTyped /\ SnapType /\ DeptsType /\ SavesType /\ BoundsType
    BY <1>1, InvParts
  <2>2. ThreadInv'
    BY <1>2, <2>1
    DEF UsersTyped, ThreadInv, RequestsType, ProgramInv, vars, threadVars
  <2>3. UsersTyped' /\ SnapType' /\ DeptsType' /\ SavesType' /\ BoundsType'
    BY <1>2, <2>1, <2>2
    DEF UsersTyped, SnapType, DeptsType, SavesType, BoundsType, vars, memoryVars, storedVars,
        threadVars, saveVars, boundVars
  <2>4. OneOwnerEach(storedUsers)' /\ OwnersInMemory'
    BY <1>1, <1>2 DEF RegistryInv, OwnersInMemory, vars, memoryVars, storedVars
  <2>5. QED
    BY <2>3, <2>4, InvPartsNext
<1>3. CASE Next
  BY <1>1, <1>3, ThreadStepEffect, CrashEffect, StartFailsEffect, StartEffect DEF Next
<1>4. QED
  BY <1>1, <1>2, <1>3

LEMMA RegistryInvAlways ==
  Spec => []RegistryInv
BY InitInv, NextInv, PTL DEF Spec

\* Type correctness: the registry, the tables, the requests and their snapshots are what the
\* code declares them to be, whatever requests run side by side.
THEOREM TypeCorrect ==
  Spec => []TypeOK
<1>1. RegistryInv => TypeOK
  BY DEF RegistryInv
<1>2. QED
  BY <1>1, RegistryInvAlways, PTL

\* A card has one owner and an id one user, in memory and in the tables, whatever requests
\* run side by side and whatever a leftover users.csv holds, until an import replaces the
\* registry.
THEOREM OneOwnerAlways ==
  Spec => []OneOwner
<1>1. RegistryInv => OneOwner
  BY DEF RegistryInv, OwnersInMemory, OneOwner
<1>2. QED
  BY <1>1, RegistryInvAlways, PTL

\* The tables keep one owner for every card even after an import: their keys refuse the rest.
THEOREM OneOwnerStored ==
  Spec => []OneOwnerEach(storedUsers)
<1>1. RegistryInv => OneOwnerEach(storedUsers)
  BY DEF RegistryInv
<1>2. QED
  BY <1>1, RegistryInvAlways, PTL

\* A card passes from one user to another only by a request that names it, by an import of
\* the registry, or because a user is written back as he was read before, or without an id.
Passes ==
    \A c \in Card : \A x, y \in IdsOf(users) \union IdsOf(users)' :
        up /\ x # y /\ x \in Owners(users, c) \ Owners(users, c)'
           /\ y \in Owners(users, c)' \ Owners(users, c)
        => \E t \in Thread :
              /\ todo'[t] # todo[t]
              /\ \/ c \in req[t].cards
                 \/ At(t, "replace")
                 \/ /\ At(t, "putCopy")
                    /\ copy[t].id <= 0 \/ copy[t] \notin {users[i] : i \in DOMAIN users}

LEMMA StepPasses ==
  RegistryInv /\ [Next]_vars => Passes
<1>1. SUFFICES ASSUME RegistryInv, [Next]_vars PROVE Passes
  OBVIOUS
<1>2. CASE UNCHANGED users
  BY <1>2 DEF Passes
<1>3. CASE \E t \in Thread : Gains(t)
  BY <1>3 DEF Passes, Gains
<1>4. CASE users' = <<>>
  <2>1. \A c : Owners(users', c) = {}
    BY <1>4 DEF Owners
  <2>2. QED
    BY <2>1 DEF Passes
<1>5. CASE ~up
  BY <1>5 DEF Passes
<1>6. CASE \E t \in Thread : Receive(t) \/ UserStep(t) \/ AssignToMissing(t) \/ DeptStep(t)
                             \/ SaveStep(t)
  BY <1>1, <1>2, <1>3, <1>6, ThreadStepEffect
<1>7. UNCHANGED vars => UNCHANGED users
  BY DEF vars, memoryVars
<1>8. QED
  BY <1>1, <1>2, <1>4, <1>5, <1>6, <1>7, CrashEffect, StartFailsEffect, StartEffect DEF Next

\* No request gives a card away that it does not name: the handlers of users, cards, imports
\* and SOYAL records, side by side with any others, faults and restarts, move a card to
\* another user only as CardsPassByName says.
THEOREM CardsPassByNameAlways ==
  Spec => CardsPassByName
<1>1. RegistryInv /\ [Next]_vars => [Passes]_vars
  BY StepPasses
<1>2. QED
  BY <1>1, RegistryInvAlways, PTL DEF Spec, CardsPassByName, Passes

-----------------------------------------------------------------------------
\* Programs: the steps each handler goes through, with its saves written out.

LEMMA Glued ==
  ASSUME NEW p \in Seq(StepName), NEW q \in Seq(StepName), NEW r \in Seq(StepName),
         Len(r) = Len(p) + Len(q), \A i \in 1 .. Len(p) : r[i] = p[i],
         \A i \in 1 .. Len(q) : r[i + Len(p)] = q[i]
  PROVE  p \o q = r
<1>1. /\ p \o q \in Seq(StepName) /\ Len(p \o q) = Len(p) + Len(q)
      /\ \A i \in 1 .. Len(p) + Len(q) :
            (p \o q)[i] = IF i <= Len(p) THEN p[i] ELSE q[i - Len(p)]
  BY ConcatProperties
<1>2. Len(p) \in Nat /\ Len(q) \in Nat
  BY LenProperties
<1>3. \A i \in 1 .. Len(p \o q) : (p \o q)[i] = r[i]
  <2>1. SUFFICES ASSUME NEW i \in 1 .. Len(p) + Len(q) PROVE (p \o q)[i] = r[i]
    BY <1>1
  <2>2. CASE i <= Len(p)
    <3>1. i \in 1 .. Len(p)
      BY <1>2, <2>2
    <3>2. QED
      BY <1>1, <2>2, <3>1
  <2>3. CASE ~(i <= Len(p))
    <3>1. i - Len(p) \in 1 .. Len(q) /\ (i - Len(p)) + Len(p) = i
      BY <1>2, <2>3
    <3>2. r[i] = q[i - Len(p)]
      BY <3>1
    <3>3. QED
      BY <1>1, <2>3, <3>2
  <2>4. QED
    BY <2>2, <2>3
<1>4. QED
  BY <1>1, <1>3, SeqEqual

LEMMA StepsSave ==
  Steps("save") = <<"upsert", "snapUsers", "tryWriteUsers", "listDept", "snapDepts",
        "writeDepts">>
<1>1. PICK p1 : p1 = <<"upsert">>
  OBVIOUS
<1>2. PICK p2 : p2 = <<"snapUsers", "tryWriteUsers">>
  OBVIOUS
<1>3. PICK p3 : p3 = <<"listDept">>
  OBVIOUS
<1>4. PICK p4 : p4 = <<"snapDepts", "writeDepts">>
  OBVIOUS
<1>5. PICK q1 : q1 = <<"upsert", "snapUsers", "tryWriteUsers">>
  OBVIOUS
<1>6. p1 \o p2 = q1
  <2>1. p1 \in Seq(StepName) /\ p2 \in Seq(StepName) /\ q1 \in Seq(StepName)
    BY <1>1, <1>2, <1>5 DEF StepName
  <2>2. /\ Len(q1) = Len(p1) + Len(p2)
        /\ \A i \in 1 .. Len(p1) : q1[i] = p1[i]
        /\ \A i \in 1 .. Len(p2) : q1[i + Len(p1)] = p2[i]
    BY <1>1, <1>2, <1>5
  <2>3. QED
    BY <2>1, <2>2, Glued
<1>7. PICK q2 : q2 = <<"upsert", "snapUsers", "tryWriteUsers", "listDept">>
  OBVIOUS
<1>8. q1 \o p3 = q2
  <2>1. q1 \in Seq(StepName) /\ p3 \in Seq(StepName) /\ q2 \in Seq(StepName)
    BY <1>5, <1>3, <1>7 DEF StepName
  <2>2. /\ Len(q2) = Len(q1) + Len(p3)
        /\ \A i \in 1 .. Len(q1) : q2[i] = q1[i]
        /\ \A i \in 1 .. Len(p3) : q2[i + Len(q1)] = p3[i]
    BY <1>5, <1>3, <1>7
  <2>3. QED
    BY <2>1, <2>2, Glued
<1>9. PICK q3 : q3 = <<"upsert", "snapUsers", "tryWriteUsers", "listDept", "snapDepts",
            "writeDepts">>
  OBVIOUS
<1>10. q2 \o p4 = q3
  <2>1. q2 \in Seq(StepName) /\ p4 \in Seq(StepName) /\ q3 \in Seq(StepName)
    BY <1>7, <1>4, <1>9 DEF StepName
  <2>2. /\ Len(q3) = Len(q2) + Len(p4)
        /\ \A i \in 1 .. Len(q2) : q3[i] = q2[i]
        /\ \A i \in 1 .. Len(p4) : q3[i + Len(q2)] = p4[i]
    BY <1>7, <1>4, <1>9
  <2>3. QED
    BY <2>1, <2>2, Glued
<1>11. QED
  BY <1>1, <1>2, <1>3, <1>4, <1>6, <1>8, <1>10, <1>9
  DEF Steps, SaveUsers, SaveUsersAnyway, SaveDepts

LEMMA StepsDelete ==
  Steps("delete") = <<"erase", "snapUsers", "writeUsers">>
<1>1. PICK p1 : p1 = <<"erase">>
  OBVIOUS
<1>2. PICK p2 : p2 = <<"snapUsers", "writeUsers">>
  OBVIOUS
<1>3. PICK q1 : q1 = <<"erase", "snapUsers", "writeUsers">>
  OBVIOUS
<1>4. p1 \o p2 = q1
  <2>1. p1 \in Seq(StepName) /\ p2 \in Seq(StepName) /\ q1 \in Seq(StepName)
    BY <1>1, <1>2, <1>3 DEF StepName
  <2>2. /\ Len(q1) = Len(p1) + Len(p2)
        /\ \A i \in 1 .. Len(p1) : q1[i] = p1[i]
        /\ \A i \in 1 .. Len(p2) : q1[i + Len(p1)] = p2[i]
    BY <1>1, <1>2, <1>3
  <2>3. QED
    BY <2>1, <2>2, Glued
<1>5. QED
  BY <1>1, <1>2, <1>4, <1>3
  DEF Steps, SaveUsers, SaveUsersAnyway, SaveDepts

LEMMA StepsAssign ==
  Steps("assign") = <<"assign", "snapUsers", "writeUsers">>
<1>1. PICK p1 : p1 = <<"assign">>
  OBVIOUS
<1>2. PICK p2 : p2 = <<"snapUsers", "writeUsers">>
  OBVIOUS
<1>3. PICK q1 : q1 = <<"assign", "snapUsers", "writeUsers">>
  OBVIOUS
<1>4. p1 \o p2 = q1
  <2>1. p1 \in Seq(StepName) /\ p2 \in Seq(StepName) /\ q1 \in Seq(StepName)
    BY <1>1, <1>2, <1>3 DEF StepName
  <2>2. /\ Len(q1) = Len(p1) + Len(p2)
        /\ \A i \in 1 .. Len(p1) : q1[i] = p1[i]
        /\ \A i \in 1 .. Len(p2) : q1[i + Len(p1)] = p2[i]
    BY <1>1, <1>2, <1>3
  <2>3. QED
    BY <2>1, <2>2, Glued
<1>5. QED
  BY <1>1, <1>2, <1>4, <1>3
  DEF Steps, SaveUsers, SaveUsersAnyway, SaveDepts

LEMMA StepsRemove ==
  Steps("remove") = <<"release", "snapUsers", "writeUsers">>
<1>1. PICK p1 : p1 = <<"release">>
  OBVIOUS
<1>2. PICK p2 : p2 = <<"snapUsers", "writeUsers">>
  OBVIOUS
<1>3. PICK q1 : q1 = <<"release", "snapUsers", "writeUsers">>
  OBVIOUS
<1>4. p1 \o p2 = q1
  <2>1. p1 \in Seq(StepName) /\ p2 \in Seq(StepName) /\ q1 \in Seq(StepName)
    BY <1>1, <1>2, <1>3 DEF StepName
  <2>2. /\ Len(q1) = Len(p1) + Len(p2)
        /\ \A i \in 1 .. Len(p1) : q1[i] = p1[i]
        /\ \A i \in 1 .. Len(p2) : q1[i + Len(p1)] = p2[i]
    BY <1>1, <1>2, <1>3
  <2>3. QED
    BY <2>1, <2>2, Glued
<1>5. QED
  BY <1>1, <1>2, <1>4, <1>3
  DEF Steps, SaveUsers, SaveUsersAnyway, SaveDepts

LEMMA StepsCreate ==
  Steps("create") = <<"ensureUser", "snapUsers", "writeUsers">>
<1>1. PICK p1 : p1 = <<"ensureUser">>
  OBVIOUS
<1>2. PICK p2 : p2 = <<"snapUsers", "writeUsers">>
  OBVIOUS
<1>3. PICK q1 : q1 = <<"ensureUser", "snapUsers", "writeUsers">>
  OBVIOUS
<1>4. p1 \o p2 = q1
  <2>1. p1 \in Seq(StepName) /\ p2 \in Seq(StepName) /\ q1 \in Seq(StepName)
    BY <1>1, <1>2, <1>3 DEF StepName
  <2>2. /\ Len(q1) = Len(p1) + Len(p2)
        /\ \A i \in 1 .. Len(p1) : q1[i] = p1[i]
        /\ \A i \in 1 .. Len(p2) : q1[i + Len(p1)] = p2[i]
    BY <1>1, <1>2, <1>3
  <2>3. QED
    BY <2>1, <2>2, Glued
<1>5. QED
  BY <1>1, <1>2, <1>4, <1>3
  DEF Steps, SaveUsers, SaveUsersAnyway, SaveDepts

LEMMA StepsImport ==
  Steps("import") = <<"replace", "snapUsers", "writeUsers", "readUsed", "ensureDepts",
        "snapDepts", "writeDepts">>
<1>1. PICK p1 : p1 = <<"replace">>
  OBVIOUS
<1>2. PICK p2 : p2 = <<"snapUsers", "writeUsers">>
  OBVIOUS
<1>3. PICK p3 : p3 = <<"readUsed", "ensureDepts">>
  OBVIOUS
<1>4. PICK p4 : p4 = <<"snapDepts", "writeDepts">>
  OBVIOUS
<1>5. PICK q1 : q1 = <<"replace", "snapUsers", "writeUsers">>
  OBVIOUS
<1>6. p1 \o p2 = q1
  <2>1. p1 \in Seq(StepName) /\ p2 \in Seq(StepName) /\ q1 \in Seq(StepName)
    BY <1>1, <1>2, <1>5 DEF StepName
  <2>2. /\ Len(q1) = Len(p1) + Len(p2)
        /\ \A i \in 1 .. Len(p1) : q1[i] = p1[i]
        /\ \A i \in 1 .. Len(p2) : q1[i + Len(p1)] = p2[i]
    BY <1>1, <1>2, <1>5
  <2>3. QED
    BY <2>1, <2>2, Glued
<1>7. PICK q2 : q2 = <<"replace", "snapUsers", "writeUsers", "readUsed", "ensureDepts">>
  OBVIOUS
<1>8. q1 \o p3 = q2
  <2>1. q1 \in Seq(StepName) /\ p3 \in Seq(StepName) /\ q2 \in Seq(StepName)
    BY <1>5, <1>3, <1>7 DEF StepName
  <2>2. /\ Len(q2) = Len(q1) + Len(p3)
        /\ \A i \in 1 .. Len(q1) : q2[i] = q1[i]
        /\ \A i \in 1 .. Len(p3) : q2[i + Len(q1)] = p3[i]
    BY <1>5, <1>3, <1>7
  <2>3. QED
    BY <2>1, <2>2, Glued
<1>9. PICK q3 : q3 = <<"replace", "snapUsers", "writeUsers", "readUsed", "ensureDepts",
            "snapDepts", "writeDepts">>
  OBVIOUS
<1>10. q2 \o p4 = q3
  <2>1. q2 \in Seq(StepName) /\ p4 \in Seq(StepName) /\ q3 \in Seq(StepName)
    BY <1>7, <1>4, <1>9 DEF StepName
  <2>2. /\ Len(q3) = Len(q2) + Len(p4)
        /\ \A i \in 1 .. Len(q2) : q3[i] = q2[i]
        /\ \A i \in 1 .. Len(p4) : q3[i + Len(q2)] = p4[i]
    BY <1>7, <1>4, <1>9
  <2>3. QED
    BY <2>1, <2>2, Glued
<1>11. QED
  BY <1>1, <1>2, <1>3, <1>4, <1>6, <1>8, <1>10, <1>9
  DEF Steps, SaveUsers, SaveUsersAnyway, SaveDepts

LEMMA StepsAddDept ==
  Steps("addDept") = <<"listDept", "snapDepts", "writeDepts">>
<1>1. PICK p1 : p1 = <<"listDept">>
  OBVIOUS
<1>2. PICK p2 : p2 = <<"snapDepts", "writeDepts">>
  OBVIOUS
<1>3. PICK q1 : q1 = <<"listDept", "snapDepts", "writeDepts">>
  OBVIOUS
<1>4. p1 \o p2 = q1
  <2>1. p1 \in Seq(StepName) /\ p2 \in Seq(StepName) /\ q1 \in Seq(StepName)
    BY <1>1, <1>2, <1>3 DEF StepName
  <2>2. /\ Len(q1) = Len(p1) + Len(p2)
        /\ \A i \in 1 .. Len(p1) : q1[i] = p1[i]
        /\ \A i \in 1 .. Len(p2) : q1[i + Len(p1)] = p2[i]
    BY <1>1, <1>2, <1>3
  <2>3. QED
    BY <2>1, <2>2, Glued
<1>5. QED
  BY <1>1, <1>2, <1>4, <1>3
  DEF Steps, SaveUsers, SaveUsersAnyway, SaveDepts

LEMMA StepsRename ==
  Steps("rename") = <<"renameDept", "snapDepts", "writeDepts", "moveUsers", "snapUsers",
        "writeUsers">>
<1>1. PICK p1 : p1 = <<"renameDept">>
  OBVIOUS
<1>2. PICK p2 : p2 = <<"snapDepts", "writeDepts">>
  OBVIOUS
<1>3. PICK p3 : p3 = <<"moveUsers">>
  OBVIOUS
<1>4. PICK p4 : p4 = <<"snapUsers", "writeUsers">>
  OBVIOUS
<1>5. PICK q1 : q1 = <<"renameDept", "snapDepts", "writeDepts">>
  OBVIOUS
<1>6. p1 \o p2 = q1
  <2>1. p1 \in Seq(StepName) /\ p2 \in Seq(StepName) /\ q1 \in Seq(StepName)
    BY <1>1, <1>2, <1>5 DEF StepName
  <2>2. /\ Len(q1) = Len(p1) + Len(p2)
        /\ \A i \in 1 .. Len(p1) : q1[i] = p1[i]
        /\ \A i \in 1 .. Len(p2) : q1[i + Len(p1)] = p2[i]
    BY <1>1, <1>2, <1>5
  <2>3. QED
    BY <2>1, <2>2, Glued
<1>7. PICK q2 : q2 = <<"renameDept", "snapDepts", "writeDepts", "moveUsers">>
  OBVIOUS
<1>8. q1 \o p3 = q2
  <2>1. q1 \in Seq(StepName) /\ p3 \in Seq(StepName) /\ q2 \in Seq(StepName)
    BY <1>5, <1>3, <1>7 DEF StepName
  <2>2. /\ Len(q2) = Len(q1) + Len(p3)
        /\ \A i \in 1 .. Len(q1) : q2[i] = q1[i]
        /\ \A i \in 1 .. Len(p3) : q2[i + Len(q1)] = p3[i]
    BY <1>5, <1>3, <1>7
  <2>3. QED
    BY <2>1, <2>2, Glued
<1>9. PICK q3 : q3 = <<"renameDept", "snapDepts", "writeDepts", "moveUsers", "snapUsers",
            "writeUsers">>
  OBVIOUS
<1>10. q2 \o p4 = q3
  <2>1. q2 \in Seq(StepName) /\ p4 \in Seq(StepName) /\ q3 \in Seq(StepName)
    BY <1>7, <1>4, <1>9 DEF StepName
  <2>2. /\ Len(q3) = Len(q2) + Len(p4)
        /\ \A i \in 1 .. Len(q2) : q3[i] = q2[i]
        /\ \A i \in 1 .. Len(p4) : q3[i + Len(q2)] = p4[i]
    BY <1>7, <1>4, <1>9
  <2>3. QED
    BY <2>1, <2>2, Glued
<1>11. QED
  BY <1>1, <1>2, <1>3, <1>4, <1>6, <1>8, <1>10, <1>9
  DEF Steps, SaveUsers, SaveUsersAnyway, SaveDepts

LEMMA StepsDrop ==
  Steps("drop") = <<"checkUse", "dropDept", "snapDepts", "writeDepts">>
<1>1. PICK p1 : p1 = <<"checkUse", "dropDept">>
  OBVIOUS
<1>2. PICK p2 : p2 = <<"snapDepts", "writeDepts">>
  OBVIOUS
<1>3. PICK q1 : q1 = <<"checkUse", "dropDept", "snapDepts", "writeDepts">>
  OBVIOUS
<1>4. p1 \o p2 = q1
  <2>1. p1 \in Seq(StepName) /\ p2 \in Seq(StepName) /\ q1 \in Seq(StepName)
    BY <1>1, <1>2, <1>3 DEF StepName
  <2>2. /\ Len(q1) = Len(p1) + Len(p2)
        /\ \A i \in 1 .. Len(p1) : q1[i] = p1[i]
        /\ \A i \in 1 .. Len(p2) : q1[i + Len(p1)] = p2[i]
    BY <1>1, <1>2, <1>3
  <2>3. QED
    BY <2>1, <2>2, Glued
<1>5. QED
  BY <1>1, <1>2, <1>4, <1>3
  DEF Steps, SaveUsers, SaveUsersAnyway, SaveDepts

LEMMA StepsSoyalMerge ==
  Steps("soyalMerge") = <<"copyOwner", "putCopy", "snapUsers", "tryWriteUsers", "listDept",
        "snapDepts", "writeDepts">>
<1>1. PICK p1 : p1 = <<"copyOwner", "putCopy">>
  OBVIOUS
<1>2. PICK p2 : p2 = <<"snapUsers", "tryWriteUsers">>
  OBVIOUS
<1>3. PICK p3 : p3 = <<"listDept">>
  OBVIOUS
<1>4. PICK p4 : p4 = <<"snapDepts", "writeDepts">>
  OBVIOUS
<1>5. PICK q1 : q1 = <<"copyOwner", "putCopy", "snapUsers", "tryWriteUsers">>
  OBVIOUS
<1>6. p1 \o p2 = q1
  <2>1. p1 \in Seq(StepName) /\ p2 \in Seq(StepName) /\ q1 \in Seq(StepName)
    BY <1>1, <1>2, <1>5 DEF StepName
  <2>2. /\ Len(q1) = Len(p1) + Len(p2)
        /\ \A i \in 1 .. Len(p1) : q1[i] = p1[i]
        /\ \A i \in 1 .. Len(p2) : q1[i + Len(p1)] = p2[i]
    BY <1>1, <1>2, <1>5
  <2>3. QED
    BY <2>1, <2>2, Glued
<1>7. PICK q2 : q2 = <<"copyOwner", "putCopy", "snapUsers", "tryWriteUsers", "listDept">>
  OBVIOUS
<1>8. q1 \o p3 = q2
  <2>1. q1 \in Seq(StepName) /\ p3 \in Seq(StepName) /\ q2 \in Seq(StepName)
    BY <1>5, <1>3, <1>7 DEF StepName
  <2>2. /\ Len(q2) = Len(q1) + Len(p3)
        /\ \A i \in 1 .. Len(q1) : q2[i] = q1[i]
        /\ \A i \in 1 .. Len(p3) : q2[i + Len(q1)] = p3[i]
    BY <1>5, <1>3, <1>7
  <2>3. QED
    BY <2>1, <2>2, Glued
<1>9. PICK q3 : q3 = <<"copyOwner", "putCopy", "snapUsers", "tryWriteUsers", "listDept",
            "snapDepts", "writeDepts">>
  OBVIOUS
<1>10. q2 \o p4 = q3
  <2>1. q2 \in Seq(StepName) /\ p4 \in Seq(StepName) /\ q3 \in Seq(StepName)
    BY <1>7, <1>4, <1>9 DEF StepName
  <2>2. /\ Len(q3) = Len(q2) + Len(p4)
        /\ \A i \in 1 .. Len(q2) : q3[i] = q2[i]
        /\ \A i \in 1 .. Len(p4) : q3[i + Len(q2)] = p4[i]
    BY <1>7, <1>4, <1>9
  <2>3. QED
    BY <2>1, <2>2, Glued
<1>11. QED
  BY <1>1, <1>2, <1>3, <1>4, <1>6, <1>8, <1>10, <1>9
  DEF Steps, SaveUsers, SaveUsersAnyway, SaveDepts

LEMMA StepsSoyalCreate ==
  Steps("soyalCreate") = <<"checkFree", "upsertNew", "snapUsers", "tryWriteUsers", "putCopy",
        "snapUsers", "tryWriteUsers", "listDept", "snapDepts", "writeDepts">>
<1>1. PICK p1 : p1 = <<"checkFree", "upsertNew">>
  OBVIOUS
<1>2. PICK p2 : p2 = <<"snapUsers", "tryWriteUsers">>
  OBVIOUS
<1>3. PICK p3 : p3 = <<"putCopy">>
  OBVIOUS
<1>4. PICK p4 : p4 = <<"snapUsers", "tryWriteUsers">>
  OBVIOUS
<1>5. PICK p5 : p5 = <<"listDept">>
  OBVIOUS
<1>6. PICK p6 : p6 = <<"snapDepts", "writeDepts">>
  OBVIOUS
<1>7. PICK q1 : q1 = <<"checkFree", "upsertNew", "snapUsers", "tryWriteUsers">>
  OBVIOUS
<1>8. p1 \o p2 = q1
  <2>1. p1 \in Seq(StepName) /\ p2 \in Seq(StepName) /\ q1 \in Seq(StepName)
    BY <1>1, <1>2, <1>7 DEF StepName
  <2>2. /\ Len(q1) = Len(p1) + Len(p2)
        /\ \A i \in 1 .. Len(p1) : q1[i] = p1[i]
        /\ \A i \in 1 .. Len(p2) : q1[i + Len(p1)] = p2[i]
    BY <1>1, <1>2, <1>7
  <2>3. QED
    BY <2>1, <2>2, Glued
<1>9. PICK q2 : q2 = <<"checkFree", "upsertNew", "snapUsers", "tryWriteUsers", "putCopy">>
  OBVIOUS
<1>10. q1 \o p3 = q2
  <2>1. q1 \in Seq(StepName) /\ p3 \in Seq(StepName) /\ q2 \in Seq(StepName)
    BY <1>7, <1>3, <1>9 DEF StepName
  <2>2. /\ Len(q2) = Len(q1) + Len(p3)
        /\ \A i \in 1 .. Len(q1) : q2[i] = q1[i]
        /\ \A i \in 1 .. Len(p3) : q2[i + Len(q1)] = p3[i]
    BY <1>7, <1>3, <1>9
  <2>3. QED
    BY <2>1, <2>2, Glued
<1>11. PICK q3 : q3 = <<"checkFree", "upsertNew", "snapUsers", "tryWriteUsers", "putCopy",
            "snapUsers", "tryWriteUsers">>
  OBVIOUS
<1>12. q2 \o p4 = q3
  <2>1. q2 \in Seq(StepName) /\ p4 \in Seq(StepName) /\ q3 \in Seq(StepName)
    BY <1>9, <1>4, <1>11 DEF StepName
  <2>2. /\ Len(q3) = Len(q2) + Len(p4)
        /\ \A i \in 1 .. Len(q2) : q3[i] = q2[i]
        /\ \A i \in 1 .. Len(p4) : q3[i + Len(q2)] = p4[i]
    BY <1>9, <1>4, <1>11
  <2>3. QED
    BY <2>1, <2>2, Glued
<1>13. PICK q4 : q4 = <<"checkFree", "upsertNew", "snapUsers", "tryWriteUsers", "putCopy",
            "snapUsers", "tryWriteUsers", "listDept">>
  OBVIOUS
<1>14. q3 \o p5 = q4
  <2>1. q3 \in Seq(StepName) /\ p5 \in Seq(StepName) /\ q4 \in Seq(StepName)
    BY <1>11, <1>5, <1>13 DEF StepName
  <2>2. /\ Len(q4) = Len(q3) + Len(p5)
        /\ \A i \in 1 .. Len(q3) : q4[i] = q3[i]
        /\ \A i \in 1 .. Len(p5) : q4[i + Len(q3)] = p5[i]
    BY <1>11, <1>5, <1>13
  <2>3. QED
    BY <2>1, <2>2, Glued
<1>15. PICK q5 : q5 = <<"checkFree", "upsertNew", "snapUsers", "tryWriteUsers", "putCopy",
            "snapUsers", "tryWriteUsers", "listDept", "snapDepts", "writeDepts">>
  OBVIOUS
<1>16. q4 \o p6 = q5
  <2>1. q4 \in Seq(StepName) /\ p6 \in Seq(StepName) /\ q5 \in Seq(StepName)
    BY <1>13, <1>6, <1>15 DEF StepName
  <2>2. /\ Len(q5) = Len(q4) + Len(p6)
        /\ \A i \in 1 .. Len(q4) : q5[i] = q4[i]
        /\ \A i \in 1 .. Len(p6) : q5[i + Len(q4)] = p6[i]
    BY <1>13, <1>6, <1>15
  <2>3. QED
    BY <2>1, <2>2, Glued
<1>17. QED
  BY <1>1, <1>2, <1>3, <1>4, <1>5, <1>6, <1>8, <1>10, <1>12, <1>14, <1>16, <1>15
  DEF Steps, SaveUsers, SaveUsersAnyway, SaveDepts

LEMMA StepsSoyalAssign ==
  Steps("soyalAssign") = <<"assign", "snapUsers", "writeUsers", "copyUser", "putCopy",
        "snapUsers", "tryWriteUsers", "listDept", "snapDepts", "writeDepts">>
<1>1. PICK p1 : p1 = <<"assign">>
  OBVIOUS
<1>2. PICK p2 : p2 = <<"snapUsers", "writeUsers">>
  OBVIOUS
<1>3. PICK p3 : p3 = <<"copyUser", "putCopy">>
  OBVIOUS
<1>4. PICK p4 : p4 = <<"snapUsers", "tryWriteUsers">>
  OBVIOUS
<1>5. PICK p5 : p5 = <<"listDept">>
  OBVIOUS
<1>6. PICK p6 : p6 = <<"snapDepts", "writeDepts">>
  OBVIOUS
<1>7. PICK q1 : q1 = <<"assign", "snapUsers", "writeUsers">>
  OBVIOUS
<1>8. p1 \o p2 = q1
  <2>1. p1 \in Seq(StepName) /\ p2 \in Seq(StepName) /\ q1 \in Seq(StepName)
    BY <1>1, <1>2, <1>7 DEF StepName
  <2>2. /\ Len(q1) = Len(p1) + Len(p2)
        /\ \A i \in 1 .. Len(p1) : q1[i] = p1[i]
        /\ \A i \in 1 .. Len(p2) : q1[i + Len(p1)] = p2[i]
    BY <1>1, <1>2, <1>7
  <2>3. QED
    BY <2>1, <2>2, Glued
<1>9. PICK q2 : q2 = <<"assign", "snapUsers", "writeUsers", "copyUser", "putCopy">>
  OBVIOUS
<1>10. q1 \o p3 = q2
  <2>1. q1 \in Seq(StepName) /\ p3 \in Seq(StepName) /\ q2 \in Seq(StepName)
    BY <1>7, <1>3, <1>9 DEF StepName
  <2>2. /\ Len(q2) = Len(q1) + Len(p3)
        /\ \A i \in 1 .. Len(q1) : q2[i] = q1[i]
        /\ \A i \in 1 .. Len(p3) : q2[i + Len(q1)] = p3[i]
    BY <1>7, <1>3, <1>9
  <2>3. QED
    BY <2>1, <2>2, Glued
<1>11. PICK q3 : q3 = <<"assign", "snapUsers", "writeUsers", "copyUser", "putCopy", "snapUsers",
            "tryWriteUsers">>
  OBVIOUS
<1>12. q2 \o p4 = q3
  <2>1. q2 \in Seq(StepName) /\ p4 \in Seq(StepName) /\ q3 \in Seq(StepName)
    BY <1>9, <1>4, <1>11 DEF StepName
  <2>2. /\ Len(q3) = Len(q2) + Len(p4)
        /\ \A i \in 1 .. Len(q2) : q3[i] = q2[i]
        /\ \A i \in 1 .. Len(p4) : q3[i + Len(q2)] = p4[i]
    BY <1>9, <1>4, <1>11
  <2>3. QED
    BY <2>1, <2>2, Glued
<1>13. PICK q4 : q4 = <<"assign", "snapUsers", "writeUsers", "copyUser", "putCopy", "snapUsers",
            "tryWriteUsers", "listDept">>
  OBVIOUS
<1>14. q3 \o p5 = q4
  <2>1. q3 \in Seq(StepName) /\ p5 \in Seq(StepName) /\ q4 \in Seq(StepName)
    BY <1>11, <1>5, <1>13 DEF StepName
  <2>2. /\ Len(q4) = Len(q3) + Len(p5)
        /\ \A i \in 1 .. Len(q3) : q4[i] = q3[i]
        /\ \A i \in 1 .. Len(p5) : q4[i + Len(q3)] = p5[i]
    BY <1>11, <1>5, <1>13
  <2>3. QED
    BY <2>1, <2>2, Glued
<1>15. PICK q5 : q5 = <<"assign", "snapUsers", "writeUsers", "copyUser", "putCopy", "snapUsers",
            "tryWriteUsers", "listDept", "snapDepts", "writeDepts">>
  OBVIOUS
<1>16. q4 \o p6 = q5
  <2>1. q4 \in Seq(StepName) /\ p6 \in Seq(StepName) /\ q5 \in Seq(StepName)
    BY <1>13, <1>6, <1>15 DEF StepName
  <2>2. /\ Len(q5) = Len(q4) + Len(p6)
        /\ \A i \in 1 .. Len(q4) : q5[i] = q4[i]
        /\ \A i \in 1 .. Len(p6) : q5[i + Len(q4)] = p6[i]
    BY <1>13, <1>6, <1>15
  <2>3. QED
    BY <2>1, <2>2, Glued
<1>17. QED
  BY <1>1, <1>2, <1>3, <1>4, <1>5, <1>6, <1>8, <1>10, <1>12, <1>14, <1>16, <1>15
  DEF Steps, SaveUsers, SaveUsersAnyway, SaveDepts

-----------------------------------------------------------------------------
\* What changes the registry is followed by a save: the shape of every program.

\* The steps that change the users, those that change the departments, and the steps of a save.
UserChanges == {"upsert", "erase", "assign", "release", "ensureUser", "replace", "moveUsers",
                "upsertNew", "putCopy"}
DeptChanges == {"listDept", "renameDept", "dropDept", "ensureDepts"}
Snap(s) == IF s = "users" THEN "snapUsers" ELSE "snapDepts"
Writes(s) == IF s = "users" THEN {"writeUsers", "tryWriteUsers"} ELSE {"writeDepts"}

\* Who changes a list takes a snapshot of it next, and who takes one writes it next.
SavesNext(p) == \A i \in DOMAIN p :
    /\ p[i] \in UserChanges => i + 1 \in DOMAIN p /\ p[i + 1] = "snapUsers"
    /\ p[i] \in DeptChanges => i + 1 \in DOMAIN p /\ p[i + 1] = "snapDepts"
    /\ p[i] = "snapUsers" => i + 1 \in DOMAIN p /\ p[i + 1] \in Writes("users")
    /\ p[i] = "snapDepts" => i + 1 \in DOMAIN p /\ p[i + 1] = "writeDepts"
    /\ i + 1 \in DOMAIN p /\ p[i + 1] \in Writes("users") => p[i] = "snapUsers"
    /\ i + 1 \in DOMAIN p /\ p[i + 1] = "writeDepts" => p[i] = "snapDepts"

\* Where a program goes on with the user it has read, and what skipping three steps leaves.
GoesTo(p) == \A i \in DOMAIN p :
    /\ p[i] \in {"copyOwner", "copyUser"} => i + 1 \in DOMAIN p /\ p[i + 1] = "putCopy"
    /\ p[i] = "checkFree" => i + 4 \in DOMAIN p /\ p[i + 4] = "putCopy"
    /\ p[i] = "readUsed" => i + 1 \in DOMAIN p /\ p[i + 1] = "ensureDepts"
    /\ p[i] = "listDept" => i + 3 \notin DOMAIN p
    /\ i + 1 \in DOMAIN p =>
         /\ p[i + 1] # "upsert"
         /\ p[i + 1] = "dropDept" => p[i] = "checkUse"
         /\ p[i + 1] = "ensureDepts" => p[i] = "readUsed"

\* The steps between a change of a user and the listing of his department.
Sure == {"upsert", "snapUsers", "tryWriteUsers", "putCopy", "listDept", "snapDepts",
         "writeDepts"}

\* Who brings in a department lists it later, and nothing on the way ends the request.
ListsLater(p) == \A i \in DOMAIN p :
    /\ p[i] \in {"upsert", "putCopy"} => i + 3 \in DOMAIN p /\ p[i + 3] = "listDept"
    /\ p[i] = "upsertNew" => i + 6 \in DOMAIN p /\ p[i + 6] = "listDept"
    /\ p[i] = "replace" => i + 3 \in DOMAIN p /\ p[i + 3] = "readUsed"
    /\ p[i] = "renameDept" => i + 3 \in DOMAIN p /\ p[i + 3] = "moveUsers"
    /\ \A j \in DOMAIN p : j > i =>
         /\ p[i] \in {"upsert", "upsertNew", "putCopy"} => p[j] \in Sure
         /\ p[i] \in {"renameDept", "moveUsers"} => p[j] # "renameDept"
         /\ p[i] = "moveUsers" => p[j] # "moveUsers"
         /\ p[i] = "writeDepts" => p[j] # "listDept"

\* Which request a step belongs to.
Personal == {"upsert", "erase", "assign", "release", "ensureUser", "copyOwner", "copyUser",
             "checkFree", "upsertNew", "putCopy", "listDept"}

OfRequest(op, p) == \A i \in DOMAIN p :
    /\ p[i] \in {"replace", "readUsed", "ensureDepts"} => op = "import"
    /\ p[i] \in {"renameDept", "moveUsers"} => op = "rename"
    /\ p[i] \in {"checkUse", "dropDept"} => op = "drop"
    /\ p[i] \in Personal => op \notin {"import", "rename", "drop"}
    /\ p[i] = "ensureDepts" => \A j \in DOMAIN p : j > i => p[j] # "readUsed"

Order(op, p) == SavesNext(p) /\ GoesTo(p) /\ ListsLater(p) /\ OfRequest(op, p)

\* What a program does not begin with.
Begins(p) ==
    /\ p[1] \notin {"snapUsers", "writeUsers", "tryWriteUsers", "snapDepts", "writeDepts",
                    "dropDept", "ensureDepts"}
    /\ p[1] = "renameDept" \/ \A i \in DOMAIN p : p[i] # "moveUsers"


LEMMA StepsOrdered ==
  ASSUME NEW r \in Request
  PROVE  Order(r.op, Steps(r.op)) /\ Begins(Steps(r.op))
<1>1. CASE r.op = "save"
  <2>1. PICK p : p = <<"upsert", "snapUsers", "tryWriteUsers", "listDept", "snapDepts",
            "writeDepts">>
    OBVIOUS
  <2>2. DOMAIN p = 1 .. 6
    BY <2>1
  <2>3. /\ p[1] = "upsert" /\ p[2] = "snapUsers" /\ p[3] = "tryWriteUsers" /\ p[4] = "listDept"
        /\ p[5] = "snapDepts" /\ p[6] = "writeDepts"
    BY <2>1
  <2>4. SavesNext(p)
    BY <2>2, <2>3 DEF SavesNext, UserChanges, DeptChanges, Writes
  <2>5. GoesTo(p)
    BY <2>2, <2>3 DEF GoesTo
  <2>6. ListsLater(p)
    BY <2>2, <2>3 DEF ListsLater, Sure
  <2>7. OfRequest(r.op, p) /\ Begins(p)
    BY <1>1, <2>2, <2>3 DEF OfRequest, Begins, Personal
  <2>8. QED
    BY <1>1, <2>1, <2>4, <2>5, <2>6, <2>7, StepsSave DEF Order
<1>2. CASE r.op = "delete"
  <2>1. PICK p : p = <<"erase", "snapUsers", "writeUsers">>
    OBVIOUS
  <2>2. DOMAIN p = 1 .. 3
    BY <2>1
  <2>3. /\ p[1] = "erase" /\ p[2] = "snapUsers" /\ p[3] = "writeUsers"
    BY <2>1
  <2>4. SavesNext(p)
    BY <2>2, <2>3 DEF SavesNext, UserChanges, DeptChanges, Writes
  <2>5. GoesTo(p)
    BY <2>2, <2>3 DEF GoesTo
  <2>6. ListsLater(p)
    BY <2>2, <2>3 DEF ListsLater, Sure
  <2>7. OfRequest(r.op, p) /\ Begins(p)
    BY <1>2, <2>2, <2>3 DEF OfRequest, Begins, Personal
  <2>8. QED
    BY <1>2, <2>1, <2>4, <2>5, <2>6, <2>7, StepsDelete DEF Order
<1>3. CASE r.op = "assign"
  <2>1. PICK p : p = <<"assign", "snapUsers", "writeUsers">>
    OBVIOUS
  <2>2. DOMAIN p = 1 .. 3
    BY <2>1
  <2>3. /\ p[1] = "assign" /\ p[2] = "snapUsers" /\ p[3] = "writeUsers"
    BY <2>1
  <2>4. SavesNext(p)
    BY <2>2, <2>3 DEF SavesNext, UserChanges, DeptChanges, Writes
  <2>5. GoesTo(p)
    BY <2>2, <2>3 DEF GoesTo
  <2>6. ListsLater(p)
    BY <2>2, <2>3 DEF ListsLater, Sure
  <2>7. OfRequest(r.op, p) /\ Begins(p)
    BY <1>3, <2>2, <2>3 DEF OfRequest, Begins, Personal
  <2>8. QED
    BY <1>3, <2>1, <2>4, <2>5, <2>6, <2>7, StepsAssign DEF Order
<1>4. CASE r.op = "remove"
  <2>1. PICK p : p = <<"release", "snapUsers", "writeUsers">>
    OBVIOUS
  <2>2. DOMAIN p = 1 .. 3
    BY <2>1
  <2>3. /\ p[1] = "release" /\ p[2] = "snapUsers" /\ p[3] = "writeUsers"
    BY <2>1
  <2>4. SavesNext(p)
    BY <2>2, <2>3 DEF SavesNext, UserChanges, DeptChanges, Writes
  <2>5. GoesTo(p)
    BY <2>2, <2>3 DEF GoesTo
  <2>6. ListsLater(p)
    BY <2>2, <2>3 DEF ListsLater, Sure
  <2>7. OfRequest(r.op, p) /\ Begins(p)
    BY <1>4, <2>2, <2>3 DEF OfRequest, Begins, Personal
  <2>8. QED
    BY <1>4, <2>1, <2>4, <2>5, <2>6, <2>7, StepsRemove DEF Order
<1>5. CASE r.op = "create"
  <2>1. PICK p : p = <<"ensureUser", "snapUsers", "writeUsers">>
    OBVIOUS
  <2>2. DOMAIN p = 1 .. 3
    BY <2>1
  <2>3. /\ p[1] = "ensureUser" /\ p[2] = "snapUsers" /\ p[3] = "writeUsers"
    BY <2>1
  <2>4. SavesNext(p)
    BY <2>2, <2>3 DEF SavesNext, UserChanges, DeptChanges, Writes
  <2>5. GoesTo(p)
    BY <2>2, <2>3 DEF GoesTo
  <2>6. ListsLater(p)
    BY <2>2, <2>3 DEF ListsLater, Sure
  <2>7. OfRequest(r.op, p) /\ Begins(p)
    BY <1>5, <2>2, <2>3 DEF OfRequest, Begins, Personal
  <2>8. QED
    BY <1>5, <2>1, <2>4, <2>5, <2>6, <2>7, StepsCreate DEF Order
<1>6. CASE r.op = "import"
  <2>1. PICK p : p = <<"replace", "snapUsers", "writeUsers", "readUsed", "ensureDepts",
            "snapDepts", "writeDepts">>
    OBVIOUS
  <2>2. DOMAIN p = 1 .. 7
    BY <2>1
  <2>3. /\ p[1] = "replace" /\ p[2] = "snapUsers" /\ p[3] = "writeUsers" /\ p[4] = "readUsed"
        /\ p[5] = "ensureDepts" /\ p[6] = "snapDepts" /\ p[7] = "writeDepts"
    BY <2>1
  <2>4. SavesNext(p)
    BY <2>2, <2>3 DEF SavesNext, UserChanges, DeptChanges, Writes
  <2>5. GoesTo(p)
    BY <2>2, <2>3 DEF GoesTo
  <2>6. ListsLater(p)
    BY <2>2, <2>3 DEF ListsLater, Sure
  <2>7. OfRequest(r.op, p) /\ Begins(p)
    BY <1>6, <2>2, <2>3 DEF OfRequest, Begins, Personal
  <2>8. QED
    BY <1>6, <2>1, <2>4, <2>5, <2>6, <2>7, StepsImport DEF Order
<1>7. CASE r.op = "addDept"
  <2>1. PICK p : p = <<"listDept", "snapDepts", "writeDepts">>
    OBVIOUS
  <2>2. DOMAIN p = 1 .. 3
    BY <2>1
  <2>3. /\ p[1] = "listDept" /\ p[2] = "snapDepts" /\ p[3] = "writeDepts"
    BY <2>1
  <2>4. SavesNext(p)
    BY <2>2, <2>3 DEF SavesNext, UserChanges, DeptChanges, Writes
  <2>5. GoesTo(p)
    BY <2>2, <2>3 DEF GoesTo
  <2>6. ListsLater(p)
    BY <2>2, <2>3 DEF ListsLater, Sure
  <2>7. OfRequest(r.op, p) /\ Begins(p)
    BY <1>7, <2>2, <2>3 DEF OfRequest, Begins, Personal
  <2>8. QED
    BY <1>7, <2>1, <2>4, <2>5, <2>6, <2>7, StepsAddDept DEF Order
<1>8. CASE r.op = "rename"
  <2>1. PICK p : p = <<"renameDept", "snapDepts", "writeDepts", "moveUsers", "snapUsers",
            "writeUsers">>
    OBVIOUS
  <2>2. DOMAIN p = 1 .. 6
    BY <2>1
  <2>3. /\ p[1] = "renameDept" /\ p[2] = "snapDepts" /\ p[3] = "writeDepts" /\ p[4] = "moveUsers"
        /\ p[5] = "snapUsers" /\ p[6] = "writeUsers"
    BY <2>1
  <2>4. SavesNext(p)
    BY <2>2, <2>3 DEF SavesNext, UserChanges, DeptChanges, Writes
  <2>5. GoesTo(p)
    BY <2>2, <2>3 DEF GoesTo
  <2>6. ListsLater(p)
    BY <2>2, <2>3 DEF ListsLater, Sure
  <2>7. OfRequest(r.op, p) /\ Begins(p)
    BY <1>8, <2>2, <2>3 DEF OfRequest, Begins, Personal
  <2>8. QED
    BY <1>8, <2>1, <2>4, <2>5, <2>6, <2>7, StepsRename DEF Order
<1>9. CASE r.op = "drop"
  <2>1. PICK p : p = <<"checkUse", "dropDept", "snapDepts", "writeDepts">>
    OBVIOUS
  <2>2. DOMAIN p = 1 .. 4
    BY <2>1
  <2>3. /\ p[1] = "checkUse" /\ p[2] = "dropDept" /\ p[3] = "snapDepts" /\ p[4] = "writeDepts"
    BY <2>1
  <2>4. SavesNext(p)
    BY <2>2, <2>3 DEF SavesNext, UserChanges, DeptChanges, Writes
  <2>5. GoesTo(p)
    BY <2>2, <2>3 DEF GoesTo
  <2>6. ListsLater(p)
    BY <2>2, <2>3 DEF ListsLater, Sure
  <2>7. OfRequest(r.op, p) /\ Begins(p)
    BY <1>9, <2>2, <2>3 DEF OfRequest, Begins, Personal
  <2>8. QED
    BY <1>9, <2>1, <2>4, <2>5, <2>6, <2>7, StepsDrop DEF Order
<1>10. CASE r.op = "soyalMerge"
  <2>1. PICK p : p = <<"copyOwner", "putCopy", "snapUsers", "tryWriteUsers", "listDept",
            "snapDepts", "writeDepts">>
    OBVIOUS
  <2>2. DOMAIN p = 1 .. 7
    BY <2>1
  <2>3. /\ p[1] = "copyOwner" /\ p[2] = "putCopy" /\ p[3] = "snapUsers" /\ p[4] = "tryWriteUsers"
        /\ p[5] = "listDept" /\ p[6] = "snapDepts" /\ p[7] = "writeDepts"
    BY <2>1
  <2>4. SavesNext(p)
    BY <2>2, <2>3 DEF SavesNext, UserChanges, DeptChanges, Writes
  <2>5. GoesTo(p)
    BY <2>2, <2>3 DEF GoesTo
  <2>6. ListsLater(p)
    BY <2>2, <2>3 DEF ListsLater, Sure
  <2>7. OfRequest(r.op, p) /\ Begins(p)
    BY <1>10, <2>2, <2>3 DEF OfRequest, Begins, Personal
  <2>8. QED
    BY <1>10, <2>1, <2>4, <2>5, <2>6, <2>7, StepsSoyalMerge DEF Order
<1>11. CASE r.op = "soyalCreate"
  <2>1. PICK p : p = <<"checkFree", "upsertNew", "snapUsers", "tryWriteUsers", "putCopy",
            "snapUsers", "tryWriteUsers", "listDept", "snapDepts", "writeDepts">>
    OBVIOUS
  <2>2. DOMAIN p = 1 .. 10
    BY <2>1
  <2>3. /\ p[1] = "checkFree" /\ p[2] = "upsertNew" /\ p[3] = "snapUsers" /\ p[4] = "tryWriteUsers"
        /\ p[5] = "putCopy" /\ p[6] = "snapUsers" /\ p[7] = "tryWriteUsers" /\ p[8] = "listDept"
        /\ p[9] = "snapDepts" /\ p[10] = "writeDepts"
    BY <2>1
  <2>4. SavesNext(p)
    BY <2>2, <2>3 DEF SavesNext, UserChanges, DeptChanges, Writes
  <2>5. GoesTo(p)
    BY <2>2, <2>3 DEF GoesTo
  <2>6. ListsLater(p)
    BY <2>2, <2>3 DEF ListsLater, Sure
  <2>7. OfRequest(r.op, p) /\ Begins(p)
    BY <1>11, <2>2, <2>3 DEF OfRequest, Begins, Personal
  <2>8. QED
    BY <1>11, <2>1, <2>4, <2>5, <2>6, <2>7, StepsSoyalCreate DEF Order
<1>12. CASE r.op = "soyalAssign"
  <2>1. PICK p : p = <<"assign", "snapUsers", "writeUsers", "copyUser", "putCopy", "snapUsers",
            "tryWriteUsers", "listDept", "snapDepts", "writeDepts">>
    OBVIOUS
  <2>2. DOMAIN p = 1 .. 10
    BY <2>1
  <2>3. /\ p[1] = "assign" /\ p[2] = "snapUsers" /\ p[3] = "writeUsers" /\ p[4] = "copyUser"
        /\ p[5] = "putCopy" /\ p[6] = "snapUsers" /\ p[7] = "tryWriteUsers" /\ p[8] = "listDept"
        /\ p[9] = "snapDepts" /\ p[10] = "writeDepts"
    BY <2>1
  <2>4. SavesNext(p)
    BY <2>2, <2>3 DEF SavesNext, UserChanges, DeptChanges, Writes
  <2>5. GoesTo(p)
    BY <2>2, <2>3 DEF GoesTo
  <2>6. ListsLater(p)
    BY <2>2, <2>3 DEF ListsLater, Sure
  <2>7. OfRequest(r.op, p) /\ Begins(p)
    BY <1>12, <2>2, <2>3 DEF OfRequest, Begins, Personal
  <2>8. QED
    BY <1>12, <2>1, <2>4, <2>5, <2>6, <2>7, StepsSoyalAssign DEF Order
<1>13. QED
  BY <1>1, <1>2, <1>3, <1>4, <1>5, <1>6, <1>7, <1>8, <1>9, <1>10, <1>11, <1>12 DEF Request

-----------------------------------------------------------------------------
\* A step, a skip or an early end leaves a program of the same shape.

\* What is left of a program after its first n steps, to the last one.
RestOf(p, n, q) ==
    /\ q \in Seq(StepName)
    /\ \A i \in DOMAIN q : i \in Nat \ {0} /\ i + n \in DOMAIN p /\ q[i] = p[i + n]
    /\ \A i \in Nat \ {0} : i + n \in DOMAIN p => i \in DOMAIN q
    /\ q = <<>> <=> n + 1 \notin DOMAIN p

LEMMA Rest ==
  ASSUME NEW p \in Seq(StepName), NEW n \in Nat
  PROVE  RestOf(p, n, SubSeq(p, n + 1, Len(p)))
<1> DEFINE q == SubSeq(p, n + 1, Len(p))
<1>1. q \in Seq(StepName) /\ \A i \in DOMAIN q : i + n \in DOMAIN p /\ q[i] = p[i + n]
  BY Suffix DEF Leaves
<1>2. Len(p) \in Nat /\ DOMAIN p = 1 .. Len(p)
  BY LenProperties
<1>3. Len(q) = IF n + 1 <= Len(p) THEN Len(p) - (n + 1) + 1 ELSE 0
  <2>1. \A i \in n + 1 .. Len(p) : i \in 1 .. Len(p)
    BY <1>2
  <2>2. \A i \in n + 1 .. Len(p) : p[i] \in StepName
    BY <2>1, ElementOfSeq
  <2>3. n + 1 \in Int /\ Len(p) \in Int
    BY <1>2
  <2>4. QED
    BY <2>2, <2>3, SubSeqProperties
<1> HIDE DEF q
<1>4. DOMAIN q = 1 .. Len(q) /\ Len(q) \in Nat /\ (q = <<>> <=> Len(q) = 0)
  BY <1>1, LenProperties, EmptySeq
<1>5. PICK l \in Nat : l = Len(p)
  BY <1>2
<1>6. PICK m \in Nat : m = Len(q)
  BY <1>4
<1>7. DOMAIN p = 1 .. l /\ DOMAIN q = 1 .. m /\ (q = <<>> <=> m = 0)
      /\ m = IF n + 1 <= l THEN l - (n + 1) + 1 ELSE 0
  BY <1>2, <1>3, <1>4, <1>5, <1>6
<1>8. \A i \in Nat \ {0} : i + n \in 1 .. l => i \in 1 .. m
  BY <1>7
<1>9. m = 0 <=> n + 1 \notin 1 .. l
  BY <1>7
<1>10. \A i \in 1 .. m : i \in Nat \ {0}
  OBVIOUS
<1>11. RestOf(p, n, q)
  BY <1>1, <1>7, <1>8, <1>9, <1>10 DEF RestOf
<1>12. QED
  BY <1>11 DEF q

LEMMA OrderRest ==
  ASSUME NEW op, NEW p \in Seq(StepName), Order(op, p), NEW n \in Nat, NEW q, RestOf(p, n, q)
  PROVE  Order(op, q)
<1>1. \A i \in DOMAIN q : i \in Nat \ {0} /\ i + n \in DOMAIN p /\ q[i] = p[i + n]
  BY DEF RestOf
<1>2. \A i \in Nat \ {0} : i + n \in DOMAIN p => i \in DOMAIN q
  BY DEF RestOf
<1>3. \A i \in Nat, k \in Nat : (i + n) + k = (i + k) + n
  OBVIOUS
<1>4. \A i \in DOMAIN q, k \in Nat : (i + n) + k \in DOMAIN p =>
        i + k \in DOMAIN q /\ q[i + k] = p[(i + n) + k]
  <2>1. TAKE i \in DOMAIN q, k \in Nat
  <2>2. HAVE (i + n) + k \in DOMAIN p
  <2>3. i + k \in Nat \ {0} /\ (i + k) + n = (i + n) + k
    BY <1>1
  <2>4. QED
    BY <1>1, <1>2, <2>2, <2>3
<1>5. \A i \in DOMAIN q, k \in Nat : i + k \in DOMAIN q =>
        (i + n) + k \in DOMAIN p /\ q[i + k] = p[(i + n) + k]
  <2>1. TAKE i \in DOMAIN q, k \in Nat
  <2>2. HAVE i + k \in DOMAIN q
  <2>3. (i + k) + n = (i + n) + k
    BY <1>1
  <2>4. QED
    BY <1>1, <2>2, <2>3
<1>6. SavesNext(p) /\ GoesTo(p) /\ ListsLater(p) /\ OfRequest(op, p)
  BY DEF Order
<1>7. ASSUME NEW i \in DOMAIN q, NEW k, k = i + n
      PROVE  /\ k \in DOMAIN p /\ q[i] = p[k]
             /\ k + 1 \in DOMAIN p => i + 1 \in DOMAIN q /\ q[i + 1] = p[k + 1]
             /\ i + 1 \in DOMAIN q => k + 1 \in DOMAIN p /\ q[i + 1] = p[k + 1]
             /\ k + 3 \in DOMAIN p => i + 3 \in DOMAIN q /\ q[i + 3] = p[k + 3]
             /\ i + 3 \in DOMAIN q => k + 3 \in DOMAIN p
             /\ k + 4 \in DOMAIN p => i + 4 \in DOMAIN q /\ q[i + 4] = p[k + 4]
             /\ k + 6 \in DOMAIN p => i + 6 \in DOMAIN q /\ q[i + 6] = p[k + 6]
             /\ \A j \in DOMAIN q : j > i => /\ j + n \in DOMAIN p /\ j + n > k
                                             /\ q[j] = p[j + n]
  <2>1. 1 \in Nat /\ 3 \in Nat /\ 4 \in Nat /\ 6 \in Nat
    OBVIOUS
  <2>2. \A j \in DOMAIN q : j > i => j + n > k
    BY <1>1, <1>7
  <2>3. QED
    BY <1>1, <1>4, <1>5, <1>7, <2>1, <2>2
<1>8. SavesNext(q)
  <2>1. SUFFICES ASSUME NEW i \in DOMAIN q
                 PROVE  SavesNext(q)!(i)
    BY DEF SavesNext
  <2>2. PICK k : k = i + n
    OBVIOUS
  <2>3. QED
    BY <1>6, <1>7, <2>2 DEF SavesNext
<1>9. GoesTo(q)
  <2>1. SUFFICES ASSUME NEW i \in DOMAIN q
                 PROVE  GoesTo(q)!(i)
    BY DEF GoesTo
  <2>2. PICK k : k = i + n
    OBVIOUS
  <2>3. QED
    BY <1>6, <1>7, <2>2 DEF GoesTo
<1>10. ListsLater(q)
  <2>1. SUFFICES ASSUME NEW i \in DOMAIN q
                 PROVE  ListsLater(q)!(i)
    BY DEF ListsLater
  <2>2. PICK k : k = i + n
    OBVIOUS
  <2>3. QED
    BY <1>6, <1>7, <2>2 DEF ListsLater
<1>11. OfRequest(op, q)
  <2>1. SUFFICES ASSUME NEW i \in DOMAIN q
                 PROVE  OfRequest(op, q)!(i)
    BY DEF OfRequest
  <2>2. PICK k : k = i + n
    OBVIOUS
  <2>3. QED
    BY <1>6, <1>7, <2>2 DEF OfRequest
<1>12. QED
  BY <1>8, <1>9, <1>10, <1>11 DEF Order

LEMMA OrderNone ==
  ASSUME NEW op
  PROVE  Order(op, <<>>)
BY DEF Order, SavesNext, GoesTo, ListsLater, OfRequest

\* A request that saves a user begins with no user read.
OrderInv == \A t \in Thread :
    /\ Order(req[t].op, todo[t])
    /\ todo[t] = <<>> \/ todo[t][1] = "upsert" => copy[t] = NoCopy

Others(t) == \A s \in Thread \ {t} :
    todo'[s] = todo[s] /\ req'[s] = req[s] /\ copy'[s] = copy[s]

LEMMA EndsOrder ==
  ASSUME ThreadInv, OrderInv, NEW t \in Thread, Ends(t)
  PROVE  Others(t) /\ OrderInv' /\ todo'[t] = <<>>
<1>1. /\ req \in [Thread -> Request \union {NoRequest}] /\ todo \in [Thread -> Seq(StepName)]
      /\ copy \in [Thread -> UserRow \union {NoCopy}]
  BY DEF ThreadInv, RequestsType
<1>2. Others(t) /\ todo'[t] = <<>> /\ copy'[t] = NoCopy
  BY <1>1 DEF Ends, Others
<1>3. Order(req'[t].op, todo'[t])
  BY <1>2, OrderNone
<1>4. QED
  BY <1>2, <1>3 DEF OrderInv, Others

\* The request goes on after its first n steps.
LEMMA SkipsOrder ==
  ASSUME ThreadInv, OrderInv, NEW t \in Thread, NEW n \in Nat \ {0}, n + 1 \in DOMAIN todo[t],
         todo' = [todo EXCEPT ![t] = SubSeq(todo[t], n + 1, Len(todo[t]))], UNCHANGED req,
         \A s \in Thread \ {t} : copy'[s] = copy[s]
  PROVE  /\ Others(t) /\ OrderInv' /\ req'[t] = req[t]
         /\ todo'[t] # <<>> /\ todo'[t][1] = todo[t][n + 1]
<1>1. /\ req \in [Thread -> Request \union {NoRequest}] /\ todo \in [Thread -> Seq(StepName)]
      /\ copy \in [Thread -> UserRow \union {NoCopy}]
  BY DEF ThreadInv, RequestsType
<1>2. PICK p \in Seq(StepName) : p = todo[t]
  BY <1>1
<1>3. PICK q : q = SubSeq(p, n + 1, Len(p))
  OBVIOUS
<1>4. RestOf(p, n, q)
  BY <1>3, Rest
<1>5. Others(t) /\ todo'[t] = q /\ req'[t] = req[t]
  BY <1>1, <1>2, <1>3 DEF Others
<1>6. q # <<>> /\ q[1] = p[n + 1]
  <2>1. 1 \in Nat \ {0} /\ 1 + n = n + 1
    OBVIOUS
  <2>2. QED
    BY <1>2, <1>4, <2>1 DEF RestOf
<1>7. Order(req[t].op, p)
  BY <1>2 DEF OrderInv
<1>8. Order(req[t].op, q)
  BY <1>4, <1>7, OrderRest
<1>9. q[1] # "upsert"
  <2>1. n \in DOMAIN p
    BY <1>2, LenProperties
  <2>2. GoesTo(p) /\ n + 1 \in DOMAIN p
    BY <1>2, <1>7 DEF Order
  <2>3. p[n + 1] # "upsert"
    BY <2>1, <2>2 DEF GoesTo
  <2>4. QED
    BY <1>6, <2>3
<1>10. OrderInv'
  BY <1>5, <1>6, <1>8, <1>9 DEF OrderInv, Others
<1>11. QED
  BY <1>2, <1>5, <1>6, <1>10

LEMMA AdvanceOrder ==
  ASSUME ThreadInv, OrderInv, NEW t \in Thread, NEW step, At(t, step), Advance(t)
  PROVE  /\ Others(t) /\ OrderInv'
         /\ \/ Ends(t) /\ todo'[t] = <<>> /\ 2 \notin DOMAIN todo[t]
            \/ /\ 2 \in DOMAIN todo[t] /\ req'[t] = req[t] /\ UNCHANGED copy
               /\ todo'[t] # <<>> /\ todo'[t][1] = todo[t][2]
               /\ todo'[t] = SubSeq(todo[t], 1 + 1, Len(todo[t]))
<1>1. PICK p \in Seq(StepName) : p = todo[t]
  BY AtFirst
<1>2. p # <<>> /\ DOMAIN p = 1 .. Len(p) /\ Len(p) \in Nat /\ Len(p) # 0
  BY <1>1, AtFirst, LenProperties, EmptySeq
<1>3. CASE Len(p) = 1
  <2>1. Ends(t) /\ 2 \notin DOMAIN p
    BY <1>1, <1>2, <1>3 DEF Advance
  <2>2. QED
    BY <1>1, <2>1, EndsOrder
<1>4. CASE Len(p) # 1
  <2>1. 1 + 1 \in DOMAIN p /\ 1 + 1 = 2
    BY <1>2, <1>4
  <2>2. todo' = [todo EXCEPT ![t] = Tail(p)] /\ UNCHANGED <<req, copy>>
    BY <1>1, <1>4 DEF Advance
  <2>3. todo' = [todo EXCEPT ![t] = SubSeq(todo[t], 1 + 1, Len(todo[t]))]
    BY <1>1, <2>2, AtFirst
  <2>4. todo'[t] = SubSeq(todo[t], 1 + 1, Len(todo[t]))
    BY <2>3 DEF ThreadInv, RequestsType
  <2>5. 1 \in Nat \ {0} /\ UNCHANGED req /\ UNCHANGED copy
    BY <2>2
  <2>6. /\ Others(t) /\ OrderInv' /\ req'[t] = req[t]
        /\ todo'[t] # <<>> /\ todo'[t][1] = todo[t][1 + 1]
    BY <1>1, <2>1, <2>3, <2>5, SkipsOrder
  <2>7. QED
    BY <1>1, <2>1, <2>4, <2>5, <2>6
<1>5. QED
  BY <1>3, <1>4

\* The request goes on with a user.
LEMMA CopyOrder ==
  ASSUME ThreadInv, OrderInv, NEW t \in Thread, NEW step, At(t, step), 2 \in DOMAIN todo[t],
         NEW u, copy' = [copy EXCEPT ![t] = u], todo' = [todo EXCEPT ![t] = Tail(todo[t])],
         UNCHANGED req
  PROVE  /\ Others(t) /\ OrderInv' /\ req'[t] = req[t]
         /\ todo'[t] # <<>> /\ todo'[t][1] = todo[t][2]
         /\ todo'[t] = SubSeq(todo[t], 1 + 1, Len(todo[t]))
<1>1. todo' = [todo EXCEPT ![t] = SubSeq(todo[t], 1 + 1, Len(todo[t]))]
  BY AtFirst
<1>2. 1 + 1 = 2 /\ 1 \in Nat \ {0} /\ \A s \in Thread \ {t} : copy'[s] = copy[s]
  BY DEF ThreadInv, RequestsType
<1>3. todo'[t] = SubSeq(todo[t], 1 + 1, Len(todo[t]))
  BY <1>1 DEF ThreadInv, RequestsType
<1>4. 1 + 1 \in DOMAIN todo[t] /\ todo[t][1 + 1] = todo[t][2]
  BY <1>2
<1>5. /\ Others(t) /\ OrderInv' /\ req'[t] = req[t]
      /\ todo'[t] # <<>> /\ todo'[t][1] = todo[t][1 + 1]
  BY <1>1, <1>2, <1>4, SkipsOrder
<1>6. QED
  BY <1>3, <1>4, <1>5

\* The department is listed already: nothing is left to do.
LEMMA SkipOrder ==
  ASSUME ThreadInv, OrderInv, NEW t \in Thread, At(t, "listDept"), SkipTo(t, 3)
  PROVE  Ends(t)
<1>1. PICK p \in Seq(StepName) : p = todo[t]
  BY AtFirst
<1>2. p[1] = "listDept" /\ 1 \in DOMAIN p /\ Order(req[t].op, p)
  BY <1>1, AtFirst DEF OrderInv
<1>3. 1 + 3 \notin DOMAIN p
  BY <1>2 DEF Order, GoesTo
<1>4. Len(p) <= 3
  BY <1>3, LenProperties
<1>5. QED
  BY <1>1, <1>4 DEF SkipTo

-----------------------------------------------------------------------------
\* Snapshots and tables.

HeadIn(t, S) == todo[t] # <<>> /\ todo[t][1] \in S
Owed(s) == \E t \in Thread : HeadIn(t, {Snap(s)})

Memory(s) == IF s = "users" THEN users ELSE depts
Stored(s) == IF s = "users" THEN storedUsers ELSE storedDepts
Taken(t, s) == IF s = "users" THEN snap[t].users ELSE snap[t].depts

\* The newest snapshot is of what memory holds; or all are overtaken by one that was stored;
\* or there is none, and the table holds what memory holds, or a save is to be made up for.
Saved(s) ==
    \/ \E n \in Holders(s) : /\ \A a \in Holders(s) : <<a, n>> \in held[s]
                             /\ Taken(n, s) = Memory(s)
    \/ Holders(s) # {} /\ Holders(s) \subseteq late[s]
    \/ Holders(s) = {} /\ (stale[s] \/ Stored(s) = Memory(s))

StoreInv(s) ==
    /\ \A t \in Thread : t \in Holders(s) <=> HeadIn(t, Writes(s))
    /\ late[s] \subseteq Holders(s)
    /\ up /\ ~Owed(s) => Saved(s)

\* A step of t that is neither a snapshot of s nor a write of one.
LEMMA Bystander ==
  ASSUME NEW s \in Store, StoreInv(s), NEW t \in Thread, Others(t),
         held'[s] = held[s], late'[s] = late[s], stale'[s] = stale[s],
         Stored(s)' = Stored(s), up' = up,
         ~HeadIn(t, Writes(s)), ~HeadIn(t, {Snap(s)}), ~HeadIn(t, Writes(s))',
         \A a \in Thread \ {t} : snap'[a] = snap[a],
         Memory(s)' = Memory(s) \/ HeadIn(t, {Snap(s)})'
  PROVE  StoreInv(s)'
<1>1. Holders(s)' = Holders(s) /\ t \notin Holders(s) /\ Holders(s) \subseteq Thread
  BY DEF Holders, StoreInv
<1>2. \A a \in Thread \ {t} : /\ HeadIn(a, Writes(s))' = HeadIn(a, Writes(s))
                              /\ HeadIn(a, {Snap(s)})' = HeadIn(a, {Snap(s)})
                              /\ Taken(a, s)' = Taken(a, s)
  BY DEF HeadIn, Others, Taken, Writes, Snap
<1>3. \A a \in Thread : (a \in Holders(s) <=> HeadIn(a, Writes(s)))'
  BY <1>1, <1>2 DEF StoreInv
<1>4. ASSUME up', ~Owed(s)' PROVE Saved(s)'
  <2>1. ~Owed(s)
    BY <1>2, <1>4 DEF Owed
  <2>2. Memory(s)' = Memory(s)
    BY <1>4 DEF Owed
  <2>3. Saved(s)
    BY <1>4, <2>1 DEF StoreInv
  <2>4. CASE \E n \in Holders(s) : /\ \A a \in Holders(s) : <<a, n>> \in held[s]
                                   /\ Taken(n, s) = Memory(s)
    BY <1>1, <1>2, <2>2, <2>4 DEF Saved
  <2>5. CASE Holders(s) # {} /\ Holders(s) \subseteq late[s]
    BY <1>1, <2>5 DEF Saved
  <2>6. CASE Holders(s) = {} /\ (stale[s] \/ Stored(s) = Memory(s))
    BY <1>1, <2>2, <2>6 DEF Saved
  <2>7. QED
    BY <2>3, <2>4, <2>5, <2>6 DEF Saved
<1>5. late'[s] \subseteq Holders(s)'
  BY <1>1 DEF StoreInv
<1>6. QED
  BY <1>3, <1>4, <1>5 DEF StoreInv

\* Who takes a snapshot has the newest one, and it is of what memory holds.
LEMMA SnapshotTaken ==
  ASSUME RegistryInv, NEW s \in Store, StoreInv(s), NEW t \in Thread, Others(t),
         TakeSnapshot(t, s), HeadIn(t, Writes(s))'
  PROVE  StoreInv(s)'
<1>1. SavesType /\ SnapType
  BY InvParts
<1>2. /\ held'[s] = held[s] \union {<<a, t>> : a \in Holders(s) \union {t}}
      /\ late'[s] = late[s] /\ UNCHANGED <<users, depts, up>>
  BY <1>1 DEF TakeSnapshot, SavesType, memoryVars
<1>3. Holders(s)' = Holders(s) \union {t}
  BY <1>2 DEF Holders
<1>4. \A a \in Thread \ {t} : HeadIn(a, Writes(s))' = HeadIn(a, Writes(s))
  BY DEF HeadIn, Others, Writes
<1>5. \A a \in Thread : (a \in Holders(s) <=> HeadIn(a, Writes(s)))'
  BY <1>3, <1>4 DEF StoreInv
<1>6. late'[s] \subseteq Holders(s)'
  BY <1>2, <1>3 DEF StoreInv
<1>7. Taken(t, s)' = Memory(s)'
  <2>1. CASE s = "users"
    BY <1>1, <1>2, <2>1 DEF Taken, Memory, TakeSnapshot, SnapType
  <2>2. CASE s # "users"
    BY <1>1, <1>2, <2>2 DEF Taken, Memory, TakeSnapshot, SnapType
  <2>3. QED
    BY <2>1, <2>2
<1>8. \A a \in Holders(s)' : <<a, t>> \in held'[s]
  BY <1>2, <1>3
<1>9. Saved(s)'
  BY <1>3, <1>7, <1>8 DEF Saved
<1>10. QED
  BY <1>5, <1>6, <1>9 DEF StoreInv

\* What a write does to the snapshots, whether it is stored or rolled back.
LEMMA SnapshotGone ==
  ASSUME NEW s \in Store, StoreInv(s), NEW t \in Thread, HeadIn(t, Writes(s)), Others(t),
         ~HeadIn(t, Writes(s))', held'[s] = HeldWithout(t, s), up' = up
  PROVE  /\ t \in Holders(s) /\ Holders(s)' = Holders(s) \ {t}
         /\ \A a \in Thread : (a \in Holders(s) <=> HeadIn(a, Writes(s)))'
         /\ ~Owed(s)' => ~Owed(s)
         /\ \A a, b \in Thread \ {t} : <<a, b>> \in held[s] => <<a, b>> \in held'[s]
<1>1. t \in Holders(s)
  BY DEF StoreInv
<1>2. Holders(s)' = Holders(s) \ {t}
  BY DEF Holders, HeldWithout
<1>3. \A a \in Thread \ {t} : /\ HeadIn(a, Writes(s))' = HeadIn(a, Writes(s))
                              /\ HeadIn(a, {Snap(s)})' = HeadIn(a, {Snap(s)})
  BY DEF HeadIn, Others, Writes, Snap
<1>4. \A a \in Thread : (a \in Holders(s) <=> HeadIn(a, Writes(s)))'
  BY <1>2, <1>3 DEF StoreInv
<1>5. ~HeadIn(t, {Snap(s)})
  BY DEF HeadIn, Snap, Writes, Store
<1>6. ~Owed(s)' => ~Owed(s)
  BY <1>3, <1>5 DEF Owed
<1>7. \A a, b \in Thread \ {t} : <<a, b>> \in held[s] => <<a, b>> \in held'[s]
  BY DEF HeldWithout
<1>8. QED
  BY <1>1, <1>2, <1>4, <1>6, <1>7

LEMMA SnapshotStored ==
  ASSUME RegistryInv, NEW s \in Store, StoreInv(s), NEW t \in Thread, HeadIn(t, Writes(s)),
         Others(t), Commit(t, s), ~HeadIn(t, Writes(s))'
  PROVE  StoreInv(s)'
<1>1. SavesType /\ SnapType
  BY InvParts
<1>2. /\ held'[s] = HeldWithout(t, s)
      /\ late'[s] = (late[s] \union HeldBefore(t, s)) \ {t}
      /\ stale'[s] = (t \in late[s])
      /\ UNCHANGED <<users, depts, up>>
  BY <1>1 DEF Commit, SavesType, memoryVars
<1>3. /\ t \in Holders(s) /\ Holders(s)' = Holders(s) \ {t}
      /\ \A a \in Thread : (a \in Holders(s) <=> HeadIn(a, Writes(s)))'
      /\ ~Owed(s)' => ~Owed(s)
      /\ \A a, b \in Thread \ {t} : <<a, b>> \in held[s] => <<a, b>> \in held'[s]
  BY <1>2, SnapshotGone
<1>4. late'[s] \subseteq Holders(s)'
  BY <1>2, <1>3 DEF StoreInv, HeldBefore
<1>5. Memory(s)' = Memory(s) /\ Stored(s)' = Taken(t, s)
  <2>1. CASE s = "users"
    BY <1>2, <2>1 DEF Memory, Stored, Taken, Commit
  <2>2. CASE s # "users"
    BY <1>2, <2>2 DEF Memory, Stored, Taken, Commit
  <2>3. QED
    BY <2>1, <2>2
<1>6. \A a \in Thread \ {t} : Taken(a, s)' = Taken(a, s)
  BY <1>1 DEF Taken, Commit, SnapType
<1>7. ASSUME up', ~Owed(s)' PROVE Saved(s)'
  <2>1. Saved(s)
    BY <1>2, <1>3, <1>7 DEF StoreInv
  <2>2. ASSUME NEW n \in Holders(s), \A a \in Holders(s) : <<a, n>> \in held[s],
               Taken(n, s) = Memory(s)
        PROVE  Saved(s)'
    <3>1. CASE n = t
      <4>1. Holders(s)' \subseteq late'[s]
        BY <1>2, <1>3, <2>2, <3>1 DEF HeldBefore
      <4>2. Stored(s)' = Memory(s)'
        BY <1>5, <2>2, <3>1
      <4>3. QED
        BY <4>1, <4>2 DEF Saved
    <3>2. CASE n # t
      <4>1. n \in Holders(s)' /\ Taken(n, s)' = Memory(s)'
        BY <1>3, <1>5, <1>6, <2>2, <3>2 DEF Holders
      <4>2. \A a \in Holders(s)' : <<a, n>> \in held'[s]
        BY <1>3, <2>2, <3>2 DEF Holders
      <4>3. QED
        BY <4>1, <4>2 DEF Saved
    <3>3. QED
      BY <3>1, <3>2
  <2>3. CASE Holders(s) \subseteq late[s]
    BY <1>2, <1>3, <2>3 DEF Saved
  <2>4. QED
    BY <1>3, <2>1, <2>2, <2>3 DEF Saved
<1>8. QED
  BY <1>3, <1>4, <1>7 DEF StoreInv

LEMMA SnapshotRefused ==
  ASSUME RegistryInv, NEW s \in Store, StoreInv(s), NEW t \in Thread, HeadIn(t, Writes(s)),
         Others(t), NEW ignored, Rollback(t, s, ignored), ~HeadIn(t, Writes(s))'
  PROVE  StoreInv(s)'
<1>1. SavesType
  BY InvParts
<1>2. /\ held'[s] = HeldWithout(t, s)
      /\ late'[s] = (late[s] \union Holders(s)) \ {t}
      /\ stale'[s] = TRUE /\ UNCHANGED up
  BY <1>1 DEF Rollback, SavesType
<1>3. /\ t \in Holders(s) /\ Holders(s)' = Holders(s) \ {t}
      /\ \A a \in Thread : (a \in Holders(s) <=> HeadIn(a, Writes(s)))'
  BY <1>2, SnapshotGone
<1>4. late'[s] = Holders(s)'
  BY <1>2, <1>3 DEF StoreInv
<1>5. Saved(s)'
  BY <1>2, <1>4 DEF Saved
<1>6. QED
  BY <1>3, <1>4, <1>5 DEF StoreInv

-----------------------------------------------------------------------------
\* Steps on users and departments: none leaves a change without a save to come.

\* The steps of saves, and those that write.
Saving == {"snapUsers", "writeUsers", "tryWriteUsers", "snapDepts", "writeDepts"}
Writing == {"writeUsers", "tryWriteUsers", "writeDepts"}

\* What comes after the step at hand.
LEMMA Landing ==
  ASSUME ThreadInv, OrderInv, NEW t \in Thread, NEW step, At(t, step)
  PROVE  /\ 2 \in DOMAIN todo[t] /\ step \notin {"snapUsers", "snapDepts"}
              => todo[t][2] \notin Writing
         /\ step \in UserChanges => 2 \in DOMAIN todo[t] /\ todo[t][2] = "snapUsers"
         /\ step \in DeptChanges => 2 \in DOMAIN todo[t] /\ todo[t][2] = "snapDepts"
         /\ step = "snapUsers" => 2 \in DOMAIN todo[t] /\ todo[t][2] \in Writes("users")
         /\ step = "snapDepts" => 2 \in DOMAIN todo[t] /\ todo[t][2] = "writeDepts"
         /\ step \in {"copyOwner", "copyUser"} => 2 \in DOMAIN todo[t] /\ todo[t][2] = "putCopy"
         /\ step = "checkFree" => 5 \in DOMAIN todo[t] /\ todo[t][5] = "putCopy"
         /\ step = "readUsed" => 2 \in DOMAIN todo[t] /\ todo[t][2] = "ensureDepts"
<1>1. PICK p \in Seq(StepName) : p = todo[t]
  BY AtFirst
<1>2. p[1] = step /\ 1 \in DOMAIN p /\ Order(req[t].op, p)
  BY <1>1, AtFirst DEF OrderInv
<1>3. SavesNext(p) /\ GoesTo(p)
  BY <1>2 DEF Order
<1>4. 1 + 1 = 2 /\ 1 + 4 = 5
  OBVIOUS
<1>5. /\ 2 \in DOMAIN p /\ step \notin {"snapUsers", "snapDepts"} => p[2] \notin Writing
      /\ step \in UserChanges => 2 \in DOMAIN p /\ p[2] = "snapUsers"
      /\ step \in DeptChanges => 2 \in DOMAIN p /\ p[2] = "snapDepts"
      /\ step = "snapUsers" => 2 \in DOMAIN p /\ p[2] \in Writes("users")
      /\ step = "snapDepts" => 2 \in DOMAIN p /\ p[2] = "writeDepts"
  BY <1>2, <1>3, <1>4 DEF SavesNext, Writing, Writes
<1>6. /\ step \in {"copyOwner", "copyUser"} => 2 \in DOMAIN p /\ p[2] = "putCopy"
      /\ step = "checkFree" => 5 \in DOMAIN p /\ p[5] = "putCopy"
      /\ step = "readUsed" => 2 \in DOMAIN p /\ p[2] = "ensureDepts"
  BY <1>2, <1>3, <1>4 DEF GoesTo
<1>7. QED
  BY <1>1, <1>5, <1>6

\* A step of t that is no part of a save ends in no write, and what it changes is saved next.
Turn(t) ==
    /\ Others(t) /\ OrderInv'
    /\ \E step \in StepName \ Saving : At(t, step)
    /\ ~HeadIn(t, Writing)'
    /\ users' = users \/ HeadIn(t, {"snapUsers"})'
    /\ depts' = depts \/ HeadIn(t, {"snapDepts"})'

LEMMA EndsTurn ==
  ASSUME ThreadInv, OrderInv, NEW t \in Thread, NEW step \in StepName \ Saving, At(t, step),
         Ends(t), UNCHANGED <<users, depts>>
  PROVE  Turn(t)
BY EndsOrder DEF Turn, HeadIn

LEMMA AdvanceTurn ==
  ASSUME ThreadInv, OrderInv, NEW t \in Thread, NEW step \in StepName \ Saving, At(t, step),
         Advance(t),
         users' = users \/ step \in UserChanges, depts' = depts \/ step \in DeptChanges
  PROVE  Turn(t)
<1>1. /\ 2 \in DOMAIN todo[t] => todo[t][2] \notin Writing
      /\ step \in UserChanges => 2 \in DOMAIN todo[t] /\ todo[t][2] = "snapUsers"
      /\ step \in DeptChanges => 2 \in DOMAIN todo[t] /\ todo[t][2] = "snapDepts"
  BY Landing DEF Saving
<1>2. /\ Others(t) /\ OrderInv'
      /\ \/ todo'[t] = <<>> /\ 2 \notin DOMAIN todo[t]
         \/ 2 \in DOMAIN todo[t] /\ todo'[t] # <<>> /\ todo'[t][1] = todo[t][2]
  BY AdvanceOrder
<1>3. QED
  BY <1>1, <1>2 DEF Turn, HeadIn

LEMMA CopyTurn ==
  ASSUME ThreadInv, OrderInv, NEW t \in Thread, NEW step \in StepName \ Saving, At(t, step),
         2 \in DOMAIN todo[t],
         NEW u, copy' = [copy EXCEPT ![t] = u], todo' = [todo EXCEPT ![t] = Tail(todo[t])],
         UNCHANGED <<req, depts>>, users' = users \/ step \in UserChanges
  PROVE  Turn(t)
<1>1. /\ todo[t][2] \notin Writing
      /\ step \in UserChanges => todo[t][2] = "snapUsers"
  BY Landing DEF Saving
<1>2. Others(t) /\ OrderInv' /\ todo'[t] # <<>> /\ todo'[t][1] = todo[t][2]
  BY CopyOrder
<1>3. QED
  BY <1>1, <1>2 DEF Turn, HeadIn

LEMMA UpsertUserTurn ==
  ASSUME UsersTyped, OrderInv, NEW t \in Thread, UpsertUser(t)
  PROVE  Turn(t)
<1>1. At(t, "upsert") /\ ThreadInv /\ "upsert" \in StepName \ Saving
  BY DEF UpsertUser, UsersTyped, StepName, Saving
<1>2. UNCHANGED depts /\ Advance(t) /\ "upsert" \in UserChanges
  BY DEF UpsertUser, UserChanges, restOfUsers
<1>3. QED
  BY <1>1, <1>2, AdvanceTurn

LEMMA EraseUserTurn ==
  ASSUME UsersTyped, OrderInv, NEW t \in Thread, EraseUser(t)
  PROVE  Turn(t)
<1>1. At(t, "erase") /\ ThreadInv /\ "erase" \in StepName \ Saving
  BY DEF EraseUser, UsersTyped, StepName, Saving
<1>2. UNCHANGED depts /\ "erase" \in UserChanges
  BY DEF EraseUser, UserChanges, restOfUsers
<1>3. CASE Advance(t)
  BY <1>1, <1>2, <1>3, AdvanceTurn
<1>4. CASE UNCHANGED users /\ Ends(t)
  BY <1>1, <1>2, <1>4, EndsTurn
<1>5. QED
  BY <1>3, <1>4 DEF EraseUser

LEMMA AssignCardTurn ==
  ASSUME UsersTyped, OrderInv, NEW t \in Thread, AssignCard(t)
  PROVE  Turn(t)
<1>1. At(t, "assign") /\ ThreadInv /\ "assign" \in StepName \ Saving
  BY DEF AssignCard, UsersTyped, StepName, Saving
<1>2. UNCHANGED depts /\ Advance(t) /\ "assign" \in UserChanges
  BY DEF AssignCard, UserChanges, restOfUsers
<1>3. QED
  BY <1>1, <1>2, AdvanceTurn

LEMMA RemoveCardTurn ==
  ASSUME UsersTyped, OrderInv, NEW t \in Thread, RemoveCard(t)
  PROVE  Turn(t)
<1>1. At(t, "release") /\ ThreadInv /\ "release" \in StepName \ Saving
  BY DEF RemoveCard, UsersTyped, StepName, Saving
<1>2. UNCHANGED depts /\ "release" \in UserChanges
  BY DEF RemoveCard, UserChanges, restOfUsers
<1>3. CASE Advance(t)
  BY <1>1, <1>2, <1>3, AdvanceTurn
<1>4. CASE UNCHANGED users /\ Ends(t)
  BY <1>1, <1>2, <1>4, EndsTurn
<1>5. QED
  BY <1>3, <1>4 DEF RemoveCard

LEMMA EnsureUserForCardTurn ==
  ASSUME UsersTyped, OrderInv, NEW t \in Thread, EnsureUserForCard(t)
  PROVE  Turn(t)
<1>1. At(t, "ensureUser") /\ ThreadInv /\ "ensureUser" \in StepName \ Saving
  BY DEF EnsureUserForCard, UsersTyped, StepName, Saving
<1>2. UNCHANGED depts /\ "ensureUser" \in UserChanges
  BY DEF EnsureUserForCard, UserChanges, restOfUsers
<1>3. CASE Advance(t)
  BY <1>1, <1>2, <1>3, AdvanceTurn
<1>4. CASE UNCHANGED users /\ Ends(t)
  BY <1>1, <1>2, <1>4, EndsTurn
<1>5. QED
  BY <1>3, <1>4 DEF EnsureUserForCard

LEMMA ImportCsvTurn ==
  ASSUME UsersTyped, OrderInv, NEW t \in Thread, ImportCsv(t)
  PROVE  Turn(t)
<1>1. At(t, "replace") /\ ThreadInv /\ "replace" \in StepName \ Saving
  BY DEF ImportCsv, UsersTyped, StepName, Saving
<1>2. UNCHANGED depts /\ Advance(t) /\ "replace" \in UserChanges
  BY DEF ImportCsv, UserChanges, restOfUsers
<1>3. QED
  BY <1>1, <1>2, AdvanceTurn

LEMMA MoveUsersTurn ==
  ASSUME UsersTyped, OrderInv, NEW t \in Thread, MoveUsers(t)
  PROVE  Turn(t)
<1>1. At(t, "moveUsers") /\ ThreadInv /\ "moveUsers" \in StepName \ Saving
  BY DEF MoveUsers, UsersTyped, StepName, Saving
<1>2. UNCHANGED depts /\ Advance(t) /\ "moveUsers" \in UserChanges
  BY DEF MoveUsers, UserChanges, restOfUsers
<1>3. QED
  BY <1>1, <1>2, AdvanceTurn

LEMMA CopyOwnerTurn ==
  ASSUME UsersTyped, OrderInv, NEW t \in Thread, CopyOwner(t)
  PROVE  Turn(t)
<1>1. At(t, "copyOwner") /\ ThreadInv /\ "copyOwner" \in StepName \ Saving
  BY DEF CopyOwner, UsersTyped, StepName, Saving
<1>2. UNCHANGED <<users, depts>>
  BY DEF CopyOwner, restOfUsers
<1>3. CASE Ends(t)
  BY <1>1, <1>2, <1>3, EndsTurn
<1>4. ASSUME NEW u, copy' = [copy EXCEPT ![t] = u],
             todo' = [todo EXCEPT ![t] = Tail(todo[t])], UNCHANGED req
      PROVE  Turn(t)
  <2>1. 2 \in DOMAIN todo[t]
    BY <1>1, Landing
  <2>2. QED
    BY <1>1, <1>2, <1>4, <2>1, CopyTurn
<1>5. QED
  BY <1>3, <1>4 DEF CopyOwner

LEMMA CopyUserTurn ==
  ASSUME UsersTyped, OrderInv, NEW t \in Thread, CopyUser(t)
  PROVE  Turn(t)
<1>1. At(t, "copyUser") /\ ThreadInv /\ "copyUser" \in StepName \ Saving
  BY DEF CopyUser, UsersTyped, StepName, Saving
<1>2. UNCHANGED <<users, depts>>
  BY DEF CopyUser, restOfUsers
<1>3. CASE Ends(t)
  BY <1>1, <1>2, <1>3, EndsTurn
<1>4. ASSUME NEW u, copy' = [copy EXCEPT ![t] = u],
             todo' = [todo EXCEPT ![t] = Tail(todo[t])], UNCHANGED req
      PROVE  Turn(t)
  <2>1. 2 \in DOMAIN todo[t]
    BY <1>1, Landing
  <2>2. QED
    BY <1>1, <1>2, <1>4, <2>1, CopyTurn
<1>5. QED
  BY <1>3, <1>4 DEF CopyUser

LEMMA CheckFreeTurn ==
  ASSUME UsersTyped, OrderInv, NEW t \in Thread, CheckFree(t)
  PROVE  Turn(t)
<1>1. At(t, "checkFree") /\ ThreadInv /\ "checkFree" \in StepName \ Saving
  BY DEF CheckFree, UsersTyped, StepName, Saving
<1>2. UNCHANGED <<users, depts>>
  BY DEF CheckFree, restOfUsers
<1>3. CASE Advance(t)
  BY <1>1, <1>2, <1>3, AdvanceTurn
<1>4. ASSUME NEW u, copy' = [copy EXCEPT ![t] = u],
             todo' = [todo EXCEPT ![t] = SubSeq(todo[t], 5, Len(todo[t]))], UNCHANGED req
      PROVE  Turn(t)
  <2>1. 4 + 1 = 5 /\ 4 \in Nat \ {0}
    OBVIOUS
  <2>2. 4 + 1 \in DOMAIN todo[t] /\ todo[t][4 + 1] = "putCopy"
    BY <1>1, <2>1, Landing
  <2>3. /\ todo' = [todo EXCEPT ![t] = SubSeq(todo[t], 4 + 1, Len(todo[t]))]
        /\ \A s \in Thread \ {t} : copy'[s] = copy[s]
    BY <1>1, <1>4, <2>1 DEF ThreadInv, RequestsType
  <2>4. Others(t) /\ OrderInv' /\ todo'[t] # <<>> /\ todo'[t][1] = todo[t][4 + 1]
    BY <1>1, <1>4, <2>1, <2>2, <2>3, SkipsOrder
  <2>5. QED
    BY <1>1, <1>2, <2>2, <2>4 DEF Turn, HeadIn, Writing
<1>5. QED
  BY <1>3, <1>4 DEF CheckFree

LEMMA UpsertNewTurn ==
  ASSUME UsersTyped, OrderInv, NEW t \in Thread, UpsertNew(t)
  PROVE  Turn(t)
<1>1. At(t, "upsertNew") /\ ThreadInv /\ "upsertNew" \in StepName \ Saving
  BY DEF UpsertNew, UsersTyped, StepName, Saving
<1>2. /\ UNCHANGED <<req, depts>> /\ "upsertNew" \in UserChanges
      /\ todo' = [todo EXCEPT ![t] = Tail(todo[t])]
      /\ \E u : copy' = [copy EXCEPT ![t] = u]
  BY DEF UpsertNew, UserChanges, restOfUsers
<1>3. 2 \in DOMAIN todo[t]
  BY <1>1, <1>2, Landing
<1>4. QED
  BY <1>1, <1>2, <1>3, CopyTurn

LEMMA PutCopyTurn ==
  ASSUME UsersTyped, OrderInv, NEW t \in Thread, PutCopy(t)
  PROVE  Turn(t)
<1>1. At(t, "putCopy") /\ ThreadInv /\ "putCopy" \in StepName \ Saving
  BY DEF PutCopy, UsersTyped, StepName, Saving
<1>2. /\ UNCHANGED <<req, depts>> /\ "putCopy" \in UserChanges
      /\ todo' = [todo EXCEPT ![t] = Tail(todo[t])]
      /\ \E u : copy' = [copy EXCEPT ![t] = u]
  BY DEF PutCopy, UserChanges, restOfUsers
<1>3. 2 \in DOMAIN todo[t]
  BY <1>1, <1>2, Landing
<1>4. QED
  BY <1>1, <1>2, <1>3, CopyTurn

LEMMA UserTurn ==
  ASSUME UsersTyped, OrderInv, NEW t \in Thread, UserStep(t)
  PROVE  Turn(t)
BY UpsertUserTurn, EraseUserTurn, AssignCardTurn, RemoveCardTurn, EnsureUserForCardTurn,
   ImportCsvTurn, MoveUsersTurn, CopyOwnerTurn, CopyUserTurn, CheckFreeTurn, UpsertNewTurn,
   PutCopyTurn DEF UserStep

LEMMA AddDeptTurn ==
  ASSUME UsersTyped, OrderInv, NEW t \in Thread, AddDept(t)
  PROVE  Turn(t)
<1>1. At(t, "listDept") /\ ThreadInv /\ "listDept" \in StepName \ Saving
  BY DEF AddDept, UsersTyped, StepName, Saving
<1>2. UNCHANGED users /\ (depts' = depts \/ "listDept" \in DeptChanges)
  BY DEF AddDept, DeptChanges, restOfDepts, memoryVars
<1>3. CASE Advance(t)
  BY <1>1, <1>2, <1>3, AdvanceTurn
<1>4. CASE UNCHANGED depts /\ Ends(t)
  BY <1>1, <1>2, <1>4, EndsTurn
<1>5. QED
  BY <1>3, <1>4, <1>1, SkipOrder DEF AddDept

LEMMA RenameDeptTurn ==
  ASSUME UsersTyped, OrderInv, NEW t \in Thread, RenameDept(t)
  PROVE  Turn(t)
<1>1. At(t, "renameDept") /\ ThreadInv /\ "renameDept" \in StepName \ Saving
  BY DEF RenameDept, UsersTyped, StepName, Saving
<1>2. UNCHANGED users /\ (depts' = depts \/ "renameDept" \in DeptChanges)
  BY DEF RenameDept, DeptChanges, restOfDepts, memoryVars
<1>3. CASE Advance(t)
  BY <1>1, <1>2, <1>3, AdvanceTurn
<1>4. CASE UNCHANGED depts /\ Ends(t)
  BY <1>1, <1>2, <1>4, EndsTurn
<1>5. QED
  BY <1>3, <1>4 DEF RenameDept

LEMMA CheckUseTurn ==
  ASSUME UsersTyped, OrderInv, NEW t \in Thread, CheckUse(t)
  PROVE  Turn(t)
<1>1. At(t, "checkUse") /\ ThreadInv /\ "checkUse" \in StepName \ Saving
  BY DEF CheckUse, UsersTyped, StepName, Saving
<1>2. UNCHANGED users /\ (depts' = depts \/ "checkUse" \in DeptChanges)
  BY DEF CheckUse, DeptChanges, restOfDepts, memoryVars
<1>3. CASE Advance(t)
  BY <1>1, <1>2, <1>3, AdvanceTurn
<1>4. CASE UNCHANGED depts /\ Ends(t)
  BY <1>1, <1>2, <1>4, EndsTurn
<1>5. QED
  BY <1>3, <1>4 DEF CheckUse

LEMMA DropDeptTurn ==
  ASSUME UsersTyped, OrderInv, NEW t \in Thread, DropDept(t)
  PROVE  Turn(t)
<1>1. At(t, "dropDept") /\ ThreadInv /\ "dropDept" \in StepName \ Saving
  BY DEF DropDept, UsersTyped, StepName, Saving
<1>2. UNCHANGED users /\ (depts' = depts \/ "dropDept" \in DeptChanges)
  BY DEF DropDept, DeptChanges, restOfDepts, memoryVars
<1>3. CASE Advance(t)
  BY <1>1, <1>2, <1>3, AdvanceTurn
<1>4. CASE UNCHANGED depts /\ Ends(t)
  BY <1>1, <1>2, <1>4, EndsTurn
<1>5. QED
  BY <1>3, <1>4 DEF DropDept

LEMMA ReadUsedTurn ==
  ASSUME UsersTyped, OrderInv, NEW t \in Thread, ReadUsed(t)
  PROVE  Turn(t)
<1>1. At(t, "readUsed") /\ ThreadInv /\ "readUsed" \in StepName \ Saving
  BY DEF ReadUsed, UsersTyped, StepName, Saving
<1>2. UNCHANGED users /\ (depts' = depts \/ "readUsed" \in DeptChanges)
  BY DEF ReadUsed, DeptChanges, restOfDepts, memoryVars
<1>3. CASE Advance(t)
  BY <1>1, <1>2, <1>3, AdvanceTurn
<1>4. CASE UNCHANGED depts /\ Ends(t)
  BY <1>1, <1>2, <1>4, EndsTurn
<1>5. QED
  BY <1>3, <1>4 DEF ReadUsed

LEMMA EnsureDeptsTurn ==
  ASSUME UsersTyped, OrderInv, NEW t \in Thread, EnsureDepts(t)
  PROVE  Turn(t)
<1>1. At(t, "ensureDepts") /\ ThreadInv /\ "ensureDepts" \in StepName \ Saving
  BY DEF EnsureDepts, UsersTyped, StepName, Saving
<1>2. UNCHANGED users /\ (depts' = depts \/ "ensureDepts" \in DeptChanges)
  BY DEF EnsureDepts, DeptChanges, restOfDepts, memoryVars
<1>3. CASE Advance(t)
  BY <1>1, <1>2, <1>3, AdvanceTurn
<1>4. CASE UNCHANGED depts /\ Ends(t)
  BY <1>1, <1>2, <1>4, EndsTurn
<1>5. QED
  BY <1>3, <1>4 DEF EnsureDepts

LEMMA DeptTurn ==
  ASSUME UsersTyped, OrderInv, NEW t \in Thread, DeptStep(t)
  PROVE  Turn(t)
BY AddDeptTurn, RenameDeptTurn, CheckUseTurn, DropDeptTurn, ReadUsedTurn, EnsureDeptsTurn
DEF DeptStep

-----------------------------------------------------------------------------
\* Saves, crashes and starts; what the tables hold at rest.

Resting == \A t \in Thread : todo[t] = <<>>

QuietInv == OrderInv /\ (\A s \in Store : StoreInv(s)) /\ (~up => Resting)

LEMMA WritesOf == Writes("users") \union Writes("depts") = Writing
BY DEF Writes, Writing

\* A step that is no part of a save.
LEMMA TurnQuiet ==
  ASSUME RegistryInv, QuietInv, NEW t \in Thread, Turn(t),
         UNCHANGED <<storedVars, saveVars, up>>, \A a \in Thread \ {t} : snap'[a] = snap[a]
  PROVE  QuietInv'
<1>1. PICK step \in StepName \ Saving : At(t, step)
  BY DEF Turn
<1>2. ThreadInv
  BY InvParts DEF UsersTyped
<1>3. todo[t][1] = step /\ up
  BY <1>1, <1>2, AtFirst DEF At
<1>4. ASSUME NEW s \in Store PROVE StoreInv(s)'
  <2>1. /\ held'[s] = held[s] /\ late'[s] = late[s] /\ stale'[s] = stale[s]
        /\ Stored(s)' = Stored(s) /\ up' = up
    BY DEF storedVars, saveVars, Stored
  <2>2. /\ ~HeadIn(t, Writes(s)) /\ ~HeadIn(t, {Snap(s)})
        /\ ~HeadIn(t, Writes(s))'
    BY <1>1, <1>3 DEF Turn, HeadIn, Writes, Writing, Saving, Snap
  <2>3. Memory(s)' = Memory(s) \/ HeadIn(t, {Snap(s)})'
    BY <1>4 DEF Turn, Memory, Snap, Store
  <2>4. Others(t) /\ StoreInv(s)
    BY DEF Turn, QuietInv
  <2>5. QED
    BY <2>1, <2>2, <2>3, <2>4, Bystander
<1>5. OrderInv' /\ up'
  BY <1>3 DEF Turn
<1>6. QED
  BY <1>4, <1>5 DEF QuietInv

\* The snapshot of one list does not touch the other one.
LEMMA SnapQuiet ==
  ASSUME RegistryInv, QuietInv, NEW t \in Thread, NEW s \in Store, At(t, Snap(s)),
         TakeSnapshot(t, s)
  PROVE  QuietInv'
<1>1. ThreadInv /\ SavesType /\ SnapType /\ OrderInv
  BY InvParts DEF UsersTyped, QuietInv
<1>2. todo[t] # <<>> /\ todo[t][1] = Snap(s) /\ up
  BY <1>1, AtFirst DEF At
<1>3. Advance(t) /\ UNCHANGED <<memoryVars, storedVars, up, late, stale>>
  BY DEF TakeSnapshot
<1>4. 2 \in DOMAIN todo[t] /\ todo[t][2] \in Writes(s)
  <2>1. CASE s = "users"
    BY <1>1, <2>1, Landing DEF Snap
  <2>2. CASE s = "depts"
    BY <1>1, <2>2, Landing DEF Snap, Writes
  <2>3. QED
    BY <2>1, <2>2 DEF Store
<1>5. /\ Others(t) /\ OrderInv' /\ todo'[t] # <<>> /\ todo'[t][1] = todo[t][2]
  BY <1>1, <1>3, <1>4, AdvanceOrder
<1>6. StoreInv(s)'
  <2>1. HeadIn(t, Writes(s))' /\ StoreInv(s)
    BY <1>4, <1>5 DEF HeadIn, QuietInv, Writes
  <2>2. QED
    BY <1>5, <2>1, SnapshotTaken
<1>7. ASSUME NEW x \in Store, x # s PROVE StoreInv(x)'
  <2>1. held'[x] = held[x]
    BY <1>1, <1>7 DEF TakeSnapshot, SavesType
  <2>2. \A a \in Thread \ {t} : snap'[a] = snap[a]
    BY <1>1 DEF TakeSnapshot, SnapType
  <2>3. /\ late'[x] = late[x] /\ stale'[x] = stale[x]
        /\ Stored(x)' = Stored(x) /\ Memory(x)' = Memory(x) /\ up' = up
    BY <1>3 DEF memoryVars, storedVars, Stored, Memory
  <2>4. /\ ~HeadIn(t, Writes(x)) /\ ~HeadIn(t, {Snap(x)}) /\ ~HeadIn(t, Writes(x))'
    BY <1>2, <1>4, <1>5, <1>7 DEF HeadIn, Writes, Snap, Store
  <2>5. StoreInv(x)
    BY DEF QuietInv
  <2>6. QED
    BY <1>5, <2>1, <2>2, <2>3, <2>4, <2>5, Bystander
<1>8. up'
  BY <1>2, <1>3
<1>9. QED
  BY <1>5, <1>6, <1>7, <1>8 DEF QuietInv

\* Neither does a write.
LEMMA WriteQuiet ==
  ASSUME RegistryInv, QuietInv, NEW t \in Thread, NEW s \in Store,
         NEW step \in Writes(s), At(t, step), NEW ignored, ignored \in BOOLEAN,
         Commit(t, s) \/ Rollback(t, s, ignored)
  PROVE  QuietInv'
<1>1. ThreadInv /\ SavesType /\ SnapType /\ OrderInv
  BY InvParts DEF UsersTyped, QuietInv
<1>2. todo[t] # <<>> /\ todo[t][1] = step /\ up
  BY <1>1, AtFirst DEF At
<1>3. Advance(t) \/ Ends(t)
  BY DEF Commit, Rollback
<1>4. 2 \in DOMAIN todo[t] => todo[t][2] \notin Writing
  BY <1>1, Landing DEF Writes
<1>5. /\ Others(t) /\ OrderInv'
      /\ todo'[t] = <<>> \/ (2 \in DOMAIN todo[t] /\ todo'[t][1] = todo[t][2])
  BY <1>1, <1>3, EndsOrder, AdvanceOrder
<1>6. ~HeadIn(t, Writing)'
  BY <1>4, <1>5 DEF HeadIn
<1>7. UNCHANGED <<memoryVars, up>> /\ \A a \in Thread \ {t} : snap'[a] = snap[a]
  BY <1>1 DEF Commit, Rollback, SnapType
<1>8. StoreInv(s)'
  <2>1. HeadIn(t, Writes(s)) /\ ~HeadIn(t, Writes(s))' /\ StoreInv(s)
    BY <1>2, <1>6, WritesOf DEF HeadIn, Writes, Writing, QuietInv
  <2>2. QED
    BY <1>5, <2>1, SnapshotStored, SnapshotRefused
<1>9. ASSUME NEW x \in Store, x # s PROVE StoreInv(x)'
  <2>1. /\ held'[x] = held[x] /\ late'[x] = late[x] /\ stale'[x] = stale[x]
    BY <1>1, <1>9 DEF Commit, Rollback, SavesType
  <2>2. Stored(x)' = Stored(x)
    BY <1>9 DEF Commit, Rollback, Stored, Store, storedVars
  <2>3. Memory(x)' = Memory(x) /\ up' = up
    BY <1>7 DEF memoryVars, Memory
  <2>4. /\ ~HeadIn(t, Writes(x)) /\ ~HeadIn(t, {Snap(x)}) /\ ~HeadIn(t, Writes(x))'
    BY <1>2, <1>6, <1>9 DEF HeadIn, Writes, Snap, Store, Writing
  <2>5. StoreInv(x)
    BY DEF QuietInv
  <2>6. QED
    BY <1>5, <1>7, <2>1, <2>2, <2>3, <2>4, <2>5, Bystander
<1>10. up'
  BY <1>2, <1>7
<1>11. QED
  BY <1>5, <1>8, <1>9, <1>10 DEF QuietInv

LEMMA SaveQuiet ==
  ASSUME RegistryInv, QuietInv, NEW t \in Thread, SaveStep(t)
  PROVE  QuietInv'
<1>1. "users" \in Store /\ "depts" \in Store /\ TRUE \in BOOLEAN /\ FALSE \in BOOLEAN
  BY DEF Store
<1>2. CASE SnapUsers(t) \/ SnapDepts(t)
  BY <1>1, <1>2, SnapQuiet DEF SnapUsers, SnapDepts, Snap
<1>3. CASE WriteUsers(t)
  <2>1. "writeUsers" \in Writes("users") /\ "tryWriteUsers" \in Writes("users")
    BY DEF Writes
  <2>2. QED
    BY <1>1, <1>3, <2>1, WriteQuiet DEF WriteUsers
<1>4. CASE WriteDepts(t)
  <2>1. "writeDepts" \in Writes("depts")
    BY DEF Writes
  <2>2. QED
    BY <1>1, <1>4, <2>1, WriteQuiet DEF WriteDepts
<1>5. QED
  BY <1>2, <1>3, <1>4 DEF SaveStep

\* A request comes in: its program begins with no save.
LEMMA ReceiveQuiet ==
  ASSUME RegistryInv, QuietInv, NEW t \in Thread, Receive(t)
  PROVE  QuietInv'
<1>1. ThreadInv /\ OrderInv
  BY InvParts DEF UsersTyped, QuietInv
<1>2. PICK r \in Requests : /\ req' = [req EXCEPT ![t] = r]
                            /\ todo' = [todo EXCEPT ![t] = Steps(r.op)]
  BY DEF Receive
<1>3. Order(r.op, Steps(r.op)) /\ Begins(Steps(r.op)) /\ Steps(r.op) # <<>>
  BY ConstantTypes, StepsOrdered, StepsSound DEF Program
<1>4. /\ up /\ todo[t] = <<>>
      /\ UNCHANGED <<memoryVars, storedVars, up, copy, snap, saveVars>>
  BY DEF Receive
<1>5. Others(t) /\ req'[t] = r /\ todo'[t] = Steps(r.op) /\ copy'[t] = copy[t]
  BY <1>1, <1>2, <1>4 DEF Others, ThreadInv, RequestsType
<1>6. OrderInv'
  <2>1. copy[t] = NoCopy
    BY <1>1, <1>4 DEF OrderInv
  <2>2. QED
    BY <1>1, <1>3, <1>5, <2>1 DEF OrderInv, Others
<1>7. ASSUME NEW s \in Store PROVE StoreInv(s)'
  <2>1. /\ ~HeadIn(t, Writes(s)) /\ ~HeadIn(t, {Snap(s)}) /\ ~HeadIn(t, Writes(s))'
    BY <1>3, <1>4, <1>5 DEF HeadIn, Writes, Begins
  <2>2. /\ held'[s] = held[s] /\ late'[s] = late[s] /\ stale'[s] = stale[s]
        /\ Stored(s)' = Stored(s) /\ Memory(s)' = Memory(s) /\ up' = up
        /\ \A a \in Thread \ {t} : snap'[a] = snap[a]
    BY <1>4 DEF memoryVars, storedVars, saveVars, Stored, Memory
  <2>3. StoreInv(s)
    BY DEF QuietInv
  <2>4. QED
    BY <1>5, <2>1, <2>2, <2>3, Bystander
<1>8. up'
  BY <1>4
<1>9. QED
  BY <1>6, <1>7, <1>8 DEF QuietInv

\* Nothing is under way and no snapshot is held.
LEMMA RestingStores ==
  ASSUME NEW s \in Store, Resting, held[s] = {}, late[s] = {},
         up => stale[s] \/ Stored(s) = Memory(s)
  PROVE  StoreInv(s)
<1>1. Holders(s) = {}
  BY DEF Holders
<1>2. \A t \in Thread : ~HeadIn(t, Writes(s))
  BY DEF HeadIn, Resting
<1>3. QED
  BY <1>1, <1>2 DEF StoreInv, Saved

LEMMA RestingStoresNext ==
  ASSUME NEW s \in Store, Resting', Holders(s)' = {}, late'[s] = {},
         up' => stale'[s] \/ Stored(s)' = Memory(s)'
  PROVE  StoreInv(s)'
<1>1. \A t \in Thread : ~HeadIn(t, Writes(s))'
  BY DEF HeadIn, Resting
<1>2. QED
  BY <1>1 DEF StoreInv, Saved

LEMMA DownQuiet ==
  ASSUME RegistryInv, QuietInv, ~up
  PROVE  Resting /\ \A s \in Store : Holders(s) = {} /\ late[s] = {}
<1>1. Resting
  BY DEF QuietInv
<1>2. ASSUME NEW s \in Store PROVE Holders(s) = {} /\ late[s] = {}
  <2>1. StoreInv(s)
    BY DEF QuietInv
  <2>2. Holders(s) = {}
    BY <1>1, <2>1 DEF StoreInv, HeadIn, Resting, Holders
  <2>3. QED
    BY <2>1, <2>2 DEF StoreInv
<1>3. QED
  BY <1>1, <1>2

LEMMA RestingOrder ==
  ASSUME \A t \in Thread : todo'[t] = <<>> /\ copy'[t] = NoCopy
  PROVE  OrderInv' /\ Resting'
BY OrderNone DEF OrderInv, Resting

LEMMA CrashQuiet ==
  ASSUME RegistryInv, QuietInv, Crash
  PROVE  QuietInv'
<1>1. OrderInv' /\ Resting'
  BY RestingOrder DEF Crash
<1>2. ASSUME NEW s \in Store PROVE StoreInv(s)'
  <2>1. held'[s] = {} /\ late'[s] = {} /\ ~up'
    BY DEF Crash
  <2>2. Holders(s)' = {}
    BY <2>1 DEF Holders
  <2>3. QED
    BY <1>1, <2>1, <2>2, RestingStoresNext
<1>3. QED
  BY <1>1, <1>2 DEF QuietInv

\* No step of a thread, and none is under way.
LEMMA StartQuiet ==
  ASSUME RegistryInv, QuietInv, Start \/ StartFails
  PROVE  QuietInv'
<1>1. ~up /\ UNCHANGED <<threadVars, held, late>>
  BY DEF Start, StartFails, saveVars
<1>2. Resting /\ \A s \in Store : Holders(s) = {} /\ late[s] = {}
  BY <1>1, DownQuiet
<1>3. OrderInv' /\ Resting'
  BY <1>1, <1>2 DEF QuietInv, OrderInv, Resting, threadVars
<1>4. ASSUME NEW s \in Store PROVE StoreInv(s)'
  <2>1. Holders(s)' = {} /\ late'[s] = {}
    BY <1>1, <1>2 DEF Holders
  <2>2. up' => stale'[s] \/ Stored(s)' = Memory(s)'
    <3>1. CASE StartFails
      BY <1>1, <3>1 DEF StartFails
    <3>2. CASE Start
      <4>1. storedUsers' = users'
        BY <3>2 DEF Start
      <4>2. storedDepts' = depts' \/ stale' = [stale EXCEPT !["depts"] = TRUE]
        BY <3>2 DEF Start
      <4>3. stale \in [Store -> BOOLEAN]
        BY InvParts DEF SavesType
      <4>4. QED
        BY <1>4, <4>1, <4>2, <4>3 DEF Stored, Memory, Store
    <3>3. QED
      BY <3>1, <3>2
  <2>3. QED
    BY <1>3, <2>1, <2>2, RestingStoresNext
<1>5. QED
  BY <1>3, <1>4 DEF QuietInv

LEMMA InitQuiet ==
  Init => QuietInv
<1>1. SUFFICES ASSUME Init PROVE QuietInv
  OBVIOUS
<1>2. /\ up = FALSE /\ todo = [t \in Thread |-> <<>>] /\ copy = [t \in Thread |-> NoCopy]
      /\ held = [s \in Store |-> {}] /\ late = [s \in Store |-> {}]
  BY <1>1 DEF Init
<1>3. \A t \in Thread : todo[t] = <<>> /\ copy[t] = NoCopy
  BY <1>2
<1>4. OrderInv /\ Resting /\ ~up
  BY <1>2, <1>3, OrderNone DEF OrderInv, Resting
<1>5. ASSUME NEW s \in Store PROVE StoreInv(s)
  <2>1. held[s] = {} /\ late[s] = {}
    BY <1>2
  <2>2. QED
    BY <1>4, <2>1, RestingStores
<1>6. QED
  BY <1>4, <1>5 DEF QuietInv

\* A card is taken from its owner for a user who is not there: nothing is saved, and every
\* snapshot is late from then on.
LEMMA MissingQuiet ==
  ASSUME RegistryInv, QuietInv, NEW t \in Thread, AssignToMissing(t)
  PROVE  QuietInv'
<1>1. UsersTyped /\ SavesType /\ ThreadInv /\ OrderInv
  BY InvParts DEF UsersTyped, QuietInv
<1>2. /\ At(t, "assign") /\ Ends(t)
      /\ UNCHANGED <<depts, storedVars, up, snap, held>>
  BY DEF AssignToMissing
<1>3. Others(t) /\ OrderInv' /\ todo'[t] = <<>>
  BY <1>1, <1>2, EndsOrder
<1>4. todo[t][1] = "assign" /\ up
  BY <1>1, <1>2, AtFirst DEF At
<1>5. ASSUME NEW s \in Store PROVE StoreInv(s)'
  <2>1. ~HeadIn(t, Writes(s)) /\ ~HeadIn(t, {Snap(s)}) /\ ~HeadIn(t, Writes(s))'
    BY <1>3, <1>4 DEF HeadIn, Writes, Snap
  <2>2. held'[s] = held[s] /\ Stored(s)' = Stored(s) /\ up' = up
    BY <1>2 DEF storedVars, Stored
  <2>3. CASE late'[s] = late[s] /\ stale'[s] = stale[s] /\ Memory(s)' = Memory(s)
    BY <1>2, <1>3, <1>5, <2>1, <2>2, <2>3, Bystander DEF QuietInv
  <2>4. CASE late'[s] = Holders(s) /\ stale'[s] = TRUE
    <3>1. Holders(s)' = Holders(s)
      BY <2>2 DEF Holders
    <3>2. \A a \in Thread \ {t} : HeadIn(a, Writes(s))' = HeadIn(a, Writes(s))
      BY <1>3 DEF HeadIn, Others, Writes
    <3>3. \A a \in Thread : (a \in Holders(s) <=> HeadIn(a, Writes(s)))'
      BY <2>1, <3>1, <3>2 DEF QuietInv, StoreInv
    <3>4. Saved(s)' /\ late'[s] \subseteq Holders(s)'
      BY <2>4, <3>1 DEF Saved
    <3>5. QED
      BY <3>3, <3>4 DEF StoreInv
  <2>5. CASE users' = users
    <3>1. UNCHANGED <<late, stale>>
      BY <2>5 DEF AssignToMissing
    <3>2. QED
      BY <1>2, <2>3, <2>5, <3>1 DEF Memory
  <2>6. CASE users' # users
    <3>1. /\ late' = [late EXCEPT !["users"] = Holders("users")]
          /\ stale' = [stale EXCEPT !["users"] = TRUE]
      BY <2>6 DEF AssignToMissing
    <3>2. CASE s = "users"
      BY <1>1, <2>4, <3>1, <3>2 DEF SavesType
    <3>3. CASE s # "users"
      BY <1>1, <1>2, <2>3, <3>1, <3>3 DEF SavesType, Memory
    <3>4. QED
      BY <3>2, <3>3
  <2>7. QED
    BY <2>5, <2>6
<1>6. QED
  BY <1>2, <1>3, <1>4, <1>5 DEF QuietInv

LEMMA NextQuiet ==
  RegistryInv /\ QuietInv /\ [Next]_vars => QuietInv'
<1>1. SUFFICES ASSUME RegistryInv, QuietInv, [Next]_vars PROVE QuietInv'
  OBVIOUS
<1>2. UsersTyped /\ SnapType /\ OrderInv
  BY <1>1, InvParts DEF QuietInv
<1>3. ASSUME NEW t \in Thread, UserStep(t) PROVE QuietInv'
  <2>1. UNCHANGED restOfUsers
    BY <1>3
    DEF UserStep, UpsertUser, EraseUser, AssignCard, RemoveCard, EnsureUserForCard, ImportCsv,
        MoveUsers, CopyOwner, CopyUser, CheckFree, UpsertNew, PutCopy
  <2>2. UNCHANGED <<storedVars, saveVars, up>> /\ \A a \in Thread \ {t} : snap'[a] = snap[a]
    BY <2>1 DEF restOfUsers
  <2>3. Turn(t)
    BY <1>2, <1>3, UserTurn
  <2>4. QED
    BY <1>1, <2>2, <2>3, TurnQuiet
<1>4. ASSUME NEW t \in Thread, DeptStep(t) PROVE QuietInv'
  <2>1. UNCHANGED <<storedVars, saveVars, up>>
    BY <1>4
    DEF DeptStep, AddDept, RenameDept, CheckUse, DropDept, ReadUsed, EnsureDepts, restOfDepts
  <2>2. \A a \in Thread \ {t} : snap'[a] = snap[a]
    BY <1>2, <1>4
    DEF DeptStep, AddDept, RenameDept, CheckUse, DropDept, ReadUsed, EnsureDepts, restOfDepts,
        SnapType
  <2>3. Turn(t)
    BY <1>2, <1>4, DeptTurn
  <2>4. QED
    BY <1>1, <2>1, <2>2, <2>3, TurnQuiet
<1>5. CASE UNCHANGED vars
  BY <1>1, <1>5
  DEF QuietInv, OrderInv, StoreInv, Saved, Owed, HeadIn, Holders, Taken, Memory, Stored, Resting,
      vars, memoryVars, storedVars, threadVars, saveVars
<1>6. CASE Next
  BY <1>1, <1>3, <1>4, <1>6, MissingQuiet, SaveQuiet, ReceiveQuiet, CrashQuiet, StartQuiet
  DEF Next
<1>7. QED
  BY <1>1, <1>5, <1>6

LEMMA QuietInvAlways ==
  Spec => [](RegistryInv /\ QuietInv)
BY InitInv, InitQuiet, NextInv, NextQuiet, PTL DEF Spec

\* When no request is under way the tables hold what memory holds, unless a card was assigned
\* to a user who is not there, or a save failed or was overtaken, and nothing made up for it:
\* no order of the saves of any number of requests leaves an older registry in the database
\* unnoticed, and no other handler forgets to save.
THEOREM StoredWhenQuietAlways ==
  Spec => []StoredWhenQuiet
<1>1. RegistryInv /\ QuietInv => StoredWhenQuiet
  <2>1. SUFFICES ASSUME QuietInv, Quiet PROVE StoredWhenQuiet
    BY DEF StoredWhenQuiet
  <2>2. Resting /\ up
    BY <2>1 DEF Quiet, Resting
  <2>3. ASSUME NEW s \in Store PROVE stale[s] \/ Stored(s) = Memory(s)
    <3>1. StoreInv(s)
      BY <2>1 DEF QuietInv
    <3>2. \A t \in Thread : ~HeadIn(t, Writes(s)) /\ ~HeadIn(t, {Snap(s)})
      BY <2>2 DEF HeadIn, Resting
    <3>3. Holders(s) = {} /\ ~Owed(s)
      BY <3>1, <3>2 DEF StoreInv, Holders, Owed
    <3>4. QED
      BY <2>2, <3>1, <3>3 DEF StoreInv, Saved
  <2>4. QED
    BY <2>3 DEF StoredWhenQuiet, Stored, Memory, Store
<1>2. QED
  BY <1>1, QuietInvAlways, PTL

-----------------------------------------------------------------------------
\* The departments of the users.

LEMMA SameDepts ==
  ASSUME NEW us, NEW vs, DOMAIN vs = DOMAIN us, \A i \in DOMAIN us : vs[i].dept = us[i].dept
  PROVE  UsedDepts(vs) = UsedDepts(us)
BY DEF UsedDepts

LEMMA FewerDepts ==
  ASSUME NEW us, NEW vs, \A i \in DOMAIN vs : \E j \in DOMAIN us : vs[i] = us[j]
  PROVE  UsedDepts(vs) \subseteq UsedDepts(us)
BY DEF UsedDepts

LEMMA OneMoreDept ==
  ASSUME NEW us, NEW vs, NEW u, \A i \in DOMAIN vs : vs[i] = u \/ \E j \in DOMAIN us : vs[i] = us[j]
  PROVE  UsedDepts(vs) \subseteq UsedDepts(us) \union ({u.dept} \ {NoDept})
BY DEF UsedDepts

LEMMA PutDepts ==
  ASSUME NEW us \in Seq(UserRow), NEW u \in UserRow
  PROVE  UsedDepts(Put(us, u)) \subseteq UsedDepts(us) \union ({u.dept} \ {NoDept})
<1>1. PICK vs : vs = Put(us, u)
  OBVIOUS
<1>2. \A i \in DOMAIN vs : vs[i] = u \/ (i \in DOMAIN us /\ vs[i] = us[i])
  BY <1>1, PutType
<1>3. QED
  BY <1>1, <1>2, OneMoreDept

LEMMA DetachDepts ==
  ASSUME NEW us \in Seq(UserRow), NEW id \in Int, NEW cs \in SUBSET Card
  PROVE  Detach(us, id, cs) \in Seq(UserRow) /\ UsedDepts(Detach(us, id, cs)) = UsedDepts(us)
<1>1. PICK ds : ds = Detach(us, id, cs)
  OBVIOUS
<1>2. /\ ds \in Seq(UserRow) /\ Len(ds) = Len(us) /\ DOMAIN ds = DOMAIN us
      /\ \A i \in DOMAIN us :
           /\ ds[i] \in UserRow /\ ds[i].id = us[i].id /\ ds[i].dept = us[i].dept
           /\ us[i].id = id => ds[i].cards = us[i].cards
           /\ us[i].id # id => ds[i].cards = us[i].cards \ cs
  BY <1>1, DetachEffect
<1>3. UsedDepts(ds) = UsedDepts(us)
  BY <1>2, SameDepts
<1>4. QED
  BY <1>1, <1>2, <1>3

LEMMA UpsertedDepts ==
  ASSUME NEW us \in Seq(UserRow), NEW u \in UserRow
  PROVE  UsedDepts(Upserted(us, u)) \subseteq UsedDepts(us) \union ({u.dept} \ {NoDept})
<1>1. PICK v : v = WithId(us, u)
  OBVIOUS
<1>2. v \in UserRow /\ v.dept = u.dept
  <2>1. NextId(us) \in Int /\ NextId(us) > 0
    BY NextIdNew
  <2>2. QED
    BY <1>1, <2>1 DEF WithId, UserRow
<1>3. PICK id \in Int, cs \in SUBSET Card : id = v.id /\ cs = v.cards
  BY <1>2 DEF UserRow
<1>4. PICK ds : ds = Detach(us, id, cs)
  OBVIOUS
<1>5. Upserted(us, u) = Put(ds, v)
  BY <1>1, <1>3, <1>4 DEF Upserted
<1>6. ds \in Seq(UserRow) /\ UsedDepts(ds) = UsedDepts(us)
  BY <1>4, DetachDepts
<1>7. QED
  BY <1>2, <1>5, <1>6, PutDepts

-----------------------------------------------------------------------------
\* Every department in use is in the list, or a request under way lists it.

Has(p, step) == \E i \in DOMAIN p : p[i] = step

\* The rename has changed the list, and moves the users later.
Moving(t) == Has(todo[t], "moveUsers") /\ ~Has(todo[t], "renameDept")

\* Thread t lists the department later: that of the user it saves, those it finds in use after
\* an import, or it moves the users out of it.
Lists(t, d) ==
    \/ /\ Has(todo[t], "listDept") /\ \A i \in DOMAIN todo[t] : todo[t][i] \in Sure
       /\ DeptToList(t) = d
    \/ Has(todo[t], "readUsed")
    \/ HeadIn(t, {"ensureDepts"}) /\ d \in snap[t].depts
    \/ Moving(t) /\ d = req[t].dept

\* Departments in use are listed or to be listed; a rename or a drop is alone; what is to be
\* dropped is in no use; users are moved to a department that is listed.
UsedListed == \A d \in UsedDepts(users) : d \in depts \/ \E t \in Thread : Lists(t, d)
DelicateAlone == \A t \in Thread :
    todo[t] # <<>> /\ Delicate(req[t].op) => \A s \in Thread \ {t} : todo[s] = <<>>
DropUnused == \A t \in Thread :
    HeadIn(t, {"dropDept"}) => req[t].dept \notin UsedDepts(users)
MoveListed == \A t \in Thread : Moving(t) => req[t].to \in depts

ListInv ==
    up /\ ~unlisted => UsedListed /\ DelicateAlone /\ DropUnused /\ MoveListed

LEMMA HasRest ==
  ASSUME NEW p \in Seq(StepName), p # <<>>, NEW q, RestOf(p, 1, q), NEW step
  PROVE  /\ Has(q, step) => Has(p, step)
         /\ Has(p, step) /\ p[1] # step => Has(q, step)
<1>1. /\ \A i \in DOMAIN q : i \in Nat \ {0} /\ i + 1 \in DOMAIN p /\ q[i] = p[i + 1]
      /\ \A i \in Nat \ {0} : i + 1 \in DOMAIN p => i \in DOMAIN q
  BY DEF RestOf
<1>2. \A i \in DOMAIN p : i # 1 => i - 1 \in Nat \ {0} /\ (i - 1) + 1 = i
  BY LenProperties
<1>3. Has(q, step) => Has(p, step)
  BY <1>1 DEF Has
<1>4. ASSUME NEW i \in DOMAIN p, p[i] = step, p[1] # step PROVE Has(q, step)
  <2>1. i - 1 \in Nat \ {0} /\ (i - 1) + 1 = i
    BY <1>2, <1>4
  <2>2. i - 1 \in DOMAIN q /\ q[i - 1] = step
    BY <1>1, <1>4, <2>1
  <2>3. QED
    BY <2>2 DEF Has
<1>5. QED
  BY <1>3, <1>4 DEF Has

\* A step that goes on keeps what the thread is to list.
LEMMA StillLists ==
  ASSUME ThreadInv, OrderInv, NEW t \in Thread, NEW step, At(t, step),
         step \notin {"listDept", "readUsed", "ensureDepts", "moveUsers", "renameDept"},
         RestOf(todo[t], 1, todo'[t]), req'[t] = req[t], NEW d, Lists(t, d),
         DeptToList(t)' = d \/ DeptToList(t)' = DeptToList(t)
  PROVE  Lists(t, d)'
<1>1. PICK p \in Seq(StepName) : p = todo[t]
  BY AtFirst
<1>2. PICK q : q = todo'[t]
  OBVIOUS
<1>3. p # <<>> /\ p[1] = step /\ RestOf(p, 1, q)
  BY <1>1, <1>2, AtFirst
<1>4. ~HeadIn(t, {"ensureDepts"})
  BY <1>1, <1>3 DEF HeadIn
<1>5. CASE Has(p, "listDept") /\ (\A i \in DOMAIN p : p[i] \in Sure) /\ DeptToList(t) = d
  <2>1. Has(q, "listDept")
    BY <1>3, <1>5, HasRest
  <2>2. \A i \in DOMAIN q : q[i] \in Sure
    BY <1>3, <1>5 DEF RestOf
  <2>3. DeptToList(t)' = d
    BY <1>5
  <2>4. QED
    BY <1>2, <2>1, <2>2, <2>3 DEF Lists
<1>6. CASE Has(p, "readUsed")
  <2>1. Has(q, "readUsed")
    BY <1>3, <1>6, HasRest
  <2>2. QED
    BY <1>2, <2>1 DEF Lists
<1>7. CASE Moving(t) /\ d = req[t].dept
  <2>1. Has(p, "moveUsers") /\ ~Has(p, "renameDept")
    BY <1>1, <1>7 DEF Moving
  <2>2. Has(q, "moveUsers") /\ ~Has(q, "renameDept")
    BY <1>3, <2>1, HasRest
  <2>3. QED
    BY <1>2, <1>7, <2>2 DEF Lists, Moving
<1>8. QED
  BY <1>1, <1>4, <1>5, <1>6, <1>7 DEF Lists

\* Threads whose request ends here, or changes the user it works on, list nothing yet.
Early == {"erase", "assign", "release", "ensureUser", "copyOwner", "copyUser", "checkFree",
          "upsertNew", "renameDept", "checkUse", "dropDept"}

LEMMA ListsNothing ==
  ASSUME ThreadInv, OrderInv, NEW t \in Thread, NEW step \in Early, At(t, step)
  PROVE  ~Moving(t) /\ \A d : ~Lists(t, d)
<1>1. PICK p \in Seq(StepName) : p = todo[t]
  BY AtFirst
<1>2. p[1] = step /\ 1 \in DOMAIN p /\ Order(req[t].op, p)
  BY <1>1, AtFirst DEF OrderInv
<1>3. OfRequest(req[t].op, p)
  BY <1>2 DEF Order
<1>4. ~Has(p, "readUsed") /\ (~Has(p, "moveUsers") \/ Has(p, "renameDept"))
  BY <1>2, <1>3 DEF OfRequest, Personal, Has, Early
<1>5. ~\A i \in DOMAIN p : p[i] \in Sure
  BY <1>2 DEF Sure, Early
<1>6. ~HeadIn(t, {"ensureDepts"})
  BY <1>1, <1>2 DEF HeadIn, Early
<1>7. QED
  BY <1>1, <1>4, <1>5, <1>6 DEF Lists, Moving

-----------------------------------------------------------------------------
\* How far a request is from listing the departments it brings in.

LEMMA OthersList ==
  ASSUME NEW t \in Thread, Others(t), \A a \in Thread \ {t} : snap'[a] = snap[a],
         NEW a \in Thread \ {t}
  PROVE  /\ \A d : Lists(a, d)' <=> Lists(a, d)
         /\ Moving(a)' <=> Moving(a)
         /\ HeadIn(a, {"dropDept"})' <=> HeadIn(a, {"dropDept"})
<1>1. todo'[a] = todo[a] /\ req'[a] = req[a] /\ copy'[a] = copy[a] /\ snap'[a] = snap[a]
  BY DEF Others
<1>2. Moving(a)' <=> Moving(a)
  BY <1>1 DEF Moving
<1>3. QED
  BY <1>1, <1>2 DEF Lists, HeadIn, DeptToList

\* Who is about to drop a department, or to move users, serves a delicate request.
LEMMA DelicateSteps ==
  ASSUME ThreadInv, OrderInv, NEW t \in Thread, HeadIn(t, {"dropDept"}) \/ Moving(t)
  PROVE  todo[t] # <<>> /\ Delicate(req[t].op)
<1>1. PICK p \in Seq(StepName) : p = todo[t]
  BY DEF ThreadInv, RequestsType
<1>2. OfRequest(req[t].op, p)
  BY <1>1 DEF OrderInv, Order
<1>3. PICK i \in DOMAIN p : p[i] \in {"dropDept", "moveUsers"}
  <2>1. CASE HeadIn(t, {"dropDept"})
    <3>1. 1 \in DOMAIN p /\ p[1] = "dropDept"
      BY <1>1, <2>1, LenProperties, EmptySeq DEF HeadIn
    <3>2. QED
      BY <3>1
  <2>2. CASE Moving(t)
    BY <1>1, <2>2 DEF Moving, Has
  <2>3. QED
    BY <2>1, <2>2
<1>4. p # <<>>
  BY <1>3
<1>5. req[t].op \in {"rename", "drop"}
  BY <1>2, <1>3 DEF OfRequest
<1>6. QED
  BY <1>1, <1>4, <1>5 DEF Delicate

Listed == UsedListed /\ DelicateAlone /\ DropUnused /\ MoveListed

\* What a step of t has to keep for the list to stay right.
KeepsList(t) ==
    /\ \A d \in UsedDepts(users') :
          d \in depts' \/ Lists(t, d)' \/ \E a \in Thread \ {t} : Lists(a, d)
    /\ HeadIn(t, {"dropDept"})' => req[t].dept \notin UsedDepts(users')
    /\ Moving(t)' => req[t].to \in depts'

LEMMA ListStep ==
  ASSUME ThreadInv, OrderInv, ListInv, NEW t \in Thread, Others(t), todo[t] # <<>>,
         up, unlisted => unlisted', \A a \in Thread \ {t} : snap'[a] = snap[a],
         todo'[t] = <<>> \/ req'[t] = req[t],
         Listed /\ ~unlisted' => KeepsList(t)
  PROVE  ListInv'
<1>1. SUFFICES ASSUME ~unlisted' PROVE Listed'
  BY DEF ListInv, Listed
<1>2. Listed
  BY <1>1 DEF ListInv, Listed
<1>3. KeepsList(t)
  BY <1>1, <1>2
<1>4. \A a \in Thread \ {t} :
        /\ \A d : Lists(a, d)' <=> Lists(a, d)
        /\ Moving(a)' <=> Moving(a)
        /\ HeadIn(a, {"dropDept"})' <=> HeadIn(a, {"dropDept"})
        /\ todo'[a] = todo[a] /\ req'[a] = req[a]
  BY OthersList DEF Others
<1>5. \A a \in Thread \ {t} : todo[a] # <<>> => ~Delicate(req[a].op)
  BY <1>2 DEF Listed, DelicateAlone
<1>6. \A a \in Thread \ {t} : ~HeadIn(a, {"dropDept"}) /\ ~Moving(a)
  BY <1>5, DelicateSteps
<1>7. UsedListed'
  BY <1>3, <1>4 DEF UsedListed, KeepsList
<1>8. DelicateAlone'
  BY <1>2, <1>4, <1>5 DEF Listed, DelicateAlone
<1>9. HeadIn(t, {"dropDept"})' \/ Moving(t)' => todo'[t] # <<>>
  <2>1. DOMAIN <<>> = {}
    OBVIOUS
  <2>2. QED
    BY <2>1 DEF HeadIn, Moving, Has
<1>10. DropUnused' /\ MoveListed'
  BY <1>3, <1>4, <1>6, <1>9 DEF DropUnused, MoveListed, KeepsList
<1>11. QED
  BY <1>7, <1>8, <1>10 DEF Listed

\* A step of a request about one user moves nobody and drops nothing.
LEMMA PersonalGoes ==
  ASSUME ThreadInv, OrderInv, NEW t \in Thread, NEW step \in Personal, At(t, step),
         todo'[t] = <<>> \/ \E n \in Nat : RestOf(todo[t], n, todo'[t])
  PROVE  /\ ~HeadIn(t, {"dropDept"})' /\ ~Moving(t)'
         /\ \A d : Lists(t, d) => /\ Has(todo[t], "listDept") /\ DeptToList(t) = d
                                  /\ \A i \in DOMAIN todo[t] : todo[t][i] \in Sure
<1>1. PICK p \in Seq(StepName) : p = todo[t]
  BY AtFirst
<1>2. PICK q : q = todo'[t]
  OBVIOUS
<1>3. p[1] = step /\ 1 \in DOMAIN p /\ OfRequest(req[t].op, p)
  BY <1>1, AtFirst DEF OrderInv, Order
<1>4. ~Has(p, "readUsed") /\ ~Has(p, "moveUsers") /\ ~Has(p, "dropDept")
  BY <1>3 DEF OfRequest, Has
<1>5. ~Has(q, "moveUsers") /\ ~Has(q, "dropDept")
  <2>1. CASE q = <<>>
    BY <2>1 DEF Has
  <2>2. CASE \E n \in Nat : RestOf(p, n, q)
    BY <1>4, <2>2 DEF RestOf, Has
  <2>3. QED
    BY <1>1, <1>2, <2>1, <2>2
<1>6. q # <<>> => 1 \in DOMAIN q
  <2>1. q = <<>> \/ q \in Seq(StepName)
    BY <1>1, <1>2 DEF RestOf
  <2>2. QED
    BY <2>1, LenProperties, EmptySeq
<1>7. ~HeadIn(t, {"dropDept"})' /\ ~Moving(t)'
  BY <1>2, <1>5, <1>6 DEF HeadIn, Moving, Has
<1>8. ~HeadIn(t, {"ensureDepts"}) /\ ~Moving(t)
  BY <1>1, <1>3, <1>4 DEF HeadIn, Moving, Personal
<1>9. QED
  BY <1>1, <1>4, <1>7, <1>8 DEF Lists

\* A step that goes on neither begins a move nor a drop.
LEMMA OrdinaryGoes ==
  ASSUME ThreadInv, OrderInv, NEW t \in Thread, NEW step, At(t, step),
         step \notin {"checkUse", "renameDept"},
         todo'[t] = <<>> \/ RestOf(todo[t], 1, todo'[t])
  PROVE  ~HeadIn(t, {"dropDept"})' /\ (Moving(t)' => Moving(t))
<1>1. PICK p \in Seq(StepName) : p = todo[t]
  BY AtFirst
<1>2. PICK q : q = todo'[t]
  OBVIOUS
<1>3. p # <<>> /\ p[1] = step /\ 1 \in DOMAIN p /\ GoesTo(p)
  BY <1>1, AtFirst DEF OrderInv, Order
<1>4. CASE q = <<>>
  BY <1>2, <1>4 DEF HeadIn, Moving, Has
<1>5. CASE RestOf(p, 1, q) /\ q # <<>>
  <2>1. 1 \in DOMAIN q
    BY <1>5, LenProperties, EmptySeq DEF RestOf
  <2>2. 1 + 1 \in DOMAIN p /\ q[1] = p[1 + 1]
    BY <1>5, <2>1 DEF RestOf
  <2>3. q[1] # "dropDept"
    BY <1>3, <2>2 DEF GoesTo
  <2>4. Has(q, "moveUsers") => Has(p, "moveUsers")
    BY <1>3, <1>5, HasRest
  <2>5. Has(p, "renameDept") => Has(q, "renameDept")
    BY <1>3, <1>5, HasRest
  <2>6. QED
    BY <1>1, <1>2, <2>3, <2>4, <2>5 DEF HeadIn, Moving
<1>6. QED
  BY <1>1, <1>2, <1>4, <1>5

\* After a change of a user nothing stands between the request and the list.
LEMMA Promised ==
  ASSUME ThreadInv, OrderInv, NEW t \in Thread, NEW step \in {"upsert", "upsertNew", "putCopy"},
         At(t, step), RestOf(todo[t], 1, todo'[t]), NEW d, DeptToList(t)' = d
  PROVE  Lists(t, d)'
<1>1. PICK p \in Seq(StepName) : p = todo[t]
  BY AtFirst
<1>2. PICK q : q = todo'[t]
  OBVIOUS
<1>3. p # <<>> /\ p[1] = step /\ 1 \in DOMAIN p /\ ListsLater(p) /\ RestOf(p, 1, q)
  BY <1>1, <1>2, AtFirst DEF OrderInv, Order
<1>4. Has(p, "listDept")
  BY <1>3 DEF ListsLater, Has
<1>5. Has(q, "listDept")
  BY <1>3, <1>4, HasRest
<1>6. \A i \in DOMAIN q : i + 1 \in DOMAIN p /\ i + 1 > 1 /\ q[i] = p[i + 1]
  BY <1>3 DEF RestOf
<1>7. \A i \in DOMAIN q : q[i] \in Sure
  BY <1>3, <1>6 DEF ListsLater
<1>8. QED
  BY <1>2, <1>5, <1>7 DEF Lists

-----------------------------------------------------------------------------
\* Steps of requests about one user.

LEMMA AdvanceRest ==
  ASSUME ThreadInv, OrderInv, NEW t \in Thread, NEW step, At(t, step), Advance(t)
  PROVE  /\ Others(t)
         /\ \/ todo'[t] = <<>> /\ Ends(t) /\ 2 \notin DOMAIN todo[t]
            \/ RestOf(todo[t], 1, todo'[t]) /\ req'[t] = req[t] /\ UNCHANGED copy
<1>1. /\ Others(t) /\ OrderInv'
      /\ \/ Ends(t) /\ todo'[t] = <<>> /\ 2 \notin DOMAIN todo[t]
         \/ /\ 2 \in DOMAIN todo[t] /\ req'[t] = req[t] /\ UNCHANGED copy
            /\ todo'[t] # <<>> /\ todo'[t][1] = todo[t][2]
            /\ todo'[t] = SubSeq(todo[t], 1 + 1, Len(todo[t]))
  BY AdvanceOrder
<1>2. RestOf(todo[t], 1, SubSeq(todo[t], 1 + 1, Len(todo[t])))
  BY AtFirst, Rest
<1>3. QED
  BY <1>1, <1>2

LEMMA CopyRest ==
  ASSUME ThreadInv, OrderInv, NEW t \in Thread, NEW step, At(t, step),
         NEW u, copy' = [copy EXCEPT ![t] = u], todo' = [todo EXCEPT ![t] = Tail(todo[t])],
         UNCHANGED req
  PROVE  Others(t) /\ RestOf(todo[t], 1, todo'[t]) /\ req'[t] = req[t] /\ copy'[t] = u
<1>1. todo' = [todo EXCEPT ![t] = SubSeq(todo[t], 1 + 1, Len(todo[t]))]
  BY AtFirst
<1>2. RestOf(todo[t], 1, SubSeq(todo[t], 1 + 1, Len(todo[t])))
  BY AtFirst, Rest
<1>3. QED
  BY <1>1, <1>2 DEF Others, ThreadInv, RequestsType

\* The request is about one user and has not changed him yet.
Undecided == {"erase", "assign", "release", "ensureUser", "copyOwner", "copyUser", "checkFree"}

LEMMA EarlyList ==
  ASSUME ThreadInv, OrderInv, ListInv, NEW t \in Thread, NEW step \in Undecided, At(t, step),
         Others(t), UNCHANGED <<depts, snap, unlisted>>,
         UsedDepts(users') \subseteq UsedDepts(users),
         todo'[t] = <<>> \/ (req'[t] = req[t] /\ \E n \in Nat : RestOf(todo[t], n, todo'[t]))
  PROVE  ListInv'
<1>1. step \in Personal /\ step \in Early
  BY DEF Personal, Early, Undecided
<1>2. ~HeadIn(t, {"dropDept"})' /\ ~Moving(t)'
  BY <1>1, PersonalGoes
<1>3. \A d : ~Lists(t, d)
  BY <1>1, ListsNothing
<1>4. ASSUME Listed PROVE KeepsList(t)
  <2>1. ASSUME NEW d \in UsedDepts(users'), d \notin depts PROVE \E a \in Thread \ {t} : Lists(a, d)
    <3>1. d \in UsedDepts(users)
      BY <2>1
    <3>2. PICK a \in Thread : Lists(a, d)
      BY <1>4, <2>1, <3>1 DEF Listed, UsedListed
    <3>3. QED
      BY <1>3, <3>2
  <2>2. depts' = depts
    OBVIOUS
  <2>3. QED
    BY <1>2, <2>1, <2>2 DEF KeepsList
<1>5. /\ todo[t] # <<>> /\ up /\ unlisted' = unlisted
      /\ \A a \in Thread \ {t} : snap'[a] = snap[a]
  BY AtFirst DEF At
<1>6. todo'[t] = <<>> \/ req'[t] = req[t]
  OBVIOUS
<1>7. QED
  BY <1>4, <1>5, <1>6, ListStep

LEMMA EarlyEnds ==
  ASSUME ThreadInv, OrderInv, ListInv, NEW t \in Thread, NEW step \in Undecided, At(t, step),
         Ends(t), UNCHANGED users, UNCHANGED restOfUsers
  PROVE  ListInv'
<1>1. Others(t) /\ todo'[t] = <<>>
  BY EndsOrder
<1>2. UsedDepts(users') \subseteq UsedDepts(users)
  OBVIOUS
<1>3. QED
  BY <1>1, <1>2, EarlyList DEF restOfUsers

LEMMA EarlyAdvance ==
  ASSUME ThreadInv, OrderInv, ListInv, NEW t \in Thread, NEW step \in Undecided, At(t, step),
         Advance(t), UsedDepts(users') \subseteq UsedDepts(users), UNCHANGED restOfUsers
  PROVE  ListInv'
<1>1. 1 \in Nat
  OBVIOUS
<1>2. /\ Others(t)
      /\ todo'[t] = <<>> \/ (RestOf(todo[t], 1, todo'[t]) /\ req'[t] = req[t])
  BY AdvanceRest
<1>3. QED
  BY <1>1, <1>2, EarlyList DEF restOfUsers

LEMMA EraseUserList ==
  ASSUME UsersTyped, OrderInv, ListInv, NEW t \in Thread, EraseUser(t)
  PROVE  ListInv'
<1>1. /\ At(t, "erase") /\ ThreadInv /\ users \in Seq(UserRow)
      /\ UNCHANGED restOfUsers
  BY DEF EraseUser, UsersTyped
<1>2. "erase" \in Undecided
  BY DEF Undecided
<1>3. UsedDepts(users') \subseteq UsedDepts(users)
  <2>1. users' = Erased(users, {req[t].id})
    BY DEF EraseUser
  <2>2. \A i \in DOMAIN users' : \E j \in DOMAIN users : users'[i] = users[j]
    BY <1>1, <2>1, ErasedEffect
  <2>3. QED
    BY <2>2, FewerDepts
<1>4. (users' = users /\ Ends(t)) \/ Advance(t)
  BY DEF EraseUser
<1>5. QED
  BY <1>1, <1>2, <1>3, <1>4, EarlyEnds, EarlyAdvance

LEMMA AssignCardList ==
  ASSUME UsersTyped, OrderInv, ListInv, NEW t \in Thread, AssignCard(t)
  PROVE  ListInv'
<1>1. /\ At(t, "assign") /\ ThreadInv /\ users \in Seq(UserRow)
      /\ Advance(t) /\ UNCHANGED restOfUsers
  BY DEF AssignCard, UsersTyped
<1>2. "assign" \in Undecided
  BY DEF Undecided
<1>3. PICK id \in IdsOf(users) : id = req[t].id
  BY DEF AssignCard
<1>4. PICK c \in req[t].cards : users' = Assigned(users, id, c)
  BY <1>3 DEF AssignCard
<1>5. c \in Card
  BY <1>1, <1>4, RequestFields
<1>6. DOMAIN users' = DOMAIN users /\ \A k \in DOMAIN users : users'[k].dept = users[k].dept
  BY <1>1, <1>4, <1>5, AssignedEffect
<1>7. UsedDepts(users') \subseteq UsedDepts(users)
  BY <1>6, SameDepts
<1>8. QED
  BY <1>1, <1>2, <1>7, EarlyAdvance

LEMMA AssignToMissingList ==
  ASSUME UsersTyped, OrderInv, ListInv, NEW t \in Thread, AssignToMissing(t)
  PROVE  ListInv'
<1>1. /\ At(t, "assign") /\ ThreadInv /\ users \in Seq(UserRow)
      /\ Ends(t) /\ UNCHANGED <<depts, snap, unlisted>>
  BY DEF AssignToMissing, UsersTyped
<1>2. "assign" \in Undecided
  BY DEF Undecided
<1>3. PICK c \in req[t].cards : users' = Released(users, c)
  BY DEF AssignToMissing
<1>4. c \in Card
  BY <1>1, <1>3, RequestFields
<1>5. DOMAIN users' = DOMAIN users /\ \A k \in DOMAIN users : users'[k].dept = users[k].dept
  BY <1>1, <1>3, <1>4, ReleasedEffect
<1>6. UsedDepts(users') \subseteq UsedDepts(users)
  BY <1>5, SameDepts
<1>7. Others(t) /\ todo'[t] = <<>>
  BY <1>1, EndsOrder
<1>8. QED
  BY <1>1, <1>2, <1>6, <1>7, EarlyList

LEMMA RemoveCardList ==
  ASSUME UsersTyped, OrderInv, ListInv, NEW t \in Thread, RemoveCard(t)
  PROVE  ListInv'
<1>1. /\ At(t, "release") /\ ThreadInv /\ users \in Seq(UserRow)
      /\ UNCHANGED restOfUsers
  BY DEF RemoveCard, UsersTyped
<1>2. "release" \in Undecided
  BY DEF Undecided
<1>3. UsedDepts(users') \subseteq UsedDepts(users)
  <2>1. PICK c \in req[t].cards : users' = Released(users, c)
    BY DEF RemoveCard
  <2>2. c \in Card
    BY <1>1, <2>1, RequestFields
  <2>3. DOMAIN users' = DOMAIN users /\ \A k \in DOMAIN users : users'[k].dept = users[k].dept
    BY <1>1, <2>1, <2>2, ReleasedEffect
  <2>4. QED
    BY <2>3, SameDepts
<1>4. (users' = users /\ Ends(t)) \/ Advance(t)
  BY DEF RemoveCard
<1>5. QED
  BY <1>1, <1>2, <1>3, <1>4, EarlyEnds, EarlyAdvance

LEMMA EnsureUserForCardList ==
  ASSUME UsersTyped, OrderInv, ListInv, NEW t \in Thread, EnsureUserForCard(t)
  PROVE  ListInv'
<1>1. /\ At(t, "ensureUser") /\ ThreadInv /\ users \in Seq(UserRow)
      /\ UNCHANGED restOfUsers
  BY DEF EnsureUserForCard, UsersTyped
<1>2. "ensureUser" \in Undecided
  BY DEF Undecided
<1>3. CASE Ends(t) /\ UNCHANGED users
  BY <1>1, <1>2, <1>3, EarlyEnds
<1>4. ASSUME NEW c \in req[t].cards, Owners(users, c) = {}, Advance(t),
             users' = Append(users, [id |-> NextId(users), cards |-> {c}, dept |-> NoDept])
      PROVE  ListInv'
  <2>1. /\ c \in Card /\ NextId(users) \in Int /\ NextId(users) > 0
        /\ NextId(users) \notin IdsOf(users)
    BY <1>1, RequestFields, NextIdNew
  <2>2. PICK u \in UserRow : u = [id |-> NextId(users), cards |-> {c}, dept |-> NoDept]
    BY <2>1 DEF UserRow
  <2>3. users' = Put(users, u) /\ u.dept = NoDept
    BY <1>4, <2>1, <2>2 DEF Put
  <2>4. UsedDepts(users') \subseteq UsedDepts(users)
    BY <1>1, <2>3, PutDepts
  <2>5. QED
    BY <1>1, <1>2, <1>4, <2>4, EarlyAdvance
<1>5. QED
  BY <1>3, <1>4 DEF EnsureUserForCard

LEMMA CopyOwnerList ==
  ASSUME UsersTyped, OrderInv, ListInv, NEW t \in Thread, CopyOwner(t)
  PROVE  ListInv'
<1>1. /\ At(t, "copyOwner") /\ ThreadInv /\ users \in Seq(UserRow)
      /\ UNCHANGED restOfUsers
  BY DEF CopyOwner, UsersTyped
<1>2. "copyOwner" \in Undecided
  BY DEF Undecided
<1>3. UNCHANGED users /\ UsedDepts(users') \subseteq UsedDepts(users)
  BY DEF CopyOwner
<1>4. CASE Ends(t)
  BY <1>1, <1>2, <1>3, <1>4, EarlyEnds
<1>5. ASSUME NEW u, copy' = [copy EXCEPT ![t] = u],
             todo' = [todo EXCEPT ![t] = Tail(todo[t])], UNCHANGED req
      PROVE  ListInv'
  <2>1. Others(t) /\ RestOf(todo[t], 1, todo'[t]) /\ req'[t] = req[t] /\ 1 \in Nat
    BY <1>1, <1>5, CopyRest
  <2>2. QED
    BY <1>1, <1>2, <1>3, <2>1, EarlyList DEF restOfUsers
<1>6. QED
  BY <1>4, <1>5 DEF CopyOwner

LEMMA CopyUserList ==
  ASSUME UsersTyped, OrderInv, ListInv, NEW t \in Thread, CopyUser(t)
  PROVE  ListInv'
<1>1. /\ At(t, "copyUser") /\ ThreadInv /\ users \in Seq(UserRow)
      /\ UNCHANGED restOfUsers
  BY DEF CopyUser, UsersTyped
<1>2. "copyUser" \in Undecided
  BY DEF Undecided
<1>3. UNCHANGED users /\ UsedDepts(users') \subseteq UsedDepts(users)
  BY DEF CopyUser
<1>4. CASE Ends(t)
  BY <1>1, <1>2, <1>3, <1>4, EarlyEnds
<1>5. ASSUME NEW u, copy' = [copy EXCEPT ![t] = u],
             todo' = [todo EXCEPT ![t] = Tail(todo[t])], UNCHANGED req
      PROVE  ListInv'
  <2>1. Others(t) /\ RestOf(todo[t], 1, todo'[t]) /\ req'[t] = req[t] /\ 1 \in Nat
    BY <1>1, <1>5, CopyRest
  <2>2. QED
    BY <1>1, <1>2, <1>3, <2>1, EarlyList DEF restOfUsers
<1>6. QED
  BY <1>4, <1>5 DEF CopyUser

LEMMA CheckFreeList ==
  ASSUME UsersTyped, OrderInv, ListInv, NEW t \in Thread, CheckFree(t)
  PROVE  ListInv'
<1>1. /\ At(t, "checkFree") /\ ThreadInv /\ users \in Seq(UserRow)
      /\ UNCHANGED restOfUsers
  BY DEF CheckFree, UsersTyped
<1>2. "checkFree" \in Undecided
  BY DEF Undecided
<1>3. UNCHANGED users /\ UsedDepts(users') \subseteq UsedDepts(users)
  BY DEF CheckFree
<1>4. CASE Advance(t)
  BY <1>1, <1>2, <1>3, <1>4, EarlyAdvance
<1>5. ASSUME NEW u, copy' = [copy EXCEPT ![t] = u],
             todo' = [todo EXCEPT ![t] = SubSeq(todo[t], 5, Len(todo[t]))], UNCHANGED req
      PROVE  ListInv'
  <2>1. 4 \in Nat /\ 4 + 1 = 5
    OBVIOUS
  <2>2. RestOf(todo[t], 4, SubSeq(todo[t], 4 + 1, Len(todo[t])))
    BY <1>1, <2>1, AtFirst, Rest
  <2>3. Others(t) /\ req'[t] = req[t] /\ RestOf(todo[t], 4, todo'[t])
    BY <1>1, <1>5, <2>1, <2>2 DEF Others, ThreadInv, RequestsType
  <2>4. QED
    BY <1>1, <1>2, <1>3, <2>1, <2>3, EarlyList DEF restOfUsers
<1>6. QED
  BY <1>4, <1>5 DEF CheckFree

\* A user is changed: his department is listed later, and so is what was to be listed.
LEMMA ChangeList ==
  ASSUME ThreadInv, OrderInv, ListInv, NEW t \in Thread,
         NEW step \in {"upsert", "upsertNew", "putCopy"}, At(t, step),
         Others(t), UNCHANGED restOfUsers, RestOf(todo[t], 1, todo'[t]), req'[t] = req[t],
         UsedDepts(users')
            \subseteq UsedDepts(users) \union ({DeptToList(t)'} \ {NoDept}),
         \/ step = "upsertNew"
         \/ DeptToList(t) # NoDept => DeptToList(t)' = DeptToList(t)
  PROVE  ListInv'
<1>1. step \in Personal /\ 1 \in Nat
  BY DEF Personal
<1>2. /\ ~HeadIn(t, {"dropDept"})' /\ ~Moving(t)'
      /\ \A d : Lists(t, d) => DeptToList(t) = d
  BY <1>1, PersonalGoes
<1>3. \A d : DeptToList(t)' = d => Lists(t, d)'
  BY Promised
<1>4. step = "upsertNew" => \A d : ~Lists(t, d)
  BY ListsNothing DEF Early
<1>5. ASSUME Listed PROVE KeepsList(t)
  <2>1. ASSUME NEW d \in UsedDepts(users'), d \notin depts
        PROVE  Lists(t, d)' \/ \E a \in Thread \ {t} : Lists(a, d)
    <3>1. CASE DeptToList(t)' = d
      BY <1>3, <3>1
    <3>2. CASE DeptToList(t)' # d
      <4>1. d \in UsedDepts(users) /\ d # NoDept
        BY <2>1, <3>2 DEF UsedDepts
      <4>2. PICK a \in Thread : Lists(a, d)
        BY <1>5, <2>1, <4>1 DEF Listed, UsedListed
      <4>3. a # t
        BY <1>2, <1>4, <3>2, <4>1, <4>2
      <4>4. QED
        BY <4>2, <4>3
    <3>3. QED
      BY <3>1, <3>2
  <2>2. depts' = depts
    BY DEF restOfUsers
  <2>3. QED
    BY <1>2, <2>1, <2>2 DEF KeepsList
<1>6. /\ todo[t] # <<>> /\ up /\ unlisted' = unlisted
      /\ \A a \in Thread \ {t} : snap'[a] = snap[a]
  BY AtFirst DEF restOfUsers, At
<1>7. QED
  BY <1>5, <1>6, ListStep

LEMMA UpsertUserList ==
  ASSUME UsersTyped, OrderInv, ListInv, NEW t \in Thread, UpsertUser(t)
  PROVE  ListInv'
<1>1. /\ At(t, "upsert") /\ ThreadInv /\ users \in Seq(UserRow)
      /\ UNCHANGED restOfUsers
  BY DEF UpsertUser, UsersTyped
<1>2. /\ users' = Upserted(users, [id |-> req[t].id, cards |-> req[t].cards, dept |-> req[t].dept])
      /\ Advance(t)
  BY DEF UpsertUser
<1>3. PICK u \in UserRow : u = [id |-> req[t].id, cards |-> req[t].cards, dept |-> req[t].dept]
  BY <1>1, RequestFields DEF UserRow
<1>4. UsedDepts(users') \subseteq UsedDepts(users) \union ({req[t].dept} \ {NoDept})
  BY <1>1, <1>2, <1>3, UpsertedDepts
<1>5. 2 \in DOMAIN todo[t]
  BY <1>1, Landing DEF UserChanges
<1>6. Others(t) /\ RestOf(todo[t], 1, todo'[t]) /\ req'[t] = req[t] /\ UNCHANGED copy
  BY <1>1, <1>2, <1>5, AdvanceRest
<1>7. copy[t] = NoCopy
  BY <1>1, AtFirst DEF OrderInv
<1>8. DeptToList(t) = req[t].dept /\ DeptToList(t)' = req[t].dept
  BY <1>6, <1>7 DEF DeptToList
<1>9. QED
  BY <1>1, <1>4, <1>6, <1>8, ChangeList

LEMMA UpsertNewList ==
  ASSUME UsersTyped, OrderInv, ListInv, NEW t \in Thread, UpsertNew(t)
  PROVE  ListInv'
<1>1. /\ At(t, "upsertNew") /\ ThreadInv /\ users \in Seq(UserRow)
      /\ UNCHANGED restOfUsers
  BY DEF UpsertNew, UsersTyped
<1>2. NextId(users) \in Int /\ NextId(users) > 0
  BY <1>1, NextIdNew
<1>3. PICK u \in UserRow : u = [id |-> NextId(users), cards |-> req[t].cards, dept |-> req[t].dept]
  BY <1>1, <1>2, RequestFields DEF UserRow
<1>4. /\ users' = Upserted(users, u) /\ UNCHANGED req
      /\ copy' = [copy EXCEPT ![t] = u] /\ todo' = [todo EXCEPT ![t] = Tail(todo[t])]
  BY <1>3 DEF UpsertNew
<1>5. u # NoCopy
  BY ConstantTypes
<1>6. UsedDepts(users') \subseteq UsedDepts(users) \union ({u.dept} \ {NoDept})
  BY <1>1, <1>4, UpsertedDepts
<1>7. Others(t) /\ RestOf(todo[t], 1, todo'[t]) /\ req'[t] = req[t] /\ copy'[t] = u
  BY <1>1, <1>4, CopyRest
<1>8. DeptToList(t)' = u.dept
  BY <1>5, <1>7 DEF DeptToList
<1>9. QED
  BY <1>1, <1>6, <1>7, <1>8, ChangeList

LEMMA PutCopyList ==
  ASSUME UsersTyped, OrderInv, ListInv, NEW t \in Thread, PutCopy(t)
  PROVE  ListInv'
<1>1. /\ At(t, "putCopy") /\ ThreadInv /\ users \in Seq(UserRow)
      /\ UNCHANGED restOfUsers
  BY DEF PutCopy, UsersTyped
<1>2. PICK row \in UserRow : row = copy[t] /\ row # NoCopy
  <2>1. todo[t][1] = "putCopy" /\ 1 \in DOMAIN todo[t]
    BY <1>1, AtFirst
  <2>2. ~\E j \in 1 .. 1 - 1 : todo[t][j] \in Reads
    OBVIOUS
  <2>3. copy[t] # NoCopy
    BY <1>1, <2>1, <2>2 DEF ThreadInv, ProgramInv, ReadFirst
  <2>4. QED
    BY <1>1, <2>3 DEF ThreadInv, RequestsType
<1>3. PICK d \in Dept \union {NoDept} : d = IF row.dept = NoDept THEN req[t].dept ELSE row.dept
  <2>1. req[t].dept \in Dept \union {NoDept}
    BY <1>1, RequestFields
  <2>2. QED
    BY <2>1 DEF UserRow
<1>4. PICK w \in UserRow : w = [row EXCEPT !.dept = d]
  BY RowIn
<1>5. w.dept = d /\ Completed(copy[t], req[t]) = w
  BY <1>2, <1>3, <1>4 DEF Completed, UserRow
<1>6. PICK u \in UserRow : u = WithId(users, w) /\ u.dept = d /\ u # NoCopy
  <2>1. NextId(users) \in Int
    BY <1>1, NextIdNew
  <2>2. [w EXCEPT !.id = NextId(users)] \in UserRow /\ [w EXCEPT !.id = NextId(users)].dept = w.dept
    BY <2>1 DEF UserRow
  <2>3. WithId(users, w) = w \/ WithId(users, w) = [w EXCEPT !.id = NextId(users)]
    BY DEF WithId
  <2>4. QED
    BY <1>5, <2>2, <2>3, ConstantTypes
<1>7. /\ users' = Upserted(users, u) /\ UNCHANGED req
      /\ copy' = [copy EXCEPT ![t] = u] /\ todo' = [todo EXCEPT ![t] = Tail(todo[t])]
  BY <1>5, <1>6 DEF PutCopy
<1>8. UsedDepts(users') \subseteq UsedDepts(users) \union ({u.dept} \ {NoDept})
  BY <1>1, <1>7, UpsertedDepts
<1>9. Others(t) /\ RestOf(todo[t], 1, todo'[t]) /\ req'[t] = req[t] /\ copy'[t] = u
  BY <1>1, <1>7, CopyRest
<1>10. DeptToList(t)' = u.dept /\ DeptToList(t) = row.dept
  BY <1>2, <1>6, <1>9 DEF DeptToList
<1>11. DeptToList(t) # NoDept => DeptToList(t)' = DeptToList(t)
  BY <1>3, <1>6, <1>10
<1>12. QED
  BY <1>1, <1>8, <1>9, <1>10, <1>11, ChangeList

-----------------------------------------------------------------------------
\* The other steps on users, and those on departments.

\* A thread without a request lists nothing.
LEMMA RestsList ==
  ASSUME NEW t \in Thread, todo[t] = <<>>
  PROVE  ~Moving(t) /\ ~HeadIn(t, {"dropDept"}) /\ \A d : ~Lists(t, d)
BY DEF Moving, HeadIn, Lists, Has

\* Beside a delicate request nobody lists anything.
LEMMA AloneLists ==
  ASSUME NEW t \in Thread, DelicateAlone, todo[t] # <<>>, Delicate(req[t].op)
  PROVE  \A a \in Thread \ {t} : \A d : ~Lists(a, d)
BY RestsList DEF DelicateAlone

\* The step at hand and its request.
LEMMA StepOf ==
  ASSUME ThreadInv, OrderInv, NEW t \in Thread, NEW step, At(t, step)
  PROVE  /\ todo[t] \in Seq(StepName) /\ todo[t] # <<>> /\ todo[t][1] = step /\ up
         /\ 1 \in DOMAIN todo[t] /\ ListsLater(todo[t]) /\ OfRequest(req[t].op, todo[t])
BY AtFirst DEF OrderInv, Order, At

LEMMA ImportCsvList ==
  ASSUME UsersTyped, OrderInv, ListInv, NEW t \in Thread, ImportCsv(t)
  PROVE  ListInv'
<1>1. At(t, "replace") /\ ThreadInv /\ Advance(t) /\ UNCHANGED restOfUsers
  BY DEF ImportCsv, UsersTyped
<1>2. 2 \in DOMAIN todo[t]
  BY <1>1, Landing DEF UserChanges
<1>3. Others(t) /\ RestOf(todo[t], 1, todo'[t]) /\ req'[t] = req[t]
  BY <1>1, <1>2, AdvanceRest
<1>4. ~HeadIn(t, {"dropDept"})' /\ (Moving(t)' => Moving(t))
  BY <1>1, <1>3, OrdinaryGoes
<1>5. /\ todo[t] \in Seq(StepName) /\ todo[t] # <<>> /\ todo[t][1] = "replace" /\ up
      /\ 1 \in DOMAIN todo[t] /\ ListsLater(todo[t])
  BY <1>1, StepOf
<1>6. Has(todo[t], "readUsed")
  BY <1>5 DEF ListsLater, Has
<1>7. PICK q : q = todo'[t]
  OBVIOUS
<1>8. Has(q, "readUsed")
  BY <1>3, <1>5, <1>6, <1>7, HasRest
<1>9. \A d : Lists(t, d)'
  BY <1>7, <1>8 DEF Lists
<1>10. ASSUME Listed PROVE KeepsList(t)
  BY <1>1, <1>4, <1>9, <1>10 DEF KeepsList, Listed, MoveListed, restOfUsers
<1>11. unlisted' = unlisted /\ \A a \in Thread \ {t} : snap'[a] = snap[a]
  BY <1>1 DEF restOfUsers
<1>12. QED
  BY <1>1, <1>3, <1>5, <1>10, <1>11, ListStep

LEMMA MoveUsersList ==
  ASSUME UsersTyped, OrderInv, ListInv, NEW t \in Thread, MoveUsers(t)
  PROVE  ListInv'
<1>1. At(t, "moveUsers") /\ ThreadInv /\ Advance(t) /\ UNCHANGED restOfUsers
  BY DEF MoveUsers, UsersTyped
<1>2. 2 \in DOMAIN todo[t]
  BY <1>1, Landing DEF UserChanges
<1>3. Others(t) /\ RestOf(todo[t], 1, todo'[t]) /\ req'[t] = req[t]
  BY <1>1, <1>2, AdvanceRest
<1>4. ~HeadIn(t, {"dropDept"})' /\ (Moving(t)' => Moving(t))
  BY <1>1, <1>3, OrdinaryGoes
<1>5. PICK p \in Seq(StepName) : p = todo[t]
  BY <1>1, StepOf
<1>6. /\ p # <<>> /\ p[1] = "moveUsers" /\ up
      /\ 1 \in DOMAIN p /\ ListsLater(p) /\ OfRequest(req[t].op, p)
  BY <1>1, <1>5, StepOf
<1>7. Delicate(req[t].op) /\ ~Has(p, "readUsed")
  BY <1>6 DEF OfRequest, Delicate, Has
<1>8. Moving(t)
  <2>1. \A j \in DOMAIN p : j = 1 \/ j > 1
    BY <1>5, LenProperties
  <2>2. ~Has(p, "renameDept") /\ Has(p, "moveUsers")
    BY <1>6, <2>1 DEF ListsLater, Has
  <2>3. QED
    BY <1>5, <2>2 DEF Moving
<1>9. \A d : Lists(t, d) => d = req[t].dept
  BY <1>5, <1>6, <1>7 DEF Lists, HeadIn, Sure
<1>10. \A i \in DOMAIN users' :
         \/ users'[i].dept = req[t].to
         \/ users'[i].dept # req[t].dept /\ \E j \in DOMAIN users : users'[i].dept = users[j].dept
  <2>1. users' = [i \in DOMAIN users |->
                    IF users[i].dept = req[t].dept THEN [users[i] EXCEPT !.dept = req[t].to]
                    ELSE users[i]]
    BY DEF MoveUsers
  <2>2. TAKE i \in DOMAIN users'
  <2>3. i \in DOMAIN users
    BY <2>1, <2>2
  <2>4. PICK d \in Dept \union {NoDept} : d = req[t].to
    BY <1>1, RequestFields
  <2>5. PICK row \in UserRow : row = users[i]
    BY <2>3, RowFields DEF UsersTyped
  <2>6. [row EXCEPT !.dept = d].dept = d
    BY RowIn
  <2>7. CASE users[i].dept = req[t].dept
    BY <2>1, <2>3, <2>4, <2>5, <2>6, <2>7
  <2>8. CASE users[i].dept # req[t].dept
    BY <2>1, <2>3, <2>8
  <2>9. QED
    BY <2>7, <2>8
<1>11. ASSUME Listed PROVE KeepsList(t)
  <2>1. \A a \in Thread \ {t} : \A d : ~Lists(a, d)
    BY <1>5, <1>6, <1>7, <1>11, AloneLists DEF Listed
  <2>2. req[t].to \in depts
    BY <1>8, <1>11 DEF Listed, MoveListed
  <2>3. ASSUME NEW d \in UsedDepts(users') PROVE d \in depts
    <3>1. PICK i \in DOMAIN users' : d = users'[i].dept /\ d # NoDept
      BY <2>3 DEF UsedDepts
    <3>2. CASE d = req[t].to
      BY <2>2, <3>2
    <3>3. CASE d # req[t].to
      <4>1. d # req[t].dept /\ d \in UsedDepts(users)
        BY <1>10, <3>1, <3>3 DEF UsedDepts
      <4>2. QED
        BY <1>9, <1>11, <2>1, <4>1 DEF Listed, UsedListed
    <3>4. QED
      BY <3>2, <3>3
  <2>4. depts' = depts
    BY <1>1 DEF restOfUsers
  <2>5. QED
    BY <1>4, <2>2, <2>3, <2>4 DEF KeepsList
<1>12. unlisted' = unlisted /\ \A a \in Thread \ {t} : snap'[a] = snap[a]
  BY <1>1 DEF restOfUsers
<1>13. todo[t] # <<>> /\ up
  BY <1>5, <1>6
<1>14. QED
  BY <1>1, <1>3, <1>11, <1>12, <1>13, ListStep

LEMMA UserStepList ==
  ASSUME UsersTyped, OrderInv, ListInv, NEW t \in Thread, UserStep(t)
  PROVE  ListInv'
BY UpsertUserList, EraseUserList, AssignCardList, RemoveCardList, EnsureUserForCardList,
   ImportCsvList, MoveUsersList, CopyOwnerList, CopyUserList, CheckFreeList, UpsertNewList,
   PutCopyList DEF UserStep

-----------------------------------------------------------------------------
\* The steps on departments_.

LEMMA AddDeptList ==
  ASSUME UsersTyped, OrderInv, ListInv, NEW t \in Thread, AddDept(t)
  PROVE  ListInv'
<1>1. At(t, "listDept") /\ ThreadInv /\ UNCHANGED restOfDepts
  BY DEF AddDept, UsersTyped
<1>2. Ends(t) \/ Advance(t)
  BY <1>1, SkipOrder DEF AddDept
<1>3. Others(t) /\ (todo'[t] = <<>> \/ (RestOf(todo[t], 1, todo'[t]) /\ req'[t] = req[t]))
  BY <1>1, <1>2, EndsOrder, AdvanceRest
<1>4. "listDept" \in Personal /\ 1 \in Nat
  BY DEF Personal
<1>5. /\ ~HeadIn(t, {"dropDept"})' /\ ~Moving(t)'
      /\ \A d : Lists(t, d) => DeptToList(t) = d
  BY <1>1, <1>3, <1>4, PersonalGoes
<1>6. depts \subseteq depts' /\ (DeptToList(t) # NoDept => DeptToList(t) \in depts')
  BY DEF AddDept
<1>7. UNCHANGED <<users, up, unlisted, snap>>
  BY <1>1 DEF restOfDepts
<1>8. ASSUME Listed PROVE KeepsList(t)
  <2>1. ASSUME NEW d \in UsedDepts(users')
        PROVE  d \in depts' \/ \E a \in Thread \ {t} : Lists(a, d)
    <3>1. d \in UsedDepts(users) /\ d # NoDept
      BY <1>7, <2>1 DEF UsedDepts
    <3>2. d \in depts \/ \E a \in Thread : Lists(a, d)
      BY <1>8, <3>1 DEF Listed, UsedListed
    <3>3. QED
      BY <1>5, <1>6, <3>1, <3>2
  <2>2. QED
    BY <1>5, <2>1 DEF KeepsList
<1>9. todo[t] # <<>> /\ up
  BY <1>1, StepOf
<1>10. todo'[t] = <<>> \/ req'[t] = req[t]
  BY <1>3
<1>11. unlisted => unlisted'
  BY <1>7
<1>12. \A a \in Thread \ {t} : snap'[a] = snap[a]
  BY <1>7
<1>13. QED
  BY <1>1, <1>3, <1>8, <1>9, <1>10, <1>11, <1>12, ListStep

LEMMA RenameDeptList ==
  ASSUME UsersTyped, OrderInv, ListInv, NEW t \in Thread, RenameDept(t)
  PROVE  ListInv'
<1>1. At(t, "renameDept") /\ ThreadInv /\ UNCHANGED restOfDepts
  BY DEF RenameDept, UsersTyped
<1>2. UNCHANGED <<users, up, unlisted, snap>>
  BY <1>1 DEF restOfDepts
<1>3. PICK p \in Seq(StepName) : p = todo[t]
  BY <1>1, StepOf
<1>4. /\ p # <<>> /\ p[1] = "renameDept" /\ up
      /\ 1 \in DOMAIN p /\ ListsLater(p) /\ OfRequest(req[t].op, p)
  BY <1>1, <1>3, StepOf
<1>5. Delicate(req[t].op)
  BY <1>4 DEF OfRequest, Delicate
<1>6. \A d : ~Lists(t, d)
  BY <1>1, ListsNothing DEF Early
<1>7. ASSUME Listed PROVE UsedDepts(users) \subseteq depts
  <2>1. \A a \in Thread \ {t} : \A d : ~Lists(a, d)
    BY <1>3, <1>4, <1>5, <1>7, AloneLists DEF Listed
  <2>2. QED
    BY <1>6, <1>7, <2>1 DEF Listed, UsedListed
<1>8. CASE Ends(t) /\ UNCHANGED depts
  <2>1. Others(t) /\ todo'[t] = <<>>
    BY <1>1, <1>8, EndsOrder
  <2>2. ~HeadIn(t, {"dropDept"})' /\ ~Moving(t)'
    BY <2>1 DEF HeadIn, Moving, Has
  <2>3. ASSUME Listed PROVE KeepsList(t)
    BY <1>2, <1>7, <1>8, <2>2, <2>3 DEF KeepsList
  <2>4. QED
    BY <1>1, <1>2, <1>3, <1>4, <2>1, <2>3, ListStep
<1>9. CASE depts' = (depts \ {req[t].dept}) \union {req[t].to} /\ Advance(t)
  <2>1. 2 \in DOMAIN p /\ p[2] = "snapDepts"
    BY <1>1, <1>3, Landing DEF DeptChanges
  <2>2. Others(t) /\ RestOf(p, 1, todo'[t]) /\ req'[t] = req[t]
    BY <1>1, <1>3, <1>9, <2>1, AdvanceRest
  <2>3. PICK q : q = todo'[t]
    OBVIOUS
  <2>4. Has(p, "moveUsers")
    BY <1>4 DEF ListsLater, Has
  <2>5. Has(q, "moveUsers")
    BY <1>4, <2>2, <2>3, <2>4, HasRest
  <2>6. \A i \in DOMAIN q : i + 1 \in DOMAIN p /\ i + 1 > 1 /\ q[i] = p[i + 1]
    BY <2>2, <2>3 DEF RestOf
  <2>7. ~Has(q, "renameDept")
    BY <1>4, <2>6 DEF ListsLater, Has
  <2>8. Moving(t)'
    BY <2>3, <2>5, <2>7 DEF Moving
  <2>9. \A d : d = req[t].dept => Lists(t, d)'
    BY <2>2, <2>8 DEF Lists
  <2>10. todo'[t][1] = "snapDepts"
    BY <1>1, <1>3, <1>9, <2>1, AdvanceOrder
  <2>11. ~HeadIn(t, {"dropDept"})'
    BY <2>10 DEF HeadIn
  <2>12. ASSUME Listed PROVE KeepsList(t)
    <3>1. \A d \in UsedDepts(users') : d \in depts' \/ Lists(t, d)'
      BY <1>2, <1>7, <1>9, <2>9, <2>12
    <3>2. req[t].to \in depts'
      BY <1>9
    <3>3. QED
      BY <2>11, <3>1, <3>2 DEF KeepsList
  <2>13. QED
    BY <1>1, <1>2, <1>3, <1>4, <2>2, <2>12, ListStep
<1>10. QED
  BY <1>8, <1>9 DEF RenameDept

LEMMA CheckUseList ==
  ASSUME UsersTyped, OrderInv, ListInv, NEW t \in Thread, CheckUse(t)
  PROVE  ListInv'
<1>1. At(t, "checkUse") /\ ThreadInv /\ UNCHANGED <<depts, restOfDepts>>
  BY DEF CheckUse, UsersTyped
<1>2. UNCHANGED <<users, depts, up, unlisted, snap>>
  BY <1>1 DEF restOfDepts
<1>3. PICK p \in Seq(StepName) : p = todo[t]
  BY <1>1, StepOf
<1>4. p # <<>> /\ p[1] = "checkUse" /\ up /\ 1 \in DOMAIN p /\ OfRequest(req[t].op, p)
  BY <1>1, <1>3, StepOf
<1>5. \A d : ~Lists(t, d)
  BY <1>1, ListsNothing DEF Early
<1>6. /\ Others(t) /\ (todo'[t] = <<>> \/ (RestOf(p, 1, todo'[t]) /\ req'[t] = req[t]))
  BY <1>1, <1>3, EndsOrder, AdvanceRest DEF CheckUse
<1>7. ~Moving(t)'
  <2>1. PICK q : q = todo'[t]
    OBVIOUS
  <2>2. ~Has(p, "moveUsers")
    BY <1>4 DEF OfRequest, Has
  <2>3. ~Has(q, "moveUsers")
    <3>1. CASE q = <<>>
      BY <3>1 DEF Has
    <3>2. CASE RestOf(p, 1, q)
      BY <1>4, <2>2, <3>2, HasRest
    <3>3. QED
      BY <1>6, <2>1, <3>1, <3>2
  <2>4. QED
    BY <2>1, <2>3 DEF Moving
<1>8. HeadIn(t, {"dropDept"})' => req[t].dept \notin UsedDepts(users)
  <2>1. CASE req[t].dept \in UsedDepts(users)
    <3>1. Ends(t)
      BY <2>1 DEF CheckUse
    <3>2. todo'[t] = <<>>
      BY <1>1, <3>1, EndsOrder
    <3>3. QED
      BY <3>2 DEF HeadIn
  <2>2. QED
    BY <2>1
<1>9. ASSUME Listed PROVE KeepsList(t)
  <2>1. \A d \in UsedDepts(users) : d \in depts \/ \E a \in Thread \ {t} : Lists(a, d)
    BY <1>5, <1>9 DEF Listed, UsedListed
  <2>2. QED
    BY <1>2, <1>7, <1>8, <2>1 DEF KeepsList
<1>10. todo'[t] = <<>> \/ req'[t] = req[t]
  BY <1>6
<1>11. QED
  BY <1>1, <1>2, <1>3, <1>4, <1>6, <1>9, <1>10, ListStep

LEMMA DropDeptList ==
  ASSUME UsersTyped, OrderInv, ListInv, NEW t \in Thread, DropDept(t)
  PROVE  ListInv'
<1>1. At(t, "dropDept") /\ ThreadInv /\ UNCHANGED restOfDepts
  BY DEF DropDept, UsersTyped
<1>2. UNCHANGED <<users, up, unlisted, snap>>
  BY <1>1 DEF restOfDepts
<1>3. PICK p \in Seq(StepName) : p = todo[t]
  BY <1>1, StepOf
<1>4. p # <<>> /\ p[1] = "dropDept" /\ up /\ 1 \in DOMAIN p /\ OfRequest(req[t].op, p)
  BY <1>1, <1>3, StepOf
<1>5. Delicate(req[t].op)
  BY <1>4 DEF OfRequest, Delicate
<1>6. ~Moving(t) /\ \A d : ~Lists(t, d)
  BY <1>1, ListsNothing DEF Early
<1>7. /\ Others(t) /\ (todo'[t] = <<>> \/ (RestOf(todo[t], 1, todo'[t]) /\ req'[t] = req[t]))
  BY <1>1, EndsOrder, AdvanceRest DEF DropDept
<1>8. ~HeadIn(t, {"dropDept"})' /\ ~Moving(t)'
  BY <1>1, <1>6, <1>7, OrdinaryGoes
<1>9. ASSUME Listed PROVE KeepsList(t)
  <2>1. \A a \in Thread \ {t} : \A d : ~Lists(a, d)
    BY <1>3, <1>4, <1>5, <1>9, AloneLists DEF Listed
  <2>2. UsedDepts(users) \subseteq depts
    BY <1>6, <1>9, <2>1 DEF Listed, UsedListed
  <2>3. req[t].dept \notin UsedDepts(users)
    BY <1>3, <1>4, <1>9 DEF Listed, DropUnused, HeadIn
  <2>4. depts' = depts \ {req[t].dept}
    BY DEF DropDept
  <2>5. QED
    BY <1>2, <1>8, <2>2, <2>3, <2>4 DEF KeepsList
<1>10. todo'[t] = <<>> \/ req'[t] = req[t]
  BY <1>7
<1>11. QED
  BY <1>1, <1>2, <1>3, <1>4, <1>7, <1>9, <1>10, ListStep

LEMMA ReadUsedList ==
  ASSUME UsersTyped, SnapType, OrderInv, ListInv, NEW t \in Thread, ReadUsed(t)
  PROVE  ListInv'
<1>1. /\ At(t, "readUsed") /\ ThreadInv /\ Advance(t) /\ UNCHANGED <<users, depts, up, unlisted>>
      /\ snap' = [snap EXCEPT ![t].depts = UsedDepts(users)]
  BY DEF ReadUsed, UsersTyped, memoryVars
<1>2. 2 \in DOMAIN todo[t] /\ todo[t][2] = "ensureDepts"
  BY <1>1, Landing
<1>3. /\ Others(t) /\ req'[t] = req[t] /\ todo'[t] # <<>> /\ todo'[t][1] = "ensureDepts"
  BY <1>1, <1>2, AdvanceOrder
<1>4. RestOf(todo[t], 1, todo'[t])
  BY <1>1, <1>2, AdvanceRest
<1>5. ~HeadIn(t, {"dropDept"})' /\ (Moving(t)' => Moving(t))
  BY <1>1, <1>4, OrdinaryGoes
<1>6. snap'[t].depts = UsedDepts(users) /\ \A a \in Thread \ {t} : snap'[a] = snap[a]
  BY <1>1 DEF SnapType
<1>7. \A d \in UsedDepts(users) : Lists(t, d)'
  BY <1>3, <1>6 DEF Lists, HeadIn
<1>8. ASSUME Listed PROVE KeepsList(t)
  BY <1>1, <1>5, <1>7, <1>8 DEF KeepsList, Listed, MoveListed
<1>9. todo[t] # <<>> /\ up
  BY <1>1, StepOf
<1>10. unlisted => unlisted'
  BY <1>1
<1>11. QED
  BY <1>1, <1>3, <1>6, <1>8, <1>9, <1>10, ListStep

LEMMA EnsureDeptsList ==
  ASSUME UsersTyped, OrderInv, ListInv, NEW t \in Thread, EnsureDepts(t)
  PROVE  ListInv'
<1>1. /\ At(t, "ensureDepts") /\ ThreadInv /\ UNCHANGED restOfDepts
      /\ depts' = depts \union snap[t].depts
  BY DEF EnsureDepts, UsersTyped
<1>2. UNCHANGED <<users, up, unlisted, snap>>
  BY <1>1 DEF restOfDepts
<1>3. PICK p \in Seq(StepName) : p = todo[t]
  BY <1>1, StepOf
<1>4. p # <<>> /\ p[1] = "ensureDepts" /\ up /\ 1 \in DOMAIN p /\ OfRequest(req[t].op, p)
  BY <1>1, <1>3, StepOf
<1>5. /\ Others(t) /\ (todo'[t] = <<>> \/ (RestOf(todo[t], 1, todo'[t]) /\ req'[t] = req[t]))
  BY <1>1, EndsOrder, AdvanceRest DEF EnsureDepts
<1>6. ~HeadIn(t, {"dropDept"})' /\ (Moving(t)' => Moving(t))
  BY <1>1, <1>5, OrdinaryGoes
<1>7. \A d : Lists(t, d) => d \in depts'
  <2>1. \A j \in DOMAIN p : j = 1 \/ j > 1
    BY <1>3, LenProperties
  <2>2. ~Has(p, "readUsed") /\ ~Has(p, "moveUsers")
    BY <1>4, <2>1 DEF OfRequest, Has
  <2>3. ~\A i \in DOMAIN p : p[i] \in Sure
    BY <1>4 DEF Sure
  <2>4. QED
    BY <1>1, <1>3, <2>2, <2>3 DEF Lists, Moving
<1>8. ASSUME Listed PROVE KeepsList(t)
  <2>1. \A d \in UsedDepts(users) : d \in depts' \/ \E a \in Thread \ {t} : Lists(a, d)
    BY <1>1, <1>7, <1>8 DEF Listed, UsedListed
  <2>2. QED
    BY <1>1, <1>2, <1>6, <1>8, <2>1 DEF KeepsList, Listed, MoveListed
<1>9. todo'[t] = <<>> \/ req'[t] = req[t]
  BY <1>5
<1>10. QED
  BY <1>1, <1>2, <1>3, <1>4, <1>5, <1>8, <1>9, ListStep

LEMMA DeptStepList ==
  ASSUME UsersTyped, SnapType, OrderInv, ListInv, NEW t \in Thread, DeptStep(t)
  PROVE  ListInv'
BY AddDeptList, RenameDeptList, CheckUseList, DropDeptList, ReadUsedList, EnsureDeptsList
DEF DeptStep

-----------------------------------------------------------------------------
\* Saves, arrivals and starts; the list of departments at rest.

\* A part of a save that goes on keeps what the thread is to list.
LEMMA SaveGoes ==
  ASSUME ThreadInv, OrderInv, ListInv, NEW t \in Thread, NEW step \in Saving, At(t, step),
         Advance(t), UNCHANGED <<users, depts>>, unlisted => unlisted',
         \A a \in Thread \ {t} : snap'[a] = snap[a]
  PROVE  ListInv'
<1>1. PICK p \in Seq(StepName) : p = todo[t]
  BY StepOf
<1>2. p # <<>> /\ p[1] = step /\ up /\ 1 \in DOMAIN p
  BY <1>1, StepOf
<1>3. /\ Others(t)
      /\ \/ todo'[t] = <<>> /\ 2 \notin DOMAIN p
         \/ RestOf(p, 1, todo'[t]) /\ req'[t] = req[t] /\ UNCHANGED copy
  BY <1>1, AdvanceRest
<1>4. ~HeadIn(t, {"dropDept"})' /\ (Moving(t)' => Moving(t))
  BY <1>1, <1>3, OrdinaryGoes DEF Saving
<1>5. ASSUME NEW d, Lists(t, d) PROVE Lists(t, d)'
  <2>1. CASE RestOf(p, 1, todo'[t]) /\ req'[t] = req[t] /\ UNCHANGED copy
    <3>1. DeptToList(t)' = DeptToList(t)
      BY <2>1 DEF DeptToList
    <3>2. step \notin {"listDept", "readUsed", "ensureDepts", "moveUsers", "renameDept"}
      BY DEF Saving
    <3>3. QED
      BY <1>1, <1>5, <2>1, <3>1, <3>2, StillLists
  <2>2. CASE 2 \notin DOMAIN p
    <3>1. \A i \in DOMAIN p : i = 1
      BY <1>1, <2>2, LenProperties
    <3>2. \A i \in DOMAIN p : p[i] \in Saving
      BY <1>2, <3>1
    <3>3. ~Has(p, "listDept") /\ ~Has(p, "readUsed") /\ ~Has(p, "moveUsers")
      BY <3>2 DEF Has, Saving
    <3>4. ~HeadIn(t, {"ensureDepts"})
      BY <1>1, <1>2 DEF HeadIn, Saving
    <3>5. QED
      BY <1>1, <1>5, <3>3, <3>4 DEF Lists, Moving
  <2>3. QED
    BY <1>3, <2>1, <2>2
<1>6. ASSUME Listed PROVE KeepsList(t)
  <2>1. \A d \in UsedDepts(users) :
          d \in depts \/ Lists(t, d)' \/ \E a \in Thread \ {t} : Lists(a, d)
    BY <1>5, <1>6 DEF Listed, UsedListed
  <2>2. QED
    BY <1>4, <1>6, <2>1 DEF KeepsList, Listed, MoveListed
<1>7. todo'[t] = <<>> \/ req'[t] = req[t]
  BY <1>3
<1>8. QED
  BY <1>1, <1>2, <1>3, <1>6, <1>7, ListStep

\* A save that fails ends the request: an import or a rename is left half way, and any other
\* request has listed what it had to.
LEMMA SaveEnds ==
  ASSUME ThreadInv, OrderInv, ListInv, NEW t \in Thread,
         NEW step \in {"writeUsers", "writeDepts"}, At(t, step),
         Ends(t), UNCHANGED <<users, depts>>,
         unlisted' = (unlisted \/ req[t].op \in {"import", "rename"}),
         \A a \in Thread \ {t} : snap'[a] = snap[a]
  PROVE  ListInv'
<1>1. PICK p \in Seq(StepName) : p = todo[t]
  BY StepOf
<1>2. /\ p # <<>> /\ p[1] = step /\ up /\ 1 \in DOMAIN p
      /\ ListsLater(p) /\ OfRequest(req[t].op, p)
  BY <1>1, StepOf
<1>3. Others(t) /\ todo'[t] = <<>>
  BY EndsOrder
<1>4. ~HeadIn(t, {"dropDept"})' /\ ~Moving(t)'
  BY <1>3 DEF HeadIn, Moving, Has
<1>5. ASSUME NEW d, Lists(t, d) PROVE req[t].op \in {"import", "rename"}
  <2>1. ~(Has(p, "listDept") /\ \A i \in DOMAIN p : p[i] \in Sure)
    <3>1. \A j \in DOMAIN p : j = 1 \/ j > 1
      BY <1>1, LenProperties
    <3>2. QED
      BY <1>2, <3>1 DEF ListsLater, Has, Sure
  <2>2. ~HeadIn(t, {"ensureDepts"})
    BY <1>1, <1>2 DEF HeadIn
  <2>3. Has(p, "readUsed") \/ Has(p, "moveUsers")
    BY <1>1, <1>5, <2>1, <2>2 DEF Lists, Moving
  <2>4. QED
    BY <1>2, <2>3 DEF OfRequest, Has
<1>6. ASSUME Listed, ~unlisted' PROVE KeepsList(t)
  <2>1. \A d \in UsedDepts(users) : d \in depts \/ \E a \in Thread \ {t} : Lists(a, d)
    BY <1>5, <1>6 DEF Listed, UsedListed
  <2>2. QED
    BY <1>4, <2>1 DEF KeepsList
<1>7. unlisted => unlisted'
  OBVIOUS
<1>8. QED
  BY <1>1, <1>2, <1>3, <1>6, <1>7, ListStep

LEMMA SaveStepList ==
  ASSUME UsersTyped, SnapType, OrderInv, ListInv, NEW t \in Thread, SaveStep(t)
  PROVE  ListInv'
<1>1. ThreadInv
  BY DEF UsersTyped
<1>2. ASSUME NEW s, NEW step \in Saving, At(t, step), TakeSnapshot(t, s) \/ Commit(t, s)
      PROVE  ListInv'
  <2>1. Advance(t) /\ UNCHANGED <<users, depts>> /\ (unlisted => unlisted')
    BY <1>2 DEF TakeSnapshot, Commit, memoryVars
  <2>2. \A a \in Thread \ {t} : snap'[a] = snap[a]
    BY <1>2 DEF TakeSnapshot, Commit, SnapType
  <2>3. QED
    BY <1>1, <1>2, <2>1, <2>2, SaveGoes
<1>3. ASSUME NEW s, NEW step \in Saving, At(t, step), NEW ignored, Rollback(t, s, ignored),
             ignored \/ step \in {"writeUsers", "writeDepts"}
      PROVE  ListInv'
  <2>1. /\ UNCHANGED <<users, depts>>
        /\ unlisted' = (unlisted \/ req[t].op \in {"import", "rename"})
        /\ IF ignored THEN Advance(t) ELSE Ends(t)
    BY <1>3 DEF Rollback, memoryVars
  <2>2. \A a \in Thread \ {t} : snap'[a] = snap[a]
    BY <1>3 DEF Rollback, SnapType
  <2>3. CASE ignored
    BY <1>1, <1>3, <2>1, <2>2, <2>3, SaveGoes
  <2>4. CASE ~ignored
    BY <1>1, <1>3, <2>1, <2>2, <2>4, SaveEnds
  <2>5. QED
    BY <2>3, <2>4
<1>4. /\ "snapUsers" \in Saving /\ "snapDepts" \in Saving /\ "writeUsers" \in Saving
      /\ "tryWriteUsers" \in Saving /\ "writeDepts" \in Saving
  BY DEF Saving
<1>5. CASE SnapUsers(t) \/ SnapDepts(t)
  BY <1>2, <1>4, <1>5 DEF SnapUsers, SnapDepts
<1>6. CASE WriteUsers(t)
  BY <1>2, <1>3, <1>4, <1>6 DEF WriteUsers
<1>7. CASE WriteDepts(t)
  BY <1>2, <1>3, <1>4, <1>7 DEF WriteDepts
<1>8. QED
  BY <1>5, <1>6, <1>7 DEF SaveStep

\* A request comes in: beside a delicate one only if the list is given up.
LEMMA ReceiveList ==
  ASSUME UsersTyped, OrderInv, ListInv, NEW t \in Thread, Receive(t)
  PROVE  ListInv'
<1>1. ThreadInv
  BY DEF UsersTyped
<1>2. PICK r \in Requests :
        /\ req' = [req EXCEPT ![t] = r]
        /\ todo' = [todo EXCEPT ![t] = Steps(r.op)]
        /\ unlisted' = (unlisted \/ \E s \in Thread \ {t} :
                           todo[s] # <<>> /\ (Delicate(r.op) \/ Delicate(req[s].op)))
  BY DEF Receive
<1>3. up /\ todo[t] = <<>> /\ UNCHANGED <<users, depts, copy, snap>>
  BY DEF Receive, memoryVars
<1>4. PICK p \in Seq(StepName) : p = Steps(r.op) /\ p # <<>> /\ Begins(p)
  BY ConstantTypes, StepsOrdered, StepsSound DEF Program
<1>5. Others(t) /\ req'[t] = r /\ todo'[t] = p
  BY <1>1, <1>2, <1>3, <1>4 DEF Others, ThreadInv, RequestsType
<1>6. SUFFICES ASSUME ~unlisted' PROVE Listed'
  BY DEF ListInv, Listed
<1>7. Listed
  BY <1>2, <1>3, <1>6 DEF ListInv, Listed
<1>8. \A a \in Thread \ {t} :
        /\ \A d : Lists(a, d)' <=> Lists(a, d)
        /\ Moving(a)' <=> Moving(a)
        /\ HeadIn(a, {"dropDept"})' <=> HeadIn(a, {"dropDept"})
        /\ todo'[a] = todo[a] /\ req'[a] = req[a]
  BY <1>3, <1>5, OthersList DEF Others
<1>9. \A d : ~Lists(t, d)
  BY <1>3, RestsList
<1>10. UsedListed'
  BY <1>3, <1>7, <1>8, <1>9 DEF Listed, UsedListed
<1>11. DelicateAlone'
  BY <1>2, <1>3, <1>5, <1>6, <1>7, <1>8 DEF Listed, DelicateAlone
<1>12. ~HeadIn(t, {"dropDept"})' /\ ~Moving(t)'
  <2>1. 1 \in DOMAIN p
    BY <1>4, LenProperties, EmptySeq
  <2>2. Has(p, "moveUsers") => Has(p, "renameDept")
    BY <1>4, <2>1 DEF Begins, Has
  <2>3. QED
    BY <1>4, <1>5, <2>2 DEF Begins, HeadIn, Moving
<1>13. DropUnused' /\ MoveListed'
  BY <1>3, <1>7, <1>8, <1>12 DEF Listed, DropUnused, MoveListed
<1>14. QED
  BY <1>10, <1>11, <1>13 DEF Listed

LEMMA StartList ==
  ASSUME RegistryInv, QuietInv, Start
  PROVE  ListInv'
<1>1. ~up /\ UNCHANGED threadVars
  BY DEF Start
<1>2. Resting'
  BY <1>1 DEF QuietInv, Resting, threadVars
<1>3. UsedDepts(users') \subseteq depts'
  BY DEF Start
<1>4. UsedListed'
  BY <1>3 DEF UsedListed
<1>5. DelicateAlone' /\ DropUnused' /\ MoveListed'
  BY <1>2 DEF DelicateAlone, DropUnused, MoveListed, Resting, HeadIn, Moving, Has
<1>6. QED
  BY <1>4, <1>5 DEF ListInv

LEMMA NextList ==
  RegistryInv /\ QuietInv /\ ListInv /\ [Next]_vars => ListInv'
<1>1. SUFFICES ASSUME RegistryInv, QuietInv, ListInv, [Next]_vars PROVE ListInv'
  OBVIOUS
<1>2. UsersTyped /\ SnapType /\ OrderInv
  BY <1>1, InvParts DEF QuietInv
<1>3. CASE UNCHANGED vars
  BY <1>1, <1>3
  DEF ListInv, UsedListed, DelicateAlone, DropUnused, MoveListed, Lists, HeadIn, Moving,
      DeptToList, vars, memoryVars, threadVars
<1>4. CASE Crash
  BY <1>4 DEF Crash, ListInv
<1>5. CASE StartFails
  BY <1>5 DEF StartFails, ListInv
<1>6. QED
  BY <1>1, <1>2, <1>3, <1>4, <1>5, UserStepList, AssignToMissingList, DeptStepList,
     SaveStepList, ReceiveList, StartList DEF Next

\* When no request is under way every department a user has is in the list, unless a rename or
\* a drop ran beside another request or an import or a rename could not be saved: whoever
\* brings a department in lists it, in whatever order requests run.
THEOREM DeptsListedAlways ==
  Spec => []DeptsListed
<1>1. Init => ListInv
  BY DEF Init, ListInv
<1>2. QuietInv /\ ListInv => DeptsListed
  <2>1. SUFFICES ASSUME ListInv, Quiet, ~unlisted PROVE UsedDepts(users) \subseteq depts
    BY DEF DeptsListed
  <2>2. UsedListed /\ \A t \in Thread : todo[t] = <<>>
    BY <2>1 DEF ListInv, Quiet
  <2>3. QED
    BY <2>2, RestsList DEF UsedListed
<1>3. QED
  BY <1>1, <1>2, QuietInvAlways, NextList, PTL DEF Spec
=============================================================================
