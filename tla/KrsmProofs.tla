----------------------------- MODULE KrsmProofs -----------------------------
(***************************************************************************)
(* Proofs about Krsm for a caller like pocker: every reason has at most    *)
(* one waiting future, filter_valid_futures is not used, and the table has *)
(* at least two slots more than there are reasons.                         *)
(***************************************************************************)
EXTENDS Krsm, WellFoundedInduction, TLAPS

PockerUse == ~Shared /\ ~Filtering /\ NumReasons + 2 <= MaxPending

\* A table as the operations leave it.  The bound on the reason of slot i is
\* what keeps the last two slots empty.
GoodTable(t) ==
    /\ t \in [Slots -> [reason : 0..NumReasons, count : 0..NumFutures]]
    /\ \A i \in Slots : t[i].count = IF t[i].reason = 0 THEN 0 ELSE 1
    /\ \A i, j \in Slots : i < j => t[i].reason > t[j].reason \/ t[j].reason = 0
    /\ \A i \in Slots : t[i].reason # 0 => t[i].reason + i <= NumReasons

\* The table lists exactly the reasons futures wait for, except the one that
\* is unblocked, and a polled future does not wait for the unblocked reason.
Tracking ==
    /\ \A r \in Reasons :
          Found(table, r) <=> (r # unblock /\ \E f \in Futures : waitsFor[f] = r)
    /\ \A f, g \in Futures : waitsFor[f] # 0 /\ waitsFor[f] = waitsFor[g] => f = g
    /\ \A f \in polled : stepping /\ waitsFor[f] # 0 => waitsFor[f] # unblock

IInv ==
    /\ GoodTable(table) /\ Tracking
    /\ unblock \in 0..NumReasons /\ stepping \in BOOLEAN
    /\ polled \subseteq Futures /\ waitsFor \in [Futures -> 0..NumReasons]
    /\ retired = {} /\ refused = FALSE /\ crowded \in BOOLEAN

-----------------------------------------------------------------------------
\* A non-empty set of naturals has a least element.
LEMMA LeastElement ==
    ASSUME NEW S, S \subseteq Nat, S # {}
    PROVE  \E n \in S : \A m \in S : n <= m
<1> DEFINE R == OpToRel(<, Nat)
<1>1. \E x \in S : \A y \in S : ~(<<y, x>> \in R)
  <2>1. IsWellFoundedOn(R, Nat)
    BY NatLessThanWellFounded, Zenon
  <2> HIDE DEF R
  <2>2. QED
    BY <2>1, WFMin, Zenon
<1>2. \A x, y \in Nat : y < x => <<y, x>> \in R
  BY DEF OpToRel
<1> HIDE DEF R
<1>3. PICK x \in S : \A y \in S : ~(<<y, x>> \in R)
  BY <1>1
<1>4. \A y \in S : ~(y < x)
  BY <1>2, <1>3, Zenon
<1>5. QED
  BY <1>4

\* Slots are numbers, and so are the reasons in them.
LEMMA SlotFacts ==
    /\ \A i \in Slots : i \in Nat /\ i < MaxPending
    /\ \A i \in Nat : i < MaxPending => i \in Slots
    /\ \A r \in Reasons : r \in Nat /\ r > 0
    /\ \A t : GoodTable(t) => \A i \in Slots : t[i].reason \in Nat
BY KrsmAssumption, TableAssumption DEF Slots, Reasons, GoodTable

\* The last two slots of a good table are empty.
LEMMA LastSlotsEmpty ==
    ASSUME PockerUse, NEW t, GoodTable(t)
    PROVE  /\ Size(t) = MaxPending - 1
           /\ MaxPending - 1 \in Slots /\ t[MaxPending - 1].reason = 0
           /\ MaxPending - 2 \in Slots /\ t[MaxPending - 2].reason = 0
<1>1. MaxPending - 1 \in Slots /\ MaxPending - 2 \in Slots
  BY KrsmAssumption, TableAssumption DEF PockerUse, Slots
<1>2. t[MaxPending - 1].reason = 0 /\ t[MaxPending - 2].reason = 0
  <2>1. t[MaxPending - 1].reason \in Nat /\ t[MaxPending - 2].reason \in Nat
    BY <1>1, KrsmAssumption, TableAssumption DEF GoodTable
  <2>2. QED
    BY <1>1, <2>1, KrsmAssumption, TableAssumption DEF GoodTable, PockerUse
<1>3. QED
  BY <1>1, <1>2 DEF Size

\* In a good table a listed reason is found in its one slot.
LEMMA IndexOfFacts ==
    ASSUME NEW t, GoodTable(t), NEW r \in Reasons, Found(t, r)
    PROVE  IndexOf(t, r) \in Slots /\ t[IndexOf(t, r)].reason = r
<1>1. PICK i \in Slots : t[i].reason = r
  BY DEF Found
<1>2. i + 1 \in Slots => t[i + 1].reason < r
  <2> SUFFICES ASSUME i + 1 \in Slots PROVE t[i + 1].reason < r
    OBVIOUS
  <2>1. i < i + 1 /\ r > 0
    BY SlotFacts
  <2>2. t[i].reason > t[i + 1].reason \/ t[i + 1].reason = 0
    BY <2>1 DEF GoodTable
  <2>3. QED
    BY <1>1, <2>1, <2>2, SlotFacts
<1>3. QED
  BY <1>1, <1>2 DEF IndexOf

\* An unlisted reason has a place: the first slot with a smaller reason.
LEMMA InsertIndexFacts ==
    ASSUME PockerUse, NEW t, GoodTable(t), NEW r \in Reasons, ~Found(t, r)
    PROVE  LET k == InsertIndex(t, r) IN
           /\ k \in Slots /\ t[k].reason < r
           /\ k > 0 => t[k - 1].reason > r
<1> DEFINE S == {i \in Slots : t[i].reason < r}
           Fits(i) == /\ i > 0 => t[i - 1].reason > r
                      /\ i < MaxPending => t[i].reason < r
<1>1. MaxPending - 1 \in S
  BY LastSlotsEmpty DEF Reasons
<1>2. PICK k \in S : \A m \in S : k <= m
  <2>1. S \subseteq Nat
    BY DEF Slots
  <2>2. QED
    BY <1>1, <2>1, LeastElement, Zenon
<1>3. Fits(k) /\ k \in 0..MaxPending
  <2>1. k > 0 => k - 1 \in Slots /\ k - 1 \notin S
    BY <1>2, KrsmAssumption, TableAssumption DEF Slots
  <2>2. k > 0 => t[k - 1].reason > r
    BY <2>1, KrsmAssumption, TableAssumption DEF Found, GoodTable, Reasons
  <2>3. QED
    BY <1>2, <2>2, KrsmAssumption, TableAssumption DEF Slots
<1>4. InsertIndex(t, r) \in 0..MaxPending /\ Fits(InsertIndex(t, r))
  BY <1>3 DEF InsertIndex
<1>5. InsertIndex(t, r) # MaxPending
  BY <1>1, <1>4, KrsmAssumption, TableAssumption DEF Slots, Reasons, GoodTable
<1>6. QED
  BY <1>4, <1>5, KrsmAssumption, TableAssumption DEF Slots

-----------------------------------------------------------------------------
\* Removing a reason from a good table removes that reason and nothing else.
LEMMA RemoveGood ==
    ASSUME PockerUse, NEW t, GoodTable(t), NEW r \in Reasons
    PROVE  /\ GoodTable(Remove(t, r))
           /\ \A q \in Reasons : Found(Remove(t, r), q) <=> (Found(t, q) /\ q # r)
<1>1. CASE ~Found(t, r)
  BY <1>1 DEF Remove
<1>2. CASE Found(t, r)
  <2> DEFINE k == IndexOf(t, r)
             u == Remove(t, r)
  <2>1. k \in Slots /\ t[k].reason = r
    BY <1>2, IndexOfFacts
  <2>2. Size(t) = MaxPending - 1 /\ t[MaxPending - 1].reason = 0
        /\ t[MaxPending - 2].reason = 0 /\ MaxPending - 2 \in Slots
        /\ MaxPending - 1 \in Slots
    BY LastSlotsEmpty
  <2>3. t[k].count = 1
    BY <2>1, KrsmAssumption, TableAssumption DEF GoodTable, Reasons
  <2>4. u = [i \in Slots |-> IF i >= k /\ i + 1 < Size(t) THEN t[i + 1] ELSE t[i]]
    BY <1>2, <2>3 DEF Remove
  <2>5. k < MaxPending - 2
    BY <2>1, <2>2, KrsmAssumption, TableAssumption DEF GoodTable, Reasons, Slots
  <2> HIDE DEF k, u
  <2>6. \A i \in Slots : u[i] = IF i >= k /\ i < MaxPending - 2 THEN t[i + 1] ELSE t[i]
    BY <2>2, <2>4, KrsmAssumption, TableAssumption DEF Slots
  <2>7. \A i \in Slots : i < MaxPending - 2 => i + 1 \in Slots
    BY KrsmAssumption, TableAssumption DEF Slots
  <2>8. u \in [Slots -> [reason : 0..NumReasons, count : 0..NumFutures]]
    <3>1. \A i \in Slots : u[i] \in [reason : 0..NumReasons, count : 0..NumFutures]
      BY <2>6, <2>7 DEF GoodTable
    <3>2. QED
      BY <2>4, <3>1
  <2>9. \A i \in Slots : u[i].count = IF u[i].reason = 0 THEN 0 ELSE 1
    BY <2>6, <2>7 DEF GoodTable
  <2>10. \A i, j \in Slots : i < j => u[i].reason > u[j].reason \/ u[j].reason = 0
    <3> SUFFICES ASSUME NEW i \in Slots, NEW j \in Slots, i < j, u[j].reason # 0
                 PROVE  u[i].reason > u[j].reason
      BY Zenon
    <3>1. j < MaxPending - 2
      BY <2>2, <2>6, KrsmAssumption, TableAssumption DEF Slots
    <3>2. PICK a \in Slots : u[i] = t[a] /\ a = IF i >= k THEN i + 1 ELSE i
      <4>1. i < MaxPending - 2
        BY <3>1, SlotFacts, KrsmAssumption, TableAssumption
      <4>2. QED
        BY <2>6, <2>7, <4>1
    <3>3. PICK b \in Slots : u[j] = t[b] /\ b = IF j >= k THEN j + 1 ELSE j
      BY <2>6, <2>7, <3>1, SlotFacts
    <3>4. a < b
      BY <2>1, <3>2, <3>3, SlotFacts
    <3>5. QED
      BY <3>2, <3>3, <3>4 DEF GoodTable
  <2>11. \A i \in Slots : u[i].reason # 0 => u[i].reason + i <= NumReasons
    <3> SUFFICES ASSUME NEW i \in Slots, u[i].reason # 0
                 PROVE  u[i].reason + i <= NumReasons
      OBVIOUS
    <3>1. CASE i >= k /\ i < MaxPending - 2
      <4>1. i + 1 \in Slots /\ u[i] = t[i + 1]
        BY <2>6, <2>7, <3>1
      <4>2. t[i + 1].reason + (i + 1) <= NumReasons
        BY <4>1 DEF GoodTable
      <4>3. t[i + 1].reason \in Nat /\ i \in Nat
        BY <4>1, KrsmAssumption, TableAssumption DEF GoodTable, Slots
      <4>4. QED
        BY <4>1, <4>2, <4>3, KrsmAssumption, TableAssumption
    <3>2. CASE ~(i >= k /\ i < MaxPending - 2)
      BY <2>6, <3>2 DEF GoodTable
    <3>3. QED
      BY <3>1, <3>2
  <2>12. ASSUME NEW q \in Reasons
         PROVE  Found(u, q) <=> (Found(t, q) /\ q # r)
    <3>1. Found(u, q) => Found(t, q)
      BY <2>6, <2>7 DEF Found
    <3>2. ~Found(u, r)
      <4>1. \A i \in Slots : t[i].reason = r => i = k
        <5> SUFFICES ASSUME NEW i \in Slots, t[i].reason = r, i # k PROVE FALSE
          OBVIOUS
        <5>1. i < k \/ k < i
          BY <2>1, SlotFacts
        <5>2. r > r \/ r = 0
          BY <2>1, <5>1 DEF GoodTable
        <5>3. QED
          BY <5>2, SlotFacts
      <4>2. QED
        BY <2>1, <2>5, <2>6, <2>7, <4>1, KrsmAssumption, TableAssumption DEF Found, Slots
    <3>3. ASSUME Found(t, q), q # r
          PROVE  Found(u, q)
      <4>1. PICK i \in Slots : t[i].reason = q
        BY <3>3 DEF Found
      <4>2. i # k /\ i < MaxPending - 2
        <5>1. i # k /\ q > 0
          BY <2>1, <3>3, <4>1, SlotFacts
        <5>2. i # MaxPending - 2 /\ i # MaxPending - 1
          BY <2>2, <4>1, <5>1
        <5>3. QED
          BY <5>1, <5>2, SlotFacts, KrsmAssumption, TableAssumption
      <4>3. CASE i < k
        BY <2>6, <4>1, <4>3, <2>1, KrsmAssumption, TableAssumption DEF Found, Slots
      <4>4. CASE i > k
        <5>1. i - 1 \in Slots /\ i - 1 >= k /\ i - 1 < MaxPending - 2 /\ (i - 1) + 1 = i
          BY <2>1, <4>2, <4>4, KrsmAssumption, TableAssumption DEF Slots
        <5>2. u[i - 1] = t[i]
          BY <2>6, <5>1
        <5>3. QED
          BY <4>1, <5>1, <5>2 DEF Found
      <4>5. QED
        BY <2>1, <4>2, <4>3, <4>4 DEF Slots
    <3>4. QED
      BY <3>1, <3>2, <3>3
  <2>13. QED
    BY <2>8, <2>9, <2>10, <2>11, <2>12 DEF GoodTable, u
<1>3. QED
  BY <1>1, <1>2

\* Adding a reason a good table does not list adds that reason and nothing else.
LEMMA InsertGood ==
    ASSUME PockerUse, NumFutures > 0, NEW t, GoodTable(t), NEW r \in Reasons, ~Found(t, r)
    PROVE  /\ GoodTable(Insert(t, r))
           /\ \A q \in Reasons : Found(Insert(t, r), q) <=> (Found(t, q) \/ q = r)
<1> DEFINE k == InsertIndex(t, r)
           u == Insert(t, r)
           new == [reason |-> r, count |-> 1]
<1>1. k \in Slots /\ t[k].reason < r /\ (k > 0 => t[k - 1].reason > r)
  BY InsertIndexFacts
<1>2. Size(t) = MaxPending - 1 /\ t[MaxPending - 1].reason = 0
  BY LastSlotsEmpty
<1>3. u = [i \in Slots |-> IF i = k THEN new
                          ELSE IF i > k /\ i <= Size(t) THEN t[i - 1] ELSE t[i]]
  BY DEF Insert
<1> HIDE DEF k, u
<1>4. \A i \in Slots : u[i] = IF i = k THEN new ELSE IF i > k THEN t[i - 1] ELSE t[i]
  BY <1>2, <1>3, SlotFacts, KrsmAssumption, TableAssumption
<1>5. \A i \in Slots : i > k => i - 1 \in Slots
  BY <1>1, SlotFacts, KrsmAssumption, TableAssumption
<1>6. \A i \in Slots : i < k => t[i].reason > r
  <2> SUFFICES ASSUME NEW i \in Slots, i < k PROVE t[i].reason > r
    OBVIOUS
  <2>1. k > 0 /\ k - 1 \in Slots /\ (i = k - 1 \/ i < k - 1)
    BY <1>1, SlotFacts, KrsmAssumption, TableAssumption
  <2>2. i < k - 1 => t[i].reason > t[k - 1].reason \/ t[k - 1].reason = 0
    BY <2>1 DEF GoodTable
  <2>3. QED
    BY <1>1, <2>1, <2>2, SlotFacts
<1>7. \A i \in Slots : i >= k => t[i].reason < r
  <2> SUFFICES ASSUME NEW i \in Slots, i >= k PROVE t[i].reason < r
    OBVIOUS
  <2>1. i = k \/ k < i
    BY <1>1, SlotFacts
  <2>2. k < i => t[k].reason > t[i].reason \/ t[i].reason = 0
    BY <1>1 DEF GoodTable
  <2>3. QED
    BY <1>1, <2>1, <2>2, SlotFacts
<1>8. u \in [Slots -> [reason : 0..NumReasons, count : 0..NumFutures]]
  <2>1. new \in [reason : 0..NumReasons, count : 0..NumFutures]
    BY KrsmAssumption, TableAssumption DEF Reasons
  <2>2. \A i \in Slots : u[i] \in [reason : 0..NumReasons, count : 0..NumFutures]
    BY <1>4, <1>5, <2>1 DEF GoodTable
  <2>3. QED
    BY <1>3, <2>2
<1>9. \A i \in Slots : u[i].count = IF u[i].reason = 0 THEN 0 ELSE 1
  BY <1>4, <1>5, SlotFacts DEF GoodTable
<1>10. \A i, j \in Slots : i < j => u[i].reason > u[j].reason \/ u[j].reason = 0
  <2> SUFFICES ASSUME NEW i \in Slots, NEW j \in Slots, i < j
               PROVE  u[i].reason > u[j].reason \/ u[j].reason = 0
    OBVIOUS
  <2>1. CASE j < k
    BY <1>1, <1>4, <2>1, SlotFacts DEF GoodTable
  <2>2. CASE j = k
    BY <1>1, <1>4, <1>6, <2>2, SlotFacts
  <2>3. CASE j > k /\ i < k
    <3>1. j - 1 \in Slots /\ j - 1 >= k /\ u[j] = t[j - 1] /\ u[i] = t[i]
      BY <1>1, <1>4, <1>5, <2>3, SlotFacts
    <3>2. t[j - 1].reason < r /\ t[i].reason > r
      BY <1>6, <1>7, <2>3, <3>1
    <3>3. QED
      BY <3>1, <3>2, SlotFacts
  <2>4. CASE j > k /\ i = k
    <3>1. j - 1 \in Slots /\ j - 1 >= k /\ u[j] = t[j - 1] /\ u[i].reason = r
      BY <1>1, <1>4, <1>5, <2>4, SlotFacts
    <3>2. QED
      BY <1>7, <3>1, SlotFacts
  <2>5. CASE i > k
    <3>1. /\ i - 1 \in Slots /\ j - 1 \in Slots /\ i - 1 < j - 1
          /\ u[i] = t[i - 1] /\ u[j] = t[j - 1]
      BY <1>1, <1>4, <1>5, <2>5, SlotFacts
    <3>2. QED
      BY <3>1 DEF GoodTable
  <2>6. QED
    BY <1>1, <2>1, <2>2, <2>3, <2>4, <2>5, SlotFacts
<1>11. \A i \in Slots : u[i].reason # 0 => u[i].reason + i <= NumReasons
  <2>1. r + k <= NumReasons
    <3>1. CASE k = 0
      BY <3>1, KrsmAssumption, TableAssumption DEF Reasons
    <3>2. CASE k > 0
      <4>1. k - 1 \in Slots /\ t[k - 1].reason > r /\ t[k - 1].reason # 0
        BY <1>1, <3>2, SlotFacts, KrsmAssumption, TableAssumption
      <4>2. t[k - 1].reason + (k - 1) <= NumReasons
        BY <4>1 DEF GoodTable
      <4>3. QED
        BY <1>1, <4>1, <4>2, SlotFacts, KrsmAssumption, TableAssumption
    <3>3. QED
      BY <1>1, <3>1, <3>2, SlotFacts
  <2> DEFINE Bad == {i \in Slots : u[i].reason # 0 /\ ~(u[i].reason + i <= NumReasons)}
  <2> SUFFICES ASSUME Bad # {} PROVE FALSE
    OBVIOUS
  <2>2. PICK i \in Bad : \A m \in Bad : i <= m
    <3>1. Bad \subseteq Nat
      BY SlotFacts
    <3>2. QED
      BY <3>1, LeastElement, Zenon
  <2>3. CASE i = k
    BY <1>4, <2>1, <2>2, <2>3
  <2>4. CASE i < k
    BY <1>1, <1>4, <2>2, <2>4, SlotFacts DEF GoodTable
  <2>5. CASE i > k
    <3>1. i - 1 \in Slots /\ i \in Slots /\ i - 1 < i /\ i - 1 \notin Bad
      BY <1>1, <1>5, <2>2, <2>5, SlotFacts
    <3>2. u[i - 1].reason > u[i].reason /\ u[i].reason # 0
      BY <1>10, <2>2, <3>1
    <3>3. u[i].reason \in Nat /\ u[i - 1].reason \in Nat /\ i \in Nat
      BY <1>8, <3>1, SlotFacts, KrsmAssumption, TableAssumption
    <3>4. u[i - 1].reason + (i - 1) <= NumReasons
      BY <3>1, <3>2, <3>3
    <3>5. u[i].reason + i <= NumReasons
      BY <3>2, <3>3, <3>4, KrsmAssumption, TableAssumption
    <3>6. QED
      BY <2>2, <3>5
  <2>6. QED
    BY <1>1, <2>2, <2>3, <2>4, <2>5, SlotFacts
<1>12. ASSUME NEW q \in Reasons
       PROVE  Found(u, q) <=> (Found(t, q) \/ q = r)
  <2>1. Found(u, q) => Found(t, q) \/ q = r
    BY <1>4, <1>5 DEF Found
  <2>2. Found(u, r)
    BY <1>1, <1>4 DEF Found
  <2>3. ASSUME Found(t, q)
        PROVE  Found(u, q)
    <3>1. PICK i \in Slots : t[i].reason = q
      BY <2>3 DEF Found
    <3>2. CASE i < k
      BY <1>1, <1>4, <3>1, <3>2, SlotFacts DEF Found
    <3>3. CASE i >= k
      <4>1. i # MaxPending - 1
        BY <1>2, <3>1, SlotFacts
      <4>2. i + 1 \in Slots /\ i + 1 > k /\ (i + 1) - 1 = i
        BY <1>1, <3>3, <4>1, SlotFacts, KrsmAssumption, TableAssumption
      <4>3. u[i + 1] = t[i]
        BY <1>1, <1>4, <4>2, SlotFacts
      <4>4. QED
        BY <3>1, <4>2, <4>3 DEF Found
    <3>4. QED
      BY <1>1, <3>2, <3>3, SlotFacts
  <2>4. QED
    BY <2>1, <2>2, <2>3
<1>13. QED
  BY <1>8, <1>9, <1>10, <1>11, <1>12 DEF GoodTable, u

-----------------------------------------------------------------------------
\* IInv is inductive: one step per action.
LEMMA KrsmStep ==
    ASSUME PockerUse, IInv, [Next]_vars
    PROVE  IInv'
<1>a. /\ GoodTable(table) /\ Tracking
      /\ unblock \in 0..NumReasons /\ stepping \in BOOLEAN
      /\ polled \subseteq Futures /\ waitsFor \in [Futures -> 0..NumReasons]
      /\ retired = {} /\ refused = FALSE /\ crowded \in BOOLEAN
  BY DEF IInv
<1>b. ~Shared /\ ~Filtering /\ NumReasons + 2 <= MaxPending
  BY DEF PockerUse
<1>c. 0 \notin Reasons /\ Reasons \subseteq 0..NumReasons
  BY KrsmAssumption, TableAssumption DEF Reasons
<1>d. \A f \in Futures : waitsFor[f] # 0 => waitsFor[f] \in Reasons
  BY <1>a, KrsmAssumption, TableAssumption DEF Reasons
<1>1. ASSUME NEW r \in Reasons, UnblockFutures(r)
      PROVE  IInv'
  <2>1. /\ GoodTable(table')
        /\ \A q \in Reasons : Found(table', q) <=> (Found(table, q) /\ q # r)
    BY <1>1, <1>a, RemoveGood DEF UnblockFutures
  <2>2. Tracking'
    BY <1>1, <1>a, <1>c, <2>1 DEF UnblockFutures, Tracking
  <2>3. QED
    BY <1>1, <1>a, <1>c, <2>1, <2>2 DEF UnblockFutures, IInv
<1>2. ASSUME NEW valid \in SUBSET Reasons, FilterValidFutures(valid)
      PROVE  IInv'
  BY <1>2, <1>b DEF FilterValidFutures
<1>3. CASE StartStep
  <2>1. Tracking'
    BY <1>3, <1>a DEF StartStep, Tracking, Found
  <2>2. QED
    BY <1>3, <1>a, <2>1 DEF StartStep, IInv, GoodTable
<1>4. CASE EndStep
  <2>1. \A f \in Futures : waitsFor[f] # 0 => waitsFor[f] # unblock
    BY <1>4, <1>a DEF EndStep, Tracking
  <2>2. Tracking'
    BY <1>4, <1>a, <1>c, <2>1 DEF EndStep, Tracking, Found
  <2>3. 0 \in 0..NumReasons
    BY KrsmAssumption, TableAssumption
  <2>4. GoodTable(table') /\ unblock' \in 0..NumReasons /\ stepping' \in BOOLEAN
    BY <1>4, <1>a, <2>3, Zenon DEF EndStep
  <2>5. QED
    BY <1>4, <1>a, <2>2, <2>4 DEF EndStep, IInv
<1>5. ASSUME NEW f \in Futures, Poll(f)
      PROVE  IInv'
  <2>1. CASE waitsFor[f] = unblock
    <3>1. waitsFor[f] \in Reasons /\ unblock \in Reasons
      BY <1>5, <1>d, <2>1 DEF Poll
    <3>2. /\ GoodTable(table')
          /\ \A q \in Reasons : Found(table', q) <=> (Found(table, q) /\ q # unblock)
      BY <1>5, <1>a, <2>1, <3>1, RemoveGood DEF Poll
    <3>3. waitsFor' = [waitsFor EXCEPT ![f] = 0] /\ unblock' = 0
      BY <1>5, <2>1 DEF Poll
    <3>4. \A q \in Reasons :
             (\E g \in Futures : waitsFor'[g] = q)
                <=> (q # unblock /\ \E g \in Futures : waitsFor[g] = q)
      BY <1>a, <1>c, <2>1, <3>1, <3>3 DEF Tracking
    <3>5. Tracking'
      <4>1. \A q \in Reasons : Found(table', q) <=>
               (q # unblock' /\ \E g \in Futures : waitsFor'[g] = q)
        BY <1>a, <1>c, <3>2, <3>3, <3>4 DEF Tracking
      <4>2. \A g, h \in Futures : waitsFor'[g] # 0 /\ waitsFor'[g] = waitsFor'[h] => g = h
        BY <1>a, <3>3 DEF Tracking
      <4>3. \A g \in polled' : stepping' /\ waitsFor'[g] # 0 => waitsFor'[g] # unblock'
        BY <3>3
      <4>4. QED
        BY <4>1, <4>2, <4>3 DEF Tracking
    <3>6. QED
      BY <1>5, <1>a, <1>c, <3>2, <3>3, <3>5, KrsmAssumption, TableAssumption DEF Poll, IInv
  <2>2. CASE waitsFor[f] # unblock
    <3>1. Tracking'
      BY <1>5, <1>a, <2>2 DEF Poll, Tracking, Found
    <3>2. QED
      BY <1>5, <1>a, <2>2, <3>1 DEF Poll, IInv, GoodTable
  <2>3. QED
    BY <2>1, <2>2
<1>6. ASSUME NEW f \in Futures, DropFuture(f)
      PROVE  IInv'
  <2>1. waitsFor[f] \in Reasons
    BY <1>6, <1>d DEF DropFuture
  <2>2. /\ GoodTable(table')
        /\ \A q \in Reasons : Found(table', q) <=> (Found(table, q) /\ q # waitsFor[f])
    BY <1>6, <1>a, <2>1, RemoveGood DEF DropFuture
  <2>3. waitsFor' = [waitsFor EXCEPT ![f] = 0]
        /\ UNCHANGED <<unblock, stepping, polled, retired, refused, crowded>>
    BY <1>6 DEF DropFuture
  <2>4. \A q \in Reasons :
           (\E g \in Futures : waitsFor'[g] = q)
              <=> (q # waitsFor[f] /\ \E g \in Futures : waitsFor[g] = q)
    BY <1>a, <1>c, <2>1, <2>3 DEF Tracking
  <2>5. Tracking'
    BY <1>a, <1>c, <2>2, <2>3, <2>4 DEF Tracking
  <2>6. QED
    BY <1>a, <2>2, <2>3, <2>5, KrsmAssumption, TableAssumption DEF IInv
<1>7. ASSUME NEW f \in Futures, NEW r \in Reasons, NewPendingFuture(f, r)
      PROVE  IInv'
  <2>1. ~Refuses(table, r)
    <3>1. Size(table) = MaxPending - 1
      BY <1>a, LastSlotsEmpty
    <3>2. QED
      BY <3>1, KrsmAssumption, TableAssumption DEF Refuses
  <2>2. \A g \in Futures : waitsFor[g] # r
    BY <1>7, <1>b DEF NewPendingFuture
  <2>3. ~Found(table, r)
    BY <1>a, <2>2 DEF Tracking
  <2>4. NumFutures > 0
    BY KrsmAssumption, TableAssumption DEF Futures
  <2>5. /\ GoodTable(Insert(table, r))
        /\ \A q \in Reasons : Found(Insert(table, r), q) <=> (Found(table, q) \/ q = r)
    BY <1>a, <2>3, <2>4, InsertGood
  <2>c. crowded' \in BOOLEAN
    <3>1. crowded' = (crowded \/ Crowded(table'))
      BY <1>7 DEF NewPendingFuture
    <3>2. QED
      BY <3>1
  <2>6. CASE unblock = r
    <3> DEFINE u == Insert(table, r)
    <3>1. /\ GoodTable(Remove(u, r))
          /\ \A q \in Reasons : Found(Remove(u, r), q) <=> (Found(u, q) /\ q # r)
      <4> HIDE DEF u
      <4>1. GoodTable(u)
        BY <2>5 DEF u
      <4>2. QED
        BY <4>1, RemoveGood
    <3>2. /\ table' = Remove(u, r) /\ unblock' = 0 /\ waitsFor' = waitsFor
          /\ polled' = polled \cup {f}
          /\ UNCHANGED <<refused, stepping, retired>>
      BY <1>7, <2>1, <2>6 DEF NewPendingFuture
    <3>3. GoodTable(table') /\ \A q \in Reasons : Found(table', q) <=> Found(table, q)
      BY <2>3, <2>5, <3>1, <3>2
    <3>4. Tracking'
      BY <1>a, <1>c, <2>2, <2>6, <3>2, <3>3 DEF Tracking
    <3>5. QED
      BY <1>a, <2>c, <3>2, <3>3, <3>4, KrsmAssumption, TableAssumption DEF IInv
  <2>7. CASE unblock # r
    <3>1. /\ table' = Insert(table, r) /\ waitsFor' = [waitsFor EXCEPT ![f] = r]
          /\ polled' = polled \cup {f} /\ waitsFor[f] = 0
          /\ UNCHANGED <<unblock, refused, stepping, retired>>
      BY <1>7, <2>1, <2>7 DEF NewPendingFuture
    <3>2. \A q \in Reasons :
             (\E g \in Futures : waitsFor'[g] = q)
                <=> (q = r \/ \E g \in Futures : waitsFor[g] = q)
      BY <1>a, <1>c, <3>1
    <3>3. Tracking'
      <4>1. \A q \in Reasons : Found(table', q) <=>
               (q # unblock' /\ \E g \in Futures : waitsFor'[g] = q)
        BY <1>a, <2>5, <2>7, <3>1, <3>2 DEF Tracking
      <4>2. \A g, h \in Futures : waitsFor'[g] # 0 /\ waitsFor'[g] = waitsFor'[h] => g = h
        BY <1>a, <2>2, <3>1 DEF Tracking
      <4>3. \A g \in polled' : stepping' /\ waitsFor'[g] # 0 => waitsFor'[g] # unblock'
        BY <1>a, <2>7, <3>1 DEF Tracking
      <4>4. QED
        BY <4>1, <4>2, <4>3 DEF Tracking
    <3>4. QED
      BY <1>a, <1>c, <2>5, <2>c, <3>1, <3>3, KrsmAssumption, TableAssumption DEF IInv
  <2>8. QED
    BY <2>6, <2>7
<1>8. CASE UNCHANGED vars
  BY <1>a, <1>8 DEF vars, IInv, GoodTable, Tracking, Found
<1>9. QED
  BY <1>1, <1>2, <1>3, <1>4, <1>5, <1>6, <1>7, <1>8 DEF Next

LEMMA KrsmInvariance == PockerUse => (Spec => []IInv)
<1> SUFFICES ASSUME PockerUse PROVE Spec => []IInv
  OBVIOUS
<1>1. Init => IInv
  <2> SUFFICES ASSUME Init PROVE IInv
    OBVIOUS
  <2>1. \A i \in Slots : table[i].reason = 0 /\ table[i].count = 0
    BY DEF Init, None
  <2>2. GoodTable(table)
    <3>1. table \in [Slots -> [reason : 0..NumReasons, count : 0..NumFutures]]
      BY KrsmAssumption, TableAssumption DEF Init, None
    <3>2. QED
      BY <2>1, <3>1 DEF GoodTable
  <2>3. Tracking
    <3>1. \A r \in Reasons : r # 0
      BY SlotFacts
    <3>2. QED
      BY <2>1, <3>1 DEF Init, Tracking, Found
  <2>4. unblock \in 0..NumReasons /\ waitsFor \in [Futures -> 0..NumReasons]
    BY KrsmAssumption, TableAssumption DEF Init
  <2>5. stepping \in BOOLEAN /\ polled \subseteq Futures /\ retired = {} /\ refused = FALSE /\ crowded \in BOOLEAN
    BY Zenon DEF Init
  <2>6. QED
    BY <2>2, <2>3, <2>4, <2>5 DEF IInv
<1>2. IInv /\ [Next]_vars => IInv'
  BY KrsmStep
<1>3. QED
  BY <1>1, <1>2, PTL DEF Spec

\* Used the way pocker uses it, the runtime keeps its table of pending reasons
\* sorted and compact whatever is registered, unblocked and dropped, so every
\* binary search of futures.rs runs on the order it expects; no registration is
\* refused.
THEOREM TableStaysSorted == PockerUse => (Spec => [](TypeOK /\ TableSorted /\ NeverRefused))
<1>1. ASSUME IInv PROVE TypeOK /\ TableSorted /\ NeverRefused
  <2>1. TypeOK
    BY <1>1, Zenon DEF IInv, GoodTable, TypeOK
  <2>2. TableSorted
    BY <1>1 DEF IInv, GoodTable, TableSorted
  <2>3. NeverRefused
    BY <1>1 DEF IInv, NeverRefused
  <2>4. QED
    BY <2>1, <2>2, <2>3
<1>2. QED
  BY <1>1, KrsmInvariance, PTL

\* What check_pending_reasons offers is what the binary search finds.
LEMMA PendingFound ==
    ASSUME PockerUse, IInv
    PROVE  /\ \A r \in Reasons : r \in PendingReasons(table) <=> Found(table, r)
           /\ PendingReasons(table) \subseteq Reasons
<1>1. Size(table) = MaxPending - 1 /\ table[MaxPending - 1].reason = 0
  BY LastSlotsEmpty DEF IInv
<1>2. \A i \in Slots : table[i].reason # 0 => i < Size(table)
  BY <1>1, SlotFacts, KrsmAssumption, TableAssumption
<1>3. \A r \in Reasons : r \in PendingReasons(table) <=> Found(table, r)
  BY <1>2, SlotFacts DEF PendingReasons, Found
<1>4. PendingReasons(table) \subseteq Reasons
  BY KrsmAssumption, TableAssumption DEF PendingReasons, IInv, GoodTable, Reasons
<1>5. QED
  BY <1>3, <1>4

\* Used the way pocker uses it, check_pending_reasons leaves nothing out: between
\* steps it offers every reason a future waits for.
THEOREM ListIsComplete == PockerUse => (Spec => []Listed)
<1> SUFFICES ASSUME PockerUse PROVE Spec => []Listed
  OBVIOUS
<1>1. ASSUME IInv PROVE Listed
  <2>1. \A f \in Futures : waitsFor[f] # 0 => waitsFor[f] \in Reasons
    BY <1>1, KrsmAssumption DEF IInv, Reasons
  <2>2. QED
    BY <1>1, <2>1, PendingFound, Zenon DEF IInv, Tracking, Listed
<1>2. QED
  BY <1>1, KrsmInvariance, PTL

\* Used the way pocker uses it, check_pending_reasons makes nothing up: it never
\* offers a reason that no future waits for.
THEOREM ListIsTrue == PockerUse => (Spec => []NoPhantom)
<1> SUFFICES ASSUME PockerUse PROVE Spec => []NoPhantom
  OBVIOUS
<1>1. ASSUME IInv PROVE NoPhantom
  BY <1>1, PendingFound, Zenon DEF IInv, Tracking, NoPhantom
<1>2. QED
  BY <1>1, KrsmInvariance, PTL

\* Used the way pocker uses it, no step throws away a response that a future
\* waits for: what unblock_futures hands in reaches its future in the next
\* run_async_step.
THEOREM ResponseReachesFuture == PockerUse => (Spec => DeliveredByEnd)
<1> DEFINE Kept == (stepping /\ ~stepping' /\ unblock # 0) =>
                      \A f \in Futures : waitsFor[f] # unblock
<1>1. ASSUME IInv, Next PROVE Kept
  <2> SUFFICES ASSUME stepping, ~stepping', unblock # 0
               PROVE  \A f \in Futures : waitsFor[f] # unblock
    BY DEF Kept
  <2>1. EndStep
    BY <1>1, Zenon DEF Next, UnblockFutures, FilterValidFutures, StartStep, Poll, DropFuture,
       NewPendingFuture
  <2>2. QED
    BY <1>1, <2>1 DEF EndStep, IInv, Tracking
<1>2. IInv /\ [Next]_vars => [Kept]_vars
  BY <1>1
<1>3. QED
  BY <1>2, KrsmInvariance, PTL DEF Spec, DeliveredByEnd

-----------------------------------------------------------------------------
(* The loop of binary_search_by. *)

\* Function f obeys the definition of a loop over the states S: where the loop is done
\* it has a value of its own, elsewhere the value of the next state.
Obeys(f, S, Done, next, value) ==
    f = [x \in S |-> IF x \in Done THEN value[x] ELSE f[next[x]]]

\* A loop as a recursive function: whatever its steps, there is a function that obeys
\* its definition.  From x it has the value of the ends that x leads to.
LEMMA LoopDefined ==
    ASSUME NEW S, NEW Done, NEW next \in [S -> S], NEW value
    PROVE  \E f : Obeys(f, S, Done, next, value)
<1> DEFINE Closed(C) == \A z \in C : z \notin Done => next[z] \in C
           Ends(x) == {y \in S \cap Done : \A C \in SUBSET S : x \in C /\ Closed(C) => y \in C}
           f == [x \in S |-> value[CHOOSE y : y \in Ends(x)]]
<1>1. ASSUME NEW x \in S, x \in Done PROVE (CHOOSE y : y \in Ends(x)) = x
  <2>1. {x} \in SUBSET S /\ x \in {x} /\ Closed({x})
    BY <1>1
  <2>2. \A y \in Ends(x) : y = x
    BY <2>1, Zenon
  <2>3. x \in Ends(x)
    BY <1>1
  <2> QED
    BY <2>2, <2>3, Zenon
<1>2. ASSUME NEW x \in S, x \notin Done PROVE Ends(x) = Ends(next[x])
  <2>1. ASSUME NEW y \in Ends(x), NEW C \in SUBSET S, next[x] \in C, Closed(C) PROVE y \in C
    <3>1. C \cup {x} \in SUBSET S /\ x \in C \cup {x} /\ Closed(C \cup {x})
      BY <2>1
    <3>2. y \in C \cup {x} /\ y \in Done
      BY <3>1, Zenon
    <3> QED
      BY <1>2, <3>2
  <2>2. ASSUME NEW y \in Ends(next[x]), NEW C \in SUBSET S, x \in C, Closed(C) PROVE y \in C
    BY <1>2, <2>2
  <2> QED
    BY <2>1, <2>2
<1>3. \A x \in S : f[x] = IF x \in Done THEN value[x] ELSE f[next[x]]
  <2> SUFFICES ASSUME NEW x \in S PROVE f[x] = IF x \in Done THEN value[x] ELSE f[next[x]]
    BY Zenon
  <2>1. f[x] = value[CHOOSE y : y \in Ends(x)]
    BY Zenon
  <2>2. f[next[x]] = value[CHOOSE y : y \in Ends(next[x])]
    BY Zenon
  <2> HIDE DEF Ends, f
  <2> QED
    BY <1>1, <1>2, <2>1, <2>2, Zenon
<1>4. f = [x \in S |-> f[x]]
  OBVIOUS
<1> HIDE DEF f
<1>5. Obeys(f, S, Done, next, value)
  BY <1>3, <1>4, Zenon DEF Obeys
<1> QED
  BY <1>5

\* A table in descending order, with repetitions or without.
Descending(t) ==
    /\ t \in [Slots -> [reason : 0..NumReasons, count : Nat]]
    /\ \A i, j \in Slots : i < j => t[i].reason >= t[j].reason

\* Slot b divides the table: reasons from r on are before it or in it, smaller ones
\* behind it.
Divides(t, r, b) ==
    /\ b \in Slots /\ (b = 0 \/ t[b].reason >= r)
    /\ b + 1 = MaxPending \/ t[b + 1].reason < r

\* The loop ends at a slot that divides the table, whatever its length.
LEMMA SearchDivides ==
    ASSUME NEW t, Descending(t), NEW r \in 0..NumReasons
    PROVE  \E b : /\ Divides(t, r, b)
                  /\ BinarySearch(t, r) =
                        IF t[b].reason = r THEN [ok |-> TRUE, index |-> b]
                        ELSE [ok |-> FALSE, index |-> IF t[b].reason > r THEN b + 1 ELSE b]
<1> DEFINE Half(w) == w.size \div 2
           Left(w) == [size |-> w.size - Half(w),
                       base |-> IF t[w.base + Half(w)].reason < r THEN w.base
                                ELSE w.base + Half(w)]
           search == CHOOSE f : f = [w \in Windows |-> IF w.size = 1 THEN w.base ELSE f[Left(w)]]
           start == [size |-> MaxPending, base |-> 0]
<1>1. \A w \in Windows : /\ w.size \in Nat /\ w.base \in Nat /\ w.size >= 1
                         /\ w.base + w.size <= MaxPending
                         /\ w = [size |-> w.size, base |-> w.base]
  BY TableAssumption DEF Windows, Slots
<1>2. \A w \in Windows : w.size # 1 =>
          /\ Half(w) \in Nat /\ Half(w) >= 1 /\ Half(w) + Half(w) <= w.size
          /\ w.base + Half(w) \in Slots /\ w.base + (w.size - Half(w)) \in Slots
          /\ Left(w) \in Windows /\ Left(w).size < w.size
  <2> SUFFICES ASSUME NEW w \in Windows, w.size # 1
               PROVE  /\ Half(w) \in Nat /\ Half(w) >= 1 /\ Half(w) + Half(w) <= w.size
                      /\ w.base + Half(w) \in Slots /\ w.base + (w.size - Half(w)) \in Slots
                      /\ Left(w) \in Windows /\ Left(w).size < w.size
    OBVIOUS
  <2>1. Half(w) \in Nat /\ Half(w) >= 1 /\ Half(w) + Half(w) <= w.size
    <3>1. w.size \in Nat /\ w.size >= 2
      BY <1>1
    <3>2. \A n \in Nat : n >= 2 => n \div 2 \in Nat /\ n \div 2 >= 1 /\ n \div 2 + n \div 2 <= n
      OBVIOUS
    <3> QED
      BY <3>1, <3>2, Zenon
  <2> HIDE DEF Half
  <2>2. w.base + Half(w) \in Slots /\ w.base + (w.size - Half(w)) \in Slots
    BY <1>1, <2>1, TableAssumption DEF Slots
  <2>3. Left(w).size \in 1..MaxPending /\ Left(w).size < w.size
    BY <1>1, <2>1, TableAssumption
  <2>4. Left(w).base \in Slots /\ Left(w).base + Left(w).size <= MaxPending
    BY <1>1, <2>1, <2>2, TableAssumption DEF Slots
  <2>5. Left(w) \in Windows
    BY <2>3, <2>4 DEF Windows
  <2> QED
    BY <2>1, <2>2, <2>3, <2>5
<1>3. search = [w \in Windows |-> IF w.size = 1 THEN w.base ELSE search[Left(w)]]
  <2> DEFINE next == [w \in Windows |-> IF w.size = 1 THEN w ELSE Left(w)]
             Done == {w \in Windows : w.size = 1}
             value == [w \in Windows |-> w.base]
  <2>1. next \in [Windows -> Windows]
    BY <1>2
  <2>2. \E f : Obeys(f, Windows, Done, next, value)
    <3> HIDE DEF next, Done, value
    <3> QED
      BY <2>1, LoopDefined, Zenon
  <2>3. PICK f : f = [w \in Windows |-> IF w \in Done THEN value[w] ELSE f[next[w]]]
    BY <2>2, Zenon DEF Obeys
  <2> HIDE DEF Left
  <2>4. f = [w \in Windows |-> IF w.size = 1 THEN w.base ELSE f[Left(w)]]
    BY <2>3
  <2> QED
    BY <2>4, Zenon
<1>4. BinarySearch(t, r) =
         LET base == search[start]
         IN IF t[base].reason = r THEN [ok |-> TRUE, index |-> base]
            ELSE [ok |-> FALSE, index |-> IF t[base].reason > r THEN base + 1 ELSE base]
  BY DEF BinarySearch
<1>5. \A w \in Windows : search[w] = IF w.size = 1 THEN w.base ELSE search[Left(w)]
  <2> HIDE DEF Left, search
  <2> QED
    BY <1>3
<1> HIDE DEF search
<1> DEFINE Inv(w) == /\ w.base = 0 \/ t[w.base].reason >= r
                     /\ w.base + w.size = MaxPending \/ t[w.base + w.size].reason < r
           Bad == {n \in Nat : \E w \in Windows : w.size = n /\ Inv(w) /\ ~Divides(t, r, search[w])}
<1>6. ASSUME NEW w \in Windows, w.size = 1, Inv(w) PROVE Divides(t, r, search[w])
  <2>1. search[w] = w.base /\ w.base \in Slots
    BY <1>5, <1>6, Zenon DEF Windows
  <2> QED
    BY <1>6, <2>1 DEF Divides
<1>7. ASSUME NEW w \in Windows, w.size # 1, Inv(w) PROVE Inv(Left(w))
  <2> DEFINE h == Half(w)
  <2>1. /\ h \in Nat /\ h >= 1 /\ h + h <= w.size /\ w.base \in Nat /\ w.size \in Nat
        /\ w.base + h \in Slots /\ w.base + (w.size - h) \in Slots
    BY <1>1, <1>2, <1>7, Zenon
  <2> HIDE DEF h
  <2>2. \A i \in Slots : t[i].reason \in Nat
    BY KrsmAssumption DEF Descending
  <2>3. CASE t[w.base + h].reason < r
    <3>1. Left(w).base = w.base /\ Left(w).size = w.size - h
      BY <2>3 DEF h
    <3>2. w.base + h = w.base + (w.size - h) \/ w.base + h < w.base + (w.size - h)
      BY <2>1
    <3>3. t[w.base + (w.size - h)].reason < r
      <4>1. t[w.base + (w.size - h)].reason <= t[w.base + h].reason
        BY <2>1, <2>2, <3>2 DEF Descending
      <4> QED
        BY <2>1, <2>2, <2>3, <4>1
    <3> QED
      BY <1>7, <3>1, <3>3, Zenon
  <2>4. CASE ~(t[w.base + h].reason < r)
    <3>1. Left(w).base = w.base + h /\ Left(w).size = w.size - h
      BY <2>4 DEF h
    <3>2. (w.base + h) + (w.size - h) = w.base + w.size
      BY <2>1
    <3>3. t[w.base + h].reason >= r
      BY <2>1, <2>2, <2>4
    <3> QED
      BY <1>7, <3>1, <3>2, <3>3
  <2> QED
    BY <2>3, <2>4, Zenon
<1>8. Bad = {}
  <2> SUFFICES ASSUME Bad # {} PROVE FALSE
    OBVIOUS
  <2>1. PICK n \in Bad : \A m \in Bad : n <= m
    BY LeastElement, Zenon
  <2>2. PICK w \in Windows : w.size = n /\ Inv(w) /\ ~Divides(t, r, search[w])
    BY <2>1
  <2>3. w.size # 1
    BY <1>6, <2>2
  <2>4. Left(w) \in Windows /\ Left(w).size \in Nat /\ Left(w).size < n
    BY <1>1, <1>2, <2>2, <2>3
  <2>5. Inv(Left(w)) /\ search[w] = search[Left(w)]
    BY <1>5, <1>7, <2>2, <2>3, Zenon
  <2> HIDE DEF Left, Inv
  <2>6. Left(w).size \in Bad
    BY <2>2, <2>4, <2>5
  <2> QED
    BY <2>1, <2>4, <2>6
<1>9. start \in Windows /\ Inv(start)
  BY TableAssumption DEF Windows, Slots
<1>10. Divides(t, r, search[start])
  <2>1. start.size \in Nat
    BY <1>1, <1>9
  <2> QED
    BY <1>8, <1>9, <2>1
<1> QED
  BY <1>4, <1>10, Zenon

\* On a descending table the loop returns what the model takes its result to be.
LEMMA SearchRight ==
    ASSUME NEW t, Descending(t)
    PROVE  /\ BinarySearch(t, 0).index = Size(t)
           /\ \A r \in Reasons :
                 /\ BinarySearch(t, r) =
                       IF Found(t, r) THEN [ok |-> TRUE, index |-> IndexOf(t, r)]
                                      ELSE [ok |-> FALSE, index |-> InsertIndex(t, r)]
                 /\ Found(t, r) => IndexOf(t, r) \in Slots
                 /\ ~Found(t, r) => /\ InsertIndex(t, r) \in 0..MaxPending
                                    /\ \A i \in Slots : /\ i < InsertIndex(t, r) => t[i].reason > r
                                                        /\ i >= InsertIndex(t, r) => t[i].reason < r
<1>a. \A i \in Slots : i \in Nat /\ i < MaxPending /\ t[i].reason \in Nat
  BY KrsmAssumption, TableAssumption DEF Slots, Descending
<1>b. \A i \in Nat : i < MaxPending => i \in Slots
  BY TableAssumption DEF Slots
<1>c. MaxPending \in Nat /\ MaxPending > 0
  BY TableAssumption
<1>1. BinarySearch(t, 0).index = Size(t)
  <2>1. 0 \in 0..NumReasons
    BY KrsmAssumption
  <2>2. PICK b : /\ Divides(t, 0, b)
                 /\ BinarySearch(t, 0) =
                       IF t[b].reason = 0 THEN [ok |-> TRUE, index |-> b]
                       ELSE [ok |-> FALSE, index |-> IF t[b].reason > 0 THEN b + 1 ELSE b]
    BY <2>1, SearchDivides
  <2>3. b = MaxPending - 1 /\ b \in Slots
    BY <1>a, <1>b, <1>c, <2>2 DEF Divides
  <2>4. CASE t[b].reason = 0
    BY <2>2, <2>3, <2>4 DEF Size
  <2>5. CASE t[b].reason # 0
    <3>1. t[b].reason > 0 /\ b + 1 = MaxPending
      BY <1>a, <1>c, <2>3, <2>5
    <3> QED
      BY <2>2, <2>3, <2>5, <3>1 DEF Size
  <2> QED
    BY <2>4, <2>5
<1>2. ASSUME NEW r \in Reasons
      PROVE  /\ BinarySearch(t, r) =
                   IF Found(t, r) THEN [ok |-> TRUE, index |-> IndexOf(t, r)]
                                  ELSE [ok |-> FALSE, index |-> InsertIndex(t, r)]
             /\ Found(t, r) => IndexOf(t, r) \in Slots
             /\ ~Found(t, r) => /\ InsertIndex(t, r) \in 0..MaxPending
                                /\ \A i \in Slots : /\ i < InsertIndex(t, r) => t[i].reason > r
                                                    /\ i >= InsertIndex(t, r) => t[i].reason < r
  <2>1. r \in 0..NumReasons /\ r \in Nat /\ r > 0
    BY KrsmAssumption DEF Reasons
  <2>2. PICK b : /\ Divides(t, r, b)
                 /\ BinarySearch(t, r) =
                       IF t[b].reason = r THEN [ok |-> TRUE, index |-> b]
                       ELSE [ok |-> FALSE, index |-> IF t[b].reason > r THEN b + 1 ELSE b]
    BY <2>1, SearchDivides
  <2>3. /\ b \in Slots /\ (b = 0 \/ t[b].reason >= r)
        /\ b + 1 = MaxPending \/ t[b + 1].reason < r
    BY <2>2 DEF Divides
  <2>4. \A i \in Slots : i < b => t[i].reason >= t[b].reason
    BY <2>3 DEF Descending
  <2>5. \A i \in Slots : i > b => t[i].reason < r
    <3> SUFFICES ASSUME NEW i \in Slots, i > b PROVE t[i].reason < r
      OBVIOUS
    <3>1. b + 1 \in Slots /\ t[b + 1].reason < r /\ (i = b + 1 \/ b + 1 < i)
      BY <1>a, <1>b, <1>c, <2>3
    <3>2. b + 1 < i => t[b + 1].reason >= t[i].reason
      BY <3>1 DEF Descending
    <3> QED
      BY <1>a, <2>1, <3>1, <3>2
  <2>6. CASE t[b].reason = r
    <3> DEFINE Last(i) == t[i].reason = r /\ (i + 1 \in Slots => t[i + 1].reason < r)
    <3>1. Found(t, r) /\ Last(b)
      BY <1>a, <2>3, <2>5, <2>6 DEF Found
    <3>2. IndexOf(t, r) \in Slots /\ Last(IndexOf(t, r))
      BY <2>3, <3>1 DEF IndexOf
    <3>3. \A i \in Slots : Last(i) => i = b
      <4> SUFFICES ASSUME NEW i \in Slots, Last(i), i # b PROVE FALSE
        OBVIOUS
      <4>1. i < b
        BY <1>a, <2>1, <2>3, <2>5
      <4>2. i + 1 \in Slots /\ (i + 1 = b \/ i + 1 < b)
        BY <1>a, <1>b, <1>c, <2>3, <4>1
      <4>3. t[i + 1].reason < r
        BY <4>2
      <4>4. t[i + 1].reason >= r
        BY <1>a, <2>1, <2>4, <2>6, <4>2
      <4> QED
        BY <1>a, <2>1, <4>2, <4>3, <4>4
    <3>4. IndexOf(t, r) = b
      BY <3>2, <3>3
    <3> QED
      BY <2>2, <2>3, <2>6, <3>1, <3>4
  <2>7. CASE t[b].reason # r
    <3> DEFINE c == IF t[b].reason > r THEN b + 1 ELSE b
               Place(i) == /\ i > 0 => t[i - 1].reason > r
                           /\ i < MaxPending => t[i].reason < r
    <3>1. c \in 0..MaxPending
      BY <1>a, <1>c, <2>3
    <3>2. \A i \in Slots : (i < c => t[i].reason > r) /\ (i >= c => t[i].reason < r)
      <4>1. CASE t[b].reason > r
        BY <1>a, <2>1, <2>3, <2>4, <2>5, <4>1
      <4>2. CASE t[b].reason < r
        BY <1>a, <2>1, <2>3, <2>5, <4>2
      <4> QED
        BY <1>a, <2>1, <2>3, <2>7, <4>1, <4>2
    <3> HIDE DEF c
    <3>3. ~Found(t, r)
      BY <1>a, <2>1, <3>1, <3>2 DEF Found
    <3>4. Place(c)
      BY <1>b, <1>c, <3>1, <3>2
    <3>5. InsertIndex(t, r) \in 0..MaxPending /\ Place(InsertIndex(t, r))
      BY <3>1, <3>4 DEF InsertIndex
    <3>6. ASSUME NEW i \in 0..MaxPending, Place(i) PROVE i = c
      <4>1. ~(i < c)
        <5> SUFFICES ASSUME i < c PROVE FALSE
          OBVIOUS
        <5>1. i \in Slots /\ t[i].reason < r
          BY <1>b, <1>c, <3>1, <3>6
        <5> QED
          BY <1>a, <2>1, <3>2, <5>1
      <4>2. ~(i > c)
        <5> SUFFICES ASSUME i > c PROVE FALSE
          OBVIOUS
        <5>1. i - 1 \in Slots /\ i - 1 >= c /\ t[i - 1].reason > r
          BY <1>b, <1>c, <3>1, <3>6
        <5> QED
          BY <1>a, <2>1, <3>2, <5>1
      <4> QED
        BY <1>c, <3>1, <4>1, <4>2
    <3>7. InsertIndex(t, r) = c
      BY <3>5, <3>6
    <3> QED
      BY <2>2, <2>7, <3>1, <3>2, <3>3, <3>7 DEF c
  <2> QED
    BY <2>6, <2>7
<1> QED
  BY <1>1, <1>2

\* Removing and adding a reason keep the order, however full the table is.
LEMMA RemoveDescending ==
    ASSUME NEW t, Descending(t), NEW r \in Reasons
    PROVE  Descending(Remove(t, r))
<1>a. \A i \in Slots : i \in Nat /\ i < MaxPending /\ t[i].reason \in Nat /\ t[i].count \in Nat
  BY KrsmAssumption, TableAssumption DEF Slots, Descending
<1> DEFINE k == IndexOf(t, r)
<1>1. CASE ~Found(t, r)
  BY <1>1 DEF Remove
<1>2. CASE Found(t, r) /\ t[k].count > 1
  <2>1. k \in Slots
    BY <1>2, SearchRight
  <2> DEFINE u == Remove(t, r)
  <2>2. u = [t EXCEPT ![k].count = @ - 1]
    BY <1>2 DEF Remove
  <2> HIDE DEF k, u
  <2>3. t[k].count - 1 \in Nat
    BY <1>2, <1>a, <2>1
  <2>4. u \in [Slots -> [reason : 0..NumReasons, count : Nat]]
    BY <2>1, <2>2, <2>3 DEF Descending
  <2>5. \A i \in Slots : u[i].reason = t[i].reason
    BY <2>1, <2>2 DEF Descending
  <2> QED
    BY <2>4, <2>5 DEF Descending, u
<1>3. CASE Found(t, r) /\ ~(t[k].count > 1)
  <2>1. k \in Slots
    BY <1>3, SearchRight
  <2> DEFINE u == Remove(t, r)
             From(i) == IF i >= k /\ i + 1 < Size(t) THEN i + 1 ELSE i
  <2>2. Size(t) \in Nat /\ Size(t) <= MaxPending
    BY TableAssumption DEF Size
  <2>3. u = [i \in Slots |-> IF i >= k /\ i + 1 < Size(t) THEN t[i + 1] ELSE t[i]]
    BY <1>3 DEF Remove
  <2> HIDE DEF k, u
  <2>4. \A i \in Slots : From(i) \in Slots
    BY <1>a, <2>1, <2>2, TableAssumption DEF Slots
  <2>5. \A i \in Slots : u[i] = t[From(i)]
    BY <2>3
  <2>6. \A i, j \in Slots : i < j => From(i) = From(j) \/ From(i) < From(j)
    BY <1>a, <2>1, <2>2
  <2> HIDE DEF From
  <2>7. u \in [Slots -> [reason : 0..NumReasons, count : Nat]]
    <3>1. \A i \in Slots : u[i] \in [reason : 0..NumReasons, count : Nat]
      BY <2>4, <2>5 DEF Descending
    <3> QED
      BY <2>3, <3>1
  <2>8. \A i, j \in Slots : i < j => u[i].reason >= u[j].reason
    BY <1>a, <2>4, <2>5, <2>6 DEF Descending
  <2> QED
    BY <2>7, <2>8 DEF Descending, u
<1> QED
  BY <1>1, <1>2, <1>3

LEMMA InsertDescending ==
    ASSUME NEW t, Descending(t), NEW r \in Reasons, ~Refuses(t, r)
    PROVE  Descending(Insert(t, r))
<1>a. \A i \in Slots : i \in Nat /\ i < MaxPending /\ t[i].reason \in Nat /\ t[i].count \in Nat
  BY KrsmAssumption, TableAssumption DEF Slots, Descending
<1>b. r \in 0..NumReasons /\ r \in Nat
  BY KrsmAssumption DEF Reasons
<1> DEFINE u == Insert(t, r)
<1>1. CASE Found(t, r)
  <2> DEFINE k == IndexOf(t, r)
  <2>1. k \in Slots
    BY <1>1, SearchRight
  <2>2. u = [t EXCEPT ![k].count = @ + 1]
    BY <1>1 DEF Insert
  <2> HIDE DEF k, u
  <2>3. t[k].count + 1 \in Nat
    BY <1>a, <2>1
  <2>4. u \in [Slots -> [reason : 0..NumReasons, count : Nat]]
    BY <2>1, <2>2, <2>3 DEF Descending
  <2>5. \A i \in Slots : u[i].reason = t[i].reason
    BY <2>1, <2>2 DEF Descending
  <2> QED
    BY <2>4, <2>5 DEF Descending, u
<1>2. CASE ~Found(t, r)
  <2> DEFINE k == InsertIndex(t, r)
             new == [reason |-> r, count |-> 1]
  <2>1. /\ k \in 0..MaxPending
        /\ \A i \in Slots : (i < k => t[i].reason > r) /\ (i >= k => t[i].reason < r)
    BY <1>2, SearchRight
  <2>2. Size(t) = MaxPending - 1
    BY <1>2 DEF Refuses, Size
  <2>3. u = [i \in Slots |-> IF i = k THEN new
                            ELSE IF i > k /\ i <= Size(t) THEN t[i - 1] ELSE t[i]]
    BY <1>2 DEF Insert
  <2> HIDE DEF k, u
  <2>4. \A i \in Slots : /\ i = k => u[i] = new
                         /\ i > k => i - 1 \in Slots /\ u[i] = t[i - 1]
                         /\ i < k => u[i] = t[i]
    BY <1>a, <2>1, <2>2, <2>3, TableAssumption DEF Slots
  <2>5. u \in [Slots -> [reason : 0..NumReasons, count : Nat]]
    <3>1. \A i \in Slots : u[i] \in [reason : 0..NumReasons, count : Nat]
      BY <1>a, <1>b, <2>1, <2>4 DEF Descending
    <3> QED
      BY <2>3, <3>1
  <2>6. ASSUME NEW i \in Slots, NEW j \in Slots, i < j PROVE u[i].reason >= u[j].reason
    <3>1. CASE j < k
      BY <1>a, <2>1, <2>4, <2>6, <3>1 DEF Descending
    <3>2. CASE j = k
      BY <1>a, <1>b, <2>1, <2>4, <2>6, <3>2
    <3>3. CASE j > k /\ i <= k
      <4>1. j - 1 \in Slots /\ j - 1 >= k /\ u[j] = t[j - 1]
        BY <1>a, <2>1, <2>4, <3>3
      <4>2. t[j - 1].reason < r /\ t[j - 1].reason \in Nat
        BY <1>a, <2>1, <4>1
      <4>3. u[i].reason >= r /\ u[i].reason \in Nat
        BY <1>a, <1>b, <2>1, <2>4, <3>3
      <4> QED
        BY <1>b, <4>1, <4>2, <4>3
    <3>4. CASE i > k
      <4>1. /\ i - 1 \in Slots /\ j - 1 \in Slots /\ i - 1 < j - 1
            /\ u[i] = t[i - 1] /\ u[j] = t[j - 1]
        BY <1>a, <2>1, <2>4, <2>6, <3>4
      <4> QED
        BY <4>1 DEF Descending
    <3> QED
      BY <1>a, <2>1, <3>1, <3>2, <3>3, <3>4
  <2> QED
    BY <2>5, <2>6 DEF Descending, u
<1> QED
  BY <1>1, <1>2

\* Without filter_valid_futures, for any number of reasons, futures and slots, reasons
\* shared or not, the table crowded or not: the loop of binary_search_by answers as the
\* model has it.  (new_pending_future, _remove_pending_future, _pending_futures_size)
THEOREM SearchIsRight == ~Filtering => (Spec => []SearchAgrees)
<1> SUFFICES ASSUME ~Filtering PROVE Spec => []SearchAgrees
  OBVIOUS
<1> DEFINE DInv == /\ Descending(table) /\ unblock \in 0..NumReasons
                   /\ waitsFor \in [Futures -> 0..NumReasons]
<1>a. \A r \in 0..NumReasons : r # 0 => r \in Reasons
  BY KrsmAssumption DEF Reasons
<1>b. \A r \in Reasons : r \in 0..NumReasons
  BY KrsmAssumption DEF Reasons
<1>1. Init => DInv
  BY KrsmAssumption DEF Init, Descending, None
<1>2. DInv /\ [Next]_vars => DInv'
  <2> SUFFICES ASSUME DInv, [Next]_vars PROVE DInv'
    OBVIOUS
  <2>1. CASE UNCHANGED vars \/ StartStep \/ EndStep
    BY <2>1, KrsmAssumption DEF vars, StartStep, EndStep
  <2>2. ASSUME NEW r \in Reasons, UnblockFutures(r) PROVE DInv'
    BY <1>b, <2>2, RemoveDescending DEF UnblockFutures
  <2>3. ASSUME NEW f \in Futures, Poll(f) PROVE DInv'
    <3>1. CASE waitsFor[f] = unblock
      <4>1. unblock \in Reasons
        BY <1>a, <2>3, <3>1 DEF Poll
      <4>2. /\ table' = Remove(table, unblock) /\ unblock' = 0
            /\ waitsFor' = [waitsFor EXCEPT ![f] = 0]
        BY <2>3, <3>1 DEF Poll
      <4> QED
        BY <4>1, <4>2, RemoveDescending, KrsmAssumption
    <3>2. CASE waitsFor[f] # unblock
      BY <2>3, <3>2 DEF Poll
    <3> QED
      BY <3>1, <3>2
  <2>4. ASSUME NEW f \in Futures, DropFuture(f) PROVE DInv'
    <3>1. waitsFor[f] \in Reasons
      BY <1>a, <2>4 DEF DropFuture
    <3> QED
      BY <2>4, <3>1, RemoveDescending, KrsmAssumption DEF DropFuture
  <2>5. ASSUME NEW f \in Futures, NEW r \in Reasons, NewPendingFuture(f, r) PROVE DInv'
    <3>1. CASE Refuses(table, r)
      BY <2>5, <3>1 DEF NewPendingFuture
    <3>2. CASE ~Refuses(table, r)
      <4>1. Descending(Insert(table, r)) /\ Descending(Remove(Insert(table, r), r))
        BY <3>2, InsertDescending, RemoveDescending
      <4>2. table' \in {Insert(table, r), Remove(Insert(table, r), r)}
        BY <2>5, <3>2 DEF NewPendingFuture
      <4>3. unblock' \in 0..NumReasons /\ waitsFor' \in [Futures -> 0..NumReasons]
        BY <1>b, <2>5, KrsmAssumption DEF NewPendingFuture
      <4> QED
        BY <4>1, <4>2, <4>3
    <3> QED
      BY <3>1, <3>2
  <2> QED
    BY <2>1, <2>2, <2>3, <2>4, <2>5 DEF Next, FilterValidFutures
<1>3. DInv => SearchAgrees
  BY SearchRight DEF SearchAgrees
<1> QED
  BY <1>1, <1>2, <1>3, PTL DEF Spec
=============================================================================
