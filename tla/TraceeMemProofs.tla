--------------------------- MODULE TraceeMemProofs ---------------------------
(***************************************************************************)
(* Proofs about TraceeMem for every word size, safe zone, stack pointer,   *)
(* set of appended strings and buffer size: appends do not overlap, and    *)
(* stay out of what belongs to the guest; both helpers read the same.      *)
(***************************************************************************)
EXTENDS TraceeMem, WellFoundedInduction, TLAPS

Bytes == 0..255
Item == [addr : Nat, bytes : Seq(Bytes)]

TypeOK ==
    /\ helpers \in {"slow", "direct"}
    /\ mem \in [Addresses -> Bytes] /\ guestMem \in [Addresses -> Bytes]
    /\ offset \in Nat
    /\ placed \in Seq(Item)

\* The strings lie between the limit of the helpers and the offset: those of
\* mem_slow.rs above it, as its stack grows down, those of mem_direct.rs below.
Bounded ==
    \A k \in 1..Len(placed) :
        LET first == placed[k].addr
            end == placed[k].addr + Len(placed[k].bytes)
        IN IF helpers = "slow" THEN Sp - SafeZone - offset <= first /\ end <= Sp - SafeZone
                               ELSE Region <= first /\ end <= Region + offset

InZone == helpers = "direct" => offset <= SafeZone

IInv == TypeOK /\ Bounded /\ InZone /\ PlacedIntact /\ GuestUntouched

-----------------------------------------------------------------------------
\* A padded string is longer than the string and begins with it.
\* (bytes_to_usizes)
LEMMA PaddedFacts ==
    ASSUME NEW bytes \in Seq(Bytes)
    PROVE  /\ Padded(bytes) \in Seq(Bytes)
           /\ Len(Padded(bytes)) \in Nat /\ Len(Padded(bytes)) > Len(bytes)
           /\ DOMAIN Padded(bytes) = 1..Len(Padded(bytes))
           /\ \A i \in 1..Len(bytes) : Padded(bytes)[i] = bytes[i]
<1> DEFINE n == Len(bytes)
           size == (n \div Word + 1) * Word
<1>1. n \in Nat /\ Word \in Nat /\ Word > 0
  BY TraceeMemAssumption
<1>2. n \div Word \in Nat /\ n < (n \div Word + 1) * Word
  BY <1>1
<1>3. size \in Nat /\ size > n
  BY <1>1, <1>2
<1> HIDE DEF size
<1>4. Padded(bytes) = [i \in 1..size |-> IF i <= n THEN bytes[i] ELSE 0]
  BY DEF Padded, size
<1>5. \A i \in 1..size : i <= n => bytes[i] \in Bytes
  BY <1>1
<1>6. Padded(bytes) \in [1..size -> Bytes]
  BY <1>4, <1>5 DEF Bytes
<1>7. Padded(bytes) \in Seq(Bytes) /\ Len(Padded(bytes)) = size
  BY <1>3, <1>6
<1>8. \A i \in 1..n : Padded(bytes)[i] = bytes[i]
  BY <1>1, <1>3, <1>4
<1> QED
  BY <1>3, <1>6, <1>7, <1>8

\* What a write changes, and what it leaves.
LEMMA WrittenFacts ==
    ASSUME TypeOK, NEW a \in Nat, NEW words \in Seq(Bytes), a + Len(words) <= MemSize
    PROVE  /\ Written(a, words) \in [Addresses -> Bytes]
           /\ \A i \in 1..Len(words) : Written(a, words)[a + i - 1] = words[i]
           /\ \A b \in Addresses : b < a \/ b >= a + Len(words) =>
                 Written(a, words)[b] = mem[b]
<1>1. MemSize \in Nat /\ Len(words) \in Nat /\ DOMAIN words = 1..Len(words)
  BY TraceeMemAssumption
<1>2. \A i \in 1..Len(words) : words[i] \in Bytes
  OBVIOUS
<1>3. \A b \in Addresses :
         Written(a, words)[b] = IF b - a + 1 \in 1..Len(words) THEN words[b - a + 1] ELSE mem[b]
  BY <1>1 DEF Written
<1>4. Written(a, words) \in [Addresses -> Bytes]
  BY <1>1, <1>2 DEF Written, TypeOK
<1>5. \A i \in 1..Len(words) : Written(a, words)[a + i - 1] = words[i]
  <2> TAKE i \in 1..Len(words)
  <2>1. a + i - 1 \in Addresses /\ (a + i - 1) - a + 1 = i
    BY <1>1 DEF Addresses
  <2> QED
    BY <1>3, <2>1
<1>6. \A b \in Addresses : b < a \/ b >= a + Len(words) => Written(a, words)[b] = mem[b]
  BY <1>1, <1>3 DEF Addresses
<1> QED
  BY <1>4, <1>5, <1>6

\* A write of words that begin with bytes, next to the strings placed before.
AppendAt(bytes, words, start) ==
    /\ Len(bytes) <= Len(words) /\ \A i \in 1..Len(bytes) : words[i] = bytes[i]
    /\ start + Len(words) <= MemSize
    /\ helpers = "slow" => start + Len(words) = Sp - SafeZone - offset
    /\ helpers = "direct" => start = Region + offset /\ offset + Len(words) <= SafeZone
    /\ mem' = Written(start, words) /\ offset' = offset + Len(words)
    /\ placed' = Append(placed, [addr |-> start, bytes |-> bytes])
    /\ UNCHANGED <<helpers, guestMem>>

\* Such an append keeps the invariant.
LEMMA AppendStep ==
    ASSUME IInv, NEW bytes \in Seq(Bytes), NEW words \in Seq(Bytes), NEW start \in Nat,
           AppendAt(bytes, words, start)
    PROVE  IInv'
<1>1. /\ SafeZone \in Nat /\ Sp \in Nat /\ Region \in Nat /\ MemSize \in Nat
      /\ SafeZone <= Sp /\ Sp <= MemSize /\ Region + SafeZone <= MemSize
  BY TraceeMemAssumption
<1>2. TypeOK /\ Bounded /\ InZone /\ PlacedIntact /\ GuestUntouched
  BY DEF IInv
<1>3. /\ offset \in Nat /\ Len(words) \in Nat /\ Len(bytes) \in Nat /\ Len(placed) \in Nat
      /\ placed \in Seq(Item) /\ helpers \in {"slow", "direct"}
  BY <1>2 DEF TypeOK
<1>a. /\ Len(bytes) <= Len(words) /\ start + Len(words) <= MemSize
      /\ helpers = "slow" => start + Len(words) = Sp - SafeZone - offset
      /\ helpers = "direct" => start = Region + offset /\ offset + Len(words) <= SafeZone
      /\ offset' = offset + Len(words) /\ helpers' = helpers /\ guestMem' = guestMem
  BY DEF AppendAt
<1>4. /\ mem' \in [Addresses -> Bytes]
      /\ \A i \in 1..Len(words) : mem'[start + i - 1] = words[i]
      /\ \A b \in Addresses : b < start \/ b >= start + Len(words) => mem'[b] = mem[b]
  <2>1. mem' = Written(start, words)
    BY DEF AppendAt
  <2> QED
    BY <1>2, <1>a, <2>1, WrittenFacts
<1> DEFINE item == [addr |-> start, bytes |-> bytes]
<1>5. item \in Item /\ item.addr = start /\ item.bytes = bytes /\ placed' = Append(placed, item)
  BY DEF Item, AppendAt
<1> HIDE DEF item
<1>6. /\ Len(placed') = Len(placed) + 1 /\ placed' \in Seq(Item)
      /\ placed'[Len(placed) + 1] = item
      /\ \A k \in 1..Len(placed) : placed'[k] = placed[k]
  BY <1>3, <1>5
<1>7. \A k \in 1..Len(placed') : k \in 1..Len(placed) \/ k = Len(placed) + 1
  BY <1>3, <1>6
<1>8. TypeOK'
  BY <1>2, <1>3, <1>a, <1>4, <1>6 DEF TypeOK
<1>9. ASSUME NEW k \in 1..Len(placed)
      PROVE  /\ placed'[k] = placed[k] /\ placed[k].addr \in Nat /\ Len(placed[k].bytes) \in Nat
             /\ helpers = "slow" =>
                   /\ start + Len(words) <= placed[k].addr
                   /\ placed[k].addr + Len(placed[k].bytes) <= Sp - SafeZone
             /\ helpers = "direct" =>
                   /\ Region <= placed[k].addr
                   /\ placed[k].addr + Len(placed[k].bytes) <= start
  <2>1. placed[k] \in Item
    BY <1>3
  <2>2. placed[k].addr \in Nat /\ placed[k].bytes \in Seq(Bytes)
    BY <2>1 DEF Item
  <2>3. Len(placed[k].bytes) \in Nat
    BY <2>2
  <2>4. IF helpers = "slow"
        THEN Sp - SafeZone - offset <= placed[k].addr
             /\ placed[k].addr + Len(placed[k].bytes) <= Sp - SafeZone
        ELSE Region <= placed[k].addr
             /\ placed[k].addr + Len(placed[k].bytes) <= Region + offset
    BY <1>2 DEF Bounded
  <2>5. helpers = "slow" => start + Len(words) <= placed[k].addr
    BY <1>a, <2>4
  <2>6. helpers = "direct" => placed[k].addr + Len(placed[k].bytes) <= start
    BY <1>a, <2>4
  <2> QED
    BY <1>6, <2>2, <2>3, <2>4, <2>5, <2>6
<1>10. Bounded'
  <2> SUFFICES ASSUME NEW k \in 1..Len(placed')
               PROVE  IF helpers = "slow"
                      THEN /\ Sp - SafeZone - offset' <= placed'[k].addr
                           /\ placed'[k].addr + Len(placed'[k].bytes) <= Sp - SafeZone
                      ELSE /\ Region <= placed'[k].addr
                           /\ placed'[k].addr + Len(placed'[k].bytes) <= Region + offset'
    BY <1>a DEF Bounded
  <2>1. CASE k \in 1..Len(placed)
    <3> DEFINE first == placed[k].addr
               len == Len(placed[k].bytes)
    <3>1. first \in Nat /\ len \in Nat /\ placed'[k] = placed[k]
      BY <1>9, <2>1
    <3>2. /\ helpers = "slow" => start + Len(words) <= first /\ first + len <= Sp - SafeZone
          /\ helpers = "direct" => Region <= first /\ first + len <= start
      BY <1>9, <2>1
    <3> SUFFICES IF helpers = "slow"
                 THEN Sp - SafeZone - offset' <= first /\ first + len <= Sp - SafeZone
                 ELSE Region <= first /\ first + len <= Region + offset'
      BY <3>1
    <3> HIDE DEF first, len
    <3>3. CASE helpers = "slow"
      BY <1>1, <1>3, <1>a, <3>1, <3>2, <3>3
    <3>4. CASE helpers = "direct"
      BY <1>1, <1>3, <1>a, <3>1, <3>2, <3>4
    <3> QED
      BY <1>3, <3>3, <3>4
  <2>2. CASE k = Len(placed) + 1
    <3>1. placed'[k].addr = start /\ placed'[k].bytes = bytes
      BY <1>5, <1>6, <2>2
    <3>2. IF helpers = "slow"
          THEN Sp - SafeZone - offset' <= start /\ start + Len(bytes) <= Sp - SafeZone
          ELSE Region <= start /\ start + Len(bytes) <= Region + offset'
      BY <1>1, <1>3, <1>a
    <3> QED
      BY <3>1, <3>2
  <2> QED
    BY <1>7, <2>1, <2>2
<1>11. InZone'
  BY <1>3, <1>a DEF InZone
<1>12. PlacedIntact'
  <2> SUFFICES ASSUME NEW k \in 1..Len(placed'), NEW i \in 1..Len(placed'[k].bytes)
               PROVE  mem'[placed'[k].addr + i - 1] = placed'[k].bytes[i]
    BY DEF PlacedIntact
  <2>1. CASE k \in 1..Len(placed)
    <3> DEFINE first == placed[k].addr
               len == Len(placed[k].bytes)
               b == first + i - 1
    <3>1. first \in Nat /\ len \in Nat /\ i \in 1..len /\ placed'[k] = placed[k]
      BY <1>9, <2>1
    <3>2. /\ helpers = "slow" => start + Len(words) <= first /\ first + len <= Sp - SafeZone
          /\ helpers = "direct" => Region <= first /\ first + len <= start
      BY <1>9, <2>1
    <3>3. mem[b] = placed[k].bytes[i]
      BY <1>2, <2>1, <3>1 DEF PlacedIntact
    <3>4. b \in Addresses /\ (b < start \/ b >= start + Len(words))
      <4> HIDE DEF first, len
      <4> QED
        BY <1>1, <1>3, <1>a, <3>1, <3>2 DEF Addresses
    <3>5. mem'[b] = mem[b]
      BY <1>4, <3>4
    <3> QED
      BY <3>1, <3>3, <3>5
  <2>2. CASE k = Len(placed) + 1
    <3>1. placed'[k].addr = start /\ placed'[k].bytes = bytes /\ i \in 1..Len(bytes)
      BY <1>5, <1>6, <2>2
    <3>2. i \in 1..Len(words) /\ words[i] = bytes[i]
      BY <1>3, <1>a, <3>1 DEF AppendAt
    <3> QED
      BY <1>4, <3>1, <3>2
  <2> QED
    BY <1>7, <2>1, <2>2
<1>13. GuestUntouched'
  <2> SUFFICES ASSUME NEW a \in Addresses, mem'[a] # guestMem[a]
               PROVE  IF helpers = "slow" THEN a < Sp - SafeZone
                                          ELSE a \in Region..(Region + SafeZone - 1)
    BY <1>a DEF GuestUntouched
  <2>1. a \in Int
    BY DEF Addresses
  <2>2. CASE a < start \/ a >= start + Len(words)
    BY <1>2, <1>4, <2>2 DEF GuestUntouched
  <2>3. CASE a >= start /\ a < start + Len(words)
    BY <1>1, <1>3, <1>a, <2>1, <2>3
  <2> QED
    BY <1>3, <2>1, <2>2, <2>3
<1> QED
  BY <1>8, <1>10, <1>11, <1>12, <1>13 DEF IInv

-----------------------------------------------------------------------------
LEMMA InitIInv == Init => IInv
<1> SUFFICES ASSUME Init PROVE IInv
  OBVIOUS
<1>1. Region \in Nat /\ SafeZone \in Nat /\ MemSize \in Nat
  BY TraceeMemAssumption
<1>2. PICK data \in [(Region + SafeZone)..(MemSize - 1) -> {0, 1}] :
          mem = [a \in Addresses |-> IF a \in DOMAIN data THEN data[a] ELSE 3]
  BY Zenon DEF Init
<1>3. \A a \in DOMAIN data : data[a] \in Bytes
  <2>1. \A a \in DOMAIN data : data[a] \in {0, 1}
    OBVIOUS
  <2>2. {0, 1} \subseteq Bytes
    BY DEF Bytes
  <2> QED
    BY <2>1, <2>2
<1>4. 3 \in Bytes
  BY DEF Bytes
<1>5. mem \in [Addresses -> Bytes]
  BY <1>2, <1>3, <1>4
<1>6. guestMem = mem /\ offset = 0 /\ placed = <<>> /\ helpers \in {"slow", "direct"}
  BY DEF Init
<1>7. Len(placed) = 0 /\ placed \in Seq(Item)
  BY <1>6
<1>8. TypeOK
  BY <1>5, <1>6, <1>7 DEF TypeOK
<1>9. InZone
  BY <1>1, <1>6 DEF InZone
<1>10. Bounded /\ PlacedIntact
  BY <1>7 DEF Bounded, PlacedIntact
<1>11. GuestUntouched
  BY <1>6 DEF GuestUntouched
<1> QED
  BY <1>8, <1>9, <1>10, <1>11 DEF IInv

\* The two writes append next to what is there.  (write_bytes_to_tracee)
LEMMA Append1Step ==
    ASSUME IInv, NEW bytes \in Seq(Bytes), Append1(bytes)
    PROVE  IInv'
<1>1. /\ SafeZone \in Nat /\ Sp \in Nat /\ Region \in Nat /\ MemSize \in Nat
      /\ SafeZone <= Sp /\ Sp <= MemSize /\ Region + SafeZone <= MemSize
  BY TraceeMemAssumption
<1>2. helpers \in {"slow", "direct"} /\ offset \in Nat /\ Len(bytes) \in Nat
  BY DEF IInv, TypeOK
<1>3. CASE helpers = "slow"
  <2> DEFINE words == Padded(bytes)
             start == Sp - (offset + SafeZone + Len(words))
  <2>1. /\ words \in Seq(Bytes) /\ Len(words) \in Nat /\ Len(bytes) <= Len(words)
        /\ \A i \in 1..Len(bytes) : words[i] = bytes[i]
    BY <1>2, PaddedFacts
  <2>2. /\ start >= 0 /\ mem' = Written(start, words) /\ offset' = offset + Len(words)
        /\ placed' = Append(placed, [addr |-> start, bytes |-> bytes])
        /\ UNCHANGED <<helpers, guestMem>>
    BY <1>3, Zenon DEF Append1, WriteSlow
  <2> HIDE DEF words
  <2>3. start \in Nat /\ start + Len(words) = Sp - SafeZone - offset
    BY <1>1, <1>2, <2>1, <2>2
  <2>4. start + Len(words) <= MemSize
    BY <1>1, <1>2, <2>1, <2>3
  <2> HIDE DEF start
  <2>5. AppendAt(bytes, words, start)
    BY <1>3, <2>1, <2>2, <2>3, <2>4 DEF AppendAt
  <2> QED
    BY <2>1, <2>3, <2>5, AppendStep
<1>4. CASE helpers = "direct"
  <2> DEFINE start == Region + offset
  <2>1. /\ offset + Len(bytes) <= SafeZone /\ mem' = Written(start, bytes)
        /\ offset' = offset + Len(bytes)
        /\ placed' = Append(placed, [addr |-> start, bytes |-> bytes])
        /\ UNCHANGED <<helpers, guestMem>>
    BY <1>4, Zenon DEF Append1, WriteDirect
  <2>2. start \in Nat /\ start + Len(bytes) <= MemSize
    BY <1>1, <1>2, <2>1
  <2>3. AppendAt(bytes, bytes, start)
    BY <1>2, <1>4, <2>1, <2>2 DEF AppendAt
  <2> QED
    BY <2>2, <2>3, AppendStep
<1> QED
  BY <1>2, <1>3, <1>4

LEMMA NextIInv == IInv /\ [Next]_vars => IInv'
<1> SUFFICES ASSUME IInv, [Next]_vars PROVE IInv'
  OBVIOUS
<1>1. \A s \in Chunks : s \in Seq(Bytes)
  BY TraceeMemAssumption DEF Bytes
<1>2. CASE AppendString
  <2>1. PICK s \in Chunks : Append1(s \o <<0>>)
    BY <1>2 DEF AppendString
  <2>2. 0 \in Bytes
    BY DEF Bytes
  <2>3. <<0>> \in Seq(Bytes)
    BY <2>2
  <2>4. s \o <<0>> \in Seq(Bytes)
    BY <1>1, <2>3
  <2> QED
    BY <2>1, <2>4, Append1Step, Zenon
<1>3. CASE AppendObject
  BY <1>1, <1>3, Append1Step DEF AppendObject
<1>4. CASE Seek
  <2>1. /\ helpers' = helpers /\ mem' = mem /\ guestMem' = guestMem /\ offset' = 0
        /\ placed' = <<>>
    BY <1>4 DEF Seek
  <2>2. Len(placed') = 0 /\ placed' \in Seq(Item)
    BY <2>1
  <2>3. SafeZone \in Nat
    BY TraceeMemAssumption
  <2>4. TypeOK'
    BY <2>1, <2>2 DEF IInv, TypeOK
  <2>5. InZone'
    BY <2>1, <2>3 DEF InZone
  <2>6. Bounded' /\ PlacedIntact'
    BY <2>2 DEF Bounded, PlacedIntact
  <2>7. GuestUntouched'
    BY <2>1 DEF IInv, GuestUntouched
  <2> QED
    BY <2>4, <2>5, <2>6, <2>7 DEF IInv
<1>5. CASE UNCHANGED vars
  BY <1>5 DEF vars, IInv, TypeOK, InZone, Bounded, PlacedIntact, GuestUntouched
<1> QED
  BY <1>2, <1>3, <1>4, <1>5 DEF Next

\* However many strings and objects an augment appends during a system call, of
\* whatever lengths, none overwrites an earlier one: the padding of the word-wise
\* write and the offset agree.  (tracee_stack_append, write_bytes_to_tracee)
THEOREM AppendsStayIntact == Spec => []PlacedIntact
<1>1. IInv => PlacedIntact
  BY DEF IInv
<1> QED
  BY <1>1, InitIInv, NextIInv, PTL DEF Spec

\* No sequence of appends reaches the safe zone below the stack pointer, the
\* stack or the data of the guest.  (STACK_SAFE_ZONE_SIZE)
THEOREM AppendsSpareGuest == Spec => []GuestUntouched
<1>1. IInv => GuestUntouched
  BY DEF IInv
<1> QED
  BY <1>1, InitIInv, NextIInv, PTL DEF Spec

-----------------------------------------------------------------------------
(* Reading: the loops of read_bytes_until_num_zeroes. *)

\* A non-empty set of naturals has a least element.
LEMMA LeastElement ==
    ASSUME NEW S, S \subseteq Nat, S # {}
    PROVE  \E n \in S : \A m \in S : n <= m
<1> DEFINE R == OpToRel(<, Nat)
<1>1. \E x \in S : \A y \in S : ~(<<y, x>> \in R)
  <2>1. IsWellFoundedOn(R, Nat)
    BY NatLessThanWellFounded, Zenon
  <2> HIDE DEF R
  <2>2. QED
    BY <2>1, WFMin, Zenon
<1>2. \A x, y \in Nat : y < x => <<y, x>> \in R
  BY DEF OpToRel
<1> HIDE DEF R
<1>3. PICK x \in S : \A y \in S : ~(<<y, x>> \in R)
  BY <1>1
<1>4. \A y \in S : ~(y < x)
  BY <1>2, <1>3, Zenon
<1>5. QED
  BY <1>4

\* Function f obeys the definition of a loop over the states S: where the loop is done
\* it has a value of its own, elsewhere the value of the next state.
Obeys(f, S, Done, next, value) ==
    f = [x \in S |-> IF x \in Done THEN value[x] ELSE f[next[x]]]

\* A loop as a recursive function: whatever its steps, there is a function that obeys
\* its definition.  From x it has the value of the ends that x leads to.
LEMMA LoopDefined ==
    ASSUME NEW S, NEW Done, NEW next \in [S -> S], NEW value
    PROVE  \E f : Obeys(f, S, Done, next, value)
<1> DEFINE Closed(C) == \A z \in C : z \notin Done => next[z] \in C
           Ends(x) == {y \in S \cap Done : \A C \in SUBSET S : x \in C /\ Closed(C) => y \in C}
           f == [x \in S |-> value[CHOOSE y : y \in Ends(x)]]
<1>1. ASSUME NEW x \in S, x \in Done PROVE (CHOOSE y : y \in Ends(x)) = x
  <2>1. {x} \in SUBSET S /\ x \in {x} /\ Closed({x})
    BY <1>1
  <2>2. \A y \in Ends(x) : y = x
    BY <2>1, Zenon
  <2>3. x \in Ends(x)
    BY <1>1
  <2> QED
    BY <2>2, <2>3, Zenon
<1>2. ASSUME NEW x \in S, x \notin Done PROVE Ends(x) = Ends(next[x])
  <2>1. ASSUME NEW y \in Ends(x), NEW C \in SUBSET S, next[x] \in C, Closed(C) PROVE y \in C
    <3>1. C \cup {x} \in SUBSET S /\ x \in C \cup {x} /\ Closed(C \cup {x})
      BY <2>1
    <3>2. y \in C \cup {x} /\ y \in Done
      BY <3>1, Zenon
    <3> QED
      BY <1>2, <3>2
  <2>2. ASSUME NEW y \in Ends(next[x]), NEW C \in SUBSET S, x \in C, Closed(C) PROVE y \in C
    BY <1>2, <2>2
  <2> QED
    BY <2>1, <2>2
<1>3. \A x \in S : f[x] = IF x \in Done THEN value[x] ELSE f[next[x]]
  <2> SUFFICES ASSUME NEW x \in S PROVE f[x] = IF x \in Done THEN value[x] ELSE f[next[x]]
    BY Zenon
  <2>1. f[x] = value[CHOOSE y : y \in Ends(x)]
    BY Zenon
  <2>2. f[next[x]] = value[CHOOSE y : y \in Ends(next[x])]
    BY Zenon
  <2> HIDE DEF Ends, f
  <2> QED
    BY <1>1, <1>2, <2>1, <2>2, Zenon
<1>4. f = [x \in S |-> f[x]]
  OBVIOUS
<1> HIDE DEF f
<1>5. Obeys(f, S, Done, next, value)
  BY <1>3, <1>4, Zenon DEF Obeys
<1> QED
  BY <1>5

\* The remainder counts up, and starts again at zero.
LEMMA Remainder ==
    ASSUME NEW B \in Nat \ {0}, NEW x \in Nat
    PROVE  x % B \in 0..(B - 1) /\ (x + 1) % B \in {0, (x % B) + 1}
<1> DEFINE q == x \div B
           r == x % B
<1>1. r \in Nat /\ r < B /\ q \in Nat
  OBVIOUS
<1>2. r = x - q * B
  OBVIOUS
<1>3. \A p, s, y \in Nat : (s < B /\ y = p * B + s) => y % B = s
  BY SMTT(30)
<1> HIDE DEF q, r
<1>4. CASE r + 1 < B
  <2>1. x + 1 = q * B + (r + 1) /\ r + 1 \in Nat /\ x + 1 \in Nat
    BY <1>1, <1>2
  <2>2. (x + 1) % B = r + 1
    BY <1>1, <1>3, <1>4, <2>1, Zenon
  <2> QED
    BY <1>1, <2>2 DEF r
<1>5. CASE r + 1 = B
  <2> DEFINE p == q + 1
  <2>1. p \in Nat /\ p * B = q * B + B
    BY <1>1
  <2> HIDE DEF p
  <2>2. x + 1 = p * B + 0 /\ 0 \in Nat /\ 0 < B /\ x + 1 \in Nat
    BY <1>1, <1>2, <1>5, <2>1
  <2>3. (x + 1) % B = 0
    BY <1>3, <2>1, <2>2, Zenon
  <2> QED
    BY <1>1, <2>3 DEF r
<1> QED
  BY <1>1, <1>4, <1>5

\* A read of n0 zeroes from addr on ends at e: the first that ends n0 zeroes.
EndsAt(addr, n0, a) == a - n0 + 1 >= addr /\ \A b \in (a - n0 + 1)..a : mem[b] = 0
FirstEnd(addr, n0, e) ==
    /\ addr \in Addresses /\ n0 \in Nat \ {0} /\ e \in Addresses /\ EndsAt(addr, n0, e)
    /\ \A a \in Addresses : EndsAt(addr, n0, a) => e <= a

\* Before the byte at `at` there are exactly z zeroes, of those from addr on.
Counted(addr, n0, e, at, z) ==
    /\ at \in addr..e /\ z \in Nat /\ z < n0 /\ z <= at - addr
    /\ \A b \in (at - z)..(at - 1) : mem[b] = 0
    /\ at - z = addr \/ mem[at - z - 1] # 0

\* Counting on: at the end, and only there, the count is complete.
LEMMA CountOn ==
    ASSUME NEW addr, NEW n0, NEW e, FirstEnd(addr, n0, e), NEW at, NEW z,
           Counted(addr, n0, e, at, z)
    PROVE  /\ at \in Addresses
           /\ at = e => mem[at] = 0 /\ z + 1 >= n0
           /\ at # e => /\ ~(mem[at] = 0 /\ z + 1 >= n0)
                        /\ Counted(addr, n0, e, at + 1, IF mem[at] = 0 THEN z + 1 ELSE 0)
<1>1. /\ addr \in Nat /\ e \in Nat /\ n0 \in Nat /\ n0 >= 1 /\ at \in Nat /\ z \in Nat
      /\ addr <= at /\ at <= e /\ MemSize \in Nat /\ e < MemSize
  BY TraceeMemAssumption DEF FirstEnd, Counted, Addresses
<1>2. at \in Addresses
  BY <1>1 DEF Addresses
<1>3. CASE at = e
  <2>1. e - n0 + 1 >= addr /\ \A b \in (e - n0 + 1)..e : mem[b] = 0
    BY DEF FirstEnd, EndsAt
  <2>2. mem[e] = 0
    BY <1>1, <2>1
  <2>3. z + 1 >= n0
    <3> SUFFICES ASSUME z + 1 < n0 PROVE FALSE
      BY <1>1
    <3>1. at - z # addr
      BY <1>1, <1>3, <2>1
    <3>2. at - z - 1 \in (e - n0 + 1)..e
      BY <1>1, <1>3
    <3> QED
      BY <2>1, <3>1, <3>2 DEF Counted
  <2> QED
    BY <1>2, <1>3, <2>2, <2>3
<1>4. CASE at # e
  <2>1. at < e
    BY <1>1, <1>4
  <2>2. ~(mem[at] = 0 /\ z + 1 >= n0)
    <3> SUFFICES ASSUME mem[at] = 0, z + 1 >= n0 PROVE FALSE
      OBVIOUS
    <3>1. z = n0 - 1 /\ at - n0 + 1 = at - z
      BY <1>1 DEF Counted
    <3>2. \A b \in (at - z)..at : mem[b] = 0
      BY <1>1 DEF Counted
    <3>3. EndsAt(addr, n0, at)
      BY <1>1, <3>1, <3>2 DEF Counted, EndsAt
    <3> QED
      BY <1>1, <1>2, <2>1, <3>3 DEF FirstEnd
  <2>3. at + 1 \in addr..e
    BY <1>1, <2>1
  <2>4. CASE mem[at] = 0
    <3>1. z + 1 \in Nat /\ z + 1 < n0 /\ z + 1 <= (at + 1) - addr
      BY <1>1, <2>2, <2>4 DEF Counted
    <3>2. \A b \in ((at + 1) - (z + 1))..((at + 1) - 1) : mem[b] = 0
      BY <1>1, <2>4 DEF Counted
    <3>3. (at + 1) - (z + 1) = at - z
      BY <1>1
    <3> QED
      BY <1>2, <1>4, <2>2, <2>3, <2>4, <3>1, <3>2, <3>3 DEF Counted
  <2>5. CASE mem[at] # 0
    <3>1. 0 \in Nat /\ 0 < n0 /\ 0 <= (at + 1) - addr /\ (at + 1) - 0 - 1 = at
      BY <1>1
    <3>2. \A b \in ((at + 1) - 0)..((at + 1) - 1) : mem[b] = 0
      BY <1>1
    <3> QED
      BY <1>2, <1>4, <2>2, <2>3, <2>5, <3>1, <3>2 DEF Counted
  <2> QED
    BY <2>4, <2>5
<1> QED
  BY <1>3, <1>4

LEMMA CountFrom ==
    ASSUME NEW addr, NEW n0, NEW e, FirstEnd(addr, n0, e)
    PROVE  Counted(addr, n0, e, addr, 0)
<1>1. /\ addr \in Nat /\ e \in Nat /\ n0 \in Nat /\ n0 >= 1 /\ e - n0 + 1 >= addr
  BY TraceeMemAssumption DEF FirstEnd, Addresses, EndsAt
<1>2. addr - 0 = addr /\ \A b \in (addr - 0)..(addr - 1) : mem[b] = 0
  BY <1>1
<1> QED
  BY <1>1, <1>2 DEF Counted

\* The word-wise read finds the first end, if the word that begins there is mapped.
LEMMA SlowFindsEnd ==
    ASSUME NEW addr, NEW n0, NEW e, FirstEnd(addr, n0, e), Mapped(e + Word - 1)
    PROVE  UntilSlow(addr, n0) = e - addr
<1> DEFINE States == [at : Nat, zeroes : Nat]
           Unread(s) == (s.at - addr) % Word = 0 /\ ~WordReadable(s.at)
           Full(s) == mem[s.at] = 0 /\ s.zeroes + 1 >= n0
           Next1(s) == [at |-> s.at + 1, zeroes |-> IF mem[s.at] = 0 THEN s.zeroes + 1 ELSE 0]
           scan == CHOOSE f : f = [s \in States |-> IF Unread(s) THEN Failed
                                                    ELSE IF Full(s) THEN s.at - addr
                                                    ELSE f[Next1(s)]]
           start == [at |-> addr, zeroes |-> 0]
           Inv(s) == Counted(addr, n0, e, s.at, s.zeroes)
           Bad == {n \in Nat : \E s \in States : Inv(s) /\ e - s.at = n /\ scan[s] # e - addr}
<1>1. /\ addr \in Nat /\ e \in Nat /\ MemSize \in Nat /\ Word \in Nat /\ Word >= 1
      /\ e + Word - 1 < MemSize
  BY TraceeMemAssumption DEF FirstEnd, Addresses, Mapped
<1>2. \A s \in States : Next1(s) \in States
  OBVIOUS
<1>3. scan = [s \in States |-> IF Unread(s) THEN Failed
                               ELSE IF Full(s) THEN s.at - addr ELSE scan[Next1(s)]]
  <2> DEFINE next == [s \in States |-> Next1(s)]
             Done == {s \in States : Unread(s) \/ Full(s)}
             value == [s \in States |-> IF Unread(s) THEN Failed ELSE s.at - addr]
  <2>1. next \in [States -> States]
    BY <1>2
  <2>2. \E f : Obeys(f, States, Done, next, value)
    <3> HIDE DEF States, next, Done, value
    <3> QED
      BY <2>1, LoopDefined, Zenon
  <2>3. PICK f : f = [s \in States |-> IF s \in Done THEN value[s] ELSE f[next[s]]]
    BY <2>2, Zenon DEF Obeys
  <2> HIDE DEF States, Unread, Full, Next1
  <2>4. \A s \in States : (IF s \in Done THEN value[s] ELSE f[next[s]]) =
                             IF Unread(s) THEN Failed
                             ELSE IF Full(s) THEN s.at - addr ELSE f[Next1(s)]
    OBVIOUS
  <2>5. f = [s \in States |-> IF Unread(s) THEN Failed
                              ELSE IF Full(s) THEN s.at - addr ELSE f[Next1(s)]]
    BY <2>3, <2>4, Zenon
  <2> QED
    BY <2>5, Zenon
<1>4. UntilSlow(addr, n0) = scan[start]
  BY DEF UntilSlow
<1>5. \A s \in States : scan[s] = IF Unread(s) THEN Failed
                                  ELSE IF Full(s) THEN s.at - addr ELSE scan[Next1(s)]
  <2> HIDE DEF States, Unread, Full, Next1, scan
  <2> QED
    BY <1>3, Zenon
<1> HIDE DEF scan
<1>6. ASSUME NEW s \in States, Inv(s)
      PROVE  ~Unread(s) /\ (s.at = e => Full(s)) /\ (s.at # e => ~Full(s) /\ Inv(Next1(s)))
  <2>1. s.at \in Nat /\ s.at <= e
    BY <1>6 DEF Counted
  <2>2. WordReadable(s.at)
    BY <1>1, <2>1 DEF WordReadable, Mapped, Addresses
  <2> QED
    BY <1>6, <2>2, CountOn
<1>7. Bad = {}
  <2> SUFFICES ASSUME Bad # {} PROVE FALSE
    OBVIOUS
  <2>1. PICK n \in Bad : \A m \in Bad : n <= m
    BY LeastElement, Zenon
  <2>2. PICK s \in States : Inv(s) /\ e - s.at = n /\ scan[s] # e - addr
    BY <2>1
  <2>3. s.at \in Nat /\ n \in Nat
    BY <2>1
  <2>4. s.at # e
    BY <1>5, <1>6, <2>2, Zenon
  <2>5. Inv(Next1(s)) /\ scan[s] = scan[Next1(s)] /\ Next1(s) \in States
    BY <1>2, <1>5, <1>6, <2>2, <2>4
  <2>6. Next1(s).at = s.at + 1 /\ Next1(s).at <= e
    BY <2>5 DEF Counted
  <2>7. e - Next1(s).at \in Nat /\ e - Next1(s).at < n
    BY <1>1, <2>2, <2>3, <2>6
  <2> HIDE DEF Next1, Inv, States
  <2>8. e - Next1(s).at \in Bad
    BY <2>2, <2>5, <2>7
  <2> QED
    BY <2>1, <2>3, <2>7, <2>8
<1>8. start \in States /\ Inv(start) /\ e - start.at \in Nat
  <2>1. addr <= e
    BY CountFrom DEF Counted
  <2> QED
    BY <1>1, <2>1, CountFrom
<1> QED
  BY <1>4, <1>7, <1>8

\* The read through a buffer finds the first end, whatever lies behind it.
LEMMA DirectFindsEnd ==
    ASSUME NEW addr, NEW n0, NEW e, FirstEnd(addr, n0, e), mem \in [Addresses -> Bytes]
    PROVE  UntilDirect(addr, n0) = e - addr
<1> DEFINE States == [at : Nat, zeroes : Nat, buffer : [1..Buffer -> Nat]]
           I(s) == (s.at - addr) % Buffer
           New(s) == IF I(s) = 0 THEN ReadDirect(s.at, Buffer, s.buffer) ELSE s.buffer
           Unread(s) == I(s) = 0 /\ ~Mapped(s.at)
           Full(s) == New(s)[I(s) + 1] = 0 /\ s.zeroes + 1 >= n0
           Next1(s) == [at |-> s.at + 1, buffer |-> New(s),
                        zeroes |-> IF New(s)[I(s) + 1] = 0 THEN s.zeroes + 1 ELSE 0]
           scan == CHOOSE f : f = [s \in States |-> IF Unread(s) THEN Failed
                                                    ELSE IF Full(s) THEN s.at - addr
                                                    ELSE f[Next1(s)]]
           start == [at |-> addr, zeroes |-> 0, buffer |-> [i \in 1..Buffer |-> 0]]
           Filled(s, first) == \A j \in 1..Buffer : first + j - 1 <= e =>
                                  s.buffer[j] = mem[first + j - 1]
           Inv(s) == /\ Counted(addr, n0, e, s.at, s.zeroes)
                     /\ I(s) # 0 => Filled(s, s.at - I(s))
           Bad == {n \in Nat : \E s \in States : Inv(s) /\ e - s.at = n /\ scan[s] # e - addr}
<1>1. /\ addr \in Nat /\ e \in Nat /\ MemSize \in Nat /\ Buffer \in Nat /\ Buffer >= 1
      /\ e < MemSize
  BY TraceeMemAssumption DEF FirstEnd, Addresses
<1>2. \A s \in States : Next1(s) \in States
  <2> SUFFICES ASSUME NEW s \in States PROVE Next1(s) \in States
    OBVIOUS
  <2>1. \A a \in Addresses : mem[a] \in Nat
    <3>1. Bytes \subseteq Nat
      BY DEF Bytes
    <3> QED
      BY <3>1, Zenon
  <2>2. ReadDirect(s.at, Buffer, s.buffer) \in [1..Buffer -> Nat]
    BY <2>1, Zenon DEF ReadDirect, Mapped
  <2>3. New(s) \in [1..Buffer -> Nat]
    BY <2>2
  <2> HIDE DEF New, I
  <2> QED
    BY <2>3
<1>3. scan = [s \in States |-> IF Unread(s) THEN Failed
                               ELSE IF Full(s) THEN s.at - addr ELSE scan[Next1(s)]]
  <2> DEFINE next == [s \in States |-> Next1(s)]
             Done == {s \in States : Unread(s) \/ Full(s)}
             value == [s \in States |-> IF Unread(s) THEN Failed ELSE s.at - addr]
  <2>1. next \in [States -> States]
    <3> HIDE DEF States, Next1
    <3> QED
      BY <1>2
  <2>2. \E f : Obeys(f, States, Done, next, value)
    <3> HIDE DEF States, next, Done, value
    <3> QED
      BY <2>1, LoopDefined, Zenon
  <2>3. PICK f : f = [s \in States |-> IF s \in Done THEN value[s] ELSE f[next[s]]]
    BY <2>2, Zenon DEF Obeys
  <2> HIDE DEF States, Unread, Full, Next1
  <2>4. \A s \in States : (IF s \in Done THEN value[s] ELSE f[next[s]]) =
                             IF Unread(s) THEN Failed
                             ELSE IF Full(s) THEN s.at - addr ELSE f[Next1(s)]
    OBVIOUS
  <2>5. f = [s \in States |-> IF Unread(s) THEN Failed
                              ELSE IF Full(s) THEN s.at - addr ELSE f[Next1(s)]]
    BY <2>3, <2>4, Zenon
  <2> QED
    BY <2>5, Zenon
<1>4. UntilDirect(addr, n0) = scan[start]
  BY DEF UntilDirect
<1>5. \A s \in States : scan[s] = IF Unread(s) THEN Failed
                                  ELSE IF Full(s) THEN s.at - addr ELSE scan[Next1(s)]
  <2> HIDE DEF States, Unread, Full, Next1, scan
  <2> QED
    BY <1>3, Zenon
<1> HIDE DEF scan
<1>6. ASSUME NEW s \in States, Inv(s)
      PROVE  ~Unread(s) /\ (s.at = e => Full(s)) /\ (s.at # e => ~Full(s) /\ Inv(Next1(s)))
  <2>1. s.at \in Nat /\ s.at <= e /\ addr <= s.at /\ Mapped(s.at)
    BY <1>1, <1>6 DEF Counted, Mapped, Addresses
  <2>2. s.at - addr \in Nat /\ Buffer \in Nat \ {0} /\ (s.at + 1) - addr = (s.at - addr) + 1
    BY <1>1, <2>1
  <2>3. I(s) \in 0..(Buffer - 1) /\ I(Next1(s)) \in {0, I(s) + 1}
    <3>1. I(Next1(s)) = ((s.at - addr) + 1) % Buffer
      BY <2>2
    <3> QED
      BY <2>2, <3>1, Remainder, Zenon
  <2> DEFINE first == s.at - I(s)
  <2>4. \A j \in 1..Buffer : first + j - 1 <= e => New(s)[j] = mem[first + j - 1]
    <3>1. CASE I(s) = 0
      <4>1. New(s) = [j \in 1..Buffer |-> IF Mapped(s.at + j - 1) THEN mem[s.at + j - 1]
                                                                  ELSE s.buffer[j]]
        BY <3>1 DEF ReadDirect
      <4>2. first = s.at
        BY <2>1, <3>1
      <4>3. \A j \in 1..Buffer : s.at + j - 1 <= e => Mapped(s.at + j - 1)
        BY <1>1, <2>1 DEF Mapped, Addresses
      <4> HIDE DEF New, first
      <4> QED
        BY <4>1, <4>2, <4>3
    <3>2. CASE I(s) # 0
      BY <1>6, <3>2
    <3> QED
      BY <3>1, <3>2
  <2>5. New(s)[I(s) + 1] = mem[s.at]
    <3>1. I(s) + 1 \in 1..Buffer /\ first + (I(s) + 1) - 1 = s.at
      <4> HIDE DEF New, I, Next1
      <4> QED
        BY <1>1, <2>1, <2>3
    <3> HIDE DEF New, I, first
    <3> QED
      BY <2>1, <2>4, <3>1
  <2>6. /\ s.at = e => mem[s.at] = 0 /\ s.zeroes + 1 >= n0
        /\ s.at # e => /\ ~(mem[s.at] = 0 /\ s.zeroes + 1 >= n0)
                       /\ Counted(addr, n0, e, s.at + 1, IF mem[s.at] = 0 THEN s.zeroes + 1 ELSE 0)
    BY <1>6, CountOn
  <2>7. I(Next1(s)) # 0 => Filled(Next1(s), Next1(s).at - I(Next1(s)))
    <3> SUFFICES ASSUME I(Next1(s)) # 0 PROVE Filled(Next1(s), Next1(s).at - I(Next1(s)))
      OBVIOUS
    <3>1. Next1(s).at - I(Next1(s)) = first /\ Next1(s).buffer = New(s)
      BY <2>1, <2>3
    <3> HIDE DEF New, I, first, Next1
    <3> QED
      BY <2>4, <3>1
  <2>8. /\ Next1(s).at = s.at + 1
        /\ Next1(s).zeroes = IF mem[s.at] = 0 THEN s.zeroes + 1 ELSE 0
    BY <2>5
  <2> HIDE DEF New, I, Filled, Next1
  <2> QED
    BY <2>1, <2>5, <2>6, <2>7, <2>8
<1>7. Bad = {}
  <2> SUFFICES ASSUME Bad # {} PROVE FALSE
    OBVIOUS
  <2>1. PICK n \in Bad : \A m \in Bad : n <= m
    BY LeastElement, Zenon
  <2>2. PICK s \in States : Inv(s) /\ e - s.at = n /\ scan[s] # e - addr
    BY <2>1
  <2>3. s.at \in Nat /\ n \in Nat
    BY <2>1
  <2> HIDE DEF Unread, Full
  <2>4. s.at # e
    BY <1>5, <1>6, <2>2, Zenon
  <2>5. Inv(Next1(s)) /\ scan[s] = scan[Next1(s)] /\ Next1(s) \in States
    <3> HIDE DEF States, Inv, Next1
    <3> QED
      BY <1>2, <1>5, <1>6, <2>2, <2>4
  <2>6. Next1(s).at = s.at + 1 /\ Next1(s).at <= e
    <3>1. Next1(s).at = s.at + 1
      <4> HIDE DEF New, I
      <4> QED
        OBVIOUS
    <3>2. Counted(addr, n0, e, Next1(s).at, Next1(s).zeroes)
      BY <2>5, Zenon
    <3> HIDE DEF Next1
    <3> QED
      BY <3>1, <3>2 DEF Counted
  <2>7. e - Next1(s).at \in Nat /\ e - Next1(s).at < n
    <3> HIDE DEF Next1, Inv, States
    <3> QED
      BY <1>1, <2>2, <2>3, <2>6
  <2> HIDE DEF Next1, Inv, States
  <2>8. e - Next1(s).at \in Bad
    BY <2>2, <2>5, <2>7
  <2> QED
    BY <2>1, <2>3, <2>7, <2>8
<1>8. start \in States /\ Inv(start) /\ e - start.at \in Nat
  <2>1. addr <= e
    BY CountFrom DEF Counted
  <2>2. start.at - addr = 0 /\ 0 % Buffer = 0
    BY <1>1
  <2> QED
    BY <1>1, <2>1, <2>2, CountFrom
<1> QED
  <2> HIDE DEF States, Inv, start
  <2>1. start.at = addr
    BY DEF start
  <2> QED
    BY <1>4, <1>7, <1>8

\* Both helpers find the same end and return the same bytes up to it, for every word
\* and buffer size and every alignment.  (read_bytes_until_num_zeroes, read_bytes)
THEOREM HelpersAgree == Spec => []ReadsAgree
<1>1. IInv => ReadsAgree
  <2> SUFFICES ASSUME IInv, NEW addr \in Addresses, NEW n0 \in {1, Word},
                      Reference(addr, n0) # Failed
               PROVE  LET len == Reference(addr, n0) IN
                      /\ UntilDirect(addr, n0) = len
                      /\ Mapped(addr + len + Word - 1) =>
                            /\ UntilSlow(addr, n0) = len
                            /\ ReadSlow(addr, len) =
                                  ReadDirect(addr, len, [i \in 1..len |-> 0])
    BY Zenon DEF ReadsAgree
  <2> DEFINE ends == {a \in Addresses : EndsAt(addr, n0, a)}
             e == Min(ends)
  <2>1. ends # {} /\ Reference(addr, n0) = e - addr
    BY DEF Reference, EndsAt
  <2>2. e \in ends /\ \A a \in ends : e <= a
    <3>1. ends \subseteq Nat
      BY DEF Addresses
    <3>2. \E a \in ends : \A b \in ends : a <= b
      <4> HIDE DEF ends
      <4> QED
        BY <2>1, <3>1, LeastElement, Zenon
    <3> HIDE DEF ends
    <3> QED
      BY <3>2 DEF Min
  <2>3. FirstEnd(addr, n0, e)
    BY <2>2, TraceeMemAssumption DEF FirstEnd
  <2> HIDE DEF e, ends
  <2>4. /\ addr \in Nat /\ e \in Nat /\ addr <= e /\ e < MemSize
        /\ MemSize \in Nat /\ Word \in Nat /\ Word >= 1
    <3>1. Counted(addr, n0, e, addr, 0)
      BY <2>3, CountFrom, Zenon
    <3>2. addr \in Addresses /\ e \in Addresses
      BY <2>3, Zenon DEF FirstEnd
    <3> QED
      BY <3>1, <3>2, TraceeMemAssumption DEF Counted, Addresses
  <2>5. UntilDirect(addr, n0) = e - addr
    BY <2>3, DirectFindsEnd DEF IInv, TypeOK
  <2> DEFINE len == e - addr
  <2>6. len \in Nat /\ addr + len = e
    BY <2>4
  <2>7. ASSUME Mapped(e + Word - 1)
        PROVE  ReadSlow(addr, len) = ReadDirect(addr, len, [i \in 1..len |-> 0])
    <3> HIDE DEF len
    <3>1. ASSUME NEW k \in 0..((len + Word - 1) \div Word - 1)
          PROVE  WordReadable(addr + k * Word)
      <4>1. k \in Nat /\ len + Word - 1 \in Nat /\ k < (len + Word - 1) \div Word
        BY <2>4, <2>6
      <4>2. k * Word \in Nat /\ k * Word + Word <= len + Word - 1
        BY <2>4, <4>1
      <4>3. e + Word - 1 < MemSize
        BY <2>4, <2>7 DEF Mapped, Addresses
      <4> QED
        BY <2>4, <2>6, <4>2, <4>3 DEF WordReadable, Mapped, Addresses
    <3>2. ReadSlow(addr, len) = [i \in 1..len |-> mem[addr + i - 1]]
      BY <3>1 DEF ReadSlow
    <3>3. \A i \in 1..len : Mapped(addr + i - 1)
      BY <2>4, <2>6 DEF Mapped, Addresses
    <3> QED
      BY <3>2, <3>3 DEF ReadDirect
  <2>8. Mapped(e + Word - 1) => UntilSlow(addr, n0) = len
    BY <2>3, SlowFindsEnd
  <2> QED
    BY <2>1, <2>5, <2>6, <2>7, <2>8
<1> QED
  BY <1>1, InitIInv, NextIInv, PTL DEF Spec
=============================================================================
