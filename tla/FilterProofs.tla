---------------------------- MODULE FilterProofs ----------------------------
(* Proofs about Filter and Augments: for every table the build accepts, the  *)
(* filter and the index agree on every call, and under --root a guest sees   *)
(* only 0, ids of its own choice and those of set-id files it executed.      *)
EXTENDS Augments, TLAPS

FilterTypes ==
    /\ table \in Seq(Infos) /\ raw \in Seq(Infos) /\ Len(raw) < MaxRaw
    /\ phase \in {"define", "index", "filter", "ready", "panic"}
    /\ index \in [0..(MaxNum - 1) -> Nat]
    /\ DOMAIN filters = 0..(2 * MaxRaw + 1)
    /\ idx \in 0..MaxRaw /\ writeIdx \in Nat /\ nr \in Nat /\ pc \in Nat
    /\ verdict \in {"idle", "none", "TRACE", "ALLOW"}

\* The entries up to idx are in the index, and what the index has is an entry.
IndexInv ==
    /\ phase = "define" => idx = 0 /\ \A n \in 0..(MaxNum - 1) : index[n] = 0
    /\ \A i \in 1..Len(raw) :
         i < idx \/ phase \in {"filter", "ready"} =>
             raw[i].num < MaxNum /\ index[raw[i].num] # 0
    /\ \A n \in 0..(MaxNum - 1) :
         index[n] # 0 => index[n] \in 1..Len(raw) /\ raw[index[n]].num = n

\* The two instructions of entry i stand at 2i - 1 and 2i.
Placed(i) ==
    filters[2 * i - 1] = JumpEq(raw[i].num) /\ filters[2 * i] = Stmt("TRACE")

CodeInv ==
    /\ phase = "filter" =>
         /\ filters[0] = Stmt("LD")
         /\ \A i \in 1..Len(raw) : i < idx => Placed(i)
         /\ idx = 0 => writeIdx = 1
         /\ idx \in 1..Len(raw) => writeIdx = 2 * idx - 1
         /\ idx > Len(raw) => writeIdx = 2 * Len(raw) + 1
    /\ phase = "ready" =>
         /\ filters[0] = Stmt("LD")
         /\ \A i \in 1..Len(raw) : Placed(i)
         /\ writeIdx = 2 * Len(raw) + 1 /\ filters[writeIdx] = Stmt("ALLOW")

\* The program is before entry i with all earlier ones ruled out, or has found it.
Reached ==
    \/ pc = 0 /\ verdict = "none"
    \/ \E i \in 1..(Len(raw) + 1) :
         /\ pc = 2 * i - 1 /\ \A j \in 1..(i - 1) : raw[j].num # nr
         /\ verdict = "TRACE" => FALSE
         /\ verdict = "ALLOW" => i = Len(raw) + 1
    \/ \E i \in 1..Len(raw) :
         pc = 2 * i /\ raw[i].num = nr /\ verdict # "ALLOW"

RunInv ==
    /\ phase # "ready" => verdict = "idle" /\ pc = 0
    /\ phase = "ready" => (verdict = "idle" /\ pc = 0) \/ Reached

FInv == FilterTypes /\ (phase # "panic" => IndexInv /\ CodeInv) /\ RunInv

-----------------------------------------------------------------------------

\* The initial state satisfies the invariant.
LEMMA FilterStarts == FilterInit => FInv
<1> SUFFICES ASSUME FilterInit PROVE FInv
  OBVIOUS
<1>1. FilterTypes
  BY FilterAssumption DEF FilterInit, FilterTypes
<1>2. IndexInv /\ CodeInv
  BY <1>1 DEF FilterInit, FilterTypes, IndexInv, CodeInv
<1> QED  BY <1>1, <1>2 DEF FilterInit, FInv, RunInv

\* Defining an entry keeps it.
LEMMA DefineKeeps == ASSUME FInv, Define \/ DefineEnd PROVE FInv'
<1>1. CASE Define /\ phase' = "define"
  <2>1. Len(raw) + 1 \in 1..Len(table) /\ Len(raw) + 1 < MaxRaw
    BY <1>1, FilterAssumption DEF FInv, FilterTypes, Define
  <2>2. raw' \in Seq(Infos) /\ Len(raw') = Len(raw) + 1
    <3>1. table[Len(raw) + 1] \in Infos
      BY <2>1 DEF FInv, FilterTypes
    <3>2. raw' = Append(raw, table[Len(raw) + 1])
      BY <1>1 DEF Define
    <3>3. raw \in Seq(Infos)
      BY DEF FInv, FilterTypes
    <3> QED  BY <3>1, <3>2, <3>3
  <2>3. FilterTypes'
    BY <1>1, <2>1, <2>2 DEF FInv, FilterTypes, Define
  <2>4. (IndexInv /\ CodeInv /\ RunInv)'
    BY <1>1, <2>2 DEF FInv, FilterTypes, IndexInv, CodeInv, RunInv, Define
  <2> QED  BY <2>3, <2>4 DEF FInv
<1>2. CASE Define /\ phase' # "define"
  BY <1>2 DEF FInv, FilterTypes, RunInv, Define
<1>3. CASE DefineEnd
  <2>1. FilterTypes' /\ RunInv'
    BY <1>3 DEF FInv, FilterTypes, RunInv, DefineEnd
  <2>2. (IndexInv /\ CodeInv)'
    BY <1>3 DEF FInv, FilterTypes, IndexInv, CodeInv, DefineEnd
  <2> QED  BY <2>1, <2>2 DEF FInv
<1> QED  BY <1>1, <1>2, <1>3

\* Entering an entry in the index keeps it.
LEMMA NewIndexKeeps == ASSUME FInv, NewIndex \/ NewIndexEnd PROVE FInv'
<1>1. CASE NewIndex /\ idx \notin 1..Len(raw)
  <2>1. FilterTypes' /\ RunInv'
    BY <1>1, FilterAssumption DEF FInv, FilterTypes, RunInv, NewIndex
  <2>2. /\ idx' = idx + 1 /\ UNCHANGED <<raw, index, phase>> /\ phase = "index"
        /\ IndexInv /\ idx \in Nat /\ Len(raw) \in Nat
    BY <1>1 DEF FInv, FilterTypes, NewIndex
  <2>3. IndexInv'
    BY <1>1, <2>2 DEF IndexInv
  <2>4. CodeInv'
    BY <2>2 DEF CodeInv
  <2> QED  BY <2>1, <2>3, <2>4 DEF FInv
<1>2. CASE NewIndex /\ idx \in 1..Len(raw)
  <2>1. /\ raw[idx].num \in Nat /\ index \in [0..(MaxNum - 1) -> Nat]
        /\ idx \in Nat /\ Len(raw) \in Nat /\ MaxRaw \in Nat /\ MaxNum \in Nat
    BY <1>2, FilterAssumption DEF FInv, FilterTypes
  <2>2. CASE raw[idx].num >= MaxNum
    <3>1. phase' = "panic" /\ UNCHANGED <<table, raw, index, filters, idx, writeIdx,
                                          nr, pc, verdict>>
      BY <1>2, <2>2 DEF NewIndex
    <3> QED  BY <1>2, <3>1 DEF FInv, FilterTypes, RunInv, NewIndex
  <2>3. CASE raw[idx].num < MaxNum
    <3>1. /\ index' = [index EXCEPT ![raw[idx].num] = idx] /\ idx' = idx + 1
          /\ UNCHANGED <<table, phase, raw, filters, writeIdx, nr, pc, verdict>>
          /\ phase = "index" /\ idx < MaxRaw
      BY <1>2, <2>1, <2>3 DEF NewIndex
    <3>2. raw[idx].num \in 0..(MaxNum - 1)
      BY <2>1, <2>3
    <3>3. index' \in [0..(MaxNum - 1) -> Nat] /\ idx' \in 0..MaxRaw
      BY <2>1, <3>1, <3>2
    <3>4. FilterTypes' /\ RunInv' /\ CodeInv'
      BY <3>1, <3>3 DEF FInv, FilterTypes, RunInv, CodeInv
    <3>5. ASSUME NEW n \in 0..(MaxNum - 1), index'[n] # 0
          PROVE  index'[n] \in 1..Len(raw) /\ raw[index'[n]].num = n
      BY <1>2, <2>1, <3>1, <3>2, <3>5 DEF FInv, IndexInv
    <3>6. ASSUME NEW e \in 1..Len(raw), e < idx + 1
          PROVE  raw[e].num < MaxNum /\ index'[raw[e].num] # 0
      <4>1. e = idx \/ e < idx
        BY <2>1, <3>6
      <4>2. raw[e].num \in Nat
        BY FilterAssumption DEF FInv, FilterTypes
      <4> QED  BY <1>2, <2>1, <2>3, <3>1, <3>2, <4>1, <4>2 DEF FInv, IndexInv
    <3>7. IndexInv'
      BY <3>1, <3>5, <3>6 DEF IndexInv
    <3> QED  BY <3>4, <3>7 DEF FInv
  <2> QED  BY <2>1, <2>2, <2>3
<1>3. CASE NewIndexEnd
  <2>1. FilterTypes' /\ RunInv'
    BY <1>3, FilterAssumption DEF FInv, FilterTypes, RunInv, NewIndexEnd
  <2>2. /\ IndexInv /\ UNCHANGED <<raw, index>> /\ phase = "index"
        /\ phase' = "filter" /\ \A e \in 1..Len(raw) : e < idx
    BY <1>3 DEF FInv, FilterTypes, NewIndexEnd
  <2>4. IndexInv'
    BY <2>2 DEF IndexInv
  <2>3. CodeInv'
    BY <1>3, FilterAssumption DEF FInv, FilterTypes, CodeInv, NewIndexEnd
  <2> QED  BY <2>1, <2>3, <2>4 DEF FInv
<1> QED  BY <1>1, <1>2, <1>3

\* Writing the two instructions of an entry, or the last one, keeps it.
LEMMA NewFilterKeeps == ASSUME FInv, NewFilter \/ NewFilterEnd PROVE FInv'
<1>0. phase # "panic" /\ IndexInv /\ CodeInv /\ FilterTypes /\ RunInv
  BY DEF FInv, NewFilter, NewFilterEnd
<1>1. IndexInv'
  BY <1>0, FilterAssumption, Zenon DEF FilterTypes, IndexInv, NewFilter, NewFilterEnd
<1>2. CASE NewFilter /\ idx \notin 1..Len(raw)
  <2>1. FilterTypes' /\ RunInv'
    BY <1>0, <1>2, FilterAssumption DEF FilterTypes, RunInv, NewFilter
  <2>2. /\ idx' = idx + 1 /\ UNCHANGED <<filters, writeIdx, raw, phase>>
        /\ phase = "filter" /\ idx \in Nat /\ Len(raw) \in Nat
    BY <1>0, <1>2 DEF FilterTypes, NewFilter
  <2>3. \A e \in 1..Len(raw) : Placed(e)' <=> Placed(e)
    BY <2>2 DEF Placed
  <2>4. CodeInv'
    BY <1>0, <1>2, <2>2, <2>3 DEF CodeInv
  <2> QED  BY <1>1, <2>1, <2>4 DEF FInv
<1>3. CASE NewFilter /\ idx \in 1..Len(raw)
  <2>0. idx \in Nat /\ Len(raw) \in Nat /\ MaxRaw \in Nat /\ Len(raw) < MaxRaw
    BY <1>0, FilterAssumption DEF FilterTypes
  <2>9. /\ writeIdx' = writeIdx + 2 /\ idx' = idx + 1
        /\ phase = "filter" /\ phase' = "filter" /\ raw' = raw
    BY <1>3 DEF NewFilter
  <2>1. writeIdx = 2 * idx - 1 /\ writeIdx' = 2 * idx + 1
    BY <1>0, <1>3, <2>0, <2>9 DEF CodeInv
  <2>2. filters' = [filters EXCEPT ![2 * idx - 1] = JumpEq(raw[idx].num),
                                   ![2 * idx] = Stmt("TRACE")]
    <3>1. Pair(raw[idx].num)[1] = JumpEq(raw[idx].num)
            /\ Pair(raw[idx].num)[2] = Stmt("TRACE")
      BY DEF Pair
    <3>2. writeIdx + 1 = 2 * idx
      BY <2>0, <2>1
    <3> QED  BY <1>3, <2>1, <3>1, <3>2 DEF NewFilter
  <2>3. FilterTypes' /\ RunInv'
    BY <1>0, <1>3, <2>0, <2>1, <2>2, <2>9 DEF FilterTypes, RunInv, NewFilter
  <2>4. ASSUME NEW e \in 1..Len(raw), e < idx + 1 PROVE Placed(e)'
    <3>1. {2 * idx - 1, 2 * idx, 2 * e - 1, 2 * e} \subseteq DOMAIN filters
      BY <1>0, <1>3, <2>0 DEF FilterTypes
    <3>2. CASE e = idx
      BY <1>3, <2>2, <2>9, <3>1, <3>2, <2>0 DEF Placed
    <3>3. CASE e < idx
      <4>1. 2 * e < 2 * idx - 1 /\ 2 * e - 1 < 2 * idx - 1
        BY <2>0, <3>3
      <4>2. filters'[2 * e] = filters[2 * e]
        BY <2>0, <2>2, <3>1, <4>1
      <4>3. filters'[2 * e - 1] = filters[2 * e - 1]
        BY <2>0, <2>2, <3>1, <4>1
      <4> QED  BY <1>0, <2>9, <3>3, <4>2, <4>3 DEF CodeInv, Placed
    <3> QED  BY <2>0, <2>4, <3>2, <3>3
  <2>5. filters'[0] = Stmt("LD")
    <3>1. 0 \in DOMAIN filters
      BY <1>0, <2>0 DEF FilterTypes
    <3> QED  BY <1>0, <1>3, <2>0, <2>2, <2>9, <3>1 DEF CodeInv
  <2>6. CodeInv'
    BY <1>3, <2>0, <2>1, <2>9, <2>4, <2>5 DEF CodeInv
  <2> QED  BY <1>1, <2>3, <2>6 DEF FInv
<1>4. CASE NewFilterEnd
  <2>1. writeIdx = 2 * Len(raw) + 1
    BY <1>0, <1>4 DEF FilterTypes, CodeInv, NewFilterEnd
  <2>2. FilterTypes' /\ RunInv'
    BY <1>0, <1>4, <2>1 DEF FilterTypes, RunInv, NewFilterEnd
  <2>3. CodeInv'
    BY <1>0, <1>4, <2>1 DEF FilterTypes, CodeInv, Placed, NewFilterEnd
  <2> QED  BY <1>1, <2>2, <2>3 DEF FInv
<1> QED  BY <1>2, <1>3, <1>4

\* A run of the program keeps it.
LEMMA RunKeeps ==
    ASSUME FInv, Execute \/ \E n \in Numbers : Call(n) PROVE FInv'
<1>1. UNCHANGED bvars /\ phase = "ready"
  BY DEF Execute, Call
<1>2. (IndexInv /\ CodeInv)'
  BY <1>1 DEF FInv, IndexInv, CodeInv, Placed, bvars
<1>3. CASE \E n \in Numbers : Call(n)
  BY <1>1, <1>2, <1>3, FilterAssumption
     DEF Call, FInv, FilterTypes, RunInv, Reached, bvars
<1>4. CASE Execute
  <2>0. nr' = nr /\ raw' = raw
    BY <1>1, <1>4 DEF Execute, bvars
  <2>1. CASE pc = 0 /\ verdict = "none"
    <3>1. pc' = 1 /\ verdict' = "none"
      BY <1>1, <1>4, <2>1 DEF Execute, FInv, CodeInv, Stmt
    <3>2. Reached'
      BY <2>0, <3>1 DEF Reached, FInv, FilterTypes
    <3> QED  BY <1>1, <1>2, <2>0, <3>1, <3>2 DEF FInv, FilterTypes, RunInv, bvars
  <2>2. ASSUME NEW i \in 1..Len(raw), pc = 2 * i - 1,
               \A j \in 1..(i - 1) : raw[j].num # nr
        PROVE  FInv'
    <3>1. verdict' = "none" /\ pc' = IF raw[i].num = nr THEN 2 * i ELSE 2 * i + 1
      <4>1. filters[pc] = JumpEq(raw[i].num)
        BY <1>1, <2>2 DEF FInv, CodeInv, Placed
      <4>2. /\ filters[pc].op = "JEQ" /\ filters[pc].k = raw[i].num
            /\ filters[pc].jt = 0 /\ filters[pc].jf = 1
        BY <4>1 DEF JumpEq
      <4>3. verdict' = "none" /\ pc' = pc + 1 + (IF nr = raw[i].num THEN 0 ELSE 1)
        BY <1>4, <4>2 DEF Execute
      <4> QED  BY <2>2, <4>3
    <3>2. Reached'
      <4>1. CASE raw[i].num = nr
        BY <2>0, <3>1, <4>1 DEF Reached
      <4>2. CASE raw[i].num # nr
        <5>1. \A j \in 1..i : raw[j].num # nr
          BY <2>2, <4>2
        <5>2. i + 1 \in 1..(Len(raw) + 1) /\ pc' = 2 * (i + 1) - 1
          BY <3>1, <4>2 DEF FInv, FilterTypes
        <5> QED  BY <2>0, <3>1, <5>1, <5>2 DEF Reached
      <4> QED  BY <4>1, <4>2
    <3> QED  BY <1>1, <1>2, <2>0, <3>1, <3>2 DEF FInv, FilterTypes, RunInv, bvars
  <2>3. ASSUME pc = 2 * Len(raw) + 1, \A j \in 1..Len(raw) : raw[j].num # nr
        PROVE  FInv'
    <3>1. verdict' = "ALLOW" /\ pc' = pc
      BY <1>1, <1>4, <2>3 DEF Execute, FInv, FilterTypes, CodeInv, Stmt
    <3>2. Reached'
      <4>1. Len(raw) + 1 \in 1..(Len(raw) + 1) /\ pc' = 2 * (Len(raw) + 1) - 1
        BY <2>3, <3>1 DEF FInv, FilterTypes
      <4>2. \A j \in 1..((Len(raw) + 1) - 1) : raw[j].num # nr
        BY <2>3 DEF FInv, FilterTypes
      <4> QED  BY <2>0, <3>1, <4>1, <4>2 DEF Reached
    <3> QED  BY <1>1, <1>2, <2>0, <3>1, <3>2 DEF FInv, FilterTypes, RunInv, bvars
  <2>4. ASSUME NEW i \in 1..Len(raw), pc = 2 * i, raw[i].num = nr
        PROVE  FInv'
    <3>1. verdict' = "TRACE" /\ pc' = pc
      BY <1>1, <1>4, <2>4 DEF Execute, FInv, FilterTypes, CodeInv, Placed, Stmt
    <3>2. Reached'
      BY <2>0, <2>4, <3>1 DEF Reached
    <3> QED  BY <1>1, <1>2, <2>0, <3>1, <3>2 DEF FInv, FilterTypes, RunInv, bvars
  <2>5. verdict = "none" /\ Reached /\ Len(raw) \in Nat
    BY <1>1, <1>4 DEF Execute, FInv, FilterTypes, RunInv
  <2>6. ASSUME NEW i \in 1..(Len(raw) + 1), pc = 2 * i - 1,
               \A j \in 1..(i - 1) : raw[j].num # nr
        PROVE  FInv'
    <3>1. CASE i \in 1..Len(raw)
      BY <2>2, <2>6, <3>1
    <3>2. CASE i = Len(raw) + 1
      <4>1. pc = 2 * Len(raw) + 1 /\ \A j \in 1..Len(raw) : raw[j].num # nr
        BY <2>5, <2>6, <3>2
      <4> QED  BY <2>3, <4>1
    <3> QED  BY <2>5, <3>1, <3>2
  <2> QED  BY <2>1, <2>4, <2>5, <2>6 DEF Reached
<1> QED  BY <1>3, <1>4

\* Every step of Filter keeps the invariant.
LEMMA FilterStep == ASSUME FInv, [FilterNext]_fvars PROVE FInv'
<1>1. CASE FilterNext
  BY <1>1, DefineKeeps, NewIndexKeeps, NewFilterKeeps, RunKeeps DEF FilterNext, Build
<1>2. CASE UNCHANGED fvars
  <2>1. FilterTypes' /\ RunInv'
    BY <1>2 DEF FInv, FilterTypes, RunInv, Reached, fvars, bvars
  <2>2. IndexInv => IndexInv'
    BY <1>2 DEF IndexInv, fvars, bvars
  <2>3. CodeInv => CodeInv'
    BY <1>2 DEF CodeInv, Placed, fvars, bvars
  <2> QED  BY <1>2, <2>1, <2>2, <2>3 DEF FInv, fvars, bvars
<1> QED  BY <1>1, <1>2

\* The invariant makes filter and index agree.
LEMMA FilterAgrees == FInv => TracedExactly
<1> SUFFICES ASSUME FInv, phase = "ready"
             PROVE  /\ pc \in 0..writeIdx
                    /\ verdict = "TRACE" => Found(nr) /\ Get(nr).num = nr
                    /\ verdict = "ALLOW" => ~Found(nr)
  BY DEF TracedExactly
<1>0. FilterTypes /\ IndexInv /\ CodeInv /\ RunInv /\ Len(raw) \in Nat
  BY DEF FInv, FilterTypes
<1>1. pc \in 0..writeIdx
  BY <1>0 DEF FilterTypes, CodeInv, RunInv, Reached
<1>2. ASSUME verdict = "TRACE" PROVE Found(nr) /\ Get(nr).num = nr
  <2>1. PICK i \in 1..Len(raw) : raw[i].num = nr
    BY <1>0, <1>2 DEF RunInv, Reached
  <2>2. nr \in 0..(MaxNum - 1) /\ index[nr] # 0
    BY <1>0, <2>1, FilterAssumption DEF FilterTypes, IndexInv
  <2> QED  BY <1>0, <2>2, FilterAssumption DEF IndexInv, Found, Get
<1>3. ASSUME verdict = "ALLOW", Found(nr) PROVE FALSE
  <2>1. \A j \in 1..Len(raw) : raw[j].num # nr
    BY <1>0, <1>3 DEF RunInv, Reached
  <2>2. nr \in 0..(MaxNum - 1) /\ index[nr] # 0
    BY <1>0, <1>3, FilterAssumption DEF FilterTypes, Found
  <2> QED  BY <1>0, <2>1, <2>2 DEF IndexInv
<1> QED  BY <1>1, <1>2, <1>3

\* A step of Augments is one of Filter, or leaves its variables alone.
LEMMA AugmentsStep == [Next]_vars => [FilterNext]_fvars
  BY Zenon DEF Next, vars, Compute, Refused, OtherEntry, Kernel, Exit, Allowed, Child,
         Guest, PermsEntry, SeccompEntry, ExecEntry, FilterNext

\* For every table the build accepts, with numbers repeated or not, the filter
\* traces a call exactly when get_syscall knows it.
THEOREM FilterMatchesIndex == Spec => []TracedExactly
<1>1. Init => FInv
  BY FilterStarts DEF Init
<1>2. FInv /\ [Next]_vars => FInv'
  BY AugmentsStep, FilterStep
<1> QED  BY <1>1, <1>2, FilterAgrees, PTL DEF Spec

-----------------------------------------------------------------------------
(* The ids. *)

\* Under --root every slot holds 0, a non-negative id the guest asked for or one
\* of a set-id file; a call past its filter is one that the filter traced.
IdsInv ==
    /\ ids \in [Slots -> 0..(Word - 1)] /\ ret \in 0..(Word - 1)
    /\ mode = "RootOnly" =>
         \A s \in Slots : ids[s] < Word \div 2 /\ ids[s] \in asked \cup granted \cup {0}
    /\ at \in {"user", "filter", "resumed", "exit"}
    /\ at \in {"resumed", "exit"} => verdict = "TRACE"
    /\ at # "filter" => verdict # "none"

AInv == FInv /\ IdsInv /\ RootAnswers

\* The entry that get_syscall finds for a traced call is one of the table.
LEMMA TracedInfo == ASSUME FInv, verdict = "TRACE" PROVE Get(nr) \in Infos
<1>1. phase = "ready" /\ TracedExactly /\ IndexInv
  BY FilterAgrees DEF FInv, RunInv, FilterTypes
<1>2. nr \in 0..(MaxNum - 1) /\ index[nr] # 0
  BY <1>1, FilterAssumption DEF TracedExactly, Found, FInv, FilterTypes
<1> QED  BY <1>1, <1>2, SMTT(30) DEF IndexInv, Get, FInv, FilterTypes

\* handle_setid under --root returns 0 or a proposed id that is not negative.
LEMMA SetidBounded ==
    ASSUME mode = "RootOnly", NEW p \in 0..(Word - 1)
    PROVE  HandleSetid(p) \in {0, p} /\ HandleSetid(p) < Word \div 2
  BY AugmentsAssumption DEF HandleSetid

\* A setter keeps the slots bounded.
LEMMA PermsEntryKeeps ==
    ASSUME AInv, NEW args \in Args, PermsEntry(args) PROVE IdsInv' /\ RootAnswers'
<1>1. /\ Get(nr) \in Infos /\ args[1] \in 0..(Word - 1) /\ args[2] \in 0..(Word - 1)
      /\ verdict = "TRACE" /\ at' = "resumed" /\ mode' = mode /\ ret' = ret
      /\ verdict' = verdict /\ granted' = granted
  BY TracedInfo, AugmentsAssumption DEF AInv, PermsEntry, Traced, Args, fvars
<1>2. CASE ~(Get(nr).setter /\ mode # "Passthrough")
  BY <1>1, <1>2, Zenon DEF PermsEntry, AInv, IdsInv, RootAnswers
<1>3. CASE Get(nr).setter /\ mode # "Passthrough"
  <2> DEFINE walk == Walk(Get(nr), TRUE)
             pick(s) == CHOOSE w \in walk : w.slot = s
             arg(w) == args[(IF w.from = Retval THEN 0 ELSE w.from) + 1]
  <2>1. ids' = [s \in Slots |-> IF \E w \in walk : w.slot = s
                                THEN HandleSetid(Proposed(args, pick(s).from))
                                ELSE ids[s]]
    BY <1>3, Zenon DEF PermsEntry
  <2>2. asked' = asked \cup {arg(w) : w \in walk}
    BY <1>3, Zenon DEF PermsEntry
  <2>3. \A w \in walk : w.from \in {0, 1, Retval}
    BY DEF Walk, Retval
  <2>4. ASSUME NEW w \in walk
        PROVE  /\ Proposed(args, w.from) \in 0..(Word - 1)
               /\ mode = "RootOnly" => HandleSetid(Proposed(args, w.from)) \in {0, arg(w)}
    <3>1. CASE w.from = Retval /\ arch # "aarch64"
      BY <3>1, AugmentsAssumption
         DEF Proposed, EntryRetval, Negative, ENOSYS, HandleSetid
    <3>2. CASE ~(w.from = Retval /\ arch # "aarch64")
      <4>1. Proposed(args, w.from) = arg(w) /\ arg(w) \in 0..(Word - 1)
        <5>1. CASE w.from = Retval
          BY <1>1, <3>2, <5>1 DEF Proposed, EntryRetval
        <5>2. CASE w.from = 0
          BY <1>1, <5>2 DEF Proposed, Retval
        <5>3. CASE w.from = 1
          BY <1>1, <5>3 DEF Proposed, Retval
        <5> QED  BY <2>3, <5>1, <5>2, <5>3, Zenon
      <4> QED  BY <4>1, SetidBounded
    <3> QED  BY <3>1, <3>2
  <2>5. ASSUME NEW s \in Slots
        PROVE  /\ ids'[s] \in 0..(Word - 1)
               /\ mode = "RootOnly" =>
                    ids'[s] < Word \div 2 /\ ids'[s] \in asked' \cup granted' \cup {0}
    <3>1. CASE \E w \in walk : w.slot = s
      <4>1. pick(s) \in walk
        BY <3>1, Zenon
      <4>2. ids'[s] = HandleSetid(Proposed(args, pick(s).from))
        BY <2>1, <3>1, Zenon
      <4>3. Proposed(args, pick(s).from) \in 0..(Word - 1)
        BY <2>4, <4>1, Zenon
      <4>4. ids'[s] \in 0..(Word - 1)
        BY <4>2, <4>3, AugmentsAssumption DEF HandleSetid
      <4>5. mode = "RootOnly" => ids'[s] < Word \div 2 /\ ids'[s] \in {0, arg(pick(s))}
        BY <2>4, <4>1, <4>2, <4>3, SetidBounded, Zenon
      <4> QED  BY <2>2, <4>1, <4>4, <4>5, Zenon
    <3>2. CASE ~\E w \in walk : w.slot = s
      BY <1>1, <2>1, <2>2, <3>2, Zenon DEF AInv, IdsInv
    <3> QED  BY <3>1, <3>2, Zenon
  <2>6. ids' \in [Slots -> 0..(Word - 1)]
    BY <2>1, <2>5, Zenon
  <2> QED  BY <1>1, <2>5, <2>6 DEF AInv, IdsInv, RootAnswers
<1> QED  BY <1>2, <1>3

\* The exit of a traced call keeps them, and answers from them.
LEMMA ExitKeeps == ASSUME AInv, Exit PROVE IdsInv' /\ RootAnswers'
<1>1. /\ Get(nr) \in Infos /\ verdict = "TRACE" /\ at' = "user"
      /\ UNCHANGED <<fvars, mode, ids, asked, granted>>
  BY TracedInfo DEF AInv, IdsInv, Exit
<1>2. Get(nr)' = Get(nr) /\ verdict' = verdict
  BY <1>1 DEF Get, fvars, bvars
<1>3. Get(nr).slot \in 0..NoSlot
  BY <1>1, AugmentsAssumption
<1>4. CASE Get(nr).augment = "Perms" /\ ~Get(nr).setter /\ mode # "Passthrough"
  <2>1. CASE Get(nr).slot # NoSlot
    <3>1. ret' = ids[Get(nr).slot] /\ Get(nr).slot \in Slots
      BY <1>3, <1>4, <2>1 DEF Exit, NoSlot, Slots
    <3> QED  BY <1>1, <1>2, <3>1 DEF AInv, IdsInv, RootAnswers
  <2>2. CASE Get(nr).slot = NoSlot
    <3>1. ret' = IF ret # 0 /\ ret >= Word \div 2 THEN 0 ELSE ret
      BY <1>4, <2>2 DEF Exit, Fits
    <3>2. ret' \in 0..(Word - 1) /\ ret' < Word \div 2
      BY <3>1, AugmentsAssumption DEF AInv, IdsInv
    <3> QED  BY <1>1, <1>2, <2>2, <3>2 DEF AInv, IdsInv, RootAnswers
  <2> QED  BY <2>1, <2>2
<1>5. CASE ~(Get(nr).augment = "Perms" /\ ~Get(nr).setter /\ mode # "Passthrough")
  <2>1. ret' = ret
    BY <1>5 DEF Exit
  <2> QED  BY <1>1, <1>2, <1>5, <2>1 DEF AInv, IdsInv, RootAnswers
<1> QED  BY <1>4, <1>5

\* Results and errors fit in a usize.
LEMMA ResultsTyped ==
    Results \subseteq 0..(Word - 1) /\ {Negative(ENOENT), Negative(ENOSYS)} \subseteq 0..(Word - 1)
  BY AugmentsAssumption DEF Results, Negative, EPERM, ENOENT, ENOSYS

\* A set-id file puts ids of its own into two slots.
LEMMA ExecEntryKeeps ==
    ASSUME AInv, NEW uid \in Owners \cup {NotSet}, NEW gid \in Owners \cup {NotSet},
           ExecEntry(uid, gid)
    PROVE  IdsInv' /\ RootAnswers'
<1>1. /\ verdict = "TRACE" /\ verdict' = verdict /\ Get(nr)' = Get(nr)
      /\ Get(nr).augment = "Exec" /\ UNCHANGED <<mode, asked>>
      /\ at' \in {"user", "resumed"} /\ ret' \in {ret, Negative(ENOENT)}
  BY DEF ExecEntry, Traced, Get, fvars, bvars
<1>2. RootAnswers'
  BY <1>1, Zenon DEF RootAnswers
<1>3. ids \in [Slots -> 0..(Word - 1)]
  BY DEF AInv, IdsInv
<1>4. granted' = granted \cup ({uid, gid} \ {NotSet})
  BY DEF ExecEntry
<1>5. ASSUME NEW o \in Owners PROVE o \in 0..(Word - 1) /\ o < Word \div 2
  BY AugmentsAssumption
<1>6. ASSUME NEW s \in Slots PROVE ids'[s] \in {ids[s]} \cup (Owners \cap granted')
  <2>1. CASE s = 5 /\ uid # NotSet
    BY <1>3, <1>4, <2>1 DEF ExecEntry, Slots
  <2>2. CASE s = 1 /\ gid # NotSet
    BY <1>3, <1>4, <2>2 DEF ExecEntry, Slots
  <2>3. CASE ~(s = 5 /\ uid # NotSet) /\ ~(s = 1 /\ gid # NotSet)
    BY <1>3, <2>3 DEF ExecEntry, Slots
  <2> QED  BY <2>1, <2>2, <2>3
<1>7. DOMAIN ids' = Slots /\ ids' = [s \in Slots |-> ids'[s]]
  BY <1>3, Zenon DEF ExecEntry
<1>8. ids' \in [Slots -> 0..(Word - 1)]
  BY <1>3, <1>5, <1>6, <1>7, Zenon
<1>9. mode' = "RootOnly" =>
        \A s \in Slots : ids'[s] < Word \div 2 /\ ids'[s] \in (asked \cup granted \cup {0})'
  BY <1>1, <1>4, <1>5, <1>6, Zenon DEF AInv, IdsInv
<1>10. ret' \in 0..(Word - 1)
  BY <1>1, ResultsTyped DEF AInv, IdsInv
<1> QED  BY <1>1, <1>2, <1>8, <1>9, <1>10, Zenon DEF IdsInv

\* Under --root, for every table, widths of usize and uid_t and sequence of calls,
\* a guest is told 0, an id of its own choice or one of a set-id file.
THEOREM RootSeesRoot == Spec => []RootAnswers
<1>1. Init => AInv
  BY FilterStarts, AugmentsAssumption
     DEF Init, FilterInit, AInv, IdsInv, RootAnswers, ConfiguredIds
<1>2. AInv /\ [Next]_vars => AInv'
  <2> SUFFICES ASSUME AInv, [Next]_vars PROVE AInv'
    OBVIOUS
  <2>1. FInv'
    BY AugmentsStep, FilterStep DEF AInv
  <2>2. ASSUME NEW args \in Args, PermsEntry(args) PROVE AInv'
    BY <2>1, <2>2, PermsEntryKeeps DEF AInv
  <2>3. CASE Exit
    BY <2>1, <2>3, ExitKeeps DEF AInv
  <2>4. CASE Compute
    <3>1. UNCHANGED avars /\ (verdict' = verdict \/ verdict = "none")
      BY <2>4 DEF Compute, Build, Define, DefineEnd, NewIndex, NewIndexEnd,
                  NewFilter, NewFilterEnd, Execute
    <3>2. verdict' = "TRACE" /\ at = "user" => UNCHANGED fvars
      BY <2>4, <3>1 DEF Compute, Build, Define, DefineEnd, NewIndex, NewIndexEnd,
                  NewFilter, NewFilterEnd, Execute, AInv, FInv, RunInv, IdsInv
    <3>3. IdsInv'
      BY <3>1 DEF AInv, IdsInv, avars
    <3>4. RootAnswers'
      BY <3>1, <3>2 DEF AInv, RootAnswers, Get, avars, fvars, bvars
    <3> QED  BY <2>1, <3>3, <3>4 DEF AInv
  <2>5. ASSUME NEW n \in Numbers, Guest(n) PROVE AInv'
    BY <2>1, <2>5, AugmentsAssumption DEF Guest, Call, AInv, IdsInv, RootAnswers
  <2>6. CASE OtherEntry \/ Kernel
    BY <2>1, <2>6, ResultsTyped, Zenon
       DEF OtherEntry, Kernel, Traced, AInv, IdsInv, RootAnswers, fvars
  <2>7. CASE Allowed
    BY <2>1, <2>7, ResultsTyped DEF Allowed, AInv, IdsInv, RootAnswers, fvars
  <2>8. ASSUME NEW args \in Args, SeccompEntry(args) PROVE AInv'
    <3>1. /\ verdict' = verdict /\ verdict = "TRACE" /\ Get(nr)' = Get(nr)
          /\ Get(nr).augment = "Seccomp" /\ UNCHANGED <<mode, ids, asked, granted>>
          /\ at' \in {"user", "resumed"} /\ ret' \in {ret, Negative(ENOSYS)}
      BY <2>8 DEF SeccompEntry, Traced, Get, fvars, bvars
    <3> QED  BY <2>1, <3>1, ResultsTyped DEF AInv, IdsInv, RootAnswers
  <2>9. CASE Child
    BY <2>1, <2>9, AugmentsAssumption
       DEF Child, ConfiguredIds, AInv, IdsInv, RootAnswers, fvars
  <2>10. CASE Refused \/ UNCHANGED vars
    BY <2>1, <2>10 DEF Refused, vars, avars, fvars, bvars, AInv, IdsInv, RootAnswers, Get
  <2>11. ASSUME NEW uid \in Owners \cup {NotSet}, NEW gid \in Owners \cup {NotSet},
                ExecEntry(uid, gid)
         PROVE  AInv'
    BY <2>1, <2>11, ExecEntryKeeps DEF AInv
  <2> QED  BY <2>2, <2>3, <2>4, <2>5, <2>6, <2>7, <2>8, <2>9, <2>10, <2>11 DEF Next
<1>3. AInv => RootAnswers
  BY DEF AInv
<1> QED  BY <1>1, <1>2, <1>3, PTL DEF Spec
=============================================================================
