---------------------------- MODULE RegionsProofs ----------------------------
(***************************************************************************)
(* Proofs about Regions for any number of threads, process numbers and     *)
(* regions.  All but the last suppose that the kernel does not reuse a     *)
(* process number before its tracer thread is over.                        *)
(***************************************************************************)
EXTENDS Regions, TLAPS

Regular == ~EarlyReuse

(* The vector lists no region twice, and none that was lost. *)
VecInv ==
    /\ \A i, j \in 1..Len(available) : available[i] = available[j] => i = j
    /\ \A i \in 1..Len(available) :
          available[i] \notin leaked /\ content[available[i]] = {}

(* A running thread's region is its own in every table. *)
OwnInv ==
    \A t \in Threads : Running(t) /\ cache[t] # None =>
        /\ \A i \in 1..Len(available) : available[i] # cache[t]
        /\ cache[t] \notin leaked
        /\ byPid[pid[t]] = cache[t]
        /\ content[cache[t]] \subseteq {t}

(* Running threads trace different processes and have different regions. *)
PairInv ==
    \A t, u \in Threads : Running(t) /\ Running(u) /\ t # u =>
        /\ pid[t] # pid[u]
        /\ cache[t] # None => cache[t] # cache[u]

(* How far the initialization of a thread's region has gone. *)
PhaseInv ==
    \A t \in Threads :
        /\ phase[t] = "unborn" => cache[t] = None
        /\ phase[t] = "mapping" => cache[t] # None
        /\ Running(t) /\ mem[t] = "direct" => cache[t] # None
        /\ phase[t] = "tracing" /\ mem[t] = "direct" => maps[t] \in {cache[t], Failed}

IInv == TypeOK /\ VecInv /\ OwnInv /\ PairInv /\ PhaseInv

(* The number that stands for None is not a region of SHARED_REGIONS. *)
LEMMA RegionFacts == Regions \subseteq Nat /\ None \notin Regions /\ None \in Nat
  BY RegionsAssumption DEF Regions, None

(* Vec::pop takes the last number of AVAILABLE_REGION_IDS and leaves the others. *)
LEMMA PopFacts ==
  ASSUME available \in Seq(Regions), available # <<>>
  PROVE  /\ Len(available) \in Nat \ {0}
         /\ Popped \in Regions
         /\ Rest \in Seq(Regions)
         /\ Len(Rest) = Len(available) - 1
         /\ \A i \in 1..Len(Rest) : i \in 1..Len(available) /\ Rest[i] = available[i]
<1>1. Len(available) \in Nat \ {0}
  OBVIOUS
<1>2. Popped \in Regions
  BY <1>1 DEF Popped
<1>3. Rest \in Seq(Regions) /\ Len(Rest) = Len(available) - 1
  BY <1>1 DEF Rest
<1>4. ASSUME NEW i \in 1..Len(Rest)
      PROVE  i \in 1..Len(available) /\ Rest[i] = available[i]
  BY <1>1, <1>3 DEF Rest
<1>5. QED
  BY <1>1, <1>2, <1>3, <1>4

(* Every step of a tracer thread, of get_own_region_id and of close_tracee    *)
(* included, preserves the inductive invariant.                               *)
LEMMA RegionsStep ==
  ASSUME Regular, IInv, [Next]_vars
  PROVE  IInv'
<1>a. TypeOK /\ VecInv /\ OwnInv /\ PairInv /\ PhaseInv
  BY DEF IInv
<1>b. ~EarlyReuse
  BY DEF Regular
<1>1. ASSUME NEW t \in Threads, NEW u \in Threads, Start(t, u)
      PROVE  IInv'
  <2>1. TypeOK'
    BY <1>a, <1>1 DEF Start, InitialMem, tables, TypeOK
  <2>2. VecInv'
    BY <1>a, <1>1 DEF Start, tables, VecInv
  <2>3. cache[t] = None /\ ~Running(t)
    BY <1>a, <1>1 DEF Start, PhaseInv, Running
  <2>4. \A v \in Threads : v # t => (Running(v)' <=> Running(v))
    BY <1>a, <1>1 DEF Start, TypeOK, Running
  <2>5. \A v \in Threads : v # t /\ Running(v) => pid[v] # pid[t]
    BY <1>b, <1>1 DEF Start, PidFree
  <2>6. OwnInv'
    BY <1>a, <1>1, <2>3, <2>4 DEF Start, tables, OwnInv
  <2>7. PairInv'
    BY <1>a, <1>1, <2>3, <2>4, <2>5 DEF Start, tables, PairInv
  <2>8. PhaseInv'
    BY <1>a, <1>1, <2>3, <2>4 DEF Start, InitialMem, tables, TypeOK, PhaseInv
  <2>9. QED
    BY <2>1, <2>2, <2>6, <2>7, <2>8 DEF IInv
<1>2. ASSUME NEW t \in Threads, Execve(t)
      PROVE  IInv'
  <2>1. Running(t) /\ phase[t] = "tracing"
    BY <1>2 DEF Execve, Running
  <2>2. \A v \in Threads : Running(v)' <=> Running(v)
    BY <1>a, <1>2 DEF Execve, GetOwnRegionId, TypeOK, Running
  <2>3. CASE /\ UNCHANGED <<available, byPid, cache>>
             /\ phase' = [phase EXCEPT ![t] = IF cache[t] # None THEN "mapping" ELSE "closing"]
    <3>1. TypeOK'
      BY <1>a, <1>2, <2>3, RegionFacts DEF Execve, TypeOK
    <3>2. VecInv' /\ OwnInv' /\ PairInv'
      BY <1>a, <1>2, <2>2, <2>3 DEF Execve, VecInv, OwnInv, PairInv
    <3>3. phase'[t] = "mapping" => cache[t] # None
      BY <1>a, <2>3 DEF TypeOK
    <3>4. \A v \in Threads : v # t => phase'[v] = phase[v] /\ maps'[v] = maps[v]
      BY <1>a, <1>2 DEF Execve, GetOwnRegionId, TypeOK
    <3>5. PhaseInv'
      <4>1. phase'[t] \in {"mapping", "closing"} /\ cache' = cache /\ mem' = mem
        BY <1>a, <1>2, <2>3 DEF Execve, TypeOK
      <4>2. mem[t] = "direct" => cache[t] # None
        BY <1>a, <2>1 DEF PhaseInv
      <4>3. QED
        BY <1>a, <2>2, <3>3, <3>4, <4>1, <4>2 DEF PhaseInv
    <3>6. QED
      BY <3>1, <3>2, <3>5 DEF IInv
  <2>4. CASE /\ cache[t] = None
             /\ available # <<>>
             /\ available' = Rest
             /\ cache' = [cache EXCEPT ![t] = Popped]
             /\ byPid' = [byPid EXCEPT ![pid[t]] = Popped]
             /\ phase' = [phase EXCEPT ![t] = "mapping"]
    <3>0. /\ Popped \in Regions
          /\ Rest \in Seq(Regions)
          /\ Len(Rest) = Len(available) - 1
          /\ Len(available) \in Nat \ {0}
          /\ \A i \in 1..Len(Rest) : i \in 1..Len(available) /\ Rest[i] = available[i]
      BY <1>a, <2>4, PopFacts DEF TypeOK
    <3>1. TypeOK'
      BY <1>a, <1>2, <2>4, <3>0 DEF Execve, TypeOK
    <3>2. VecInv'
      <4>1. \A i \in 1..Len(available') :
               i \in 1..Len(available) /\ available'[i] = available[i]
        BY <2>4, <3>0
      <4>2. leaked' = leaked /\ content' = content
        BY <1>2 DEF Execve
      <4>3. QED
        BY <1>a, <4>1, <4>2, Zenon DEF VecInv
    <3>3. /\ \A i \in 1..Len(Rest) : Rest[i] # Popped
          /\ Popped \notin leaked /\ content[Popped] = {}
      BY <1>a, <3>0 DEF VecInv, Popped
    <3>4. \A v \in Threads : Running(v) /\ cache[v] # None => cache[v] # Popped
      BY <1>a, <3>0 DEF OwnInv, Popped
    <3>5. OwnInv'
      <4>1. SUFFICES ASSUME NEW v \in Threads, Running(v)', cache'[v] # None
                     PROVE  /\ \A i \in 1..Len(available') : available'[i] # cache'[v]
                            /\ cache'[v] \notin leaked'
                            /\ byPid'[pid'[v]] = cache'[v]
                            /\ content'[cache'[v]] \subseteq {v}
        BY DEF OwnInv, Running
      <4>2. CASE v = t
        BY <1>a, <1>2, <2>4, <3>0, <3>3, <4>2 DEF Execve, TypeOK
      <4>3. CASE v # t
        <5>1. Running(v) /\ cache'[v] = cache[v] /\ cache[v] # None
          BY <1>a, <2>2, <2>4, <4>1, <4>3 DEF TypeOK
        <5>2. pid[v] # pid[t]
          BY <1>a, <2>1, <4>3, <5>1 DEF PairInv
        <5>3. byPid'[pid[v]] = byPid[pid[v]]
          BY <1>a, <2>4, <5>2 DEF TypeOK
        <5>4. QED
          <6>1. /\ \A i \in 1..Len(available) : available[i] # cache[v]
                /\ cache[v] \notin leaked
                /\ byPid[pid[v]] = cache[v]
                /\ content[cache[v]] \subseteq {v}
            BY <1>a, <5>1 DEF OwnInv
          <6>2. \A i \in 1..Len(available') : available'[i] # cache[v]
            BY <2>4, <3>0, <6>1
          <6>3. leaked' = leaked /\ content' = content /\ pid' = pid
            BY <1>2 DEF Execve
          <6>4. QED
            BY <5>1, <5>3, <6>1, <6>2, <6>3
      <4>4. QED
        BY <4>2, <4>3
    <3>6. PairInv'
      <4>1. SUFFICES ASSUME NEW v \in Threads, NEW w \in Threads,
                            Running(v)', Running(w)', v # w
                     PROVE  pid'[v] # pid'[w] /\ (cache'[v] # None => cache'[v] # cache'[w])
        BY DEF PairInv
      <4>2. Running(v) /\ Running(w) /\ pid[v] # pid[w] /\ pid' = pid
        BY <1>a, <1>2, <2>2, <4>1 DEF Execve, PairInv
      <4>3. cache[v] # None => cache[v] # cache[w]
        BY <1>a, <4>1, <4>2 DEF PairInv
      <4>4. Popped # None
        BY <3>0, RegionFacts
      <4>5. CASE v = t
        BY <1>a, <2>4, <3>4, <4>1, <4>2, <4>4, <4>5 DEF TypeOK
      <4>6. CASE w = t
        BY <1>a, <2>4, <3>4, <4>1, <4>2, <4>6 DEF TypeOK
      <4>7. CASE v # t /\ w # t
        BY <1>a, <2>4, <4>2, <4>3, <4>7 DEF TypeOK
      <4>8. QED
        BY <4>5, <4>6, <4>7
    <3>7. PhaseInv'
      <4>1. \A v \in Threads : v # t => maps'[v] = maps[v]
        BY <1>a, <1>2 DEF Execve, TypeOK
      <4>2. Popped # None
        BY <3>0, RegionFacts
      <4>3. QED
        BY <1>a, <1>2, <2>2, <2>4, <4>1, <4>2 DEF Execve, TypeOK, PhaseInv
    <3>8. QED
      BY <3>1, <3>2, <3>5, <3>6, <3>7 DEF IInv
  <2>5. QED
    BY <1>a, <1>2, <2>3, <2>4 DEF Execve, GetOwnRegionId, TypeOK
<1>3. ASSUME NEW t \in Threads, MmapReturns(t)
      PROVE  IInv'
  <2>1. \A v \in Threads : Running(v)' <=> Running(v)
    BY <1>a, <1>3 DEF MmapReturns, TypeOK, Running
  <2>2. TypeOK'
    BY <1>a, <1>3 DEF MmapReturns, tables, TypeOK
  <2>3. VecInv' /\ OwnInv' /\ PairInv'
    BY <1>a, <1>3, <2>1 DEF MmapReturns, tables, VecInv, OwnInv, PairInv
  <2>4. PhaseInv'
    BY <1>a, <1>3, <2>1 DEF MmapReturns, tables, TypeOK, PhaseInv
  <2>5. QED
    BY <2>2, <2>3, <2>4 DEF IInv
<1>4. ASSUME NEW t \in Threads, Write(t)
      PROVE  IInv'
  <2>1. Running(t) /\ \A v \in Threads : Running(v)' <=> Running(v)
    BY <1>4 DEF Write, Running
  <2>2. cache[t] \in Regions /\ content[cache[t]] \subseteq {t}
    BY <1>a, <1>4, <2>1 DEF Write, TypeOK, OwnInv
  <2>3. TypeOK'
    BY <1>a, <1>4, <2>2 DEF Write, TypeOK
  <2>4. \A i \in 1..Len(available) : available[i] # cache[t]
    BY <1>a, <1>4, <2>1 DEF Write, OwnInv
  <2>5. \A i \in 1..Len(available) : available[i] \in Regions
    BY <1>a DEF TypeOK
  <2>6. VecInv'
    BY <1>a, <1>4, <2>4, <2>5 DEF Write, TypeOK, VecInv
  <2>7. \A v \in Threads : Running(v) /\ cache[v] # None /\ v # t => cache[v] # cache[t]
    BY <1>a, <2>1 DEF PairInv
  <2>8. OwnInv'
    BY <1>a, <1>4, <2>1, <2>2, <2>7 DEF Write, TypeOK, OwnInv
  <2>9. PairInv' /\ PhaseInv'
    BY <1>a, <1>4, <2>1 DEF Write, PairInv, PhaseInv
  <2>10. QED
    BY <2>3, <2>6, <2>8, <2>9 DEF IInv
<1>5. ASSUME NEW t \in Threads, LoopsEnd(t)
      PROVE  IInv'
  <2>1. \A v \in Threads : Running(v)' <=> Running(v)
    BY <1>a, <1>5 DEF LoopsEnd, TypeOK, Running
  <2>2. TypeOK'
    BY <1>a, <1>5, Zenon DEF LoopsEnd, tables, TypeOK
  <2>3. VecInv' /\ OwnInv' /\ PairInv'
    BY <1>a, <1>5, <2>1 DEF LoopsEnd, tables, VecInv, OwnInv, PairInv
  <2>4. PhaseInv'
    BY <1>a, <1>5, <2>1 DEF LoopsEnd, tables, TypeOK, PhaseInv
  <2>5. QED
    BY <2>2, <2>3, <2>4 DEF IInv
<1>6. ASSUME NEW t \in Threads, phase' = [phase EXCEPT ![t] = "over"],
             alive' = [alive EXCEPT ![t] = FALSE],
             leaked' = leaked \cup LeftBehind(t), Running(t),
             UNCHANGED <<tables, pid, cache, mem, maps>>
      PROVE  IInv'
  <2>1. ~Running(t)' /\ \A v \in Threads : v # t => (Running(v)' <=> Running(v))
    BY <1>a, <1>6 DEF TypeOK, Running
  <2>2. TypeOK'
    BY <1>a, <1>6 DEF LeftBehind, tables, TypeOK
  <2>3. VecInv'
    BY <1>a, <1>6 DEF LeftBehind, tables, VecInv, OwnInv
  <2>4. OwnInv'
    BY <1>a, <1>6, <2>1 DEF LeftBehind, tables, OwnInv, PairInv
  <2>5. PairInv'
    BY <1>a, <1>6, <2>1 DEF tables, PairInv
  <2>6. PhaseInv'
    BY <1>a, <1>6, <2>1 DEF tables, TypeOK, PhaseInv
  <2>7. QED
    BY <2>2, <2>3, <2>4, <2>5, <2>6 DEF IInv
<1>7. ASSUME NEW t \in Threads, phase[t] = "closing", CloseDirect(t),
             phase' = [phase EXCEPT ![t] = "over"],
             alive' = [alive EXCEPT ![t] = FALSE],
             UNCHANGED <<pid, cache, mem, maps>>
      PROVE  IInv'
  <2>1. Running(t) /\ cache[t] # None /\ byPid[pid[t]] = cache[t]
    BY <1>a, <1>7 DEF CloseDirect, PhaseInv, OwnInv, Running
  <2>2. cache[t] \in Regions
    BY <1>a, <2>1 DEF TypeOK
  <2>3. ~Running(t)' /\ \A v \in Threads : v # t => (Running(v)' <=> Running(v))
    BY <1>a, <1>7 DEF TypeOK, Running
  <2>4. TypeOK'
    BY <1>a, <1>7, <2>1, <2>2 DEF CloseDirect, TypeOK
  <2>5. /\ Len(available') = Len(available) + 1
        /\ Len(available) \in Nat
        /\ available'[Len(available) + 1] = cache[t]
        /\ \A i \in 1..Len(available) : available'[i] = available[i]
        /\ \A i \in 1..Len(available) : available[i] \in Regions
    BY <1>a, <1>7, <2>1, <2>2 DEF CloseDirect, TypeOK
  <2>6. /\ \A i \in 1..Len(available) : available[i] # cache[t]
        /\ cache[t] \notin leaked
    BY <1>a, <2>1 DEF OwnInv
  <2>7. /\ content'[cache[t]] = {}
        /\ \A r \in Regions : r # cache[t] => content'[r] = content[r]
        /\ leaked' = leaked
    BY <1>a, <1>7, <2>1, <2>2 DEF CloseDirect, TypeOK
  <2>8. \A i \in 1..Len(available') : i \in 1..Len(available) \/ i = Len(available) + 1
    BY <2>5
  <2>9. VecInv'
    <3>1. ASSUME NEW i \in 1..Len(available'), NEW j \in 1..Len(available'),
                 available'[i] = available'[j]
          PROVE  i = j
      BY <1>a, <2>5, <2>6, <2>8, <3>1 DEF VecInv
    <3>2. ASSUME NEW i \in 1..Len(available')
          PROVE  available'[i] \notin leaked' /\ content'[available'[i]] = {}
      <4>1. CASE i \in 1..Len(available)
        BY <1>a, <2>5, <2>6, <2>7, <4>1, Zenon DEF VecInv
      <4>2. CASE i = Len(available) + 1
        BY <2>5, <2>6, <2>7, <4>2
      <4>3. QED
        BY <2>8, <4>1, <4>2
    <3>3. QED
      BY <3>1, <3>2 DEF VecInv
  <2>10. OwnInv'
    <3>1. SUFFICES ASSUME NEW v \in Threads, Running(v)', cache[v] # None
                   PROVE  /\ \A i \in 1..Len(available') : available'[i] # cache[v]
                          /\ cache[v] \notin leaked
                          /\ byPid'[pid[v]] = cache[v]
                          /\ content'[cache[v]] \subseteq {v}
      BY <1>7, <2>7 DEF OwnInv
    <3>2. v # t /\ Running(v) /\ pid[v] # pid[t] /\ cache[v] # cache[t]
      BY <1>a, <2>1, <2>3, <3>1 DEF PairInv
    <3>3. byPid'[pid[v]] = byPid[pid[v]]
      BY <1>a, <1>7, <3>2 DEF CloseDirect, TypeOK
    <3>4. cache[v] \in Regions
      BY <1>a, <3>1 DEF TypeOK
    <3>5. QED
      <4>1. /\ \A i \in 1..Len(available) : available[i] # cache[v]
            /\ cache[v] \notin leaked
            /\ byPid[pid[v]] = cache[v]
            /\ content[cache[v]] \subseteq {v}
        BY <1>a, <3>1, <3>2 DEF OwnInv
      <4>2. \A i \in 1..Len(available') : available'[i] # cache[v]
        BY <2>5, <2>8, <3>2, <4>1
      <4>3. QED
        BY <2>7, <3>2, <3>3, <3>4, <4>1, <4>2
  <2>11. PairInv'
    BY <1>a, <1>7, <2>3 DEF PairInv
  <2>12. PhaseInv'
    BY <1>a, <1>7, <2>3 DEF TypeOK, PhaseInv
  <2>13. QED
    BY <2>4, <2>9, <2>10, <2>11, <2>12 DEF IInv
<1>8. ASSUME NEW t \in Threads, Close(t)
      PROVE  IInv'
  <2>1. Running(t)
    BY <1>8 DEF Close, Running
  <2>2. QED
    BY <1>6, <1>7, <1>8, <2>1, Zenon DEF Close, CloseSlow, CloseUnknown
<1>9. ASSUME NEW t \in Threads, Crash(t)
      PROVE  IInv'
  <2>1. Running(t)
    BY <1>9 DEF Crash, Running
  <2>2. QED
    BY <1>6, <1>9, <2>1, Zenon DEF Crash
<1>10. CASE UNCHANGED vars
  <2>1. TypeOK' /\ VecInv'
    BY <1>a, <1>10 DEF vars, TypeOK, VecInv
  <2>2. OwnInv' /\ PairInv' /\ PhaseInv'
    BY <1>a, <1>10 DEF vars, OwnInv, PairInv, PhaseInv, Running
  <2>3. QED
    BY <2>1, <2>2 DEF IInv
<1>11. QED
  BY <1>1, <1>2, <1>3, <1>4, <1>5, <1>8, <1>9, <1>10 DEF Next

(* The inductive invariant holds from AVAILABLE_REGION_IDS's first value on. *)
LEMMA RegionsInvariance == Regular => (Spec => []IInv)
<1> SUFFICES ASSUME Regular PROVE Spec => []IInv
  OBVIOUS
<1>1. Init => IInv
  <2>1. SUFFICES ASSUME Init PROVE IInv
    OBVIOUS
  <2>2. TypeOK
    <3>1. available \in Seq(Regions)
      BY <2>1, RegionsAssumption DEF Init, AllRegionIds, Regions
    <3>2. QED
      BY <2>1, <3>1 DEF Init, TypeOK
  <2>3. \A t \in Threads : ~Running(t) /\ cache[t] = None /\ mem[t] = "slow"
    BY <2>1 DEF Init, Running
  <2>4. VecInv
    BY <2>1, RegionsAssumption DEF Init, VecInv, AllRegionIds, Regions
  <2>5. OwnInv /\ PairInv /\ PhaseInv
    BY <2>1, <2>3 DEF Init, OwnInv, PairInv, PhaseInv
  <2>6. QED
    BY <2>2, <2>4, <2>5 DEF IInv
<1>2. IInv /\ [Next]_vars => IInv'
  BY RegionsStep
<1>3. QED
  BY <1>1, <1>2, PTL DEF Spec

(***************************************************************************)
(* A region of the shared memory file is never in two hands, however the   *)
(* tracer threads start, exec, fail and close.                             *)
(***************************************************************************)
THEOREM RegionsExclusive == Regular => (Spec => [](TypeOK /\ Exclusive))
<1> SUFFICES ASSUME Regular PROVE Spec => [](TypeOK /\ Exclusive)
  OBVIOUS
<1>1. IInv => TypeOK /\ Exclusive
  <2>1. SUFFICES ASSUME IInv PROVE Exclusive
    BY DEF IInv
  <2>2. None \notin Regions
    BY RegionFacts
  <2>3. QED
    <3>1. ASSUME NEW r \in Regions, NEW t \in Threads, Holds(t, r)
          PROVE  r \notin Available /\ \A u \in Threads \ {t} : ~Holds(u, r)
      <4>1. Running(t) /\ cache[t] = r /\ r # None
        BY <2>2, <3>1 DEF Holds
      <4>2. r \notin Available
        BY <2>1, <4>1 DEF IInv, OwnInv, Available
      <4>3. \A u \in Threads \ {t} : ~Holds(u, r)
        BY <2>1, <4>1 DEF IInv, PairInv, Holds
      <4>4. QED
        BY <4>2, <4>3
    <3>2. QED
      BY <3>1 DEF Exclusive
<1>2. QED
  BY <1>1, RegionsInvariance, PTL

(***************************************************************************)
(* A region holds nothing but what was written for the tracee that has it, *)
(* and nothing at all while it is available.                               *)
(***************************************************************************)
THEOREM RegionsClean == Regular => (Spec => []NoForeignBytes)
<1> SUFFICES ASSUME Regular PROVE Spec => []NoForeignBytes
  OBVIOUS
<1>1. IInv => NoForeignBytes
  <2>1. SUFFICES ASSUME IInv PROVE NoForeignBytes
    OBVIOUS
  <2>2. ASSUME NEW t \in Threads, NEW r \in Regions, Holds(t, r)
        PROVE  content[r] \subseteq {t}
    BY <2>1, <2>2, RegionFacts DEF IInv, OwnInv, Holds
  <2>3. \A r \in Available : content[r] = {}
    BY <2>1 DEF IInv, VecInv, Available
  <2>4. QED
    BY <2>2, <2>3 DEF NoForeignBytes
<1>2. QED
  BY <1>1, RegionsInvariance, PTL

(***************************************************************************)
(* Whenever a thread writes through the direct helpers its tracee has the  *)
(* region mapped at the address it is told, or its mmap failed.            *)
(***************************************************************************)
THEOREM RegionsWritesLand == Regular => (Spec => []WritesLand)
<1> SUFFICES ASSUME Regular PROVE Spec => []WritesLand
  OBVIOUS
<1>1. IInv => WritesLand
  BY DEF IInv, PhaseInv, WritesLand, Running
<1>2. QED
  BY <1>1, RegionsInvariance, PTL

(***************************************************************************)
(* close_tracee finds in REGION_IDS_BY_PID the region its thread took.     *)
(***************************************************************************)
THEOREM RegionsCloseFinds == Regular => (Spec => []CloseFinds)
<1> SUFFICES ASSUME Regular PROVE Spec => []CloseFinds
  OBVIOUS
<1>1. IInv => CloseFinds
  BY DEF IInv, OwnInv, PhaseInv, CloseFinds, Running
<1>2. QED
  BY <1>1, RegionsInvariance, PTL

(***************************************************************************)
(* The tables of mem_direct.rs implement the abstract pool: every step of  *)
(* a tracer thread takes a region nobody has, gives back exactly the       *)
(* region that thread has, loses it, or changes nothing of the pool.       *)
(***************************************************************************)
LEMMA PoolStep ==
  ASSUME Regular, IInv, [Next]_vars
  PROVE  [Pool!Next]_(Pool!poolVars)
<1>a. TypeOK /\ VecInv /\ OwnInv /\ PairInv /\ PhaseInv
  BY DEF IInv
<1>b. None \notin Regions
  BY RegionFacts
<1>c. ASSUME \A v \in Threads : Running(v)' <=> Running(v),
             UNCHANGED <<available, cache, leaked>>
      PROVE  UNCHANGED Pool!poolVars
  <2>1. Owned' = Owned
    BY <1>c DEF Owned, Holds
  <2>2. QED
    BY <1>c, <2>1 DEF Pool!poolVars, Available
<1>d. ASSUME NEW t \in Threads, Running(t), ~Running(t)',
             \A v \in Threads : v # t => (Running(v)' <=> Running(v)), cache' = cache
      PROVE  /\ Owned' = [Owned EXCEPT ![t] = {}]
             /\ cache[t] # None => cache[t] \in Regions /\ Owned[t] = {cache[t]}
             /\ cache[t] = None => Owned[t] = {}
  <2>1. \A r \in Regions : ~Holds(t, r)'
    BY <1>d DEF Holds
  <2>2. \A v \in Threads \ {t} : \A r \in Regions : Holds(v, r)' <=> Holds(v, r)
    BY <1>d DEF Holds
  <2>3. Owned' = [Owned EXCEPT ![t] = {}]
    BY <2>1, <2>2, Zenon DEF Owned
  <2>4. Owned[t] = {r \in Regions : cache[t] = r}
    BY <1>d DEF Owned, Holds
  <2>5. cache[t] \in Regions \cup {None}
    BY <1>a DEF TypeOK
  <2>6. QED
    BY <1>b, <2>3, <2>4, <2>5
<1>1. ASSUME NEW t \in Threads, NEW u \in Threads, Start(t, u)
      PROVE  UNCHANGED Pool!poolVars
  <2>1. cache[t] = None /\ UNCHANGED <<available, cache, leaked>>
    BY <1>a, <1>1 DEF Start, tables, PhaseInv
  <2>2. \A v \in Threads : v # t => (Running(v)' <=> Running(v))
    BY <1>a, <1>1 DEF Start, TypeOK, Running
  <2>3. Owned' = Owned
    BY <1>b, <2>1, <2>2 DEF Owned, Holds
  <2>4. QED
    BY <2>1, <2>3 DEF Pool!poolVars, Available
<1>2. ASSUME NEW t \in Threads, Execve(t)
      PROVE  UNCHANGED Pool!poolVars \/ Pool!Next
  <2>1. Running(t)
    BY <1>2 DEF Execve, Running
  <2>2. \A v \in Threads : Running(v)' <=> Running(v)
    BY <1>a, <1>2 DEF Execve, GetOwnRegionId, TypeOK, Running
  <2>3. CASE UNCHANGED <<available, cache>>
    BY <1>2, <1>c, <2>2, <2>3 DEF Execve
  <2>4. CASE /\ cache[t] = None
             /\ available # <<>>
             /\ available' = Rest
             /\ cache' = [cache EXCEPT ![t] = Popped]
    <3>1. /\ Popped \in Regions
          /\ Len(available) \in Nat \ {0}
          /\ Len(Rest) = Len(available) - 1
          /\ \A i \in 1..Len(Rest) : i \in 1..Len(available) /\ Rest[i] = available[i]
      BY <1>a, <2>4, PopFacts DEF TypeOK
    <3>2. Popped \in Available
      BY <3>1 DEF Popped, Available
    <3>3. Available' = Available \ {Popped}
      <4>1. \A i \in 1..Len(Rest) : Rest[i] # Popped
        BY <1>a, <3>1 DEF VecInv, Popped
      <4>2. \A i \in 1..Len(available) : i \in 1..Len(Rest) \/ available[i] = Popped
        BY <3>1 DEF Popped
      <4>3. Available' = {Rest[i] : i \in 1..Len(Rest)}
        BY <2>4 DEF Available
      <4>4. QED
        BY <3>1, <4>1, <4>2, <4>3, Zenon DEF Available
    <3>4. Owned[t] = {}
      BY <1>b, <2>4 DEF Owned, Holds
    <3>5. Owned' = [Owned EXCEPT ![t] = {Popped}]
      BY <1>a, <2>1, <2>2, <2>4, <3>1, Zenon DEF Owned, Holds, TypeOK
    <3>6. Pool!Take(t, Popped)
      BY <1>2, <3>2, <3>3, <3>4, <3>5 DEF Execve, Pool!Take
    <3>7. QED
      BY <3>1, <3>6 DEF Pool!Next
  <2>5. QED
    BY <1>2, <2>3, <2>4 DEF Execve, GetOwnRegionId
<1>3. ASSUME NEW t \in Threads, MmapReturns(t) \/ Write(t) \/ LoopsEnd(t)
      PROVE  UNCHANGED Pool!poolVars
  <2>1. \A v \in Threads : Running(v)' <=> Running(v)
    BY <1>a, <1>3 DEF MmapReturns, Write, LoopsEnd, TypeOK, Running
  <2>2. UNCHANGED <<available, cache, leaked>>
    BY <1>3 DEF MmapReturns, Write, LoopsEnd, tables
  <2>3. QED
    BY <1>c, <2>1, <2>2
<1>4. ASSUME NEW t \in Threads, phase' = [phase EXCEPT ![t] = "over"],
             leaked' = leaked \cup LeftBehind(t), Running(t),
             UNCHANGED <<available, cache>>
      PROVE  UNCHANGED Pool!poolVars \/ Pool!Next
  <2>1. ~Running(t)' /\ \A v \in Threads : v # t => (Running(v)' <=> Running(v))
    BY <1>a, <1>4 DEF TypeOK, Running
  <2>2. /\ Owned' = [Owned EXCEPT ![t] = {}]
        /\ cache[t] # None => cache[t] \in Regions /\ Owned[t] = {cache[t]}
        /\ cache[t] = None => Owned[t] = {}
    BY <1>4, <1>d, <2>1
  <2>3. Available' = Available
    BY <1>4 DEF Available
  <2>4. CASE cache[t] = None
    <3>1. leaked' = leaked
      BY <1>4, <2>4 DEF LeftBehind
    <3>2. Owned' = Owned
      BY <2>2, <2>4, Zenon DEF Owned
    <3>3. QED
      BY <2>3, <3>1, <3>2 DEF Pool!poolVars
  <2>5. CASE cache[t] # None
    <3>1. leaked' = leaked \cup {cache[t]}
      BY <1>4, <2>5 DEF LeftBehind
    <3>2. Pool!Lose(t, cache[t])
      BY <2>2, <2>3, <2>5, <3>1 DEF Pool!Lose
    <3>3. QED
      BY <2>2, <2>5, <3>2 DEF Pool!Next
  <2>6. QED
    BY <2>4, <2>5
<1>5. ASSUME NEW t \in Threads, Close(t), CloseDirect(t)
      PROVE  Pool!Next
  <2>1. Running(t) /\ cache[t] # None /\ byPid[pid[t]] = cache[t]
    BY <1>a, <1>5 DEF Close, CloseDirect, PhaseInv, OwnInv, Running
  <2>2. ~Running(t)' /\ \A v \in Threads : v # t => (Running(v)' <=> Running(v))
    BY <1>a, <1>5 DEF Close, TypeOK, Running
  <2>3. Owned' = [Owned EXCEPT ![t] = {}] /\ cache[t] \in Regions /\ Owned[t] = {cache[t]}
    BY <1>5, <1>d, <2>1, <2>2 DEF Close
  <2>4. Available' = Available \cup {cache[t]}
    <3>1. /\ Len(available') = Len(available) + 1
          /\ Len(available) \in Nat
          /\ available'[Len(available) + 1] = cache[t]
          /\ \A i \in 1..Len(available) : available'[i] = available[i]
      BY <1>a, <1>5, <2>1, <2>3 DEF CloseDirect, TypeOK
    <3>2. \A i \in 1..Len(available') : i \in 1..Len(available) \/ i = Len(available) + 1
      BY <3>1
    <3>3. \A i \in 1..Len(available) : i \in 1..Len(available')
      BY <3>1
    <3>4. Len(available) + 1 \in 1..Len(available')
      BY <3>1
    <3>5. Available' = {available'[i] : i \in 1..Len(available')}
      BY DEF Available
    <3>6. QED
      BY <3>1, <3>2, <3>3, <3>4, <3>5 DEF Available
  <2>5. Pool!GiveBack(t, cache[t])
    BY <1>5, <2>3, <2>4 DEF CloseDirect, Pool!GiveBack
  <2>6. QED
    BY <2>3, <2>5 DEF Pool!Next
<1>6. ASSUME NEW t \in Threads, Close(t), ~CloseDirect(t)
      PROVE  UNCHANGED Pool!poolVars \/ Pool!Next
  <2>1. Running(t)
    BY <1>6 DEF Close, Running
  <2>2. QED
    BY <1>4, <1>6, <2>1, Zenon DEF Close, CloseSlow, CloseUnknown, tables
<1>7. ASSUME NEW t \in Threads, Crash(t)
      PROVE  UNCHANGED Pool!poolVars \/ Pool!Next
  <2>1. Running(t)
    BY <1>7 DEF Crash, Running
  <2>2. QED
    BY <1>4, <1>7, <2>1, Zenon DEF Crash, tables
<1>8. CASE UNCHANGED vars
  <2>1. \A v \in Threads : Running(v)' <=> Running(v)
    BY <1>8 DEF vars, Running
  <2>2. QED
    BY <1>8, <1>c, <2>1 DEF vars
<1>9. QED
  BY <1>1, <1>2, <1>3, <1>5, <1>6, <1>7, <1>8 DEF Next

(***************************************************************************)
(* The region tables, locks and thread-local caches implement the abstract *)
(* pool of RegionPool.                                                     *)
(***************************************************************************)
THEOREM RegionsImplementPool == Regular => (Spec => PoolSpec)
<1> SUFFICES ASSUME Regular PROVE Spec => PoolSpec
  OBVIOUS
<1>1. Init => Pool!Init
  <2>1. SUFFICES ASSUME Init PROVE Pool!Init
    OBVIOUS
  <2>2. Available = Regions
    <3>1. Len(available) = NumRegions /\ \A i \in 1..NumRegions : available[i] = i - 1
      BY <2>1, RegionsAssumption DEF Init, AllRegionIds
    <3>2. \A r \in Regions : r + 1 \in 1..NumRegions /\ (r + 1) - 1 = r
      BY RegionsAssumption DEF Regions
    <3>3. \A i \in 1..NumRegions : i - 1 \in Regions
      BY RegionsAssumption DEF Regions
    <3>4. QED
      BY <3>1, <3>2, <3>3, SMTT(30) DEF Available
  <2>3. Owned = [t \in Threads |-> {}]
    BY <2>1 DEF Init, Owned, Holds, Running
  <2>4. QED
    BY <2>1, <2>2, <2>3 DEF Init, Pool!Init
<1>2. IInv /\ [Next]_vars => [Pool!Next]_(Pool!poolVars)
  BY PoolStep
<1>3. QED
  BY <1>1, <1>2, RegionsInvariance, PTL DEF Spec, PoolSpec, Pool!Spec

(* A step keeps the two tables apart whatever process numbers it finds there: a *)
(* number leaves one table as it enters the other.                              *)
LEMMA TablesStep ==
  ASSUME TypeOK, TablesDisjoint, [Next]_vars
  PROVE  TypeOK' /\ TablesDisjoint'
<1>b. None \notin Regions
  BY RegionFacts
<1>u. ASSUME UNCHANGED <<available, byPid>>
      PROVE  TablesDisjoint'
  BY <1>u DEF TablesDisjoint, Available
<1>1. ASSUME NEW t \in Threads, NEW u \in Threads, Start(t, u)
      PROVE  TypeOK' /\ TablesDisjoint'
  BY <1>1, <1>u DEF Start, InitialMem, tables, TypeOK
<1>2. ASSUME NEW t \in Threads, Execve(t)
      PROVE  TypeOK' /\ TablesDisjoint'
  <2>1. CASE UNCHANGED <<available, byPid, cache>>
    <3>1. phase' \in {[phase EXCEPT ![t] = "mapping"], [phase EXCEPT ![t] = "closing"],
                      phase}
      BY <1>2, RegionFacts DEF Execve, GetOwnRegionId, TypeOK
    <3>2. QED
      BY <1>2, <1>u, <2>1, <3>1, ZenonT(30) DEF Execve, TypeOK
  <2>2. CASE /\ available # <<>>
             /\ available' = Rest
             /\ cache' = [cache EXCEPT ![t] = Popped]
             /\ byPid' = [byPid EXCEPT ![pid[t]] = Popped]
             /\ phase' = [phase EXCEPT ![t] = "mapping"]
    <3>1. /\ Popped \in Regions
          /\ Rest \in Seq(Regions)
          /\ Len(Rest) = Len(available) - 1
          /\ Len(available) \in Nat \ {0}
          /\ \A i \in 1..Len(Rest) : i \in 1..Len(available) /\ Rest[i] = available[i]
      BY <2>2, PopFacts DEF TypeOK
    <3>2. TypeOK'
      BY <1>2, <2>2, <3>1, Zenon DEF Execve, TypeOK
    <3>3. \A i, j \in 1..Len(available) : available[i] = available[j] => i = j
      BY DEF TablesDisjoint
    <3>4. \A i \in 1..Len(Rest) : Rest[i] # Popped
      BY <3>1, <3>3 DEF Popped
    <3>5. Available' \subseteq Available \ {Popped} /\ Popped \in Available
      BY <2>2, <3>1, <3>4 DEF Available, Popped
    <3>6. \A p \in Pids : byPid[p] # None => byPid[p] # Popped
      BY <3>5 DEF TablesDisjoint
    <3>7. \A p \in Pids : byPid'[p] = IF p = pid[t] THEN Popped ELSE byPid[p]
      BY <2>2 DEF TypeOK
    <3>8. \A i, j \in 1..Len(available') : available'[i] = available'[j] => i = j
      BY <2>2, <3>1, <3>3
    <3>9. ASSUME NEW p \in Pids, byPid'[p] # None
          PROVE  byPid'[p] \notin Available' /\ \A q \in Pids \ {p} : byPid'[q] # byPid'[p]
      <4>1. CASE p = pid[t]
        BY <1>b, <3>1, <3>5, <3>6, <3>7, <4>1
      <4>2. CASE p # pid[t]
        <5>1. byPid'[p] = byPid[p] /\ byPid[p] # None
          BY <3>7, <3>9, <4>2
        <5>2. byPid[p] \notin Available /\ \A q \in Pids \ {p} : byPid[q] # byPid[p]
          BY <5>1 DEF TablesDisjoint
        <5>3. QED
          BY <3>5, <3>6, <3>7, <5>1, <5>2
      <4>3. QED
        BY <4>1, <4>2
    <3>10. QED
      BY <3>2, <3>8, <3>9 DEF TablesDisjoint
  <2>3. QED
    BY <1>2, <2>1, <2>2 DEF Execve, GetOwnRegionId
<1>3. ASSUME NEW t \in Threads, MmapReturns(t) \/ LoopsEnd(t) \/ Crash(t)
      PROVE  TypeOK' /\ TablesDisjoint'
  <2>1. UNCHANGED <<available, byPid>>
    BY <1>3 DEF MmapReturns, LoopsEnd, Crash, tables
  <2>2. CASE MmapReturns(t)
    BY <1>u, <2>1, <2>2 DEF MmapReturns, tables, TypeOK
  <2>3. CASE LoopsEnd(t)
    BY <1>u, <2>1, <2>3, Zenon DEF LoopsEnd, tables, TypeOK
  <2>4. CASE Crash(t)
    BY <1>u, <2>1, <2>4 DEF Crash, LeftBehind, tables, TypeOK
  <2>5. QED
    BY <1>3, <2>2, <2>3, <2>4
<1>4. ASSUME NEW t \in Threads, Write(t)
      PROVE  TypeOK' /\ TablesDisjoint'
  BY <1>4, <1>u DEF Write, TypeOK
<1>5. ASSUME NEW t \in Threads, Close(t)
      PROVE  TypeOK' /\ TablesDisjoint'
  <2>1. CASE UNCHANGED tables /\ leaked' = leaked \cup LeftBehind(t)
    BY <1>5, <1>u, <2>1 DEF Close, LeftBehind, tables, TypeOK
  <2>2. CASE CloseDirect(t)
    <3>1. byPid[pid[t]] \in Regions /\ pid[t] \in Pids
      BY <2>2 DEF CloseDirect, TypeOK
    <3>2. TypeOK'
      BY <1>5, <2>2, <3>1 DEF Close, CloseDirect, TypeOK
    <3>3. /\ Len(available') = Len(available) + 1
          /\ Len(available) \in Nat
          /\ available'[Len(available) + 1] = byPid[pid[t]]
          /\ \A i \in 1..Len(available) : available'[i] = available[i]
      <4>1. available \in Seq(Regions)
        BY DEF TypeOK
      <4>2. available' = Append(available, byPid[pid[t]])
        BY <2>2 DEF CloseDirect
      <4>3. QED
        BY <3>1, <4>1, <4>2
    <3>4. \A i \in 1..Len(available') : i \in 1..Len(available) \/ i = Len(available) + 1
      BY <3>3
    <3>5. byPid[pid[t]] \notin Available
          /\ \A q \in Pids \ {pid[t]} : byPid[q] # byPid[pid[t]]
      BY <1>b, <3>1 DEF TablesDisjoint
    <3>6. \A i \in 1..Len(available) : available[i] # byPid[pid[t]]
      BY <3>5 DEF Available
    <3>7. \A i, j \in 1..Len(available) : available[i] = available[j] => i = j
      BY DEF TablesDisjoint
    <3>8. \A i, j \in 1..Len(available') : available'[i] = available'[j] => i = j
      BY <3>3, <3>4, <3>6, <3>7
    <3>9. Available' \subseteq Available \cup {byPid[pid[t]]}
      BY <3>3, <3>4 DEF Available
    <3>10. \A p \in Pids : byPid'[p] = IF p = pid[t] THEN None ELSE byPid[p]
      BY <2>2 DEF CloseDirect, TypeOK
    <3>11. ASSUME NEW p \in Pids, byPid'[p] # None
           PROVE  byPid'[p] \notin Available' /\ \A q \in Pids \ {p} : byPid'[q] # byPid'[p]
      <4>1. p # pid[t] /\ byPid'[p] = byPid[p] /\ byPid[p] # None
        BY <3>10, <3>11
      <4>2. byPid[p] \notin Available /\ \A q \in Pids \ {p} : byPid[q] # byPid[p]
        BY <4>1 DEF TablesDisjoint
      <4>3. QED
        BY <3>1, <3>5, <3>9, <3>10, <4>1, <4>2
    <3>12. QED
      BY <3>2, <3>8, <3>11 DEF TablesDisjoint
  <2>3. QED
    BY <1>5, <2>1, <2>2 DEF Close, CloseSlow, CloseUnknown
<1>6. CASE UNCHANGED vars
  BY <1>6, <1>u DEF vars, TypeOK
<1>7. QED
  BY <1>1, <1>2, <1>3, <1>4, <1>5, <1>6 DEF Next

(***************************************************************************)
(* AVAILABLE_REGION_IDS and REGION_IDS_BY_PID never name a region twice,   *)
(* for every number of threads, processes and regions and also where the   *)
(* kernel reuses a process number before close_tracee has run for it.      *)
(***************************************************************************)
THEOREM RegionTablesDisjoint == Spec => []TablesDisjoint
<1>1. Init => TypeOK /\ TablesDisjoint
  <2>1. SUFFICES ASSUME Init PROVE TypeOK /\ TablesDisjoint
    OBVIOUS
  <2>2. available \in Seq(Regions)
    BY <2>1, RegionsAssumption DEF Init, AllRegionIds, Regions
  <2>3. TypeOK
    BY <2>1, <2>2 DEF Init, TypeOK
  <2>4. \A i, j \in 1..Len(available) : available[i] = available[j] => i = j
    BY <2>1, RegionsAssumption DEF Init, AllRegionIds
  <2>5. QED
    BY <2>1, <2>3, <2>4 DEF Init, TablesDisjoint
<1>2. TypeOK /\ TablesDisjoint /\ [Next]_vars => TypeOK' /\ TablesDisjoint'
  BY TablesStep
<1>3. QED
  BY <1>1, <1>2, PTL DEF Spec
=============================================================================
