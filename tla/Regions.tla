------------------------------- MODULE Regions -------------------------------
(***************************************************************************)
(* The regions of the memory file that the tracer shares with its tracees  *)
(* (ptrace/src/common.rs, ptrace/src/mem_direct.rs and the callers in      *)
(* sysaug/src/handler_async.rs).                                           *)
(*                                                                         *)
(* Each tracee has a tracer thread of its own.  After every execve the     *)
(* thread takes a region number from AVAILABLE_REGION_IDS (once: it is     *)
(* cached in a thread-local), makes the tracee map that region, and from   *)
(* then on writes what it wants the tracee to read (file names, argument   *)
(* vectors) there instead of poking the tracee's stack.  The region goes   *)
(* back when the thread's loops end.  The two tables are changed under     *)
(* both their locks, always taken in the same order, so each operation on  *)
(* them is one step.  A region's bytes are abstracted to the set of        *)
(* threads that wrote some of them since it was last zeroed.               *)
(***************************************************************************)
EXTENDS Naturals, Sequences, FiniteSets

CONSTANTS Threads,      \* tracer threads, each started at most once
          Pids,         \* process numbers of the kernel
          NumRegions,   \* MAX_NUM_TRACEES
          EarlyReuse    \* the kernel may give a process number to a new process as
                        \* soon as the old process is gone, also when the tracer
                        \* thread of the old one has not finished closing it

ASSUME RegionsAssumption ==
    /\ NumRegions \in Nat \ {0}
    /\ EarlyReuse \in BOOLEAN

VARIABLES
    available,   \* AVAILABLE_REGION_IDS: a Vec, pushed and popped at its end
    byPid,       \* REGION_IDS_BY_PID
    content,     \* SHARED_REGIONS: who wrote into each region
    phase,       \* where each tracer thread is
    pid,         \* the process each thread traces
    alive,       \* the process of the thread exists
    cache,       \* the thread-local TRACEE_WRITE_REGION_ID
    mem,         \* the thread-local MEM: SLOW_MEM_HELPERS or DIRECT_MEM_HELPERS
    maps,        \* the region mapped at TRACEE_WRITE_REGION_ADDR of the tracee
    leaked       \* regions whose thread ended without giving them back

tables == <<available, byPid, content>>
vars == <<available, byPid, content, phase, pid, alive, cache, mem, maps, leaked>>

Regions == 0..(NumRegions - 1)
None == NumRegions          \* an Option that is None
Failed == NumRegions + 1    \* the address is the error number of a failed mmap

(* A thread is over when it has returned from its event loop. *)
Over(t) == phase[t] = "over"
Running(t) == phase[t] \in {"tracing", "mapping", "closing"}

(***************************************************************************)
(* The type invariant: every table and every thread-local of the region    *)
(* code holds what its Rust type says, and no region number is out of      *)
(* bounds for the array SHARED_REGIONS.                                    *)
(***************************************************************************)
TypeOK ==
    /\ available \in Seq(Regions)
    /\ byPid \in [Pids -> Regions \cup {None}]
    /\ content \in [Regions -> SUBSET Threads]
    /\ phase \in [Threads -> {"unborn", "tracing", "mapping", "closing", "over"}]
    /\ pid \in [Threads -> Pids]
    /\ alive \in [Threads -> BOOLEAN]
    /\ cache \in [Threads -> Regions \cup {None}]
    /\ mem \in [Threads -> {"slow", "direct"}]
    /\ maps \in [Threads -> Regions \cup {None, Failed}]
    /\ leaked \in SUBSET Regions

(* The initial AVAILABLE_REGION_IDS. *)
AllRegionIds == [i \in 1..NumRegions |-> i - 1]

Init ==
    /\ available = AllRegionIds
    /\ byPid = [p \in Pids |-> None]
    /\ content = [r \in Regions |-> {}]
    /\ phase = [t \in Threads |-> "unborn"]
    /\ pid \in [Threads -> Pids]
    /\ alive = [t \in Threads |-> FALSE]
    /\ cache = [t \in Threads |-> None]
    /\ mem = [t \in Threads |-> "slow"]
    /\ maps = [t \in Threads |-> None]
    /\ leaked = {}

(* The process number pid[t] is free for a new process. *)
PidFree(t) ==
    \A u \in Threads \ {t} :
        pid[u] = pid[t] => ~alive[u] /\ (EarlyReuse \/ ~Running(u))

(* The thread-local MEM of a thread that has just started for a child of u's process; *)
(* as a slip, one MEM for all threads.                                                *)
InitialMemShared(u) == mem[u]
InitialMem(u) == "slow"

(***************************************************************************)
(* A tracer thread starts: for the first process, or for a child of the    *)
(* process that u traces.  The thread-locals of the new thread have their  *)
(* initial values whatever the parent's are, and the child process has its *)
(* parent's mappings.                                                      *)
(***************************************************************************)
Start(t, u) ==
    /\ phase[t] = "unborn"
    /\ PidFree(t)
    /\ \/ \A v \in Threads : phase[v] = "unborn"
       \/ phase[u] = "tracing"
    /\ phase' = [phase EXCEPT ![t] = "tracing"]
    /\ alive' = [alive EXCEPT ![t] = TRUE]
    /\ mem' = [mem EXCEPT ![t] = InitialMem(u)]
    /\ maps' = [maps EXCEPT ![t] = maps[u]]
    /\ UNCHANGED <<tables, pid, cache, leaked>>

(* Vec::pop: the number taken, and what is left; as a slip, Vec::last. *)
Popped == available[Len(available)]
RestPeeked == available
Rest == [i \in 1..(Len(available) - 1) |-> available[i]]

(* A slip in get_own_region_id: no by_pid.insert. *)
GetOwnRegionIdUnlisted(t) ==
    /\ phase' = [phase EXCEPT ![t] = "mapping"]
    /\ UNCHANGED byPid
    /\ \/ cache[t] # None /\ UNCHANGED <<available, cache>>
       \/ /\ cache[t] = None
          /\ available # <<>>
          /\ available' = Rest
          /\ cache' = [cache EXCEPT ![t] = Popped]

(* get_own_region_id: the cached number, or a new one if there is any left. *)
GetOwnRegionId(t) ==
    \/ /\ cache[t] # None
       /\ phase' = [phase EXCEPT ![t] = "mapping"]
       /\ UNCHANGED <<available, byPid, cache>>
    \/ /\ cache[t] = None
       /\ available # <<>>
       /\ available' = Rest
       /\ cache' = [cache EXCEPT ![t] = Popped]
       /\ byPid' = [byPid EXCEPT ![pid[t]] = Popped]
       /\ phase' = [phase EXCEPT ![t] = "mapping"]
    \/ /\ cache[t] = None
       /\ available = <<>>                        \* PtraceError::MaxTracee
       /\ phase' = [phase EXCEPT ![t] = "closing"]
       /\ UNCHANGED <<available, byPid, cache>>

(***************************************************************************)
(* The tracee's execve returns, and initialize_tracee_mmaps begins whether *)
(* the execve succeeded (and dropped every mapping) or not.                *)
(***************************************************************************)
Execve(t) ==
    /\ phase[t] = "tracing"
    /\ maps' \in {maps, [maps EXCEPT ![t] = None]}
    /\ GetOwnRegionId(t)
    /\ UNCHANGED <<content, pid, alive, mem, leaked>>

(***************************************************************************)
(* The inserted mmap returns.  Its result becomes the tracee's region      *)
(* address and the direct helpers are switched on, whatever the result: an *)
(* error number is an address like any other.                              *)
(***************************************************************************)
MmapReturns(t) ==
    /\ phase[t] = "mapping"
    /\ \/ maps' = [maps EXCEPT ![t] = cache[t]]
       \/ maps' = [maps EXCEPT ![t] = Failed]
    /\ mem' = [mem EXCEPT ![t] = "direct"]
    /\ phase' = [phase EXCEPT ![t] = "tracing"]
    /\ UNCHANGED <<tables, pid, alive, cache, leaked>>

(* write_bytes_to_tracee, direct: the bytes go into the thread's own region. *)
Write(t) ==
    /\ phase[t] = "tracing"
    /\ mem[t] = "direct"
    /\ cache[t] # None
    /\ content' = [content EXCEPT ![cache[t]] = @ \cup {t}]
    /\ UNCHANGED <<available, byPid, phase, pid, alive, cache, mem, maps, leaked>>

(***************************************************************************)
(* One of the three loops ends: at the tracee's exit, when the tracer      *)
(* detaches and the process is gone, or at an error, or for gdb.           *)
(***************************************************************************)
LoopsEnd(t) ==
    /\ phase[t] \in {"tracing", "mapping"}
    /\ phase' = [phase EXCEPT ![t] = "closing"]
    /\ alive' \in {alive, [alive EXCEPT ![t] = FALSE]}
    /\ UNCHANGED <<tables, pid, cache, mem, maps, leaked>>

(* What a thread that returns without a close leaves behind. *)
LeftBehind(t) == {cache[t]} \ {None}

(* close_tracee of mem_slow.rs: nothing is given back. *)
CloseSlow(t) ==
    /\ mem[t] = "slow"
    /\ leaked' = leaked \cup LeftBehind(t)
    /\ UNCHANGED tables

(* Slips in close_tracee of mem_direct.rs: no fill(0); no region_ids.push. *)
CloseDirectDirty(t) ==
    /\ mem[t] = "direct"
    /\ byPid[pid[t]] # None
    /\ byPid' = [byPid EXCEPT ![pid[t]] = None]
    /\ available' = Append(available, byPid[pid[t]])
    /\ UNCHANGED <<content, leaked>>

CloseDirectKeeps(t) ==
    /\ mem[t] = "direct"
    /\ byPid[pid[t]] # None
    /\ byPid' = [byPid EXCEPT ![pid[t]] = None]
    /\ content' = [content EXCEPT ![byPid[pid[t]]] = {}]
    /\ UNCHANGED <<available, leaked>>

(* close_tracee of mem_direct.rs: the region of the pid is zeroed and given back. *)
CloseDirect(t) ==
    /\ mem[t] = "direct"
    /\ byPid[pid[t]] # None
    /\ byPid' = [byPid EXCEPT ![pid[t]] = None]
    /\ content' = [content EXCEPT ![byPid[pid[t]]] = {}]
    /\ available' = Append(available, byPid[pid[t]])
    /\ UNCHANGED leaked

(* close_tracee of mem_direct.rs, for a pid that has no entry: an error. *)
CloseUnknown(t) ==
    /\ mem[t] = "direct"
    /\ byPid[pid[t]] = None
    /\ leaked' = leaked \cup LeftBehind(t)
    /\ UNCHANGED tables

(***************************************************************************)
(* The cleanup of all_tracee_loops, after which the thread returns; if the *)
(* loops ended with an error, start() kills the process.                   *)
(***************************************************************************)
Close(t) ==
    /\ phase[t] = "closing"
    /\ CloseSlow(t) \/ CloseDirect(t) \/ CloseUnknown(t)
    /\ phase' = [phase EXCEPT ![t] = "over"]
    /\ alive' = [alive EXCEPT ![t] = FALSE]
    /\ UNCHANGED <<pid, cache, mem, maps>>

(***************************************************************************)
(* event_loop itself returns an error (the process was killed in a stop or *)
(* between two stops): the future of all_tracee_loops is dropped, and its  *)
(* cleanup never runs.                                                     *)
(***************************************************************************)
Crash(t) ==
    /\ phase[t] \in {"tracing", "mapping"}
    /\ phase' = [phase EXCEPT ![t] = "over"]
    /\ alive' = [alive EXCEPT ![t] = FALSE]
    /\ leaked' = leaked \cup LeftBehind(t)
    /\ UNCHANGED <<tables, pid, cache, mem, maps>>

Next ==
    \E t \in Threads :
        \/ \E u \in Threads : Start(t, u)
        \/ Execve(t)
        \/ MmapReturns(t)
        \/ Write(t)
        \/ LoopsEnd(t)
        \/ Close(t)
        \/ Crash(t)

Spec == Init /\ [][Next]_vars

-----------------------------------------------------------------------------
Available == {available[i] : i \in 1..Len(available)}
Holds(t, r) == Running(t) /\ cache[t] = r

(***************************************************************************)
(* Exclusive: a region is never in two hands.  The region that a tracer    *)
(* thread took with get_own_region_id is not in AVAILABLE_REGION_IDS and   *)
(* not another running thread's until that thread has closed it.           *)
(***************************************************************************)
Exclusive ==
    \A r \in Regions : \A t \in Threads :
        Holds(t, r) => r \notin Available /\ \A u \in Threads \ {t} : ~Holds(u, r)

(***************************************************************************)
(* NoForeignBytes: what a tracee can read in its own region was written    *)
(* for it: nothing of an earlier tracee of the region survives             *)
(* close_tracee's fill(0), and no other thread writes there.               *)
(***************************************************************************)
NoForeignBytes ==
    /\ \A t \in Threads : \A r \in Regions : Holds(t, r) => content[r] \subseteq {t}
    /\ \A r \in Available : content[r] = {}

(***************************************************************************)
(* WritesLand: whenever a thread uses the direct helpers, the address it   *)
(* hands to the tracee is a mapping of the region it writes into, also for *)
(* a child that has inherited its parent's mappings and after an execve    *)
(* has dropped them.  The one exception is the thread's own mmap having    *)
(* failed in the tracee, which the code does not look at.                  *)
(***************************************************************************)
WritesLand ==
    \A t \in Threads :
        phase[t] = "tracing" /\ mem[t] = "direct" =>
            cache[t] # None /\ maps[t] \in {cache[t], Failed}

(***************************************************************************)
(* CloseFinds: close_tracee looks the region up by process number, and the *)
(* number still stands for the region the thread itself took.              *)
(***************************************************************************)
CloseFinds ==
    \A t \in Threads :
        phase[t] = "closing" /\ mem[t] = "direct" => byPid[pid[t]] = cache[t]

(***************************************************************************)
(* TablesDisjoint: AVAILABLE_REGION_IDS lists a region once, and never one *)
(* that REGION_IDS_BY_PID names, nor does that name one twice: no region   *)
(* can be given out twice.  (RegionsProofs shows it also for process       *)
(* numbers that are reused early, which the runs leave out.)               *)
(***************************************************************************)
TablesDisjoint ==
    /\ \A i, j \in 1..Len(available) : available[i] = available[j] => i = j
    /\ \A p \in Pids : byPid[p] # None =>
          byPid[p] \notin Available /\ \A q \in Pids \ {p} : byPid[q] # byPid[p]

(***************************************************************************)
(* Conserved: every region is available or in the hands of a running       *)
(* thread, as the comment on SHARED_MMAP_SIZE has it: "Every alive tracee  *)
(* keeps their index once allocated and releases it back into the vec +    *)
(* hashmap when tracee exits."                                             *)
(***************************************************************************)
Conserved ==
    \A r \in Regions : r \in Available \/ \E t \in Threads : Holds(t, r)

-----------------------------------------------------------------------------
(* The regions in each thread's hands: none or one. *)
Owned == [t \in Threads |-> {r \in Regions : Holds(t, r)}]

(***************************************************************************)
(* PoolSpec: the two tables under their locks, together with the           *)
(* thread-local caches, implement the abstract pool of RegionPool: a       *)
(* thread takes a region nobody has, is its only owner until it returns    *)
(* exactly that region, or ends and loses it.                              *)
(***************************************************************************)
Pool == INSTANCE RegionPool WITH
            free <- Available,
            owned <- Owned,
            lost <- leaked

PoolSpec == Pool!Spec
=============================================================================
