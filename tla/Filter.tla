------------------------------- MODULE Filter -------------------------------
(***************************************************************************)
(* The table of system calls and what is computed from it before the       *)
(* program runs (sysaug/src/syscalls.rs): RAW_SYSCALL_INFOS, the index     *)
(* SYSCALL_INFOS by call number, and SECCOMP_FILTERS, the BPF program that *)
(* every tracee installs.  The kernel runs that program on each call; the  *)
(* augments look the call up in the index.  The two must agree on every    *)
(* number: a call that only one of them knows is either never augmented or *)
(* stops the tracee for nothing.                                           *)
(***************************************************************************)
EXTENDS Integers, Sequences

CONSTANTS
    Infos,     \* SyscallInfo: records, of which this module reads num
    Tables,    \* tables: sequences of Infos, one entry for each define_* line
    Numbers,   \* the call numbers a guest issues
    MaxRaw,    \* MAX_RAW_SYSCALL_INFOS
    MaxNum,    \* MAX_SYSCALL_NUMBER
    NoMod      \* NO_MOD_SYSCALL

ASSUME FilterAssumption ==
    /\ MaxRaw \in Nat \ {0} /\ MaxNum \in Nat \ {0} /\ Numbers \subseteq Nat
    /\ \A i \in Infos : i.num \in Nat
    /\ \A t \in Tables : t \in Seq(Infos)

VARIABLES
    table,     \* the lines of the source, of which next have been evaluated
    phase,     \* what is being computed: "define", "index", "filter"; or
               \* "ready"; "panic" when the build stops
    raw,       \* RAW_SYSCALL_INFOS: entries 1..Len(raw), next is Len(raw)
    index,     \* syscall_to_index; 0 for None, as entry 0 is never used
    filters,
    idx,
    writeIdx,  \* write_idx
    nr,        \* the call the kernel runs the filter on
    pc,        \* the instruction it is at
    verdict    \* "idle"; "none" while it runs, then "TRACE" or "ALLOW"

bvars == <<table, phase, raw, index, filters, idx, writeIdx>>
fvars == <<bvars, nr, pc, verdict>>

Stmt(op) == [op |-> op, jt |-> 0, jf |-> 0, k |-> 0]
JumpEq(num) == [op |-> "JEQ", jt |-> 0, jf |-> 1, k |-> num]

FilterInit ==
    /\ table \in Tables /\ phase = "define" /\ raw = <<>>
    /\ index = [n \in 0..(MaxNum - 1) |-> 0]
    /\ filters = [i \in 0..(2 * MaxRaw + 1) |-> Stmt("ALLOW")]
    /\ idx = 0 /\ writeIdx = 1 /\ nr = 0 /\ pc = 0 /\ verdict = "idle"

-----------------------------------------------------------------------------
(* Constant evaluation. *)

\* A define_*_syscall! macro.
Define ==
    /\ phase = "define" /\ Len(raw) < Len(table)
    /\ LET next == Len(raw) + 1
       IN IF next >= MaxRaw \/ table[next].num = NoMod
          THEN phase' = "panic" /\ UNCHANGED raw
          ELSE raw' = Append(raw, table[next]) /\ UNCHANGED phase
    /\ UNCHANGED <<table, index, filters, idx, writeIdx, nr, pc, verdict>>

DefineEnd ==
    /\ phase = "define" /\ Len(raw) = Len(table)
    /\ phase' = "index"
    /\ UNCHANGED <<table, raw, index, filters, idx, writeIdx, nr, pc, verdict>>

\* The loop of SyscallInfos::new: one entry of the table, None or Some.
NewIndex ==
    /\ phase = "index" /\ idx < MaxRaw
    /\ \/ /\ idx \notin 1..Len(raw)
          /\ idx' = idx + 1 /\ UNCHANGED <<phase, index>>
       \/ /\ idx \in 1..Len(raw)
          /\ IF raw[idx].num >= MaxNum
             THEN phase' = "panic" /\ UNCHANGED <<index, idx>>
             ELSE /\ index' = [index EXCEPT ![raw[idx].num] = idx]
                  /\ idx' = idx + 1 /\ UNCHANGED phase
    /\ UNCHANGED <<table, raw, filters, writeIdx, nr, pc, verdict>>

NewIndexEnd ==
    /\ phase = "index" /\ idx = MaxRaw
    /\ phase' = "filter" /\ idx' = 0 /\ writeIdx' = 1
    /\ filters' = [filters EXCEPT ![0] = Stmt("LD")]
    /\ UNCHANGED <<table, raw, index, nr, pc, verdict>>

\* As a slip: the jump skips no instruction.
PairInline(num) == <<[JumpEq(num) EXCEPT !.jf = 0], Stmt("TRACE")>>

\* The two instructions of an entry.
Pair(num) == <<JumpEq(num), Stmt("TRACE")>>

\* The loop of SECCOMP_FILTERS.
NewFilter ==
    /\ phase = "filter" /\ idx < MaxRaw
    /\ \/ /\ idx \notin 1..Len(raw)
          /\ UNCHANGED <<filters, writeIdx>>
       \/ /\ idx \in 1..Len(raw)
          /\ filters' = [filters EXCEPT ![writeIdx] = Pair(raw[idx].num)[1],
                                        ![writeIdx + 1] = Pair(raw[idx].num)[2]]
          /\ writeIdx' = writeIdx + 2
    /\ idx' = idx + 1
    /\ UNCHANGED <<table, phase, raw, index, nr, pc, verdict>>

NewFilterEnd ==
    /\ phase = "filter" /\ idx = MaxRaw
    /\ filters' = [filters EXCEPT ![writeIdx] = Stmt("ALLOW")]
    /\ phase' = "ready"
    /\ UNCHANGED <<table, raw, index, idx, writeIdx, nr, pc, verdict>>

Build == \/ Define \/ DefineEnd \/ NewIndex \/ NewIndexEnd \/ NewFilter
         \/ NewFilterEnd

\* SyscallInfos::get
Found(n) == n < MaxNum /\ index[n] # 0
Get(n) == raw[index[n]]

-----------------------------------------------------------------------------
(* The kernel runs the installed program, of actual_len = writeIdx + 1       *)
(* instructions, on a call.                                                  *)

Call(n) ==
    /\ phase = "ready" /\ verdict # "none"
    /\ nr' = n /\ pc' = 0 /\ verdict' = "none"
    /\ UNCHANGED bvars

Execute ==
    /\ phase = "ready" /\ verdict = "none"
    /\ LET f == filters[pc]
       IN \/ /\ f.op = "LD"
             /\ pc' = pc + 1 /\ UNCHANGED verdict
          \/ /\ f.op = "JEQ"
             /\ pc' = pc + 1 + (IF nr = f.k THEN f.jt ELSE f.jf)
             /\ UNCHANGED verdict
          \/ /\ f.op \in {"TRACE", "ALLOW"}
             /\ verdict' = f.op /\ UNCHANGED pc
    /\ UNCHANGED <<bvars, nr>>

FilterNext == Build \/ Execute \/ \E n \in Numbers : Call(n)

FilterSpec == FilterInit /\ [][FilterNext]_fvars

-----------------------------------------------------------------------------
(* Properties. *)

\* The filter stops the tracee on a call exactly when the index knows it, and
\* then the index has the entry of that very call: get_syscall finds what
\* SECCOMP_FILTERS traced, for every table the build accepts.  Until it decides
\* the program stays within actual_len.
TracedExactly ==
    phase = "ready" =>
        /\ pc \in 0..writeIdx
        /\ verdict = "TRACE" => Found(nr) /\ Get(nr).num = nr
        /\ verdict = "ALLOW" => ~Found(nr)
=============================================================================
