------------------------------ MODULE Augments ------------------------------
(***************************************************************************)
(* The calls of a guest through the filter to the augments of the user and *)
(* group ids and of seccomp (aug_perms.rs, config.rs, aug_seccomp.rs), and *)
(* to exec as far as it changes the ids (aug_exec.rs), for a guest that is *)
(* made to believe that it is root.  A SyscallInfo has                     *)
(*   num, augment ("Perms", "Seccomp", "Exec" or "None"), setter           *)
(*   (is_setter), bits (res_bits), slot (resf_bit or NoSlot), position     *)
(*   (seccomp_position or NoSlot).                                         *)
(* usize is 0..(Word - 1) and uid_t is 0..(IdWord - 1); a negative number  *)
(* is its two's complement.  An argument of type uid_t reaches the tracer  *)
(* in a whole register: -1 is IdWord - 1 from most C libraries, and        *)
(* Word - 1 from code that extends the sign.                               *)
(***************************************************************************)
EXTENDS Filter

CONSTANTS
    Word,            \* 2^(width of usize)
    IdWord,          \* 2^(width of uid_t and gid_t)
    Values,          \* what a guest puts in an argument register
    HostId,          \* the id the kernel knows the guest by
    Owners,          \* owners and groups of set-id files of the host
    PrctlNum,        \* SYS_prctl
    PrSetSeccomp,    \* PR_SET_SECCOMP
    MaxSets          \* bound: setter calls of one process

NoSlot == 8
Slots == 0..7

ASSUME AugmentsAssumption ==
    /\ Word \in Nat /\ Word > 7 /\ Word % 2 = 0
    /\ IdWord \in Nat /\ IdWord <= Word \div 2   \* usize is wider than uid_t
    /\ Owners \subseteq 0..(IdWord - 1)
    /\ Values \subseteq 0..(Word - 1) /\ HostId \in 0..(Word - 1)
    /\ \A i \in Infos :
         /\ i.slot \in 0..NoSlot /\ i.bits \in 0..31
         /\ ~i.setter => i.bits = 0   \* no getresuid or getresgid

VARIABLES
    mode,    \* perms_mode
    arch,    \* target_arch
    ids,     \* perms_ids
    at,      \* "user", "filter", "resumed" or "exit"
    ret,     \* the result of the call, from "exit" on
    \* history, read by properties only
    asked,   \* ids the guest has asked for
    granted, \* ids that set-id files have given it
    sets

avars == <<mode, arch, ids, at, ret, asked, granted, sets>>
vars == <<fvars, avars>>

Negative(v) == Word - v   \* as usize
EPERM == 1
ENOENT == 2
ENOSYS == 3               \* stands for 38

\* init_perms_ids_from_config with the default configuration, the one main.rs
\* uses: every ResfUgType maps to 0.
ConfiguredIds == [s \in Slots |-> 0]

Init ==
    /\ FilterInit
    /\ mode \in {"Passthrough", "RootOnly", "SudoOnly"}
    /\ arch \in {"aarch64", "x86_64"}
    /\ ids = ConfiguredIds /\ at = "user" /\ ret = 0
    /\ asked = {} /\ granted = {} /\ sets = 0

-----------------------------------------------------------------------------
(* walk_resf_syscall: the slots a call names and, for each, the register     *)
(* with its id: the index of an argument or Retval.                          *)

Retval == 2

HasBit(bits, i) == (bits \div 2^i) % 2 = 1
UgBit(bits) == IF HasBit(bits, 2) THEN 4 ELSE 0   \* res_bits & PERMS_IDBIT_UG

\* What it calls the callback with.
Walk(info, success) ==
    IF info.slot # NoSlot THEN {[from |-> Retval, slot |-> info.slot]}
    ELSE IF success
    THEN {[from |-> i, slot |-> UgBit(info.bits) + i] :
            i \in {j \in 0..1 : HasBit(info.bits, j)}}
    ELSE {}

\* What it returns.
Fits(info, success) == info.slot # NoSlot \/ success

-----------------------------------------------------------------------------
(* augment_sys_perms before the call *)

\* orig_regs.syscall_retval() at the entry of a call.
EntryRetval(args) == IF arch = "aarch64" THEN args[1] ELSE Negative(ENOSYS)

Proposed(args, from) == IF from = Retval THEN EntryRetval(args) ELSE args[from + 1]

\* As a slip: a negative id is an id.
HandleSetidAny(proposed) == proposed

HandleSetid(proposed) ==
    IF mode = "RootOnly" /\ proposed >= (Word - 1) \div 2 THEN 0 ELSE proposed

Traced == at = "filter" /\ verdict = "TRACE"

\* A setter stores what the guest asks for and, since the walk of a setter
\* always counts as handled, lets the call go on.
PermsEntry(args) ==
    /\ Traced /\ Get(nr).augment = "Perms"
    /\ IF Get(nr).setter /\ mode # "Passthrough"
       THEN LET walk == Walk(Get(nr), TRUE)
            IN /\ ids' = [s \in Slots |->
                    IF \E w \in walk : w.slot = s
                    THEN HandleSetid(Proposed(args, (CHOOSE w \in walk : w.slot = s).from))
                    ELSE ids[s]]
               /\ sets' = sets + 1
               /\ asked' = asked \cup
                    {args[(IF w.from = Retval THEN 0 ELSE w.from) + 1] : w \in walk}
       ELSE UNCHANGED <<ids, sets, asked>>
    /\ at' = "resumed"
    /\ UNCHANGED <<fvars, mode, arch, ret, granted>>

\* augment_sys_seccomp: a prctl about something else goes on; an operation equal
\* to SECCOMP_SET_MODE_FILTER, 1, is answered with ENOSYS.
SeccompEntry(args) ==
    /\ Traced /\ Get(nr).augment = "Seccomp"
    /\ IF \/ nr = PrctlNum /\ args[1] # PrSetSeccomp
          \/ Get(nr).position < 3 /\ args[Get(nr).position + 1] # 1
       THEN at' = "resumed" /\ UNCHANGED ret
       ELSE at' = "user" /\ ret' = Negative(ENOSYS)
    /\ UNCHANGED <<fvars, mode, arch, ids, asked, granted, sets>>

\* exec_setid! in expand_exec_with_parser: in every mode, the effective user and
\* group become those of the file with the guest's path on the host if that has
\* the set-id bits, whether or not the call then goes on (Paths).
NotSet == IdWord   \* no set-id bit
ExecEntry(uid, gid) ==
    /\ Traced /\ Get(nr).augment = "Exec"
    /\ ids' = [ids EXCEPT ![5] = IF uid = NotSet THEN @ ELSE uid,
                          ![1] = IF gid = NotSet THEN @ ELSE gid]
    /\ granted' = granted \cup ({uid, gid} \ {NotSet})
    /\ \/ at' = "resumed" /\ UNCHANGED ret
       \/ at' = "user" /\ ret' = Negative(ENOENT)
    /\ UNCHANGED <<fvars, mode, arch, asked, sets>>

\* The augments of other modules.
OtherEntry ==
    /\ Traced /\ Get(nr).augment = "None"
    /\ at' = "resumed"
    /\ UNCHANGED <<fvars, mode, arch, ids, ret, asked, granted, sets>>

\* The kernel: an id, a count of groups, 0 or an error.
Results == {0, 1, HostId, Negative(EPERM)}

Kernel ==
    /\ at = "resumed"
    /\ at' = "exit" /\ ret' \in Results
    /\ Get(nr).augment = "Perms" /\ ~Get(nr).setter /\ Get(nr).slot # NoSlot
         => ret' = HostId
    /\ UNCHANGED <<fvars, mode, arch, ids, asked, granted, sets>>

\* augment_sys_perms after the call: a getter of one id answers its slot; one of
\* none (getgroups) answers 0 for an error.
Exit ==
    /\ at = "exit"
    /\ LET info == Get(nr)
           getter == info.augment = "Perms" /\ ~info.setter /\ mode # "Passthrough"
           negative == ret >= Word \div 2
       IN ret' = IF getter /\ info.slot # NoSlot THEN ids[info.slot]
                 ELSE IF getter /\ ~Fits(info, ret = 0) /\ negative THEN 0
                 ELSE ret
    /\ at' = "user"
    /\ UNCHANGED <<fvars, mode, arch, ids, asked, granted, sets>>

\* A call the filter lets pass.
Allowed ==
    /\ at = "filter" /\ verdict = "ALLOW"
    /\ at' = "user" /\ ret' \in Results
    /\ UNCHANGED <<fvars, mode, arch, ids, asked, granted, sets>>

\* The guest forks and the child goes on: its handler starts from the
\* configuration, whatever the parent has set.
Child ==
    /\ at = "user" /\ phase = "ready"
    /\ ids' = ConfiguredIds /\ asked' = {} /\ granted' = {} /\ sets' = 0
    /\ ret' = 0
    /\ UNCHANGED <<fvars, mode, arch, at>>

Guest(n) ==
    /\ at = "user" /\ Call(n)
    /\ sets = MaxSets /\ Found(n) => ~Get(n).setter
    /\ at' = "filter" /\ ret' = 0
    /\ UNCHANGED <<mode, arch, ids, asked, granted, sets>>

Compute == (Build \/ Execute) /\ UNCHANGED avars

\* The build has stopped.
Refused == phase = "panic" /\ UNCHANGED vars

Args == Values \X Values \X {0}

Next ==
    \/ Compute \/ Refused \/ OtherEntry \/ Kernel \/ Exit \/ Allowed \/ Child
    \/ \E n \in Numbers : Guest(n)
    \/ \E args \in Args : PermsEntry(args) \/ SeccompEntry(args)
    \/ \E uid, gid \in Owners \cup {NotSet} : ExecEntry(uid, gid)

Spec == Init /\ [][Next]_vars

-----------------------------------------------------------------------------
(* Properties. *)

\* Under --root a guest that asks for one of its ids is told 0, an id that it
\* asked for itself since it was started, or the owner or group of a set-id file
\* that it executed, never the id the host knows it by, and never a number that
\* is negative as a usize; asking for its groups does not fail.  A -1 of the
\* width of uid_t counts as an id that it asked for.
\* (augment_sys_perms, handle_setid, init_perms_ids_from_config, exec_setid!)
RootAnswers ==
    /\ at = "user" /\ verdict = "TRACE" /\ mode = "RootOnly"
    /\ Get(nr).augment = "Perms" /\ ~Get(nr).setter
    => /\ ret < Word \div 2
       /\ Get(nr).slot # NoSlot => ret \in asked \cup granted \cup {0}
=============================================================================
