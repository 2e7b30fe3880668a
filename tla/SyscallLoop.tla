----------------------------- MODULE SyscallLoop -----------------------------
(***************************************************************************)
(* One tracee and the handler that traces it: the stop machine of the      *)
(* kernel (external), event_loop of handler_sync.rs and the three async    *)
(* loops of handler_async.rs.  A handler action is everything the tracer   *)
(* does for one stop: unblock_futures, one run_async_step up to the next   *)
(* await, and the PTRACE_SYSCALL / PTRACE_CONT that resumes the tracee.    *)
(* When the tracee forks the specification goes on with either process.    *)
(***************************************************************************)
EXTENDS Naturals, Sequences

CONSTANTS
    Releases,        \* kernel releases, as pairs of major and minor number
    Arch,            \* "aarch64" or "x86_64"
    FixAttach,       \* --fix-attach: PTRACE_TRACEME instead of PTRACE_ATTACH
    FixMmap,         \* no shared memory region: --fix-mmap, or --fix-attach
    FixSigsys,       \* --fix-sigsys
    Gdb,             \* --gdb
    GdbAt,           \* --gdb-at, 0 when absent
    GuestHandlers,   \* does the guest install signal handlers?
    Signals,         \* signals that may be sent to the tracee: SIGSYS by the kernel
                     \* (si_code > 0), SIGSYS_USER the same signal by a process
    MaxCalls,        \* bound: system calls the guest issues (exit excepted)
    MaxSignals       \* bound: signals sent to the tracee

ASSUME SyscallLoopAssumption ==
    /\ Releases \subseteq Nat \X Nat /\ GdbAt \in Nat
    /\ MaxCalls \in Nat /\ MaxSignals \in Nat
    /\ Arch \in {"aarch64", "x86_64"}
    /\ {FixAttach, FixMmap, FixSigsys, Gdb, GuestHandlers} \subseteq BOOLEAN
    /\ FixAttach => FixMmap
    /\ Signals \subseteq {"SIGSTOP", "SIGSYS", "SIGSYS_USER", "SIGSEGV", "SIGUSR1"}

VARIABLES
    \* kernel and guest
    release,    \* the release of the running kernel
    at,         \* the point of its kernel path the tracee is at
    stopped,    \* the tracee is in a ptrace-stop at that point
    mode,       \* request that last resumed it: "PTRACE_SYSCALL" or "PTRACE_CONT"
    nr,         \* number of the system call the kernel is executing
    num,        \* number register of the guest when it entered the kernel
    ret,        \* "ok" or "err": result of the last system call
    filter,     \* our seccomp filter is installed
    pending,    \* signals that wait for delivery
    sig,        \* signal reported by the last signal-delivery-stop
    sent,       \* signal injected by the last resume, or "none"
    booted,     \* the process has executed a guest program
    handlers,   \* the guest has signal handlers installed
    level,      \* 1 while a signal handler of the guest runs, else 0
    redo,       \* per level: number the rewound instruction will issue, or "none"
    \* handler
    pc,         \* await point of loop_handle_tracee_syscalls
    waits,      \* future that loop is pending on
    expExit,    \* expects_syscall_exit of the wait_for_syscall in progress
    extra,      \* that wait is in its second round (kernels before 4.8)
    ready,      \* tracee_seccomp_init_complete
    first,      \* is_first_loop_after_init
    times,      \* total_times, saturated above GdbAt
    origNum,    \* orig_syscall_num, or "none"
    todo,       \* system calls still to insert
    call,       \* number seen at entry (which_aug)
    sigLoop,    \* loop_handle_tracee_signals: "waiting" or "yielded"
    root,       \* parent.is_none()
    ignored,    \* the parent's ignore_sigstops contains this pid
    outcome,    \* "running", or how event_loop returned
    \* history, read by properties only
    guest,      \* per level: the guest's last call and what ran for it
    inj,        \* the system call in progress was put there by the handler
    calls, sigs \* bounded counters

kvars == <<at, stopped, mode, sent>>
gvars == <<num, ret, filter, pending, booted, handlers, level, calls, sigs>>
hvars == <<pc, waits, expExit, extra, ready, first, times, origNum, todo, call>>
vars == <<release, kvars, gvars, hvars, nr, sig, redo, sigLoop, root, ignored, outcome,
          guest, inj>>

-----------------------------------------------------------------------------
(* Numbers.  "aug" stands for every augmented call that is neither execve  *)
(* nor clone; "getpid" is NO_MOD_SYSCALL; "enosys" is what x86_64 leaves   *)
(* in rax at a syscall-entry-stop, no system call at all.                  *)
NoModSyscall == "getpid"
Inserted == {"mmap", "prctl", "seccomp"}
GuestNums == {"plain", "getpid", "aug", "exec", "fork", "exit", "sigreturn"}
Nums == GuestNums \cup Inserted \cup {"enosys"}

\* Calls of the table (and of SECCOMP_FILTERS).
Table == {"aug", "exec", "fork", "prctl", "seccomp"}
\* Calls whose augment may end in do_skip_syscall.
Skippable == {"aug", "exec"}

IsLegacySeccomp == release[1] <= 4 /\ release[2] <= 7
KernelIsLegacy == release[1] < 4 \/ (release[1] = 4 /\ release[2] < 8)

Points == {"user", "entry", "seccomp", "body", "event", "exit", "signals",
           "deliver", "group", "dying", "gone"}
\* Order of the points of a system call: seccomp moved behind entry in 4.8.
Succ ==
    [p \in Points |->
        CASE p = "user"    -> IF KernelIsLegacy THEN "seccomp" ELSE "entry"
          [] p = "entry"   -> IF KernelIsLegacy THEN "body" ELSE "seccomp"
          [] p = "seccomp" -> IF KernelIsLegacy THEN "entry" ELSE "body"
          [] p = "body"    -> "event"
          [] p = "event"   -> "exit"
          [] p = "exit"    -> "signals"
          [] p = "signals" -> IF stopped THEN "deliver" ELSE "user"
          [] p = "group"   -> "signals"
          [] OTHER         -> p]

Running == outcome = "running"

KernelTypeOK ==
    /\ release \in Releases
    /\ at \in Points /\ stopped \in BOOLEAN
    /\ mode \in {"PTRACE_SYSCALL", "PTRACE_CONT"}
    /\ nr \in Nums /\ num \in Nums /\ ret \in {"ok", "err"}
    /\ filter \in BOOLEAN /\ booted \in BOOLEAN /\ handlers \in BOOLEAN
    /\ pending \subseteq Signals \cup {"SIGSTOP", "SIGTRAP"}
    /\ sig \in Signals \cup {"SIGSTOP", "SIGTRAP", "none"}
    /\ sent \in Signals \cup {"SIGSTOP", "none"}
    /\ level \in {0, 1} /\ redo \in [{0, 1} -> Nums \cup {"none"}]

HandlerTypeOK ==
    /\ pc \in {"entry", "exit", "insEntry", "insExit"}
    /\ waits \in {"Syscall", "Seccomp"}
    /\ expExit \in BOOLEAN /\ extra \in BOOLEAN
    /\ ready \in BOOLEAN /\ first \in BOOLEAN
    /\ origNum \in Nums \cup {"none"}
    /\ todo \in {<<>>, <<"mmap">>, <<"seccomp">>, <<"prctl", "seccomp">>,
                 <<"mmap", "prctl", "seccomp">>}
    /\ call \in Nums /\ sigLoop \in {"waiting", "yielded"}
    /\ root \in BOOLEAN /\ ignored \in BOOLEAN
    /\ outcome \in {"running", "exited", "gdb", "failed"}

HistoryTypeOK ==
    /\ guest \in [{0, 1} -> [num : Nums \cup {"none"},
                            ran : Nums \cup {"none", "twice"}]]
    /\ inj \in BOOLEAN

CounterTypeOK ==
    /\ times \in 1..(GdbAt + 1)
    /\ calls \in 0..MaxCalls /\ sigs \in 0..MaxSignals

\* Every variable has its type; in particular the queue of insertions is always
\* a tail of mmap, prctl, seccomp.
TypeOK == KernelTypeOK /\ HandlerTypeOK /\ HistoryTypeOK /\ CounterTypeOK

NoCall == [num |-> "none", ran |-> "none"]

\* The root process right after the first resume of event_loop.  With
\* PTRACE_ATTACH it has yet to call execve and may still see the SIGSTOP it
\* was attached with; with PTRACE_TRACEME execve lies behind it.
Init ==
    /\ release \in Releases
    /\ at = "signals" /\ stopped = FALSE /\ mode = "PTRACE_SYSCALL"
    /\ nr = "plain" /\ num = "plain" /\ ret = "ok" /\ filter = FALSE
    /\ pending \in IF FixAttach THEN {{}} ELSE {{}, {"SIGSTOP"}}
    /\ sig = "none" /\ sent = "none"
    /\ booted = FixAttach /\ handlers = FALSE
    /\ level = 0 /\ redo = [l \in {0, 1} |-> "none"]
    /\ pc = "entry" /\ waits = "Syscall" /\ expExit = FALSE /\ extra = FALSE
    /\ ready = FALSE /\ first = FALSE /\ times = 1 /\ origNum = "none" /\ todo = <<>>
    /\ call = "plain" /\ sigLoop = "waiting"
    /\ root = TRUE /\ ignored = FALSE /\ outcome = "running"
    /\ guest = [l \in {0, 1} |-> NoCall] /\ inj = FALSE
    /\ calls = 0 /\ sigs = 0

-----------------------------------------------------------------------------
(* The kernel and the guest. *)

\* Is the tracee stopped and reported at point `at`?
Reports ==
    \/ at \in {"entry", "exit"} /\ mode = "PTRACE_SYSCALL"
    \/ at = "seccomp" /\ filter /\ nr \in Table
    \/ at = "event" /\ (nr = "exit" \/ (nr = "fork" /\ ret = "ok"))
    \/ at = "signals" /\ pending # {}
    \/ at \in {"group", "dying"}

\* The guest issues a call, or re-runs the instruction the handler rewound.
Issue ==
    /\ Running /\ ~stopped /\ at = "user"
    /\ \/ /\ redo[level] # "none"
          /\ num' = redo[level] /\ redo' = [redo EXCEPT ![level] = "none"]
          /\ UNCHANGED <<guest, calls>>
       \/ /\ redo[level] = "none"
          /\ \E n \in GuestNums :
                /\ n = "sigreturn" => level = 1
                /\ n = "fork" => booted
                /\ n \in {"exit", "sigreturn"} \/ calls < MaxCalls
                /\ calls' = IF n \in {"exit", "sigreturn"} THEN calls ELSE calls + 1
                /\ num' = n
                /\ guest' = [guest EXCEPT ![level] = [num |-> n, ran |-> "none"]]
          /\ UNCHANGED redo
    /\ nr' = num' /\ at' = Succ["user"]
    /\ UNCHANGED <<release, stopped, mode, sent, ret, filter, pending, booted,
                   handlers, level, sigs, hvars, sig, sigLoop, root, ignored,
                   outcome, inj>>

\* The kernel runs the call.  execve drops the signal handlers and raises
\* the SIGTRAP of a tracee without PTRACE_O_TRACEEXEC.
Execute ==
    /\ Running /\ ~stopped /\ at = "body"
    /\ ret' \in IF nr \in {"exec", "fork", "prctl", "seccomp"} THEN {"ok", "err"}
                                                               ELSE {"ok"}
    /\ LET execs == nr = "exec" /\ ret' = "ok" IN
       /\ booted' = (booted \/ execs)
       /\ pending' = IF execs THEN pending \cup {"SIGTRAP"} ELSE pending
       /\ handlers' \in IF execs THEN {FALSE}
                        ELSE IF nr = "plain" /\ booted THEN {handlers, GuestHandlers}
                        ELSE {handlers}
       /\ level' = IF execs \/ nr = "sigreturn" THEN 0 ELSE level
       /\ redo' = IF execs THEN [l \in {0, 1} |-> "none"] ELSE redo
    /\ filter' = (filter \/ (nr = "seccomp" /\ ret' = "ok"))
    /\ guest' = IF inj THEN guest
                ELSE IF nr = "exec" /\ ret' = "ok" THEN [l \in {0, 1} |-> [num |-> nr, ran |-> nr]]
                ELSE [guest EXCEPT ![level].ran = IF @ = "none" THEN nr ELSE "twice"]
    /\ at' = Succ["body"]
    /\ UNCHANGED <<release, stopped, mode, sent, nr, num, calls, sigs, hvars, sig,
                   sigLoop, root, ignored, outcome, inj>>

\* A point without a report is passed.
Pass ==
    /\ Running /\ ~stopped /\ ~Reports
    /\ at \in {"entry", "seccomp", "event", "exit", "signals"}
    /\ at' = Succ[at]
    /\ UNCHANGED <<release, stopped, mode, sent, gvars, hvars, nr, sig, redo,
                   sigLoop, root, ignored, outcome, guest, inj>>

Report ==
    /\ Running /\ ~stopped /\ Reports
    /\ stopped' = TRUE
    /\ IF at = "signals" THEN sig' \in pending /\ pending' = pending \ {sig'}
                         ELSE UNCHANGED <<sig, pending>>
    /\ UNCHANGED <<release, at, mode, sent, num, ret, filter, booted, handlers,
                   level, calls, sigs, hvars, nr, redo, sigLoop, root, ignored,
                   outcome, guest, inj>>

\* The tracee acts on the signal the tracer injected: SIGSTOP stops it, another
\* one runs a handler, is ignored, or ends the process.
Deliver ==
    /\ Running /\ ~stopped /\ at = "deliver"
    /\ \/ sent = "none" /\ at' = "signals" /\ level' = level
       \/ sent = "SIGSTOP" /\ at' = "group" /\ level' = level
       \/ /\ sent \notin {"none", "SIGSTOP"}
          /\ \/ handlers /\ level = 0 /\ at' = "signals" /\ level' = 1
             \/ ~handlers /\ at' \in {"signals", "dying"} /\ level' = level
             \/ level = 1 /\ at' = "signals" /\ level' = level
    /\ sent' = "none"
    /\ UNCHANGED <<release, stopped, mode, num, ret, filter, pending, booted,
                   handlers, calls, sigs, hvars, nr, sig, redo, sigLoop, root,
                   ignored, outcome, guest, inj>>

\* A signal is sent, of which the kernel keeps one pending; a running guest is
\* interrupted by it.
Send ==
    /\ Running /\ at \notin {"dying", "gone"} /\ sigs < MaxSignals
    /\ \E s \in Signals \ pending : pending' = pending \cup {s}
    /\ ~({"SIGSYS", "SIGSYS_USER"} \subseteq pending')
    /\ sigs' = sigs + 1
    /\ at' = IF at = "user" THEN "signals" ELSE at
    /\ UNCHANGED <<release, stopped, mode, sent, num, ret, filter, booted, handlers,
                   level, calls, hvars, nr, sig, redo, sigLoop, root, ignored,
                   outcome, guest, inj>>

\* SIGKILL: the next waitpid or ptrace request of the tracer finds it dead.
Kill ==
    /\ Running /\ at # "gone"
    /\ at' = "gone" /\ stopped' = TRUE
    /\ UNCHANGED <<release, mode, sent, gvars, hvars, nr, sig, redo, sigLoop, root,
                   ignored, outcome, guest, inj>>

\* The parent's wait4 reports the stop of this child and forgets its pid.
ParentForgets ==
    /\ Running /\ ignored /\ ignored' = FALSE
    /\ UNCHANGED <<release, kvars, gvars, hvars, nr, sig, redo, sigLoop, root,
                   outcome, guest, inj>>

-----------------------------------------------------------------------------
(* The handler. *)

\* _ptrace_request_next_syscall(s): resume_through_syscall is set by
\* wait_for_syscall together with the future it waits for.
Resume(s) ==
    /\ stopped' = FALSE
    /\ mode' = IF waits' = "Syscall" THEN "PTRACE_SYSCALL" ELSE "PTRACE_CONT"
    /\ sent' = s
    /\ at' = Succ[at]

\* The same while the syscall loop stays where it is.
ResumeOnly(s) ==
    /\ UNCHANGED hvars
    /\ Resume(s)

\* event_loop returns; with an error the thread kills the tracee.
Return(how) ==
    /\ outcome' = how
    /\ at' = "gone" /\ stopped' = TRUE
    /\ UNCHANGED <<release, mode, sent, gvars, hvars, nr, sig, redo, sigLoop, root,
                   ignored, guest, inj>>

\* As a slip: the counter of the yielder stays as it is.
UnblockLost == UNCHANGED sigLoop

\* yielder_syscall.unblock(): a signal loop that has yielded is polled before
\* the others in the next step, and listens from then on.
Unblock == sigLoop' = "waiting"

\* As a slip: the wait for the exit forgets that it starts after an entry.
WaitForSyscallForgetful(after, rdy) ==
    /\ expExit' = after
    /\ waits' = IF ~rdy THEN "Syscall" ELSE "Seccomp"
    /\ extra' = FALSE

\* A wait_for_syscall starts, is_after_syscall_entry being `after` and
\* tracee_seccomp_init_complete being `rdy`.
WaitForSyscall(after, rdy) ==
    /\ expExit' = after
    /\ waits' = IF ~rdy \/ after THEN "Syscall" ELSE "Seccomp"
    /\ extra' = FALSE

\* The stop is of the kind the syscall loop awaits.
Awaited ==
    /\ Running /\ stopped
    /\ \/ waits = "Syscall" /\ at \in {"entry", "exit"}
       \/ waits = "Seccomp" /\ at = "seccomp"

\* Kernels before 4.8 stop at syscall-entry after the seccomp-stop.
NeedsExtraRound == ready /\ expExit /\ IsLegacySeccomp /\ ~extra

ExtraRound ==
    /\ Awaited /\ NeedsExtraRound
    /\ extra' = TRUE /\ UNCHANGED waits
    /\ Resume("none")
    /\ UNCHANGED <<release, gvars, pc, expExit, ready, first, times, origNum, todo,
                   call, nr, sig, redo, sigLoop, root, ignored, outcome, guest, inj>>

\* The end of the initialisation is recorded, then the augment resumes the call
\* or skips it.
Augment ==
    /\ nr' \in {nr} \cup (IF nr \in Skippable THEN {NoModSyscall} ELSE {})
    /\ call' = nr
    /\ ready' = (ready \/ first)
    /\ first' = FALSE
    /\ WaitForSyscall(first \/ at = "seccomp", ready \/ first)
    /\ origNum' = "none" /\ pc' = "exit"
    /\ Resume("none")
    /\ UNCHANGED <<release, gvars, times, todo, sig, redo, sigLoop, root, ignored,
                   outcome, guest, inj>>

\* loop_handle_tracee_syscalls after its wait for the entry.  An augment may
\* also fail.
SyscallEntry ==
    /\ Awaited /\ ~NeedsExtraRound /\ pc = "entry"
    /\ IF times = GdbAt THEN Return("gdb")
       ELSE Augment \/ (nr \in Table /\ Return("failed"))

NextTime == IF times > GdbAt THEN times ELSE times + 1

\* As a slip: the filter of the root left out.
ToInsertNoFilter == IF FixMmap THEN <<>> ELSE <<"mmap">>

\* The system calls inserted after an execve.
ToInsert ==
    CASE root /\ ~FixMmap  -> <<"mmap", "prctl", "seccomp">>
      [] root /\ FixMmap   -> <<"prctl", "seccomp">>
      [] ~root /\ ~FixMmap -> <<"mmap">>
      [] OTHER             -> <<>>

\* The augment returned at the exit of the call.  After an execve (on aarch64
\* as seen at entry, elsewhere as read now) the initialisation starts, which
\* fails when no shared region is left.
SyscallExit ==
    /\ Awaited /\ ~NeedsExtraRound /\ pc = "exit"
    /\ LET execve == (IF Arch = "aarch64" THEN call ELSE nr) = "exec"
           inserts == execve /\ ToInsert # <<>>
       IN \/ execve /\ ~FixMmap /\ Return("failed")
          \/ /\ pc' = IF inserts THEN "insEntry" ELSE "entry"
             /\ todo' = IF inserts THEN ToInsert ELSE <<>>
             /\ first' = (execve /\ ~inserts)
             /\ times' = IF inserts THEN times ELSE NextTime
             /\ Unblock
             /\ WaitForSyscall(FALSE, ready)
             /\ Resume("none")
             /\ UNCHANGED <<release, gvars, ready, origNum, call, nr, sig, redo,
                            root, ignored, outcome, guest, inj>>

\* _insert_syscall_during_init turns the guest's call into the inserted one.
InsertEntry ==
    /\ Awaited /\ ~NeedsExtraRound /\ pc = "insEntry"
    /\ origNum' = IF origNum = "none" THEN nr ELSE origNum
    /\ nr' = Head(todo) /\ inj' = TRUE
    /\ pc' = "insExit" /\ Unblock
    /\ WaitForSyscall(at = "seccomp", ready)
    /\ Resume("none")
    /\ UNCHANGED <<release, gvars, ready, first, times, todo, call, sig, redo, root,
                   ignored, outcome, guest>>

\* As a slip: the program counter is not rewound.
RewoundNumLost == "none"

\* The number the rewound instruction issues.  x86_64 takes it from rax, which
\* setregs restored to its value at the entry stop, not from orig_rax.
RewoundNum == IF Arch = "x86_64" THEN "enosys" ELSE origNum

\* Registers restored, the number register with them, pc rewound by one
\* instruction, then the next insertion or the end of the initialisation.
Rewind ==
    /\ nr' = origNum /\ num' = RewoundNum /\ inj' = FALSE
    /\ redo' = [redo EXCEPT ![level] = RewoundNum]
    /\ todo' = Tail(todo)
    /\ pc' = IF todo' = <<>> THEN "entry" ELSE "insEntry"
    /\ first' = (todo' = <<>>)
    /\ times' = IF todo' = <<>> THEN NextTime ELSE times
    /\ Unblock
    /\ WaitForSyscall(FALSE, ready)
    /\ Resume("none")
    /\ UNCHANGED <<release, ret, filter, pending, booted, handlers, level, calls,
                   sigs, ready, origNum, call, sig, root, ignored, outcome, guest>>

\* The inserted call returned; prctl and seccomp must have succeeded.
InsertExit ==
    /\ Awaited /\ ~NeedsExtraRound /\ pc = "insExit"
    /\ IF ret = "err" /\ Head(todo) # "mmap" THEN Return("failed") ELSE Rewind

\* As a slip: a seccomp-stop without a waiter is not resumed.
UnawaitedSyscall ==
    /\ Running /\ stopped /\ at \in {"entry", "exit"} /\ ~Awaited
    /\ ResumeOnly("none")
    /\ UNCHANGED <<release, gvars, nr, sig, redo, sigLoop, root, ignored, outcome,
                   guest, inj>>

\* A syscall-stop or seccomp-stop no loop waits for: the response is dropped at
\* the end of run_async_step.
Unawaited ==
    /\ Running /\ stopped /\ at \in {"entry", "exit", "seccomp"} /\ ~Awaited
    /\ ResumeOnly("none")
    /\ UNCHANGED <<release, gvars, nr, sig, redo, sigLoop, root, ignored, outcome,
                   guest, inj>>

\* SIGTRAP and group stops stay in the inner loop of event_loop.
UnknownStop ==
    /\ Running /\ stopped
    /\ at = "group" \/ (at = "signals" /\ sig = "SIGTRAP")
    /\ ResumeOnly("none")
    /\ UNCHANGED <<release, gvars, nr, sig, redo, sigLoop, root, ignored, outcome,
                   guest, inj>>

\* The SIGSTOP of the hand-over from the parent's tracer is swallowed.
Swallowed == sig = "SIGSTOP" /\ ~root /\ ignored
\* A SIGSYS of the kernel (si_code > 0), with --fix-sigsys; one that a process
\* has sent is forwarded.
Blocked == sig = "SIGSYS" /\ FixSigsys
\* syscall_num as getregs reports it.
RegNum == IF Arch = "aarch64" THEN num ELSE nr

\* loop_handle_tracee_signals.  A signal that arrives while the loop has
\* yielded finds no waiter.
Signal ==
    /\ Running /\ stopped /\ at = "signals" /\ sig # "SIGTRAP"
    /\ IF sigLoop = "yielded" \/ Swallowed
       THEN ResumeOnly("none") /\ UNCHANGED <<release, sigLoop, outcome, gvars, nr,
                                              sig, redo, root, ignored, guest, inj>>
       ELSE IF Blocked
       THEN /\ ResumeOnly("none")
            /\ sigLoop' = IF RegNum = NoModSyscall THEN "yielded" ELSE "waiting"
            /\ UNCHANGED <<release, outcome, gvars, nr, sig, redo, root, ignored,
                           guest, inj>>
       ELSE IF sig = "SIGSEGV" /\ Gdb
       THEN Return("gdb")
       ELSE ResumeOnly(sig) /\ UNCHANGED <<release, sigLoop, outcome, gvars, nr,
                                           sig, redo, root, ignored, guest, inj>>

\* loop_handle_tracee_other_events on a new process, for the process that
\* forked.  The hand-over of the child may fail.
ForkParent ==
    /\ Running /\ stopped /\ at = "event" /\ nr = "fork"
    /\ \/ Return("failed")
       \/ /\ ResumeOnly("none")
          /\ UNCHANGED <<release, gvars, nr, sig, redo, sigLoop, root, ignored,
                         outcome, guest, inj>>

\* The same event for the child: a fresh handler whose parent remembers the
\* pid, a tracee that inherits the filter and starts with a SIGSTOP (the
\* PTRACE_TRACEME tracer keeps the automatic attachment instead).
ForkChild ==
    /\ Running /\ stopped /\ at = "event" /\ nr = "fork"
    /\ root' = FALSE /\ ignored' = ~FixAttach
    /\ pending' = IF FixAttach THEN {} ELSE {"SIGSTOP"}
    /\ pc' = "entry" /\ ready' = FALSE /\ first' = FALSE
    /\ WaitForSyscall(FALSE, FALSE)
    /\ times' = 1 /\ origNum' = "none" /\ todo' = <<>> /\ call' = "plain"
    /\ sigLoop' = "waiting"
    /\ at' = "signals" /\ stopped' = FALSE /\ sent' = "none"
    /\ mode' = "PTRACE_SYSCALL"
    /\ UNCHANGED <<release, num, ret, filter, booted, handlers, level, calls, sigs,
                   nr, sig, redo, outcome, guest, inj>>

\* PTRACE_EVENT_EXIT: detach and finish.
ExitEvent ==
    /\ Running /\ stopped
    /\ at = "dying" \/ (at = "event" /\ nr = "exit")
    /\ Return("exited")

\* The tracee is dead: waitpid says so, or the next ptrace request fails.
Crashed == Running /\ at = "gone" /\ Return("failed")

Over == ~Running /\ UNCHANGED vars

Kernel == Issue \/ Execute \/ Pass \/ Report \/ Deliver
Environment == Send \/ Kill \/ ParentForgets
SyscallLoop == ExtraRound \/ SyscallEntry \/ SyscallExit \/ InsertEntry \/ InsertExit
Handler == \/ SyscallLoop \/ Unawaited \/ UnknownStop \/ Signal
           \/ ForkParent \/ ForkChild \/ ExitEvent \/ Crashed

Next == Kernel \/ Environment \/ Handler \/ Over

Spec == Init /\ [][Next]_vars

\* A running tracee moves on, except that the guest may compute forever; a
\* rewound instruction is at its program counter and is executed.  A stopped
\* tracee is handled: its tracer thread is blocked in waitpid only.
Fairness ==
    /\ WF_vars(Execute \/ Pass \/ Report \/ Deliver)
    /\ WF_vars(Issue /\ redo[level] # "none")
    /\ WF_vars(Handler)

FairSpec == Spec /\ Fairness

-----------------------------------------------------------------------------
(* Properties. *)

\* What the handler believes and where the kernel is agree: between the entry
\* and the exit it awaits, the tracee is inside that one system call, and a
\* call of the table never runs while the handler believes it is outside.  For
\* kernels since 4.8.  (wait_for_syscall, do_resume_syscall,
\* loop_handle_tracee_syscalls)
InSync ==
    (Running /\ ~KernelIsLegacy) =>
      /\ pc \in {"exit", "insExit"} =>
            at \in {"entry", "seccomp", "body", "event", "exit", "gone"}
      /\ (pc \in {"entry", "insEntry"} /\ at \in {"body", "event", "exit"}) =>
            mode = "PTRACE_CONT" /\ nr \notin Table

\* What the program (level 0) or a signal handler of it asked for last has run
\* exactly once, under its own number unless an augment skipped it.
RunsOnce(l) ==
    (Running /\ at = "user" /\ level = l /\ redo[l] = "none" /\ guest[l].num # "none") =>
        guest[l].ran \in {guest[l].num, NoModSyscall}

\* The guest never notices the insertions: once its program is back in its own
\* code, outside signal handlers, the call it issued has run exactly once.
\* (_insert_syscall_during_init, do_skip_syscall)
GuestCallRunsOnce == RunsOnce(0)

\* Only a tracee with the filter is resumed with PTRACE_CONT between its calls:
\* the handler trusts the seccomp-stop to see the next one.
\* (tracee_seccomp_init_complete)
FilteredWhenReady == (Running /\ ready) => filter

\* A signal loop that has yielded, and hears no signal meanwhile, listens again
\* no later than at the return of the next call of the table: whatever signals
\* and insertions come between, that call reaches an unblock() or the tracee
\* ends.  (loop_handle_tracee_signals, AsyncYielder, all_tracee_loops)
SignalsHeardAgain ==
    (sigLoop = "yielded" /\ at \in {"entry", "seccomp", "body"} /\ nr \in Table)
        ~> (sigLoop = "waiting" \/ ~Running)

\* A call the guest has issued is run or the tracee ends: no stop is left
\* unhandled and the initialisation gives the first call back.  A call that
\* waits for a signal handler of the guest is owed its run again from the
\* moment that handler returns.
CallCompletes ==
    \A l \in {0, 1} :
        (guest[l].num # "none" /\ guest[l].ran = "none" /\ level <= l)
            ~> (guest[l].ran # "none" \/ level > l \/ ~Running)
=============================================================================
