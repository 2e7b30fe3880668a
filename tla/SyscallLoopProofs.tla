-------------------------- MODULE SyscallLoopProofs --------------------------
(***************************************************************************)
(* Proofs about SyscallLoop: its types for every configuration, and the    *)
(* agreement of handler and kernel for every kernel since 4.8 traced with  *)
(* PTRACE_ATTACH, whatever the guest calls and whatever signals arrive.    *)
(***************************************************************************)
EXTENDS SyscallLoop, TLAPS

\* Kernels since 4.8 and a tracer that attaches (no --fix-attach).
Supported ==
    /\ \A r \in Releases : r[1] > 4 \/ (r[1] = 4 /\ r[2] >= 8)
    /\ ~FixAttach

Inside == pc \in {"exit", "insExit"}

\* An insertion in progress has something to insert, and something to restore.
InsertOK ==
    /\ pc \in {"insEntry", "insExit"} => todo # <<>>
    /\ pc = "insExit" => origNum \in Nums

TypeInv == TypeOK /\ InsertOK

\* Position: the pending future tells how the tracee was resumed, and where
\* the tracee can be follows from whether the handler is inside a call.
PositionInv ==
    Running =>
      /\ mode = IF waits = "Syscall" THEN "PTRACE_SYSCALL" ELSE "PTRACE_CONT"
      /\ (waits = "Syscall") <=> (~ready \/ Inside)
      /\ Inside => at \in {"seccomp", "body", "event", "exit", "gone"}
      /\ (~Inside /\ ~ready) => at \notin {"seccomp", "body", "event", "exit"}
      /\ (~Inside /\ at \in {"body", "event", "exit"}) => nr \notin Table

\* Progress of the initialisation: what is inserted, and what is in the kernel.
InsertInv ==
    Running =>
      /\ pc = "exit" => nr \in {call, NoModSyscall}
      /\ pc = "insExit" => nr = Head(todo)
      /\ pc \in {"insEntry", "insExit"} =>
            todo \in IF root THEN {<<"seccomp">>, <<"prctl", "seccomp">>,
                                   <<"mmap", "prctl", "seccomp">>}
                             ELSE {<<"mmap">>}

\* The filter: a process without it has not executed a guest program yet, or is
\* in the execve or the initialisation that leads to it, so it cannot fork.
FilterInv ==
    Running =>
      /\ (ready \/ first \/ ~root) => filter
      /\ (root /\ ~filter) => \/ ~booted
                              \/ pc = "exit" /\ nr = "exec" /\ call = "exec"
                              \/ pc \in {"insEntry", "insExit"}
      /\ (pc = "insExit" /\ nr = "seccomp" /\ at \in {"event", "exit"} /\ ret = "ok")
            => filter
      /\ (nr = "fork" \/ origNum = "fork" \/ redo[0] = "fork" \/ redo[1] = "fork")
            => booted

IInv == TypeInv /\ PositionInv /\ InsertInv /\ FilterInv

\* The points between two system calls, and those of a call.
Outside == {"user", "signals", "deliver", "group"}
InKernel == {"entry", "seccomp", "body", "event", "exit"}

\* The program's last call (outside signal handlers) waits behind a rewound
\* instruction and has not run, or it has run once.
Settled ==
    /\ redo[0] # "none" => guest[0].num = redo[0] /\ guest[0].ran = "none"
    /\ (redo[0] = "none" /\ guest[0].num # "none") =>
          guest[0].ran \in {guest[0].num, NoModSyscall}

\* The call is under way and has not run.
UnderWay == guest[0].num # "none" /\ guest[0].ran = "none"

\* The handler's side of an insertion: when a call in the kernel is an inserted
\* one, when orig_syscall_num is set, and that insertions after the first
\* initialisation replace calls the filter stops.
OnceHandler ==
    Running =>
      /\ inj <=> pc = "insExit"
      /\ pc = "exit" => origNum = "none"
      /\ (stopped /\ at = "seccomp") => nr \in Table
      /\ (pc \in {"insEntry", "insExit"} /\ ready /\ origNum # "none") => origNum \in Table

\* In the kernel no rewound instruction of the current level is left, except
\* that a return from a signal handler may come back to one.
OnceRedo ==
    Running =>
      /\ at \in {"entry", "seccomp", "body"} => redo[level] = "none"
      /\ (at \in {"event", "exit"} /\ nr # "sigreturn") => redo[level] = "none"

\* The call of the program, from its entry to its return.
OnceGuest ==
    Running =>
      /\ (level = 0 /\ at \in {"entry", "seccomp", "body"}) =>
            UnderWay /\ (inj \/ nr = guest[0].num \/ (pc = "exit" /\ nr = NoModSyscall))
      /\ (level = 0 /\ at \in InKernel /\ inj) => UnderWay /\ origNum = guest[0].num
      /\ (level = 1 \/ at \in Outside \/ (at \in {"event", "exit"} /\ ~inj)) => Settled

\* Between two insertions orig_syscall_num belongs to a call that is still to be
\* run: the program's, or that of the signal handler that runs.
OnceAnchor ==
    (Running /\ pc = "insEntry" /\ origNum # "none") =>
        \/ redo[0] = origNum
        \/ level = 1 /\ redo[1] = origNum
        \/ at \in {"entry", "seccomp"} /\ nr = origNum
        \/ at = "gone"

OnceInv == OnceHandler /\ OnceRedo /\ OnceGuest /\ OnceAnchor

\* The steps that only move the tracee: those of the kernel and the environment
\* that issue and run nothing, and those of the handler in which the syscall loop
\* stays where it is.
QuietAction ==
    \/ Pass \/ Report \/ Deliver \/ Send \/ Kill \/ ParentForgets
    \/ Unawaited \/ UnknownStop \/ Signal \/ ForkParent

\* What such a step leaves alone, and how it may move the tracee.
Quiet ==
    /\ UNCHANGED <<pc, waits, ready, first, origNum, todo, call, nr, root, filter,
                   booted, ret, redo, guest, inj, outcome>>
    /\ mode' = mode
    /\ (stopped' /\ at' = "seccomp") => (stopped /\ at = "seccomp") \/ nr \in Table

Moved ==
    \/ at' \in {at, "gone"} /\ level' = level
    \/ at \in Outside /\ at' \in Outside \cup {"dying"} /\ level' \in {level, 1}
    \/ at = "entry" /\ at' = "seccomp" /\ level' = level /\ ready
    \/ at = "seccomp" /\ at' = "body" /\ level' = level /\ (Inside \/ nr \notin Table)
    \/ at = "event" /\ at' = "exit" /\ level' = level
    \/ at = "exit" /\ at' = "signals" /\ level' = level /\ ~Inside

-----------------------------------------------------------------------------
\* Every point has a successor that is a point.
LEMMA SuccType == \A p \in Points : Succ[p] \in Points
BY DEF Succ, Points

\* The queues of insertions and what is left of them.
LEMMA TodoFacts ==
    /\ Tail(<<"mmap">>) = <<>>
    /\ Tail(<<"seccomp">>) = <<>>
    /\ Tail(<<"prctl", "seccomp">>) = <<"seccomp">>
    /\ Tail(<<"mmap", "prctl", "seccomp">>) = <<"prctl", "seccomp">>
    /\ Head(<<"mmap">>) = "mmap"
    /\ Head(<<"seccomp">>) = "seccomp"
    /\ Head(<<"prctl", "seccomp">>) = "prctl"
    /\ Head(<<"mmap", "prctl", "seccomp">>) = "mmap"
OBVIOUS

LEMMA ToInsertFacts ==
    ASSUME root \in BOOLEAN
    PROVE  /\ root => ToInsert \in {<<"prctl", "seccomp">>, <<"mmap", "prctl", "seccomp">>}
           /\ ~root => ToInsert \in {<<>>, <<"mmap">>}
BY Zenon DEF ToInsert

-----------------------------------------------------------------------------
\* The count of rounds saturates above GdbAt.
LEMMA NextTimeType == CounterTypeOK => NextTime \in 1..(GdbAt + 1)
BY SyscallLoopAssumption DEF CounterTypeOK, NextTime

LEMMA TypeInvariance == Spec => []TypeInv
<1>1. Init => TypeInv
  <2> SUFFICES ASSUME Init PROVE TypeInv
    OBVIOUS
  <2>1. KernelTypeOK
    BY SyscallLoopAssumption, Zenon DEF Init, KernelTypeOK, Points, Nums, GuestNums
  <2>2. HandlerTypeOK
    BY DEF Init, HandlerTypeOK, Nums, GuestNums
  <2>3. HistoryTypeOK
    BY DEF Init, HistoryTypeOK, NoCall
  <2>4. CounterTypeOK
    BY SyscallLoopAssumption DEF Init, CounterTypeOK
  <2>5. InsertOK
    BY DEF Init, InsertOK
  <2>6. QED
    BY <2>1, <2>2, <2>3, <2>4, <2>5 DEF TypeInv, TypeOK
<1>2. TypeInv /\ [Next]_vars => TypeInv'
  <2> SUFFICES ASSUME TypeInv, [Next]_vars PROVE TypeInv'
    OBVIOUS
  <2>a. KernelTypeOK
    BY DEF TypeInv, TypeOK
  <2>b. HandlerTypeOK
    BY DEF TypeInv, TypeOK
  <2>c. HistoryTypeOK
    BY DEF TypeInv, TypeOK
  <2>d. CounterTypeOK
    BY DEF TypeInv, TypeOK
  <2>e. InsertOK
    BY DEF TypeInv
  <2>1. CASE Issue
    <3>1. KernelTypeOK'
      BY <2>a, <2>1, SuccType DEF Issue, KernelTypeOK, Points, Nums
    <3>2. HandlerTypeOK'
      BY <2>b, <2>1 DEF Issue, HandlerTypeOK, hvars
    <3>3. HistoryTypeOK'
      BY <2>a, <2>c, <2>1 DEF Issue, HistoryTypeOK, Nums, KernelTypeOK, GuestNums
    <3>4. CounterTypeOK'
      BY <2>d, <2>1, SyscallLoopAssumption DEF Issue, CounterTypeOK, hvars
    <3>5. InsertOK'
      BY <2>e, <2>1 DEF Issue, hvars, InsertOK
    <3>6. QED
      BY <3>1, <3>2, <3>3, <3>4, <3>5 DEF TypeInv, TypeOK
  <2>2. CASE Execute
    <3>1. KernelTypeOK'
      BY <2>a, <2>2, SuccType, SyscallLoopAssumption, Zenon DEF Execute, KernelTypeOK, Points
    <3>2. HandlerTypeOK'
      BY <2>b, <2>2 DEF Execute, HandlerTypeOK, hvars
    <3>3. HistoryTypeOK'
      BY <2>a, <2>c, <2>2 DEF Execute, HistoryTypeOK, KernelTypeOK
    <3>4. CounterTypeOK'
      BY <2>d, <2>2 DEF Execute, CounterTypeOK, hvars
    <3>5. InsertOK'
      BY <2>e, <2>2 DEF Execute, hvars, InsertOK
    <3>6. QED
      BY <3>1, <3>2, <3>3, <3>4, <3>5 DEF TypeInv, TypeOK
  <2>3. CASE ExtraRound
    <3>1. KernelTypeOK'
      BY <2>a, <2>3, SuccType, Zenon DEF ExtraRound, Resume, gvars, KernelTypeOK
    <3>2. HandlerTypeOK'
      BY <2>b, <2>3 DEF ExtraRound, Resume, gvars, HandlerTypeOK
    <3>3. HistoryTypeOK'
      BY <2>c, <2>3 DEF ExtraRound, Resume, gvars, HistoryTypeOK
    <3>4. CounterTypeOK'
      BY <2>d, <2>3 DEF ExtraRound, Resume, gvars, CounterTypeOK
    <3>5. InsertOK'
      BY <2>e, <2>3 DEF ExtraRound, Resume, gvars, InsertOK
    <3>6. QED
      BY <3>1, <3>2, <3>3, <3>4, <3>5 DEF TypeInv, TypeOK
  <2>4. CASE SyscallEntry
    <3>1. KernelTypeOK'
      BY <2>a, <2>4, SuccType, ZenonT(30) DEF SyscallEntry, Augment, Resume, Return, gvars, hvars,
         KernelTypeOK, Points, Nums, GuestNums, NoModSyscall
    <3>2. HandlerTypeOK'
      <4>1. CASE Augment
        BY <2>a, <2>b, <4>1, Zenon DEF Augment, WaitForSyscall, KernelTypeOK,
           HandlerTypeOK
      <4>2. CASE Return("gdb") \/ Return("failed")
        BY <2>b, <4>2 DEF Return, hvars, HandlerTypeOK
      <4>3. QED
        BY <2>4, <4>1, <4>2 DEF SyscallEntry
    <3>3. HistoryTypeOK'
      BY <2>c, <2>4 DEF SyscallEntry, Augment, Resume, Return, gvars, hvars, HistoryTypeOK
    <3>4. CounterTypeOK'
      BY <2>d, <2>4 DEF SyscallEntry, Augment, Resume, Return, gvars, hvars, CounterTypeOK
    <3>5. InsertOK'
      BY <2>e, <2>4 DEF SyscallEntry, Augment, Resume, Return, gvars, hvars, InsertOK
    <3>6. QED
      BY <3>1, <3>2, <3>3, <3>4, <3>5 DEF TypeInv, TypeOK
  <2>5. CASE SyscallExit
    <3>1. KernelTypeOK'
      BY <2>a, <2>5, SuccType, Zenon DEF SyscallExit, Unblock, Resume, Return, gvars, hvars,
         KernelTypeOK, Points
    <3>2. HandlerTypeOK'
      BY <2>b, <2>5, ToInsertFacts, Zenon DEF SyscallExit, Unblock, Resume, Return, gvars, hvars,
         HandlerTypeOK, WaitForSyscall
    <3>3. HistoryTypeOK'
      BY <2>c, <2>5, Zenon DEF SyscallExit, Unblock, Resume, Return, gvars, hvars, HistoryTypeOK
    <3>4. CounterTypeOK'
      BY <2>d, <2>5, NextTimeType, Zenon DEF SyscallExit, Unblock, Resume, Return, gvars, hvars,
         CounterTypeOK
    <3>5. InsertOK'
      BY <2>e, <2>5, Zenon DEF SyscallExit, Unblock, Resume, Return, gvars, hvars, InsertOK
    <3>6. QED
      BY <3>1, <3>2, <3>3, <3>4, <3>5 DEF TypeInv, TypeOK
  <2>6. CASE InsertEntry
    <3>1. KernelTypeOK'
      <4>1. Head(todo) \in Nums
        BY <2>b, <2>e, <2>6, TodoFacts DEF InsertEntry, Unblock, HandlerTypeOK, InsertOK, Nums,
           Inserted
      <4>2. QED
        BY <2>a, <2>6, <4>1, SuccType, Zenon DEF InsertEntry, Unblock, Resume, gvars, KernelTypeOK
    <3>2. HandlerTypeOK'
      <4>1. /\ pc' = "insExit" /\ sigLoop' = "waiting"
            /\ WaitForSyscall(at = "seccomp", ready)
            /\ origNum' = IF origNum = "none" THEN nr ELSE origNum
            /\ UNCHANGED <<ready, first, todo, call, root, ignored, outcome>>
        BY <2>6 DEF InsertEntry, Unblock
      <4>2. waits' \in {"Syscall", "Seccomp"} /\ expExit' \in BOOLEAN /\ extra' \in BOOLEAN
        BY <4>1, Zenon DEF WaitForSyscall
      <4>3. origNum' \in Nums \cup {"none"}
        BY <2>a, <2>b, <4>1 DEF KernelTypeOK, HandlerTypeOK
      <4>4. QED
        BY <2>b, <4>1, <4>2, <4>3 DEF HandlerTypeOK
    <3>3. HistoryTypeOK'
      BY <2>c, <2>6 DEF InsertEntry, Unblock, Resume, gvars, HistoryTypeOK
    <3>4. CounterTypeOK'
      BY <2>d, <2>6 DEF InsertEntry, Unblock, Resume, gvars, CounterTypeOK
    <3>5. InsertOK'
      BY <2>a, <2>b, <2>e, <2>6 DEF InsertEntry, Unblock, Resume, gvars, InsertOK,
         KernelTypeOK, HandlerTypeOK
    <3>6. QED
      BY <3>1, <3>2, <3>3, <3>4, <3>5 DEF TypeInv, TypeOK
  <2>7. CASE InsertExit
    <3>1. KernelTypeOK'
      <4>1. origNum \in Nums /\ RewoundNum \in Nums
        BY <2>e, <2>7 DEF InsertExit, InsertOK, RewoundNum, Nums
      <4>2. CASE Rewind
        BY <2>a, <4>1, <4>2, SuccType, Zenon DEF Rewind, Unblock, Resume, gvars, KernelTypeOK
      <4>3. CASE Return("failed")
        BY <2>a, <4>3 DEF Return, gvars, KernelTypeOK, Points
      <4>4. QED
        BY <2>7, <4>2, <4>3 DEF InsertExit
    <3>2. HandlerTypeOK'
      BY <2>b, <2>e, <2>7, TodoFacts, Zenon DEF InsertExit, Rewind, Unblock, Resume, Return, gvars, hvars,
         HandlerTypeOK, WaitForSyscall, InsertOK
    <3>3. HistoryTypeOK'
      BY <2>c, <2>7, Zenon DEF InsertExit, Rewind, Unblock, Resume, Return, gvars, hvars, HistoryTypeOK
    <3>4. CounterTypeOK'
      BY <2>d, <2>7, NextTimeType, Zenon DEF InsertExit, Rewind, Unblock, Resume, Return, gvars, hvars,
         CounterTypeOK
    <3>5. InsertOK'
      BY <2>b, <2>e, <2>7, TodoFacts, Zenon DEF InsertExit, Rewind, Unblock, Resume, Return, gvars, hvars,
         InsertOK, HandlerTypeOK
    <3>6. QED
      BY <3>1, <3>2, <3>3, <3>4, <3>5 DEF TypeInv, TypeOK
  <2>8. CASE ForkChild
    <3>1. KernelTypeOK'
      BY <2>a, <2>8, Zenon DEF ForkChild, KernelTypeOK, Points
    <3>2. HandlerTypeOK'
      BY <2>b, <2>8, Zenon DEF ForkChild, HandlerTypeOK, WaitForSyscall, Nums, GuestNums
    <3>3. HistoryTypeOK'
      BY <2>c, <2>8 DEF ForkChild, HistoryTypeOK
    <3>4. CounterTypeOK'
      BY <2>d, <2>8, SyscallLoopAssumption DEF ForkChild, CounterTypeOK
    <3>5. InsertOK'
      BY <2>e, <2>8 DEF ForkChild, InsertOK
    <3>6. QED
      BY <3>1, <3>2, <3>3, <3>4, <3>5 DEF TypeInv, TypeOK
  <2>9. CASE QuietAction \/ ExitEvent \/ Crashed \/ UNCHANGED vars
    <3>1. KernelTypeOK'
      <4>1. CASE Pass
        BY <2>a, <4>1, SuccType DEF Pass, gvars, hvars, KernelTypeOK
      <4>2. CASE Report
        BY <2>a, <4>2 DEF Report, hvars, KernelTypeOK
      <4>3. CASE Deliver
        BY <2>a, <4>3 DEF Deliver, hvars, KernelTypeOK, Points
      <4>4. CASE Send
        BY <2>a, <4>4 DEF Send, hvars, KernelTypeOK, Points
      <4>5. CASE Kill
        BY <2>a, <4>5 DEF Kill, gvars, hvars, KernelTypeOK, Points
      <4>6. CASE ParentForgets
        BY <2>a, <4>6 DEF ParentForgets, kvars, gvars, hvars, KernelTypeOK
      <4>7. CASE Unawaited
        BY <2>a, <4>7, SuccType, Zenon DEF Unawaited, ResumeOnly, Resume, gvars, hvars,
           KernelTypeOK
      <4>8. CASE UnknownStop
        BY <2>a, <4>8, SuccType, Zenon DEF UnknownStop, ResumeOnly, Resume, gvars, hvars,
           KernelTypeOK
      <4>9. CASE Signal
        <5>1. CASE Return("gdb")
          BY <2>a, <5>1 DEF Return, gvars, KernelTypeOK, Points
        <5>2. CASE /\ ResumeOnly("none") \/ ResumeOnly(sig)
                   /\ UNCHANGED <<release, gvars, nr, sig, redo>>
          BY <2>a, <4>9, <5>2, SuccType, Zenon DEF Signal, ResumeOnly, Resume, gvars,
             KernelTypeOK
        <5>3. QED
          BY <4>9, <5>1, <5>2 DEF Signal
      <4>10. CASE ForkParent
        BY <2>a, <4>10, SuccType, Zenon DEF ForkParent, ResumeOnly, Resume, Return, gvars,
           hvars, KernelTypeOK, Points
      <4>11. CASE ExitEvent
        BY <2>a, <4>11 DEF ExitEvent, Return, gvars, hvars, KernelTypeOK, Points
      <4>12. CASE Crashed
        BY <2>a, <4>12 DEF Crashed, Return, gvars, hvars, KernelTypeOK, Points
      <4>13. CASE UNCHANGED vars
        BY <2>a, <4>13 DEF vars, kvars, gvars, hvars, KernelTypeOK
      <4>14. QED
        BY <2>9, <4>1, <4>2, <4>3, <4>4, <4>5, <4>6, <4>7, <4>8, <4>9, <4>10, <4>11,
           <4>12, <4>13 DEF QuietAction
    <3>2. /\ UNCHANGED <<hvars, root, guest, inj, calls>>
          /\ ignored' \in {ignored, FALSE} /\ sigLoop' \in {sigLoop, "waiting", "yielded"}
          /\ outcome' \in {outcome, "exited", "gdb", "failed"}
          /\ sigs' = sigs \/ Send
      <4>1. CASE Pass \/ Report \/ Deliver \/ Send \/ Kill \/ ParentForgets
        BY <4>1, Zenon DEF Pass, Report, Deliver, Send, Kill, ParentForgets, gvars
      <4>2. CASE Unawaited \/ UnknownStop \/ Signal \/ ForkParent
        BY <4>2, Zenon DEF Unawaited, UnknownStop, Signal, ForkParent, ResumeOnly, Return, gvars
      <4>3. CASE ExitEvent \/ Crashed \/ UNCHANGED vars
        BY <4>3, Zenon DEF ExitEvent, Crashed, Return, vars, gvars
      <4>4. QED
        BY <2>9, <4>1, <4>2, <4>3, Zenon DEF QuietAction
    <3>3. HandlerTypeOK'
      <4>1. /\ ignored' \in BOOLEAN /\ sigLoop' \in {"waiting", "yielded"}
            /\ outcome' \in {"running", "exited", "gdb", "failed"}
        BY <2>b, <3>2, Zenon DEF HandlerTypeOK
      <4>2. QED
        BY <2>b, <3>2, <4>1 DEF hvars, HandlerTypeOK
    <3>4. sigs' \in 0..MaxSignals
      BY <2>d, <3>2, SyscallLoopAssumption DEF Send, CounterTypeOK
    <3>5. CounterTypeOK' /\ HistoryTypeOK' /\ InsertOK'
      BY <2>c, <2>d, <2>e, <3>2, <3>4 DEF hvars, CounterTypeOK, HistoryTypeOK, InsertOK
    <3>6. QED
      BY <3>1, <3>3, <3>5 DEF TypeInv, TypeOK
  <2>10. QED
    BY <2>1, <2>2, <2>3, <2>4, <2>5, <2>6, <2>7, <2>8, <2>9
       DEF Next, Kernel, Environment, Handler, SyscallLoop, Over, QuietAction
<1>3. QED
  BY <1>1, <1>2, PTL DEF Spec

\* Every variable of the handler, the kernel and the guest keeps its type, in
\* every configuration.  (the state of AsyncTraceeHandler, the await points of
\* loop_handle_tracee_syscalls)
THEOREM TypeCorrect == Spec => []TypeOK
<1>1. TypeInv => TypeOK
  BY DEF TypeInv
<1>2. QED
  BY <1>1, TypeInvariance, PTL

-----------------------------------------------------------------------------
\* Since 4.8 a call passes entry, seccomp, body, event and exit, in this order.
LEMMA SuccModern ==
    ASSUME ~KernelIsLegacy
    PROVE  /\ Succ["user"] = "entry" /\ Succ["entry"] = "seccomp"
           /\ Succ["seccomp"] = "body" /\ Succ["body"] = "event"
           /\ Succ["event"] = "exit" /\ Succ["exit"] = "signals"
           /\ Succ["signals"] \in {"deliver", "user"} /\ Succ["group"] = "signals"
BY DEF Succ, Points

\* The kernels is_legacy_seccomp takes for older ones than 4.8 are older.
LEMMA NoExtraRound ==
    ASSUME release \in Nat \X Nat, ~KernelIsLegacy
    PROVE  ~NeedsExtraRound
BY DEF KernelIsLegacy, NeedsExtraRound, IsLegacySeccomp

\* What wait_for_syscall returns for is the stop its caller means.
LEMMA AwaitedStop ==
    ASSUME TypeInv, PositionInv, Awaited
    PROVE  /\ Inside => at = "exit"
           /\ ~Inside => IF ready THEN at = "seccomp" ELSE at = "entry"
BY DEF TypeInv, TypeOK, KernelTypeOK, HandlerTypeOK, PositionInv, Awaited, Inside, Running

\* After Return nothing is claimed.
LEMMA ReturnStep ==
    ASSUME NEW how \in {"exited", "gdb", "failed"}, Return(how)
    PROVE  PositionInv' /\ InsertInv' /\ FilterInv'
BY DEF Return, PositionInv, InsertInv, FilterInv, Running

\* A quiet step does what Quiet and Moved say, or ends the handler.
LEMMA QuietMoves ==
    ASSUME ~KernelIsLegacy, TypeInv, PositionInv, FilterInv, QuietAction
    PROVE  (Running /\ Quiet /\ Moved) \/ Return("gdb") \/ Return("failed")
<1>a. KernelTypeOK /\ HandlerTypeOK
  BY DEF TypeInv, TypeOK
<1>b. Running
  BY Zenon DEF QuietAction, Pass, Report, Deliver, Send, Kill, ParentForgets, Unawaited,
     UnknownStop, Signal, ForkParent
<1>c. mode = IF waits = "Syscall" THEN "PTRACE_SYSCALL" ELSE "PTRACE_CONT"
  BY <1>b DEF PositionInv
<1>1. CASE Pass
  <2>1. Quiet /\ level' = level /\ ~Reports
        /\ at \in {"entry", "seccomp", "event", "exit", "signals"}
    BY <1>1 DEF Pass, Quiet, gvars, hvars
  <2>2. /\ at = "entry" => at' = "seccomp"
        /\ at = "seccomp" => at' = "body"
        /\ at = "event" => at' = "exit"
        /\ at = "exit" => at' = "signals"
        /\ at = "signals" => at' \in {"deliver", "user"}
    BY <1>1, SuccModern DEF Pass
  <2>3. at \in {"entry", "exit"} => ready /\ ~Inside
    BY <1>a, <1>b, <2>1 DEF Reports, PositionInv, HandlerTypeOK
  <2>4. at = "seccomp" => Inside \/ nr \notin Table
    BY <1>b, <2>1 DEF Reports, PositionInv, FilterInv
  <2>5. QED
    BY <1>b, <2>1, <2>2, <2>3, <2>4 DEF Moved, Outside
<1>2. CASE Report
  <2>1. Quiet /\ at' = at /\ level' = level
    BY <1>2 DEF Report, Reports, Quiet, hvars
  <2>2. QED
    BY <1>b, <2>1 DEF Moved
<1>3. CASE Deliver
  <2>1. /\ Quiet /\ at = "deliver" /\ at' \in {"signals", "group", "dying"}
        /\ level' \in {level, 1}
    BY <1>3 DEF Deliver, Quiet, hvars
  <2>2. QED
    BY <1>b, <2>1 DEF Moved, Outside
<1>4. CASE Send
  <2>1. Quiet /\ level' = level /\ at' = IF at = "user" THEN "signals" ELSE at
    BY <1>4 DEF Send, Quiet, hvars
  <2>2. QED
    BY <1>b, <2>1 DEF Moved, Outside
<1>5. CASE Kill \/ ParentForgets
  <2>1. Quiet /\ level' = level /\ at' \in {at, "gone"}
    BY <1>5 DEF Kill, ParentForgets, Quiet, kvars, gvars, hvars
  <2>2. QED
    BY <1>b, <2>1 DEF Moved
<1>6. CASE Unawaited
  <2>1. /\ Quiet /\ level' = level /\ stopped
        /\ at \in {"entry", "exit", "seccomp"} /\ ~Awaited
    BY <1>c, <1>6 DEF Unawaited, ResumeOnly, Resume, Quiet, gvars, hvars
  <2>2. /\ at = "entry" => at' = "seccomp"
        /\ at = "seccomp" => at' = "body"
        /\ at = "exit" => at' = "signals"
    BY <1>6, SuccModern DEF Unawaited, ResumeOnly, Resume
  <2>3. /\ at \in {"entry", "exit"} => ready /\ ~Inside
        /\ at = "seccomp" => Inside
    BY <1>a, <1>b, <2>1 DEF Awaited, PositionInv, HandlerTypeOK
  <2>4. QED
    BY <1>b, <2>1, <2>2, <2>3 DEF Moved
<1>7. CASE UnknownStop
  <2>1. Quiet /\ level' = level /\ at \in {"group", "signals"} /\ at' = Succ[at]
    BY <1>c, <1>7 DEF UnknownStop, ResumeOnly, Resume, Quiet, gvars, hvars
  <2>2. QED
    BY <1>b, <2>1, SuccModern DEF Moved, Outside
<1>8. CASE Signal /\ ~Return("gdb")
  <2>1. at = "signals" /\ (ResumeOnly("none") \/ ResumeOnly(sig))
    BY <1>8, Zenon DEF Signal
  <2>2. UNCHANGED <<nr, root, redo, guest, inj, outcome, gvars>>
    BY <1>8, Zenon DEF Signal
  <2>3. Quiet /\ level' = level /\ at' = Succ[at] /\ at = "signals"
    BY <1>c, <1>8, <2>1, <2>2 DEF Signal, ResumeOnly, Resume, Quiet, gvars, hvars
  <2>4. QED
    BY <1>b, <2>3, SuccModern DEF Moved, Outside
<1>9. CASE ForkParent /\ ~Return("failed")
  <2>1. /\ at = "event" /\ ResumeOnly("none")
        /\ UNCHANGED <<nr, root, redo, guest, inj, outcome, gvars>>
    BY <1>9, Zenon DEF ForkParent
  <2>2. Quiet /\ level' = level /\ at' = Succ[at]
    BY <1>c, <2>1 DEF ResumeOnly, Resume, Quiet, gvars, hvars
  <2>3. QED
    BY <1>b, <2>1, <2>2, SuccModern DEF Moved
<1>10. QED
  BY <1>1, <1>2, <1>3, <1>4, <1>5, <1>6, <1>7, <1>8, <1>9 DEF QuietAction

\* It keeps the position, the insertion and the filter right.
LEMMA QuietSync ==
    ASSUME TypeInv, PositionInv, InsertInv, FilterInv, Running, Quiet, Moved
    PROVE  PositionInv' /\ InsertInv' /\ FilterInv'
<1>a. at \in Points /\ ready \in BOOLEAN
  BY DEF TypeInv, TypeOK, KernelTypeOK, HandlerTypeOK
<1>1. /\ UNCHANGED <<pc, waits, ready, first, origNum, todo, call, nr, root, mode>>
      /\ UNCHANGED <<filter, booted, ret, redo>>
      /\ Running' /\ Inside' = Inside
  BY DEF Quiet, Running, Inside
<1>2. InsertInv'
  BY <1>1 DEF InsertInv
<1>3. FilterInv'
  <2>1. pc = "insExit" /\ at' \in {"event", "exit"} => at \in {"event", "exit"}
    BY DEF Moved, Outside
  <2>2. QED
    BY <1>1, <2>1 DEF FilterInv
<1>4. PositionInv'
  <2>1. Inside => at' \in {"seccomp", "body", "event", "exit", "gone"}
    BY DEF PositionInv, Moved, Outside
  <2>2. (~Inside /\ ~ready) => at' \notin {"seccomp", "body", "event", "exit"}
    BY DEF PositionInv, Moved, Outside
  <2>3. (~Inside /\ at' \in {"body", "event", "exit"}) => nr \notin Table
    BY DEF PositionInv, Moved, Outside
  <2>4. QED
    BY <1>1, <2>1, <2>2, <2>3 DEF PositionInv
<1>5. QED
  BY <1>2, <1>3, <1>4

\* The inductive step for a kernel since 4.8 and a tracer that attaches.
LEMMA SyncStep ==
    ASSUME Supported, IInv, TypeInv', [Next]_vars
    PROVE  PositionInv' /\ InsertInv' /\ FilterInv'
<1>a. TypeInv /\ PositionInv /\ InsertInv /\ FilterInv
  BY DEF IInv
<1>b. /\ KernelTypeOK /\ HandlerTypeOK
      /\ KernelTypeOK' /\ HandlerTypeOK'
  BY <1>a DEF TypeInv, TypeOK
<1>c. release \in Nat \X Nat /\ ~KernelIsLegacy /\ ~FixAttach
  <2>1. release \in Releases /\ release \in Nat \X Nat
    BY <1>b, SyscallLoopAssumption DEF KernelTypeOK
  <2>2. release[1] > 4 \/ (release[1] = 4 /\ release[2] >= 8)
    BY <2>1 DEF Supported
  <2>3. QED
    BY <2>1, <2>2 DEF Supported, KernelIsLegacy
<1>1. CASE Issue
  <2>1. PositionInv'
    BY <1>a, <1>b, <1>c, <1>1, SuccModern DEF Issue, hvars, PositionInv, Inside,
       Running, Table, KernelTypeOK, HandlerTypeOK
  <2>2. InsertInv'
    BY <1>a, <1>b, <1>c, <1>1 DEF Issue, hvars, InsertInv, Running, PositionInv,
       Inside
  <2>3. FilterInv'
    BY <1>a, <1>b, <1>c, <1>1, SuccModern DEF Issue, hvars, FilterInv, Inside,
       Running, Table, KernelTypeOK, PositionInv
  <2>4. QED
    BY <2>1, <2>2, <2>3
<1>2. CASE Execute
  <2>1. PositionInv'
    BY <1>a, <1>b, <1>c, <1>2, SuccModern DEF Execute, hvars, PositionInv, Inside,
       Running, Table
  <2>2. InsertInv'
    BY <1>a, <1>b, <1>c, <1>2 DEF Execute, hvars, InsertInv, Running
  <2>3. FilterInv'
    <3>1. Running => Inside \/ nr \notin Table
      BY <1>a, <1>2 DEF Execute, PositionInv
    <3>2. (Running' /\ (ready' \/ first' \/ ~root')) => filter'
      BY <1>a, <1>2, Zenon DEF Execute, hvars, FilterInv, Running
    <3>3. (Running' /\ root' /\ ~filter' /\ booted') =>
              \/ pc' = "exit" /\ nr' = "exec" /\ call' = "exec"
              \/ pc' \in {"insEntry", "insExit"}
      <4>1. CASE nr = "exec"
        BY <1>a, <1>b, <1>2, <3>1, <4>1 DEF Execute, hvars, FilterInv, InsertInv, Running,
           Inside, Table, NoModSyscall
      <4>2. CASE nr # "exec"
        <5>1. booted' = booted /\ (filter => filter')
          BY <1>b, <1>2, <4>2, Zenon DEF Execute, KernelTypeOK
        <5>2. QED
          BY <1>a, <1>b, <1>2, <4>2, <5>1 DEF Execute, hvars, FilterInv, Running
      <4>3. QED
        BY <4>1, <4>2
    <3>4. (nr' = "seccomp" /\ ret' = "ok") => filter'
      BY <1>2, Zenon DEF Execute
    <3>5. Running' /\ (nr' = "fork" \/ origNum' = "fork" \/ redo'[0] = "fork"
                      \/ redo'[1] = "fork") => booted'
      BY <1>a, <1>2, Zenon DEF Execute, hvars, FilterInv, Running
    <3>6. QED
      BY <3>2, <3>3, <3>4, <3>5 DEF FilterInv
  <2>4. QED
    BY <2>1, <2>2, <2>3
<1>3. CASE SyscallEntry
  <2>1. CASE Augment
    <3>1. pc = "entry" /\ Running /\ (IF ready THEN at = "seccomp" ELSE at = "entry")
      BY <1>a, <1>3, AwaitedStop DEF SyscallEntry, Awaited, Inside
    <3>2. PositionInv'
      BY <1>b, <1>c, <2>1, <3>1, SuccModern DEF Augment, WaitForSyscall, Resume,
         PositionInv, Inside, Running, KernelTypeOK, HandlerTypeOK
    <3>3. InsertInv'
      BY <2>1 DEF Augment, InsertInv
    <3>4. FilterInv'
      BY <1>a, <1>b, <2>1, <3>1 DEF Augment, gvars, FilterInv, Running, NoModSyscall,
         KernelTypeOK, HandlerTypeOK
    <3>5. QED
      BY <3>2, <3>3, <3>4
  <2>2. QED
    BY <1>3, <2>1, ReturnStep DEF SyscallEntry
<1>4. CASE SyscallExit
  <2>1. pc = "exit" /\ Running /\ at = "exit"
    BY <1>a, <1>4, AwaitedStop DEF SyscallExit, Awaited, Inside
  <2>2. CASE Return("failed")
    BY <2>2, ReturnStep
  <2>3. CASE ~Return("failed")
    <3> DEFINE execve == (IF Arch = "aarch64" THEN call ELSE nr) = "exec"
               inserts == execve /\ ToInsert # <<>>
    <3>a. /\ pc' = IF inserts THEN "insEntry" ELSE "entry"
          /\ todo' = IF inserts THEN ToInsert ELSE <<>>
          /\ first' = (execve /\ ~inserts)
          /\ UNCHANGED <<gvars, ready, origNum, call, nr, redo, root, outcome>>
      BY <1>4, <2>3, Zenon DEF SyscallExit
    <3>b. inserts => todo' \in IF root THEN {<<"prctl", "seccomp">>,
                                            <<"mmap", "prctl", "seccomp">>}
                                      ELSE {<<"mmap">>}
      BY <1>b, <3>a, ToInsertFacts DEF HandlerTypeOK
    <3>c. execve /\ ~inserts => ~root
      BY <1>b, <3>a, ToInsertFacts, SMTT(30) DEF HandlerTypeOK
    <3>d. first' => ~root
      BY <3>a, <3>c, Zenon
    <3>e. pc' # "exit" /\ pc' # "insExit"
      BY <3>a
    <3>f. pc' = "insEntry" => inserts
      BY <3>a
    <3> HIDE DEF execve, inserts
    <3>1. PositionInv'
      <4>1. WaitForSyscall(FALSE, ready) /\ Resume("none")
        BY <1>4, <2>3, Zenon DEF SyscallExit
      <4>2. /\ at' = "signals" /\ waits' = IF ready THEN "Seccomp" ELSE "Syscall"
            /\ mode' = IF waits' = "Syscall" THEN "PTRACE_SYSCALL" ELSE "PTRACE_CONT"
        BY <1>c, <2>1, <4>1, SuccModern DEF WaitForSyscall, Resume
      <4>3. QED
        BY <1>b, <3>a, <3>e, <4>2 DEF PositionInv, Inside, HandlerTypeOK
    <3>2. InsertInv'
      BY <3>a, <3>b, <3>e, <3>f DEF InsertInv
    <3>3. FilterInv'
      <4>1. (ready' \/ first' \/ ~root') => filter'
        BY <1>a, <2>1, <3>a, <3>d DEF gvars, FilterInv
      <4>2. (root' /\ ~filter' /\ booted') => pc' = "insEntry"
        BY <1>a, <1>b, <2>1, <3>a, <3>c DEF gvars, FilterInv, execve
      <4>3. (nr' = "fork" \/ origNum' = "fork" \/ redo'[0] = "fork" \/ redo'[1] = "fork")
              => booted'
        BY <1>a, <2>1, <3>a DEF gvars, FilterInv
      <4>4. QED
        BY <1>b, <3>e, <4>1, <4>2, <4>3 DEF FilterInv, KernelTypeOK
    <3>4. QED
      BY <3>1, <3>2, <3>3
  <2>4. QED
    BY <2>2, <2>3
<1>5. CASE InsertEntry
  <2>1. pc = "insEntry" /\ Running /\ (IF ready THEN at = "seccomp" ELSE at = "entry")
    BY <1>a, <1>5, AwaitedStop DEF InsertEntry, Unblock, Awaited, Inside
  <2>2. PositionInv'
    <3>1. /\ WaitForSyscall(at = "seccomp", ready) /\ Resume("none")
          /\ pc' = "insExit" /\ UNCHANGED ready
      BY <1>5 DEF InsertEntry
    <3>2. /\ at' \in {"seccomp", "body"} /\ waits' = "Syscall"
          /\ mode' = "PTRACE_SYSCALL"
      BY <1>c, <2>1, <3>1, SuccModern DEF WaitForSyscall, Resume
    <3>3. QED
      BY <3>1, <3>2 DEF PositionInv, Inside
  <2>3. InsertInv'
    BY <1>a, <1>5, <2>1 DEF InsertEntry, Unblock, InsertInv
  <2>4. FilterInv'
    BY <1>a, <1>b, <1>c, <1>5, <2>1, SuccModern, TodoFacts, Zenon DEF InsertEntry, Unblock, Resume,
       gvars, FilterInv, InsertInv, Running, KernelTypeOK, HandlerTypeOK
  <2>5. QED
    BY <2>2, <2>3, <2>4
<1>6. CASE InsertExit
  <2>1. pc = "insExit" /\ Running /\ at = "exit"
    BY <1>a, <1>6, AwaitedStop DEF InsertExit, Awaited, Inside
  <2>2. CASE Rewind
    <3>1. PositionInv'
      BY <1>b, <1>c, <2>1, <2>2, SuccModern DEF Rewind, Unblock, WaitForSyscall, Resume,
         PositionInv, Inside, Running, KernelTypeOK, HandlerTypeOK
    <3>2. InsertInv'
      BY <1>a, <1>b, <2>1, <2>2, TodoFacts, Zenon DEF Rewind, Unblock, InsertInv, HandlerTypeOK
    <3>3. FilterInv'
      <4>1. todo' = <<>> => filter
        <5>1. ~(ret = "err" /\ Head(todo) # "mmap")
          BY <1>6, <2>1, <2>2, Zenon DEF InsertExit, Rewind, Unblock, Return, Running
        <5>2. todo' = <<>> /\ root => todo = <<"seccomp">>
          <6>1. root => todo \in {<<"seccomp">>, <<"prctl", "seccomp">>,
                                 <<"mmap", "prctl", "seccomp">>}
            BY <1>a, <2>1 DEF InsertInv
          <6>2. <<"seccomp">> # <<>> /\ <<"prctl", "seccomp">> # <<>>
            <7>1. Len(<<"seccomp">>) = 1 /\ Len(<<"prctl", "seccomp">>) = 2 /\ Len(<<>>) = 0
              OBVIOUS
            <7>2. QED
              BY <7>1
          <6>3. QED
            BY <2>2, <6>1, <6>2, TodoFacts, Zenon DEF Rewind, Unblock
        <5>3. todo' = <<>> /\ root => nr = "seccomp" /\ ret = "ok"
          BY <1>a, <1>b, <2>1, <5>1, <5>2, TodoFacts DEF InsertInv, KernelTypeOK
        <5>4. QED
          BY <1>a, <1>b, <2>1, <5>3 DEF FilterInv, KernelTypeOK, HandlerTypeOK
      <4>2. QED
        BY <1>a, <1>b, <2>1, <2>2, <4>1, Zenon DEF Rewind, Unblock, RewoundNum, gvars, FilterInv, Running,
           KernelTypeOK, HandlerTypeOK
    <3>4. QED
      BY <3>1, <3>2, <3>3
  <2>3. QED
    BY <1>6, <2>2, ReturnStep DEF InsertExit
<1>7. CASE ForkChild
  <2>1. filter
    BY <1>a, <1>b, <1>7, TodoFacts DEF ForkChild, PositionInv, InsertInv, FilterInv,
       Inside, Table, KernelTypeOK, HandlerTypeOK
  <2>2. PositionInv'
    BY <1>7 DEF ForkChild, WaitForSyscall, PositionInv, Inside
  <2>3. InsertInv'
    BY <1>7 DEF ForkChild, InsertInv
  <2>4. FilterInv'
    BY <1>a, <1>7, <2>1 DEF ForkChild, FilterInv
  <2>5. QED
    BY <2>2, <2>3, <2>4
<1>8. CASE QuietAction
  BY <1>a, <1>c, <1>8, QuietMoves, QuietSync, ReturnStep
<1>9. CASE ExtraRound
  BY <1>c, <1>9, NoExtraRound DEF ExtraRound
<1>10. CASE ExitEvent \/ Crashed
  BY <1>10, ReturnStep DEF ExitEvent, Crashed
<1>11. CASE UNCHANGED vars
  BY <1>a, <1>11 DEF vars, kvars, gvars, hvars, PositionInv, InsertInv, FilterInv, Inside,
     Running
<1>12. QED
  BY <1>1, <1>2, <1>3, <1>4, <1>5, <1>6, <1>7, <1>8, <1>9, <1>10, <1>11
     DEF Next, Kernel, Environment, Handler, SyscallLoop, Over, QuietAction

LEMMA SyncInvariance == Supported => (Spec => []IInv)
<1> SUFFICES ASSUME Supported PROVE Spec => []IInv
  OBVIOUS
<1>1. Init => PositionInv /\ InsertInv /\ FilterInv
  BY SMTT(30) DEF Init, PositionInv, InsertInv, FilterInv, Inside, Supported
<1>2. IInv /\ TypeInv' /\ [Next]_vars => IInv'
  BY SyncStep DEF IInv
<1>3. QED
  BY <1>1, <1>2, TypeInvariance, PTL DEF Spec, IInv

\* On every kernel since 4.8 a tracer that attaches is never out of step with
\* its tracee: every stop taken for the entry or the exit of a call is the entry
\* or the exit of that call, and no call of the table runs unseen, for any
\* sequence of calls, signals, forks and kills.  (wait_for_syscall,
\* loop_handle_tracee_syscalls, _insert_syscall_during_init)
THEOREM HandlerInSync == Supported => (Spec => []InSync)
<1>1. IInv => InSync
  BY DEF IInv, PositionInv, InSync, Inside, TypeInv, TypeOK, HandlerTypeOK
<1>2. QED
  BY <1>1, SyncInvariance, PTL

\* A process resumed with PTRACE_CONT between its calls carries the filter, for
\* every descendant of the root: none can fork before the filter is in place.
\* (initialize_tracee_seccomp, tracee_seccomp_init_complete)
THEOREM ReadyIsFiltered == Supported => (Spec => []FilteredWhenReady)
<1>1. IInv => FilteredWhenReady
  BY DEF IInv, FilterInv, FilteredWhenReady
<1>2. QED
  BY <1>1, SyncInvariance, PTL

\* After Return nothing is claimed of the calls either.
LEMMA OnceReturn ==
    ASSUME NEW how \in {"exited", "gdb", "failed"}, Return(how)
    PROVE  OnceInv'
BY Zenon DEF Return, OnceInv, OnceHandler, OnceRedo, OnceGuest, OnceAnchor, Running

\* A quiet step preserves what is known of the calls.
LEMMA QuietOnce ==
    ASSUME TypeInv, PositionInv, OnceInv, Running, Quiet, Moved
    PROVE  OnceInv'
<1>a. level \in {0, 1}
  BY DEF TypeInv, TypeOK, KernelTypeOK
<1>1. /\ UNCHANGED <<nr, redo, guest, inj, pc, origNum, ready, Settled, UnderWay>>
      /\ Running'
  BY DEF Quiet, Running, Settled, UnderWay
<1>2. OnceHandler'
  BY <1>1 DEF OnceInv, OnceHandler, Quiet
<1>3. OnceRedo'
  BY <1>1 DEF OnceInv, OnceRedo, Moved, Outside
<1>4. OnceGuest'
  <2>1. CASE at' \in {at, "gone"} /\ level' = level
    BY <1>1, <2>1 DEF OnceInv, OnceGuest, InKernel, Outside
  <2>2. CASE at \in Outside /\ at' \in Outside \cup {"dying"}
    BY <1>1, <2>2 DEF OnceInv, OnceGuest, InKernel, Outside
  <2>3. CASE /\ <<at, at'>> \in {<<"entry", "seccomp">>, <<"seccomp", "body">>,
                                 <<"event", "exit">>}
             /\ level' = level
    BY <1>1, <2>3 DEF OnceInv, OnceGuest, InKernel, Outside
  <2>4. CASE at = "exit" /\ at' = "signals" /\ level' = level /\ ~Inside
    BY <1>1, <2>4 DEF OnceInv, OnceGuest, OnceHandler, InKernel, Outside, Inside
  <2>5. QED
    BY <2>1, <2>2, <2>3, <2>4 DEF Moved
<1>5. OnceAnchor'
  <2>1. SUFFICES ASSUME pc = "insEntry", origNum # "none" PROVE OnceAnchor'
    BY <1>1 DEF OnceAnchor
  <2>2. at = "seccomp" /\ at' = "body" => nr # origNum
    BY <2>1 DEF OnceInv, OnceHandler, PositionInv, Moved, Inside, Outside
  <2>3. QED
    BY <1>1, <2>1, <2>2 DEF OnceInv, OnceAnchor, Moved, Outside
<1>6. QED
  BY <1>2, <1>3, <1>4, <1>5 DEF OnceInv

\* The inductive step, on aarch64 for a kernel since 4.8 and a tracer that attaches.
LEMMA OnceStep ==
    ASSUME Supported, Arch = "aarch64", IInv, TypeInv', OnceInv, [Next]_vars
    PROVE  OnceInv'
<1>a. TypeInv /\ PositionInv /\ InsertInv /\ FilterInv
  BY DEF IInv
<1>b. KernelTypeOK /\ HandlerTypeOK /\ HistoryTypeOK
  BY <1>a DEF TypeInv, TypeOK
<1>c. release \in Nat \X Nat /\ ~KernelIsLegacy
  <2>1. release \in Releases /\ release \in Nat \X Nat
    BY <1>b, SyscallLoopAssumption DEF KernelTypeOK
  <2>2. release[1] > 4 \/ (release[1] = 4 /\ release[2] >= 8)
    BY <2>1 DEF Supported
  <2>3. QED
    BY <2>1, <2>2 DEF KernelIsLegacy
<1>d. OnceHandler /\ OnceRedo /\ OnceGuest /\ OnceAnchor
  BY DEF OnceInv
<1>e. level \in {0, 1} /\ redo \in [{0, 1} -> Nums \cup {"none"}] /\ at \in Points
  BY <1>b DEF KernelTypeOK
<1>f. (Running /\ inj) => nr \in Inserted
  BY <1>a, <1>d, TodoFacts DEF OnceHandler, InsertInv, Inserted
<1>1. CASE Issue
  <2>1. OnceHandler'
    BY <1>d, <1>1 DEF Issue, hvars, OnceHandler, Running
  <2>2. OnceRedo'
    BY <1>d, <1>e, <1>1 DEF Issue, hvars, OnceRedo, Running
  <2>3. OnceGuest'
    <3>1. /\ Running /\ at = "user" /\ at' = "entry" /\ nr' = num'
          /\ UNCHANGED <<level, inj, pc, origNum, outcome>>
      BY <1>c, <1>1, SuccModern DEF Issue, hvars
    <3>2. ~inj
      BY <1>a, <1>d, <3>1 DEF PositionInv, Inside, OnceHandler
    <3>3. Settled
      BY <1>d, <3>1 DEF OnceGuest, Outside
    <3>4. CASE level = 1
      <4>1. redo'[0] = redo[0] /\ guest'[0] = guest[0]
        <5>1. /\ redo' = redo \/ redo' = [redo EXCEPT ![1] = "none"]
              /\ guest' = guest \/ \E n \in GuestNums :
                    guest' = [guest EXCEPT ![1] = [num |-> n, ran |-> "none"]]
          BY <1>1, <3>4, Zenon DEF Issue
        <5>2. DOMAIN guest = {0, 1} /\ DOMAIN redo = {0, 1}
          BY <1>b, <1>e DEF HistoryTypeOK
        <5>3. QED
          BY <5>1, <5>2
      <4>2. Settled'
        BY <3>3, <4>1 DEF Settled
      <4>3. QED
        BY <3>1, <3>2, <3>4, <4>2 DEF OnceGuest
    <3>5. CASE level = 0
      <4>1. guest'[0].num = nr' /\ guest'[0].ran = "none" /\ nr' # "none"
        <5>1. CASE redo[0] # "none"
          BY <1>1, <1>e, <3>1, <3>3, <3>5, <5>1 DEF Issue, Settled
        <5>2. CASE redo[0] = "none"
          <6>1. PICK n \in GuestNums :
                    num' = n /\ guest' = [guest EXCEPT ![level] = [num |-> n, ran |-> "none"]]
            BY <1>1, <3>5, <5>2 DEF Issue
          <6>2. guest'[0] = [num |-> n, ran |-> "none"]
            BY <1>b, <3>5, <6>1 DEF HistoryTypeOK
          <6>3. QED
            BY <3>1, <6>1, <6>2 DEF GuestNums
        <5>3. QED
          BY <5>1, <5>2
      <4>2. UnderWay'
        BY <3>1, <4>1 DEF UnderWay
      <4>3. level' = 0 /\ level' # 1 /\ ~inj' /\ at' \notin Outside \cup {"event", "exit"}
        BY <3>1, <3>2, <3>5 DEF Outside
      <4>4. QED
        BY <4>1, <4>2, <4>3, Zenon DEF OnceGuest
    <3>6. QED
      BY <1>e, <3>4, <3>5
  <2>4. OnceAnchor'
    BY <1>c, <1>d, <1>e, <1>1, SuccModern DEF Issue, hvars, OnceAnchor, Running
  <2>5. QED
    BY <2>1, <2>2, <2>3, <2>4 DEF OnceInv
<1>2. CASE Execute
  <2>1. OnceHandler'
    BY <1>d, <1>2 DEF Execute, hvars, OnceHandler, Running
  <2>2. OnceRedo'
    BY <1>c, <1>d, <1>2, SuccModern DEF Execute, hvars, OnceRedo, Running
  <2>3. OnceGuest'
    <3>1. /\ Running /\ at = "body" /\ at' = "event" /\ ret' \in {"ok", "err"}
          /\ UNCHANGED <<nr, inj, pc, origNum, outcome>>
      BY <1>c, <1>2, SuccModern DEF Execute, hvars
    <3>2. redo[level] = "none"
      BY <1>d, <3>1 DEF OnceRedo
    <3>3. CASE inj
      <4>1. nr \in Inserted
        BY <1>f, <3>1, <3>3
      <4>2. level' = level /\ redo' = redo /\ guest' = guest
        BY <1>2, <3>3, <4>1 DEF Execute, Inserted
      <4>3. QED
        BY <1>d, <1>e, <3>1, <3>3, <4>2, Zenon DEF OnceGuest, Settled, UnderWay, InKernel,
           Outside
    <3>4. CASE ~inj /\ nr = "exec" /\ ret' = "ok"
      <4>1. guest' = [l \in {0, 1} |-> [num |-> nr, ran |-> nr]]
            /\ redo' = [l \in {0, 1} |-> "none"]
        BY <1>2, <3>4 DEF Execute
      <4>2. guest'[0].num = nr /\ guest'[0].ran = nr /\ redo'[0] = "none"
        BY <4>1
      <4>3. Settled'
        BY <4>2 DEF Settled
      <4>4. QED
        BY <3>1, <3>4, <4>3, Zenon DEF OnceGuest
    <3>5. CASE ~inj /\ ~(nr = "exec" /\ ret' = "ok")
      <4>1. /\ guest' = [guest EXCEPT ![level].ran = IF @ = "none" THEN nr ELSE "twice"]
            /\ redo' = redo
        BY <1>2, <3>5 DEF Execute
      <4>2. CASE level = 1
        <5>1. guest'[0] = guest[0]
          BY <1>b, <4>1, <4>2 DEF HistoryTypeOK
        <5>2. Settled'
          BY <1>d, <3>1, <4>1, <4>2, <5>1 DEF OnceGuest, Settled
        <5>3. QED
          BY <3>1, <3>5, <5>2 DEF OnceGuest
      <4>3. CASE level = 0
        <5>1. UnderWay /\ nr \in {guest[0].num, NoModSyscall}
          BY <1>d, <3>1, <3>5, <4>3 DEF OnceGuest
        <5>2. guest'[0].num = guest[0].num /\ guest'[0].ran = nr
          BY <1>b, <4>1, <4>3, <5>1 DEF HistoryTypeOK, UnderWay
        <5>3. Settled'
          BY <3>2, <4>1, <4>3, <5>1, <5>2 DEF Settled
        <5>4. QED
          BY <3>1, <3>5, <5>3 DEF OnceGuest
      <4>4. QED
        BY <1>e, <4>2, <4>3
    <3>6. QED
      BY <3>3, <3>4, <3>5
  <2>4. OnceAnchor'
    <3>1. SUFFICES ASSUME Running', pc' = "insEntry", origNum' # "none"
                   PROVE  redo'[0] = origNum'
      BY DEF OnceAnchor
    <3>2. /\ Running /\ at = "body" /\ pc = "insEntry" /\ origNum # "none" /\ origNum' = origNum
      BY <1>2, <3>1 DEF Execute, hvars, Running
    <3>3. nr \notin Table
      BY <1>a, <3>2 DEF PositionInv, Inside
    <3>4. redo[0] = origNum
      BY <1>d, <1>e, <3>2 DEF OnceAnchor, OnceRedo
    <3>5. redo' = redo
      BY <1>2, <3>3 DEF Execute, Table
    <3>6. QED
      BY <3>2, <3>4, <3>5
  <2>5. QED
    BY <2>1, <2>2, <2>3, <2>4 DEF OnceInv
<1>3. CASE SyscallEntry
  <2>1. CASE Augment
    <3>1. /\ Running /\ pc = "entry" /\ stopped
          /\ IF ready THEN at = "seccomp" ELSE at = "entry"
      BY <1>a, <1>3, AwaitedStop DEF SyscallEntry, Awaited, Inside
    <3>2. /\ nr' \in {nr, NoModSyscall} /\ pc' = "exit" /\ origNum' = "none"
          /\ stopped' = FALSE /\ UNCHANGED <<level, redo, guest, inj, outcome>>
      BY <2>1 DEF Augment, Resume, gvars
    <3>3. at \in {"entry", "seccomp"} /\ at' \in {"seccomp", "body"}
      BY <1>c, <2>1, <3>1, SuccModern DEF Augment, Resume
    <3>4. ~inj
      BY <1>d, <3>1 DEF OnceHandler
    <3>5. OnceHandler'
      BY <3>2, <3>4 DEF OnceHandler
    <3>6. OnceRedo'
      BY <1>d, <3>1, <3>2, <3>3 DEF OnceRedo
    <3>7. OnceGuest'
      BY <1>d, <1>e, <3>1, <3>2, <3>3, <3>4, Zenon DEF OnceGuest, UnderWay, Settled, Outside
    <3>8. OnceAnchor'
      BY <3>2 DEF OnceAnchor
    <3>9. QED
      BY <3>5, <3>6, <3>7, <3>8 DEF OnceInv
  <2>2. QED
    BY <1>3, <2>1, OnceReturn DEF SyscallEntry
<1>4. CASE SyscallExit
  <2>1. Running /\ pc = "exit" /\ at = "exit"
    BY <1>a, <1>4, AwaitedStop DEF SyscallExit, Awaited, Inside
  <2>2. CASE Return("failed")
    BY <2>2, OnceReturn
  <2>3. CASE ~Return("failed")
    <3>1. /\ pc' \in {"entry", "insEntry"} /\ Resume("none")
          /\ UNCHANGED <<level, redo, guest, inj, outcome, nr, origNum>>
      BY <1>4, <2>3, Zenon DEF SyscallExit, gvars
    <3>2. at' = "signals" /\ stopped' = FALSE
      BY <1>c, <2>1, <3>1, SuccModern DEF Resume
    <3>3. ~inj /\ origNum = "none"
      BY <1>d, <2>1 DEF OnceHandler
    <3>4. OnceHandler' /\ OnceRedo' /\ OnceAnchor'
      BY <3>1, <3>2, <3>3 DEF OnceHandler, OnceRedo, OnceAnchor
    <3>5. OnceGuest'
      BY <1>d, <2>1, <3>1, <3>2, <3>3, Zenon DEF OnceGuest, Settled, InKernel
    <3>6. QED
      BY <3>4, <3>5 DEF OnceInv
  <2>4. QED
    BY <2>2, <2>3
<1>5. CASE InsertEntry
  <2>1. /\ Running /\ pc = "insEntry" /\ stopped
        /\ IF ready THEN at = "seccomp" ELSE at = "entry"
    BY <1>a, <1>5, AwaitedStop DEF InsertEntry, Unblock, Awaited, Inside
  <2>2. /\ origNum' = IF origNum = "none" THEN nr ELSE origNum
        /\ inj' = TRUE /\ pc' = "insExit" /\ Resume("none")
        /\ UNCHANGED <<level, redo, guest, outcome, ready>>
    BY <1>5 DEF InsertEntry, Unblock, gvars
  <2>3. at \in {"entry", "seccomp"} /\ at' \in {"seccomp", "body"} /\ stopped' = FALSE
    BY <1>c, <2>1, <2>2, SuccModern DEF Resume
  <2>4. ~inj /\ redo[level] = "none"
    BY <1>d, <2>1, <2>3 DEF OnceHandler, OnceRedo
  <2>5. OnceHandler'
    BY <1>d, <2>1, <2>2, <2>3 DEF OnceHandler
  <2>6. OnceRedo'
    BY <2>2, <2>3, <2>4 DEF OnceRedo
  <2>7. OnceGuest'
    <3>1. CASE level = 1
      <4>1. Settled
        BY <1>d, <2>1, <3>1 DEF OnceGuest
      <4>2. Settled'
        BY <2>2, <4>1 DEF Settled
      <4>3. QED
        <5>1. level' = 1 /\ level' # 0
          BY <2>2, <3>1
        <5>2. QED
          BY <4>2, <5>1, Zenon DEF OnceGuest
    <3>2. CASE level = 0
      <4>1. UnderWay /\ nr = guest[0].num
        BY <1>d, <2>1, <2>3, <2>4, <3>2 DEF OnceGuest
      <4>2. origNum \in {"none", nr}
        BY <1>d, <2>1, <2>3, <2>4, <3>2 DEF OnceAnchor
      <4>3. origNum' = guest'[0].num
        BY <2>2, <4>1, <4>2
      <4>4. UnderWay'
        BY <2>2, <4>1 DEF UnderWay
      <4>5. QED
        <5>1. at' \notin Outside /\ inj' /\ level' = 0
          BY <2>2, <2>3, <3>2 DEF Outside
        <5>2. QED
          BY <4>3, <4>4, <5>1 DEF OnceGuest
    <3>3. QED
      BY <1>e, <3>1, <3>2
  <2>8. OnceAnchor'
    BY <2>2 DEF OnceAnchor
  <2>9. QED
    BY <2>5, <2>6, <2>7, <2>8 DEF OnceInv
<1>6. CASE InsertExit
  <2>1. Running /\ pc = "insExit" /\ at = "exit" /\ inj
    BY <1>a, <1>d, <1>6, AwaitedStop DEF InsertExit, Awaited, Inside, OnceHandler
  <2>2. CASE Rewind
    <3>1. /\ inj' = FALSE /\ redo' = [redo EXCEPT ![level] = origNum]
          /\ pc' \in {"entry", "insEntry"} /\ Resume("none")
          /\ UNCHANGED <<level, guest, outcome, ready, origNum>>
      BY <2>2 DEF Rewind, Unblock, RewoundNum, gvars
    <3>2. at' = "signals" /\ stopped' = FALSE
      BY <1>c, <2>1, <3>1, SuccModern DEF Resume
    <3>3. OnceHandler'
      BY <1>d, <2>1, <3>1, <3>2 DEF OnceHandler
    <3>4. OnceRedo'
      BY <3>2 DEF OnceRedo
    <3>5. redo'[level] = origNum
      BY <1>e, <3>1
    <3>6. OnceGuest'
      <4>1. CASE level = 1
        <5>1. redo'[0] = redo[0]
          BY <1>e, <3>1, <4>1
        <5>2. QED
          BY <1>d, <2>1, <3>1, <3>2, <4>1, <5>1, Zenon DEF OnceGuest, Settled
      <4>2. CASE level = 0
        <5>1. UnderWay /\ origNum = guest[0].num
          BY <1>d, <2>1, <4>2 DEF OnceGuest, InKernel
        <5>2. Settled'
          BY <3>1, <3>5, <4>2, <5>1 DEF Settled, UnderWay
        <5>3. QED
          BY <3>1, <3>2, <5>2 DEF OnceGuest
      <4>3. QED
        BY <1>e, <4>1, <4>2
    <3>7. OnceAnchor'
      BY <1>e, <3>1, <3>5 DEF OnceAnchor
    <3>8. QED
      BY <3>3, <3>4, <3>6, <3>7 DEF OnceInv
  <2>3. QED
    BY <1>6, <2>2, OnceReturn DEF InsertExit
<1>7. CASE ForkChild
  <2>1. OnceHandler'
    BY <1>d, <1>f, <1>7 DEF ForkChild, OnceHandler, Inserted
  <2>2. OnceRedo'
    BY <1>d, <1>7 DEF ForkChild, OnceRedo, Running
  <2>3. OnceGuest'
    <3>1. /\ Running /\ at = "event" /\ nr = "fork" /\ at' = "signals"
          /\ UNCHANGED <<redo, guest, level, inj>>
      BY <1>7 DEF ForkChild
    <3>2. ~inj
      BY <1>f, <3>1 DEF Inserted
    <3>3. Settled
      BY <1>d, <3>1, <3>2 DEF OnceGuest
    <3>4. Settled'
      BY <3>1, <3>3 DEF Settled
    <3>5. QED
      BY <3>1, <3>2, <3>4 DEF OnceGuest
  <2>4. OnceAnchor'
    BY <1>d, <1>7 DEF ForkChild, OnceAnchor, Running
  <2>5. QED
    BY <2>1, <2>2, <2>3, <2>4 DEF OnceInv
<1>8. CASE QuietAction
  BY <1>a, <1>c, <1>8, QuietMoves, QuietOnce, OnceReturn
<1>9. CASE ExtraRound
  BY <1>c, <1>9, NoExtraRound DEF ExtraRound
<1>10. CASE ExitEvent \/ Crashed
  BY <1>10, OnceReturn DEF ExitEvent, Crashed
<1>11. CASE UNCHANGED vars
  <2>1. CASE Running
    <3>1. Quiet /\ Moved
      BY <1>11 DEF vars, kvars, gvars, hvars, Quiet, Moved
    <3>2. QED
      BY <1>a, <2>1, <3>1, QuietOnce
  <2>2. CASE ~Running
    <3>1. ~Running'
      BY <1>11, <2>2 DEF vars, Running
    <3>2. QED
      BY <3>1 DEF OnceInv, OnceHandler, OnceRedo, OnceGuest, OnceAnchor
  <2>3. QED
    BY <2>1, <2>2
<1>12. QED
  BY <1>1, <1>2, <1>3, <1>4, <1>5, <1>6, <1>7, <1>8, <1>9, <1>10, <1>11
     DEF Next, Kernel, Environment, Handler, SyscallLoop, Over, QuietAction

LEMMA OnceInvariance == (Supported /\ Arch = "aarch64") => (Spec => []OnceInv)
<1> SUFFICES ASSUME Supported, Arch = "aarch64" PROVE Spec => []OnceInv
  OBVIOUS
<1>1. Init => OnceInv
  <2> SUFFICES ASSUME Init PROVE OnceInv
    OBVIOUS
  <2>1. redo[0] = "none" /\ guest[0].num = "none"
    BY DEF Init, NoCall
  <2>2. OnceHandler /\ OnceRedo /\ OnceAnchor
    BY DEF Init, OnceHandler, OnceRedo, OnceAnchor
  <2>3. OnceGuest
    BY <2>1 DEF Init, OnceGuest, Settled
  <2>4. QED
    BY <2>2, <2>3 DEF OnceInv
<1>2. IInv /\ TypeInv' /\ OnceInv /\ [Next]_vars => OnceInv'
  BY OnceStep
<1>3. QED
  BY <1>1, <1>2, TypeInvariance, SyncInvariance, PTL DEF Spec

\* On aarch64, kernels since 4.8 and with a tracer that attaches, every call of
\* the guest's program runs exactly once and under its own number (or is skipped
\* by its augment): no insertion of mmap, prctl and seccomp swallows or doubles
\* it, whatever signal handlers, forks and execs come between.
\* (_insert_syscall_during_init, do_skip_syscall)
THEOREM GuestCallsRunOnce == (Supported /\ Arch = "aarch64") => (Spec => []GuestCallRunsOnce)
<1>1. OnceInv => GuestCallRunsOnce
  BY Zenon DEF OnceInv, OnceGuest, Settled, Outside, GuestCallRunsOnce, RunsOnce
<1>2. QED
  BY <1>1, OnceInvariance, PTL

=============================================================================
