------------------------------- MODULE Family -------------------------------
(***************************************************************************)
(* A root process, the children it forks and the threads that trace them,  *)
(* without --fix-attach (LocalPtraceClient): only the thread that attached *)
(* to a process may trace it, so the thread of the root hands every child  *)
(* over to a thread of its own.  It lets the child go with a SIGSTOP and   *)
(* the new thread attaches to the stopped child.  The root must not learn  *)
(* of that stop, so its wait4 is augmented (aug_waitpid.rs) and the thread *)
(* of the child swallows the SIGSTOP of its own attach.                    *)
(*                                                                         *)
(* The kernel is external: SIGSTOP, SIGCONT and SIGKILL, group stops, the  *)
(* stops a tracer sees and those the real parent sees.  What a tracee does *)
(* between two such events is the subject of SyscallLoop.                  *)
(***************************************************************************)
EXTENDS Naturals

CONSTANTS
    Kids,       \* the processes the root may fork
    FailFast,   \* --fail-fast
    MaxSends    \* bound: signals sent to the children

ASSUME FamilyAssumption ==
    "none" \notin Kids /\ FailFast \in BOOLEAN /\ MaxSends \in Nat

VARIABLES
    main,      \* actual_main: "joining" the thread of the root, or "exited"
    root,      \* the root and its thread: see Places
    child,     \* the child being handed over
    options,   \* the options of the wait4 in progress
    got,       \* what the kernel answered to it
    seen,      \* what the root saw of its last wait4, until its next step
    killed,    \* fail_fast has sent the root a SIGKILL
    ignore,    \* ignore_sigstops of the root's handler
    kid,       \* each child: see KidStates
    tracer,    \* who traces it: "none", the "root" thread, its "own" thread
    thread,    \* its thread: "none", "attach", "options", "loop" or "over"
    pending,   \* a SIGSTOP waits for delivery
    dequeued,  \* the SIGSTOP taken last is not cancelled by a SIGCONT
    stopped,   \* a group stop is in effect
    code,      \* the group stop has not been reported to the real parent
    \* history, read by properties only
    asked,     \* the guest has sent it a SIGSTOP
    continued, \* the guest has sent it a SIGCONT before its thread had it
    sends

kvars == <<kid, tracer, thread, pending, dequeued, stopped, code>>
rvars == <<root, child, options, got, seen, ignore>>
vars == <<main, rvars, killed, kvars, asked, continued, sends>>

\* "user": in its code; "fork": stopped at the fork event while its thread waits
\* for the child; "detach": the child has stopped; "wait4": in the kernel;
\* "answer": stopped at the exit of wait4; "over": its thread has ended.
Places == {"user", "fork", "detach", "wait4", "answer", "over"}

\* "falling": resumed with a SIGSTOP to act on; "halted": in a group stop, not
\* traced; "trapGroup", "trapSignal": in a group stop or a signal-delivery-stop
\* its tracer sees; "trapExit": at PTRACE_EVENT_EXIT.
KidStates == {"unborn", "newborn", "falling", "halted", "trapGroup", "trapSignal",
              "user", "trapExit", "zombie", "reaped"}
Alive == KidStates \ {"unborn", "zombie", "reaped"}

NoAnswer == [kid |-> "none", status |-> "none"]
Interrupted == [kid |-> "none", status |-> "EINTR"]
Nothing == [kid |-> "none", status |-> "0"]
Answers == [kid : Kids, status : {"stopped", "exited"}]
             \cup {NoAnswer, Interrupted, Nothing}

TypeOK ==
    /\ main \in {"joining", "exited"} /\ root \in Places
    /\ child \in Kids \cup {"none"}
    /\ options \subseteq {"WNOHANG", "WUNTRACED"}
    /\ got \in Answers /\ seen \in Answers
    /\ killed \in BOOLEAN /\ ignore \subseteq Kids
    /\ kid \in [Kids -> KidStates]
    /\ tracer \in [Kids -> {"none", "root", "own"}]
    /\ thread \in [Kids -> {"none", "attach", "options", "loop", "over"}]
    /\ pending \in [Kids -> BOOLEAN] /\ dequeued \in [Kids -> BOOLEAN]
    /\ stopped \in [Kids -> BOOLEAN] /\ code \in [Kids -> BOOLEAN]
    /\ asked \in [Kids -> BOOLEAN] /\ continued \in [Kids -> BOOLEAN]
    /\ sends \in 0..MaxSends

Init ==
    /\ main = "joining" /\ root = "user" /\ child = "none"
    /\ options = {} /\ got = NoAnswer /\ seen = NoAnswer
    /\ killed = FALSE /\ ignore = {}
    /\ kid = [k \in Kids |-> "unborn"] /\ tracer = [k \in Kids |-> "none"]
    /\ thread = [k \in Kids |-> "none"]
    /\ pending = [k \in Kids |-> FALSE] /\ dequeued = [k \in Kids |-> FALSE]
    /\ stopped = [k \in Kids |-> FALSE] /\ code = [k \in Kids |-> FALSE]
    /\ asked = [k \in Kids |-> FALSE] /\ continued = [k \in Kids |-> FALSE]
    /\ sends = 0

Joining == main = "joining"

-----------------------------------------------------------------------------
(* The root forks. *)

\* augment_sys_clone; as a slip, CLONE_UNTRACED stays.
AugmentSysCloneKeeps(flags) == flags \cup {"CLONE_PTRACE"}
AugmentSysClone(flags) == (flags \cup {"CLONE_PTRACE"}) \ {"CLONE_UNTRACED"}

\* Without CLONE_UNTRACED the child starts traced by its parent's tracer, with a
\* SIGSTOP to take, and the parent stops at a fork event; with CLONE_PTRACE
\* alone there is no event.
Fork(k) ==
    /\ Joining /\ root = "user" /\ ~killed /\ kid[k] = "unborn"
    /\ \E flags \in SUBSET {"CLONE_UNTRACED"} :
         LET event == "CLONE_UNTRACED" \notin AugmentSysClone(flags)
             traced == event \/ "CLONE_PTRACE" \in AugmentSysClone(flags)
         IN /\ kid' = [kid EXCEPT ![k] = IF traced THEN "newborn" ELSE "user"]
            /\ tracer' = [tracer EXCEPT ![k] = IF traced THEN "root" ELSE "none"]
            /\ root' = IF event THEN "fork" ELSE "user"
            /\ child' = IF event THEN k ELSE child
    /\ seen' = NoAnswer
    /\ UNCHANGED <<main, options, got, killed, ignore, thread, pending,
                   dequeued, stopped, code, asked, continued, sends>>

\* The kernel: the first stop of the child.
FirstStop(k) ==
    /\ Joining /\ kid[k] = "newborn"
    /\ kid' = [kid EXCEPT ![k] = "trapSignal"]
    /\ dequeued' = [dequeued EXCEPT ![k] = TRUE]
    /\ UNCHANGED <<main, rvars, killed, tracer, thread, pending, stopped, code,
                   asked, continued, sends>>

\* prep_attach_to: waitpid_hang returns.  Also when a signal has killed the
\* child: is_still_alive is false only for an exit.
PrepWaited ==
    /\ Joining /\ root = "fork" /\ kid[child] \in {"trapSignal", "zombie"}
    /\ root' = "detach"
    /\ UNCHANGED <<main, child, options, got, seen, killed, ignore, kvars, asked,
                   continued, sends>>

\* As a slip: the child is detached without a signal.
DetachedRunning == "user"

\* PTRACE_DETACH with SIGSTOP.
Detached == "falling"

\* prep_attach_to from the lock on, the fork of the handler, and the start of its
\* thread.  PTRACE_DETACH of a dead child fails, and with it the root's loop.
PrepAttachTo ==
    /\ Joining /\ root = "detach"
    /\ ignore' = ignore \cup {child}
    /\ \/ /\ kid[child] = "trapSignal"
          /\ kid' = [kid EXCEPT ![child] = Detached]
          /\ thread' = [thread EXCEPT ![child] = "attach"]
          /\ root' = "user"
       \/ /\ kid[child] = "zombie"
          /\ root' = "over"
          /\ UNCHANGED <<kid, thread>>
    /\ tracer' = [tracer EXCEPT ![child] = "none"]
    /\ child' = "none"
    /\ UNCHANGED <<main, options, got, seen, killed, pending, dequeued, stopped,
                   code, asked, continued, sends>>

-----------------------------------------------------------------------------
(* A child and its thread. *)

\* The kernel: the child acts on the SIGSTOP, unless a SIGCONT has come in
\* between.  A group stop while another is in effect is not reported again.
Fall(k) ==
    /\ Joining /\ kid[k] = "falling"
    /\ IF dequeued[k]
       THEN /\ kid' = [kid EXCEPT ![k] = IF tracer[k] = "own" THEN "trapGroup"
                                         ELSE "halted"]
            /\ stopped' = [stopped EXCEPT ![k] = TRUE]
            /\ code' = [code EXCEPT ![k] = @ \/ ~stopped[k]]
       ELSE kid' = [kid EXCEPT ![k] = "user"] /\ UNCHANGED <<stopped, code>>
    /\ UNCHANGED <<main, rvars, killed, tracer, thread, pending, dequeued, asked,
                   continued, sends>>

\* The kernel: a running child takes the pending SIGSTOP.
TakeSignal(k) ==
    /\ Joining /\ kid[k] = "user" /\ pending[k]
    /\ pending' = [pending EXCEPT ![k] = FALSE]
    /\ dequeued' = [dequeued EXCEPT ![k] = TRUE]
    /\ kid' = [kid EXCEPT ![k] = IF tracer[k] = "own" THEN "trapSignal"
                                 ELSE "falling"]
    /\ UNCHANGED <<main, rvars, killed, tracer, thread, stopped, code, asked,
                   continued, sends>>

\* The thread of k ends with an error: the process is killed (it is dead
\* already) and with --fail-fast so is the root.
Fail(k) ==
    /\ thread' = [thread EXCEPT ![k] = "over"]
    /\ tracer' = [tracer EXCEPT ![k] = "none"]
    /\ killed' = (killed \/ FailFast)
    /\ UNCHANGED <<main, rvars, kid, pending, dequeued, stopped, code, asked,
                   continued, sends>>

\* attach_to: PTRACE_ATTACH sends a SIGSTOP and traps a child that is halted.
AttachTo(k) ==
    /\ Joining /\ thread[k] = "attach"
    /\ \/ /\ kid[k] \in Alive
          /\ tracer' = [tracer EXCEPT ![k] = "own"]
          /\ pending' = [pending EXCEPT ![k] = TRUE]
          /\ kid' = [kid EXCEPT ![k] = IF @ = "halted" THEN "trapGroup" ELSE @]
          /\ thread' = [thread EXCEPT ![k] = "options"]
          /\ UNCHANGED <<main, rvars, killed, dequeued, stopped, code, asked,
                         continued, sends>>
       \/ kid[k] \in {"zombie", "reaped"} /\ Fail(k)

\* set_ptrace_options and the first round of event_loop, up to the first resume,
\* which injects no signal.
SetPtraceOptions(k) ==
    /\ Joining /\ thread[k] = "options"
    /\ \/ /\ kid[k] \in {"trapGroup", "trapSignal"}
          /\ kid' = [kid EXCEPT ![k] = "user"]
          /\ thread' = [thread EXCEPT ![k] = "loop"]
          /\ UNCHANGED <<main, rvars, killed, tracer, pending, dequeued, stopped,
                         code, asked, continued, sends>>
       \/ kid[k] = "zombie" /\ Fail(k)

\* As a slip: the thread of the child takes the SIGSTOP off the list.
HandleStopConsumes(k) ==
    /\ Joining /\ thread[k] = "loop"
    /\ \/ kid[k] = "trapGroup" /\ UNCHANGED ignore
       \/ kid[k] = "trapSignal" /\ k \in ignore /\ ignore' = ignore \ {k}
    /\ kid' = [kid EXCEPT ![k] = "user"]
    /\ UNCHANGED <<main, root, child, options, got, seen, killed, tracer, thread,
                   pending, dequeued, stopped, code, asked, continued, sends>>

\* event_loop and loop_handle_tracee_signals on a SIGSTOP: a group stop is an
\* unknown event; the signal is swallowed while the root's handler ignores it
\* and injected otherwise.
HandleStop(k) ==
    /\ Joining /\ thread[k] = "loop"
    /\ \/ kid[k] = "trapGroup" /\ kid' = [kid EXCEPT ![k] = "user"]
       \/ /\ kid[k] = "trapSignal"
          /\ kid' = [kid EXCEPT ![k] = IF k \in ignore THEN "user" ELSE "falling"]
    /\ UNCHANGED <<main, rvars, killed, tracer, thread, pending, dequeued, stopped,
                   code, asked, continued, sends>>

\* The child exits; its tracer, if it has one with options, stops it on the way.
ExitKid(k) ==
    /\ Joining /\ kid[k] = "user"
    /\ kid' = [kid EXCEPT ![k] = IF thread[k] = "loop" THEN "trapExit" ELSE "zombie"]
    /\ UNCHANGED <<main, rvars, killed, tracer, thread, pending, dequeued, stopped,
                   code, asked, continued, sends>>

\* loop_handle_tracee_other_events on PTRACE_EVENT_EXIT: detach and end.
ExitEvent(k) ==
    /\ Joining /\ thread[k] = "loop" /\ kid[k] = "trapExit"
    /\ kid' = [kid EXCEPT ![k] = "zombie"]
    /\ tracer' = [tracer EXCEPT ![k] = "none"]
    /\ thread' = [thread EXCEPT ![k] = "over"]
    /\ UNCHANGED <<main, rvars, killed, pending, dequeued, stopped, code, asked,
                   continued, sends>>

\* waitpid reports the death, the next request fails.
Crashed(k) == Joining /\ thread[k] = "loop" /\ kid[k] = "zombie" /\ Fail(k)

-----------------------------------------------------------------------------
(* The root waits for its children. *)

\* The root calls wait4.  The augment reads the status word first: without one
\* (a null pointer) PTRACE_PEEKDATA fails and ends the root's loop.
Wait4 ==
    /\ Joining /\ root = "user" /\ ~killed
    /\ \/ \E o \in SUBSET {"WNOHANG", "WUNTRACED"} : options' = o /\ root' = "wait4"
       \/ root' = "over" /\ UNCHANGED options
    /\ seen' = NoAnswer
    /\ UNCHANGED <<main, child, got, killed, ignore, kvars, asked, continued,
                   sends>>

\* A traced zombie is its tracer's; a group stop is reported once.
Waitable(k) ==
    \/ kid[k] = "zombie" /\ tracer[k] = "none"
    \/ "WUNTRACED" \in options /\ code[k] /\ kid[k] \in Alive

\* The kernel answers.
Wait4Returns ==
    /\ Joining /\ root = "wait4" /\ ~killed
    /\ \/ \E k \in Kids :
            /\ Waitable(k)
            /\ got' = [kid |-> k,
                       status |-> IF kid[k] = "zombie" THEN "exited" ELSE "stopped"]
            /\ kid' = [kid EXCEPT ![k] = IF @ = "zombie" THEN "reaped" ELSE @]
            /\ code' = [code EXCEPT ![k] = FALSE]
       \/ /\ \A k \in Kids : ~Waitable(k)
          /\ "WNOHANG" \in options \/ \A k \in Kids : kid[k] \in {"unborn", "reaped"}
          /\ got' = Nothing /\ UNCHANGED <<kid, code>>
    /\ root' = "answer"
    /\ UNCHANGED <<main, child, options, seen, killed, ignore, tracer, thread,
                   pending, dequeued, stopped, asked, continued, sends>>

\* Is the answer the stop of a hand-over?
Hidden == got.status = "stopped" /\ got.kid \in ignore

\* augment_sys_waitpid after the call, under the write lock of ignore_sigstops.
AugmentSysWaitpid ==
    /\ Joining /\ root = "answer"
    /\ IF Hidden
       THEN /\ seen' = IF "WNOHANG" \in options THEN Nothing ELSE Interrupted
            /\ ignore' = ignore \ {got.kid}
       ELSE seen' = got /\ UNCHANGED ignore
    /\ got' = NoAnswer /\ options' = {} /\ root' = "user"
    /\ UNCHANGED <<main, child, killed, kvars, asked, continued, sends>>

-----------------------------------------------------------------------------
(* The guest sends signals, the root ends, and so does the tracer. *)

\* A process that knows the child's number: its fork has returned.
Known(k) == kid[k] \in Alive /\ thread[k] # "none"

SendStop(k) ==
    /\ Joining /\ Known(k) /\ sends < MaxSends
    /\ pending' = [pending EXCEPT ![k] = TRUE]
    /\ asked' = [asked EXCEPT ![k] = TRUE]
    /\ sends' = sends + 1
    /\ UNCHANGED <<main, rvars, killed, kid, tracer, thread, dequeued, stopped,
                   code, continued>>

\* SIGCONT ends a group stop and cancels the stops under way.
SendCont(k) ==
    /\ Joining /\ Known(k) /\ sends < MaxSends
    /\ kid' = [kid EXCEPT ![k] = IF @ = "halted" THEN "user" ELSE @]
    /\ pending' = [pending EXCEPT ![k] = FALSE]
    /\ dequeued' = [dequeued EXCEPT ![k] = FALSE]
    /\ stopped' = [stopped EXCEPT ![k] = FALSE]
    /\ code' = [code EXCEPT ![k] = FALSE]
    /\ continued' = [continued EXCEPT ![k] = @ \/ thread[k] \in {"attach", "options"}]
    /\ sends' = sends + 1
    /\ UNCHANGED <<main, rvars, killed, tracer, thread, asked>>

\* A SIGKILL, which may or may not still show its tracer the exit event.
SendKill(k) ==
    /\ Joining /\ kid[k] \in Alive /\ sends < MaxSends
    /\ \E s \in {"zombie", "trapExit"} :
         /\ s = "trapExit" => thread[k] = "loop" /\ kid[k] # s
         /\ kid' = [kid EXCEPT ![k] = s]
    /\ sends' = sends + 1
    /\ UNCHANGED <<main, rvars, killed, tracer, thread, pending, dequeued, stopped,
                   code, asked, continued>>

\* The root exits or is killed.  A SIGKILL that comes while its thread is busy
\* with a child or an answer is found at the next resume.
RootEnds ==
    /\ Joining /\ root \in {"user", "wait4"}
    /\ root' = "over" /\ seen' = NoAnswer
    /\ UNCHANGED <<main, child, options, got, killed, ignore, kvars, asked,
                   continued, sends>>

\* actual_main: the join returns and exit ends every thread; the kernel detaches
\* what they trace.
Main ==
    /\ Joining /\ root = "over"
    /\ main' = "exited"
    /\ tracer' = [k \in Kids |-> "none"]
    /\ UNCHANGED <<rvars, killed, kid, thread, pending, dequeued, stopped, code,
                   asked, continued, sends>>

Exited == main = "exited" /\ UNCHANGED vars

Kernel(k) == FirstStop(k) \/ Fall(k) \/ TakeSignal(k)
Tracer(k) == \/ AttachTo(k) \/ SetPtraceOptions(k) \/ HandleStop(k) \/ ExitEvent(k)
             \/ Crashed(k)
RootThread == PrepWaited \/ PrepAttachTo \/ AugmentSysWaitpid

Next ==
    \/ \E k \in Kids : \/ Fork(k) \/ Kernel(k) \/ Tracer(k) \/ ExitKid(k)
                       \/ SendStop(k) \/ SendCont(k) \/ SendKill(k)
    \/ RootThread \/ Wait4 \/ Wait4Returns \/ RootEnds \/ Main \/ Exited

Spec == Init /\ [][Next]_vars

\* The kernel moves a process on and every thread of the tracer is scheduled; the
\* guest owes nothing.
Fairness ==
    /\ \A k \in Kids : WF_vars(Kernel(k)) /\ WF_vars(Tracer(k))
    /\ WF_vars(RootThread)

FairSpec == Spec /\ Fairness

-----------------------------------------------------------------------------
(* Properties. *)

\* No child runs a single instruction that nobody traces: from its fork on it is
\* traced or stopped, also while it changes tracers, for as long as pocker itself
\* waits for the root, unless the guest sends it a SIGCONT in between.  A child
\* that outlives the root loses its tracer.  (prep_attach_to, attach_to,
\* augment_sys_clone)
AlwaysTraced ==
    Joining => \A k \in Kids :
        kid[k] = "user" => tracer[k] = "own" \/ continued[k]

\* The root never learns of a stop that no process of the guest asked for: the
\* SIGSTOPs of the hand-over are hidden by augment_sys_waitpid and by
\* loop_handle_tracee_signals, in whichever order they read ignore_sigstops.
HandoverHidden == seen.status = "stopped" => asked[seen.kid]

\* A child that is born is handed over: its thread gets to its event loop, unless
\* the child is killed, is sent a SIGCONT meanwhile, or the root ends.
\* (prep_attach_to, event_loop)
HandoverEnds ==
    \A k \in Kids :
        kid[k] = "newborn" ~> \/ thread[k] \in {"loop", "over"} \/ continued[k]
                              \/ kid[k] \in {"zombie", "reaped"} \/ root = "over"
=============================================================================
