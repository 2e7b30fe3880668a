---------------------------- MODULE FamilyProofs ----------------------------
(* Proofs about Family: no child runs untraced and no hand-over is seen, for *)
(* any number of children and signals.                                       *)
EXTENDS Family, TLAPS

\* The root's thread holds a child that nobody else has seen, and an answer only
\* between the return of wait4 and the end of its augment.
RootInv ==
    /\ root \in {"fork", "detach"} => child \in Kids /\ thread[child] = "none"
    /\ root # "answer" => got = NoAnswer

\* Who traces k, by the progress of its thread; a child that is nobody's is
\* stopped, or on its way there with a SIGSTOP that only a SIGCONT cancels.
Handed(k) ==
    /\ thread[k] = "none" =>
          /\ kid[k] \in {"unborn", "newborn", "trapSignal", "zombie", "reaped"}
          /\ kid[k] = "trapSignal" => dequeued[k]
          /\ ~pending[k] /\ ~stopped[k] /\ ~code[k] /\ ~asked[k]
    /\ thread[k] = "attach" =>
          /\ tracer[k] = "none"
          /\ kid[k] \in {"falling", "halted", "user", "zombie", "reaped"}
          /\ kid[k] = "falling" => dequeued[k] \/ continued[k]
          /\ kid[k] = "user" => continued[k]
    /\ thread[k] \in {"options", "loop"} =>
          /\ tracer[k] = "own"
          /\ kid[k] \in {"falling", "trapGroup", "trapSignal", "user", "trapExit",
                         "zombie"}
    /\ thread[k] = "over" => kid[k] \in {"zombie", "reaped"}

\* The answer in hand is a stop of k.
Reported(k) == got.status = "stopped" /\ got.kid = k

\* A child that no process of the guest has stopped: its first group stop is the
\* only one the kernel reports, and until wait4 has shown it k is ignored.
Quiet(k) ==
    ~asked[k] =>
      /\ thread[k] = "attach" => ~pending[k] /\ (kid[k] = "halted" => stopped[k])
      /\ thread[k] = "options" =>
            /\ kid[k] = "trapGroup" /\ pending[k] => stopped[k]
            /\ kid[k] = "trapSignal" => ~pending[k]
      /\ thread[k] = "loop" =>
            \/ stopped[k]
            \/ ~pending[k] /\ (kid[k] \in {"trapSignal", "falling"} => ~dequeued[k])
      /\ thread[k] \in {"attach", "options"} /\ kid[k] = "falling" =>
            k \in ignore /\ ~Reported(k) /\ ~code[k]
      /\ code[k] => k \in ignore /\ ~Reported(k)
      /\ Reported(k) => k \in ignore

IInv ==
    /\ TypeOK
    /\ Joining => RootInv /\ \A k \in Kids : Handed(k) /\ Quiet(k)
    /\ HandoverHidden

-----------------------------------------------------------------------------

\* A fork, whose flags augment_sys_clone sets, keeps the invariant.
LEMMA ForkKeeps == ASSUME NEW k \in Kids, IInv, Fork(k) PROVE IInv'
<1> USE FamilyAssumption
<1>1. TypeOK'
  BY DEF IInv, TypeOK, Places, KidStates, Fork, RootInv
<1>2. RootInv'
  BY DEF IInv, TypeOK, RootInv, Fork, Handed
<1>3. \A j \in Kids : Handed(j)'
  BY DEF IInv, Handed, Fork, AugmentSysClone
<1>4. \A j \in Kids : Quiet(j)'
  BY DEF IInv, Quiet, Reported, Fork
<1>5. HandoverHidden'
  BY DEF HandoverHidden, Fork, NoAnswer
<1> QED  BY <1>1, <1>2, <1>3, <1>4, <1>5 DEF IInv

\* The first stop of a child keeps the invariant.
LEMMA FirstStopKeeps == ASSUME NEW k \in Kids, IInv, FirstStop(k) PROVE IInv'
<1> USE FamilyAssumption
<1>1. TypeOK'
  BY DEF IInv, TypeOK, KidStates, FirstStop, rvars
<1>2. RootInv'
  BY DEF IInv, RootInv, FirstStop, rvars
<1>3. \A j \in Kids : Handed(j)'
  BY DEF IInv, TypeOK, Handed, FirstStop
<1>4. \A j \in Kids : Quiet(j)'
  BY DEF IInv, Handed, Quiet, Reported, FirstStop, rvars
<1>5. HandoverHidden'
  BY DEF IInv, HandoverHidden, FirstStop, rvars
<1> QED  BY <1>1, <1>2, <1>3, <1>4, <1>5 DEF IInv

\* A group stop, of a child on its way from one tracer to the next too, keeps the invariant.
LEMMA FallKeeps == ASSUME NEW k \in Kids, IInv, Fall(k) PROVE IInv'
<1> USE FamilyAssumption
<1>0. (code[k] \/ ~stopped[k]) \in BOOLEAN
  BY DEF IInv
<1>1. TypeOK'
  BY <1>0, ZenonT(30) DEF IInv, TypeOK, KidStates, Fall, rvars
<1>2. RootInv'
  BY DEF IInv, RootInv, Fall, rvars
<1>3. \A j \in Kids : Handed(j)'
  BY DEF IInv, TypeOK, Handed, Fall
<1>4. \A j \in Kids : Quiet(j)'
  BY DEF IInv, TypeOK, Handed, Quiet, Reported, Fall, rvars
<1>5. HandoverHidden'
  BY DEF IInv, HandoverHidden, Fall, rvars
<1> QED  BY <1>1, <1>2, <1>3, <1>4, <1>5 DEF IInv

\* The delivery of a SIGSTOP keeps the invariant.
LEMMA TakeSignalKeeps == ASSUME NEW k \in Kids, IInv, TakeSignal(k) PROVE IInv'
<1> USE FamilyAssumption
<1>1. TypeOK'
  BY DEF IInv, TypeOK, KidStates, TakeSignal, rvars
<1>2. RootInv'
  BY DEF IInv, RootInv, TakeSignal, rvars
<1>3. \A j \in Kids : Handed(j)'
  BY DEF IInv, Handed, TakeSignal
<1>4. \A j \in Kids : Quiet(j)'
  BY DEF IInv, TypeOK, Handed, Quiet, Reported, TakeSignal, rvars
<1>5. HandoverHidden'
  BY DEF IInv, HandoverHidden, TakeSignal, rvars
<1> QED  BY <1>1, <1>2, <1>3, <1>4, <1>5 DEF IInv

\* The end of a thread keeps the types.
LEMMA FailTyped == ASSUME NEW k \in Kids, TypeOK, Fail(k) PROVE TypeOK'
<1>1. killed' \in BOOLEAN
  BY DEF Fail
<1> QED  BY <1>1 DEF TypeOK, Fail, rvars

\* attach_to, at whatever point the stop of the child has got to, keeps the invariant.
LEMMA AttachToKeeps == ASSUME NEW k \in Kids, IInv, AttachTo(k) PROVE IInv'
<1> USE FamilyAssumption
<1>1. TypeOK'
  <2>1. CASE Fail(k)
    BY <2>1, FailTyped DEF IInv
  <2>2. CASE ~Fail(k)
    <3>1. /\ tracer' = [tracer EXCEPT ![k] = "own"]
          /\ pending' = [pending EXCEPT ![k] = TRUE]
          /\ kid' = [kid EXCEPT ![k] = IF @ = "halted" THEN "trapGroup" ELSE @]
          /\ thread' = [thread EXCEPT ![k] = "options"]
      BY <2>2 DEF AttachTo
    <3>2. UNCHANGED <<main, rvars, killed, dequeued, stopped, code, asked,
                      continued, sends>>
      BY <2>2 DEF AttachTo
    <3>3. kid' \in [Kids -> KidStates]
      BY <3>1 DEF IInv, TypeOK, KidStates
    <3> QED  BY <3>1, <3>2, <3>3 DEF IInv, TypeOK, rvars
  <2> QED  BY <2>1, <2>2
<1>2. RootInv'
  BY DEF IInv, TypeOK, RootInv, AttachTo, Fail, rvars
<1>3. \A j \in Kids : Handed(j)'
  BY DEF IInv, TypeOK, Handed, AttachTo, Fail, Alive
<1>4. \A j \in Kids : Quiet(j)'
  BY DEF IInv, TypeOK, Handed, Quiet, Reported, AttachTo, Fail, rvars
<1>5. HandoverHidden'
  BY DEF IInv, HandoverHidden, AttachTo, Fail, rvars
<1> QED  BY <1>1, <1>2, <1>3, <1>4, <1>5 DEF IInv

\* set_ptrace_options and the first resume keeps the invariant.
LEMMA SetPtraceOptionsKeeps ==
    ASSUME NEW k \in Kids, IInv, SetPtraceOptions(k) PROVE IInv'
<1> USE FamilyAssumption
<1>1. TypeOK'
  <2>1. CASE Fail(k)
    BY <2>1, FailTyped DEF IInv
  <2>2. CASE ~Fail(k)
    <3>1. /\ kid' \in [Kids -> KidStates]
          /\ thread' \in [Kids -> {"none", "attach", "options", "loop", "over"}]
      BY <2>2 DEF IInv, TypeOK, KidStates, SetPtraceOptions
    <3> QED  BY <2>2, <3>1, Zenon DEF IInv, TypeOK, SetPtraceOptions, rvars
  <2> QED  BY <2>1, <2>2
<1>2. RootInv'
  BY DEF IInv, TypeOK, RootInv, SetPtraceOptions, Fail, rvars
<1>3. \A j \in Kids : Handed(j)'
  BY DEF IInv, TypeOK, Handed, SetPtraceOptions, Fail
<1>4. \A j \in Kids : Quiet(j)'
  BY DEF IInv, TypeOK, Quiet, Reported, SetPtraceOptions, Fail, rvars
<1>5. HandoverHidden'
  BY DEF IInv, HandoverHidden, SetPtraceOptions, Fail, rvars
<1> QED  BY <1>1, <1>2, <1>3, <1>4, <1>5 DEF IInv

\* loop_handle_tracee_signals on a SIGSTOP, swallowed or injected, keeps the invariant.
LEMMA HandleStopKeeps == ASSUME NEW k \in Kids, IInv, HandleStop(k) PROVE IInv'
<1> USE FamilyAssumption
<1>1. TypeOK'
  BY DEF IInv, TypeOK, KidStates, HandleStop, rvars
<1>2. RootInv'
  BY DEF IInv, RootInv, HandleStop, rvars
<1>3. \A j \in Kids : Handed(j)'
  BY DEF IInv, TypeOK, Handed, HandleStop
<1>4. \A j \in Kids : Quiet(j)'
  BY DEF IInv, TypeOK, Quiet, Reported, HandleStop, rvars
<1>5. HandoverHidden'
  BY DEF IInv, HandoverHidden, HandleStop, rvars
<1> QED  BY <1>1, <1>2, <1>3, <1>4, <1>5 DEF IInv

\* The exit event keeps the invariant.
LEMMA ExitEventKeeps == ASSUME NEW k \in Kids, IInv, ExitEvent(k) PROVE IInv'
<1> USE FamilyAssumption
<1>1. TypeOK'
  BY DEF IInv, TypeOK, KidStates, ExitEvent, rvars
<1>2. RootInv'
  BY DEF IInv, RootInv, ExitEvent, rvars
<1>3. \A j \in Kids : Handed(j)'
  BY DEF IInv, TypeOK, Handed, ExitEvent
<1>4. \A j \in Kids : Quiet(j)'
  BY DEF IInv, Quiet, Reported, ExitEvent, rvars
<1>5. HandoverHidden'
  BY DEF IInv, HandoverHidden, ExitEvent, rvars
<1> QED  BY <1>1, <1>2, <1>3, <1>4, <1>5 DEF IInv

\* The end of a thread whose tracee is dead keeps the invariant.
LEMMA CrashedKeeps == ASSUME NEW k \in Kids, IInv, Crashed(k) PROVE IInv'
<1> USE FamilyAssumption
<1>1. TypeOK'
  BY FailTyped DEF IInv, Crashed
<1>2. RootInv'
  BY DEF IInv, RootInv, Crashed, Fail, rvars
<1>3. \A j \in Kids : Handed(j)'
  BY DEF IInv, TypeOK, Handed, Crashed, Fail
<1>4. \A j \in Kids : Quiet(j)'
  BY DEF IInv, Quiet, Reported, Crashed, Fail, rvars
<1>5. HandoverHidden'
  BY DEF IInv, HandoverHidden, Crashed, Fail, rvars
<1> QED  BY <1>1, <1>2, <1>3, <1>4, <1>5 DEF IInv

\* The exit of a child keeps the invariant.
LEMMA ExitKidKeeps == ASSUME NEW k \in Kids, IInv, ExitKid(k) PROVE IInv'
<1> USE FamilyAssumption
<1>1. TypeOK'
  BY DEF IInv, TypeOK, KidStates, ExitKid, rvars
<1>2. RootInv'
  BY DEF IInv, RootInv, ExitKid, rvars
<1>3. \A j \in Kids : Handed(j)'
  BY DEF IInv, Handed, ExitKid
<1>4. \A j \in Kids : Quiet(j)'
  BY DEF IInv, Quiet, Reported, ExitKid, rvars
<1>5. HandoverHidden'
  BY DEF IInv, HandoverHidden, ExitKid, rvars
<1> QED  BY <1>1, <1>2, <1>3, <1>4, <1>5 DEF IInv

\* A SIGSTOP of the guest keeps the invariant.
LEMMA SendStopKeeps == ASSUME NEW k \in Kids, IInv, SendStop(k) PROVE IInv'
<1> USE FamilyAssumption
<1>1. TypeOK'
  BY DEF IInv, TypeOK, SendStop, rvars
<1>2. RootInv'
  BY DEF IInv, RootInv, SendStop, rvars
<1>3. \A j \in Kids : Handed(j)'
  BY DEF IInv, Handed, SendStop, Known
<1>4. \A j \in Kids : Quiet(j)'
  BY DEF IInv, TypeOK, Quiet, Reported, SendStop, rvars
<1>5. HandoverHidden'
  BY DEF IInv, HandoverHidden, SendStop, rvars
<1> QED  BY <1>1, <1>2, <1>3, <1>4, <1>5 DEF IInv

\* A SIGCONT of the guest, in the middle of a hand-over too, keeps the invariant.
LEMMA SendContKeeps == ASSUME NEW k \in Kids, IInv, SendCont(k) PROVE IInv'
<1> USE FamilyAssumption
<1>1. TypeOK'
  BY DEF IInv, TypeOK, KidStates, SendCont, rvars
<1>2. RootInv'
  BY DEF IInv, RootInv, SendCont, rvars
<1>3. \A j \in Kids : Handed(j)'
  BY ZenonT(30) DEF IInv, TypeOK, Handed, SendCont, Known
<1>4. \A j \in Kids : Quiet(j)'
  BY DEF IInv, TypeOK, Quiet, Reported, SendCont, rvars
<1>5. HandoverHidden'
  BY DEF IInv, HandoverHidden, SendCont, rvars
<1> QED  BY <1>1, <1>2, <1>3, <1>4, <1>5 DEF IInv

\* A SIGKILL keeps the invariant.
LEMMA SendKillKeeps == ASSUME NEW k \in Kids, IInv, SendKill(k) PROVE IInv'
<1> USE FamilyAssumption
<1>1. TypeOK'
  BY DEF IInv, TypeOK, KidStates, SendKill, rvars
<1>2. RootInv'
  BY DEF IInv, RootInv, SendKill, rvars
<1>3. \A j \in Kids : Handed(j)'
  BY DEF IInv, Handed, SendKill
<1>4. \A j \in Kids : Quiet(j)'
  BY DEF IInv, Quiet, Reported, SendKill, rvars
<1>5. HandoverHidden'
  BY DEF IInv, HandoverHidden, SendKill, rvars
<1> QED  BY <1>1, <1>2, <1>3, <1>4, <1>5 DEF IInv

\* The wait of prep_attach_to keeps the invariant.
LEMMA PrepWaitedKeeps == ASSUME IInv, PrepWaited PROVE IInv'
<1> USE FamilyAssumption
<1>1. TypeOK'
  BY DEF IInv, TypeOK, Places, PrepWaited, kvars
<1>2. RootInv'
  BY DEF IInv, RootInv, PrepWaited, kvars
<1>3. \A j \in Kids : Handed(j)'
  BY DEF IInv, Handed, PrepWaited, kvars
<1>4. \A j \in Kids : Quiet(j)'
  BY DEF IInv, Quiet, Reported, PrepWaited, kvars
<1>5. HandoverHidden'
  BY DEF IInv, HandoverHidden, PrepWaited
<1> QED  BY <1>1, <1>2, <1>3, <1>4, <1>5 DEF IInv

\* The rest of prep_attach_to and the start of the new thread keeps the invariant.
LEMMA PrepAttachToKeeps == ASSUME IInv, PrepAttachTo PROVE IInv'
<1> USE FamilyAssumption
<1>1. TypeOK'
  BY DEF IInv, TypeOK, Places, KidStates, PrepAttachTo, Detached, RootInv
<1>2. RootInv'
  BY DEF IInv, RootInv, PrepAttachTo
<1>3. \A j \in Kids : Handed(j)'
  BY DEF IInv, TypeOK, RootInv, Handed, PrepAttachTo, Detached
<1>4. \A j \in Kids : Quiet(j)'
  BY DEF IInv, TypeOK, RootInv, Handed, Quiet, Reported, PrepAttachTo,
         Detached, NoAnswer
<1>5. HandoverHidden'
  BY DEF IInv, HandoverHidden, PrepAttachTo
<1> QED  BY <1>1, <1>2, <1>3, <1>4, <1>5 DEF IInv

\* augment_sys_waitpid, which takes the child off the list, keeps the invariant.
LEMMA AugmentSysWaitpidKeeps == ASSUME IInv, AugmentSysWaitpid PROVE IInv'
<1> USE FamilyAssumption
<1>1. TypeOK'
  BY DEF IInv, TypeOK, Places, Answers, AugmentSysWaitpid, kvars
<1>2. RootInv'
  BY DEF RootInv, AugmentSysWaitpid
<1>3. \A j \in Kids : Handed(j)'
  BY DEF IInv, Handed, AugmentSysWaitpid, kvars
<1>4. \A j \in Kids : Quiet(j)'
  BY DEF IInv, Quiet, Reported, AugmentSysWaitpid, Hidden, kvars, NoAnswer
<1>5. HandoverHidden'
  BY DEF IInv, TypeOK, HandoverHidden, Quiet, Reported, AugmentSysWaitpid,
         Hidden, NoAnswer, Interrupted, Nothing, Answers
<1> QED  BY <1>1, <1>2, <1>3, <1>4, <1>5 DEF IInv

\* The entry of wait4 keeps the invariant.
LEMMA Wait4Keeps == ASSUME IInv, Wait4 PROVE IInv'
<1> USE FamilyAssumption
<1>1. TypeOK'
  BY Zenon DEF IInv, TypeOK, Places, Wait4, kvars, RootInv
<1>2. RootInv'
  BY DEF IInv, RootInv, Wait4
<1>3. \A j \in Kids : Handed(j)'
  BY DEF IInv, Handed, Wait4, kvars
<1>4. \A j \in Kids : Quiet(j)'
  BY DEF IInv, Quiet, Reported, Wait4, kvars
<1>5. HandoverHidden'
  BY DEF HandoverHidden, Wait4, NoAnswer
<1> QED  BY <1>1, <1>2, <1>3, <1>4, <1>5 DEF IInv

\* The answer of the kernel to wait4 keeps the invariant.
LEMMA Wait4ReturnsKeeps == ASSUME IInv, Wait4Returns PROVE IInv'
<1> USE FamilyAssumption
<1>1. TypeOK'
  <2>1. got' \in Answers
    BY DEF IInv, TypeOK, Answers, Nothing, Wait4Returns
  <2>2. kid' \in [Kids -> KidStates]
    BY DEF IInv, TypeOK, KidStates, Wait4Returns
  <2>3. code' \in [Kids -> BOOLEAN]
    BY Zenon DEF IInv, TypeOK, Wait4Returns
  <2> QED  BY <2>1, <2>2, <2>3 DEF IInv, TypeOK, Places, Wait4Returns
<1>2. RootInv'
  BY DEF RootInv, Wait4Returns
<1>3. \A j \in Kids : Handed(j)'
  BY SMTT(30) DEF IInv, TypeOK, Handed, Wait4Returns, Waitable, Alive
<1>4. \A j \in Kids : Quiet(j)'
  BY SMTT(30) DEF IInv, TypeOK, Quiet, Reported, Wait4Returns, Waitable, Nothing
<1>5. HandoverHidden'
  BY DEF IInv, HandoverHidden, Wait4Returns
<1> QED  BY <1>1, <1>2, <1>3, <1>4, <1>5 DEF IInv

\* The end of the root keeps the invariant.
LEMMA RootEndsKeeps == ASSUME IInv, RootEnds PROVE IInv'
<1> USE FamilyAssumption
<1>1. TypeOK'
  BY DEF IInv, TypeOK, Places, RootEnds, kvars, RootInv
<1>2. RootInv'
  BY DEF IInv, RootInv, RootEnds
<1>3. \A j \in Kids : Handed(j)'
  BY DEF IInv, Handed, RootEnds, kvars
<1>4. \A j \in Kids : Quiet(j)'
  BY DEF IInv, Quiet, Reported, RootEnds, kvars
<1>5. HandoverHidden'
  BY DEF HandoverHidden, RootEnds, NoAnswer
<1> QED  BY <1>1, <1>2, <1>3, <1>4, <1>5 DEF IInv

\* The end of actual_main leaves nothing to keep but what the root saw last.
LEMMA MainKeeps == ASSUME IInv, Main PROVE IInv'
<1>1. TypeOK'
  BY DEF IInv, TypeOK, Main, rvars
<1> QED  BY <1>1 DEF IInv, Main, Joining, HandoverHidden, rvars

\* The invariant is inductive.
THEOREM FamilyInvariant == Spec => []IInv
<1>1. Init => IInv
  <2> SUFFICES ASSUME Init PROVE IInv
    OBVIOUS
  <2>1. got \in Answers /\ seen \in Answers
    BY DEF Init, Answers
  <2>2. sends \in 0..MaxSends
    BY FamilyAssumption DEF Init
  <2>3. TypeOK
    BY <2>1, <2>2, Zenon DEF Init, TypeOK, Places, KidStates
  <2> QED  BY <2>3 DEF Init, IInv, RootInv, Handed, Quiet, Reported,
                       HandoverHidden, NoAnswer
<1>2. IInv /\ [Next]_vars => IInv'
  <2> SUFFICES ASSUME IInv, [Next]_vars PROVE IInv'
    OBVIOUS
  <2>1. ASSUME NEW k \in Kids,
               \/ Fork(k) \/ Kernel(k) \/ Tracer(k) \/ ExitKid(k)
               \/ SendStop(k) \/ SendCont(k) \/ SendKill(k)
        PROVE  IInv'
    BY <2>1, ForkKeeps, FirstStopKeeps, FallKeeps, TakeSignalKeeps, AttachToKeeps,
       SetPtraceOptionsKeeps, HandleStopKeeps, ExitEventKeeps, CrashedKeeps,
       ExitKidKeeps, SendStopKeeps, SendContKeeps, SendKillKeeps
       DEF Kernel, Tracer
  <2>2. CASE RootThread \/ Wait4 \/ Wait4Returns \/ RootEnds
    BY <2>2, PrepWaitedKeeps, PrepAttachToKeeps, AugmentSysWaitpidKeeps, Wait4Keeps,
       Wait4ReturnsKeeps, RootEndsKeeps DEF RootThread
  <2>3. CASE Main
    BY <2>3, MainKeeps
  <2>4. CASE Exited \/ UNCHANGED vars
    <3>1. UNCHANGED vars
      BY <2>4 DEF Exited
    <3>2. TypeOK'
      BY <3>1 DEF IInv, TypeOK, vars, rvars, kvars
    <3>3. ASSUME Joining', NEW k \in Kids PROVE (Handed(k) /\ Quiet(k))'
      BY <3>1, <3>3 DEF IInv, Joining, Handed, Quiet, Reported, vars, rvars, kvars
    <3> QED  BY <3>1, <3>2, <3>3 DEF IInv, Joining, RootInv, HandoverHidden, vars,
                                     rvars, kvars
  <2> QED  BY <2>1, <2>2, <2>3, <2>4 DEF Next
<1> QED  BY <1>1, <1>2, PTL DEF Spec

\* No child ever runs untraced while the tracer lives, unless it is sent a SIGCONT
\* during its hand-over: prep_attach_to leaves it with a SIGSTOP to act on before
\* anything else and attach_to takes it from there.
THEOREM ChildrenAlwaysTraced == Spec => []AlwaysTraced
<1>1. IInv => AlwaysTraced
  BY DEF IInv, TypeOK, Handed, AlwaysTraced
<1> QED  BY <1>1, FamilyInvariant, PTL

\* The root never sees the stop of a hand-over: the kernel reports one group stop
\* of a child nobody stopped, and augment_sys_waitpid hides it.
THEOREM HandoversStayHidden == Spec => []HandoverHidden
<1>1. IInv => HandoverHidden
  BY DEF IInv
<1> QED  BY <1>1, FamilyInvariant, PTL
=============================================================================
