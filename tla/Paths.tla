-------------------------------- MODULE Paths --------------------------------
(***************************************************************************)
(* Which file of the host a path of the guest reaches.  calc_real_path of  *)
(* sysaug/src/aug_common.rs puts the rootfs before it and follows symbolic *)
(* links whose targets are paths of the guest; augment_sys_exec of         *)
(* sysaug/src/aug_exec.rs finds the program, its loader or the interpreter *)
(* of its first line.  The kernel then resolves, on the host, what the     *)
(* tracer has put into the registers.                                      *)
(*                                                                         *)
(* The text <<"host", p>> is the absolute path p as the guest writes it,   *)
(* and names p on the host if the kernel gets it; <<"root", p>> is the     *)
(* path of p in the rootfs.                                                *)
(***************************************************************************)
EXTENDS Integers, SequencesExt

CONSTANTS
    GuestPaths,     \* paths the guest uses
    Passthroughs,   \* path_prefix_excludes, as a set of guest paths
    Renames,        \* rename_host_paths with a replacement: text -> text
    Hides,          \* texts a rename_host_paths without replacement matches
    RootTrees,      \* contents of the rootfs: guest path -> node
    HostTree,       \* contents of the host: guest path -> node
    MaxAppends      \* appends of one call that the area for them has room for

ASSUME PathsAssumption ==
    /\ Passthroughs \subseteq GuestPaths /\ DOMAIN HostTree = GuestPaths
    /\ Hides \intersect DOMAIN Renames = {}
    /\ \A t \in RootTrees : DOMAIN t = GuestPaths
    /\ MaxAppends \in Nat

VARIABLES
    root,       \* the tree in the rootfs
    native,     \* use_native_loader
    pc,         \* "guest", "path", "open", "exec", "run", "done", "eloop", "failed", "error"
    call,       \* the system call and its path
    reg,        \* the path in the register
    argv,       \* texts of the argument vector, for exec
    appends,    \* strings and vectors appended so far, for exec
    loader      \* whether the register has the loader of the program argv[2]

vars == <<root, native, pc, call, reg, argv, appends, loader>>

\* One system call for each way the table and the kernel treat a final link.
\* linkat stands for rmdir, mkdirat and openat with O_NOFOLLOW too; statx_nofollow
\* is statx with AT_SYMLINK_NOFOLLOW.
PathCalls == {"open", "lstat", "stat", "statx", "statx_nofollow", "linkat"}

\* The entry of the table: dont_follow_symlink, flag_dont_follow_symlink, neither.
TableMode(name) ==
    CASE name \in {"lstat", "stat"} -> "never"
      [] name \in {"statx", "statx_nofollow"} -> "flag"
      [] name \in {"open", "linkat", "execve"} -> "always"

\* What the kernel does with a link as last component.
KernelFollows(name) == name \in {"open", "stat", "statx", "execve"}

Text(p) == <<"host", p>>
Texts == {"host", "root"} \X GuestPaths
NoText == <<"host", "">>

Missing == <<"none", "">>
Loop == <<"loop", "">>

Node(text) ==
    CASE text[1] = "root" -> root[text[2]]
      [] text[1] = "host" -> HostTree[text[2]]
      [] text \in {Missing, Loop} -> [kind |-> "none"]

-----------------------------------------------------------------------------
(* The kernel *)

\* Where the kernel ends if it follows every link; an absolute one leads to
\* the host.
KernelFinal(text) ==
    LET walk[t \in Texts, seen \in SUBSET Texts] ==
            LET go(next) == IF next \in seen THEN Loop ELSE walk[next, seen \union {next}]
                from(node) ==
                    CASE node.kind = "none" -> Missing
                      [] node.kind = "abs" -> go(<<"host", node.to>>)
                      [] node.kind = "rel" -> go(<<t[1], node.to>>)
                      [] node.kind \notin {"none", "abs", "rel"} -> t
            IN from(Node(t))
    IN walk[text, {text}]

KernelEntry(text) == IF Node(text).kind = "none" THEN Missing ELSE text

-----------------------------------------------------------------------------
(* The tracer: paths *)

None == [kind |-> "None", text |-> NoText]
ELOOP == [kind |-> "ELOOP", text |-> NoText]
HidePath == [kind |-> "HidePath", text |-> NoText]
Override(text) == [kind |-> "Override", text |-> text]

\* get_mod_path with rename_host_paths.
GetModPath(p, initial) ==
    LET text == IF initial.kind = "Override" THEN initial.text ELSE Text(p)
    IN IF text \in Hides THEN HidePath
       ELSE IF text \in DOMAIN Renames THEN Override(Renames[text])
       ELSE initial

\* calc_real_path_simple: the rootfs before a path that is not excluded.
CalcRealPathSimple(p) ==
    GetModPath(p, IF p \in Passthroughs THEN None ELSE Override(<<"root", p>>))

\* calc_follow_symlink, for one link: the target, or "stay" or "loop".  A flag
\* argument of the call is looked at (args[flag_reg] | flag != 0) and makes no
\* difference.
CalcFollowSymlink(text, mode, visited) ==
    LET node == Node(text) IN
    CASE mode # "always" -> [ans |-> "stay"]
      [] mode = "always" /\ node.kind # "abs" -> [ans |-> "stay"]
      [] mode = "always" /\ node.kind = "abs" ->
            IF node.to \in visited THEN [ans |-> "loop"] ELSE [ans |-> "link", to |-> node.to]

\* As a slip: the text of the last link is forgotten.
CalcRealPathForgets(p, mode) ==
    LET recurse[q \in GuestPaths, visited \in SUBSET GuestPaths] ==
            LET seen == visited \union {q}
                action == CalcRealPathSimple(q)
                step == CalcFollowSymlink(action.text, mode, seen)
            IN IF action \in {None, HidePath} \/ step.ans = "stay" THEN action
               ELSE IF step.ans = "loop" THEN ELOOP
               ELSE recurse[step.to, seen]
    IN recurse[p, {}]

\* calc_real_path and calc_real_path_recurse: links to paths of the guest are
\* followed until the path is something else, hidden or has been visited.
CalcRealPath(p, mode) ==
    LET recurse[q \in GuestPaths, visited \in SUBSET GuestPaths] ==
            LET seen == visited \union {q}
                action == CalcRealPathSimple(q)
                step == CalcFollowSymlink(IF action = None THEN Text(q) ELSE action.text, mode, seen)
                next == recurse[step.to, seen]
            IN IF action = HidePath THEN HidePath
               ELSE IF action = None /\ q \in Passthroughs THEN None
               ELSE IF step.ans = "stay" THEN action
               ELSE IF step.ans = "loop" THEN ELOOP
               ELSE IF next = None THEN Override(Text(step.to)) ELSE next
    IN recurse[p, {}]

\* calc_real_path looks at a link, which may be gone when it reads it: the error
\* ReadSymlink ends the handler.
ReadsLink(p, mode) ==
    /\ mode = "always"
    /\ CalcRealPathSimple(p).kind = "Override"
    /\ Node(CalcRealPathSimple(p).text).kind \in {"abs", "rel"}

-----------------------------------------------------------------------------
(* Path calls *)

Init ==
    /\ root \in RootTrees /\ native \in BOOLEAN
    /\ pc = "guest" /\ call = [path |-> "", name |-> "open"]
    /\ reg = NoText /\ argv = <<>> /\ appends = 0 /\ loader = FALSE

\* The guest calls open, stat or another system call with a path.
CallPath ==
    /\ pc = "guest" /\ pc' = "path"
    /\ \E p \in GuestPaths, name \in PathCalls : call' = [path |-> p, name |-> name]
    /\ reg' = Text(call'.path)
    /\ UNCHANGED <<root, native, argv, appends, loader>>

\* augment_sys_paths, for one path: the register gets the path to use instead,
\* or the call is skipped.  A path that is to be hidden stays as it is.
AugmentPath ==
    /\ pc = "path"
    /\ \E mode \in {TableMode(call.name)} :
       \/ \E action \in {CalcRealPath(call.path, mode)} :
             CASE action.kind = "ELOOP" -> pc' = "eloop" /\ reg' = reg
               [] action.kind = "Override" -> pc' = "open" /\ reg' = action.text
               [] action.kind \in {"None", "HidePath"} -> pc' = "open" /\ reg' = reg
       \/ ReadsLink(call.path, mode) /\ pc' = "error" /\ reg' = reg
    /\ UNCHANGED <<root, native, call, argv, appends, loader>>

\* The kernel reaches a file, none, or finds a loop.
Open ==
    /\ pc = "open" /\ pc' = "done"
    /\ reg' = IF KernelFollows(call.name) THEN KernelFinal(reg) ELSE KernelEntry(reg)
    /\ UNCHANGED <<root, native, call, argv, appends, loader>>

-----------------------------------------------------------------------------
(* Exec *)

ScriptArg == <<"arg", "of the script">>
GuestArg == <<"arg", "of the guest">>

\* The guest calls execve with two arguments.
CallExec ==
    /\ pc = "guest" /\ pc' = "exec"
    /\ \E p \in GuestPaths : call' = [path |-> p, name |-> "execve"]
    /\ reg' = Text(call'.path)
    /\ argv' = <<Text(call'.path), GuestArg>>
    /\ UNCHANGED <<root, native, appends, loader>>

\* tracee_stack_append: an error if there is no room.
Appended(n, good) ==
    IF appends + n <= MaxAppends THEN pc' = good /\ appends' = appends + n
    ELSE pc' = "error" /\ appends' = appends

\* The path that calc_real_path chooses for p; no other one for a hidden path.
Chosen(p) ==
    LET action == CalcRealPath(p, "always")
    IN IF action.kind = "Override" THEN action.text ELSE Text(p)

\* The file behind the path in the register; expand_exec_with_parser opens it.
ExecFile ==
    LET p == reg[2] IN
    IF CalcRealPath(p, "always") = ELOOP THEN Missing ELSE KernelFinal(Chosen(p))

\* A program with a loader: "argv[0] = ld.so, argv[1] = elf.FAKEpath, argv[2:] = argv[1:]".
ExecLoaded(node) ==
    /\ node.kind = "elf" /\ node.interp # ""
    /\ LET interp == IF native THEN Text(node.interp) ELSE Chosen(node.interp)
       IN /\ reg' = interp
          /\ argv' = <<interp, reg>> \o Tail(argv)
          /\ loader' = TRUE
    /\ Appended(3, "run")

\* A program without one.
ExecStatic(node) ==
    /\ node.kind = "elf" /\ node.interp = ""
    /\ reg' = Chosen(reg[2])
    /\ Appended(1, "run")
    /\ UNCHANGED <<argv, loader>>

\* As slips: the arguments stay as they are; the one of the first line is dropped.
ExecScriptInPlace(node) ==
    /\ node.kind = "script" /\ node.parts \in 1..2
    /\ reg' = Text(node.interp) /\ pc' = "exec"
    /\ UNCHANGED <<argv, appends, loader>>
ExecScriptNoArg(node) ==
    /\ node.kind = "script" /\ node.parts \in 1..2
    /\ reg' = Text(node.interp)
    /\ argv' = <<reg', reg>> \o Tail(argv)
    /\ Appended(1 + node.parts, "exec")
    /\ UNCHANGED loader

\* A script: its interpreter, in turn, is expanded.
ExecScript(node) ==
    /\ node.kind = "script" /\ node.parts \in 1..2
    /\ reg' = Text(node.interp)
    /\ argv' = <<reg'>> \o (IF node.parts = 2 THEN <<ScriptArg>> ELSE <<>>)
                  \o <<reg>> \o Tail(argv)
    /\ Appended(1 + node.parts, "exec")
    /\ UNCHANGED loader

\* There is no file, or it is neither a program nor a script, or its first line
\* has more than two words: the call is skipped with ENOENT.
ExecRefused(node) ==
    /\ \/ node.kind \in {"none", "junk"}
       \/ node.kind = "script" /\ node.parts \notin 1..2
    /\ pc' = "failed"
    /\ UNCHANGED <<reg, argv, appends, loader>>

\* File::open fails, the part of a program with its loader cannot be read, or
\* read_line finds text that is not UTF-8: the error ends the handler.
ExecError(node) ==
    /\ \/ node.kind \in {"locked", "bytes"}
       \/ ReadsLink(reg[2], "always")
       \/ /\ node.kind = "elf" /\ node.interp # ""
          /\ ReadsLink(node.interp, "always")
    /\ pc' = "error"
    /\ UNCHANGED <<reg, argv, appends, loader>>

\* One round of expand_exec_with_parser.  What a set-id program does to the ids
\* is in Augments.
ExpandExec ==
    /\ pc = "exec"
    /\ \E node \in {Node(ExecFile)} :
       \/ ExecLoaded(node)
       \/ ExecStatic(node)
       \/ ExecScript(node)
       \/ ExecRefused(node)
       \/ ExecError(node)
    /\ UNCHANGED <<root, native, call>>

\* The kernel executes what the register names.
Run ==
    /\ pc = "run"
    /\ reg' = KernelFinal(reg)
    /\ pc' = IF reg' \in {Missing, Loop} THEN "failed" ELSE "done"
    /\ UNCHANGED <<root, native, call, argv, appends, loader>>

Over == pc \in {"done", "eloop", "failed", "error"} /\ UNCHANGED vars

Next == CallPath \/ AugmentPath \/ Open \/ CallExec \/ ExpandExec \/ Run \/ Over

Spec == Init /\ [][Next]_vars /\ WF_vars(Next)

-----------------------------------------------------------------------------
(* What a process whose root directory is the rootfs would see *)

\* The text of p for the kernel, as far as the guest is concerned.
Place(p) ==
    LET text == IF p \in Passthroughs THEN Text(p) ELSE <<"root", p>>
    IN IF text \in DOMAIN Renames THEN Renames[text] ELSE text

\* The guest paths from p on, each the target of the one before.
Chain(p) ==
    LET walk[q \in GuestPaths, seen \in SUBSET GuestPaths] ==
            LET from(node) ==
                    IF q \in Passthroughs \/ node.kind \notin {"abs", "rel"} THEN <<q>>
                    ELSE IF node.to \in seen THEN <<q, node.to>>
                    ELSE <<q>> \o walk[node.to, seen \union {node.to}]
            IN from(Node(Place(q)))
    IN walk[p, {p}]

\* The file p is in the guest.
FileAt(q, text) ==
    IF q \in Passthroughs THEN KernelFinal(text)
    ELSE IF Node(text).kind \in {"abs", "rel"} THEN Loop
    ELSE KernelEntry(text)
Guest(q) == FileAt(q, Place(q))
GuestFinal(p) == Guest(Last(Chain(p)))

\* Relative links lead to no absolute one, which the host would resolve, a link
\* has no new name, and nothing on the way is to be hidden.
Plain(q) == Place(q) = <<"root", q>>
FollowedAlong(chain) ==
    \A i \in 1..(Len(chain) - 1) :
        /\ Plain(chain[i])
        /\ root[chain[i]].kind = "rel" =>
              \A j \in (i + 1)..Len(chain) : Plain(chain[j]) /\ root[chain[j]].kind # "abs"
Shown(chain) ==
    \A i \in 1..Len(chain) : {Text(chain[i]), <<"root", chain[i]>>} \intersect Hides = {}
Followed(p) == \E chain \in {Chain(p)} : FollowedAlong(chain) /\ Shown(chain)

\* What execve does there: the file that runs, its loader (NoText without one)
\* and its arguments, the rest of a first line being one of them; words is the
\* most words of a first line on the way.
Nothing == [prog |-> Missing, loader |-> Missing, args |-> <<>>, words |-> 0]
GuestExec ==
    LET from[p \in GuestPaths, args \in Seq(Texts \union {ScriptArg, GuestArg}),
             depth \in Nat, words \in Nat] ==
            LET exec(file, node) ==
                CASE node.kind \notin {"elf", "script"} \/ depth > 3 -> Nothing
                  [] node.kind = "elf" /\ depth <= 3 ->
                        [prog |-> file, args |-> args, words |-> words,
                         loader |-> IF node.interp = "" THEN NoText
                                    ELSE IF native THEN KernelFinal(Text(node.interp))
                                    ELSE GuestFinal(node.interp)]
                  [] node.kind = "script" /\ depth <= 3 ->
                        from[node.interp,
                             (IF node.parts > 1 THEN <<ScriptArg>> ELSE <<>>)
                                \o <<Text(p)>> \o args,
                             depth + 1, IF node.parts > words THEN node.parts ELSE words]
            IN exec(GuestFinal(p), Node(GuestFinal(p)))
    IN from[call.path, <<GuestArg>>, 0, 0]

-----------------------------------------------------------------------------
(* Properties *)

\* The table follows links for the calls that the kernel follows them for.
Agrees(name) == KernelFollows(name) <=> TableMode(name) = "always"

\* A path call ends at the file that the path names inside the rootfs, or
\* outside of it for the passthroughs, through any number of links, and with
\* ELOOP only if they form a cycle.  For calls whose entry in the table agrees
\* with the kernel on links, and for every call if the path is no link.
\* (calc_real_path, augment_sys_paths)
ReachesGuestFile ==
    /\ pc \in {"done", "eloop"} /\ argv = <<>> /\ Followed(call.path)
    /\ Agrees(call.name) \/ Len(Chain(call.path)) = 1
    => IF pc = "eloop" THEN GuestFinal(call.path) = Loop
       ELSE reg = IF KernelFollows(call.name) THEN GuestFinal(call.path)
                  ELSE KernelEntry(Place(call.path))

\* A call with a flag argument follows the links if the flag is not set.
\* (SyscallInfo.flag_dont_follow_symlink, calc_follow_symlink)
FlagHonoured ==
    pc = "done" /\ call.name = "statx" /\ Followed(call.path) =>
        reg = GuestFinal(call.path)

\* Exec runs the program, the loader and the arguments that execve would choose
\* in the rootfs, through scripts of scripts; it fails only if execve fails there
\* or a first line has more than two words, which the code refuses.
\* (expand_exec_with_parser)
RunsGuestProgram ==
    /\ pc \in {"done", "failed"} /\ argv # <<>>
    /\ \A q \in GuestPaths : (Shown(<<q>>) => Followed(q)) /\ GuestFinal(q) # Loop
    /\ Followed(call.path)
    => \E right \in {GuestExec} :
        /\ pc = "failed" => right.loader = Missing \/ right.words > 2
        /\ pc = "done" /\ loader =>
              /\ right.loader = reg /\ right.prog = KernelFinal(Chosen(argv[2][2]))
              /\ right.args = SubSeq(argv, 3, Len(argv))
        /\ pc = "done" /\ ~loader =>
              right.loader = NoText /\ right.prog = reg /\ right.args = Tail(argv)

\* Every call comes back to the guest, with a result or the end of its tracer,
\* whatever the links and first lines of the files are.  (calc_real_path_recurse,
\* expand_exec_with_parser)
CallReturns == pc # "guest" ~> pc \in {"done", "eloop", "failed", "error"}
=============================================================================
