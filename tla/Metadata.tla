------------------------------ MODULE Metadata ------------------------------
(***************************************************************************)
(* augment_sys_paths on the calls that record, report or remove the modes  *)
(* and owners pocker keeps beside a rootfs (aug_paths.rs), and the files   *)
(* it keeps them in (aug_common.rs).  Every tracer thread runs the handler *)
(* of its own tracee; they share the file system.  A step is one system    *)
(* call of the tracer, reads that only decide the next one taken together. *)
(* The rootfs is given, is not "/", and both paths are inside it.          *)
(***************************************************************************)
EXTENDS Naturals, FiniteSets

CONSTANTS
    Threads,    \* tracer threads
    Modes,      \* modes a guest asks for
    Owners,     \* owners a guest asks for
    MaxCalls    \* bound: calls the guests issue

ASSUME MetadataAssumption ==
    /\ Cardinality(Threads) \in Nat /\ MaxCalls \in Nat
    /\ {"none", "empty", "garbled", "any"} \cap (Threads \cup Modes \cup Owners) = {}

VARIABLES
    present,    \* per path: it exists on disk
    metadir,    \* per path: the directory of its metadata file exists
    meta,       \* per path: inode of its metadata file, or 0
    content,    \* per inode: metadata, Empty or Garbled
    lock,       \* per inode: thread that holds the flock, or "none"
    pc,         \* per thread: next step of its handler
    call,       \* per thread: the guest's system call
    ok,         \* per thread: the kernel's verdict on it
    exists,     \* per thread: `exists` of save_metadata_for_file
    fd,         \* per thread: inode of the file it has open, or 0
    data,       \* per thread: curr_data, or the metadata read
    alone,      \* history, per thread: no other call overlapped its call
    ref,        \* history, per path: metadata the guests are entitled to, or Any
    calls       \* bounded counter

fs == <<metadir, meta, content, lock>>
local == <<exists, fd, data>>
vars == <<present, fs, pc, call, ok, local, alone, ref, calls>>

\* A directory and a file in it.
Paths == {"dir", "file"}
Kinds == {"chmod", "create", "open", "chown", "stat", "remove"}
\* Enough for a file under each name and one that each thread has open.
Inodes == 1..(2 + Cardinality(Threads))
Data == [chmod : Modes \cup {"none"}, owner : Owners \cup {"none"}]
Both(x) == [chmod |-> x, owner |-> x]
Default == Both("none")
\* A file without data, one that holds more than one object, no expectation.
Empty == Both("empty")
Garbled == Both("garbled")
Any == Both("any")
NoCall == [kind |-> "stat", path |-> "file", mode |-> "none", owner |-> "none"]

\* The paths that go when p goes.
Tree(p) == IF p = "dir" THEN Paths ELSE {p}

\* A directory made on the host, empty or with a file that an earlier run of
\* pocker has created and given an owner.
Init ==
    /\ \E old \in [chmod : Modes, owner : Owners] \cup {Default} :
          LET kept(p) == p = "file" /\ old # Default IN
          /\ present = [p \in Paths |-> p = "dir" \/ kept(p)]
          /\ metadir = [p \in Paths |-> old # Default]
          /\ meta = [p \in Paths |-> IF kept(p) THEN 1 ELSE 0]
          /\ content = [i \in Inodes |-> IF i = 1 /\ kept("file") THEN old ELSE Empty]
          /\ ref = [p \in Paths |-> IF kept(p) THEN old ELSE Default]
    /\ lock = [i \in Inodes |-> "none"]
    /\ pc = [t \in Threads |-> "idle"] /\ call = [t \in Threads |-> NoCall]
    /\ ok = [t \in Threads |-> FALSE] /\ exists = [t \in Threads |-> FALSE]
    /\ fd = [t \in Threads |-> 0] /\ data = [t \in Threads |-> Default]
    /\ alone = [t \in Threads |-> FALSE] /\ calls = 0

-----------------------------------------------------------------------------
Busy(t) == pc[t] \notin {"idle", "failed"}
PathOf(t) == call[t].path

\* __resolve_metadata_path: only for a path that exists, and only if asked now.
HasMetadataPath(p) == present[p]

\* The handler of t goes on with step s.
Goto(t, s) == pc' = [pc EXCEPT ![t] = s]

\* The end of the handler: with an error the thread kills its tracee.  The file
\* is closed and its lock with it.
Finish(t, s) ==
    /\ Goto(t, s)
    /\ fd' = [fd EXCEPT ![t] = 0]
    /\ lock' = [i \in Inodes |-> IF lock[i] = t THEN "none" ELSE lock[i]]

-----------------------------------------------------------------------------
\* The guest of t issues a call; a removal looks for metadata first.
Enter(t) ==
    /\ pc[t] = "idle" /\ calls < MaxCalls
    /\ \E k \in Kinds, p \in Paths :
          /\ \E m \in IF k \in {"chmod", "create", "open"} THEN Modes ELSE {"none"},
                o \in IF k = "chown" THEN Owners ELSE {"none"} :
                call' = [call EXCEPT ![t] = [kind |-> k, path |-> p, mode |-> m, owner |-> o]]
          /\ Goto(t, IF k # "remove" \/ (HasMetadataPath(p) /\ meta[p] = 0) THEN "kernel"
                     ELSE IF HasMetadataPath(p) THEN "delete" ELSE "rmdir")
    /\ calls' = calls + 1
    /\ LET others == {u \in Threads \ {t} : Busy(u)}
           met == IF others = {} THEN {} ELSE others \cup {t}
       IN /\ alone' = [u \in Threads |-> IF u = t THEN met = {}
                                         ELSE alone[u] /\ u \notin met]
          /\ ref' = [p \in Paths |->
                        IF \E u \in met : call'[u].kind # "stat" /\ p \in Tree(call'[u].path)
                        THEN Any ELSE ref[p]]
    /\ UNCHANGED <<present, fs, ok, local>>

\* As a slip: the file is left.
DeleteKeeps(t) ==
    /\ pc[t] = "delete" /\ Goto(t, "rmdir")
    /\ UNCHANGED <<present, fs, call, ok, local, alone, ref, calls>>

\* delete_metadata_for_file: remove_file, its error ignored ...
Delete(t) ==
    /\ pc[t] = "delete" /\ Goto(t, "rmdir")
    /\ meta' = [meta EXCEPT ![PathOf(t)] = 0]
    /\ UNCHANGED <<present, metadir, content, lock, call, ok, local, alone, ref, calls>>

\* ... and remove_dir_all of what is kept for a directory and all in it.
Rmdir(t) ==
    /\ pc[t] = "rmdir" /\ Goto(t, "kernel")
    /\ IF PathOf(t) = "dir" /\ HasMetadataPath("dir")
       THEN meta' = [p \in Paths |-> 0] /\ metadir' = [p \in Paths |-> FALSE]
       ELSE UNCHANGED <<meta, metadir>>
    /\ UNCHANGED <<present, content, lock, call, ok, local, alone, ref, calls>>

\* What the kernel (external) answers.
Succeeds(t) ==
    LET p == PathOf(t)
        reachable == p = "dir" \/ present["dir"]
        empty == p = "file" \/ ~present["file"]
    IN CASE call[t].kind = "create" -> reachable /\ ~present[p]
         [] call[t].kind = "open"   -> p = "file" /\ reachable
         [] call[t].kind = "remove" -> present[p] /\ empty
         [] OTHER                   -> present[p]

\* The metadata with the update of t's call: the closures given to
\* save_metadata_for_file.
Updated(t, d) ==
    IF call[t].kind = "chown" THEN [d EXCEPT !.owner = call[t].owner]
                              ELSE [d EXCEPT !.chmod = call[t].mode]

\* What the guests are entitled to after the call.  Nothing is promised after an
\* open(O_CREAT) of a file that is there, and after a call that fails on one.
NewRef(t) ==
    LET p == PathOf(t) IN
    IF ~alone[t] \/ call[t].kind = "stat" \/ ~(ok'[t] \/ present[p]) THEN ref
    ELSE IF ~ok'[t] THEN [q \in Paths |-> IF q \in Tree(p) THEN Any ELSE ref[q]]
    ELSE IF call[t].kind = "remove" THEN [ref EXCEPT ![p] = Default]
    ELSE IF ref[p] = Any \/ (call[t].kind = "open" /\ present[p])
         THEN [ref EXCEPT ![p] = Any]
    ELSE [ref EXCEPT ![p] = Updated(t, @)]

\* do_resume_syscall: the call runs, with the mode and owner of the host in place
\* of the guest's.  Modes and owners are then saved, whatever the result.
Kernel(t) ==
    /\ pc[t] = "kernel"
    /\ ok' = [ok EXCEPT ![t] = Succeeds(t)]
    /\ present' = IF ok'[t] THEN [present EXCEPT ![PathOf(t)] = call[t].kind # "remove"]
                            ELSE present
    /\ Goto(t, CASE call[t].kind = "stat"   -> IF ok'[t] THEN "check" ELSE "idle"
                 [] call[t].kind = "remove" -> "idle"
                 [] OTHER                   -> "save")
    /\ ref' = NewRef(t)
    /\ UNCHANGED <<fs, call, local, alone, calls>>

-----------------------------------------------------------------------------
(* save_metadata_for_file *)

\* Is there a file?  Then create_dir_all.
Save(t) ==
    /\ pc[t] = "save"
    /\ IF ~HasMetadataPath(PathOf(t))
       THEN Goto(t, "idle") /\ UNCHANGED <<exists, metadir>>
       ELSE /\ Goto(t, "open")
            /\ exists' = [exists EXCEPT ![t] = meta[PathOf(t)] # 0]
            /\ metadir' = [p \in Paths |-> metadir[p] \/ PathOf(t) \in Tree(p)]
    /\ UNCHANGED <<present, meta, content, lock, call, ok, fd, data, alone, ref, calls>>

\* A name or an open file refers to inode i.
InUse(i) == (\E p \in Paths : meta[p] = i) \/ (\E u \in Threads : fd[u] = i)

\* The inode a new file gets: the first that is not in use.
NewInode == {i \in Inodes : ~InUse(i) /\ \A j \in 1..(i - 1) : InUse(j)}

\* open with create(true); an error if the directory has gone.
Open(t) ==
    /\ pc[t] = "open"
    /\ LET p == PathOf(t)
       IN IF ~metadir[p] THEN Finish(t, "failed") /\ UNCHANGED <<meta, content>>
          ELSE \E i \in IF meta[p] # 0 THEN {meta[p]} ELSE NewInode :
               /\ meta' = [meta EXCEPT ![p] = i]
               /\ content' = IF meta[p] # 0 THEN content ELSE [content EXCEPT ![i] = Empty]
               /\ fd' = [fd EXCEPT ![t] = i]
               /\ Goto(t, "lock") /\ UNCHANGED lock
    /\ UNCHANGED <<present, metadir, call, ok, exists, data, alone, ref, calls>>

\* from_reader on what an inode holds.
Parses(i) == content[i] \in Data

\* The part of Lock behind the wait for the lock.
Locked(t) ==
    /\ IF exists[t] /\ ~Parses(fd[t])
       THEN Finish(t, "failed") /\ UNCHANGED data
       ELSE /\ lock' = [lock EXCEPT ![fd[t]] = t]
            /\ data' = [data EXCEPT ![t] =
                           Updated(t, IF exists[t] THEN content[fd[t]] ELSE Default)]
            /\ Goto(t, IF exists[t] THEN "truncate" ELSE "write") /\ UNCHANGED fd
    /\ UNCHANGED <<present, metadir, meta, content, call, ok, exists, alone, ref, calls>>

\* As a slip: a shared lock.
LockShared(t) == pc[t] = "lock" /\ Locked(t)

\* flock, then the data is read and updated.
Lock(t) == pc[t] = "lock" /\ lock[fd[t]] = "none" /\ Locked(t)

Truncate(t) ==
    /\ pc[t] = "truncate" /\ Goto(t, "write")
    /\ content' = [content EXCEPT ![fd[t]] = Empty]
    /\ UNCHANGED <<present, metadir, meta, lock, call, ok, local, alone, ref, calls>>

\* As a slip: the lock outlives the call.
WriteKeepsLock(t) ==
    /\ pc[t] = "write" /\ Goto(t, "idle")
    /\ content' = [content EXCEPT ![fd[t]] = data[t]]
    /\ UNCHANGED <<present, metadir, meta, lock, call, ok, local, alone, ref, calls>>

\* to_writer from the start of the file; over data that was not truncated the
\* end of it may stay.
Write(t) ==
    /\ pc[t] = "write"
    /\ \E c \in {data[t]} \cup (IF content[fd[t]] = Empty THEN {} ELSE {Garbled}) :
          content' = [content EXCEPT ![fd[t]] = c]
    /\ Finish(t, "idle")
    /\ UNCHANGED <<present, metadir, meta, call, ok, exists, data, alone, ref, calls>>

-----------------------------------------------------------------------------
(* replace_statbuf_result and read_metadata_for_file *)

\* Is there a file?  If not, the guest sees what the host says.
Check(t) ==
    /\ pc[t] = "check"
    /\ data' = [data EXCEPT ![t] = Default]
    /\ Goto(t, IF HasMetadataPath(PathOf(t)) /\ meta[PathOf(t)] # 0 THEN "read" ELSE "idle")
    /\ UNCHANGED <<present, fs, call, ok, exists, fd, alone, ref, calls>>

Read(t) ==
    /\ pc[t] = "read"
    /\ IF meta[PathOf(t)] = 0 THEN Finish(t, "failed")
       ELSE /\ fd' = [fd EXCEPT ![t] = meta[PathOf(t)]]
            /\ Goto(t, "parse") /\ UNCHANGED lock
    /\ UNCHANGED <<present, metadir, meta, content, call, ok, exists, data, alone, ref, calls>>

\* The file is read without a lock.
Parse(t) ==
    /\ pc[t] = "parse"
    /\ IF Parses(fd[t])
       THEN data' = [data EXCEPT ![t] = content[fd[t]]] /\ Finish(t, "idle")
       ELSE Finish(t, "failed") /\ UNCHANGED data
    /\ UNCHANGED <<present, metadir, meta, content, call, ok, exists, alone, ref, calls>>

Over == (\A t \in Threads : ~Busy(t)) /\ UNCHANGED vars

Handle(t) ==
    \/ Delete(t) \/ Rmdir(t) \/ Kernel(t)
    \/ Save(t) \/ Open(t) \/ Lock(t) \/ Truncate(t) \/ Write(t)
    \/ Check(t) \/ Read(t) \/ Parse(t)

Next == Over \/ \E t \in Threads : Enter(t) \/ Handle(t)

Spec == Init /\ [][Next]_vars

\* Every thread is scheduled, and a thread that waits in flock gets its turn.
FairSpec == Spec /\ \A t \in Threads : WF_vars(Handle(t)) /\ SF_vars(Lock(t))

-----------------------------------------------------------------------------
(* Properties. *)

\* A call that overlaps with no other one is never failed, and a stat then
\* reports the mode and the owner that the last successful chmod, chown, mkdir,
\* mknod or creating open gave the file, none at all after its removal: whatever
\* the tracers did to the metadata before, unless ref has been lost to a race.
\* (augment_sys_paths, save_, read_ and delete_metadata_for_file)
AloneIsRight ==
    [][\A t \in Threads :
          (Busy(t) /\ pc'[t] # pc[t] /\ alone[t] /\ ref[PathOf(t)] # Any) =>
              /\ pc'[t] # "failed"
              /\ (pc[t] \in {"check", "parse"} /\ pc'[t] = "idle") =>
                    data'[t] = ref[PathOf(t)]]_vars

\* Between its lock and its truncation a tracer's new data is the file's data
\* with its own update, and nobody writes between truncation and write: saves
\* that found the file lose nothing of each other.  (save_metadata_for_file)
SavesSerialise ==
    \A t \in Threads :
        /\ pc[t] = "truncate" => /\ Parses(fd[t])
                                 /\ data[t] = Updated(t, content[fd[t]])
        /\ (pc[t] = "write" /\ exists[t]) => content[fd[t]] = Empty

\* No tracer waits for a lock for ever.  (save_metadata_for_file)
CallEnds == \A t \in Threads : Busy(t) ~> ~Busy(t)

\* A directory that is removed takes the metadata of what was in it along, also
\* what was created by mistake.  (delete_metadata_for_file;
\* test_rmdir_deletes_untracked_metadata_files)
RmdirLeavesNothing ==
    [][\A t \in Threads :
          (pc[t] = "kernel" /\ ok'[t] /\ alone[t] /\ call[t].kind = "remove"
              /\ PathOf(t) = "dir") => meta'["file"] = 0]_vars
=============================================================================
