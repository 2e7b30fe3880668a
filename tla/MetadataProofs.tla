--------------------------- MODULE MetadataProofs ---------------------------
(***************************************************************************)
(* Proofs about Metadata, for any number of tracers, modes, owners and     *)
(* calls: saves under the lock are serialised, and a call that overlaps    *)
(* with no other one keeps or reports the metadata that it should.         *)
(***************************************************************************)
EXTENDS Metadata, TLAPS

PCs == {"idle", "delete", "rmdir", "kernel", "save", "open", "lock", "truncate",
        "write", "check", "read", "parse", "failed"}

Calls == [kind : Kinds, path : Paths, mode : Modes \cup {"none"},
          owner : Owners \cup {"none"}]

TypeOK ==
    /\ meta \in [Paths -> Inodes \cup {0}]
    /\ content \in [Inodes -> Data \cup {Empty, Garbled}]
    /\ lock \in [Inodes -> Threads \cup {"none"}]
    /\ pc \in [Threads -> PCs] /\ call \in [Threads -> Calls]
    /\ exists \in [Threads -> BOOLEAN]
    /\ fd \in [Threads -> Inodes \cup {0}] /\ data \in [Threads -> Data]

\* A file is open from Open to Write and during Parse.  The lock of a file belongs
\* to whoever has read it and not yet written it.
LockInv ==
    \A t \in Threads :
        /\ pc[t] \in {"lock", "truncate", "write", "parse"} => fd[t] \in Inodes
        /\ pc[t] \in {"truncate", "write"} => lock[fd[t]] = t

IInv == TypeOK /\ LockInv /\ SavesSerialise

-----------------------------------------------------------------------------
\* An update of metadata is metadata.  (the closures of augment_sys_paths)
LEMMA UpdatedTyped ==
    ASSUME TypeOK, NEW t \in Threads, NEW d \in Data
    PROVE  Updated(t, d) \in Data
BY DEF TypeOK, Calls, Updated, Data

\* A file that Open finds or makes; nothing refers to a new one.
LEMMA OpenInode ==
    ASSUME TypeOK, NEW t \in Threads, Open(t), metadir[PathOf(t)]
    PROVE  \E i \in Inodes :
              /\ meta' = [meta EXCEPT ![PathOf(t)] = i] /\ fd' = [fd EXCEPT ![t] = i]
              /\ pc' = [pc EXCEPT ![t] = "lock"]
              /\ UNCHANGED <<present, metadir, lock, call, exists, data, ref>>
              /\ \/ meta[PathOf(t)] = i /\ content' = content
                 \/ /\ meta[PathOf(t)] = 0 /\ content' = [content EXCEPT ![i] = Empty]
                    /\ \A p \in Paths : meta[p] # i
                    /\ \A u \in Threads : fd[u] # i
<1> DEFINE p == PathOf(t)
<1>1. p \in Paths
  BY DEF TypeOK, Calls, PathOf
<1>2. PICK i \in IF meta[p] # 0 THEN {meta[p]} ELSE NewInode :
          /\ meta' = [meta EXCEPT ![p] = i] /\ fd' = [fd EXCEPT ![t] = i]
          /\ content' = IF meta[p] # 0 THEN content ELSE [content EXCEPT ![i] = Empty]
          /\ pc' = [pc EXCEPT ![t] = "lock"]
          /\ UNCHANGED <<present, metadir, lock, call, exists, data, ref>>
  BY Zenon DEF Open, Goto
<1>3. i \in Inodes /\ (meta[p] = 0 => ~InUse(i))
  BY <1>1, <1>2 DEF TypeOK, NewInode
<1>4. /\ meta[p] # 0 => meta[p] = i /\ content' = content
      /\ meta[p] = 0 => content' = [content EXCEPT ![i] = Empty]
  BY <1>2
<1> QED
  BY <1>2, <1>3, <1>4, Zenon DEF InUse

\* There is a file to begin with, if an earlier run has left one.
LEMMA FirstInode == 1 \in Inodes
BY MetadataAssumption DEF Inodes

-----------------------------------------------------------------------------
\* Every step keeps the invariant.  One tracer moves; a tracer between its lock and
\* its write is told apart from it by the lock of its file.
LEMMA MetadataStep ==
    ASSUME IInv, [Next]_vars
    PROVE  IInv'
<1> USE DEF LockInv
<1>a. TypeOK /\ LockInv /\ SavesSerialise
  BY DEF IInv
<1>b. "none" \notin Threads
  BY MetadataAssumption
<1>c. Default \in Data
  BY DEF Default, Both, Data
<1>1. CASE UNCHANGED vars \/ Over
  BY <1>a, <1>1 DEF IInv, TypeOK, SavesSerialise, Parses, Updated, Over, vars, fs, local
<1>2. ASSUME NEW t \in Threads, Enter(t) PROVE IInv'
  <2>1. /\ pc[t] = "idle" /\ UNCHANGED <<meta, content, lock, exists, fd, data>>
        /\ \E c \in Calls : call' = [call EXCEPT ![t] = c]
        /\ \E s \in {"kernel", "delete", "rmdir"} : pc' = [pc EXCEPT ![t] = s]
    BY <1>2, Zenon DEF Enter, Goto, fs, local, Calls
  <2>2. TypeOK'
    BY <1>a, <2>1 DEF TypeOK, PCs
  <2>3. LockInv'
    BY <1>a, <2>1 DEF TypeOK
  <2>4. SavesSerialise'
    BY <1>a, <2>1 DEF TypeOK, SavesSerialise, Parses, Updated
  <2> QED
    BY <2>2, <2>3, <2>4 DEF IInv
<1>3. ASSUME NEW t \in Threads, Delete(t) \/ Rmdir(t) PROVE IInv'
  <2>1. /\ pc[t] \in {"delete", "rmdir"}
        /\ UNCHANGED <<content, lock, call, exists, fd, data>>
        /\ \E s \in {"rmdir", "kernel"} : pc' = [pc EXCEPT ![t] = s]
    BY <1>3 DEF Delete, Rmdir, Goto, local
  <2>2. meta' \in [Paths -> Inodes \cup {0}]
    BY <1>a, <1>3 DEF Delete, Rmdir, TypeOK, PathOf
  <2>3. TypeOK'
    BY <1>a, <2>1, <2>2 DEF TypeOK, PCs
  <2>4. LockInv' /\ SavesSerialise'
    BY <1>a, <2>1 DEF TypeOK, SavesSerialise, Parses, Updated
  <2> QED
    BY <2>3, <2>4 DEF IInv
<1>4. ASSUME NEW t \in Threads, Kernel(t) PROVE IInv'
  <2>1. /\ pc[t] = "kernel"
        /\ UNCHANGED <<meta, content, lock, call, exists, fd, data>>
        /\ \E s \in {"check", "idle", "save"} : pc' = [pc EXCEPT ![t] = s]
    BY <1>4, Zenon DEF Kernel, Goto, fs, local
  <2>2. TypeOK'
    BY <1>a, <2>1 DEF TypeOK, PCs
  <2>3. LockInv' /\ SavesSerialise'
    BY <1>a, <2>1 DEF TypeOK, SavesSerialise, Parses, Updated
  <2> QED
    BY <2>2, <2>3 DEF IInv
<1>5. ASSUME NEW t \in Threads, Save(t) PROVE IInv'
  <2>1. /\ pc[t] = "save" /\ UNCHANGED <<meta, content, lock, call, fd, data>>
        /\ \E s \in {"idle", "open"} : pc' = [pc EXCEPT ![t] = s]
        /\ exists' = exists \/ \E b \in BOOLEAN : exists' = [exists EXCEPT ![t] = b]
    BY <1>5, Zenon DEF Save, Goto
  <2>2. TypeOK'
    BY <1>a, <2>1 DEF TypeOK, PCs
  <2>3. LockInv' /\ SavesSerialise'
    BY <1>a, <2>1 DEF TypeOK, SavesSerialise, Parses, Updated
  <2> QED
    BY <2>2, <2>3 DEF IInv
<1>6. ASSUME NEW t \in Threads, NEW s \in PCs \ {"lock", "truncate", "write", "parse"},
             Finish(t, s), UNCHANGED <<content, call, exists>>,
             meta' \in [Paths -> Inodes \cup {0}], data' \in [Threads -> Data],
             \A u \in Threads \ {t} : data'[u] = data[u]
      PROVE IInv'
  <2>1. TypeOK'
    BY <1>a, <1>6 DEF TypeOK, Finish, Goto
  <2>2. \A u \in Threads : u # t => pc'[u] = pc[u] /\ fd'[u] = fd[u]
    BY <1>a, <1>6 DEF TypeOK, Finish, Goto
  <2>3. pc'[t] = s
    BY <1>a, <1>6 DEF TypeOK, Finish, Goto
  <2>4. \A i \in Inodes : lock[i] # t => lock'[i] = lock[i]
    BY <1>6 DEF Finish
  <2>5. LockInv'
    BY <1>a, <2>2, <2>3, <2>4
  <2>6. pc'[t] \notin {"truncate", "write"} /\ UNCHANGED <<content, call, exists>>
    BY <1>6, <2>3
  <2>7. \A u \in Threads : u # t => data'[u] = data[u]
    BY <1>6
  <2>8. SavesSerialise'
    BY <1>a, <2>2, <2>6, <2>7 DEF SavesSerialise, Parses, Updated
  <2> QED
    BY <2>1, <2>5, <2>8 DEF IInv
<1>7. ASSUME NEW t \in Threads, Open(t) PROVE IInv'
  <2> DEFINE p == PathOf(t)
  <2>1. CASE ~metadir[p]
    BY <1>a, <1>6, <1>7, <2>1 DEF Open, TypeOK, PCs
  <2>2. CASE metadir[p]
    <3>1. PICK i \in Inodes :
              /\ meta' = [meta EXCEPT ![p] = i] /\ fd' = [fd EXCEPT ![t] = i]
              /\ pc' = [pc EXCEPT ![t] = "lock"] /\ UNCHANGED <<lock, call, exists, data>>
              /\ \/ content' = content
                 \/ /\ content' = [content EXCEPT ![i] = Empty]
                    /\ \A u \in Threads : fd[u] # i
      BY <1>a, <1>7, <2>2, OpenInode
    <3>2. TypeOK'
      BY <1>a, <3>1, Zenon DEF TypeOK, PCs
    <3>3. /\ \A u \in Threads : u # t => pc'[u] = pc[u] /\ fd'[u] = fd[u]
          /\ pc'[t] = "lock" /\ fd'[t] = i
      BY <1>a, <3>1 DEF TypeOK
    <3>4. LockInv'
      BY <1>a, <3>1, <3>3
    <3>5. \A u \in Threads : fd[u] \in Inodes => content'[fd[u]] = content[fd[u]]
      BY <1>a, <3>1 DEF TypeOK
    <3>6. SavesSerialise'
      BY <1>a, <3>1, <3>3, <3>5, SMTT(30) DEF SavesSerialise, Parses, Updated
    <3> QED
      BY <3>2, <3>4, <3>6 DEF IInv
  <2> QED
    BY <2>1, <2>2
<1>8. ASSUME NEW t \in Threads, Lock(t) PROVE IInv'
  <2>1. /\ pc[t] = "lock" /\ lock[fd[t]] = "none" /\ fd[t] \in Inodes
        /\ UNCHANGED <<meta, content, call, exists>>
    BY <1>a, <1>8 DEF Lock, Locked
  <2>2. CASE exists[t] /\ ~Parses(fd[t])
    BY <1>a, <1>6, <1>8, <2>1, <2>2 DEF Lock, Locked, TypeOK, PCs
  <2>3. CASE ~(exists[t] /\ ~Parses(fd[t]))
    <3> DEFINE d == Updated(t, IF exists[t] THEN content[fd[t]] ELSE Default)
               s == IF exists[t] THEN "truncate" ELSE "write"
    <3>1. /\ lock' = [lock EXCEPT ![fd[t]] = t] /\ data' = [data EXCEPT ![t] = d]
          /\ pc' = [pc EXCEPT ![t] = s] /\ UNCHANGED fd
      BY <1>8, <2>3 DEF Lock, Locked, Goto
    <3>2. (IF exists[t] THEN content[fd[t]] ELSE Default) \in Data
      BY <1>c, <2>3 DEF Parses
    <3>3. d \in Data
      BY <1>a, <3>2, UpdatedTyped
    <3>4. TypeOK'
      BY <1>a, <2>1, <3>1, <3>3 DEF TypeOK, PCs
    <3>5. \A u \in Threads : u # t => pc'[u] = pc[u] /\ data'[u] = data[u]
      BY <1>a, <3>1 DEF TypeOK
    <3>6. pc'[t] = s /\ data'[t] = d
      BY <1>a, <3>1 DEF TypeOK
    <3>7. lock'[fd[t]] = t /\ \A j \in Inodes : j # fd[t] => lock'[j] = lock[j]
      BY <1>a, <2>1, <3>1 DEF TypeOK
    <3>8. LockInv'
      BY <1>a, <1>b, <2>1, <3>1, <3>5, <3>6, <3>7
    <3>9. ASSUME NEW u \in Threads
          PROVE  /\ pc'[u] = "truncate" => /\ Parses(fd[u])'
                                           /\ data'[u] = Updated(u, content[fd[u]])'
                 /\ (pc'[u] = "write" /\ exists'[u]) => content'[fd'[u]] = Empty
      <4>1. CASE u = t
        BY <2>1, <2>3, <3>1, <3>6, <4>1 DEF Parses, Updated
      <4>2. CASE u # t
        BY <1>a, <2>1, <3>1, <3>5, <4>2 DEF SavesSerialise, Parses, Updated
      <4> QED
        BY <4>1, <4>2
    <3> QED
      BY <3>4, <3>8, <3>9 DEF IInv, SavesSerialise
  <2> QED
    BY <2>2, <2>3
<1>9. ASSUME NEW t \in Threads, Truncate(t) PROVE IInv'
  <2>1. /\ pc[t] = "truncate" /\ pc' = [pc EXCEPT ![t] = "write"]
        /\ content' = [content EXCEPT ![fd[t]] = Empty]
        /\ UNCHANGED <<meta, lock, call, exists, fd, data>>
    BY <1>9 DEF Truncate, Goto, local
  <2>2. TypeOK'
    BY <1>a, <2>1 DEF TypeOK, PCs
  <2>3. fd[t] \in Inodes /\ lock[fd[t]] = t
    BY <1>a, <2>1
  <2>4. pc'[t] = "write" /\ content'[fd[t]] = Empty
    BY <1>a, <2>1, <2>3 DEF TypeOK
  <2>5. \A u \in Threads : u # t => pc'[u] = pc[u]
    BY <1>a, <2>1 DEF TypeOK
  <2>6. \A j \in Inodes : j # fd[t] => content'[j] = content[j]
    BY <1>a, <2>1 DEF TypeOK
  <2>7. LockInv'
    BY <1>a, <2>1, <2>3, <2>4, <2>5
  <2>8. SavesSerialise'
    BY <1>a, <2>1, <2>3, <2>4, <2>5, <2>6 DEF SavesSerialise, Parses, Updated
  <2> QED
    BY <2>2, <2>7, <2>8 DEF IInv
<1>10. ASSUME NEW t \in Threads, Write(t) PROVE IInv'
  <2>1. /\ pc[t] = "write" /\ UNCHANGED <<meta, call, exists, data>>
        /\ \E c \in {data[t], Garbled} : content' = [content EXCEPT ![fd[t]] = c]
        /\ Finish(t, "idle")
    BY <1>10, Zenon DEF Write
  <2>2. fd[t] \in Inodes /\ lock[fd[t]] = t
    BY <1>a, <2>1
  <2>3. TypeOK'
    BY <1>a, <2>1 DEF TypeOK, PCs, Finish, Goto
  <2>4. \A u \in Threads : u # t => pc'[u] = pc[u] /\ fd'[u] = fd[u]
    BY <1>a, <2>1 DEF TypeOK, Finish, Goto
  <2>5. pc'[t] = "idle"
    BY <1>a, <2>1 DEF TypeOK, Finish, Goto
  <2>6. \A j \in Inodes : /\ j # fd[t] => content'[j] = content[j]
                          /\ lock[j] # t => lock'[j] = lock[j]
    BY <1>a, <2>1 DEF TypeOK, Finish
  <2>7. LockInv'
    BY <1>a, <2>4, <2>5, <2>6
  <2>8. SavesSerialise'
    BY <1>a, <2>1, <2>2, <2>4, <2>5, <2>6 DEF SavesSerialise, Parses, Updated
  <2> QED
    BY <2>3, <2>7, <2>8 DEF IInv
<1>11. ASSUME NEW t \in Threads, Check(t) PROVE IInv'
  <2>1. /\ pc[t] = "check" /\ data' = [data EXCEPT ![t] = Default]
        /\ \E s \in {"read", "idle"} : pc' = [pc EXCEPT ![t] = s]
        /\ UNCHANGED <<meta, content, lock, call, exists, fd>>
    BY <1>11, Zenon DEF Check, Goto, fs
  <2>2. TypeOK'
    BY <1>a, <1>c, <2>1 DEF TypeOK, PCs
  <2>3. LockInv' /\ SavesSerialise'
    BY <1>a, <2>1 DEF TypeOK, SavesSerialise, Parses, Updated
  <2> QED
    BY <2>2, <2>3 DEF IInv
<1>12. ASSUME NEW t \in Threads, Read(t) PROVE IInv'
  <2>1. CASE meta[PathOf(t)] = 0
    BY <1>a, <1>6, <1>12, <2>1 DEF Read, TypeOK, PCs
  <2>2. CASE meta[PathOf(t)] # 0
    <3>1. /\ pc[t] = "read" /\ pc' = [pc EXCEPT ![t] = "parse"]
          /\ fd' = [fd EXCEPT ![t] = meta[PathOf(t)]]
          /\ UNCHANGED <<meta, content, lock, call, exists, data>>
      BY <1>12, <2>2 DEF Read, Goto
    <3>2. meta[PathOf(t)] \in Inodes
      BY <1>a, <2>2 DEF TypeOK, Calls, PathOf
    <3>3. TypeOK'
      BY <1>a, <3>1, <3>2 DEF TypeOK, PCs
    <3>4. LockInv' /\ SavesSerialise'
      BY <1>a, <3>1, <3>2 DEF TypeOK, SavesSerialise, Parses, Updated
    <3> QED
      BY <3>3, <3>4 DEF IInv
  <2> QED
    BY <2>1, <2>2
<1>13. ASSUME NEW t \in Threads, Parse(t) PROVE IInv'
  <2>1. UNCHANGED <<meta, content, call, exists>>
    BY <1>13 DEF Parse
  <2>2. CASE Parses(fd[t])
    <3>1. data' = [data EXCEPT ![t] = content[fd[t]]] /\ Finish(t, "idle")
      BY <1>13, <2>2 DEF Parse
    <3>2. /\ data' \in [Threads -> Data]
          /\ \A u \in Threads \ {t} : data'[u] = data[u]
      BY <1>a, <2>2, <3>1 DEF TypeOK, Parses
    <3> QED
      BY <1>a, <1>6, <2>1, <3>1, <3>2 DEF TypeOK, PCs
  <2>3. CASE ~Parses(fd[t])
    BY <1>a, <1>6, <1>13, <2>1, <2>3 DEF Parse, TypeOK, PCs
  <2> QED
    BY <2>2, <2>3
<1> QED
  BY <1>1, <1>2, <1>3, <1>4, <1>5, <1>7, <1>8, <1>9, <1>10, <1>11, <1>12, <1>13
     DEF Next, Handle

-----------------------------------------------------------------------------
LEMMA InitIInv == Init => IInv
<1> SUFFICES ASSUME Init PROVE IInv
  OBVIOUS
<1>1. 1 \in Inodes
  BY FirstInode
<1>2. Default \in Data
  BY DEF Default, Both, Data
<1>3. TypeOK
  BY <1>1, <1>2 DEF Init, TypeOK, PCs, Calls, NoCall, Kinds, Paths, Data
<1>4. LockInv /\ SavesSerialise
  BY DEF Init, LockInv, SavesSerialise
<1> QED
  BY <1>3, <1>4 DEF IInv

\* Whatever the number of tracers, files' modes and owners, and calls: between its
\* lock and its truncation a tracer's new data is the file's data with its own
\* update, and between truncation and write nobody else writes.
\* (save_metadata_for_file)
THEOREM SavesAreSerial == Spec => []SavesSerialise
<1>1. Init => IInv
  BY InitIInv
<1>2. IInv /\ [Next]_vars => IInv'
  BY MetadataStep
<1>3. IInv => SavesSerialise
  BY DEF IInv
<1> QED
  BY <1>1, <1>2, <1>3, PTL DEF Spec
-----------------------------------------------------------------------------
(* Calls that overlap with no other one. *)

RestOK ==
    /\ present \in [Paths -> BOOLEAN] /\ metadir \in [Paths -> BOOLEAN]
    /\ ok \in [Threads -> BOOLEAN] /\ alone \in [Threads -> BOOLEAN]
    /\ ref \in [Paths -> Data \cup {Any}]

Modifying == {"chmod", "create", "open", "chown"}

\* What a tracer's step tells of its call; which files are open, and that an inode
\* belongs to one path.
StepsInv ==
    /\ present["file"] => present["dir"]
    /\ meta["dir"] = meta["file"] => meta["dir"] = 0
    /\ \A t \in Threads :
        /\ pc[t] \in {"save", "open", "lock", "truncate", "write"} => call[t].kind \in Modifying
        /\ pc[t] \in {"check", "read", "parse"} => call[t].kind = "stat"
        /\ pc[t] \in {"delete", "rmdir"} => call[t].kind = "remove"
        /\ pc[t] \notin {"lock", "truncate", "write", "parse"} => fd[t] = 0
        /\ \A p \in Paths : (fd[t] # 0 /\ fd[t] = meta[p]) => PathOf(t) = p

\* What a call that nobody has overlapped so far can rely on.
AloneInv ==
    \A t \in Threads : (Busy(t) /\ alone[t]) =>
        /\ \A u \in Threads : Busy(u) => u = t
        /\ (call[t].kind = "remove" /\ pc[t] \in {"rmdir", "kernel"} /\ present[PathOf(t)]) =>
              meta[PathOf(t)] = 0
        /\ pc[t] = "read" => meta[PathOf(t)] # 0
        /\ pc[t] = "parse" => fd[t] = meta[PathOf(t)]

\* The metadata of p is what the guests are entitled to.
Calm(p) ==
    \/ meta[p] = 0 /\ ref[p] = Default
    \/ meta[p] # 0 /\ present[p] /\ content[meta[p]] = ref[p]

\* The call of t may change the metadata of p; it is in the middle of doing so.
Touches(t, p) == Busy(t) /\ call[t].kind # "stat" /\ p \in Tree(PathOf(t))
Amid(t, p) ==
    \/ PathOf(t) = p /\ pc[t] \in {"save", "open", "lock", "truncate", "write"}
    \/ p \in Tree(PathOf(t)) /\ call[t].kind = "remove" /\ pc[t] \in {"rmdir", "kernel"}

\* How far it is.
Half(t, p) ==
    /\ ~present[p] => Calm(p) /\ pc[t] \in {"save", "rmdir", "kernel"}
    /\ (pc[t] \in {"save", "open"} /\ present[p]) =>
          /\ meta[p] = 0 => ref[p] = Updated(t, Default)
          /\ meta[p] # 0 => content[meta[p]] \in Data /\ ref[p] = Updated(t, content[meta[p]])
    /\ pc[t] = "open" => metadir[p] /\ exists[t] = (meta[p] # 0)
    /\ pc[t] \in {"lock", "truncate", "write"} => fd[t] = meta[p]
    /\ (pc[t] = "lock" /\ exists[t]) =>
          content[fd[t]] \in Data /\ ref[p] = Updated(t, content[fd[t]])
    /\ (pc[t] = "lock" /\ ~exists[t]) => content[fd[t]] = Empty /\ ref[p] = Updated(t, Default)
    /\ pc[t] \in {"truncate", "write"} => data[t] = ref[p]
    /\ pc[t] = "write" => content[fd[t]] = Empty

\* As long as ref is not lost, only calls alone touch the metadata, and it is right
\* or on its way.
RefAt(p) ==
    ref[p] # Any =>
        /\ \A t \in Threads : Touches(t, p) => alone[t]
        /\ (\A t \in Threads : ~Amid(t, p)) => Calm(p)
        /\ \A t \in Threads : Amid(t, p) => Half(t, p)

AInv == RestOK /\ StepsInv /\ AloneInv /\ \A p \in Paths : RefAt(p)

\* The paths and what hangs on them.
LEMMA TreeFacts ==
    /\ Paths = {"dir", "file"}
    /\ Tree("dir") = Paths /\ Tree("file") = {"file"}
    /\ \A p \in Paths : p \in Tree(p) /\ Tree(p) \subseteq Paths
BY DEF Paths, Tree

\* One tracer begins a call, and the files stay.
LEMMA EnterFrame ==
    ASSUME TypeOK, NEW t \in Threads, Enter(t)
    PROVE  /\ ~Busy(t) /\ UNCHANGED <<present, meta, content, fd>>
           /\ pc'[t] \in {"kernel", "delete", "rmdir"}
           /\ \A u \in Threads : u # t => pc'[u] = pc[u] /\ call'[u] = call[u]
<1>1. /\ pc[t] = "idle" /\ UNCHANGED <<present, meta, content, fd>>
      /\ \E c : call' = [call EXCEPT ![t] = c]
      /\ \E s \in {"kernel", "delete", "rmdir"} : pc' = [pc EXCEPT ![t] = s]
  BY Zenon DEF Enter, Goto, fs, local
<1> QED
  BY <1>1 DEF Busy, TypeOK

\* One tracer moves, and its call stays.
LEMMA HandleFrame ==
    ASSUME TypeOK, NEW t \in Threads, Handle(t)
    PROVE  /\ Busy(t) /\ UNCHANGED <<call, alone>>
           /\ \A u \in Threads : u # t => /\ pc'[u] = pc[u] /\ fd'[u] = fd[u]
                                          /\ (Busy(u)' <=> Busy(u))
<1>1. CASE Delete(t) \/ Rmdir(t) \/ Kernel(t)
  BY <1>1 DEF Delete, Rmdir, Kernel, Goto, Busy, TypeOK, local
<1>2. CASE Save(t) \/ Open(t)
  BY <1>2 DEF Save, Open, Goto, Finish, Busy, TypeOK
<1>3. CASE Lock(t) \/ Truncate(t) \/ Write(t)
  BY <1>3 DEF Lock, Locked, Truncate, Write, Goto, Finish, Busy, TypeOK, local
<1>4. CASE Check(t) \/ Read(t) \/ Parse(t)
  BY <1>4 DEF Check, Read, Parse, Goto, Finish, Busy, TypeOK
<1> QED
  BY <1>1, <1>2, <1>3, <1>4 DEF Handle

LEMMA RestStep ==
    ASSUME IInv, AInv, [Next]_vars
    PROVE  RestOK'
<1>a. TypeOK /\ RestOK
  BY DEF IInv, AInv
<1>1. CASE UNCHANGED vars
  BY <1>a, <1>1 DEF vars, fs, RestOK
<1>2. ASSUME NEW t \in Threads, Enter(t) PROVE RestOK'
  BY <1>a, <1>2, Zenon DEF Enter, RestOK, fs
<1>3. ASSUME NEW t \in Threads, Kernel(t) PROVE RestOK'
  <2>1. PathOf(t) \in Paths /\ Succeeds(t) \in BOOLEAN
    BY <1>a, Zenon DEF TypeOK, RestOK, Calls, PathOf, Succeeds, Paths
  <2>2. ok' \in [Threads -> BOOLEAN] /\ present' \in [Paths -> BOOLEAN]
    BY <1>a, <1>3, <2>1 DEF Kernel, RestOK
  <2>3. ref[PathOf(t)] \in Data => Updated(t, ref[PathOf(t)]) \in Data
    BY <1>a, UpdatedTyped
  <2>4. Default \in Data
    BY DEF Default, Both, Data
  <2>5. ref' \in [Paths -> Data \cup {Any}]
    BY <1>a, <1>3, <2>1, <2>3, <2>4 DEF Kernel, NewRef, RestOK
  <2> QED
    BY <1>a, <1>3, <2>2, <2>5 DEF Kernel, RestOK, fs
<1>4. ASSUME NEW t \in Threads, Handle(t), ~Kernel(t) PROVE RestOK'
  <2>1. UNCHANGED <<present, ok, alone, ref>>
    BY <1>4, Zenon DEF Handle, Delete, Rmdir, Save, Open, Lock, Locked, Truncate, Write,
       Check, Read, Parse
  <2>2. metadir' \in [Paths -> BOOLEAN]
    BY <1>a, <1>4, Zenon DEF Handle, Delete, Rmdir, Save, Open, Lock, Locked, Truncate, Write,
       Check, Read, Parse, fs, RestOK
  <2> QED
    BY <1>a, <2>1, <2>2 DEF RestOK
<1> QED
  BY <1>1, <1>2, <1>3, <1>4 DEF Next, Over


LEMMA StepsStep ==
    ASSUME IInv, AInv, [Next]_vars
    PROVE  StepsInv'
<1>a. TypeOK /\ LockInv /\ StepsInv /\ RestOK
  BY DEF IInv, AInv
<1>b. 0 \notin Inodes
  BY DEF Inodes
<1>1. CASE UNCHANGED vars
  BY <1>a, <1>1, Zenon DEF vars, fs, local, StepsInv, PathOf
<1>2. ASSUME NEW t \in Threads, Enter(t) PROVE StepsInv'
  <2>1. /\ pc[t] = "idle" /\ UNCHANGED <<present, meta, fd>>
        /\ \E c \in Calls, s \in {"kernel", "delete", "rmdir"} :
              /\ call' = [call EXCEPT ![t] = c] /\ pc' = [pc EXCEPT ![t] = s]
              /\ s # "kernel" => c.kind = "remove"
    BY <1>2, Zenon DEF Enter, Goto, fs, local, Calls
  <2>2. fd[t] = 0
    BY <1>a, <2>1 DEF StepsInv
  <2> QED
    BY <1>a, <2>1, <2>2 DEF StepsInv, TypeOK, PathOf
<1>3. ASSUME NEW t \in Threads, Handle(t) PROVE StepsInv'
  <2> DEFINE P == PathOf(t)
  <2>a. /\ Busy(t) /\ UNCHANGED call
        /\ \A u \in Threads : u # t => pc'[u] = pc[u] /\ fd'[u] = fd[u]
    BY <1>a, <1>3, HandleFrame
  <2>b. P \in Paths
    BY <1>a DEF TypeOK, Calls, PathOf
  <2>1. CASE Kernel(t)
    <3>1. pc[t] = "kernel" /\ UNCHANGED <<meta, fd>>
      BY <2>1 DEF Kernel, fs, local
    <3>2. /\ pc'[t] \in {"check", "idle", "save"}
          /\ pc'[t] = "check" => call[t].kind = "stat"
          /\ pc'[t] = "save" => call[t].kind \in Modifying
      BY <1>a, <2>1 DEF Kernel, Goto, TypeOK, Calls, Kinds, Modifying
    <3>3. present'["file"] => present'["dir"]
      <4>1. present' = IF Succeeds(t) THEN [present EXCEPT ![P] = call[t].kind # "remove"]
                                      ELSE present
        BY <1>a, <2>1 DEF Kernel, RestOK
      <4>2. Succeeds(t) /\ P = "file" /\ call[t].kind # "remove" => present["dir"]
        BY <1>a DEF Succeeds, StepsInv, RestOK
      <4>3. Succeeds(t) /\ P = "dir" /\ call[t].kind = "remove" => ~present["file"]
        BY <1>a DEF Succeeds, RestOK
      <4> QED
        BY <1>a, <2>b, <4>1, <4>2, <4>3 DEF StepsInv, RestOK, Paths
    <3> QED
      BY <1>a, <2>a, <3>1, <3>2, <3>3 DEF StepsInv, PathOf
  <2>2. CASE Delete(t) \/ Rmdir(t)
    <3>1. /\ pc[t] \in {"delete", "rmdir"} /\ pc'[t] \in {"rmdir", "kernel"}
          /\ UNCHANGED <<present, fd>> /\ \A p \in Paths : meta'[p] \in {0, meta[p]}
      BY <1>a, <2>2, <2>b DEF Delete, Rmdir, Goto, local, TypeOK
    <3>2. meta'["dir"] = meta'["file"] => meta'["dir"] = 0
      BY <1>a, <3>1 DEF StepsInv, Paths
    <3> QED
      BY <1>a, <2>a, <3>1, <3>2 DEF StepsInv, PathOf
  <2>3. CASE Open(t) /\ metadir[P]
    <3>1. PICK i \in Inodes :
              /\ meta' = [meta EXCEPT ![P] = i] /\ fd' = [fd EXCEPT ![t] = i]
              /\ pc' = [pc EXCEPT ![t] = "lock"] /\ UNCHANGED present
              /\ meta[P] = i \/ ((\A p \in Paths : meta[p] # i) /\ \A u \in Threads : fd[u] # i)
      BY <1>a, <2>3, OpenInode
    <3>2. /\ pc'[t] = "lock" /\ fd'[t] = i /\ meta'[P] = i
          /\ \A p \in Paths : p # P => meta'[p] = meta[p]
          /\ pc[t] = "open"
      BY <1>a, <2>3, <2>b, <3>1 DEF TypeOK, Open
    <3>3. meta'["dir"] = meta'["file"] => meta'["dir"] = 0
      BY <1>a, <1>b, <2>b, <3>1, <3>2 DEF StepsInv, Paths
    <3>4. \A u \in Threads, p \in Paths : (fd'[u] # 0 /\ fd'[u] = meta'[p]) => PathOf(u) = p
      <4>1. ASSUME NEW p \in Paths, fd'[t] = meta'[p] PROVE p = P
        BY <1>a, <1>b, <2>b, <3>1, <3>2, <4>1 DEF StepsInv, Paths
      <4>2. ASSUME NEW u \in Threads, u # t, NEW p \in Paths, fd'[u] # 0, fd'[u] = meta'[p]
            PROVE  PathOf(u) = p
        BY <1>a, <2>a, <2>b, <3>1, <3>2, <4>2 DEF StepsInv
      <4> QED
        BY <4>1, <4>2
    <3> QED
      BY <1>a, <2>a, <3>1, <3>2, <3>3, <3>4 DEF StepsInv, PathOf
  <2>4. CASE Read(t) /\ meta[P] # 0
    <3>1. /\ pc[t] = "read" /\ pc'[t] = "parse" /\ fd'[t] = meta[P]
          /\ UNCHANGED <<present, meta>>
      BY <1>a, <2>4 DEF Read, Goto, TypeOK
    <3>2. \A p \in Paths : fd'[t] = meta[p] => p = P
      BY <1>a, <2>4, <2>b, <3>1, Zenon DEF StepsInv, Paths
    <3> QED
      BY <1>a, <2>a, <3>1, <3>2 DEF StepsInv, PathOf
  <2>5. ASSUME UNCHANGED <<present, meta>>, fd'[t] \in {0, fd[t]},
               \/ pc'[t] \in {"idle", "failed"} /\ fd'[t] = 0
               \/ <<pc[t], pc'[t]>> \in {<<"save", "idle">>, <<"save", "open">>,
                     <<"lock", "truncate">>, <<"lock", "write">>, <<"truncate", "write">>,
                     <<"check", "read">>, <<"check", "idle">>}
        PROVE  StepsInv'
    <3>1. /\ pc'[t] \in {"open", "truncate", "write"} => call[t].kind \in Modifying
          /\ pc'[t] = "read" => call[t].kind = "stat"
          /\ pc'[t] \in {"open", "truncate", "write", "read", "idle", "failed"}
          /\ pc'[t] \in {"open", "read", "idle", "failed"} => fd'[t] = 0
      BY <1>a, <2>5 DEF StepsInv
    <3> QED
      BY <1>a, <2>a, <2>5, <3>1 DEF StepsInv, PathOf
  <2>6. CASE Save(t) \/ Check(t) \/ Truncate(t)
    <3>1. /\ UNCHANGED <<present, meta, fd>>
          /\ <<pc[t], pc'[t]>> \in {<<"save", "idle">>, <<"save", "open">>,
                <<"truncate", "write">>, <<"check", "read">>, <<"check", "idle">>}
      BY <1>a, <2>6 DEF Save, Check, Truncate, Goto, TypeOK, fs, local
    <3> QED
      BY <2>5, <3>1
  <2>7. CASE \/ (Open(t) /\ ~metadir[P]) \/ (Lock(t) /\ Finish(t, "failed"))
             \/ Write(t) \/ (Read(t) /\ meta[P] = 0) \/ Parse(t)
    <3>1. UNCHANGED <<present, meta>> /\ (Finish(t, "idle") \/ Finish(t, "failed"))
      BY <2>7, Zenon DEF Open, Lock, Locked, Write, Read, Parse
    <3>2. pc'[t] \in {"idle", "failed"} /\ fd'[t] = 0
      BY <1>a, <3>1 DEF Finish, Goto, TypeOK
    <3> QED
      BY <2>5, <3>1, <3>2
  <2>8. CASE Lock(t) /\ ~Finish(t, "failed")
    <3>1. /\ UNCHANGED <<present, meta, fd>>
          /\ <<pc[t], pc'[t]>> \in {<<"lock", "truncate">>, <<"lock", "write">>}
      BY <1>a, <2>8 DEF Lock, Locked, Goto, TypeOK
    <3> QED
      BY <2>5, <3>1
  <2> QED
    BY <1>3, <2>1, <2>2, <2>3, <2>4, <2>6, <2>7, <2>8 DEF Handle
<1> QED
  BY <1>1, <1>2, <1>3 DEF Next, Over

LEMMA AloneStep ==
    ASSUME IInv, AInv, [Next]_vars
    PROVE  AloneInv'
<1>a. TypeOK /\ StepsInv /\ RestOK /\ AloneInv
  BY DEF IInv, AInv
<1>1. CASE UNCHANGED vars
  BY <1>a, <1>1, Zenon DEF vars, fs, local, AloneInv, Busy, PathOf
<1>2. ASSUME NEW t \in Threads, Enter(t) PROVE AloneInv'
  <2> DEFINE others == {u \in Threads \ {t} : Busy(u)}
  <2>1. /\ UNCHANGED <<present, meta, fd>> /\ ~Busy(t)
        /\ \A u \in Threads : u # t => pc'[u] = pc[u] /\ call'[u] = call[u]
    BY <1>a, <1>2, EnterFrame
  <2>2. \A u \in Threads : alone'[u] => others = {} \/ (u # t /\ u \notin others)
    BY <1>2, Zenon DEF Enter
  <2>3. \A u \in Threads : alone'[u] /\ Busy(u)' => others = {} /\ u = t
    BY <2>1, <2>2 DEF Busy
  <2>4. /\ pc'[t] \in {"kernel", "delete", "rmdir"}
        /\ call'[t].kind = "remove" /\ present[call'[t].path] /\ pc'[t] # "delete" =>
              meta[call'[t].path] = 0
    <3>1. PICK k \in Kinds, p \in Paths :
              /\ \E m \in IF k \in {"chmod", "create", "open"} THEN Modes ELSE {"none"},
                    o \in IF k = "chown" THEN Owners ELSE {"none"} :
                    call' = [call EXCEPT ![t] =
                                [kind |-> k, path |-> p, mode |-> m, owner |-> o]]
              /\ pc' = [pc EXCEPT ![t] =
                           IF k # "remove" \/ (present[p] /\ meta[p] = 0) THEN "kernel"
                           ELSE IF present[p] THEN "delete" ELSE "rmdir"]
      BY <1>2, Zenon DEF Enter, Goto, HasMetadataPath
    <3>2. call'[t].kind = k /\ call'[t].path = p
      BY <1>a, <3>1 DEF TypeOK
    <3> QED
      BY <1>a, <3>1, <3>2 DEF TypeOK
  <2>5. others = {} => \A u \in Threads : Busy(u)' => u = t
    BY <2>1 DEF Busy
  <2> QED
    BY <2>1, <2>3, <2>4, <2>5 DEF AloneInv, PathOf
<1>3. ASSUME NEW t \in Threads, Handle(t) PROVE AloneInv'
  <2> DEFINE P == PathOf(t)
  <2>a. /\ Busy(t) /\ UNCHANGED <<call, alone>>
        /\ \A u \in Threads : u # t => (Busy(u)' <=> Busy(u))
    BY <1>a, <1>3, HandleFrame
  <2>b. P \in Paths
    BY <1>a DEF TypeOK, Calls, PathOf
  <2>c. /\ pc'[t] = "read" => Check(t)
        /\ pc'[t] = "parse" => Read(t)
        /\ pc'[t] \in {"rmdir", "kernel"} => Delete(t) \/ Rmdir(t)
    <3>1. CASE Delete(t) \/ Rmdir(t) \/ Kernel(t)
      BY <1>a, <3>1 DEF Delete, Rmdir, Kernel, Goto, TypeOK
    <3>2. CASE Save(t) \/ Open(t) \/ Lock(t) \/ Truncate(t) \/ Write(t)
      BY <1>a, <3>2 DEF Save, Open, Lock, Locked, Truncate, Write, Goto, Finish, TypeOK
    <3>3. CASE Check(t) \/ Read(t) \/ Parse(t)
      BY <1>a, <3>3 DEF Check, Read, Parse, Goto, Finish, TypeOK
    <3> QED
      BY <1>3, <3>1, <3>2, <3>3 DEF Handle
  <2>1. ASSUME NEW u \in Threads, Busy(u)', alone'[u] PROVE u = t /\ alone[t]
    BY <1>a, <2>a, <2>1 DEF AloneInv
  <2>2. alone[t] => \A u \in Threads : Busy(u)' => u = t
    BY <1>a, <2>a DEF AloneInv
  <2>3. (alone[t] /\ pc'[t] \in {"rmdir", "kernel"} /\ present'[P]) => meta'[P] = 0
    <3>1. CASE Delete(t)
      BY <1>a, <2>b, <3>1 DEF Delete, TypeOK
    <3>2. CASE Rmdir(t)
      <4>1. pc[t] = "rmdir" /\ call[t].kind = "remove" /\ present' = present
        BY <1>a, <3>2 DEF Rmdir, StepsInv
      <4>2. alone[t] /\ present[P] => meta[P] = 0
        BY <1>a, <2>a, <4>1 DEF AloneInv
      <4> QED
        BY <2>b, <3>2, <4>1, <4>2 DEF Rmdir
    <3> QED
      BY <2>c, <3>1, <3>2
  <2>4. pc'[t] = "read" => meta'[P] # 0
    BY <1>a, <2>c DEF Check, Goto, TypeOK, fs
  <2>5. pc'[t] = "parse" => fd'[t] = meta'[P]
    BY <1>a, <2>c DEF Read, Goto, Finish, TypeOK
  <2> QED
    BY <2>a, <2>1, <2>2, <2>3, <2>4, <2>5 DEF AloneInv, PathOf
<1> QED
  BY <1>1, <1>2, <1>3 DEF Next, Over


\* Where nothing of a path changes, its metadata stays right.
LEMMA CalmStays ==
    ASSUME NEW p \in Paths, Calm(p), present'[p] = present[p], meta'[p] = meta[p],
           ref'[p] = ref[p], meta[p] # 0 => content'[meta[p]] = content[meta[p]]
    PROVE  Calm(p)'
BY DEF Calm

\* While a handler moves on a path with a known ref, no other one is amid a change of
\* it; so only the metadata, and how far this one is, remain to be shown.
LEMMA RefAtMover ==
    ASSUME TypeOK, AInv, NEW t \in Threads, Handle(t), NEW p \in Paths, ref[p] # Any
    PROVE  /\ Touches(t, p) => alone[t]
           /\ ~Amid(t, p) => Calm(p)
           /\ Amid(t, p) => Half(t, p)
           /\ ((~Amid(t, p)' => Calm(p)') /\ (Amid(t, p)' => Half(t, p)')) => RefAt(p)'
<1>a. RefAt(p) /\ AloneInv /\ StepsInv
  BY DEF AInv
<1>b. /\ Busy(t) /\ UNCHANGED <<call, alone>>
      /\ \A u \in Threads : u # t => pc'[u] = pc[u] /\ (Busy(u)' <=> Busy(u))
  BY HandleFrame
<1>1. \A u \in Threads : u # t => ~Touches(u, p)
  BY <1>a, <1>b DEF RefAt, AloneInv, Touches
<1>2. \A u \in Threads : Amid(u, p) => Touches(u, p)
  BY <1>a, TreeFacts DEF Amid, Touches, StepsInv, Busy, Modifying
<1>3. \A u \in Threads : u # t => ~Amid(u, p) /\ ~Amid(u, p)' /\ ~Touches(u, p)'
  BY <1>b, <1>1, <1>2 DEF Amid, Touches, PathOf
<1>4. Touches(t, p) => alone[t]
  BY <1>a DEF RefAt
<1>5. Touches(t, p)' => alone'[t]
  BY <1>b, <1>4 DEF Touches, PathOf
<1> QED
  BY <1>a, <1>3, <1>4, <1>5 DEF RefAt

\* The kernel's answer and the new ref.
LEMMA KernelRef ==
    ASSUME TypeOK, AInv, NEW t \in Threads, Kernel(t), NEW p \in Paths, ref'[p] # Any
    PROVE  RefAt(p)'
<1> DEFINE P == PathOf(t)
<1>a. RestOK /\ StepsInv /\ AloneInv
  BY DEF AInv
<1>b. Handle(t)
  BY DEF Handle
<1>c. P \in Paths /\ p \in {"dir", "file"} /\ P \in Tree(P)
  BY TreeFacts DEF TypeOK, Calls, PathOf
<1>d. /\ Busy(t) /\ UNCHANGED <<call, alone>>
      /\ \A u \in Threads : u # t => (Busy(u)' <=> Busy(u))
  BY <1>b, HandleFrame
<1>e. /\ pc[t] = "kernel" /\ UNCHANGED <<meta, content>> /\ ok'[t] = Succeeds(t)
      /\ present' = IF Succeeds(t) THEN [present EXCEPT ![P] = call[t].kind # "remove"]
                                   ELSE present
      /\ ref' = NewRef(t)
  BY <1>a DEF Kernel, RestOK, fs
<1>1. CASE call[t].kind = "stat"
  <2>1. ref' = ref /\ pc'[t] \in {"check", "idle"}
    BY <1>1, <1>e DEF Kernel, NewRef, Goto, TypeOK
  <2>2. present' = present
    BY <1>1, <1>a, <1>c, <1>e DEF Succeeds, RestOK
  <2>3. ~Amid(t, p) /\ ~Amid(t, p)'
    BY <1>1, <1>d, <1>e, <2>1 DEF Amid
  <2> QED
    BY <1>b, <1>e, <2>1, <2>2, <2>3, RefAtMover, CalmStays, Zenon
<1>2. CASE call[t].kind = "remove"
  <2>1. pc'[t] = "idle"
    BY <1>2 DEF Kernel, Goto, TypeOK
  <2>2. ~Amid(t, p)'
    BY <2>1 DEF Amid
  <2>3. CASE p \notin Tree(P)
    <3>1. p # P /\ ref'[p] = ref[p]
      BY <1>c, <1>e, <2>3 DEF NewRef
    <3>2. present'[p] = present[p] /\ ~Amid(t, p)
      BY <1>a, <1>e, <2>3, <3>1, TreeFacts DEF Amid, RestOK
    <3> QED
      BY <1>b, <1>e, <2>2, <3>1, <3>2, RefAtMover, CalmStays, Zenon
  <2>4. CASE p \in Tree(P) /\ ~alone[t]
    <3>1. ref' = ref /\ Touches(t, p)
      BY <1>2, <1>d, <1>e, <2>4 DEF NewRef, Touches
    <3> QED
      BY <1>b, <2>4, <3>1, RefAtMover
  <2>5. CASE p \in Tree(P) /\ alone[t] /\ ~Succeeds(t)
    <3>1. ~present[P] /\ ref' = ref /\ present' = present
      BY <1>2, <1>e, <2>5 DEF NewRef
    <3>2. ~present[p]
      BY <1>a, <1>c, <2>5, <3>1, TreeFacts DEF StepsInv
    <3>3. Amid(t, p)
      BY <1>2, <1>e, <2>5 DEF Amid
    <3> QED
      BY <1>b, <1>e, <2>2, <3>1, <3>2, <3>3, RefAtMover, CalmStays, Zenon DEF Half
  <2>6. CASE p \in Tree(P) /\ alone[t] /\ Succeeds(t)
    <3>1. present[P] /\ (P = "dir" => ~present["file"])
      BY <1>2, <1>a, <1>c, <2>6, TreeFacts DEF Succeeds, RestOK
    <3>2. meta[P] = 0 /\ \A u \in Threads : Busy(u) => u = t
      BY <1>2, <1>a, <1>d, <1>e, <2>6, <3>1, Zenon DEF AloneInv
    <3>3. ref' = [ref EXCEPT ![P] = Default]
      BY <1>2, <1>e, <2>6, Zenon DEF NewRef
    <3>4. CASE p = P
      <4>1. Calm(p)'
        BY <1>a, <1>c, <1>e, <3>2, <3>3, <3>4 DEF Calm, RestOK
      <4>2. \A u \in Threads : ~Busy(u)'
        BY <1>d, <2>1, <3>2 DEF Busy
      <4>3. \A u \in Threads : ~Touches(u, p)' /\ ~Amid(u, p)'
        BY <4>2 DEF Touches, Amid, Busy
      <4> QED
        BY <4>1, <4>3 DEF RefAt
    <3>5. CASE p # P
      <4>1. ref'[p] = ref[p] /\ present'[p] = present[p]
        BY <1>a, <1>e, <3>3, <3>5 DEF RestOK
      <4>2. ~present[p] /\ Amid(t, p)
        BY <1>2, <1>c, <1>e, <2>6, <3>1, <3>5, TreeFacts DEF Amid
      <4> QED
        BY <1>b, <1>e, <2>2, <4>1, <4>2, RefAtMover, CalmStays, Zenon DEF Half
    <3> QED
      BY <3>4, <3>5
  <2> QED
    BY <2>3, <2>4, <2>5, <2>6
<1>3. CASE call[t].kind \notin {"stat", "remove"}
  <2>1. pc'[t] = "save" /\ ~Amid(t, p)
    BY <1>3, <1>e DEF Kernel, Goto, TypeOK, Amid
  <2>2. CASE p # P
    <3>1. ref'[p] = ref[p] /\ present'[p] = present[p]
      BY <1>3, <1>a, <1>c, <1>e, <2>2 DEF NewRef, RestOK
    <3>2. ~Amid(t, p)'
      BY <1>3, <1>d, <2>1, <2>2 DEF Amid, PathOf
    <3> QED
      BY <1>b, <1>e, <2>1, <3>1, <3>2, RefAtMover, CalmStays, Zenon
  <2>3. CASE p = P
    <3>1. ref[p] # Any
      BY <1>3, <1>a, <1>c, <1>e, <2>3 DEF NewRef, RestOK
    <3>2. alone[t] /\ Calm(p)
      BY <1>3, <1>b, <1>c, <1>d, <2>1, <2>3, <3>1, RefAtMover, Zenon DEF Touches
    <3>3. ref[p] \in Data
      BY <1>a, <3>1 DEF RestOK
    <3>4. CASE ~Succeeds(t)
      <4>1. ~present[p] /\ ref' = ref /\ present' = present
        BY <1>3, <1>c, <1>e, <2>3, <3>2, <3>4 DEF NewRef
      <4>2. Calm(p)'
        BY <1>e, <3>2, <4>1, CalmStays
      <4>3. Half(t, p)'
        BY <2>1, <4>1, <4>2 DEF Half
      <4> QED
        BY <1>b, <3>1, <4>2, <4>3, RefAtMover
    <3>5. CASE Succeeds(t)
      <4>1. ref'[p] = Updated(t, ref[p])
        BY <1>3, <1>a, <1>c, <1>e, <2>3, <3>1, <3>2, <3>5 DEF NewRef, RestOK
      <4>2. present'[p]
        BY <1>3, <1>a, <1>c, <1>e, <2>3, <3>5, Zenon DEF RestOK
      <4>3. /\ meta[p] = 0 => ref[p] = Default
            /\ meta[p] # 0 => content[meta[p]] = ref[p]
        BY <3>2 DEF Calm
      <4>4. Half(t, p)'
        BY <1>d, <1>e, <2>1, <3>3, <4>1, <4>2, <4>3 DEF Half, Updated
      <4>5. Amid(t, p)'
        BY <1>d, <2>1, <2>3, Zenon DEF Amid, PathOf
      <4> QED
        BY <1>b, <3>1, <4>4, <4>5, RefAtMover, Zenon
    <3> QED
      BY <3>4, <3>5
  <2> QED
    BY <2>2, <2>3
<1> QED
  BY <1>1, <1>2, <1>3


\* The other steps of a handler.
LEMMA HandleRef ==
    ASSUME IInv, AInv, NEW t \in Threads, Handle(t), ~Kernel(t), NEW p \in Paths,
           ref'[p] # Any
    PROVE  RefAt(p)'
<1> DEFINE P == PathOf(t)
<1>a. TypeOK /\ LockInv /\ RestOK /\ StepsInv
  BY DEF IInv, AInv
<1>b. 0 \notin Inodes /\ P \in Paths /\ P \in Tree(P)
  BY <1>a, TreeFacts DEF Inodes, TypeOK, Calls, PathOf
<1>c. /\ Busy(t) /\ UNCHANGED <<call, alone>>
      /\ \A u \in Threads : u # t => pc'[u] = pc[u] /\ (Busy(u)' <=> Busy(u))
  BY <1>a, HandleFrame
<1>d. UNCHANGED <<present, ref>> /\ PathOf(t)' = P
  BY <1>c, Zenon DEF Handle, Delete, Rmdir, Save, Open, Lock, Locked, Truncate, Write, Check,
     Read, Parse, PathOf
<1>e. /\ ref[p] # Any /\ (~Amid(t, p) => Calm(p)) /\ (Amid(t, p) => Half(t, p))
      /\ ((~Amid(t, p)' => Calm(p)') /\ (Amid(t, p)' => Half(t, p)')) => RefAt(p)'
  BY <1>a, <1>d, RefAtMover
<1>1. ASSUME ~Amid(t, p), ~Amid(t, p)', meta'[p] = meta[p],
             meta[p] # 0 => content'[meta[p]] = content[meta[p]]
      PROVE  RefAt(p)'
  BY <1>d, <1>e, <1>1, CalmStays, Zenon
<1>2. CASE Delete(t) \/ Rmdir(t)
  <2>1. /\ pc[t] \in {"delete", "rmdir"} /\ call[t].kind = "remove"
        /\ pc'[t] \in {"rmdir", "kernel"} /\ UNCHANGED content
        /\ meta'[p] \in {0, meta[p]} /\ (p \notin Tree(P) => meta'[p] = meta[p])
    BY <1>2, <1>a, <1>b, TreeFacts DEF Delete, Rmdir, Goto, StepsInv, TypeOK
  <2>2. CASE p \notin Tree(P)
    <3>1. ~Amid(t, p) /\ ~Amid(t, p)'
      BY <1>b, <1>d, <2>1, <2>2, Zenon DEF Amid
    <3> QED
      BY <1>1, <2>1, <2>2, <3>1, Zenon
  <2>3. CASE p \in Tree(P)
    <3>1. ~present[p] => Calm(p)
      BY <1>e, Zenon DEF Half
    <3>2. ~present[p] => Calm(p)'
      BY <1>d, <2>1, <3>1 DEF Calm
    <3>3. Half(t, p)'
      BY <1>d, <2>1, <3>2, Zenon DEF Half
    <3>4. Amid(t, p)'
      BY <1>c, <1>d, <2>1, <2>3 DEF Amid
    <3> QED
      BY <1>e, <3>3, <3>4, Zenon
  <2> QED
    BY <2>2, <2>3
<1>3. CASE Check(t) \/ Read(t) \/ Parse(t)
  <2>1. /\ pc[t] \in {"check", "read", "parse"} /\ UNCHANGED <<meta, content>>
        /\ pc'[t] \in {"read", "parse", "idle", "failed"}
    BY <1>3, <1>a, Zenon DEF Check, Read, Parse, Goto, Finish, TypeOK, fs
  <2>2. ~Amid(t, p) /\ ~Amid(t, p)'
    BY <2>1 DEF Amid
  <2> QED
    BY <1>1, <2>1, <2>2
<1>4. CASE p # P /\ (Save(t) \/ Open(t) \/ Lock(t) \/ Truncate(t) \/ Write(t))
  <2>1. /\ pc[t] \in {"save", "open", "lock", "truncate", "write"}
        /\ pc'[t] \notin {"rmdir", "kernel"}
    BY <1>4, <1>a, Zenon DEF Save, Open, Lock, Locked, Truncate, Write, Goto, Finish, TypeOK
  <2>2. ~Amid(t, p) /\ ~Amid(t, p)'
    BY <1>4, <1>a, <1>d, <2>1, Zenon DEF Amid, StepsInv, Modifying
  <2>3. CASE Open(t) /\ metadir[P]
    <3>1. PICK i \in Inodes :
              /\ meta' = [meta EXCEPT ![P] = i]
              /\ \/ content' = content
                 \/ content' = [content EXCEPT ![i] = Empty] /\ \A q \in Paths : meta[q] # i
      BY <1>a, <2>3, OpenInode, Zenon
    <3> QED
      BY <1>1, <1>4, <1>a, <2>2, <3>1 DEF TypeOK
  <2>4. CASE Truncate(t) \/ Write(t)
    <3>1. UNCHANGED meta /\ \E c : content' = [content EXCEPT ![fd[t]] = c]
      BY <2>4, Zenon DEF Truncate, Write
    <3>2. fd[t] \in Inodes
      BY <1>a, <2>4, Zenon DEF LockInv, Truncate, Write
    <3>3. meta[p] # 0 => meta[p] # fd[t]
      BY <1>4, <1>a, <1>b, <3>2 DEF StepsInv
    <3> QED
      BY <1>1, <1>a, <2>2, <3>1, <3>3 DEF TypeOK
  <2>5. CASE UNCHANGED <<meta, content>>
    BY <1>1, <2>2, <2>5
  <2> QED
    BY <1>4, <2>3, <2>4, <2>5 DEF Save, Open, Lock, Locked
<1>5. CASE p = P /\ Save(t)
  <2>1. /\ pc[t] = "save" /\ UNCHANGED <<meta, content>> /\ Half(t, p)
        /\ pc'[t] = IF present[p] THEN "open" ELSE "idle"
    BY <1>5, <1>a, <1>e, Zenon DEF Save, HasMetadataPath, Goto, Amid, TypeOK
  <2>2. CASE ~present[p]
    BY <1>d, <1>e, <2>1, <2>2, CalmStays, Zenon DEF Half, Amid
  <2>3. CASE present[p]
    <3>1. metadir'[p] /\ exists'[t] = (meta[p] # 0)
      BY <1>5, <1>a, <1>b, <2>3, Zenon DEF Save, HasMetadataPath, TypeOK
    <3>2. Half(t, p)'
      BY <1>c, <1>d, <2>1, <2>3, <3>1 DEF Half, Updated
    <3> QED
      BY <1>d, <1>e, <1>5, <2>1, <2>3, <3>2, Zenon DEF Amid
  <2> QED
    BY <2>2, <2>3
<1>6. CASE p = P /\ Open(t)
  <2>1. /\ pc[t] = "open" /\ Half(t, p)
    BY <1>6, <1>e DEF Open, Amid
  <2>2. /\ present[p] /\ metadir[p] /\ exists[t] = (meta[p] # 0)
        /\ meta[p] = 0 => ref[p] = Updated(t, Default)
        /\ meta[p] # 0 => content[meta[p]] \in Data /\ ref[p] = Updated(t, content[meta[p]])
    BY <2>1, Zenon DEF Half
  <2>3. PICK i \in Inodes :
            /\ meta' = [meta EXCEPT ![P] = i] /\ fd' = [fd EXCEPT ![t] = i]
            /\ pc' = [pc EXCEPT ![t] = "lock"] /\ UNCHANGED exists
            /\ \/ meta[P] = i /\ content' = content
               \/ meta[P] = 0 /\ content' = [content EXCEPT ![i] = Empty]
    BY <1>6, <1>a, <2>2, OpenInode, Zenon
  <2>4. pc'[t] = "lock" /\ fd'[t] = i /\ meta'[p] = i /\ exists'[t] = (meta[p] # 0)
    BY <1>6, <1>a, <2>2, <2>3, Zenon DEF TypeOK
  <2>5. IF meta[p] # 0 THEN content'[i] \in Data /\ ref[p] = Updated(t, content'[i])
                       ELSE content'[i] = Empty /\ ref[p] = Updated(t, Default)
    BY <1>6, <1>a, <1>b, <2>2, <2>3, Zenon DEF TypeOK
  <2>6. Half(t, p)'
    BY <1>c, <1>d, <2>2, <2>4, <2>5, Zenon DEF Half, Updated
  <2> QED
    BY <1>d, <1>e, <1>6, <2>4, <2>6, Zenon DEF Amid
<1>7. CASE p = P /\ Lock(t)
  <2>1. pc[t] = "lock" /\ Half(t, p) /\ UNCHANGED <<meta, content, exists>>
    BY <1>7, <1>e, Zenon DEF Lock, Locked, Amid
  <2>2. /\ present[p] /\ fd[t] = meta[p]
        /\ exists[t] => content[fd[t]] \in Data /\ ref[p] = Updated(t, content[fd[t]])
        /\ ~exists[t] => content[fd[t]] = Empty /\ ref[p] = Updated(t, Default)
    BY <2>1, Zenon DEF Half
  <2>3. /\ data' = [data EXCEPT ![t] = ref[p]] /\ UNCHANGED fd
        /\ pc' = [pc EXCEPT ![t] = IF exists[t] THEN "truncate" ELSE "write"]
    BY <1>7, <2>2, Zenon DEF Lock, Locked, Goto, Parses
  <2>4. data'[t] = ref[p] /\ pc'[t] = IF exists[t] THEN "truncate" ELSE "write"
    BY <1>a, <2>3 DEF TypeOK
  <2>5. CASE exists[t]
    <3>1. pc'[t] = "truncate"
      BY <2>4, <2>5
    <3>2. Half(t, p)'
      BY <1>d, <2>1, <2>2, <2>3, <2>4, <3>1, Zenon DEF Half
    <3> QED
      BY <1>d, <1>e, <1>7, <3>1, <3>2, Zenon DEF Amid
  <2>6. CASE ~exists[t]
    <3>1. pc'[t] = "write" /\ content'[fd'[t]] = Empty
      BY <2>1, <2>2, <2>3, <2>4, <2>6
    <3>2. Half(t, p)'
      BY <1>d, <2>1, <2>2, <2>3, <2>4, <3>1, Zenon DEF Half
    <3> QED
      BY <1>d, <1>e, <1>7, <3>1, <3>2, Zenon DEF Amid
  <2> QED
    BY <2>5, <2>6
<1>8. CASE p = P /\ Truncate(t)
  <2>1. /\ pc[t] = "truncate" /\ Half(t, p) /\ UNCHANGED <<meta, fd, data>>
        /\ content' = [content EXCEPT ![fd[t]] = Empty] /\ pc' = [pc EXCEPT ![t] = "write"]
    BY <1>8, <1>e, Zenon DEF Truncate, Goto, Amid, local
  <2>2. present[p] /\ fd[t] = meta[p] /\ data[t] = ref[p] /\ fd[t] \in Inodes
    BY <1>a, <2>1, Zenon DEF Half, LockInv
  <2>3. pc'[t] = "write" /\ content'[fd[t]] = Empty
    BY <1>a, <2>1, <2>2, Zenon DEF TypeOK
  <2>4. Half(t, p)'
    BY <1>d, <2>1, <2>2, <2>3, Zenon DEF Half
  <2> QED
    BY <1>d, <1>e, <1>8, <2>3, <2>4, Zenon DEF Amid
<1>9. CASE p = P /\ Write(t)
  <2>1. pc[t] = "write" /\ Half(t, p) /\ UNCHANGED meta /\ Finish(t, "idle")
    BY <1>9, <1>e, Zenon DEF Write, Amid
  <2>2. /\ present[p] /\ fd[t] = meta[p] /\ data[t] = ref[p] /\ fd[t] \in Inodes
        /\ content[fd[t]] = Empty
    BY <1>a, <2>1, Zenon DEF Half, LockInv
  <2>3. content' = [content EXCEPT ![fd[t]] = data[t]]
    BY <1>9, <2>2, Zenon DEF Write
  <2>4. Calm(p)'
    BY <1>a, <1>b, <1>d, <2>1, <2>2, <2>3, Zenon DEF Calm, TypeOK
  <2>5. pc'[t] = "idle"
    BY <1>a, <2>1 DEF Finish, Goto, TypeOK
  <2> QED
    BY <1>e, <2>4, <2>5, Zenon DEF Amid
<1> QED
  BY <1>2, <1>3, <1>4, <1>5, <1>6, <1>7, <1>8, <1>9 DEF Handle

\* A call that begins finds the metadata right, or takes part in the loss of ref.
LEMMA EnterRef ==
    ASSUME IInv, AInv, StepsInv', NEW t \in Threads, Enter(t), NEW p \in Paths, ref'[p] # Any
    PROVE  RefAt(p)'
<1> DEFINE others == {u \in Threads \ {t} : Busy(u)}
           met == IF others = {} THEN {} ELSE others \cup {t}
<1>a. TypeOK /\ StepsInv /\ RefAt(p)
  BY DEF IInv, AInv
<1>b. /\ UNCHANGED <<present, meta, content>> /\ ~Busy(t)
      /\ \A u \in Threads : u # t => pc'[u] = pc[u] /\ call'[u] = call[u]
      /\ pc'[t] \in {"kernel", "delete", "rmdir"}
  BY <1>a, EnterFrame
<1>c. /\ ref'[p] = ref[p] /\ (others = {} => alone'[t])
      /\ \A u \in met : call'[u].kind = "stat" \/ p \notin Tree(call'[u].path)
  BY Zenon DEF Enter
<1>d. \A u \in Threads : Amid(u, p) => Touches(u, p)
  BY <1>a, TreeFacts, Zenon DEF Amid, Touches, StepsInv, Busy, Modifying
<1>e. \A u \in Threads : Amid(u, p)' => Touches(u, p)'
  BY TreeFacts, Zenon DEF Amid, Touches, StepsInv, Busy, Modifying
<1>1. Calm(p) => Calm(p)'
  BY <1>b, <1>c, CalmStays
<1>2. CASE others = {}
  <2>1. \A u \in Threads : ~Busy(u) /\ (Busy(u)' => u = t)
    BY <1>2, <1>b DEF Busy
  <2>2. Calm(p)'
    BY <1>a, <1>c, <1>d, <1>1, <2>1, Zenon DEF RefAt, Touches
  <2>3. Half(t, p)' \/ pc'[t] = "delete"
    BY <1>b, <2>2, Zenon DEF Half
  <2>4. \A u \in Threads : Amid(u, p)' => u = t /\ pc'[t] # "delete"
    BY <1>e, <2>1 DEF Touches, Amid
  <2>5. \A u \in Threads : Touches(u, p)' => u = t
    BY <2>1 DEF Touches
  <2> QED
    BY <1>2, <1>c, <2>2, <2>3, <2>4, <2>5, Zenon DEF RefAt
<1>3. CASE others # {}
  <2>1. \A u \in Threads : Busy(u)' => u \in met
    BY <1>3, <1>b DEF Busy
  <2>2. \A u \in Threads : ~Touches(u, p)'
    BY <1>c, <2>1 DEF Touches, PathOf
  <2>3. \A u \in Threads : Touches(u, p) => Touches(u, p)'
    BY <1>b DEF Touches, Busy, PathOf
  <2> QED
    BY <1>a, <1>c, <1>d, <1>e, <1>1, <2>2, <2>3, Zenon DEF RefAt
<1> QED
  BY <1>2, <1>3

LEMMA AloneInvariance == Spec => [](IInv /\ AInv)
<1>1. Init => IInv /\ AInv
  <2> SUFFICES ASSUME Init PROVE IInv /\ AInv
    OBVIOUS
  <2>a. IInv
    BY InitIInv
  <2>b. 1 \in Inodes /\ Default \in Data /\ 0 \notin Inodes
    BY FirstInode DEF Default, Both, Data, Inodes
  <2>1. RestOK
    BY <2>b DEF Init, RestOK, Data
  <2>2. StepsInv /\ AloneInv
    BY Zenon DEF Init, StepsInv, AloneInv, Busy, Paths, NoCall
  <2>3. ASSUME NEW p \in Paths PROVE RefAt(p)
    <3>1. Calm(p)
      <4>1. PICK old \in [chmod : Modes, owner : Owners] \cup {Default} :
                LET kept(q) == q = "file" /\ old # Default IN
                /\ present = [q \in Paths |-> q = "dir" \/ kept(q)]
                /\ meta = [q \in Paths |-> IF kept(q) THEN 1 ELSE 0]
                /\ content = [i \in Inodes |-> IF i = 1 /\ kept("file") THEN old ELSE Empty]
                /\ ref = [q \in Paths |-> IF kept(q) THEN old ELSE Default]
        BY DEF Init
      <4>2. CASE p = "file" /\ old # Default
        <5>1. meta[p] = 1 /\ present[p] /\ ref[p] = old
          BY <4>1, <4>2, Zenon
        <5>2. content[1] = old
          BY <2>b, <4>1, <4>2
        <5> QED
          BY <5>1, <5>2 DEF Calm
      <4>3. CASE ~(p = "file" /\ old # Default)
        BY <4>1, <4>3 DEF Calm
      <4> QED
        BY <4>2, <4>3
    <3>2. \A t \in Threads : ~Touches(t, p) /\ ~Amid(t, p)
      BY DEF Init, Touches, Amid, Busy
    <3> QED
      BY <3>1, <3>2 DEF RefAt
  <2> QED
    BY <2>a, <2>1, <2>2, <2>3 DEF AInv
<1>2. IInv /\ AInv /\ [Next]_vars => (IInv /\ AInv)'
  <2> SUFFICES ASSUME IInv, AInv, [Next]_vars PROVE IInv' /\ AInv'
    OBVIOUS
  <2>1. IInv' /\ RestOK' /\ StepsInv' /\ AloneInv'
    BY MetadataStep, RestStep, StepsStep, AloneStep
  <2>2. ASSUME NEW p \in Paths PROVE RefAt(p)'
    <3>1. CASE UNCHANGED vars
      <4>1. UNCHANGED <<present, metadir, meta, content, pc, call, exists, fd, data, alone, ref>>
        BY <3>1 DEF vars, fs, local
      <4>2. Calm(p)' = Calm(p)
        BY <4>1 DEF Calm
      <4>3. \A t \in Threads : /\ Touches(t, p)' = Touches(t, p) /\ Amid(t, p)' = Amid(t, p)
                               /\ Half(t, p)' = Half(t, p)
        BY <4>1, <4>2 DEF Touches, Amid, Half, Updated, Busy, PathOf
      <4> QED
        BY <4>1, <4>2, <4>3 DEF AInv, RefAt
    <3>2. CASE ref'[p] = Any
      BY <3>2 DEF RefAt
    <3>3. CASE ref'[p] # Any
      BY <3>1, <3>3, <2>1, KernelRef, HandleRef, EnterRef DEF Next, Over, IInv
    <3> QED
      BY <3>2, <3>3
  <2> QED
    BY <2>1, <2>2 DEF AInv
<1> QED
  BY <1>1, <1>2, PTL DEF Spec

\* One step of a call that nobody overlaps.
AloneRight(t) ==
    (Busy(t) /\ pc'[t] # pc[t] /\ alone[t] /\ ref[PathOf(t)] # Any) =>
        /\ pc'[t] # "failed"
        /\ (pc[t] \in {"check", "parse"} /\ pc'[t] = "idle") => data'[t] = ref[PathOf(t)]

LEMMA AloneRightStep ==
    ASSUME IInv, AInv, [Next]_vars, NEW t \in Threads
    PROVE  AloneRight(t)
<1> DEFINE P == PathOf(t)
<1> SUFFICES ASSUME Busy(t), pc'[t] # pc[t], alone[t], ref[P] # Any
             PROVE  /\ pc'[t] # "failed"
                    /\ (pc[t] \in {"check", "parse"} /\ pc'[t] = "idle") => data'[t] = ref[P]
  BY Zenon DEF AloneRight
<1>a. TypeOK /\ RestOK /\ StepsInv /\ AloneInv /\ P \in Paths
  BY DEF IInv, AInv, TypeOK, Calls, PathOf
<1>1. Handle(t)
  <2>1. ~UNCHANGED vars
    BY DEF vars
  <2>2. ASSUME NEW u \in Threads, Enter(u) PROVE FALSE
    BY <1>a, <2>2, EnterFrame
  <2>3. ASSUME NEW u \in Threads, Handle(u) PROVE u = t
    BY <1>a, <2>3, HandleFrame, Zenon
  <2> QED
    BY <2>1, <2>2, <2>3, Zenon DEF Next, Over
<1>2. /\ (~Amid(t, P) => Calm(P)) /\ (Amid(t, P) => Half(t, P))
      /\ ref[P] \in Data
  BY <1>a, <1>1, RefAtMover, Zenon DEF RestOK
<1>3. CASE Delete(t) \/ Rmdir(t) \/ Kernel(t) \/ Save(t) \/ Truncate(t)
  BY <1>3, <1>a DEF Delete, Rmdir, Kernel, Save, Truncate, Goto, TypeOK
<1>4. CASE Open(t)
  <2>1. pc[t] = "open" /\ metadir[P]
    BY <1>4, <1>2 DEF Open, Amid, Half
  <2> QED
    BY <1>4, <1>a, <2>1, Zenon DEF Open, Goto, TypeOK
<1>5. CASE Lock(t)
  <2>1. pc[t] = "lock" /\ (exists[t] => Parses(fd[t]))
    BY <1>5, <1>2, Zenon DEF Lock, Amid, Half, Parses
  <2> QED
    BY <1>5, <1>a, <2>1 DEF Lock, Locked, Goto, TypeOK
<1>6. CASE Write(t)
  BY <1>6, <1>a DEF Write, Finish, Goto, TypeOK
<1>7. CASE Check(t)
  <2>1. pc[t] = "check" /\ Calm(P)
    BY <1>7, <1>2, Zenon DEF Check, Amid
  <2>2. data'[t] = Default /\ pc'[t] = IF present[P] /\ meta[P] # 0 THEN "read" ELSE "idle"
    BY <1>7, <1>a, Zenon DEF Check, HasMetadataPath, Goto, TypeOK
  <2> QED
    BY <2>1, <2>2, Zenon DEF Calm
<1>8. CASE Read(t)
  <2>1. pc[t] = "read" /\ meta[P] # 0
    BY <1>8, <1>a, Zenon DEF Read, AloneInv
  <2> QED
    BY <1>8, <1>a, <2>1 DEF Read, Goto, TypeOK
<1>9. CASE Parse(t)
  <2>1. pc[t] = "parse" /\ Calm(P) /\ fd[t] = meta[P]
    BY <1>9, <1>a, <1>2, Zenon DEF Parse, Amid, AloneInv
  <2>2. fd[t] # 0
    BY <2>1 DEF IInv, LockInv, Inodes
  <2>3. content[fd[t]] = ref[P] /\ Parses(fd[t])
    BY <1>2, <2>1, <2>2, Zenon DEF Calm, Parses
  <2> QED
    BY <1>9, <1>a, <2>3 DEF Parse, Finish, Goto, TypeOK
<1> QED
  BY <1>1, <1>3, <1>4, <1>5, <1>6, <1>7, <1>8, <1>9, Zenon DEF Handle

\* Whatever the number of tracers and of calls: a call that no other one overlaps is
\* never failed for its metadata, and a stat reports what the last successful call gave
\* the file, unless a race has lost it before.  (augment_sys_paths,
\* replace_statbuf_result, save_, read_ and delete_metadata_for_file)
THEOREM CallsAloneAreRight == Spec => AloneIsRight
<1>1. IInv /\ AInv /\ [Next]_vars => [\A t \in Threads : AloneRight(t)]_vars
  BY AloneRightStep
<1> QED
  BY <1>1, AloneInvariance, PTL DEF Spec, AloneIsRight, AloneRight
=============================================================================
