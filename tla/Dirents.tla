------------------------------- MODULE Dirents -------------------------------
(***************************************************************************)
(* A guest that lists a directory with getdents64 under pocker: the buffer *)
(* is halved at the entry, the records the kernel wrote are read, hidden   *)
(* or renamed and written back at the exit (sysaug/src/aug_paths.rs), with *)
(* the struct codecs of ptrace/src/common.rs.                              *)
(*                                                                         *)
(* Records are in words: Header words, which hold the reclen and the first *)
(* bytes of the name, and the words with the rest of it.  The size of the  *)
(* buffer, which need not be a multiple of a word, is in bytes.            *)
(***************************************************************************)
EXTENDS Integers, Sequences, SequencesExt, FiniteSetsExt

CONSTANTS
    Word,       \* bytes of a word
    Header,     \* aligned(size_of::<T::H>())
    Struct,     \* size_of::<T>(): the name has its full length
    Shrink,     \* shrink_criteria
    Names,      \* file names
    Body,       \* for a name, its words beyond the header
    Spills,     \* names of which the last word has the final zero alone
    Hidden,     \* names that a rename config without replacement matches
    Renamed,    \* for a name, what the rename configs make of it
    Dirs,       \* directories: sequences of names
    Buffers     \* sizes of the guest's buffer

ASSUME DirentsAssumption ==
    /\ Word \in Nat \ {0} /\ Header \in Nat \ {0} /\ Shrink \in Nat /\ Hidden \subseteq Names
    /\ Body \in [Names -> 0..(Struct - Header - 1)] /\ Renamed \in [Names -> Names]

VARIABLES
    dir,        \* the directory
    pos,        \* how far the kernel has listed it
    size,       \* size of the guest's buffer
    arg2,       \* the register with it
    buf,        \* words of the tracee that begin inside the buffer
    batch,      \* history: names the kernel returned last
    ret,        \* return value
    got,        \* names the guest has seen
    pc          \* "guest", "entry", "kernel", "exit", "return", "done", "error"

vars == <<dir, pos, size, arg2, buf, batch, ret, got, pc>>

Zero == [kind |-> "zero"]
Pad == [kind |-> "pad"]    \* the final zero, and bytes that were there before
Einval == -22

HeadWord(name, reclen) == [kind |-> "head", name |-> name, reclen |-> reclen]
HeadRest == [kind |-> "rest"]
NameWord(name, i) == [kind |-> "name", name |-> name, i |-> i]

\* The words of a header.
HeadWords(name, reclen) ==
    [i \in 1..Header |-> IF i = 1 THEN HeadWord(name, reclen) ELSE HeadRest]

\* The words after the header of a name the kernel or get_name() has written.
NameWords(name, last) ==
    [i \in 1..Body[name] |->
        IF i = Body[name] /\ name \in Spills THEN last ELSE NameWord(name, i)]

Init ==
    /\ dir \in Dirs /\ pos = 0
    /\ size \in Buffers /\ arg2 = size
    /\ buf = [i \in 1..((size + Word - 1) \div Word) |-> HeadRest]
    /\ batch = <<>> /\ ret = 0 /\ got = <<>> /\ pc = "guest"

\* The guest asks for more.
Call ==
    /\ pc = "guest"
    /\ arg2' = size /\ pc' = "entry"
    /\ UNCHANGED <<dir, pos, size, buf, batch, ret, got>>

\* As a slip: the buffer keeps its size.
EntryWhole ==
    /\ pc = "entry"
    /\ pc' = "kernel"
    /\ UNCHANGED <<dir, pos, size, arg2, buf, batch, ret, got>>

\* augment_sys_paths before the system call: "make the buffer seem smaller".
Entry ==
    /\ pc = "entry"
    /\ arg2' = arg2 \div 2 /\ pc' = "kernel"
    /\ UNCHANGED <<dir, pos, size, buf, batch, ret, got>>

-----------------------------------------------------------------------------
(* The kernel *)

\* The words of names in the layout of the kernel, reclen included.
Records(names, last) ==
    FlattenSeq([k \in 1..Len(names) |->
        HeadWords(names[k], Header + Body[names[k]]) \o NameWords(names[k], last)])

\* The buffer with words at its front.
Overwritten(words) == [i \in DOMAIN buf |-> IF i <= Len(words) THEN words[i] ELSE buf[i]]

\* As many records as fit; none at the end, an error if the first does not fit.
Kernel ==
    /\ pc = "kernel" /\ pc' = "exit"
    /\ \E last \in {Zero, Pad} :
        LET taken(k) == SubSeq(dir, pos + 1, pos + k)
            k == Max({j \in 0..(Len(dir) - pos) : Word * Len(Records(taken(j), last)) <= arg2})
        IN /\ batch' = taken(k) /\ pos' = pos + k
           /\ buf' = Overwritten(Records(taken(k), last))
           /\ ret' = IF k = 0 /\ pos < Len(dir) THEN Einval ELSE Len(Records(taken(k), last))
    /\ UNCHANGED <<dir, size, arg2, got>>

-----------------------------------------------------------------------------
(* The tracer at the exit *)

Err == [err |-> TRUE]

\* read_bytes_to_structs: the records in the first total words, each of them
\* extended with zeroes to the size of T; Err for one that does not fit.
ReadStructs(total) ==
    LET from[a \in Nat] ==
            IF a >= total THEN <<>>
            ELSE LET reclen == buf[a + 1].reclen
                     rest == reclen - Header
                 IN IF \/ a + Header > total \/ reclen < Header
                       \/ reclen > Struct \/ a + reclen > total
                    THEN <<Err>>
                    ELSE <<[err |-> FALSE, name |-> buf[a + 1].name, reclen |-> reclen,
                            words |-> [i \in 1..(Struct - Header) |->
                                          IF i <= rest THEN buf[a + Header + i] ELSE Zero]]>>
                         \o from[a + reclen]
    IN from[0]

\* The struct after its name has been filled with zeroes and overwritten.
WithName(item, name) ==
    [item EXCEPT !.name = name,
                 !.words = [i \in 1..(Struct - Header) |->
                               IF i <= Body[name] THEN NameWords(name, Zero)[i] ELSE Zero]]

\* What get_mod_path makes of the entries; is_delete and dirents.retain.
Modified(items) ==
    LET kept == SelectSeq(items, LAMBDA item : item.name \notin Hidden)
    IN [k \in 1..Len(kept) |->
           IF Renamed[kept[k].name] = kept[k].name THEN kept[k]
           ELSE WithName(kept[k], Renamed[kept[k].name])]

\* The words after a header without the zeroes beyond the first Shrink of a run.
Shrunk(words) ==
    LET keeps(i) == \/ words[i] # Zero
                    \/ i <= Shrink
                    \/ \E j \in (i - Shrink)..(i - 1) : words[j] # Zero
        kept == SetToSortSeq({i \in 1..Len(words) : keeps(i)}, <)
    IN [k \in 1..Len(kept) |-> words[kept[k]]]

\* As a slip: item_size_updater is not called.
WrittenItemStale(item) == HeadWords(item.name, item.reclen) \o Shrunk(item.words)

\* One struct as write_structs_to_tracee writes it: reclen changes if words
\* have been left out.
WrittenItem(item) ==
    LET words == Shrunk(item.words)
        skipped == Len(item.words) - Len(words)
    IN HeadWords(item.name, IF skipped > 0 THEN Struct - skipped ELSE item.reclen) \o words

\* replace_getdents_result, and the early returns before it.
ExitEmpty ==
    /\ pc = "exit" /\ ret <= 0
    /\ pc' = "return"
    /\ UNCHANGED <<dir, pos, size, arg2, buf, batch, ret, got>>

\* write_structs_to_tracee runs out of room: a header has to end inside the
\* buffer, a word behind it only to begin there (checked_write).
Overflows(out, max) ==
    \E k \in DOMAIN out :
        LET start == Len(FlattenSeq([j \in 1..(k - 1) |-> WrittenItem(out[j])]))
            len == Len(WrittenItem(out[k]))
        IN \/ Word * (start + Header) > max
           \/ len > Header /\ Word * (start + len - 1) >= max

\* An error ends the handler, and the tracee with it.
Exit ==
    /\ pc = "exit" /\ ret > 0
    /\ LET items == ReadStructs(ret)
           out == Modified(items)
           words == FlattenSeq([k \in 1..Len(out) |-> WrittenItem(out[k])])
       IN IF (\E k \in 1..Len(items) : items[k].err) \/ Overflows(out, arg2 * 2)
          THEN pc' = "error" /\ UNCHANGED <<buf, ret, arg2>>
          ELSE /\ buf' = Overwritten(words) /\ ret' = Len(words)
               /\ arg2' = arg2 * 2 /\ pc' = "return"
    /\ UNCHANGED <<dir, pos, size, batch, got>>

-----------------------------------------------------------------------------
(* The guest *)

Torn == "torn"

\* The names in the first total words, as readdir finds them: reclen leads from
\* one record to the next, and a name ends inside its record.
Parsed(total) ==
    LET from[a \in Nat] ==
            IF a >= total THEN <<>>
            ELSE LET head == buf[a + 1]
                     whole == /\ head.kind = "head"
                              /\ head.reclen >= Header + Body[head.name]
                              /\ a + head.reclen <= total
                              /\ \A i \in 1..Body[head.name] :
                                    \/ buf[a + Header + i] = NameWord(head.name, i)
                                    \/ /\ i = Body[head.name] /\ head.name \in Spills
                                       /\ buf[a + Header + i] \in {Zero, Pad}
                 IN IF whole THEN <<head.name>> \o from[a + head.reclen] ELSE <<Torn>>
    IN from[0]

Return ==
    /\ pc = "return"
    /\ got' = IF ret > 0 THEN got \o Parsed(ret) ELSE got
    /\ pc' = IF ret > 0 THEN "guest" ELSE "done"
    /\ UNCHANGED <<dir, pos, size, arg2, buf, batch, ret>>

Done == pc \in {"done", "error"} /\ UNCHANGED vars

Next == Call \/ Entry \/ Kernel \/ ExitEmpty \/ Exit \/ Return \/ Done

Spec == Init /\ [][Next]_vars

-----------------------------------------------------------------------------
(* Properties *)

\* What the guest shall see of names the kernel lists.
Visible(names) ==
    LET kept == SelectSeq(names, LAMBDA name : name \notin Hidden)
    IN [k \in 1..Len(kept) |-> Renamed[kept[k]]]

\* A new name that, with the Shrink words every rewritten record grows by,
\* takes more than twice the words of the record the kernel wrote.
Outgrows(name) ==
    /\ name \notin Hidden
    /\ Header + Body[Renamed[name]] + Shrink > 2 * (Header + Body[name])

\* Halving makes up for all growth but that of a rename to a much longer name:
\* unless the batch has one, the tracer finds every record well formed, has room
\* for all it writes and stays inside the guest's buffer, at every size.  In any
\* case less than a word behind the buffer is touched.  (augment_sys_paths,
\* read_bytes_to_structs, write_structs_to_tracee, checked_write)
Fits ==
    /\ (\A k \in DOMAIN batch : ~Outgrows(batch[k])) =>
          pc # "error" /\ Word * ret <= size
    /\ Word * ret < size + Word

\* The rewritten buffer is a well formed list of exactly the entries the kernel
\* returned, without the hidden ones, with the new names of the renamed ones and
\* in the same order.  (replace_getdents_result)
BatchFaithful ==
    pc = "return" /\ batch # <<>> => Parsed(ret) = Visible(batch)

\* The end of the directory that the guest sees is the end: a hidden file is
\* the only one that hiding it hides.  (RenameConfig.replacement)
ListsAll == pc = "done" /\ ret = 0 => got = Visible(dir)

\* After the system call the register has the size the guest has put there:
\* "Restore buffer size value so program doesn't reuse wrong values crash".
SizeRestored == pc \in {"guest", "done"} => arg2 = size
=============================================================================
