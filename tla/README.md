# A verification project for pocker

pocker runs a guest program in a directory of the host (a "rootfs") without
privileges: it traces the guest with ptrace, lets a seccomp filter stop it at the
system calls of a table, and changes their arguments and results. This directory
holds TLA+ models of its parts, TLC configurations for small instances, and proofs
that TLAPS checks for all instances. `PROJECT.json` lists the components, the
source lines of each definition, the runs with their properties and mutants, the
hazards and the theorems.

    tlc -config mem.cfg MCTraceeMem          # a run: see the table of runs
    tlapm RegionsProofs.tla                  # the proofs of a module

## The system and its parts

| Part | Code | State | Operations | Module |
|---|---|---|---|---|
| Syscall and event loop | `sysaug/src/handler_sync.rs`, `handler_async.rs` | tracee's place in its call, `is_after_syscall_entry`, `tracee_seccomp_init_complete`, pending signal, calls to insert | one handler round per ptrace-stop; insertion of mmap, prctl, seccomp; skip, resume | `SyscallLoop` |
| krsm, the async runtime | `krsm/src/futures.rs` | sorted table of pending reasons, one response | register, drop, poll, unblock, filter | `KrsmTable`, `Krsm` |
| krsm's example, a JSON parser | `krsm/examples/json_parser.rs` | the future of the grammar, the table, the next character | step, filter, choose, unblock, end of the text | `JsonParser` on `KrsmTable` |
| ptrace executor | `executor/src/lib.rs` | bounded channel, `should_serve`, one result channel per request | `serve`, `execute`, `stop` | `Executor` |
| Shared regions | `ptrace/src/mem_direct.rs`, `common.rs` | vector of free regions, map from pid to region, thread-local caches | take, map, write, close | `Regions` implements `RegionPool` |
| Rootfs metadata | `sysaug/src/aug_common.rs`, `aug_paths.rs` | a JSON file per path, `flock` | save, read, delete, around chmod, chown, mkdir, open, stat, unlink, rmdir | `Metadata` |
| Tracee memory | `ptrace/src/mem_slow.rs`, `mem_direct.rs`, `handler_async.rs` | bytes of the tracee, `tracee_stack_offset` | append, seek, read a string, read a vector | `TraceeMem` |
| Directory listings | `aug_paths.rs`, `ptrace/src/common.rs` | guest's buffer, return value, size register | halve, read structs, hide, rename, write structs | `Dirents` |
| Paths and exec | `aug_common.rs`, `aug_paths.rs`, `aug_exec.rs` | tree of links and programs, path registers, argument vector | translate, follow links, expand loader and scripts | `Paths` |
| System call table, BPF filter | `syscalls.rs` | table, index by number, filter program | evaluate the table entry by entry; run the program instruction by instruction | `Filter` |
| Permission ids, seccomp augment | `aug_perms.rs`, `config.rs`, `aug_seccomp.rs`, `aug_exec.rs` | eight id slots per handler | getters and setters before and after the call; exec of set-id files; a guest's own seccomp | `Augments`, on `Filter` |
| Trees of tracees | `executor/src/lib.rs`, `handler_sync.rs`, `handler_async.rs`, `aug_waitpid.rs`, `aug_clone.rs`, `main.rs` | who traces each child, `ignore_sigstops`, stops and signals under way | clone, hand-over to a thread of the child's own, wait4, exit, fail-fast, the end of the tracer | `Family` |
| Command line, configuration, procfs | `main`, `config.rs`, `procfs` | none | | flags are constants or initial values; parsing and reads of `/proc` are not modelled |

One tracer thread per tracee runs the event loop; it wakes futures of its krsm
runtime by reason, and the futures run the augments. Where only one thread may
call ptrace, requests go through the executor to the main thread. Tracer threads
share the region tables and the metadata files; a parent's and a child's thread
share the parent's `ignore_sigstops`.

What makes this hard to test: the tracer's idea of where the tracee is rests on
counting stops; signals, forks, kills and the insertion of calls come between any
two of them; the protocol differs by kernel version and architecture; a runtime
future may be dropped at any await; threads race for regions, process numbers and
files; buffers are rewritten in place with records that grow; a child changes
tracers while the guest may signal it and wait for it.

## How the modules correspond to the code

Operators keep the names of the functions, in the case TLA+ allows. Operators
named as "slips" in comments are plausible errors; each is put in place of the
definition below it to see that a property notices (`mutants` in `PROJECT.json`).

**SyscallLoop.** The kernel side walks a tracee through the points of a system
call (`Points`, `Succ`; the order of seccomp-stop and entry-stop depends on the
version) and reports those the resume request asks for. The handler side has one
action per kind of round: `SyscallEntry`, `SyscallExit`, `InsertEntry`,
`InsertExit`, `Signal`, `ForkParent`, `ForkChild`, `ExitEvent`, `Unawaited`,
`UnknownStop`, `Crashed`. Constants choose kernel version, architecture and flags.
Signals are SIGSTOP, the kernel's SIGSYS, a SIGSYS that a process sends, SIGSEGV and
SIGUSR1; after one of them the signal loop may yield (`sigLoop`) until a round of a system call
unblocks it.

**KrsmTable, Krsm.** The table is modelled slot by slot with counts, including how
`copy_within` treats the last slots. `BinarySearch` is the loop of `binary_search_by`;
`SearchAgrees` compares it with the definition by set used elsewhere. A table
that has been full up to its last slot is `crowded`: from then on a removal leaves
a copy behind, and the properties about its contents promise nothing.

**JsonParser.** A client of the runtime that uses all of it: a grammar of `or`s and
awaits, hundreds of futures that come and go, several on one reason, filtering.
A future is the term still to be matched; `Poll` polls it as `or` and `await` do,
with every registration and every drop of a guard in order. `Derivations` is the
grammar of the comments, as sets, and the reference for `Accepts`.

**Executor.** One server, clients that are born by `Fork`, `recv_timeout` and the
second look at the flag as separate steps, `stop` at any time.

**Regions.** Thread-local caches, the two global tables under their locks, process
numbers that the kernel reuses, tracees that are killed. `RegionPool` is the
abstract pool: a set of free regions and an owner per region; `PoolSpec` maps the
tables to it.

**Metadata.** One step per system call of a tracer: exists, create_dir_all, open,
flock and read, truncate, write. The guests' calls on a directory and a file in it
are enumerated; `ref` is what the guests are entitled to see, given up (`Any`) where
calls overlapped or failed.

**TraceeMem.** Byte-accurate, with a word of two bytes and a buffer of four.
Appends of both helpers, reads of both helpers at every address, the end of the
mapping and the stale rest of a short read included.

**Dirents.** Records are sequences of words, sizes are in bytes. `Kernel` fills the
halved buffer; `Exit` reads, hides, renames and writes back, or ends the handler when
`checked_write` finds no room (`Overflows`); the guest parses and asks again.

**Paths.** A text is a path as the guest writes it or one in the rootfs. `CalcRealPath`
is the translation, `KernelFinal` what the host makes of a text, `GuestFinal` and
`GuestExec` what a process rooted in the rootfs would get. There is one call for each
combination of what the table says about a final link (`TableMode`) and what the kernel
does with it (`KernelFollows`). `ReachesGuestFile` is about the calls for which the two
agree (`Agrees`: open, lstat, statx with the flag) and, for the others (stat, statx
without the flag, linkat and its like), about paths that are no links.

**Filter.** What the compiler evaluates, one step per loop iteration: the
`define_*` macros with their panics, the index, and the pairs of instructions of
the program. `Call` and `Execute` are the kernel's run of that program on a number.

**Augments.** Extends `Filter`: a call goes through the program, a traced one is
looked up in the index and handed to its augment, the kernel answers, the augment
looks at the answer. `ExecEntry` is the change of the effective ids by a set-id file.
Both architectures, all three modes, a `usize` of five bits and a `uid_t` of three. A
`Child` starts from the configuration. No call of the table both reads ids and names
several slots; `AugmentsAssumption` says so.

**Family.** The root's thread, one thread per child, the children, and as much of the
kernel as they can tell apart: pending and dequeued SIGSTOPs, group stops, what a
tracer and what a real parent is told. `Fork`, `PrepWaited`, `PrepAttachTo` are the
parent's side of a hand-over; `AttachTo`, `SetPtraceOptions`, `HandleStop` the
child's; `Wait4` and `AugmentSysWaitpid` the augment on both sides of the call. The
guest may send SIGSTOP, SIGCONT and SIGKILL at any time and clone with
CLONE_UNTRACED.

## Runs

| Run | Bounds | Shows |
|---|---|---|
| `loop` | Linux 5.4 and 4.4, 4 calls, 2 signals of 3 kinds (SIGSYS of the kernel and of a process, SIGSEGV), handlers of the guest, `--gdb`, `--gdb-at 4`, `--fix-sigsys` | `InSync` (from 4.8 on), `GuestCallRunsOnce`, `FilteredWhenReady`, `SignalsHeardAgain`, `CallCompletes`: bookkeeping and insertions are right, the signal loop listens again after each round and no stop is left unhandled, also with the extra round for old kernels |
| `krsm` | 3 reasons, 3 futures, 4 slots, filtering | `TableSorted`, `Listed`, `NoPhantom`, `SearchAgrees`, `DeliveredByEnd` |
| `json` | all texts of up to 4 characters over four alphabets, and texts of up to 60 nested two deep; 18 slots, the fewest that suffice (the example has 1024) | `Accepts`, `NeverTooMany`, `Terminates` |
| `executor` | 3 threads, channel of 1, 2 requests each | `NoLostRequest`, `RunOnceInOrder`, `ExecuteReturns`, `StopHonoured` |
| `regions` | 3 threads, 2 process numbers, 2 regions, a failing mmap | `Exclusive`, `NoForeignBytes`, `WritesLand`, `CloseFinds`, `TablesDisjoint`, refinement `PoolSpec` |
| `metadata` | 2 tracers, 3 calls, 1 mode, 1 owner | `SavesSerialise`, `AloneIsRight`, `CallEnds` |
| `mem` | 26 bytes, 2 calls, all contents of 5 guest bytes | `PlacedIntact`, `GuestUntouched`, `ReadsAgree` |
| `dirents` | all listings of up to 4 of 6 names, one of them renamed to one that more than doubles its record; 8 buffer sizes | `Fits`, `BatchFaithful` |
| `paths` | 546 trees over 6 paths, both loaders, 6 path calls and execve | `ReachesGuestFile`, `RunsGuestProgram`, `CallReturns` |
| `augments` | 6 tables: the calls of ids and seccomp and execve, which fill the table, one that repeats a number, three that the build refuses, the empty one; 20 numbers; 2 setter calls with ids 1, -1 as `uid_t` and -1 as `usize`; a set-id file | `TracedExactly`, `RootAnswers` |
| `family` | 2 children, 2 signals, `--fail-fast` | `AlwaysTraced`, `HandoverHidden`, `HandoverEnds` |
| `paths_flag` | as `paths` | a violation: `FlagHonoured` |

Why the bounds are enough: four calls reach every order of execve, the three
insertions, a call of a signal handler between them and the first call under the
filter, with a signal at each of two stops; three reasons in four slots exercise every
shift of the table and a crowded one; four characters reach every production of the
grammar and the long texts fill the table; a full table of calls reaches
the limits of the table, the index and the filter; two children let one be handed over
while the other is waited for, and two signals allow a stop and a continuation in one
hand-over; a channel of one makes both a full and an empty channel common; three
threads over two process numbers and two regions exhaust the pool and reuse numbers;
two tracers suffice for a race on one lock, and a third call observes its result; a
word of two bytes has every alignment and every fill of the last word; the smallest
record (header only), the growth by a word or two and one beyond the double decide
whether a buffer suffices, and all occur at every position of four entries; two free paths allow chains, cycles and
scripts of scripts.

Where deadlock checking is off (`regions`, `mem`), behaviours end at a
named bound: every thread has lived, or every call has been made.

### Fairness

- `SyscallLoop`: a tracee that is resumed moves on unless the guest computes in user
  space; a stopped tracee is handled, since its thread blocks in `waitpid` only.
- `Executor`: the server and a thread inside `execute` are scheduled. A tracer need not
  issue requests; the root's thread ends after `stop`.
- `Metadata`: tracers are scheduled; `flock` is granted to a waiter again and again
  while the file is free (strong fairness of `Lock`; Linux queues waiters).
- `Paths`: the tracer and the kernel go on.
- `JsonParser`: run_parser is one sequential loop; it does not stop by itself.
- `Family`: the kernel moves a process that has something to do, and every tracer
  thread is scheduled. The guest owes nothing: it need not exit, wait or signal.

`Krsm`, `Regions`, `TraceeMem`, `Dirents`, `Filter` and `Augments` have safety
properties only.

## Proofs

| Module | Theorems | Assumptions |
|---|---|---|
| `SyscallLoopProofs` | `TypeCorrect`; `HandlerInSync`, `ReadyIsFiltered`; `GuestCallsRunOnce` | the first one: none; the others: Linux 4.8 or later, no `--fix-attach`; the last one: aarch64 too |
| `KrsmProofs` | `TableStaysSorted`, `ListIsComplete`, `ListIsTrue`, `ResponseReachesFuture`; `SearchIsRight` | one future per reason, no filtering, two slots more than reasons: pocker's use; the last one: no filtering |
| `ExecutorProofs` | `RequestsServed`, `RequestsRunOnce` | none |
| `RegionsProofs` | `RegionsExclusive`, `RegionsClean`, `RegionsWritesLand`, `RegionsCloseFinds`, `RegionsImplementPool`; `RegionTablesDisjoint` | a process number is not reused before its thread ends; the last one: none |
| `FamilyProofs` | `FamilyInvariant`, `ChildrenAlwaysTraced`, `HandoversStayHidden` | none: any number of children and signals |
| `FilterProofs` | `FilterMatchesIndex`, `RootSeesRoot` | an even word size; `usize` wider than `uid_t`; getters of one id name a slot (`AugmentsAssumption`) |
| `MetadataProofs` | `SavesAreSerial`, `CallsAloneAreRight` | finitely many tracers (`MetadataAssumption`) |
| `TraceeMemProofs` | `AppendsStayIntact`, `AppendsSpareGuest`, `HelpersAgree` | the layout of the memory (`TraceeMemAssumption`): any word, buffer and zone size, any strings |

Each rests on an inductive invariant (`IInv`; `FInv` and `AInv` in `FilterProofs`,
`OnceInv` for `GuestCallsRunOnce`, `AInv` for `CallsAloneAreRight`), with a step lemma
that has a case per action or a lemma per action. TLC has checked the invariants
first.

- **SyscallLoop.** `InSync` alone is not inductive: which stop comes next depends on how
  the tracee was resumed, which depends on which future waits, which depends on
  whether the initialisation is complete. `PositionInv` ties the three together,
  `InsertInv` says which queues of insertions and which numbers occur, and
  `FilterInv` says that a process without the filter is still inside the execve or
  the initialisation that installs it, so it cannot have forked. `OnceInv` adds
  the story of the program's call: it is under way and has not run, or it waits behind
  a rewound instruction, or it has run once (`Settled`); and between two insertions the
  remembered number belongs to a call that is still to be run, the program's or that of
  the signal handler that runs (`OnceAnchor`). Steps that only move the tracee are proved
  together (`QuietAction`).
- **Krsm.** The last two slots stay empty because the reason in slot i is at most
  NumReasons - i; so `_pending_futures_size` has one possible answer and a removal
  leaves no stale entry. `Tracking` relates the table to the waiting futures.
  `SearchIsRight` needs only that the slots descend (`Descending`), which holds of shared
  reasons and crowded tables too. Its loop is a recursive function: `LoopDefined` shows
  that a function with such a tail-recursive equation exists, and the invariant of the
  loop follows by taking the smallest window that breaks it (`LeastElement`).
- **Executor.** Every unserved request is in exactly one place: the channel, the
  server's hand, or nowhere once the server is gone and the wait ends in an error.
- **Regions.** A running thread's region is not free, not lost, listed under its pid and
  holds its own bytes only; two running threads differ in both. The refinement
  proof maps each action to a step of the pool or to a stutter. `TablesDisjoint` is
  inductive by itself and holds whenever numbers are reused, which the run leaves out.
- **Family.** `AlwaysTraced` speaks of running children only; `Handed` says for every
  state of a child who traces it, and that one without a tracer is stopped or has a
  SIGSTOP in hand that only a SIGCONT cancels. `Quiet` says that a child which no
  process of the guest has stopped has at most one group stop to report, and is in
  `ignore_sigstops` until wait4 has met that report. `RootInv` says what the root's
  thread is in the middle of.
- **Filter.** `IndexInv` and `CodeInv` say what the first `idx` rounds of each loop have
  written: the last entry of a number in the index, and the pair of entry i at
  2i - 1 and 2i in the program. `RunInv` then says that a run at instruction 2i - 1
  has passed no entry of its number. `RootAnswers` needs on top that no slot holds a
  negative id and that every slot is 0, was asked for or comes from a set-id file
  (`IdsInv`); owners of files are narrower than `usize`, so never negative.
- **Metadata.** `LockInv` says that a tracer between its lock and its write has the
  file open and holds its lock, so that no other one is in that part with the same
  inode. For `AloneIsRight`, `RefAt` says that as long as `ref` is not lost for a
  path, only calls alone touch its metadata, which is what `ref` says (`Calm`) unless
  a call is in the middle of changing it (`Amid`), and then `Half` says how far it is.
  `StepsInv` ties the step of a tracer to its call and an inode to one path.
- **TraceeMem.** `Bounded` keeps what was appended between the limit of the helpers
  and the offset, so that the next append, beyond the offset, hits neither earlier
  ones nor the guest; `InZone` keeps the offset of mem_direct.rs inside the region.
  For the reads, `Counted` is the invariant of both loops: how many zeroes precede the
  byte that is looked at. With the buffer, what has been filled in holds the bytes of
  the tracee as far as they are mapped; the stale rest lies behind the end. The loops
  are treated as the one of Krsm.

Only model-checked: all liveness properties (fairness is outside this prover);
`SearchAgrees` with filtering, whose `SelectSeq` over the reasons is recursive data;
`GuestCallRunsOnce` on kernels before 4.8; and everything about `JsonParser`,
`Dirents` and `Paths`, whose polls, records and walks would need induction over data.

## Where code and documentation disagree

`paths_flag` is the run kept for this: `args[flag_reg] | flag != 0` (aug_common.rs:292) is
true for every argument, so statx, utimensat and newfstatat never follow a link to a
path of the guest.

The models show more, each found by changing constants of a run and checking one
property of the module:

| Change | Property that fails | What the code does |
|---|---|---|
| `loop`, no handlers, no signals, only 4.4 | `InSync` without its exemption for kernels before 4.8 | the extra round also follows the one call seen at an entry-stop, and passes its exit (handler_async.rs:217) |
| the same, only 3.18 | the same | `major <= 4 && minor <= 7` takes 3.18 for a modern kernel (handler_sync.rs:220) |
| `loop`, x86_64 | `GuestCallRunsOnce` | the rewound instruction takes its number from rax, which holds -ENOSYS (handler_async.rs:593) |
| `loop`, no gdb, SIGUSR1 only, one signal, 5 calls | `RunsOnce(1)`, the same of a signal handler | a handler of the guest that runs between two insertions after a failed execve has its first call replaced by the next insertion and then run under the program's number, since `orig_syscall_num` is still set (handler_async.rs:555; line 547 has "both tracer and tracee will see the same syscall"). The program's own call is not affected (`GuestCallsRunOnce`) |
| `loop`, `--fix-attach` and `--fix-mmap` | `FilteredWhenReady` | the root execs before it is traced; a child is trusted without a filter (handler_async.rs:523) |
| `krsm`, shared reasons, 5 slots | `Listed` | two removals for one unblocked future (futures.rs:111 and 302) |
| `krsm`, 3 slots | `NoPhantom` without its exemption for a crowded table | a removal from a full table keeps the last slot (futures.rs:135) |
| `executor` | `ServeUnwraps` | `stop` before `serve` is overwritten (lib.rs:94); the test `it_works` unwraps |
| `executor` | `AllTraceesExited` | main logs "all tracees exited" when the root has (main.rs:164) |
| `regions` | `Conserved` | a killed tracee's region is not given back (handler_sync.rs:276) |
| `regions`, early reuse | `Exclusive` | a late close gives back the region of the new process (mem_direct.rs:86) |
| `regions` | `WritesLand` without its exception for a failed mmap | the result of the inserted mmap is not checked (handler_async.rs:632) |
| `metadata`, 4 calls | `RmdirLeavesNothing` | a directory without metadata of its own keeps that of its children (aug_common.rs:124) |
| `mem` | `ArgvKept` | eight zero bytes at any alignment end an argument vector (aug_exec.rs:65) |
| `dirents` | `ListsAll` | a batch in which every entry is hidden returns 0, the end of the directory (aug_paths.rs:376) |
| `dirents` | `Fits` without its exemption `Outgrows` | a new name that more than doubles a record ends the handler with `BufferOverflow`, and the last word written may reach up to a word less one byte behind the buffer, since `checked_write` looks at where it begins (ptrace/src/common.rs:252) |
| `paths` | `ReachesGuestFile` without `Agrees` | stat is `dont_follow_symlink` in the table (syscalls.rs:543), so a link to a guest path is resolved on the host; linkat, rmdir, mkdirat, fchownat with AT_SYMLINK_NOFOLLOW and openat with O_NOFOLLOW are not, so the tracer follows a link that the kernel would not have followed (syscalls.rs:355, 361) |
| `paths` | `ReachesGuestFile` without `Shown` | a path to be hidden goes to the kernel as the guest wrote it and names a file of the host (aug_paths.rs:97; config.rs:27 has "If None, pocker will hide the file at this path.") |
| `paths` | `RunsGuestProgram` without `words > 2` | a first line of more than two words is refused with ENOENT (aug_exec.rs:187); execve passes the rest of the line as one argument |
| `dirents` | `SizeRestored` | the halved size stays in the register at the end of a listing and for odd sizes (aug_paths.rs:375) |

Further disagreements that the models made visible, read off the code and stated in
no property:

- JSON (`Refused` in `JsonParser` exempts the first three): a character of several bytes
  panics, since the text is sliced byte by byte (json_parser.rs:510); most texts with an empty array
  (`[]`, `{"":[]}`, `[1,[]]`; not `[[]]`) are refused, since `unblock_futures` and the
  guard each remove a count of the shared `EmptyString` (futures.rs:111 and 302), against
  json_parser.rs:157; an escape with `u` never matches, since its branch waits for a
  slash that the other branch has taken (json_parser.rs:298). `[1,]` and text behind
  the value are accepted.
- wait4 with a null status pointer ends the guest, since the augment reads the word
  (aug_waitpid.rs:30). `ignore_sigstops` keeps an entry until a wait with WUNTRACED, and
  a SIGSTOP of the guest is swallowed until then (handler_async.rs:310). A SIGCONT during
  a hand-over lets the child run untraced (`continued` in `AlwaysTraced`), and a
  newborn that is killed ends its parent (executor/src/lib.rs:172).
- config.rs:121 has walk_resf_syscall return false "for calls like setgroups"; for a
  setter it never does, so the skip at aug_perms.rs:39 is unreachable and every setter
  reaches the kernel. common.rs:270 describes other bits for the slots than
  `PERMS_IDBIT_UG`: setreuid writes the slots that getgid reads. On x86_64 the setter of
  one id stores the result register, -ENOSYS, which under `--root` becomes 0. A -1 that
  arrives as a 32-bit number, as from glibc, is below `usize::MAX / 2` (aug_perms.rs:91),
  so it is stored and told back, against the message "Ignoring {} where id is negative".
- exec looks for the set-id bits at the untranslated path, so at a file of the host, in
  every permission mode, and keeps the ids when the call is then refused
  (aug_exec.rs:80).
- An executable that pocker cannot open, or one that is no ELF file and whose first line
  is not UTF-8, ends the handler with an error instead of failing the call
  (aug_exec.rs:102, 240), and so does a link that vanishes between `symlink_metadata` and
  `read_link` (aug_common.rs:311).
- aug_seccomp.rs:53 compares the argument of prctl(PR_SET_SECCOMP) with 1, which is
  SECCOMP_SET_MODE_FILTER of seccomp(2); the filter mode of prctl is 2.

## Abstractions and what is left out

- Metadata: open(O_CREAT) on a file that exists and calls that fail still record
  their mode; the model does so too, and promises nothing afterwards. Renames of
  files and hard links do not touch metadata in the code.
- TraceeMem: the word-wise helper fails on a string whose last word crosses the end
  of the mapping; `ReadsAgree` asks for that word to be mapped.
- Dirents: a name's padding is zero or what the buffer held before; rename patterns
  are taken to match regardless of it. The 32-bit getdents keeps the type in the last
  byte of a record and is not modelled.
- Paths: absolute paths, links as last component. A relative link to an absolute
  one, a loader path with a cycle, links in the middle of a path, `..` and relative
  program paths (which the tracer looks up from its own working directory) are left
  to the kernel or the host by the code; `Followed` excludes the first two. A link that
  vanishes while it is looked at is the error `ReadsLink`; otherwise the tree does not
  change during a call.
- JsonParser: one character stands for each class of characters, "wide" for those of
  several bytes, and one for each of true, false and null; what the functions return is abstracted to the characters
  they have taken.
- Augments: call numbers are 0 to 19 instead of the kernel's, ids have three bits in
  registers of five, ENOSYS is 3. The results of calls about ids are an id, a count, 0 or EPERM. The call
  that is let through keeps the kernel's own result for a setter.
- Family: without `--fix-attach`, where there is no hand-over. A child does not fork in
  turn: it would play the root's part for its own children. Guest threads that share
  children but not `ignore_sigstops`, and clone3, which is not in the table, are left
  out. What a tracee does between two of these events is `SyscallLoop`'s subject.

Not modelled: the layouts of registers and structs (data that differs by
architecture), procfs (reads and parsing without state), the parsing of arguments
and of the configuration, logging, relative paths and `/proc/self` (they would need the
working directories of tracer and tracee).

## Plan

1. Relative paths: working directory, `get_dirfd_path`, `/proc/self`.
2. The 32-bit getdents.
3. `Family` with children that fork and with several guest threads.
4. Proofs: the buffer arithmetic of `Dirents` (`Fits`), `SearchAgrees` with filtering.
