------------------------------ MODULE TraceeMem ------------------------------
(***************************************************************************)
(* How a tracer writes into and reads from the memory of its tracee: the   *)
(* stack of tracee_stack_append (handler_async.rs), with the word-wise     *)
(* helpers of ptrace/src/mem_slow.rs below the tracee's own stack or those *)
(* of mem_direct.rs in the shared region, and the reads of both.           *)
(*                                                                         *)
(*   0        Sp - SafeZone     Sp      Region       Region + SafeZone     *)
(*   | appended, slow | safe zone | ... | appended, direct | guest | end   *)
(***************************************************************************)
EXTENDS Integers, Sequences, FiniteSetsExt

CONSTANTS
    Word,       \* USIZE_SIZE
    SafeZone,   \* STACK_SAFE_ZONE_SIZE
    Buffer,     \* READ_BUFFER_SIZE
    Sp,         \* stack pointer of the tracee
    Region,     \* TRACEE_WRITE_REGION_ADDR
    MemSize,    \* addresses from here on are not mapped
    Chunks,     \* byte strings the augments append
    MaxCalls    \* bound: system calls of a behaviour

ASSUME TraceeMemAssumption ==
    /\ Word \in Nat \ {0} /\ Buffer \in Nat \ {0} /\ {SafeZone, Sp, Region, MemSize} \subseteq Nat
    /\ SafeZone % Word = 0 /\ Buffer % Word = 0 /\ Chunks \subseteq Seq(0..255)
    /\ SafeZone <= Sp /\ Sp <= MemSize /\ Region + SafeZone <= MemSize

VARIABLES
    helpers,    \* "slow" or "direct": get_mem_helper
    mem,        \* bytes of the tracee
    offset,     \* tracee_stack_offset
    placed,     \* history: what was appended during this system call, and where
    guestMem,   \* history: the memory before the first append
    calls       \* system calls so far

vars == <<helpers, mem, offset, placed, guestMem, calls>>

Addresses == 0..(MemSize - 1)
Mapped(a) == a \in Addresses

\* A guest with some data of its own at the end of its memory.
Init ==
    /\ helpers \in {"slow", "direct"}
    /\ \E data \in [(Region + SafeZone)..(MemSize - 1) -> {0, 1}] :
          mem = [a \in Addresses |-> IF a \in DOMAIN data THEN data[a] ELSE 3]
    /\ offset = 0 /\ placed = <<>> /\ guestMem = mem /\ calls = 1

-----------------------------------------------------------------------------
(* Writing *)

\* The bytes of bytes_to_usizes: whole words, the last one never full.
Padded(bytes) ==
    LET size == (Len(bytes) \div Word + 1) * Word
    IN [i \in 1..size |-> IF i <= Len(bytes) THEN bytes[i] ELSE 0]

\* The memory after bytes have been written from address a on.
Written(a, bytes) ==
    [b \in Addresses |-> IF b - a + 1 \in DOMAIN bytes THEN bytes[b - a + 1] ELSE mem[b]]

\* As a slip: the next write starts where the bytes end, not the words.
WriteSlowUnpadded(bytes) ==
    LET words == Padded(bytes)
        start == Sp - (offset + SafeZone + Len(words))
    IN [ok |-> offset % Word = 0 /\ start >= 0, addr |-> start,
        mem |-> Written(start, words), offset |-> offset + (Len(bytes) \div Word) * Word]

\* As a slip: the safe zone is not left free.
WriteSlowInZone(bytes) ==
    LET words == Padded(bytes)
        start == Sp - (offset + Len(words))
    IN [ok |-> offset % Word = 0 /\ start >= 0, addr |-> start,
        mem |-> Written(start, words), offset |-> offset + Len(words)]

\* write_bytes_to_tracee of mem_slow.rs.
WriteSlow(bytes) ==
    LET words == Padded(bytes)
        start == Sp - (offset + SafeZone + Len(words))
    IN [ok |-> offset % Word = 0 /\ start >= 0, addr |-> start,
        mem |-> Written(start, words), offset |-> offset + Len(words)]

\* write_bytes_to_tracee of mem_direct.rs.
WriteDirect(bytes) ==
    [ok |-> offset < SafeZone /\ offset + Len(bytes) <= SafeZone, addr |-> Region + offset,
     mem |-> Written(Region + offset, bytes), offset |-> offset + Len(bytes)]

\* tracee_stack_append, with an error the handler ends on.
Append1(bytes) ==
    LET w == IF helpers = "slow" THEN WriteSlow(bytes) ELSE WriteDirect(bytes) IN
    /\ w.ok
    /\ mem' = w.mem /\ offset' = w.offset
    /\ placed' = Append(placed, [addr |-> w.addr, bytes |-> bytes])
    /\ UNCHANGED <<helpers, guestMem, calls>>

\* tracee_stack_append_str and tracee_stack_append_path add the final zero;
\* an object is appended as it is.
AppendString == \E s \in Chunks : Append1(s \o <<0>>)
AppendObject == \E s \in Chunks \ {<<>>} : Append1(s)

\* tracee_stack_seek(0) at every system call entry.
Seek ==
    /\ calls < MaxCalls
    /\ calls' = calls + 1
    /\ offset' = 0 /\ placed' = <<>>
    /\ UNCHANGED <<helpers, mem, guestMem>>

Next == AppendString \/ AppendObject \/ Seek

Spec == Init /\ [][Next]_vars

-----------------------------------------------------------------------------
(* Reading *)

Failed == -1

\* PTRACE_PEEKDATA reads a whole word or nothing.
WordReadable(a) == Mapped(a) /\ Mapped(a + Word - 1)

\* read_bytes of mem_slow.rs: word by word, the last one cut; <<>> for an error.
ReadSlow(addr, size) ==
    LET words == {addr + k * Word : k \in 0..((size + Word - 1) \div Word - 1)}
    IN IF \A a \in words : WordReadable(a)
       THEN [i \in 1..size |-> mem[addr + i - 1]] ELSE <<>>

\* read_bytes of mem_direct.rs into a buffer that held `old`: what lies behind
\* the mapping leaves the buffer as it was.
ReadDirect(addr, size, old) ==
    [i \in 1..size |-> IF Mapped(addr + i - 1) THEN mem[addr + i - 1] ELSE old[i]]

\* As a slip: zeroes are counted per buffer.
UntilDirectPerBuffer(addr, n0) ==
    LET scan[s \in [at : Nat, zeroes : Nat, buffer : [1..Buffer -> Nat]]] ==
            LET i == (s.at - addr) % Buffer
                new == IF i = 0 THEN ReadDirect(s.at, Buffer, s.buffer) ELSE s.buffer
                seen == IF i = 0 THEN 0 ELSE s.zeroes
            IN IF i = 0 /\ ~Mapped(s.at) THEN Failed
               ELSE IF new[i + 1] = 0 /\ seen + 1 >= n0 THEN s.at - addr
               ELSE scan[[at |-> s.at + 1, buffer |-> new,
                          zeroes |-> IF new[i + 1] = 0 THEN seen + 1 ELSE 0]]
    IN scan[[at |-> addr, zeroes |-> 0, buffer |-> [i \in 1..Buffer |-> 0]]]

\* read_bytes_until_num_zeroes of mem_slow.rs: how many bytes are returned.
UntilSlow(addr, n0) ==
    LET scan[s \in [at : Nat, zeroes : Nat]] ==
            IF (s.at - addr) % Word = 0 /\ ~WordReadable(s.at) THEN Failed
            ELSE IF mem[s.at] = 0 /\ s.zeroes + 1 >= n0 THEN s.at - addr
            ELSE scan[[at |-> s.at + 1,
                       zeroes |-> IF mem[s.at] = 0 THEN s.zeroes + 1 ELSE 0]]
    IN scan[[at |-> addr, zeroes |-> 0]]

\* The same of mem_direct.rs: through a buffer that is filled again and again.
UntilDirect(addr, n0) ==
    LET scan[s \in [at : Nat, zeroes : Nat, buffer : [1..Buffer -> Nat]]] ==
            LET i == (s.at - addr) % Buffer
                new == IF i = 0 THEN ReadDirect(s.at, Buffer, s.buffer) ELSE s.buffer
            IN IF i = 0 /\ ~Mapped(s.at) THEN Failed
               ELSE IF new[i + 1] = 0 /\ s.zeroes + 1 >= n0 THEN s.at - addr
               ELSE scan[[at |-> s.at + 1, buffer |-> new,
                          zeroes |-> IF new[i + 1] = 0 THEN s.zeroes + 1 ELSE 0]]
    IN scan[[at |-> addr, zeroes |-> 0, buffer |-> [i \in 1..Buffer |-> 0]]]

-----------------------------------------------------------------------------
(* Properties. *)

\* What one augment appends stays as it was written until the next system call,
\* however many appends follow it.  (tracee_stack_append, write_bytes_to_tracee)
PlacedIntact ==
    \A k \in 1..Len(placed) :
        \A i \in 1..Len(placed[k].bytes) : mem[placed[k].addr + i - 1] = placed[k].bytes[i]

\* No append touches the safe zone below the stack pointer, the stack or the
\* data of the guest.  (STACK_SAFE_ZONE_SIZE, write_bytes_to_tracee)
GuestUntouched ==
    \A a \in Addresses :
        mem[a] # guestMem[a] =>
            IF helpers = "slow" THEN a < Sp - SafeZone
                                ELSE a \in Region..(Region + SafeZone - 1)

\* How many bytes precede the n0 consecutive zeroes less one that end a read at
\* addr, over mapped memory only.
Reference(addr, n0) ==
    LET ends == {a \in Addresses :
                    a - n0 + 1 >= addr /\ \A b \in (a - n0 + 1)..a : mem[b] = 0}
    IN IF ends = {} THEN Failed ELSE Min(ends) - addr

\* Both implementations return the same bytes for every string and every pointer
\* list in the tracee, at any alignment, across words and buffers; the word-wise
\* one only if the word of the final zero is mapped to its end.
\* (read_bytes_until_num_zeroes, read_bytes; MemHelpers)
ReadsAgree ==
    \A addr \in Addresses, n0 \in {1, Word} :
        LET len == Reference(addr, n0) IN
        len # Failed =>
            /\ UntilDirect(addr, n0) = len
            /\ Mapped(addr + len + Word - 1) =>
                  /\ UntilSlow(addr, n0) = len
                  /\ ReadSlow(addr, len) =
                        ReadDirect(addr, len, [i \in 1..len |-> 0])

\* A list of pointers that ends in a null pointer is read to its end: execve
\* gets "argv[2:] = argv[1:]".  (expand_exec_with_parser)
ArgvKept ==
    \A addr \in Addresses :
        LET null(k) == \A i \in 0..(Word - 1) : mem[addr + k * Word + i] = 0
            fits == {k \in 0..MemSize : Mapped(addr + (k + 1) * Word - 1)}
            nulls == {k \in fits : null(k)}
        IN nulls # {} => UntilDirect(addr, Word) >= Min(nulls) * Word
=============================================================================
