-------------------------------- MODULE Krsm --------------------------------
(***************************************************************************)
(* The async runtime of krsm/src/futures.rs: the fixed table of pending    *)
(* reasons, the one response a step may deliver, and the futures that      *)
(* register in the table, take the response or are dropped.                *)
(***************************************************************************)
EXTENDS KrsmTable

CONSTANTS
    NumReasons,   \* number of values of YieldReason
    NumFutures,   \* futures that may exist at once
    Shared,       \* may two futures wait for the same reason?
    Filtering     \* does the caller use filter_valid_futures?

ASSUME KrsmAssumption ==
    /\ NumReasons \in Nat /\ NumFutures \in Nat
    /\ Shared \in BOOLEAN /\ Filtering \in BOOLEAN

VARIABLES
    table,      \* pending_futures
    unblock,    \* reason of has_unblock, or 0
    stepping,   \* inside run_async_step
    polled,     \* futures polled in this step
    waitsFor,   \* per future: the reason it is pending on, or 0
    retired,    \* reasons removed by filter_valid_futures: never used again
    refused,    \* a registration has returned TooManyPending
    crowded     \* history: the table has been full up to its last slot

vars == <<table, unblock, stepping, polled, waitsFor, retired, refused, crowded>>

Reasons == 1..NumReasons
Futures == 1..NumFutures

\* Every variable has its type; no reason is counted more often than there are
\* futures.
TypeOK ==
    /\ table \in [Slots -> [reason : 0..NumReasons, count : 0..NumFutures]]
    /\ unblock \in 0..NumReasons /\ stepping \in BOOLEAN
    /\ polled \subseteq Futures /\ waitsFor \in [Futures -> 0..NumReasons]
    /\ retired \subseteq Reasons /\ refused \in BOOLEAN /\ crowded \in BOOLEAN

Init ==
    /\ table = [i \in Slots |-> None]
    /\ unblock = 0 /\ stepping = FALSE /\ polled = {}
    /\ waitsFor = [f \in Futures |-> 0]
    /\ retired = {} /\ refused = FALSE /\ crowded = FALSE

-----------------------------------------------------------------------------
(* The caller, between two steps. *)

\* unblock_futures; a second one is refused with TooManyUnblocked.
UnblockFutures(r) ==
    /\ ~stepping /\ unblock = 0
    /\ table' = Remove(table, r)
    /\ unblock' = r
    /\ UNCHANGED <<stepping, polled, waitsFor, retired, refused, crowded>>

\* filter_valid_futures drops the reasons that must never be unblocked.
FilterValidFutures(valid) ==
    /\ Filtering /\ ~stepping
    /\ table' = Filter(table, valid)
    /\ retired' = retired \cup (Reasons \ valid)
    /\ UNCHANGED <<unblock, stepping, polled, waitsFor, refused, crowded>>

\* run_async_step polls the future of the caller once ...
StartStep ==
    /\ ~stepping /\ stepping' = TRUE /\ polled' = {}
    /\ UNCHANGED <<table, unblock, waitsFor, retired, refused, crowded>>

\* ... and forgets a response nobody took.  or() and zip() poll every branch
\* or drop it, so no pending future is left unpolled.
EndStep ==
    /\ stepping /\ \A f \in Futures : waitsFor[f] # 0 => f \in polled
    /\ stepping' = FALSE /\ unblock' = 0
    /\ UNCHANGED <<table, polled, waitsFor, retired, refused, crowded>>

-----------------------------------------------------------------------------
(* The futures. *)

\* With one slot or none to spare _remove_pending_future leaves a copy behind.
Crowded(t) == MaxPending > 1 /\ t[MaxPending - 2].reason # 0

\* As a slip: the new future is not polled before its branch yields.
NewPendingFutureLazy(f, r) ==
    /\ stepping /\ waitsFor[f] = 0 /\ r \notin retired
    /\ Shared \/ \A g \in Futures : waitsFor[g] # r
    /\ polled' = polled \cup {f}
    /\ table' = Insert(table, r) /\ waitsFor' = [waitsFor EXCEPT ![f] = r]
    /\ crowded' = (crowded \/ Crowded(table'))
    /\ UNCHANGED <<unblock, stepping, retired, refused>>

\* new_pending_future registers and is polled at once: it may take the response
\* of this step, and its guard removes it again.
NewPendingFuture(f, r) ==
    /\ stepping /\ waitsFor[f] = 0 /\ r \notin retired
    /\ Shared \/ \A g \in Futures : waitsFor[g] # r
    /\ polled' = polled \cup {f}
    /\ \/ /\ Refuses(table, r) /\ refused' = TRUE
          /\ UNCHANGED <<table, unblock, waitsFor>>
       \/ /\ ~Refuses(table, r) /\ unblock = r
          /\ table' = Remove(Insert(table, r), r) /\ unblock' = 0
          /\ UNCHANGED <<waitsFor, refused>>
       \/ /\ ~Refuses(table, r) /\ unblock # r
          /\ table' = Insert(table, r) /\ waitsFor' = [waitsFor EXCEPT ![f] = r]
          /\ UNCHANGED <<unblock, refused>>
    /\ crowded' = (crowded \/ Crowded(table'))
    /\ UNCHANGED <<stepping, retired>>

\* A pending future is polled: the first one of the unblocked reason takes the
\* response, completes and is dropped.
Poll(f) ==
    /\ stepping /\ waitsFor[f] # 0 /\ f \notin polled
    /\ polled' = polled \cup {f}
    /\ IF waitsFor[f] = unblock
       THEN /\ table' = Remove(table, unblock) /\ unblock' = 0
            /\ waitsFor' = [waitsFor EXCEPT ![f] = 0]
       ELSE UNCHANGED <<table, unblock, waitsFor>>
    /\ UNCHANGED <<stepping, retired, refused, crowded>>

\* As a slip: a cancelled future stays in the table.
DropFutureLeak(f) ==
    /\ waitsFor[f] # 0
    /\ waitsFor' = [waitsFor EXCEPT ![f] = 0]
    /\ UNCHANGED <<table, unblock, stepping, polled, retired, refused, crowded>>

\* A pending future is cancelled: FutureDropGuard.
DropFuture(f) ==
    /\ waitsFor[f] # 0
    /\ table' = Remove(table, waitsFor[f])
    /\ waitsFor' = [waitsFor EXCEPT ![f] = 0]
    /\ UNCHANGED <<unblock, stepping, polled, retired, refused, crowded>>

Next ==
    \/ \E r \in Reasons : UnblockFutures(r)
    \/ \E valid \in SUBSET Reasons : FilterValidFutures(valid)
    \/ StartStep \/ EndStep
    \/ \E f \in Futures :
          Poll(f) \/ DropFuture(f) \/ \E r \in Reasons : NewPendingFuture(f, r)

Spec == Init /\ [][Next]_vars

-----------------------------------------------------------------------------
(* Properties. *)

\* Until it has been crowded the table stays strictly descending with the empty
\* slots last: the order every binary search relies on.  (_remove_pending_future,
\* new_pending_future, filter_valid_futures)
TableSorted ==
    ~crowded =>
        /\ \A i \in Slots : (table[i].reason = 0) <=> (table[i].count = 0)
        /\ \A i, j \in Slots :
              i < j => table[i].reason > table[j].reason \/ table[j].reason = 0

\* Until the table is crowded, between steps the caller learns every reason a
\* future waits for, unless it was filtered out: it can always find out what to
\* unblock.  (check_pending_reasons)
Listed ==
    (~crowded /\ ~stepping /\ unblock = 0) =>
        \A f \in Futures : waitsFor[f] \in PendingReasons(table) \cup retired \cup {0}

\* Until the table is crowded, a reason is offered to the caller only while a
\* future waits for it.
\* (FutureDropGuard, check_pending_reasons)
NoPhantom ==
    ~crowded =>
        \A r \in PendingReasons(table) : \E f \in Futures : waitsFor[f] = r

\* On every table the runtime produces, crowded or not, the loop of binary_search_by
\* returns what the model takes its result to be: for a reason, and for None in
\* _pending_futures_size, whose comparison is never greater, so that the loop ends
\* at the last slot.
SearchAgrees ==
    /\ BinarySearch(table, 0).index = Size(table)
    /\ \A r \in Reasons :
          BinarySearch(table, r) =
              IF Found(table, r) THEN [ok |-> TRUE, index |-> IndexOf(table, r)]
                                 ELSE [ok |-> FALSE, index |-> InsertIndex(table, r)]

\* With room for every reason no registration fails.  (new_pending_future)
NeverRefused == ~refused

\* A response is thrown away at the end of a step only if no future waits for it.
\* (run_async_step, FutureDropGuard::build)
DeliveredByEnd ==
    [][(stepping /\ ~stepping' /\ unblock # 0) =>
          \A f \in Futures : waitsFor[f] # unblock]_vars
=============================================================================
